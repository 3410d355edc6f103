----------------------------- MODULE ModelsProofs -----------------------------
(* The programs that compute what the analyses are given. char_liberty.py, for *)
(* any list of cells of its table, any selections and any simulations: the     *)
(* bisection keeps what it looks for between its ends and narrows them to one  *)
(* step of the grid; the decks measure arcs and edges that the cells have.     *)
(* extract_tr1um_parasitics.py, for any layout: wires are cut at every place   *)
(* where something touches them, and what touches is joined there.             *)
(* run_post_layout_digital.py, for any package: the views derived for OpenSTA  *)
(* and Icarus are those of the design.                                         *)
EXTENDS Characterisation, Parasitics, TimingViews, FiniteSetTheorems, SequenceTheorems, WellFoundedInduction, TLAPS

-----------------------------------------------------------------------------
(* The bisection.                                                            *)

\* How far the ends are apart after so many turns.
Width == [n \in 0..Halvings |->
            CASE n = 0 -> 256 [] n = 1 -> 128 [] n = 2 -> 64 [] n = 3 -> 32 [] n = 4 -> 16
              [] n = 5 -> 8 [] n = 6 -> 4 [] n = 7 -> 2 [] n = 8 -> 1]

\* Each width is even until the last, and the next is half of it.
LEMMA WidthHalves ==
  ASSUME NEW n \in 0..Halvings, n < Halvings
  PROVE  /\ Width[n] \in Nat /\ Width[n] = 2 * Width[n + 1] /\ Width[n + 1] > 0
         /\ n + 1 \in 0..Halvings
<1>1. n \in {0, 1, 2, 3, 4, 5, 6, 7}
  BY DEF Halvings
<1>2. QED
  BY <1>1 DEF Width, Halvings

\* The inductive invariant: the ends are bracketed and exactly a width apart; a
\* search that has returned by halving has halved to the end.
Narrowed ==
  /\ stage \in {"baseline", "near"} => good = Span /\ bad = 0 /\ turn = 0
  /\ stage = "near" => pass[good]
  /\ stage = "halving" => good - bad = Width[turn] /\ pass[good] /\ ~pass[bad]
  /\ stage = "returned" /\ constraint > 0 =>
       good - bad = 1 /\ constraint = good + bad /\ pass[good] /\ ~pass[bad]

SearchInv == SearchTypeOK /\ Narrowed

LEMMA SearchInit_Inv == SearchInit => SearchInv
  BY MeasurementsAssumption
  DEF SearchInit, SearchInv, SearchTypeOK, Narrowed, Grid, Span, Halvings, Unmeasured

\* The middle of two ends an even distance apart lies halfway, on the grid.
LEMMA MiddleIsHalfway ==
  ASSUME NEW g \in Grid, NEW b \in Grid, NEW w \in Nat, w > 0, g - b = 2 * w
  PROVE  /\ (g + b) \div 2 = b + w /\ b + w \in Grid
         /\ g - (b + w) = w
<1>1. g = b + (2 * w) /\ g \in Int /\ b \in Int
  BY DEF Grid, Span
<1>2. g + b = 2 * (b + w)
  BY <1>1
<1>3. (2 * (b + w)) \div 2 = b + w
  BY <1>1
<1>4. b + w \in Grid
  BY <1>1 DEF Grid, Span
<1>5. (g + b) \div 2 = b + w
  BY <1>2, <1>3
<1>6. g - (b + w) = w
  BY <1>1
<1>7. QED
  BY <1>4, <1>5, <1>6

LEMMA SearchStep_Inv == SearchInv /\ [SearchNext]_searchVars => SearchInv'
<1> SUFFICES ASSUME SearchInv, [SearchNext]_searchVars PROVE SearchInv'
  OBVIOUS
<1> USE DEF SearchInv
<1>1. CASE Baseline
  <2>1. SearchTypeOK'
    BY <1>1 DEF Baseline, SearchTypeOK
  <2>2. Narrowed'
    BY <1>1 DEF Baseline, SearchTypeOK, Narrowed
  <2>3. QED
    BY <2>1, <2>2
<1>2. CASE TryNear
  <2>1. SearchTypeOK'
    <3>1. 0 \in 0..(2 * Span)
      BY DEF Span
    <3>2. constraint' \in {Unmeasured} \cup 0..(2 * Span)
      BY <1>2, <3>1 DEF TryNear, SearchTypeOK
    <3>3. stage' \in {"returned", "halving"}
      BY <1>2 DEF TryNear
    <3>4. QED
      BY <1>2, <3>2, <3>3 DEF TryNear, SearchTypeOK
  <2>2. good - bad = Width[turn]
    BY <1>2 DEF TryNear, Narrowed, Width, Halvings, Span
  <2>3. Narrowed'
    BY <1>2, <2>2 DEF TryNear, SearchTypeOK, Narrowed
  <2>4. QED
    BY <2>1, <2>3
<1>3. CASE Halve
  <2>1. /\ turn \in 0..Halvings /\ turn < Halvings /\ good \in Grid /\ bad \in Grid
        /\ stage = "halving" /\ stage' = "halving" /\ turn' = turn + 1 /\ pass' = pass
        /\ constraint' = constraint
    BY <1>3 DEF Halve, SearchTypeOK
  <2> DEFINE w == Width[turn + 1]
  <2>2. w \in Nat /\ w > 0 /\ good - bad = 2 * w /\ turn + 1 \in 0..Halvings
    <3>1. Width[turn] \in Nat /\ Width[turn] = 2 * w /\ w > 0 /\ turn + 1 \in 0..Halvings
      BY <2>1, WidthHalves
    <3>2. w \in Nat
      <4>1. turn + 1 \in {1, 2, 3, 4, 5, 6, 7, 8}
        BY <2>1 DEF Halvings
      <4>2. QED
        BY <4>1 DEF Width, Halvings
    <3>3. good - bad = Width[turn]
      BY <2>1 DEF Narrowed
    <3>4. QED
      BY <3>1, <3>2, <3>3
  <2> HIDE DEF w
  <2>3. Middle = bad + w /\ bad + w \in Grid /\ good - (bad + w) = w
    BY <2>1, <2>2, MiddleIsHalfway DEF Middle
  <2>4. CASE pass[Middle]
    <3>1. good' = bad + w /\ bad' = bad
      BY <1>3, <2>3, <2>4 DEF Halve
    <3>2. good' - bad' = w
      BY <2>1, <2>2, <3>1 DEF Grid, Span
    <3>3. SearchTypeOK'
      BY <2>1, <2>2, <2>3, <3>1 DEF SearchTypeOK
    <3>4. pass[good'] /\ ~pass[bad']
      BY <2>1, <2>3, <2>4, <3>1 DEF Narrowed
    <3>5. Narrowed'
      BY <2>1, <3>2, <3>4 DEF Narrowed, w
    <3>6. QED
      BY <3>3, <3>5
  <2>5. CASE ~pass[Middle]
    <3>1. good' = good /\ bad' = bad + w
      BY <1>3, <2>3, <2>5 DEF Halve
    <3>2. good' - bad' = w
      BY <2>3, <3>1
    <3>3. SearchTypeOK'
      BY <2>1, <2>2, <2>3, <3>1 DEF SearchTypeOK
    <3>4. pass[good'] /\ ~pass[bad']
      BY <2>1, <2>3, <2>5, <3>1 DEF Narrowed
    <3>5. Narrowed'
      BY <2>1, <3>2, <3>4 DEF Narrowed, w
    <3>6. QED
      BY <3>3, <3>5
  <2>6. QED
    BY <2>4, <2>5
<1>4. CASE Return
  <2>1. good - bad = 1
    BY <1>4 DEF Return, SearchTypeOK, Narrowed, Width, Halvings
  <2>2. SearchTypeOK'
    BY <1>4 DEF Return, SearchTypeOK, Grid, Span
  <2>3. Narrowed'
    BY <1>4, <2>1 DEF Return, SearchTypeOK, Narrowed
  <2>4. QED
    BY <2>2, <2>3
<1>5. CASE UNCHANGED searchVars
  BY <1>5 DEF searchVars, SearchTypeOK, Narrowed
<1>6. QED
  BY <1>1, <1>2, <1>3, <1>4, <1>5 DEF SearchNext

THEOREM SearchInvariant == SearchSpec => []SearchInv
  BY SearchInit_Inv, SearchStep_Inv, PTL DEF SearchSpec

LEMMA Inv_Bracketed == SearchInv => Bracketed
<1> SUFFICES ASSUME SearchInv, stage = "halving" PROVE bad < good /\ pass[good] /\ ~pass[bad]
  BY DEF Bracketed
<1>1. good - bad = Width[turn] /\ pass[good] /\ ~pass[bad] /\ turn \in 0..Halvings
      /\ good \in Int /\ bad \in Int
  BY DEF SearchInv, SearchTypeOK, Narrowed, Grid, Span
<1>2. Width[turn] > 0
  <2>1. turn \in {0, 1, 2, 3, 4, 5, 6, 7, 8}
    BY <1>1 DEF Halvings
  <2>2. QED
    BY <2>1 DEF Width, Halvings
<1>3. QED
  BY <1>1, <1>2

\* What is looked for never leaves the interval, for every cell and however
\* erratic its simulations are.
THEOREM SearchIsBracketed == SearchSpec => []Bracketed
  BY SearchInvariant, Inv_Bracketed, PTL

LEMMA Inv_Within == SearchInv => WithinAStep
  BY DEF SearchInv, SearchTypeOK, Narrowed, WithinAStep, Grid, Span, Unmeasured

\* What is returned lies between two neighbours, one in time and one not.
THEOREM SearchIsWithinAStep == SearchSpec => []WithinAStep
  BY SearchInvariant, Inv_Within, PTL

LEMMA Inv_Tight == SearchInv => ConstraintIsTight
<1> SUFFICES ASSUME SearchInv, stage = "returned", constraint > 0, Monotone, NEW o \in Grid
             PROVE  (2 * o > constraint => pass[o]) /\ (2 * o < constraint => ~pass[o])
  BY DEF ConstraintIsTight
<1>1. good = bad + 1 /\ constraint = good + bad /\ pass[good] /\ ~pass[bad]
  BY Inv_Within DEF WithinAStep
<1>2. good \in Grid /\ bad \in Grid /\ good \in Int /\ bad \in Int /\ o \in Int
  BY DEF SearchInv, SearchTypeOK, Grid, Span
<1>3. CASE 2 * o > constraint
  <2>1. good <= o
    BY <1>1, <1>2, <1>3
  <2>2. QED
    BY <1>1, <1>2, <1>3, <2>1 DEF Monotone
<1>4. CASE 2 * o < constraint
  <2>1. o <= bad
    BY <1>1, <1>2, <1>4
  <2>2. QED
    BY <1>1, <1>2, <1>4, <2>1 DEF Monotone
<1>5. QED
  BY <1>1, <1>2, <1>3, <1>4

\* Where being early never hurts, the constraint divides what is safe from what
\* is not, to half a step.
THEOREM SearchIsTight == SearchSpec => []ConstraintIsTight
  BY SearchInvariant, Inv_Tight, PTL
----------------------------------------------------------------
-----------------------------------------------------------------------------
(* What the decks measure.                                                   *)

\* Held as the script holds them, the other inputs leave the output to A.
LEMMA OutputFollowsA ==
  ASSUME NEW base \in Logic, NEW a \in BOOLEAN
  PROVE  Output(base, With(Tied(base), "A", a)) = (a # NegativeUnate(base))
<1> DEFINE in == With(Tied(base), "A", a)
           tie == TieHigh(base)
           high == {p \in Inputs(base) : in[p]}
<1>1. "A" \in Inputs(base)
  BY DEF Inputs, Logic
<1>2. in["A"] = a
  BY DEF With, Tied
<1>3. ASSUME NEW p \in Inputs(base), p # "A" PROVE in[p] = tie
  BY <1>3 DEF With, Tied
<1>4. CASE base \in Single
  <2>1. Output(base, in) = (in["A"] # (base \in Inverting))
    BY <1>2, <1>4 DEF Output, And2, And3, And4, Or2, Or3, Or4, Single
  <2>2. QED
    BY <1>2, <2>1 DEF NegativeUnate
<1>5. CASE base \in And2 \cup And3 \cup And4
  <2>1. tie = TRUE
    BY <1>5 DEF TieHigh, And2, And3, And4, Or2, Or3, Or4
  <2>2. (high = Inputs(base)) = a
    BY <1>1, <1>2, <1>3, <2>1
  <2>3. Output(base, in) = ((high = Inputs(base)) # (base \in Inverting))
    BY <1>5 DEF Output, And2, And3, And4, Or2, Or3, Or4, Single
  <2>4. QED
    BY <2>2, <2>3 DEF NegativeUnate
<1>6. CASE base \in Or2 \cup Or3 \cup Or4
  <2>1. tie = FALSE
    BY <1>6 DEF TieHigh, And2, And3, And4, Or2, Or3, Or4
  <2>2. (high # {}) = a
    BY <1>1, <1>2, <1>3, <2>1
  <2>3. Output(base, in) = ((high # {}) # (base \in Inverting))
    BY <1>6 DEF Output, And2, And3, And4, Or2, Or3, Or4, Single
  <2>4. QED
    BY <2>2, <2>3 DEF NegativeUnate
<1>7. CASE base = "MUX2"
  <2>1. tie = FALSE /\ in["S"] = FALSE
    BY <1>3, <1>7 DEF TieHigh, Inputs, Single, And3, Or3, And4, Or4
  <2>2. Output(base, in) = ((IF in["S"] THEN in["B"] ELSE in["A"]) # (base \in Inverting))
    BY <1>7 DEF Output, And2, And3, And4, Or2, Or3, Or4, Single
  <2>3. QED
    BY <1>2, <2>1, <2>2 DEF NegativeUnate
<1>8. CASE base \in {"XOR2", "XNOR2"}
  <2>1. tie = FALSE
    BY <1>8 DEF TieHigh
  <2>2. high = IF a THEN {"A"} ELSE {}
    BY <1>1, <1>2, <1>3, <2>1
  <2>3. (Cardinality(high) = 1) = a
    BY <2>2, FS_EmptySet, FS_Singleton
  <2>4. Output(base, in) = ((Cardinality(high) = 1) # (base \in Inverting))
    BY <1>8 DEF Output, And2, And3, And4, Or2, Or3, Or4, Single
  <2>5. QED
    BY <2>3, <2>4 DEF NegativeUnate
<1>9. QED
  BY <1>4, <1>5, <1>6, <1>7, <1>8 DEF Logic

\* An input of a cell that is no exclusive or, and not the select of a
\* multiplexer, moves the output the way the cell's sense says, or not at all.
LEMMA OneSense ==
  ASSUME NEW base \in Logic, NEW p \in Inputs(base), <<base, p>> \notin Binate,
         NEW in \in Sensitized(base, p)
  PROVE  Output(base, With(in, p, TRUE)) = ~NegativeUnate(base)
<1> DEFINE up == With(in, p, TRUE)
           down == With(in, p, FALSE)
           high(lv) == {x \in Inputs(base) : lv[x]}
           inv == base \in Inverting
<1> SUFFICES Output(base, up) = ~inv
  BY DEF NegativeUnate
<1>1. Output(base, up) # Output(base, down)
  BY DEF Sensitized
<1>2. up[p] = TRUE /\ down[p] = FALSE
  BY DEF With
<1>3. ASSUME NEW x, x # p, x \in Inputs(base) PROVE up[x] = in[x] /\ down[x] = in[x]
  <2>1. in \in [Inputs(base) \ {p} -> BOOLEAN]
    BY DEF Sensitized
  <2>2. x \in DOMAIN in
    BY <1>3, <2>1
  <2>3. QED
    BY <1>3, <2>2 DEF With
<1>4. CASE base \in Single
  <2>1. Inputs(base) = {"A"}
    BY <1>4 DEF Inputs, Single, And3, Or3, And4, Or4
  <2>2. p = "A"
    BY <2>1
  <2>3. Output(base, up) = (up["A"] # inv)
    BY <1>4 DEF Output, And2, And3, And4, Or2, Or3, Or4, Single
  <2>4. QED
    BY <1>2, <2>2, <2>3
<1>5. CASE base \in And2 \cup And3 \cup And4
  <2>1. /\ Output(base, up) = ((high(up) = Inputs(base)) # inv)
        /\ Output(base, down) = ((high(down) = Inputs(base)) # inv)
    BY <1>5 DEF Output, And2, And3, And4, Or2, Or3, Or4, Single
  <2>2. high(down) # Inputs(base)
    BY <1>2
  <2> HIDE DEF high, up, down
  <2>3. high(up) = Inputs(base)
    BY <1>1, <2>1, <2>2
  <2>4. QED
    BY <2>1, <2>3
<1>6. CASE base \in Or2 \cup Or3 \cup Or4
  <2>1. Output(base, up) = ((high(up) # {}) # inv)
    BY <1>6 DEF Output, And2, And3, And4, Or2, Or3, Or4, Single
  <2>2. high(up) # {}
    BY <1>2
  <2>3. QED
    BY <2>1, <2>2
<1>7. CASE base = "MUX2"
  <2>1. Inputs(base) = {"A", "B", "S"}
    BY <1>7 DEF Inputs, Single, And3, Or3, And4, Or4
  <2>2. p = "A" \/ p = "B"
    BY <1>7, <2>1 DEF Binate
  <2>3. /\ Output(base, up) = ((IF up["S"] THEN up["B"] ELSE up["A"]) # inv)
        /\ Output(base, down) = ((IF down["S"] THEN down["B"] ELSE down["A"]) # inv)
    BY <1>7 DEF Output, And2, And3, And4, Or2, Or3, Or4, Single
  <2>4. up["S"] = in["S"] /\ down["S"] = in["S"]
    BY <1>3, <2>1, <2>2
  <2>5. /\ p = "A" => up["B"] = in["B"] /\ down["B"] = in["B"]
        /\ p = "B" => up["A"] = in["A"] /\ down["A"] = in["A"]
    BY <1>3, <2>1
  <2> HIDE DEF up, down
  <2>6. IF in["S"] THEN p = "B" ELSE p = "A"
    BY <1>1, <2>2, <2>3, <2>4, <2>5
  <2>7. QED
    BY <1>2, <2>3, <2>4, <2>6
<1>8. CASE base \in {"XOR2", "XNOR2"}
  BY <1>8 DEF Binate, Inputs, Single, And3, Or3, And4, Or4
<1>9. QED
  BY <1>4, <1>5, <1>6, <1>7, <1>8 DEF Logic

\* What was made at the first edge and before it is not what is waited for, so
\* that a change at the second is the one that is seen, if there is any.
LEMMA SeenAtSecond ==
  ASSUME NEW base, NEW s, NEW q0, NEW at, NEW start, NEW one, NEW two,
         Levels(base, s, q0, at) = <<q0, start, one, two>>,
         start # q0 => start # s.wanted, one # s.wanted
  PROVE  /\ two = s.wanted => Seen(base, s, q0, at) = SecondEdge
         /\ two = one => Seen(base, s, q0, at) = 0
<1> DEFINE l == Levels(base, s, q0, at)
           when == {i \in 2..Len(l) : l[i] # l[i - 1] /\ l[i] = s.wanted}
<1>1. Len(l) = 4 /\ l[1] = q0 /\ l[2] = start /\ l[3] = one /\ l[4] = two
  OBVIOUS
<1>2. \A i \in 2..4 : i = 2 \/ i = 3 \/ i = 4
  OBVIOUS
<1>3. Seen(base, s, q0, at) =
        IF when = {} THEN 0 ELSE CHOOSE i \in when : \A j \in when : i <= j
  BY DEF Seen
<1>4. 2 \notin when /\ 3 \notin when
  BY <1>1
<1>5. CASE two = s.wanted
  <2>1. when = {4}
    BY <1>1, <1>2, <1>4, <1>5
  <2>2. (CHOOSE i \in when : \A j \in when : i <= j) = 4
    BY <2>1
  <2>3. one # two
    BY <1>5
  <2>4. QED
    BY <1>3, <2>1, <2>2, <2>3 DEF SecondEdge
<1>6. CASE two = one
  <2>1. when = {}
    BY <1>1, <1>2, <1>4, <1>6
  <2>2. two # s.wanted
    BY <1>6
  <2>3. QED
    BY <1>3, <2>1, <2>2
<1>7. QED
  BY <1>5, <1>6

\* A tuple is a sequence of its members.
LEMMA TupleOfSix ==
  ASSUME NEW a, NEW b, NEW c, NEW d, NEW e, NEW f
  PROVE  LET s == <<a, b, c, d, e, f>> IN s \in Seq(ToSet(s)) /\ s # <<>>
  BY DEF ToSet

\* Each deck makes the edge it waits for at the second clock edge if the pin
\* moves in time, and at no edge if it does not.
LEMMA DeckMakesTheEdge ==
  ASSUME NEW base \in Flops, NEW table \in ToSet(Tables), NEW q0 \in BOOLEAN,
         NEW s, s = Stimulus(base, table[1], table[2])
  PROVE  /\ Seen(base, s, q0, s.met) = SecondEdge
         /\ Seen(base, s, q0, s.missed) = 0
<1>1. table[1] \in {"setup", "hold", "recovery", "removal"} /\ table[2] \in BOOLEAN
  <2>1. DOMAIN Tables = 1..6
    BY DEF Tables
  <2>2. PICK i \in 1..6 : table = Tables[i]
    BY <2>1 DEF ToSet
  <2>3. Tables[i][1] \in {"setup", "hold", "recovery", "removal"}
    BY <2>2 DEF Tables
  <2>4. Tables[i][2] \in BOOLEAN
    <3>1. i = 1 \/ i = 2 \/ i = 3 \/ i = 4 \/ i = 5 \/ i = 6
      BY <2>2
    <3>2. /\ Tables[1] = <<"setup", TRUE>> /\ Tables[2] = <<"setup", FALSE>>
          /\ Tables[3] = <<"hold", TRUE>> /\ Tables[4] = <<"hold", FALSE>>
          /\ Tables[5] = <<"recovery", TRUE>> /\ Tables[6] = <<"removal", TRUE>>
      BY Zenon DEF Tables
    <3>3. \A w \in {"setup", "hold", "recovery", "removal"}, b \in BOOLEAN : <<w, b>>[2] \in BOOLEAN
      OBVIOUS
    <3>4. QED
      BY <3>1, <3>2, <3>3, Zenon
  <2>5. QED
    BY <2>2, <2>3, <2>4
<1>2. Forced(base) \in BOOLEAN
  BY DEF Forced
<1>3. CASE table[1] = "setup"
  <2> DEFINE rising == table[2]
  <2>1. rising \in BOOLEAN
    BY <1>1, <1>3
  <2> HIDE DEF rising
  <2>2. /\ s.first.active = FALSE /\ s.first.d = ~rising /\ s.wanted = rising
        /\ s.met.active = FALSE /\ s.met.d = rising
        /\ s.missed.active = FALSE /\ s.missed.d = ~rising
    BY <1>3 DEF Stimulus, At, rising
  <2>3. /\ Levels(base, s, q0, s.met) = <<q0, q0, ~rising, rising>>
        /\ Levels(base, s, q0, s.missed) = <<q0, q0, ~rising, ~rising>>
    BY <2>2 DEF Levels, Edge
  <2>4. (~rising) # rising
    BY <2>1
  <2>5. QED
    BY <2>2, <2>3, <2>4, SeenAtSecond
<1>4. CASE table[1] = "hold"
  <2> DEFINE rising == table[2]
  <2>1. rising \in BOOLEAN
    BY <1>1, <1>4
  <2> HIDE DEF rising
  <2>2. /\ s.first.active = FALSE /\ s.first.d = rising /\ s.wanted = ~rising
        /\ s.met.active = FALSE /\ s.met.d = ~rising
        /\ s.missed.active = FALSE /\ s.missed.d = rising
    BY <1>4 DEF Stimulus, At, HeldEdge, rising
  <2>3. /\ Levels(base, s, q0, s.met) = <<q0, q0, rising, ~rising>>
        /\ Levels(base, s, q0, s.missed) = <<q0, q0, rising, rising>>
    BY <2>2 DEF Levels, Edge
  <2>4. (~rising) # rising
    BY <2>1
  <2>5. QED
    BY <2>2, <2>3, <2>4, SeenAtSecond
<1>5. CASE table[1] \in {"recovery", "removal"}
  <2> DEFINE forced == Forced(base)
  <2>1. forced \in BOOLEAN
    BY <1>2
  <2>2. /\ s.first.active = TRUE /\ s.first.d = ~forced /\ s.wanted = ~forced
        /\ s.met.active = FALSE /\ s.met.d = ~forced
        /\ s.missed.active = TRUE /\ s.missed.d = ~forced
    BY <1>5 DEF Stimulus, At
  <2>3. /\ Levels(base, s, q0, s.met) = <<q0, forced, forced, ~forced>>
        /\ Levels(base, s, q0, s.missed) = <<q0, forced, forced, forced>>
    BY <2>2 DEF Levels, Edge
  <2> HIDE DEF forced
  <2>4. (~forced) # forced
    BY <2>1
  <2>5. QED
    BY <2>2, <2>3, <2>4, SeenAtSecond
<1>6. QED
  BY <1>1, <1>3, <1>4, <1>5

\* So does the deck of the delay, whose data moves between the two edges.
LEMMA ClockMakesTheEdge ==
  ASSUME NEW base \in Flops, NEW rising \in BOOLEAN, NEW q0 \in BOOLEAN,
         NEW s, s = Stimulus(base, "clock", rising)
  PROVE  Seen(base, s, q0, s.met) = SecondEdge
<1>1. /\ s.first.active = FALSE /\ s.first.d = ~rising /\ s.wanted = rising
      /\ s.met.active = FALSE /\ s.met.d = rising
  BY DEF Stimulus, At
<1>2. Levels(base, s, q0, s.met) = <<q0, q0, ~rising, rising>>
  BY <1>1 DEF Levels, Edge
<1>3. (~rising) # rising
  OBVIOUS
<1>4. QED
  BY <1>1, <1>2, <1>3, SeenAtSecond
-----------------------------------------------------------------------------
(* The script.                                                               *)

\* A nonempty set of naturals has a least member.
LEMMA LeastExists ==
  ASSUME NEW S \in SUBSET Nat, S # {}
  PROVE  \E n \in S : \A m \in S : n <= m
<1>1. PICK n \in S : \A m \in Nat : <<m, n>> \in OpToRel(<, Nat) => m \notin S
  BY WFMin, NatLessThanWellFounded
<1>2. ASSUME NEW m \in S PROVE n <= m
  <2>1. m \in Nat /\ n \in Nat
    OBVIOUS
  <2>2. ~(m < n)
    BY <1>1, <2>1 DEF OpToRel
  <2>3. QED
    BY <2>1, <2>2
<1>3. QED
  BY <1>2

\* The cell at hand is one of those to go, and is a cell of the table.
LEMMA CellAtHand ==
  ASSUME todo \in SUBSET DOMAIN Extracted, todo # {}
  PROVE  place \in todo /\ Current.base \in Flops \cup Logic
<1>1. DOMAIN Extracted = 1..Len(Extracted) /\ Len(Extracted) \in Nat
  BY CellsAssumption
<1>2. \E i \in todo : \A j \in todo : i <= j
  BY <1>1, LeastExists
<1>3. place \in todo
  BY <1>2 DEF place
<1>4. QED
  BY <1>3, CellsAssumption DEF Current

\* Of the cells a call was asked for that it knows, each is done, given up or still to go;
\* a flip-flop is searched for a table of the list, and the file that is there
\* was whole when it was written.
Underway ==
  /\ todo \in SUBSET DOMAIN Extracted
  /\ phase # "idle" => asked \cap Known = entries \cup failed \cup Names(todo)
  /\ phase \in {"search", "delays"} => todo # {}
  /\ phase = "search" => Current.base \in Flops /\ checks \in Seq(ToSet(Tables)) /\ checks # <<>>
  /\ LibraryIsWhole

CharInv == SearchInv /\ Underway

\* The script starts with the file that is kept beside it.
LEMMA CharInit == Init => CharInv
<1> SUFFICES ASSUME Init PROVE CharInv
  OBVIOUS
<1>1. SearchInv
  BY DEF Init, NoSearch, SearchInv, SearchTypeOK, Narrowed, Grid, Span, Halvings, Unmeasured
<1>2. Underway
  BY DEF Init, Underway, LibraryIsWhole, Shipped
<1>3. QED
  BY <1>1, <1>2 DEF CharInv

\* A search that begins is in the state the bisection starts in.
LEMMA NewSearchInv == NewSearch => SearchInv'
  BY MeasurementsAssumption
  DEF NewSearch, SearchInv, SearchTypeOK, Narrowed, Grid, Span, Halvings, Unmeasured

\* A step that leaves the search alone keeps what holds of it.
LEMMA SearchStays == SearchInv /\ UNCHANGED searchVars => SearchInv'
  BY DEF SearchInv, SearchTypeOK, Narrowed, searchVars

\* Every action keeps what holds of a call underway.
LEMMA CharNext == CharInv /\ [Next]_allVars => CharInv'
<1> SUFFICES ASSUME CharInv, [Next]_allVars PROVE CharInv'
  OBVIOUS
<1>1. SearchInv /\ Underway
  BY DEF CharInv
<1>2. ASSUME NEW sel \in Selections, Call(sel) PROVE CharInv'
  <2>1. SearchInv'
    BY <1>1, <1>2, SearchStays DEF Call
  <2> DEFINE cells == {i \in DOMAIN Extracted : sel = {} \/ Extracted[i].name \in sel}
  <2>2. /\ asked' = (IF sel = {} THEN Known ELSE sel) /\ entries' = {} /\ failed' = {} /\ library' = library
        /\ (todo' = cells /\ phase' = "caps") \/ (todo' = {} /\ phase' = "idle")
    BY <1>2 DEF Call
  <2>3. cells \in SUBSET DOMAIN Extracted
    OBVIOUS
  <2>4. (IF sel = {} THEN Known ELSE sel) \cap Known = Names(cells)
    BY DEF Known, Names
  <2> HIDE DEF cells
  <2>5. Underway'
    BY <1>1, <2>2, <2>3, <2>4 DEF Underway, LibraryIsWhole, Known, Names
  <2>6. QED
    BY <2>1, <2>5 DEF CharInv
<1>3. ASSUME Die, UNCHANGED searchVars PROVE CharInv'
  <2>1. Underway'
    BY <1>1, <1>3 DEF Die, Underway, LibraryIsWhole, Known, Names
  <2>2. QED
    BY <1>1, <1>3, <2>1, SearchStays DEF CharInv
<1>4. CASE Caps
  <2>1. CASE Die /\ UNCHANGED searchVars
    BY <1>3, <2>1
  <2>2. CASE Current.base \in Flops /\ checks' = Tables /\ phase' = "search" /\ NewSearch
    <3>1. UNCHANGED <<library, asked, todo, entries, failed>> /\ todo # {} /\ phase = "caps"
      BY <1>4, <2>2 DEF Caps, Die
    <3>2. Tables \in Seq(ToSet(Tables)) /\ Tables # <<>>
      BY TupleOfSix, Zenon DEF Tables
    <3>3. Underway'
      BY <1>1, <2>2, <3>1, <3>2 DEF Underway, LibraryIsWhole, Known, Names, Current, place
    <3>4. QED
      BY <2>2, <3>3, NewSearchInv DEF CharInv
  <2>3. CASE phase' = "delays" /\ UNCHANGED <<checks, searchVars>>
    <3>1. UNCHANGED <<library, asked, todo, entries, failed>> /\ todo # {} /\ phase = "caps"
      BY <1>4, <2>3 DEF Caps, Die
    <3>2. Underway'
      BY <1>1, <2>3, <3>1 DEF Underway, LibraryIsWhole, Known, Names
    <3>3. QED
      BY <1>1, <2>3, <3>2, SearchStays DEF CharInv
  <2>4. QED
    BY <1>4, <2>1, <2>2, <2>3 DEF Caps
<1>5. CASE Search
  <2>1. SearchInv'
    BY <1>1, <1>5, SearchStep_Inv DEF Search
  <2>2. Underway'
    BY <1>1, <1>5 DEF Search, charVars, Underway, LibraryIsWhole, Known, Names, Current, place
  <2>3. QED
    BY <2>1, <2>2 DEF CharInv
<1>6. CASE NoTransition
  BY <1>3, <1>6 DEF NoTransition
<1>7. CASE NextTable
  <2>1. /\ phase = "search" /\ checks' = Tail(checks)
        /\ UNCHANGED <<library, asked, todo, entries, failed>>
        /\ \/ checks' = <<>> /\ phase' = "delays" /\ UNCHANGED searchVars
           \/ checks' # <<>> /\ NewSearch /\ phase' = phase
    BY <1>7 DEF NextTable
  <2>2. checks \in Seq(ToSet(Tables)) /\ checks # <<>>
    BY <1>1, <2>1 DEF Underway
  <2>3. checks' \in Seq(ToSet(Tables))
    BY <2>1, <2>2
  <2>4. Underway'
    BY <1>1, <2>1, <2>3 DEF Underway, LibraryIsWhole, Known, Names, Current, place
  <2>5. SearchInv'
    BY <1>1, <2>1, NewSearchInv, SearchStays
  <2>6. QED
    BY <2>4, <2>5 DEF CharInv
<1>8. CASE Delays
  <2>1. PICK ok \in BOOLEAN :
          /\ entries' = IF ok THEN entries \cup {Current.name} ELSE entries
          /\ failed' = IF ok THEN failed ELSE failed \cup {Current.name}
    BY <1>8 DEF Delays
  <2>2. /\ phase = "delays" /\ todo' = todo \ {place} /\ phase' = "caps"
        /\ UNCHANGED <<library, asked, searchVars>>
    BY <1>8 DEF Delays
  <2>3. place \in todo /\ asked \cap Known = entries \cup failed \cup Names(todo)
    BY <1>1, <2>2, CellAtHand DEF Underway
  <2>4. Names(todo) = Names(todo \ {place}) \cup {Current.name}
    BY <2>3 DEF Names, Current
  <2>5. entries' \cup failed' = entries \cup failed \cup {Current.name}
    BY <2>1
  <2>6. asked' \cap Known = entries' \cup failed' \cup Names(todo')
    BY <2>2, <2>3, <2>4, <2>5
  <2>7. Names(todo)' = Names(todo') /\ Known' = Known
    BY DEF Names, Known
  <2>8. Underway'
    BY <1>1, <2>2, <2>6, <2>7 DEF Underway, LibraryIsWhole
  <2>9. QED
    BY <1>1, <2>2, <2>8, SearchStays DEF CharInv
<1>9. CASE Write
  <2>1. asked \cap Known = entries \cup failed
    BY <1>1, <1>9 DEF Write, Underway, Names
  <2>2. Underway'
    BY <1>1, <1>9, <2>1 DEF Write, Underway, LibraryIsWhole, Known, Names
  <2>3. QED
    BY <1>1, <1>9, <2>2, SearchStays DEF Write, CharInv
<1>10. CASE UNCHANGED allVars
  <2>1. Underway'
    BY <1>1, <1>10 DEF allVars, charVars, Underway, LibraryIsWhole, Known, Names, Current, place
  <2>2. QED
    BY <1>1, <1>10, <2>1, SearchStays DEF allVars, CharInv
<1>11. QED
  BY <1>2, <1>4, <1>5, <1>6, <1>7, <1>8, <1>9, <1>10 DEF Next

\* The inductive invariant holds in every reachable state.
THEOREM CharInvariance == Spec => []CharInv
  BY CharInit, CharNext, PTL DEF Spec

\* The arcs and edges a call measures are the cell's.
LEMMA MeasuredRightly == CharInv => LibraryIsMeasured
<1> SUFFICES ASSUME CharInv PROVE LibraryIsMeasured
  OBVIOUS
<1>1. Underway
  BY DEF CharInv
<1>2. ArcIsMeasured
  <2> SUFFICES ASSUME phase = "delays", Current.base \notin Flops, NEW a \in BOOLEAN
               PROVE  Output(Current.base, With(Tied(Current.base), "A", a))
                        = (a # NegativeUnate(Current.base))
    BY DEF ArcIsMeasured
  <2>1. Current.base \in Logic
    BY <1>1, CellAtHand DEF Underway
  <2>2. QED
    BY <2>1, OutputFollowsA
<1>3. EdgeIsCaptured
  <2> SUFFICES ASSUME phase = "search", NEW q0 \in BOOLEAN,
                      NEW s, s = Stimulus(Current.base, Head(checks)[1], Head(checks)[2])
               PROVE  /\ Seen(Current.base, s, q0, s.met) = SecondEdge
                      /\ Seen(Current.base, s, q0, s.missed) = 0
    BY DEF EdgeIsCaptured
  <2>1. Current.base \in Flops /\ Head(checks) \in ToSet(Tables)
    BY <1>1 DEF Underway
  <2>2. QED
    BY <2>1, DeckMakesTheEdge
<1>4. SensesAreTheCells
  <2> SUFFICES ASSUME phase = "delays", Current.base \notin Flops, NEW arc \in Written(Current.base),
                      <<Current.base, arc.pin>> \notin Binate,
                      NEW in \in Sensitized(Current.base, arc.pin)
               PROVE  Output(Current.base, With(in, arc.pin, TRUE)) = ~arc.negative
    BY DEF SensesAreTheCells
  <2>1. Current.base \in Logic
    BY <1>1, CellAtHand DEF Underway
  <2>2. arc.pin \in Inputs(Current.base) /\ arc.negative = NegativeUnate(Current.base)
    BY DEF Written
  <2>3. QED
    BY <2>1, <2>2, OneSense
<1>5. ClockIsTimed
  <2> SUFFICES ASSUME phase = "delays", Current.base \in Flops, NEW rising \in BOOLEAN, NEW q0 \in BOOLEAN,
                      NEW s, s = Stimulus(Current.base, "clock", rising)
               PROVE  Seen(Current.base, s, q0, s.met) = SecondEdge
    BY DEF ClockIsTimed
  <2>1. QED
    BY ClockMakesTheEdge
<1>6. QED
  BY <1>1, <1>2, <1>3, <1>4, <1>5 DEF LibraryIsMeasured, Underway

\* Every arc that is timed and every edge a constraint or a clock's delay waits
\* for is the cell's, the senses written for the inputs that are not timed are,
\* but for the exceptions named, and the file is of a call that finished.
THEOREM LibraryMeasured == Spec => []LibraryIsMeasured
  BY CharInvariance, MeasuredRightly, PTL

\* And each constraint the script searches for is as tight as the grid allows,
\* for every cell that is in time once and for all.
THEOREM ConstraintsAreTight == Spec => []ConstraintIsTight
<1>1. CharInv => ConstraintIsTight
  BY Inv_Tight DEF CharInv
<1>2. QED
  BY <1>1, CharInvariance, PTL

\* A set of natural numbers has a least member.
LEMMA LeastOf ==
  ASSUME NEW S \in SUBSET Nat, S # {}
  PROVE  Min(S) \in S /\ \A m \in S : Min(S) <= m
<1>1. PICK n \in S : \A m \in Nat : <<m, n>> \in OpToRel(<, Nat) => m \notin S
  BY WFMin, NatLessThanWellFounded
<1>2. ASSUME NEW m \in S PROVE n <= m
  <2>1. m \in Nat /\ n \in Nat
    OBVIOUS
  <2>2. ~(m < n)
    BY <1>1, <2>1 DEF OpToRel
  <2>3. QED
    BY <2>1, <2>2
<1>3. QED
  BY <1>2 DEF Min

\* The lesser and the greater of two numbers.
LEMMA OfTwo ==
  ASSUME NEW a \in Int, NEW b \in Int
  PROVE  /\ Min({a, b}) = IF a <= b THEN a ELSE b
         /\ Max({a, b}) = IF a >= b THEN a ELSE b
  BY DEF Min, Max

\* A finite set with two members has at least two.
LEMMA TwoMembers ==
  ASSUME NEW S, IsFiniteSet(S), NEW a \in S, NEW b \in S, a # b
  PROVE  Cardinality(S) \in Nat /\ Cardinality(S) >= 2
<1>1. IsFiniteSet({a}) /\ Cardinality({a}) = 1
  BY FS_Singleton
<1>2. Cardinality({a} \cup {b}) = 2
  BY <1>1, FS_AddElement
<1>3. {a} \cup {b} \in SUBSET S
  OBVIOUS
<1>4. Cardinality({a} \cup {b}) <= Cardinality(S) /\ Cardinality(S) \in Nat
  BY <1>3, FS_Subset, FS_CardinalityType
<1>5. QED
  BY <1>2, <1>4

\* Ascending lists all of a set.
LEMMA AscendingIsAll ==
  ASSUME NEW S \in SUBSET Int, IsFiniteSet(S)
  PROVE  /\ Cardinality(S) \in Nat
         /\ Ascending(S) \in [1..Cardinality(S) -> S]
         /\ \A x \in S : \E n \in 1..Cardinality(S) : Ascending(S)[n] = x
<1> DEFINE c == Cardinality(S)
           Lower(x) == {y \in S : y < x}
           rank == [x \in S |-> Cardinality(Lower(x))]
<1>1. c \in Nat
  BY FS_CardinalityType
<1>2. \A x \in S : IsFiniteSet(Lower(x)) /\ Cardinality(Lower(x)) \in Nat
  <2> TAKE x \in S
  <2>1. Lower(x) \in SUBSET S
    OBVIOUS
  <2>2. QED
    BY <2>1, FS_Subset, FS_CardinalityType
<1>3. \A x \in S : Cardinality(Lower(x)) \in 0..(c - 1)
  <2> TAKE x \in S
  <2>1. Lower(x) \in SUBSET S /\ x \notin Lower(x)
    OBVIOUS
  <2>2. Cardinality(Lower(x)) <= c /\ (c = Cardinality(Lower(x)) => S = Lower(x))
    BY <2>1, FS_Subset
  <2>3. S # Lower(x)
    BY <2>1
  <2>4. Cardinality(Lower(x)) \in Nat
    BY <1>2
  <2>5. QED
    <3> HIDE DEF Lower
    <3>1. QED
      BY <1>1, <2>2, <2>3, <2>4
<1>4. ASSUME NEW x \in S, NEW z \in S, x < z
      PROVE  Cardinality(Lower(x)) < Cardinality(Lower(z))
  <2>1. Lower(x) \in SUBSET Lower(z)
    <3>1. \A y \in Lower(x) : y \in Lower(z)
      BY <1>4
    <3>2. QED
      BY <3>1
  <2>2. x \in Lower(z) /\ x \notin Lower(x)
    BY <1>4
  <2>3. /\ Cardinality(Lower(x)) <= Cardinality(Lower(z))
        /\ Cardinality(Lower(z)) = Cardinality(Lower(x)) => Lower(z) = Lower(x)
    <3> HIDE DEF Lower
    <3>1. QED
      BY <1>2, <2>1, FS_Subset
  <2>4. Lower(z) # Lower(x)
    BY <2>2
  <2>5. QED
    BY <1>2, <2>3, <2>4
<1>5. \A x, z \in S : rank[x] = rank[z] => x = z
  <2> SUFFICES ASSUME NEW x \in S, NEW z \in S, rank[x] = rank[z] PROVE x = z
    OBVIOUS
  <2>1. Cardinality(Lower(x)) = Cardinality(Lower(z))
    OBVIOUS
  <2>2. ~(x < z) /\ ~(z < x)
    <3> HIDE DEF Lower
    <3>1. QED
      BY <1>2, <1>4, <2>1
  <2>3. QED
    BY <2>2
<1>6. rank \in Injection(S, 0..(c - 1))
  <2>1. rank \in [S -> 0..(c - 1)]
    BY <1>3
  <2>2. IsInjective(rank)
    BY <1>5 DEF IsInjective
  <2>3. QED
    BY <2>1, <2>2 DEF Injection
<1>7. IsFiniteSet(0..(c - 1)) /\ Cardinality(0..(c - 1)) = c
  BY <1>1, FS_Interval
<1>8. rank \in Surjection(S, 0..(c - 1))
  <2> HIDE DEF rank
  <2>1. QED
    BY <1>6, <1>7, FS_Injection
<1>9. \A n \in 1..c : Ascending(S)[n] \in S /\ rank[Ascending(S)[n]] = n - 1
  <2> TAKE n \in 1..c
  <2>1. n - 1 \in 0..(c - 1)
    BY <1>1
  <2>2. \E x \in S : Cardinality(Lower(x)) = n - 1
    BY <1>8, <2>1 DEF Surjection
  <2>3. Ascending(S)[n] = CHOOSE x \in S : Cardinality(Lower(x)) = n - 1
    BY DEF Ascending
  <2>4. QED
    BY <2>2, <2>3
<1>10. Ascending(S) \in [1..c -> S]
  BY <1>9 DEF Ascending
<1>11. ASSUME NEW x \in S PROVE \E n \in 1..c : Ascending(S)[n] = x
  <2>1. rank[x] \in 0..(c - 1)
    BY <1>3
  <2>2. rank[x] + 1 \in 1..c /\ (rank[x] + 1) - 1 = rank[x]
    BY <1>1, <2>1
  <2>3. rank[Ascending(S)[rank[x] + 1]] = rank[x] /\ Ascending(S)[rank[x] + 1] \in S
    <3> HIDE DEF rank
    <3>1. QED
      BY <1>9, <2>2
  <2>4. QED
    <3> HIDE DEF rank
    <3>1. QED
      BY <1>5, <2>2, <2>3
<1>12. QED
  BY <1>1, <1>10, <1>11
-----------------------------------------------------------------------------
(* Wires.                                                                    *)
WireType == [net : STRING, layer : STRING, from : Int \X Int, to : Int \X Int, width : Nat]
ViaType == [net : STRING, at : Int \X Int]
PinType == [net : STRING, at : (Int \X Int) \cup {<<>>}]
Straight(w) == \E d \in 1..2 : w.from[d] = w.to[d] /\ w.from[3 - d] # w.to[3 - d]

LEMMA WireShape ==
  ASSUME NEW w \in WireType, Straight(w)
  PROVE  /\ Axis(w) \in 1..2
         /\ w.to[3 - Axis(w)] = Across(w) /\ Across(w) \in Int
         /\ Low(w) \in Int /\ High(w) \in Int /\ Low(w) < High(w)
         /\ Low(w) \in {w.from[Axis(w)], w.to[Axis(w)]}
<1>1. w.from[1] \in Int /\ w.from[2] \in Int /\ w.to[1] \in Int /\ w.to[2] \in Int
  BY DEF WireType
<1>2. \/ w.from[1] = w.to[1] /\ w.from[2] # w.to[2]
      \/ w.from[2] = w.to[2] /\ w.from[1] # w.to[1]
  BY DEF Straight
<1>3. CASE w.from[1] = w.to[1] /\ w.from[2] # w.to[2]
  <2>1. Axis(w) = 2
    BY <1>1, <1>3 DEF Axis, Abs
  <2>2. Low(w) = Min({w.from[2], w.to[2]}) /\ High(w) = Max({w.from[2], w.to[2]})
    BY <2>1 DEF Low, High
  <2>3. QED
    BY <1>1, <1>3, <2>1, <2>2, OfTwo DEF Across
<1>4. CASE w.from[2] = w.to[2] /\ w.from[1] # w.to[1]
  <2>1. Axis(w) = 1
    BY <1>1, <1>4 DEF Axis, Abs
  <2>2. Low(w) = Min({w.from[1], w.to[1]}) /\ High(w) = Max({w.from[1], w.to[1]})
    BY <2>1 DEF Low, High
  <2>3. QED
    BY <1>1, <1>4, <2>1, <2>2, OfTwo DEF Across
<1>5. QED
  BY <1>2, <1>3, <1>4

LEMMA PointOnWire ==
  ASSUME NEW w \in WireType, Straight(w), NEW x \in Int
  PROVE  /\ Point(w, x) \in Int \X Int
         /\ Axis(w) = 1 => Point(w, x) = <<x, Across(w)>>
         /\ Axis(w) = 2 => Point(w, x) = <<Across(w), x>>
  BY WireShape DEF Point

\* A place on the wire is projected to itself, any other onto the wire.
LEMMA ProjectedOntoWire ==
  ASSUME NEW w \in WireType, Straight(w), NEW p \in Int \X Int
  PROVE  /\ Projected(w, p) \subseteq Low(w)..High(w)
         /\ \A x \in Low(w)..High(w) : p = Point(w, x) => Projected(w, p) = {x}
<1> DEFINE half == w.width \div 2
<1>1. w.width \in Nat
  BY DEF WireType
<1>2. half \in Nat
  BY <1>1
<1>3. /\ Axis(w) \in 1..2 /\ Across(w) \in Int
      /\ Low(w) \in Int /\ High(w) \in Int /\ Low(w) < High(w)
  BY WireShape
<1>4. p[1] \in Int /\ p[2] \in Int /\ p[Axis(w)] \in Int /\ p[3 - Axis(w)] \in Int
  BY <1>3
<1>5. LET y == Max({Low(w), Min({High(w), p[Axis(w)]})})
      IN  y \in Low(w)..High(w) /\ (p[Axis(w)] \in Low(w)..High(w) => y = p[Axis(w)])
  <2>1. Min({High(w), p[Axis(w)]}) = IF High(w) <= p[Axis(w)] THEN High(w) ELSE p[Axis(w)]
    BY <1>3, <1>4, OfTwo
  <2>2. Min({High(w), p[Axis(w)]}) \in Int
    BY <1>3, <1>4, <2>1
  <2>3. Max({Low(w), Min({High(w), p[Axis(w)]})})
          = IF Low(w) >= Min({High(w), p[Axis(w)]}) THEN Low(w) ELSE Min({High(w), p[Axis(w)]})
    BY <1>3, <2>2, OfTwo
  <2>4. QED
    BY <1>3, <1>4, <2>1, <2>3
<1>6. Projected(w, p) \subseteq Low(w)..High(w)
  BY <1>5 DEF Projected
<1>7. ASSUME NEW x \in Low(w)..High(w), p = Point(w, x)
      PROVE  Projected(w, p) = {x}
  <2>1. p[Axis(w)] = x /\ p[3 - Axis(w)] = Across(w)
    BY <1>3, <1>7, PointOnWire
  <2>2. p[Axis(w)] \in (Low(w) - half)..(High(w) + half)
    BY <1>2, <1>3, <2>1
  <2>3. Abs(p[3 - Axis(w)] - Across(w)) <= half
    BY <1>2, <1>3, <2>1 DEF Abs
  <2>4. QED
    BY <1>5, <2>1, <2>2, <2>3 DEF Projected
<1>8. QED
  BY <1>6, <1>7

LEMMA CrossedOnWire ==
  ASSUME NEW w \in WireType, Straight(w), NEW o \in WireType, Straight(o)
  PROVE  Crossed(w, o) \subseteq Low(w)..High(w)
<1>1. /\ Axis(w) \in 1..2 /\ Across(w) \in Int
      /\ Low(w) \in Int /\ High(w) \in Int /\ Low(w) < High(w)
  BY WireShape
<1>2. /\ Axis(o) \in 1..2 /\ Across(o) \in Int
      /\ Low(o) \in Int /\ High(o) \in Int /\ Low(o) < High(o)
  BY WireShape
<1>3. /\ Max({Low(w), Low(o)}) = IF Low(w) >= Low(o) THEN Low(w) ELSE Low(o)
      /\ Min({High(w), High(o)}) = IF High(w) <= High(o) THEN High(w) ELSE High(o)
  BY <1>1, <1>2, OfTwo
<1>4. CASE o.net # w.net \/ o.layer # w.layer
  BY <1>4 DEF Crossed
<1>5. CASE ~(o.net # w.net \/ o.layer # w.layer) /\ Axis(o) = Axis(w)
  BY <1>1, <1>2, <1>3, <1>5 DEF Crossed
<1>6. CASE ~(o.net # w.net \/ o.layer # w.layer) /\ Axis(o) # Axis(w)
  BY <1>6 DEF Crossed
<1>7. QED
  BY <1>4, <1>5, <1>6

\* Two wires of a net and layer that share a point share one at which both are cut.
LEMMA SharedIsCrossed ==
  ASSUME NEW w \in WireType, Straight(w), NEW o \in WireType, Straight(o),
         o.net = w.net, o.layer = w.layer, Points(w) \cap Points(o) # {}
  PROVE  \E x \in Crossed(w, o) : \E y \in Crossed(o, w) : Point(w, x) = Point(o, y)
<1>1. /\ Axis(w) \in 1..2 /\ Across(w) \in Int
      /\ Low(w) \in Int /\ High(w) \in Int /\ Low(w) < High(w)
  BY WireShape
<1>2. /\ Axis(o) \in 1..2 /\ Across(o) \in Int
      /\ Low(o) \in Int /\ High(o) \in Int /\ Low(o) < High(o)
  BY WireShape
<1>3. PICK x \in Low(w)..High(w), y \in Low(o)..High(o) : Point(w, x) = Point(o, y)
  BY DEF Points
<1>4. x \in Int /\ y \in Int
  BY <1>1, <1>2
<1>5. /\ Axis(w) = 1 => Point(w, x) = <<x, Across(w)>>
      /\ Axis(w) = 2 => Point(w, x) = <<Across(w), x>>
      /\ Axis(o) = 1 => Point(o, y) = <<y, Across(o)>>
      /\ Axis(o) = 2 => Point(o, y) = <<Across(o), y>>
  BY <1>4, PointOnWire
<1>6. CASE Axis(o) = Axis(w)
  <2>1. x = y /\ Across(o) = Across(w)
    BY <1>1, <1>3, <1>4, <1>5, <1>6
  <2>2. /\ Max({Low(w), Low(o)}) = IF Low(w) >= Low(o) THEN Low(w) ELSE Low(o)
        /\ Min({High(w), High(o)}) = IF High(w) <= High(o) THEN High(w) ELSE High(o)
        /\ Max({Low(o), Low(w)}) = Max({Low(w), Low(o)})
        /\ Min({High(o), High(w)}) = Min({High(w), High(o)})
    BY <1>1, <1>2, OfTwo
  <2>3. Max({Low(w), Low(o)}) <= Min({High(w), High(o)})
    BY <1>1, <1>2, <2>1, <2>2
  <2>4. Max({Low(w), Low(o)}) \in Crossed(w, o)
    BY <1>6, <2>1, <2>3 DEF Crossed
  <2>5. Max({Low(w), Low(o)}) \in Crossed(o, w)
    BY <1>6, <2>1, <2>2, <2>3 DEF Crossed
  <2>6. Point(w, Max({Low(w), Low(o)})) = Point(o, Max({Low(w), Low(o)}))
    BY <1>6, <2>1 DEF Point
  <2>7. QED
    BY <2>4, <2>5, <2>6
<1>7. CASE Axis(o) # Axis(w)
  <2>1. x = Across(o) /\ y = Across(w)
    BY <1>1, <1>2, <1>3, <1>4, <1>5, <1>7
  <2>2. Across(o) \in Low(w)..High(w) /\ Across(w) \in Low(o)..High(o)
    BY <2>1
  <2>3. Crossed(w, o) = {x} /\ Crossed(o, w) = {y}
    BY <1>7, <2>1, <2>2 DEF Crossed
  <2>4. QED
    BY <1>3, <2>3
<1>8. QED
  BY <1>6, <1>7
-----------------------------------------------------------------------------
(* A layout.                                                                 *)
LEMMA LayoutShape ==
  ASSUME layout \in Layouts
  PROVE  /\ Wires \in Seq(WireType) /\ Len(Wires) \in Nat /\ DOMAIN Wires = 1..Len(Wires)
         /\ \A i \in 1..Len(Wires) : Wires[i] \in WireType /\ Straight(Wires[i])
         /\ Len(layout.vias) \in Nat /\ DOMAIN layout.vias = 1..Len(layout.vias)
         /\ \A n \in 1..Len(layout.vias) : layout.vias[n].net \in STRING /\ layout.vias[n].at \in Int \X Int
         /\ Len(layout.pins) \in Nat /\ DOMAIN layout.pins = 1..Len(layout.pins)
         /\ \A n \in 1..Len(layout.pins) :
              layout.pins[n].net \in STRING /\ (Located(layout.pins[n]) => layout.pins[n].at \in Int \X Int)
<1> DEFINE V == layout.vias
           P == layout.pins
<1>1. /\ Wires \in Seq(WireType) /\ V \in Seq(ViaType) /\ P \in Seq(PinType)
      /\ \A n \in DOMAIN Wires : Straight(Wires[n])
  BY LayoutsAssumption DEF Wires, WireType, ViaType, PinType, Straight
<1> HIDE DEF V, P
<1>2. /\ Len(Wires) \in Nat /\ DOMAIN Wires = 1..Len(Wires)
      /\ \A i \in 1..Len(Wires) : Wires[i] \in WireType
  BY <1>1
<1>3. /\ Len(V) \in Nat /\ DOMAIN V = 1..Len(V)
      /\ \A n \in 1..Len(V) : V[n] \in ViaType
  BY <1>1
<1>4. /\ Len(P) \in Nat /\ DOMAIN P = 1..Len(P)
      /\ \A n \in 1..Len(P) : P[n] \in PinType
  BY <1>1
<1>5. \A n \in 1..Len(V) : V[n].net \in STRING /\ V[n].at \in Int \X Int
  BY <1>3 DEF ViaType
<1>6. \A n \in 1..Len(P) : P[n].net \in STRING /\ (Located(P[n]) => P[n].at \in Int \X Int)
  BY <1>4 DEF PinType, Located
<1>7. QED
  BY <1>1, <1>2, <1>3, <1>4, <1>5, <1>6 DEF V, P

\* A wire is cut at its ends and wherever else something touches it, in places
\* that are all on it.
LEMMA CutPlacesOnWire ==
  ASSUME layout \in Layouts, NEW i \in 1..Len(Wires)
  PROVE  /\ CutPlaces(Wires[i]) \in SUBSET (Low(Wires[i])..High(Wires[i]))
         /\ Low(Wires[i]) \in CutPlaces(Wires[i]) /\ High(Wires[i]) \in CutPlaces(Wires[i])
         /\ \A j \in 1..Len(Wires) : Wires[j] # Wires[i] => Crossed(Wires[i], Wires[j]) \subseteq CutPlaces(Wires[i])
         /\ \A n \in 1..Len(layout.vias) :
              layout.vias[n].net = Wires[i].net /\ Wires[i].layer \in {"M1", "M2"} =>
                Projected(Wires[i], layout.vias[n].at) \subseteq CutPlaces(Wires[i])
         /\ \A n \in 1..Len(layout.pins) :
              layout.pins[n].net = Wires[i].net /\ Located(layout.pins[n]) =>
                Projected(Wires[i], layout.pins[n].at) \subseteq CutPlaces(Wires[i])
<1> DEFINE w == Wires[i]
<1>1. \A x : x \in CutPlaces(w) <=>
         \/ x \in {Low(w), High(w)}
         \/ \E o \in Others(w) : x \in Crossed(w, o)
         \/ \E p \in PlacesOf(w) : x \in Projected(w, p)
  <2> HIDE DEF w
  <2>1. QED
    BY DEF CutPlaces
<1>2. w \in WireType /\ Straight(w)
  BY LayoutShape
<1>3. Low(w) \in Int /\ High(w) \in Int /\ Low(w) < High(w)
  BY <1>2, WireShape
<1>4. \A o : o \in Others(w) <=> \E j \in 1..Len(Wires) : Wires[j] # w /\ o = Wires[j]
  BY LayoutShape DEF Others
<1>5. \A p : p \in PlacesOf(w) <=>
         \/ w.layer \in {"M1", "M2"} /\ \E n \in 1..Len(layout.vias) : layout.vias[n].net = w.net /\ p = layout.vias[n].at
         \/ \E n \in 1..Len(layout.pins) : /\ layout.pins[n].net = w.net /\ Located(layout.pins[n])
                                            /\ p = layout.pins[n].at
  <2>1. ToSet(layout.vias) = {layout.vias[n] : n \in 1..Len(layout.vias)}
    BY LayoutShape DEF ToSet
  <2>2. ToSet(layout.pins) = {layout.pins[n] : n \in 1..Len(layout.pins)}
    BY LayoutShape DEF ToSet
  <2> HIDE DEF w
  <2>3. QED
    BY <2>1, <2>2 DEF PlacesOf
<1>6. \A o \in Others(w) : Crossed(w, o) \subseteq Low(w)..High(w)
  <2>1. \A o \in Others(w) : o \in WireType /\ Straight(o)
    BY <1>4, LayoutShape
  <2> HIDE DEF w
  <2>2. QED
    BY <1>2, <2>1, CrossedOnWire
<1>7. \A p \in PlacesOf(w) : Projected(w, p) \subseteq Low(w)..High(w)
  <2>1. \A p \in PlacesOf(w) : p \in Int \X Int
    <3> HIDE DEF w
    <3>1. QED
      BY <1>5, LayoutShape
  <2> HIDE DEF w
  <2>2. QED
    BY <1>2, <2>1, ProjectedOntoWire
<1> HIDE DEF w
<1>8. CutPlaces(w) \in SUBSET (Low(w)..High(w)) /\ Low(w) \in CutPlaces(w) /\ High(w) \in CutPlaces(w)
  BY <1>1, <1>3, <1>6, <1>7
<1>9. \A j \in 1..Len(Wires) : Wires[j] # w => Crossed(w, Wires[j]) \subseteq CutPlaces(w)
  BY <1>1, <1>4
<1>10. \A n \in 1..Len(layout.vias) : layout.vias[n].net = w.net /\ w.layer \in {"M1", "M2"} =>
         Projected(w, layout.vias[n].at) \subseteq CutPlaces(w)
  BY <1>1, <1>5
<1>11. \A n \in 1..Len(layout.pins) : layout.pins[n].net = w.net /\ Located(layout.pins[n]) =>
         Projected(w, layout.pins[n].at) \subseteq CutPlaces(w)
  BY <1>1, <1>5
<1>12. QED
  BY <1>8, <1>9, <1>10, <1>11 DEF w

\* The cuts of a wire are at least two, and all of its places are among them.
LEMMA CutsAreAll ==
  ASSUME layout \in Layouts, NEW i \in 1..Len(Wires)
  PROVE  \E c \in Nat :
           /\ c >= 2 /\ Cuts(Wires[i]) \in [1..c -> Low(Wires[i])..High(Wires[i])] /\ Len(Cuts(Wires[i])) = c
           /\ \A x \in CutPlaces(Wires[i]) : \E n \in 1..c : Cuts(Wires[i])[n] = x
<1> DEFINE w == Wires[i]
           S == CutPlaces(w)
<1>1. w \in WireType /\ Straight(w)
  BY LayoutShape
<1>2. Low(w) \in Int /\ High(w) \in Int /\ Low(w) < High(w)
  BY <1>1, WireShape
<1>3. S \in SUBSET (Low(w)..High(w)) /\ Low(w) \in S /\ High(w) \in S
  BY CutPlacesOnWire
<1> HIDE DEF w, S
<1>4. IsFiniteSet(S) /\ S \in SUBSET Int
  <2>1. IsFiniteSet(Low(w)..High(w))
    BY <1>2, FS_Interval
  <2>2. IsFiniteSet(S)
    BY <1>3, <2>1, FS_Subset
  <2>3. QED
    BY <1>2, <1>3, <2>2
<1>5. Cardinality(S) \in Nat /\ Cardinality(S) >= 2
  BY <1>2, <1>3, <1>4, TwoMembers
<1>6. /\ Ascending(S) \in [1..Cardinality(S) -> S]
      /\ \A x \in S : \E n \in 1..Cardinality(S) : Ascending(S)[n] = x
  BY <1>4, AscendingIsAll
<1>7. Cuts(w) = Ascending(S)
  BY DEF Cuts, S
<1>8. Cuts(w) \in [1..Cardinality(S) -> Low(w)..High(w)]
  BY <1>3, <1>6, <1>7
<1>9. Len(Cuts(w)) = Cardinality(S)
  BY <1>5, <1>8
<1>10. QED
  BY <1>5, <1>6, <1>7, <1>8, <1>9 DEF S, w
-----------------------------------------------------------------------------
(* The inductive invariant: the wires done are cut at each of their places,   *)
(* the vias done join nodes that lie on them, and so do the pins.            *)
LayerName == STRING \cup {"M1", "M2"}
Placed == [net : STRING, layer : LayerName, at : Int \X Int]
PieceType == [wire : Nat, first : Nat, last : Nat, mid : Nat, length : Int]
Routed == {"vias", "capacitors", "overlaps", "devices", "report", "written"}
WiresCut == IF doing = "wires" THEN Len(Wires) - left ELSE Len(Wires)
ViasPlaced == IF doing = "vias" THEN Len(layout.vias) - left ELSE Len(layout.vias)

RouteTypeOK ==
  /\ layout \in Layouts
  /\ nodes \in Seq(Placed)
  /\ pieces \in Seq(PieceType)
  /\ \A n \in 1..Len(pieces) : pieces[n].first \in 1..Len(nodes) /\ pieces[n].last \in 1..Len(nodes)
  /\ joints \in Seq(SUBSET (STRING \X Int))
  /\ doing \in {"refused", "wires"} \cup Routed
  /\ left \in Nat
  /\ doing = "wires" => left <= Len(Wires) /\ joints = <<>>
  /\ doing = "vias" => left <= Len(layout.vias)
  /\ doing \in Routed => anchor \in [Nets -> STRING \X Int]

Marked(i, x) ==
  \E n \in 1..Len(pieces) :
    /\ pieces[n].wire = i
    /\ \E k \in {pieces[n].first, pieces[n].last} :
         nodes[k] = Node(Wires[i].net, Wires[i].layer, Point(Wires[i], x))
WiresAreCut ==
  doing # "refused" =>
    /\ \A i \in 1..Len(Wires) : Wires[i].layer \in Modelled
    /\ \A i \in 1..WiresCut : \A x \in CutPlaces(Wires[i]) : Marked(i, x)
ViaMeets(n) ==
  \A layer \in {"M1", "M2"} :
    On(layout.vias[n].net, {layer}, layout.vias[n].at) =>
      \E e \in joints[n] : /\ e[2] \in 1..Len(nodes)
                           /\ nodes[e[2]].layer = layer /\ nodes[e[2]].at = layout.vias[n].at
ViasMeet ==
  doing \in Routed =>
    /\ IF doing = "vias" THEN Len(joints) = ViasPlaced ELSE Len(joints) >= ViasPlaced
    /\ \A n \in 1..ViasPlaced : ViaMeets(n)
PinsMeet ==
  doing \in Routed \ {"vias"} =>
    \A n \in 1..Len(layout.pins) :
      Located(layout.pins[n]) /\ On(layout.pins[n].net, Modelled, layout.pins[n].at) =>
        nodes[attached[n][2]].at = layout.pins[n].at
RouteInv == RouteTypeOK /\ WiresAreCut /\ ViasMeet /\ PinsMeet

LEMMA RcInit_Inv == RcInit => RouteInv
<1> SUFFICES ASSUME RcInit PROVE RouteInv
  OBVIOUS
<1>1. layout \in Layouts /\ doing \in {"wires", "refused"} /\ nodes = <<>> /\ pieces = <<>> /\ joints = <<>>
      /\ left = Len(Wires)
  BY DEF RcInit, Wires
<1>2. Len(Wires) \in Nat /\ DOMAIN Wires = 1..Len(Wires)
  BY <1>1, LayoutShape
<1>3. RouteTypeOK
  BY <1>1, <1>2 DEF RouteTypeOK, Routed
<1>4. doing # "refused" => \A i \in 1..Len(Wires) : Wires[i].layer \in Modelled
  <2> SUFFICES ASSUME doing # "refused", NEW i \in 1..Len(Wires) PROVE Wires[i].layer \in Modelled
    OBVIOUS
  <2>1. {w.layer : w \in ToSet(Wires)} \subseteq Modelled
    BY DEF RcInit, Wires
  <2>2. Wires[i] \in ToSet(Wires)
    BY <1>2 DEF ToSet
  <2>3. QED
    BY <2>1, <2>2
<1>5. doing # "refused" => 1..WiresCut = {}
  BY <1>1, <1>2 DEF WiresCut
<1>6. WiresAreCut /\ ViasMeet /\ PinsMeet
  BY <1>1, <1>4, <1>5 DEF WiresAreCut, ViasMeet, PinsMeet, Routed
<1>7. QED
  BY <1>3, <1>6 DEF RouteInv

\* A set of some of the first numbers has a greatest member.
LEMMA GreatestOf ==
  ASSUME NEW N \in Nat, NEW S \in SUBSET (1..N), S # {}
  PROVE  Max(S) \in S
<1> DEFINE T == {N - x : x \in S}
<1>1. T \in SUBSET Nat /\ T # {}
  <2>1. \A x \in S : N - x \in Nat
    OBVIOUS
  <2>2. QED
    BY <2>1
<1> HIDE DEF T
<1>2. Min(T) \in T /\ \A t \in T : Min(T) <= t
  BY <1>1, LeastOf
<1>3. PICK x \in S : Min(T) = N - x
  BY <1>2 DEF T
<1>4. \A y \in S : x >= y
  <2> TAKE y \in S
  <2>1. N - y \in T
    BY DEF T
  <2>2. N - x <= N - y
    BY <1>2, <1>3, <2>1
  <2>3. QED
    BY <2>2
<1>5. QED
  BY <1>4 DEF Max

\* How far a node is from a place.
LEMMA DistanceIsNat ==
  ASSUME NEW q \in Int \X Int, NEW p \in Int \X Int
  PROVE  /\ Distance(<<2 * q[1], 2 * q[2]>>, Doubled(p)) \in Nat
         /\ Distance(<<2 * q[1], 2 * q[2]>>, Doubled(p)) = 0 <=> q = p
<1>1. q[1] \in Int /\ q[2] \in Int /\ p[1] \in Int /\ p[2] \in Int /\ q = <<q[1], q[2]>> /\ p = <<p[1], p[2]>>
  OBVIOUS
<1> DEFINE a == Abs((2 * q[1]) - (2 * p[1]))
           b == Abs((2 * q[2]) - (2 * p[2]))
<1>2. \A x, y \in Int : /\ Abs((2 * x) - (2 * y)) \in Nat
                        /\ Abs((2 * x) - (2 * y)) = 0 <=> x = y
  BY DEF Abs
<1>3. a \in Nat /\ b \in Nat /\ (a = 0 <=> q[1] = p[1]) /\ (b = 0 <=> q[2] = p[2])
  BY <1>1, <1>2
<1>4. Distance(<<2 * q[1], 2 * q[2]>>, Doubled(p)) = a + b
  BY DEF Distance, Doubled
<1> HIDE DEF a, b
<1>5. q = p <=> q[1] = p[1] /\ q[2] = p[2]
  BY <1>1
<1>6. a + b \in Nat /\ (a + b = 0 <=> q = p)
  BY <1>3, <1>5
<1>7. QED
  BY <1>4, <1>6

\* Of some nodes there are some nearest to any place.
LEMMA NearestExists ==
  ASSUME nodes \in Seq(Placed), NEW S \in SUBSET (1..Len(nodes)), S # {}, NEW p \in Int \X Int
  PROVE  Nearest(S, Doubled(p)) \in SUBSET S /\ Nearest(S, Doubled(p)) # {}
<1> DEFINE far(m) == Distance(<<2 * nodes[m].at[1], 2 * nodes[m].at[2]>>, Doubled(p))
           T == {far(m) : m \in S}
<1>1. \A m \in S : far(m) \in Nat
  <2> TAKE m \in S
  <2>1. nodes[m] \in Placed
    OBVIOUS
  <2>2. nodes[m].at \in Int \X Int
    BY <2>1 DEF Placed
  <2>3. QED
    BY <2>2, DistanceIsNat
<1>2. \A m : m \in Nearest(S, Doubled(p)) <=> m \in S /\ \A j \in S : far(m) <= far(j)
  BY DEF Nearest
<1> HIDE DEF far
<1>3. T \in SUBSET Nat /\ T # {}
  BY <1>1
<1>4. Min(T) \in T /\ \A t \in T : Min(T) <= t
  <2> HIDE DEF T
  <2>1. QED
    BY <1>3, LeastOf
<1>5. PICK m \in S : far(m) = Min(T)
  BY <1>4
<1>6. \A j \in S : far(m) <= far(j)
  BY <1>4, <1>5
<1>7. QED
  BY <1>2, <1>6

\* Of some nodes one of which is at a place, the nearest to it are all there.
LEMMA NearestIsThere ==
  ASSUME nodes \in Seq(Placed), NEW S \in SUBSET (1..Len(nodes)), NEW p \in Int \X Int,
         NEW k \in S, nodes[k].at = p
  PROVE  /\ Nearest(S, Doubled(p)) \in SUBSET S /\ Nearest(S, Doubled(p)) # {}
         /\ \A m \in Nearest(S, Doubled(p)) : nodes[m].at = p
<1> DEFINE far(m) == Distance(<<2 * nodes[m].at[1], 2 * nodes[m].at[2]>>, Doubled(p))
<1>1. \A m \in S : nodes[m].at \in Int \X Int
  <2>1. \A m \in S : nodes[m] \in Placed
    OBVIOUS
  <2>2. QED
    BY <2>1 DEF Placed
<1>2. \A m \in S : far(m) \in Nat /\ (nodes[m].at = p <=> far(m) = 0)
  BY <1>1, DistanceIsNat
<1>3. \A m : m \in Nearest(S, Doubled(p)) <=> m \in S /\ \A j \in S : far(m) <= far(j)
  BY DEF Nearest
<1> HIDE DEF far
<1>4. far(k) = 0
  BY <1>2
<1>5. k \in Nearest(S, Doubled(p))
  BY <1>2, <1>3, <1>4
<1>6. \A m \in Nearest(S, Doubled(p)) : far(m) = 0
  <2> TAKE m \in Nearest(S, Doubled(p))
  <2>1. m \in S /\ far(m) <= far(k)
    BY <1>3
  <2>2. far(m) \in Nat
    BY <1>2, <2>1
  <2>3. QED
    BY <1>4, <2>1, <2>2
<1>7. QED
  BY <1>2, <1>3, <1>5, <1>6

\* Once all wires are cut there is a node at every place of a wire that is cut.
LEMMA NodeOnWire ==
  ASSUME RouteTypeOK, WiresAreCut, doing \in Routed, NEW net, NEW layers, NEW p \in Int \X Int, On(net, layers, p),
         \A i \in 1..Len(Wires) : Wires[i].net = net /\ Wires[i].layer \in layers =>
           Projected(Wires[i], p) \subseteq CutPlaces(Wires[i])
  PROVE  \E k \in RoutedOf(net, layers) : nodes[k].at = p
<1>1. layout \in Layouts
  BY DEF RouteTypeOK
<1>2. PICK w \in ToSet(Wires) : w.net = net /\ w.layer \in layers /\ p \in Points(w)
  BY DEF On
<1>3. PICK i \in 1..Len(Wires) : w = Wires[i]
  BY <1>1, <1>2, LayoutShape DEF ToSet
<1>4. w \in WireType /\ Straight(w)
  BY <1>1, <1>3, LayoutShape
<1>5. PICK x \in Low(w)..High(w) : p = Point(w, x)
  BY <1>2 DEF Points
<1>6. x \in CutPlaces(w)
  <2>1. Projected(w, p) = {x}
    BY <1>4, <1>5, ProjectedOntoWire
  <2>2. QED
    BY <1>2, <1>3, <2>1
<1>7. Marked(i, x)
  BY <1>3, <1>6 DEF WiresAreCut, WiresCut, Routed
<1>8. PICK n \in 1..Len(pieces) : \E k \in {pieces[n].first, pieces[n].last} : nodes[k] = Node(w.net, w.layer, p)
  BY <1>3, <1>5, <1>7 DEF Marked
<1>9. PICK k \in {pieces[n].first, pieces[n].last} : nodes[k] = Node(w.net, w.layer, p)
  BY <1>8
<1>10. k \in 1..Len(nodes)
  BY <1>9 DEF RouteTypeOK
<1>11. nodes[k].net = net /\ nodes[k].layer \in layers /\ nodes[k].at = p
  BY <1>2, <1>9 DEF Node
<1>12. k \in DOMAIN nodes
  BY <1>10 DEF RouteTypeOK
<1>13. QED
  BY <1>11, <1>12 DEF RoutedOf
-----------------------------------------------------------------------------
(* The steps.                                                                *)

\* What a step that changes neither the layout, nor nodes and pieces, keeps.
LEMMA SameRoute ==
  ASSUME layout' = layout, nodes' = nodes, pieces' = pieces
  PROVE  /\ Wires' = Wires /\ Nets' = Nets
         /\ \A w : CutPlaces(w)' = CutPlaces(w)
         /\ \A i, x : Marked(i, x)' = Marked(i, x)
         /\ \A net, layers, p : On(net, layers, p)' = On(net, layers, p)
<1>1. Wires' = Wires /\ Nets' = Nets
  BY DEF Wires, Nets
<1>2. \A w : CutPlaces(w)' = CutPlaces(w)
  BY <1>1 DEF CutPlaces, Others, PlacesOf
<1>3. \A i, x : Marked(i, x)' = Marked(i, x)
  BY <1>1 DEF Marked
<1>4. \A net, layers, p : On(net, layers, p)' = On(net, layers, p)
  BY <1>1 DEF On
<1>5. QED
  BY <1>1, <1>2, <1>3, <1>4

\* The nodes and pieces a wire is cut into.
LEMMA CutWireAdds ==
  ASSUME RouteTypeOK, CutWire
  PROVE  LET i == Len(Wires) - left + 1
             w == Wires[i]
         IN  /\ i \in 1..Len(Wires)
             /\ nodes' \in Seq(Placed) /\ Len(nodes') >= Len(nodes)
             /\ \A k \in 1..Len(nodes) : nodes'[k] = nodes[k]
             /\ pieces' \in Seq(PieceType) /\ Len(pieces') >= Len(pieces)
             /\ \A n \in 1..Len(pieces) : pieces'[n] = pieces[n]
             /\ \A n \in 1..Len(pieces') : pieces'[n].first \in 1..Len(nodes') /\ pieces'[n].last \in 1..Len(nodes')
             /\ \A x \in CutPlaces(w) : \E n \in 1..Len(pieces') :
                  /\ pieces'[n].wire = i
                  /\ \E k \in {pieces'[n].first, pieces'[n].last} : nodes'[k] = Node(w.net, w.layer, Point(w, x))
<1> DEFINE i == Len(Wires) - left + 1
           w == Wires[i]
           cut == Cuts(w)
           at(n) == Point(w, cut[n])
           middle(n) == Point(w, (cut[n] + cut[n + 1]) \div 2)
           spots(n) == <<at(n), at(n + 1), middle(n)>>
           new == [m \in 1..(3 * (Len(cut) - 1)) |-> Node(w.net, w.layer, spots((m + 2) \div 3)[1 + ((m - 1) % 3)])]
           k == Len(nodes)
           more == [n \in 1..Len(cut) - 1 |->
                      [wire |-> i, first |-> k + 3 * n - 2, last |-> k + 3 * n - 1, mid |-> k + 3 * n,
                       length |-> cut[n + 1] - cut[n]]]
<1>1. nodes' = nodes \o new /\ pieces' = pieces \o more /\ doing = "wires" /\ left > 0
  BY DEF CutWire
<1>2. layout \in Layouts /\ nodes \in Seq(Placed) /\ pieces \in Seq(PieceType) /\ left \in Nat /\ left <= Len(Wires)
  BY <1>1 DEF RouteTypeOK
<1>3. Len(Wires) \in Nat /\ i \in 1..Len(Wires)
  <2>1. Len(Wires) \in Nat
    BY <1>2, LayoutShape
  <2>2. QED
    BY <1>1, <1>2, <2>1
<1>4. w \in WireType /\ Straight(w)
  BY <1>2, <1>3, LayoutShape
<1>5. PICK c \in Nat :
        /\ c >= 2 /\ cut \in [1..c -> Low(w)..High(w)] /\ Len(cut) = c
        /\ \A x \in CutPlaces(w) : \E n \in 1..c : cut[n] = x
  BY <1>2, <1>3, CutsAreAll
<1>6. Low(w) \in Int /\ High(w) \in Int
  BY <1>4, WireShape
<1> HIDE DEF i, w, cut
<1>7. \A n \in 1..c : cut[n] \in Int /\ at(n) \in Int \X Int
  <2> TAKE n \in 1..c
  <2>1. cut[n] \in Int
    BY <1>5, <1>6
  <2>2. QED
    BY <1>4, <2>1, PointOnWire
<1>8. \A n \in 1..(c - 1) : /\ n \in 1..c /\ n + 1 \in 1..c
                           /\ middle(n) \in Int \X Int
  <2> TAKE n \in 1..(c - 1)
  <2>1. n \in 1..c /\ n + 1 \in 1..c
    BY <1>5
  <2>2. (cut[n] + cut[n + 1]) \div 2 \in Int
    BY <1>7, <2>1
  <2>3. QED
    BY <1>4, <2>1, <2>2, PointOnWire
<1>9. w.net \in STRING /\ w.layer \in LayerName
  BY <1>4 DEF WireType, LayerName
<1> DEFINE d == 3 * (c - 1)
<1>10. new = [m \in 1..d |-> Node(w.net, w.layer, spots((m + 2) \div 3)[1 + ((m - 1) % 3)])]
  BY <1>5
<1>11. \A m \in 1..d : (m + 2) \div 3 \in 1..(c - 1) /\ 1 + ((m - 1) % 3) \in {1, 2, 3}
  BY <1>5
<1>12. \A m \in 1..d : new[m] \in Placed
  <2> TAKE m \in 1..d
  <2> DEFINE n == (m + 2) \div 3
             j == 1 + ((m - 1) % 3)
  <2>1. n \in 1..(c - 1) /\ j \in {1, 2, 3}
    BY <1>11
  <2> HIDE DEF n, j
  <2>2. spots(n)[j] \in Int \X Int
    <3> HIDE DEF at, middle
    <3>1. QED
      BY <1>7, <1>8, <2>1
  <2>3. Node(w.net, w.layer, spots(n)[j]) \in Placed
    <3> HIDE DEF spots
    <3>1. QED
      BY <1>9, <2>2 DEF Node, Placed
  <2>4. new[m] = Node(w.net, w.layer, spots(n)[j])
    BY <1>10 DEF n, j
  <2>5. QED
    BY <2>3, <2>4
<1>13. d \in Nat /\ d >= 3
  BY <1>5
<1>14. new \in Seq(Placed) /\ Len(new) = d
  <2> DEFINE f(m) == Node(w.net, w.layer, spots((m + 2) \div 3)[1 + ((m - 1) % 3)])
  <2>1. new = [m \in 1..d |-> f(m)] /\ \A m \in 1..d : f(m) \in Placed
    BY <1>10, <1>12
  <2> HIDE DEF f, new, d
  <2>2. QED
    BY <1>13, <2>1
<1>15. \A n \in 1..(c - 1) :
         /\ 3 * n - 2 \in 1..d /\ 3 * n - 1 \in 1..d
         /\ new[3 * n - 2] = Node(w.net, w.layer, at(n)) /\ new[3 * n - 1] = Node(w.net, w.layer, at(n + 1))
  <2> TAKE n \in 1..(c - 1)
  <2>1. /\ 3 * n - 2 \in 1..d /\ 3 * n - 1 \in 1..d
        /\ ((3 * n - 2) + 2) \div 3 = n /\ 1 + (((3 * n - 2) - 1) % 3) = 1
        /\ ((3 * n - 1) + 2) \div 3 = n /\ 1 + (((3 * n - 1) - 1) % 3) = 2
    BY <1>5
  <2>2. new[3 * n - 2] = Node(w.net, w.layer, spots(n)[1])
    <3> HIDE DEF spots
    <3>1. QED
      BY <1>10, <2>1
  <2>3. new[3 * n - 1] = Node(w.net, w.layer, spots(n)[2])
    <3> HIDE DEF spots
    <3>1. QED
      BY <1>10, <2>1
  <2>4. spots(n)[1] = at(n) /\ spots(n)[2] = at(n + 1)
    <3> HIDE DEF at, middle
    <3>1. QED
      OBVIOUS
  <2>5. QED
    BY <2>1, <2>2, <2>3, <2>4
<1>16. more \in Seq(PieceType) /\ Len(more) = c - 1
  <2>1. k \in Nat /\ i \in Nat
    BY <1>2, <1>3
  <2>2. \A n \in 1..(c - 1) : [wire |-> i, first |-> k + 3 * n - 2, last |-> k + 3 * n - 1, mid |-> k + 3 * n,
                               length |-> cut[n + 1] - cut[n]] \in PieceType
    <3> TAKE n \in 1..(c - 1)
    <3>1. k + 3 * n - 2 \in Nat /\ k + 3 * n - 1 \in Nat /\ k + 3 * n \in Nat
      BY <2>1
    <3>2. cut[n + 1] - cut[n] \in Int
      BY <1>7, <1>8
    <3>3. QED
      BY <2>1, <3>1, <3>2 DEF PieceType
  <2> DEFINE g(n) == [wire |-> i, first |-> k + 3 * n - 2, last |-> k + 3 * n - 1, mid |-> k + 3 * n,
                      length |-> cut[n + 1] - cut[n]]
  <2>3. more = [n \in 1..(c - 1) |-> g(n)] /\ \A n \in 1..(c - 1) : g(n) \in PieceType
    BY <1>5, <2>2
  <2>4. c - 1 \in Nat
    BY <1>5
  <2> HIDE DEF g, more
  <2>5. QED
    BY <2>3, <2>4
<1>17. \A n \in 1..(c - 1) : more[n].wire = i /\ more[n].first = k + 3 * n - 2 /\ more[n].last = k + 3 * n - 1
  BY <1>5
<1> HIDE DEF new, more, at, middle, spots
<1>18. /\ nodes' \in Seq(Placed) /\ Len(nodes') = Len(nodes) + d
       /\ \A m \in 1..Len(nodes) : nodes'[m] = nodes[m]
       /\ \A m \in 1..d : nodes'[Len(nodes) + m] = new[m]
  <2> HIDE DEF d
  <2>1. /\ nodes \o new \in Seq(Placed) /\ Len(nodes \o new) = Len(nodes) + Len(new)
        /\ \A m \in 1..(Len(nodes) + Len(new)) :
             (nodes \o new)[m] = IF m <= Len(nodes) THEN nodes[m] ELSE new[m - Len(nodes)]
    BY <1>2, <1>14, ConcatProperties
  <2>2. Len(nodes) \in Nat
    BY <1>2
  <2>3. \A m \in 1..Len(nodes) : m \in 1..(Len(nodes) + Len(new)) /\ m <= Len(nodes)
    BY <1>13, <1>14, <2>2
  <2>4. \A m \in 1..d : /\ Len(nodes) + m \in 1..(Len(nodes) + Len(new))
                        /\ ~(Len(nodes) + m <= Len(nodes)) /\ (Len(nodes) + m) - Len(nodes) = m
    BY <1>13, <1>14, <2>2
  <2>5. QED
    BY <1>1, <1>14, <2>1, <2>3, <2>4
<1>19. /\ pieces' \in Seq(PieceType) /\ Len(pieces') = Len(pieces) + (c - 1)
       /\ \A n \in 1..Len(pieces) : pieces'[n] = pieces[n]
       /\ \A n \in 1..(c - 1) : pieces'[Len(pieces) + n] = more[n]
  <2>1. /\ pieces \o more \in Seq(PieceType) /\ Len(pieces \o more) = Len(pieces) + Len(more)
        /\ \A m \in 1..(Len(pieces) + Len(more)) :
             (pieces \o more)[m] = IF m <= Len(pieces) THEN pieces[m] ELSE more[m - Len(pieces)]
    BY <1>2, <1>16, ConcatProperties
  <2>2. Len(pieces) \in Nat /\ c - 1 \in Nat
    BY <1>2, <1>5
  <2>3. \A m \in 1..Len(pieces) : m \in 1..(Len(pieces) + Len(more)) /\ m <= Len(pieces)
    BY <1>16, <2>2
  <2>4. \A m \in 1..(c - 1) : /\ Len(pieces) + m \in 1..(Len(pieces) + Len(more))
                              /\ ~(Len(pieces) + m <= Len(pieces)) /\ (Len(pieces) + m) - Len(pieces) = m
    BY <1>16, <2>2
  <2>5. QED
    BY <1>1, <1>16, <2>1, <2>3, <2>4
<1>20. Len(nodes) \in Nat /\ Len(pieces) \in Nat
  BY <1>2
<1>21. \A n \in 1..Len(pieces') : pieces'[n].first \in 1..Len(nodes') /\ pieces'[n].last \in 1..Len(nodes')
  <2> TAKE n \in 1..Len(pieces')
  <2>1. CASE n \in 1..Len(pieces)
    <3>1. pieces'[n].first \in 1..Len(nodes) /\ pieces'[n].last \in 1..Len(nodes)
      BY <1>19, <2>1 DEF RouteTypeOK
    <3>2. QED
      BY <1>13, <1>18, <1>20, <3>1
  <2>2. CASE n \notin 1..Len(pieces)
    <3> DEFINE m == n - Len(pieces)
    <3>1. m \in 1..(c - 1) /\ n = Len(pieces) + m
      BY <1>5, <1>19, <1>20, <2>2
    <3>2. pieces'[n] = more[m]
      BY <1>19, <3>1
    <3>3. pieces'[n].first = Len(nodes) + (3 * m - 2) /\ pieces'[n].last = Len(nodes) + (3 * m - 1)
      BY <1>17, <1>20, <3>1, <3>2
    <3>4. 3 * m - 2 \in 1..d /\ 3 * m - 1 \in 1..d
      BY <1>15, <3>1
    <3>5. QED
      BY <1>13, <1>18, <1>20, <3>3, <3>4
  <2>3. QED
    BY <2>1, <2>2
<1>22. ASSUME NEW x \in CutPlaces(w)
       PROVE  \E n \in 1..Len(pieces') :
                /\ pieces'[n].wire = i
                /\ \E m \in {pieces'[n].first, pieces'[n].last} : nodes'[m] = Node(w.net, w.layer, Point(w, x))
  <2>1. PICK n \in 1..c : cut[n] = x
    BY <1>5
  <2>2. at(n) = Point(w, x)
    BY <2>1 DEF at
  <2>3. \A m \in 1..(c - 1) :
          /\ Len(pieces) + m \in 1..Len(pieces') /\ pieces'[Len(pieces) + m].wire = i
          /\ nodes'[pieces'[Len(pieces) + m].first] = Node(w.net, w.layer, at(m))
          /\ nodes'[pieces'[Len(pieces) + m].last] = Node(w.net, w.layer, at(m + 1))
    <3> TAKE m \in 1..(c - 1)
    <3>1. pieces'[Len(pieces) + m] = more[m]
      BY <1>19
    <3>2. more[m].first = Len(nodes) + (3 * m - 2) /\ more[m].last = Len(nodes) + (3 * m - 1) /\ more[m].wire = i
      BY <1>17, <1>20
    <3>3. /\ nodes'[Len(nodes) + (3 * m - 2)] = Node(w.net, w.layer, at(m))
          /\ nodes'[Len(nodes) + (3 * m - 1)] = Node(w.net, w.layer, at(m + 1))
      BY <1>15, <1>18
    <3>4. Len(pieces) + m \in 1..Len(pieces')
      BY <1>5, <1>19, <1>20
    <3>5. QED
      BY <3>1, <3>2, <3>3, <3>4
  <2>4. CASE n < c
    <3>1. n \in 1..(c - 1)
      BY <1>5, <2>4
    <3>2. QED
      BY <2>2, <2>3, <3>1
  <2>5. CASE n = c
    <3>1. c - 1 \in 1..(c - 1) /\ (c - 1) + 1 = n
      BY <1>5, <2>5
    <3>2. QED
      BY <2>2, <2>3, <3>1
  <2>6. QED
    BY <1>5, <2>4, <2>5
<1>23. QED
  BY <1>3, <1>13, <1>18, <1>19, <1>20, <1>21, <1>22, <1>5 DEF i, w

LEMMA CutWire_Inv == RouteInv /\ CutWire => RouteInv'
<1> SUFFICES ASSUME RouteInv, CutWire PROVE RouteInv'
  OBVIOUS
<1>1. RouteTypeOK /\ WiresAreCut
  BY DEF RouteInv
<1>2. /\ layout' = layout /\ joints' = joints /\ doing' = doing /\ left' = left - 1
      /\ doing = "wires" /\ left > 0
  BY DEF CutWire
<1>3. Wires' = Wires /\ \A x : CutPlaces(x)' = CutPlaces(x)
  BY <1>2 DEF Wires, CutPlaces, Others, PlacesOf
<1>4. layout \in Layouts /\ left \in Nat /\ left <= Len(Wires) /\ joints = <<>>
  BY <1>1, <1>2 DEF RouteTypeOK
<1>5. Len(Wires) \in Nat
  BY <1>4, LayoutShape
<1>6. PICK i \in 1..Len(Wires) : i = Len(Wires) - left + 1
  BY <1>1, CutWireAdds
<1> DEFINE w == Wires[i]
<1>7. /\ i \in 1..Len(Wires)
      /\ nodes' \in Seq(Placed) /\ Len(nodes') >= Len(nodes)
      /\ \A k \in 1..Len(nodes) : nodes'[k] = nodes[k]
      /\ pieces' \in Seq(PieceType) /\ Len(pieces') >= Len(pieces)
      /\ \A n \in 1..Len(pieces) : pieces'[n] = pieces[n]
      /\ \A n \in 1..Len(pieces') : pieces'[n].first \in 1..Len(nodes') /\ pieces'[n].last \in 1..Len(nodes')
      /\ \A x \in CutPlaces(w) : \E n \in 1..Len(pieces') :
           /\ pieces'[n].wire = i
           /\ \E k \in {pieces'[n].first, pieces'[n].last} : nodes'[k] = Node(w.net, w.layer, Point(w, x))
  BY <1>1, <1>6, CutWireAdds
<1>8. RouteTypeOK'
  <2>1. layout' \in Layouts /\ joints' \in Seq(SUBSET (STRING \X Int)) /\ doing' = "wires" /\ "wires" \notin Routed
    BY <1>1, <1>2, <1>4 DEF RouteTypeOK, Routed
  <2>2. left' \in Nat /\ left' <= Len(Wires)
    BY <1>2, <1>4, <1>5
  <2>3. QED
    BY <1>2, <1>3, <1>4, <1>7, <2>1, <2>2 DEF RouteTypeOK
<1>9. WiresAreCut'
  <2>1. WiresCut' = i /\ WiresCut = i - 1
    BY <1>2, <1>3, <1>4, <1>5, <1>6 DEF WiresCut
  <2>2. \A j \in 1..Len(Wires) : Wires[j].layer \in Modelled
    BY <1>1, <1>2 DEF WiresAreCut
  <2>3. ASSUME NEW x \in CutPlaces(w) PROVE Marked(i, x)'
    <3>1. PICK n \in 1..Len(pieces') :
            /\ pieces'[n].wire = i
            /\ \E k \in {pieces'[n].first, pieces'[n].last} : nodes'[k] = Node(w.net, w.layer, Point(w, x))
      BY <1>7
    <3>2. QED
      BY <1>3, <3>1 DEF Marked
  <2>4. ASSUME NEW j \in 1..(i - 1), NEW x \in CutPlaces(Wires[j]) PROVE Marked(j, x)'
    <3>1. Marked(j, x)
      BY <1>1, <1>2, <2>1, <2>4 DEF WiresAreCut
    <3>2. PICK n \in 1..Len(pieces) :
            /\ pieces[n].wire = j
            /\ \E k \in {pieces[n].first, pieces[n].last} :
                 nodes[k] = Node(Wires[j].net, Wires[j].layer, Point(Wires[j], x))
      BY <3>1 DEF Marked
    <3>3. pieces[n].first \in 1..Len(nodes) /\ pieces[n].last \in 1..Len(nodes)
      BY <1>1 DEF RouteTypeOK
    <3>4. n \in 1..Len(pieces')
      BY <1>1, <1>7 DEF RouteTypeOK
    <3>5. pieces'[n] = pieces[n] /\ nodes'[pieces[n].first] = nodes[pieces[n].first]
          /\ nodes'[pieces[n].last] = nodes[pieces[n].last]
      BY <1>7, <3>3
    <3>6. QED
      BY <1>3, <3>2, <3>4, <3>5 DEF Marked
  <2>5. \A j \in 1..i : \A x \in CutPlaces(Wires[j]) : Marked(j, x)'
    <3> TAKE j \in 1..i
    <3> TAKE x \in CutPlaces(Wires[j])
    <3>1. j = i \/ j \in 1..(i - 1)
      BY <1>5, <1>7
    <3>2. QED
      BY <2>3, <2>4, <3>1
  <2>6. QED
    BY <1>2, <1>3, <2>1, <2>2, <2>5 DEF WiresAreCut
<1>10. (ViasMeet /\ PinsMeet)'
  BY <1>2 DEF ViasMeet, PinsMeet, Routed
<1>11. QED
  BY <1>8, <1>9, <1>10 DEF RouteInv

LEMMA NetsAreNames ==
  ASSUME layout \in Layouts
  PROVE  /\ Nets \subseteq STRING
         /\ \A n \in 1..Len(layout.pins) : layout.pins[n].net \in Nets
<1>1. /\ ToSet(layout.vias) = {layout.vias[n] : n \in 1..Len(layout.vias)}
      /\ ToSet(layout.pins) = {layout.pins[n] : n \in 1..Len(layout.pins)}
      /\ ToSet(Wires) = {Wires[n] : n \in 1..Len(Wires)}
  BY LayoutShape DEF ToSet
<1>2. \A w \in ToSet(Wires) : w.net \in STRING
  BY <1>1, LayoutShape DEF WireType
<1>3. \A v \in ToSet(layout.vias) : v.net \in STRING
  BY <1>1, LayoutShape
<1>4. \A p \in ToSet(layout.pins) : p.net \in STRING
  BY <1>1, LayoutShape
<1>5. QED
  BY <1>1, <1>2, <1>3, <1>4 DEF Nets

LEMMA RoutedOfNodes ==
  ASSUME nodes \in Seq(Placed), NEW net, NEW layers
  PROVE  /\ RoutedOf(net, layers) \in SUBSET (1..Len(nodes))
         /\ \A k \in RoutedOf(net, layers) : nodes[k].net = net /\ nodes[k].layer \in layers
  BY DEF RoutedOf

LEMMA ChooseAnchors_Inv == RouteInv /\ ChooseAnchors => RouteInv'
<1> SUFFICES ASSUME RouteInv, ChooseAnchors PROVE RouteInv'
  OBVIOUS
<1>1. RouteTypeOK /\ WiresAreCut
  BY DEF RouteInv
<1>2. /\ layout' = layout /\ nodes' = nodes /\ pieces' = pieces /\ joints' = joints
      /\ doing = "wires" /\ left = 0 /\ left' = Len(layout.vias) /\ doing' = "vias"
  BY DEF ChooseAnchors
<1>3. layout \in Layouts /\ joints = <<>> /\ nodes \in Seq(Placed) /\ Len(nodes) \in Nat
  BY <1>1, <1>2 DEF RouteTypeOK
<1>4. /\ Wires' = Wires /\ Nets' = Nets
      /\ \A w : CutPlaces(w)' = CutPlaces(w)
      /\ \A i, x : Marked(i, x)' = Marked(i, x)
  BY <1>2, SameRoute
<1>5. Len(Wires) \in Nat /\ Len(layout.vias) \in Nat
  BY <1>3, LayoutShape
<1>6. anchor' \in [Nets -> STRING \X Int]
  <2>1. PICK last \in SUBSET Nets :
          anchor' = [n \in Nets |-> <<n, IF RoutedOf(n, Modelled) = {} THEN 0
                                         ELSE IF n \in last THEN Max(RoutedOf(n, Modelled))
                                         ELSE Min(RoutedOf(n, Modelled))>>]
    BY DEF ChooseAnchors
  <2>2. \A n \in Nets : RoutedOf(n, Modelled) # {} =>
          Max(RoutedOf(n, Modelled)) \in Int /\ Min(RoutedOf(n, Modelled)) \in Int
    <3> SUFFICES ASSUME NEW n \in Nets, RoutedOf(n, Modelled) # {}
                 PROVE  Max(RoutedOf(n, Modelled)) \in Int /\ Min(RoutedOf(n, Modelled)) \in Int
      OBVIOUS
    <3>1. RoutedOf(n, Modelled) \in SUBSET (1..Len(nodes))
      BY <1>3, RoutedOfNodes
    <3>2. RoutedOf(n, Modelled) \in SUBSET Nat
      BY <3>1
    <3>3. Max(RoutedOf(n, Modelled)) \in 1..Len(nodes) /\ Min(RoutedOf(n, Modelled)) \in 1..Len(nodes)
      BY <1>3, <3>1, <3>2, LeastOf, GreatestOf
    <3>4. QED
      BY <3>3
  <2>3. \A n \in Nets : n \in STRING
    BY <1>3, NetsAreNames
  <2>4. QED
    BY <2>1, <2>2, <2>3
<1>7. RouteTypeOK'
  BY <1>1, <1>2, <1>4, <1>5, <1>6 DEF RouteTypeOK, Routed
<1>8. WiresAreCut'
  <2>1. WiresCut' = WiresCut
    BY <1>2, <1>4, <1>5 DEF WiresCut
  <2>2. QED
    BY <1>1, <1>2, <1>4, <2>1 DEF WiresAreCut
<1>9. ViasMeet'
  <2>1. ViasPlaced' = 0 /\ Len(joints') = 0
    BY <1>2, <1>3, <1>5 DEF ViasPlaced
  <2>2. 1..(ViasPlaced') = {}
    BY <2>1
  <2>3. QED
    BY <1>2, <2>1, <2>2 DEF ViasMeet
<1>10. PinsMeet'
  BY <1>2 DEF PinsMeet, Routed
<1>11. QED
  BY <1>7, <1>8, <1>9, <1>10 DEF RouteInv

\* The nodes a via adds, and the two it joins.
LEMMA PlaceViaAdds ==
  ASSUME RouteInv, PlaceVia
  PROVE  LET m == Len(layout.vias) - left + 1
             v == layout.vias[m]
         IN  /\ m \in 1..Len(layout.vias)
             /\ nodes' \in Seq(Placed) /\ Len(nodes') >= Len(nodes)
             /\ \A k \in 1..Len(nodes) : nodes'[k] = nodes[k]
             /\ \E joint \in SUBSET (STRING \X Int) :
                  /\ joints' = Append(joints, joint)
                  /\ \A layer \in {"M1", "M2"} : On(v.net, {layer}, v.at) =>
                       \E e \in joint : /\ e[2] \in 1..Len(nodes)
                                        /\ nodes[e[2]].layer = layer /\ nodes[e[2]].at = v.at
<1> DEFINE m == Len(layout.vias) - left + 1
           v == layout.vias[m]
           near(layer) == Nearest(RoutedOf(v.net, {layer}), Doubled(v.at))
           lacking(layer) == IF RoutedOf(v.net, {layer}) = {} THEN <<layer>> ELSE <<>>
           missing == lacking("M1") \o lacking("M2")
           made(layer) == IF missing[1] = layer THEN Len(nodes) + 1 ELSE Len(nodes) + 2
           end(layer) == IF RoutedOf(v.net, {layer}) = {} THEN made(layer) ELSE Min(near(layer))
           new == [n \in DOMAIN missing |-> Node(v.net, missing[n], v.at)]
           joint == {<<v.net, end("M1")>>, <<v.net, end("M2")>>}
<1>1. doing = "vias" /\ left > 0 /\ nodes' = nodes \o new /\ joints' = Append(joints, joint)
  BY DEF PlaceVia
<1>2. RouteTypeOK /\ WiresAreCut
  BY DEF RouteInv
<1>3. layout \in Layouts /\ nodes \in Seq(Placed) /\ Len(nodes) \in Nat /\ left \in Nat /\ left <= Len(layout.vias)
  <2>1. doing = "vias"
    BY <1>1
  <2> HIDE DEF m, v, near, lacking, missing, made, end, new, joint
  <2>2. layout \in Layouts /\ nodes \in Seq(Placed) /\ left \in Nat /\ left <= Len(layout.vias)
    BY <1>2, <2>1 DEF RouteTypeOK
  <2>3. Len(nodes) \in Nat
    BY <2>2, LenProperties
  <2>4. QED
    BY <2>2, <2>3
<1>4. Len(layout.vias) \in Nat /\ m \in 1..Len(layout.vias)
  <2>1. Len(layout.vias) \in Nat
    BY <1>3, LayoutShape
  <2>2. QED
    BY <1>1, <1>3, <2>1
<1>5. v.net \in STRING /\ v.at \in Int \X Int
  BY <1>3, <1>4, LayoutShape
<1>6. \A layer : RoutedOf(v.net, {layer}) \in SUBSET (1..Len(nodes))
  BY <1>3, RoutedOfNodes
<1>7. \A layer : RoutedOf(v.net, {layer}) # {} => Min(near(layer)) \in RoutedOf(v.net, {layer}) /\ Min(near(layer)) \in near(layer)
  <2> SUFFICES ASSUME NEW layer, RoutedOf(v.net, {layer}) # {}
               PROVE  Min(near(layer)) \in RoutedOf(v.net, {layer}) /\ Min(near(layer)) \in near(layer)
    OBVIOUS
  <2> HIDE DEF v
  <2>1. near(layer) \in SUBSET RoutedOf(v.net, {layer}) /\ near(layer) # {}
    BY <1>3, <1>5, <1>6, NearestExists
  <2>2. near(layer) \in SUBSET Nat
    <3>1. RoutedOf(v.net, {layer}) \in SUBSET (1..Len(nodes))
      BY <1>6
    <3> DEFINE N == near(layer)
               R == RoutedOf(v.net, {layer})
    <3>2. N \in SUBSET R /\ R \in SUBSET (1..Len(nodes)) /\ Len(nodes) \in Nat
      BY <1>3, <2>1, <3>1
    <3> HIDE DEF N, R
    <3>3. \A x \in N : x \in Nat
      BY <3>2
    <3>4. N \in SUBSET Nat
      BY <3>3
    <3>5. QED
      BY <3>4 DEF N
  <2>3. Min(near(layer)) \in near(layer)
    <3> HIDE DEF near
    <3>1. QED
      BY <2>1, <2>2, LeastOf
  <2>4. QED
    BY <2>1, <2>3
<1> HIDE DEF v, m
<1>8. new \in Seq(Placed)
  <2>1. lacking("M1") \in Seq(LayerName) /\ lacking("M2") \in Seq(LayerName)
    <3>1. <<"M1">> \in Seq(LayerName) /\ <<"M2">> \in Seq(LayerName) /\ <<>> \in Seq(LayerName)
      <4>1. \A S : \A a \in S : <<a>> \in Seq(S)
        OBVIOUS
      <4>2. \A S : <<>> \in Seq(S)
        OBVIOUS
      <4>3. "M1" \in LayerName /\ "M2" \in LayerName
        BY DEF LayerName
      <4>4. QED
        BY <4>1, <4>2, <4>3, Zenon
    <3>2. \A layer \in {"M1", "M2"} : lacking(layer) \in {<<layer>>, <<>>}
      OBVIOUS
    <3> HIDE DEF lacking
    <3>3. QED
      BY <3>1, <3>2
  <2>2. missing \in Seq(LayerName)
    <3> HIDE DEF lacking
    <3>1. QED
      BY <2>1, ConcatProperties
  <2> HIDE DEF missing
  <2>3. /\ DOMAIN missing = 1..Len(missing) /\ Len(missing) \in Nat
         /\ \A n \in DOMAIN missing : missing[n] \in LayerName
    BY <2>2
  <2>4. \A n \in DOMAIN missing : Node(v.net, missing[n], v.at) \in Placed
    BY <1>5, <2>3 DEF Node, Placed
  <2> DEFINE f(n) == Node(v.net, missing[n], v.at)
  <2>5. new = [n \in 1..Len(missing) |-> f(n)] /\ \A n \in 1..Len(missing) : f(n) \in Placed
    BY <2>3, <2>4
  <2> HIDE DEF f, new
  <2>6. QED
    BY <2>3, <2>5
<1>9. joint \in SUBSET (STRING \X Int)
  <2>1. \A layer : end(layer) \in Int
    <3> TAKE layer
    <3>1. made(layer) \in Int
      <4> HIDE DEF missing
      <4>1. QED
        BY <1>3
    <3>2. CASE RoutedOf(v.net, {layer}) = {}
      <4> HIDE DEF made, near
      <4>1. QED
        BY <3>1, <3>2
    <3>3. CASE RoutedOf(v.net, {layer}) # {}
      <4> HIDE DEF made, near
      <4>1. Min(near(layer)) \in 1..Len(nodes)
        BY <1>6, <1>7, <3>3
      <4>2. QED
        BY <3>3, <4>1
    <3>4. QED
      BY <3>2, <3>3
  <2> HIDE DEF end
  <2>2. QED
    BY <1>5, <2>1
<1>10. ASSUME NEW layer \in {"M1", "M2"}, On(v.net, {layer}, v.at)
       PROVE  \E e \in joint : /\ e[2] \in 1..Len(nodes)
                               /\ nodes[e[2]].layer = layer /\ nodes[e[2]].at = v.at
  <2>1. \A i \in 1..Len(Wires) : Wires[i].net = v.net /\ Wires[i].layer \in {layer} =>
          Projected(Wires[i], v.at) \subseteq CutPlaces(Wires[i])
    BY <1>3, <1>4, CutPlacesOnWire DEF v
  <2>2. PICK k \in RoutedOf(v.net, {layer}) : nodes[k].at = v.at
    BY <1>1, <1>2, <1>5, <1>10, <2>1, NodeOnWire DEF Routed
  <2>3. \A j \in near(layer) : nodes[j].at = v.at
    BY <1>3, <1>5, <1>6, <2>2, NearestIsThere
  <2>4. end(layer) = Min(near(layer)) /\ Min(near(layer)) \in near(layer) /\ Min(near(layer)) \in RoutedOf(v.net, {layer})
    <3> HIDE DEF near, made
    <3>1. QED
      BY <1>7, <2>2
  <2> HIDE DEF near, end
  <2>5. nodes[end(layer)].layer = layer /\ nodes[end(layer)].at = v.at /\ end(layer) \in 1..Len(nodes)
    BY <1>3, <1>6, <2>3, <2>4, RoutedOfNodes
  <2>6. <<v.net, end(layer)>> \in joint
    OBVIOUS
  <2>7. QED
    BY <2>5, <2>6
<1> HIDE DEF new, joint
<1>11. /\ nodes' \in Seq(Placed) /\ Len(nodes') >= Len(nodes)
       /\ \A k \in 1..Len(nodes) : nodes'[k] = nodes[k]
  <2>1. /\ nodes \o new \in Seq(Placed) /\ Len(nodes \o new) = Len(nodes) + Len(new)
        /\ \A n \in 1..(Len(nodes) + Len(new)) :
             (nodes \o new)[n] = IF n <= Len(nodes) THEN nodes[n] ELSE new[n - Len(nodes)]
    BY <1>3, <1>8, ConcatProperties
  <2>2. Len(new) \in Nat
    BY <1>8
  <2>3. \A k \in 1..Len(nodes) : k \in 1..(Len(nodes) + Len(new)) /\ k <= Len(nodes)
    BY <1>3, <2>2
  <2>4. QED
    BY <1>1, <1>3, <2>1, <2>2, <2>3
<1>12. \E j \in SUBSET (STRING \X Int) :
         /\ joints' = Append(joints, j)
         /\ \A layer \in {"M1", "M2"} : On(v.net, {layer}, v.at) =>
              \E e \in j : /\ e[2] \in 1..Len(nodes)
                           /\ nodes[e[2]].layer = layer /\ nodes[e[2]].at = v.at
  BY <1>1, <1>9, <1>10
<1>13. QED
  BY <1>4, <1>11, <1>12 DEF v, m

LEMMA PlaceVia_Inv == RouteInv /\ PlaceVia => RouteInv'
<1> SUFFICES ASSUME RouteInv, PlaceVia PROVE RouteInv'
  OBVIOUS
<1>1. RouteTypeOK /\ WiresAreCut /\ ViasMeet
  BY DEF RouteInv
<1>2. /\ layout' = layout /\ pieces' = pieces /\ anchor' = anchor /\ doing' = doing /\ left' = left - 1
      /\ doing = "vias" /\ left > 0
  BY DEF PlaceVia
<1>3. PICK m \in 1..Len(layout.vias) : m = Len(layout.vias) - left + 1
  BY <1>1, PlaceViaAdds
<1> DEFINE v == layout.vias[m]
<1>4. /\ nodes' \in Seq(Placed) /\ Len(nodes') >= Len(nodes)
      /\ \A k \in 1..Len(nodes) : nodes'[k] = nodes[k]
      /\ \E joint \in SUBSET (STRING \X Int) :
           /\ joints' = Append(joints, joint)
           /\ \A layer \in {"M1", "M2"} : On(v.net, {layer}, v.at) =>
                \E e \in joint : /\ e[2] \in 1..Len(nodes)
                                 /\ nodes[e[2]].layer = layer /\ nodes[e[2]].at = v.at
  BY <1>3, PlaceViaAdds
<1>5. PICK joint \in SUBSET (STRING \X Int) :
           /\ joints' = Append(joints, joint)
           /\ \A layer \in {"M1", "M2"} : On(v.net, {layer}, v.at) =>
                \E e \in joint : /\ e[2] \in 1..Len(nodes)
                                 /\ nodes[e[2]].layer = layer /\ nodes[e[2]].at = v.at
  BY <1>4
<1>6. layout \in Layouts /\ joints \in Seq(SUBSET (STRING \X Int)) /\ left \in Nat /\ left <= Len(layout.vias)
      /\ Len(nodes) \in Nat /\ Len(nodes') \in Nat
  BY <1>1, <1>2, <1>4 DEF RouteTypeOK
<1>7. Len(layout.vias) \in Nat /\ Len(Wires) \in Nat
  BY <1>6, LayoutShape
<1>8. /\ Wires' = Wires /\ Nets' = Nets
      /\ \A x : CutPlaces(x)' = CutPlaces(x)
      /\ \A net, layers, p : On(net, layers, p)' = On(net, layers, p)
  BY <1>2 DEF Wires, Nets, CutPlaces, Others, PlacesOf, On
<1>9. RouteTypeOK'
  <2>1. joints' \in Seq(SUBSET (STRING \X Int))
    BY <1>5, <1>6, AppendProperties
  <2>2. \A n \in 1..Len(pieces') : pieces'[n].first \in 1..Len(nodes') /\ pieces'[n].last \in 1..Len(nodes')
    <3> TAKE n \in 1..Len(pieces')
    <3>1. pieces'[n].first \in 1..Len(nodes) /\ pieces'[n].last \in 1..Len(nodes)
      BY <1>1, <1>2 DEF RouteTypeOK
    <3>2. QED
      BY <1>4, <1>6, <3>1
  <2>3. left' \in Nat /\ left' <= Len(layout.vias)
    BY <1>2, <1>6, <1>7
  <2>4. QED
    BY <1>1, <1>2, <1>4, <1>8, <2>1, <2>2, <2>3 DEF RouteTypeOK, Routed
<1>10. \A n \in 1..Len(pieces) : nodes'[pieces[n].first] = nodes[pieces[n].first] /\ nodes'[pieces[n].last] = nodes[pieces[n].last]
  <2> TAKE n \in 1..Len(pieces)
  <2>1. pieces[n].first \in 1..Len(nodes) /\ pieces[n].last \in 1..Len(nodes)
    BY <1>1 DEF RouteTypeOK
  <2>2. QED
    BY <1>4, <2>1
<1>11. WiresAreCut'
  <2>1. WiresCut' = WiresCut
    BY <1>2, <1>8 DEF WiresCut
  <2>2. \A i, x : Marked(i, x) => Marked(i, x)'
    <3> SUFFICES ASSUME NEW i, NEW x, Marked(i, x) PROVE Marked(i, x)'
      OBVIOUS
    <3>1. PICK n \in 1..Len(pieces) :
            /\ pieces[n].wire = i
            /\ \E k \in {pieces[n].first, pieces[n].last} :
                 nodes[k] = Node(Wires[i].net, Wires[i].layer, Point(Wires[i], x))
      BY DEF Marked
    <3>2. \E k \in {pieces[n].first, pieces[n].last} :
            nodes'[k] = Node(Wires[i].net, Wires[i].layer, Point(Wires[i], x))
      BY <1>10, <3>1
    <3>3. QED
      BY <1>2, <1>8, <3>1, <3>2 DEF Marked
  <2>3. QED
    BY <1>1, <1>2, <1>8, <2>1, <2>2 DEF WiresAreCut
<1>12. ViasMeet'
  <2>1. ViasPlaced' = m /\ ViasPlaced = m - 1 /\ Len(joints) = m - 1
    <3>1. ViasPlaced = Len(layout.vias) - left /\ Len(joints) = ViasPlaced
      BY <1>1, <1>2 DEF ViasPlaced, ViasMeet, Routed
    <3>2. ViasPlaced' = Len(layout.vias) - (left - 1)
      BY <1>2 DEF ViasPlaced
    <3>3. QED
      BY <1>3, <1>6, <1>7, <3>1, <3>2
  <2>2. /\ Len(joints') = m /\ joints'[m] = joint
        /\ \A n \in 1..(m - 1) : joints'[n] = joints[n]
    <3>1. /\ Len(Append(joints, joint)) = Len(joints) + 1
          /\ \A n \in 1..Len(joints) : Append(joints, joint)[n] = joints[n]
          /\ Append(joints, joint)[Len(joints) + 1] = joint
      BY <1>6, AppendProperties
    <3>2. Len(joints) + 1 = m
      BY <1>3, <1>7, <2>1
    <3>3. QED
      BY <1>5, <2>1, <3>1, <3>2
  <2>3. \A k \in 1..Len(nodes) : k \in 1..Len(nodes')
    BY <1>4, <1>6
  <2>4. ViaMeets(m)'
    <3> SUFFICES ASSUME NEW layer \in {"M1", "M2"}, On(v.net, {layer}, v.at)
                 PROVE  \E e \in joint : /\ e[2] \in 1..Len(nodes')
                                         /\ nodes'[e[2]].layer = layer /\ nodes'[e[2]].at = v.at
      BY <1>2, <1>8, <2>2 DEF ViaMeets
    <3>1. PICK e \in joint : /\ e[2] \in 1..Len(nodes)
                            /\ nodes[e[2]].layer = layer /\ nodes[e[2]].at = v.at
      BY <1>5
    <3>2. QED
      BY <1>4, <2>3, <3>1
  <2>5. \A n \in 1..(m - 1) : ViaMeets(n)'
    <3> TAKE n \in 1..(m - 1)
    <3>1. ViaMeets(n)
      BY <1>1, <1>2, <2>1 DEF ViasMeet, Routed
    <3>2. joints'[n] = joints[n]
      BY <2>2
    <3>3. QED
      BY <1>2, <1>4, <1>8, <2>3, <3>1, <3>2 DEF ViaMeets
  <2>6. \A n \in 1..m : ViaMeets(n)'
    <3> TAKE n \in 1..m
    <3>1. n = m \/ n \in 1..(m - 1)
      BY <1>7
    <3>2. QED
      BY <2>4, <2>5, <3>1
  <2>7. QED
    BY <1>2, <2>1, <2>2, <2>6 DEF ViasMeet
<1>13. PinsMeet'
  BY <1>2 DEF PinsMeet, Routed
<1>14. QED
  BY <1>9, <1>11, <1>12, <1>13 DEF RouteInv

\* What joins the pins, and where to: a pin on a wire of its net goes to a node that
\* lies at the pin, whichever of the nearest is taken.
LEMMA PlacePinsJoins ==
  ASSUME RouteInv, PlacePins
  PROVE  /\ \A n \in 1..Len(layout.pins) :
              Located(layout.pins[n]) /\ On(layout.pins[n].net, Modelled, layout.pins[n].at) =>
                nodes[attached'[n][2]].at = layout.pins[n].at
         /\ joints' \in Seq(SUBSET (STRING \X Int)) /\ Len(joints') >= Len(joints)
         /\ \A n \in 1..Len(joints) : joints'[n] = joints[n]
<1>1. PICK last \in SUBSET DOMAIN layout.pins :
       LET pin(j) == layout.pins[j]
           own(j) == RoutedOf(pin(j).net, Modelled)
           near(j) == Nearest(own(j), Doubled(pin(j).at))
           target(j) == CASE ~Located(pin(j)) \/ own(j) = {} -> anchor[pin(j).net]
                          [] j \in last /\ Located(pin(j)) /\ own(j) # {} -> Id(Max(near(j)))
                          [] OTHER -> Id(Min(near(j)))
           joint(j) == IF target(j)[2] = 0 THEN {} ELSE {<<pin(j).net, -j>>, target(j)}
       IN  /\ attached' = [j \in DOMAIN layout.pins |-> target(j)]
           /\ joints' = joints \o [j \in DOMAIN layout.pins |-> joint(j)]
  BY DEF PlacePins
<1> DEFINE pin(j) == layout.pins[j]
           own(j) == RoutedOf(pin(j).net, Modelled)
           near(j) == Nearest(own(j), Doubled(pin(j).at))
           target(j) == CASE ~Located(pin(j)) \/ own(j) = {} -> anchor[pin(j).net]
                          [] j \in last /\ Located(pin(j)) /\ own(j) # {} -> Id(Max(near(j)))
                          [] OTHER -> Id(Min(near(j)))
           joint(j) == IF target(j)[2] = 0 THEN {} ELSE {<<pin(j).net, -j>>, target(j)}
           new == [j \in DOMAIN layout.pins |-> joint(j)]
<1>2. attached' = [j \in DOMAIN layout.pins |-> target(j)] /\ joints' = joints \o new
  BY <1>1
<1>3. doing = "vias" /\ RouteTypeOK /\ WiresAreCut
  BY DEF PlacePins, RouteInv
<1>4. /\ layout \in Layouts /\ nodes \in Seq(Placed) /\ Len(nodes) \in Nat
      /\ anchor \in [Nets -> STRING \X Int] /\ joints \in Seq(SUBSET (STRING \X Int))
  BY <1>3 DEF RouteTypeOK, Routed
<1>5. /\ Len(layout.pins) \in Nat /\ DOMAIN layout.pins = 1..Len(layout.pins)
      /\ \A n \in 1..Len(layout.pins) :
           pin(n).net \in STRING /\ pin(n).net \in Nets /\ (Located(pin(n)) => pin(n).at \in Int \X Int)
  BY <1>4, LayoutShape, NetsAreNames
<1>6. \A n \in 1..Len(layout.pins) : own(n) \in SUBSET (1..Len(nodes))
  BY <1>4, RoutedOfNodes
<1>7. ASSUME NEW n \in 1..Len(layout.pins), Located(pin(n)), own(n) # {}
      PROVE  \E k \in near(n) : k \in own(n) /\ target(n) = Id(k)
  <2>1. near(n) \in SUBSET own(n) /\ near(n) # {}
    BY <1>4, <1>5, <1>6, <1>7, NearestExists
  <2> DEFINE N == near(n)
             R == own(n)
  <2>2. N \in SUBSET R /\ R \in SUBSET (1..Len(nodes)) /\ N # {}
    BY <1>6, <2>1
  <2>3. target(n) = IF n \in last THEN Id(Max(N)) ELSE Id(Min(N))
    BY <1>7
  <2> HIDE DEF N, R, target
  <2>4. N \in SUBSET (1..Len(nodes)) /\ N \in SUBSET Nat
    <3>1. \A x \in N : x \in 1..Len(nodes) /\ x \in Nat
      BY <1>4, <2>2
    <3>2. QED
      BY <3>1
  <2>5. Max(N) \in N /\ Min(N) \in N
    BY <1>4, <2>2, <2>4, GreatestOf, LeastOf
  <2>6. QED
    BY <2>2, <2>3, <2>5 DEF N, R
<1>8. \A n \in 1..Len(layout.pins) : target(n) \in STRING \X Int
  <2> TAKE n \in 1..Len(layout.pins)
  <2>1. CASE ~Located(pin(n)) \/ own(n) = {}
    <3>1. target(n) = anchor[pin(n).net]
      BY <2>1
    <3>2. QED
      BY <1>4, <1>5, <3>1
  <2>2. CASE Located(pin(n)) /\ own(n) # {}
    <3>1. PICK k \in near(n) : k \in own(n) /\ target(n) = Id(k)
      BY <1>7, <2>2
    <3> HIDE DEF target, near, own
    <3>2. k \in 1..Len(nodes) /\ nodes[k] \in Placed
      <4>1. k \in 1..Len(nodes)
        BY <1>6, <3>1
      <4>2. QED
        BY <1>4, <4>1
    <3>3. Id(k) \in STRING \X Int
      BY <1>4, <3>2 DEF Id, Placed
    <3>4. QED
      BY <3>1, <3>3
  <2>3. QED
    BY <2>1, <2>2
<1>9. \A n \in 1..Len(layout.pins) : joint(n) \in SUBSET (STRING \X Int)
  <2> TAKE n \in 1..Len(layout.pins)
  <2> HIDE DEF target
  <2>1. target(n) \in STRING \X Int
    BY <1>8
  <2>2. <<pin(n).net, -n>> \in STRING \X Int
    BY <1>5
  <2>3. QED
    BY <2>1, <2>2
<1>10. \A n \in 1..Len(layout.pins) :
         Located(pin(n)) /\ On(pin(n).net, Modelled, pin(n).at) => nodes[target(n)[2]].at = pin(n).at
  <2> SUFFICES ASSUME NEW n \in 1..Len(layout.pins), Located(pin(n)), On(pin(n).net, Modelled, pin(n).at)
               PROVE  nodes[target(n)[2]].at = pin(n).at
    OBVIOUS
  <2>1. \A i \in 1..Len(Wires) : Wires[i].net = pin(n).net /\ Wires[i].layer \in Modelled =>
          Projected(Wires[i], pin(n).at) \subseteq CutPlaces(Wires[i])
    BY <1>4, CutPlacesOnWire
  <2>2. PICK k \in own(n) : nodes[k].at = pin(n).at
    BY <1>3, <1>5, <2>1, NodeOnWire DEF Routed
  <2>3. \A j \in near(n) : nodes[j].at = pin(n).at
    BY <1>4, <1>5, <1>6, <2>2, NearestIsThere
  <2>4. PICK j \in near(n) : j \in own(n) /\ target(n) = Id(j)
    BY <1>7, <2>2
  <2> HIDE DEF target, near, own
  <2>5. target(n)[2] = j
    BY <2>4 DEF Id
  <2>6. QED
    BY <2>3, <2>5
<1> HIDE DEF target, joint, pin
<1>11. new \in Seq(SUBSET (STRING \X Int)) /\ Len(new) \in Nat
  <2> DEFINE T == SUBSET (STRING \X Int)
             l == Len(layout.pins)
  <2>1. new = [j \in 1..l |-> joint(j)] /\ l \in Nat /\ \A j \in 1..l : joint(j) \in T
    BY <1>5, <1>9
  <2> HIDE DEF T, l, new
  <2>2. new \in Seq(T)
    BY <2>1
  <2>3. QED
    BY <2>2 DEF T
<1> HIDE DEF new
<1>12. /\ joints' \in Seq(SUBSET (STRING \X Int)) /\ Len(joints') >= Len(joints)
       /\ \A n \in 1..Len(joints) : joints'[n] = joints[n]
  <2> DEFINE T == SUBSET (STRING \X Int)
  <2>1. joints \in Seq(T) /\ new \in Seq(T)
    BY <1>4, <1>11
  <2> HIDE DEF T
  <2>2. /\ joints \o new \in Seq(T) /\ Len(joints \o new) = Len(joints) + Len(new)
        /\ \A n \in 1..(Len(joints) + Len(new)) :
             (joints \o new)[n] = IF n <= Len(joints) THEN joints[n] ELSE new[n - Len(joints)]
    BY <2>1, ConcatProperties
  <2>3. Len(joints) \in Nat
    BY <2>1
  <2>4. \A n \in 1..Len(joints) : n \in 1..(Len(joints) + Len(new)) /\ n <= Len(joints)
    BY <1>11, <2>3
  <2>5. QED
    BY <1>2, <1>11, <2>2, <2>3, <2>4 DEF T
<1>13. \A n \in 1..Len(layout.pins) : attached'[n] = target(n)
  BY <1>2, <1>5
<1>14. QED
  BY <1>10, <1>12, <1>13 DEF pin

LEMMA PlacePins_Inv == RouteInv /\ PlacePins => RouteInv'
<1> SUFFICES ASSUME RouteInv, PlacePins PROVE RouteInv'
  OBVIOUS
<1>1. RouteTypeOK /\ WiresAreCut /\ ViasMeet
  BY DEF RouteInv
<1>2. /\ layout' = layout /\ nodes' = nodes /\ pieces' = pieces /\ anchor' = anchor /\ left' = left
      /\ doing = "vias" /\ left = 0 /\ doing' = "capacitors"
  BY DEF PlacePins
<1>3. /\ \A n \in 1..Len(layout.pins) :
           Located(layout.pins[n]) /\ On(layout.pins[n].net, Modelled, layout.pins[n].at) =>
             nodes[attached'[n][2]].at = layout.pins[n].at
      /\ joints' \in Seq(SUBSET (STRING \X Int)) /\ Len(joints') >= Len(joints)
      /\ \A n \in 1..Len(joints) : joints'[n] = joints[n]
  BY PlacePinsJoins
<1>4. /\ Wires' = Wires /\ Nets' = Nets
      /\ \A w : CutPlaces(w)' = CutPlaces(w)
      /\ \A i, x : Marked(i, x)' = Marked(i, x)
      /\ \A net, layers, p : On(net, layers, p)' = On(net, layers, p)
  BY <1>2, SameRoute
<1>5. Len(layout.vias) \in Nat
  BY <1>1, LayoutShape DEF RouteTypeOK
<1>6. ViasPlaced = Len(layout.vias) /\ ViasPlaced' = Len(layout.vias) /\ Len(joints) = Len(layout.vias)
  <2>1. ViasPlaced = Len(layout.vias) - 0 /\ ViasPlaced' = Len(layout.vias)
    BY <1>2 DEF ViasPlaced
  <2>2. Len(joints) = ViasPlaced
    BY <1>1, <1>2 DEF ViasMeet, Routed
  <2>3. QED
    BY <1>5, <2>1, <2>2
<1>7. RouteTypeOK'
  BY <1>1, <1>2, <1>3, <1>4 DEF RouteTypeOK, Routed
<1>8. WiresAreCut'
  <2>1. WiresCut = Len(Wires) /\ WiresCut' = Len(Wires)
    BY <1>2, <1>4 DEF WiresCut
  <2>2. QED
    BY <1>1, <1>2, <1>4, <2>1 DEF WiresAreCut
<1>9. ViasMeet'
  <2>1. \A n \in 1..ViasPlaced : ViaMeets(n)'
    <3> TAKE n \in 1..ViasPlaced
    <3>1. ViaMeets(n)
      BY <1>1, <1>2 DEF ViasMeet, Routed
    <3>2. joints'[n] = joints[n]
      BY <1>3, <1>6
    <3>3. QED
      BY <1>2, <1>4, <3>1, <3>2 DEF ViaMeets
  <2>2. QED
    BY <1>2, <1>3, <1>6, <2>1 DEF ViasMeet
<1>10. PinsMeet'
  BY <1>2, <1>3, <1>4 DEF PinsMeet
<1>11. QED
  BY <1>7, <1>8, <1>9, <1>10 DEF RouteInv

\* Nothing after that moves a node, a piece or a joint.
LEMMA Kept_Inv ==
  ASSUME RouteInv, UNCHANGED <<layout, nodes, pieces, anchor, joints, attached, left>>,
         \/ doing' = doing
         \/ doing \in Routed \ {"vias"} /\ doing' \in Routed \ {"vias"}
  PROVE  RouteInv'
<1>1. RouteTypeOK /\ WiresAreCut /\ ViasMeet /\ PinsMeet
  BY DEF RouteInv
<1>2. /\ Wires' = Wires /\ Nets' = Nets
      /\ \A w : CutPlaces(w)' = CutPlaces(w)
      /\ \A i, x : Marked(i, x)' = Marked(i, x)
      /\ \A net, layers, p : On(net, layers, p)' = On(net, layers, p)
  BY SameRoute
<1>3. WiresCut' = WiresCut /\ ViasPlaced' = ViasPlaced
  BY <1>2 DEF WiresCut, ViasPlaced, Routed
<1>4. RouteTypeOK'
  BY <1>1, <1>2 DEF RouteTypeOK, Routed
<1>5. WiresAreCut'
  BY <1>1, <1>2, <1>3 DEF WiresAreCut, Routed
<1>6. ViasMeet'
  <2>1. \A n : ViaMeets(n) => ViaMeets(n)'
    BY <1>2 DEF ViaMeets
  <2>2. QED
    BY <1>1, <1>3, <2>1 DEF ViasMeet, Routed
<1>7. PinsMeet'
  BY <1>1, <1>2 DEF PinsMeet, Routed
<1>8. QED
  BY <1>4, <1>5, <1>6, <1>7 DEF RouteInv

LEMMA RcNext_Inv == RouteInv /\ [RcNext]_rcVars => RouteInv'
<1> SUFFICES ASSUME RouteInv, [RcNext]_rcVars PROVE RouteInv'
  OBVIOUS
<1>1. CASE CutWire
  BY <1>1, CutWire_Inv
<1>2. CASE Attach
  BY <1>2, ChooseAnchors_Inv, PlaceVia_Inv, PlacePins_Inv DEF Attach
<1>3. CASE Capacitors
  BY <1>3, Kept_Inv DEF Capacitors, Routed
<1>4. CASE LayerOverlaps
  BY <1>4, Kept_Inv DEF LayerOverlaps, Routed
<1>5. CASE Devices
  BY <1>5, Kept_Inv DEF Devices, Routed
<1>6. CASE WriteSpef
  BY <1>6, Kept_Inv DEF WriteSpef, Routed
<1>7. CASE UNCHANGED rcVars
  BY <1>7, Kept_Inv DEF rcVars
<1>8. QED
  BY <1>1, <1>2, <1>3, <1>4, <1>5, <1>6, <1>7 DEF RcNext

LEMMA MarkedIsCut ==
  ASSUME RouteTypeOK, NEW i, NEW x, Marked(i, x)
  PROVE  Point(Wires[i], x) \in CutAt(i)
<1>1. PICK n \in 1..Len(pieces) :
        /\ pieces[n].wire = i
        /\ \E k \in {pieces[n].first, pieces[n].last} :
             nodes[k] = Node(Wires[i].net, Wires[i].layer, Point(Wires[i], x))
  BY DEF Marked
<1> DEFINE p == pieces[n]
<1>2. p \in {q \in ToSet(pieces) : q.wire = i}
  <2>1. pieces \in Seq(PieceType)
    BY DEF RouteTypeOK
  <2>2. pieces[n] \in ToSet(pieces)
    BY <2>1 DEF ToSet
  <2>3. QED
    BY <1>1, <2>2
<1>3. Point(Wires[i], x) \in {nodes[p.first].at, nodes[p.last].at}
  BY <1>1 DEF Node
<1>4. QED
  BY <1>2, <1>3 DEF CutAt

LEMMA TouchingWiresMeet ==
  ASSUME RouteInv, doing = "written", NEW i \in 1..Len(Wires), NEW j \in 1..Len(Wires), Touching(i, j)
  PROVE  CutAt(i) \cap CutAt(j) # {}
<1> DEFINE w == Wires[i]
           o == Wires[j]
<1>1. RouteTypeOK /\ WiresAreCut /\ layout \in Layouts
  BY DEF RouteInv, RouteTypeOK
<1>2. \A n \in 1..Len(Wires) : \A x \in CutPlaces(Wires[n]) : Point(Wires[n], x) \in CutAt(n)
  BY <1>1, MarkedIsCut DEF WiresAreCut, WiresCut
<1>3. w \in WireType /\ Straight(w) /\ o \in WireType /\ Straight(o)
  BY <1>1, LayoutShape
<1>4. w.net = o.net /\ w.layer = o.layer /\ Points(w) \cap Points(o) # {}
  BY DEF Touching
<1>5. CASE w = o
  <2>1. Low(w) \in CutPlaces(w)
    BY <1>1, CutPlacesOnWire
  <2>2. Point(w, Low(w)) \in CutAt(i) /\ Point(w, Low(w)) \in CutAt(j)
    BY <1>2, <1>5, <2>1
  <2>3. QED
    BY <2>2
<1>6. CASE w # o
  <2> HIDE DEF w, o
  <2>1. PICK x \in Crossed(w, o) : \E y \in Crossed(o, w) : Point(w, x) = Point(o, y)
    BY <1>3, <1>4, SharedIsCrossed
  <2>2. PICK y \in Crossed(o, w) : Point(w, x) = Point(o, y)
    BY <2>1
  <2>3. x \in CutPlaces(w) /\ y \in CutPlaces(o)
    BY <1>1, <1>6, CutPlacesOnWire DEF w, o
  <2>4. Point(w, x) \in CutAt(i) /\ Point(o, y) \in CutAt(j)
    BY <1>2, <2>3 DEF w, o
  <2>5. QED
    BY <2>2, <2>4
<1>7. QED
  BY <1>5, <1>6

LEMMA RouteInv_Meets == RouteInv => WhatTouchesMeets
<1> SUFFICES ASSUME RouteInv, doing = "written" PROVE WhatTouchesMeets
  BY DEF WhatTouchesMeets
<1>1. layout \in Layouts /\ ViasMeet /\ PinsMeet
  BY DEF RouteInv, RouteTypeOK
<1>2. /\ DOMAIN Wires = 1..Len(Wires) /\ DOMAIN layout.vias = 1..Len(layout.vias)
      /\ DOMAIN layout.pins = 1..Len(layout.pins)
  BY <1>1, LayoutShape
<1>3. \A i, j \in DOMAIN Wires : Touching(i, j) => CutAt(i) \cap CutAt(j) # {}
  BY <1>2, TouchingWiresMeet
<1>4. \A n \in 1..Len(layout.vias) : ViaMeets(n)
  BY <1>1 DEF ViasMeet, Routed, ViasPlaced
<1>5. \A n \in DOMAIN layout.vias : \A layer \in {"M1", "M2"} :
        On(layout.vias[n].net, {layer}, layout.vias[n].at) =>
          \E e \in joints[n] : nodes[e[2]].layer = layer /\ nodes[e[2]].at = layout.vias[n].at
  <2> SUFFICES ASSUME NEW n \in DOMAIN layout.vias, NEW layer \in {"M1", "M2"},
                      On(layout.vias[n].net, {layer}, layout.vias[n].at)
               PROVE  \E e \in joints[n] : nodes[e[2]].layer = layer /\ nodes[e[2]].at = layout.vias[n].at
    OBVIOUS
  <2>1. ViaMeets(n)
    BY <1>2, <1>4
  <2>2. PICK e \in joints[n] : /\ e[2] \in 1..Len(nodes)
                               /\ nodes[e[2]].layer = layer /\ nodes[e[2]].at = layout.vias[n].at
    BY <2>1 DEF ViaMeets
  <2>3. QED
    BY <2>2
<1>6. \A n \in DOMAIN layout.pins :
        Located(layout.pins[n]) /\ On(layout.pins[n].net, Modelled, layout.pins[n].at) =>
          nodes[attached[n][2]].at = layout.pins[n].at
  BY <1>1, <1>2 DEF PinsMeet, Routed
<1>7. QED
  BY <1>3, <1>5, <1>6 DEF WhatTouchesMeets

\* The route while it is built: wires that were cut have a node at each of their
\* places, and so keep it, vias and pins that were placed have met the wires below.
THEOREM RouteIsKept == RcSpec => []RouteInv
<1>1. RouteInv /\ [RcNext]_rcVars => RouteInv'
  BY RcNext_Inv
<1>2. QED
  BY RcInit_Inv, <1>1, PTL DEF RcSpec

\* build_route_topology, for every layout: wires of a net that touch have a node at
\* a place they share, and a via or a located pin on a wire is joined to a node
\* that lies where it is.
THEOREM TouchingIsJoined == RcSpec => []WhatTouchesMeets
<1>1. RcSpec => []RouteInv
  BY RouteIsKept
<1>2. QED
  BY <1>1, RouteInv_Meets, PTL

-----------------------------------------------------------------------------
(* The views of the timing analyses.                                         *)

\* What has been made so far: nothing is made that is not made of the package, and
\* a lumped SPEF only where every instance has a model.
ViewsInv ==
  /\ package \in Packages
  /\ making \in {"spef", "sdf", "model", "made", "refused"}
  /\ making \in {"sdf", "model", "made"} =>
       IF Distributed(ToSet(package.spef)) THEN given = {Own(n) : n \in ToSet(package.spef)}
       ELSE given = {Lumped(n) : n \in ToSet(package.spef)} /\ Unknown = {}
  /\ making \in {"model", "made"} => annotated = {c \in ToSet(package.sdf) : c.instance # "" /\ c.arcs # {}}
  /\ making = "made" => paths = [name \in ModelNames |-> Arcs(ModelOf(name))]

LEMMA ViewsInit_Inv == ViewsInit => ViewsInv
  BY DEF ViewsInit, ViewsInv

LEMMA ViewsNext_Inv == ViewsInv /\ [ViewsNext]_viewVars => ViewsInv'
<1> SUFFICES ASSUME ViewsInv, [ViewsNext]_viewVars PROVE ViewsInv'
  OBVIOUS
<1>1. package' = package
  BY DEF ViewsNext, PrepareSpef, IcarusSdf, TimingModel, viewVars
<1>2. /\ Unknown' = Unknown /\ ModelNames' = ModelNames
      /\ \A nets : Distributed(nets)' = Distributed(nets)
      /\ \A n : Own(n)' = Own(n) /\ Lumped(n)' = Lumped(n)
      /\ \A name : Arcs(ModelOf(name))' = Arcs(ModelOf(name))
  BY <1>1 DEF Unknown, ModelNames, Distributed, Own, Lumped, StarOf, ConnectionsOf, PinDirection, ModelOf, Arcs
<1>3. CASE PrepareSpef
  BY <1>1, <1>2, <1>3 DEF PrepareSpef, Refuse, ViewsInv
<1>4. CASE IcarusSdf
  BY <1>1, <1>2, <1>4 DEF IcarusSdf, Refuse, ViewsInv
<1>5. CASE TimingModel
  BY <1>1, <1>2, <1>5 DEF TimingModel, Refuse, ViewsInv
<1>6. CASE UNCHANGED viewVars
  BY <1>1, <1>2, <1>6 DEF viewVars, ViewsInv
<1>7. QED
  BY <1>3, <1>4, <1>5, <1>6 DEF ViewsNext

LEMMA ModelOfIsOne ==
  ASSUME NEW name \in ModelNames
  PROVE  ModelOf(name) \in ToSet(package.models) /\ ModelOf(name).name = name
<1>1. PICK c \in ToSet(package.models) : c.name = name
  BY DEF ModelNames
<1>2. QED
  BY <1>1 DEF ModelOf

\* The instances whose cells are known: their pins, and what drives.
LEMMA InstanceShape ==
  ASSUME package \in Packages, NEW i \in ToSet(package.instances)
  PROVE  /\ i.name # "" /\ IsFiniteSet(DOMAIN i.pins)
         /\ Unknown = {} =>
              \A p \in DOMAIN i.pins : PinDirection(ModelOf(i.cell), p) = "O" <=>
                                         p \notin Power /\ p \in ModelOf(i.cell).drives
<1>1. i.name # "" /\ IsFiniteSet(DOMAIN i.pins)
  BY PackagesAssumption
<1>2. ASSUME Unknown = {}, NEW p \in DOMAIN i.pins
      PROVE  PinDirection(ModelOf(i.cell), p) = "O" <=> p \notin Power /\ p \in ModelOf(i.cell).drives
  <2> DEFINE c == ModelOf(i.cell)
  <2>1. i.cell \in ModelNames
    BY <1>2 DEF Unknown
  <2>2. c \in ToSet(package.models) /\ c.name = i.cell
    BY <2>1, ModelOfIsOne
  <2> HIDE DEF c
  <2>3. /\ c.drives \cap c.ports = (c.declared \cup c.assigned \cup c.clocked) \cap c.ports
        /\ DOMAIN i.pins \subseteq c.ports
    BY <2>2, PackagesAssumption
  <2>4. p \in c.drives <=> p \in Outputs(c)
    BY <1>2, <2>3 DEF Outputs
  <2>5. PinDirection(c, p) = "O" <=> p \notin Power /\ p \in Outputs(c)
    BY DEF PinDirection
  <2>6. QED
    BY <2>4, <2>5 DEF c
<1>3. QED
  BY <1>1, <1>2

\* What a function makes of a finite set is finite.
LEMMA ImageIsFinite ==
  ASSUME NEW S, IsFiniteSet(S), NEW f, DOMAIN f = S
  PROVE  IsFiniteSet({f[x] : x \in S})
<1> DEFINE T == {f[x] : x \in S}
           g == [x \in S |-> f[x]]
<1>1. g \in Surjection(S, T)
  <2>1. g \in [S -> T] /\ \A t \in T : \E x \in S : g[x] = t
    OBVIOUS
  <2> HIDE DEF g, T
  <2>2. QED
    BY <2>1 DEF Surjection
<1> HIDE DEF T, g
<1>2. IsFiniteSet(T)
  BY <1>1, FS_Surjection
<1>3. QED
  BY <1>2 DEF T

LEMMA ConnectionsAreFinite ==
  ASSUME package \in Packages, NEW net
  PROVE  IsFiniteSet(ConnectionsOf(net))
<1> DEFINE port == {[at |-> "", pin |-> net, direction |-> package.ports[net]] : n \in {net} \cap DOMAIN package.ports}
           on(i) == {q \in DOMAIN i.pins : i.pins[q] = net}
           conn(i, p) == [at |-> i.name, pin |-> p, direction |-> PinDirection(ModelOf(i.cell), p)]
           of(i) == {conn(i, p) : p \in on(i)}
           all == {of(i) : i \in ToSet(package.instances)}
<1>1. ConnectionsOf(net) = port \cup UNION all
  BY DEF ConnectionsOf
<1>2. IsFiniteSet(port)
  <2> DEFINE x == [at |-> "", pin |-> net, direction |-> package.ports[net]]
  <2>1. port \in SUBSET {x}
    OBVIOUS
  <2> HIDE DEF port, x
  <2>2. IsFiniteSet({x})
    BY FS_Singleton
  <2>3. QED
    BY <2>1, <2>2, FS_Subset
<1>3. \A i \in ToSet(package.instances) : IsFiniteSet(of(i))
  <2> TAKE i \in ToSet(package.instances)
  <2>1. IsFiniteSet(DOMAIN i.pins)
    BY InstanceShape
  <2>2. IsFiniteSet(on(i))
    <3>1. on(i) \subseteq DOMAIN i.pins
      OBVIOUS
    <3> HIDE DEF on
    <3>2. QED
      BY <2>1, <3>1, FS_Subset
  <2> DEFINE f == [p \in on(i) |-> conn(i, p)]
  <2>3. of(i) = {f[p] : p \in on(i)} /\ DOMAIN f = on(i)
    OBVIOUS
  <2> HIDE DEF f, on, of
  <2>4. QED
    BY <2>2, <2>3, ImageIsFinite
<1>4. IsFiniteSet(ToSet(package.instances))
  <2>1. package.instances \in Seq(ToSet(package.instances))
    BY PackagesAssumption
  <2> DEFINE seq == package.instances
  <2>2. ToSet(seq) = {seq[n] : n \in DOMAIN seq}
    BY DEF ToSet
  <2>3. Len(seq) \in Nat /\ DOMAIN seq = 1..Len(seq)
    BY <2>1
  <2>4. IsFiniteSet(1..Len(seq))
    BY <2>3, FS_Interval
  <2> HIDE DEF seq
  <2>5. IsFiniteSet({seq[n] : n \in 1..Len(seq)})
    BY <2>3, <2>4, ImageIsFinite
  <2>6. QED
    BY <2>2, <2>3, <2>5 DEF seq
<1> HIDE DEF of
<1>5. IsFiniteSet(all)
  <2> DEFINE I == ToSet(package.instances)
             f == [i \in I |-> of(i)]
  <2>1. all = {f[i] : i \in I} /\ DOMAIN f = I
    OBVIOUS
  <2> HIDE DEF f, all
  <2>2. QED
    BY <1>4, <2>1, ImageIsFinite
<1>6. IsFiniteSet(UNION all)
  <2>1. \A S \in all : IsFiniteSet(S)
    BY <1>3
  <2> HIDE DEF all
  <2>2. QED
    BY <1>5, <2>1, FS_UNION
<1> HIDE DEF port, all
<1>7. QED
  BY <1>1, <1>2, <1>6, FS_Union

\* Of the connections of a net those that drive it are its drivers in the netlist.
LEMMA DriversAreFound ==
  ASSUME package \in Packages, Unknown = {}, NEW net
  PROVE  {<<x.at, x.pin>> : x \in {y \in ConnectionsOf(net) : y.direction = IF y.at = "" THEN "I" ELSE "O"}}
           = Drivers(net)
<1> DEFINE driving(y) == y.direction = IF y.at = "" THEN "I" ELSE "O"
           D == {<<x.at, x.pin>> : x \in {y \in ConnectionsOf(net) : driving(y)}}
           port == [at |-> "", pin |-> net, direction |-> package.ports[net]]
           conn(i, p) == [at |-> i.name, pin |-> p, direction |-> PinDirection(ModelOf(i.cell), p)]
<1>1. ASSUME NEW x \in ConnectionsOf(net)
      PROVE  \/ net \in DOMAIN package.ports /\ x = port
             \/ \E i \in ToSet(package.instances) : \E p \in DOMAIN i.pins : i.pins[p] = net /\ x = conn(i, p)
  BY <1>1 DEF ConnectionsOf
<1>2. net \in DOMAIN package.ports => port \in ConnectionsOf(net)
  BY DEF ConnectionsOf
<1>3. \A i \in ToSet(package.instances) : \A p \in DOMAIN i.pins : i.pins[p] = net => conn(i, p) \in ConnectionsOf(net)
  <2> DEFINE of(i) == {conn(i, p) : p \in {q \in DOMAIN i.pins : i.pins[q] = net}}
  <2>1. UNION {of(i) : i \in ToSet(package.instances)} \subseteq ConnectionsOf(net)
    BY DEF ConnectionsOf
  <2>2. \A i : \A p \in DOMAIN i.pins : i.pins[p] = net => conn(i, p) \in of(i)
    OBVIOUS
  <2> HIDE DEF of, conn
  <2>3. QED
    BY <2>1, <2>2
<1>4. \A i \in ToSet(package.instances) : \A p \in DOMAIN i.pins :
        driving(conn(i, p)) <=> p \notin Power /\ p \in ModelOf(i.cell).drives
  <2> TAKE i \in ToSet(package.instances)
  <2> TAKE p \in DOMAIN i.pins
  <2>1. i.name # "" /\ (PinDirection(ModelOf(i.cell), p) = "O" <=> p \notin Power /\ p \in ModelOf(i.cell).drives)
    BY InstanceShape
  <2>2. QED
    BY <2>1
<1>5. driving(port) <=> package.ports[net] = "I"
  OBVIOUS
<1>6. D \subseteq Drivers(net)
  <2> SUFFICES ASSUME NEW x \in ConnectionsOf(net), driving(x) PROVE <<x.at, x.pin>> \in Drivers(net)
    OBVIOUS
  <2> HIDE DEF driving
  <2>1. CASE net \in DOMAIN package.ports /\ x = port
    BY <1>5, <2>1 DEF Drivers
  <2>2. ASSUME NEW i \in ToSet(package.instances), NEW p \in DOMAIN i.pins, i.pins[p] = net, x = conn(i, p)
        PROVE  <<x.at, x.pin>> \in Drivers(net)
    <3>1. p \notin Power /\ p \in ModelOf(i.cell).drives
      BY <1>4, <2>2
    <3>2. <<i.name, p>> \in Drivers(net)
      <4> DEFINE of(j) == {<<j.name, r>> : r \in {q \in DOMAIN j.pins \ Power : j.pins[q] = net /\ q \in ModelOf(j.cell).drives}}
      <4>1. UNION {of(j) : j \in ToSet(package.instances)} \subseteq Drivers(net)
        BY DEF Drivers
      <4>2. <<i.name, p>> \in of(i)
        BY <2>2, <3>1
      <4> HIDE DEF of
      <4>3. QED
        BY <4>1, <4>2
    <3>3. QED
      BY <2>2, <3>2
  <2> HIDE DEF port, conn
  <2>3. QED
    BY <1>1, <2>1, <2>2
<1>7. Drivers(net) \subseteq D
  <2> SUFFICES ASSUME NEW d \in Drivers(net) PROVE d \in D
    OBVIOUS
  <2>1. \/ d = <<"", net>> /\ net \in DOMAIN package.ports /\ package.ports[net] = "I"
        \/ \E i \in ToSet(package.instances) : \E p \in DOMAIN i.pins \ Power :
             i.pins[p] = net /\ p \in ModelOf(i.cell).drives /\ d = <<i.name, p>>
    BY DEF Drivers
  <2>2. CASE d = <<"", net>> /\ net \in DOMAIN package.ports /\ package.ports[net] = "I"
    <3>1. driving(port) /\ port \in ConnectionsOf(net)
      BY <1>2, <1>5, <2>2
    <3>2. d = <<port.at, port.pin>>
      BY <2>2
    <3> HIDE DEF driving, port
    <3>3. QED
      BY <3>1, <3>2
  <2>3. ASSUME NEW i \in ToSet(package.instances), NEW p \in DOMAIN i.pins \ Power,
               i.pins[p] = net, p \in ModelOf(i.cell).drives, d = <<i.name, p>>
        PROVE  d \in D
    <3>1. driving(conn(i, p)) /\ conn(i, p) \in ConnectionsOf(net)
      BY <1>3, <1>4, <2>3
    <3>2. d = <<conn(i, p).at, conn(i, p).pin>>
      BY <2>3
    <3> HIDE DEF driving, conn
    <3>3. QED
      BY <3>1, <3>2
  <2>4. QED
    BY <2>1, <2>2, <2>3
<1>8. QED
  BY <1>6, <1>7

\* So many equal parts of r are so many times r.
LEMMA PartsAddUp ==
  ASSUME NEW r \in Nat, NEW k \in Nat
  PROVE  Ohms([b \in 1..k |-> <<r, k>>]) = k * r
<1> DEFINE star == [b \in 1..k |-> <<r, k>>]
           Adds(g) == g = [n \in 0..k |-> IF n = 0 THEN 0 ELSE g[n - 1] + star[n][1]]
           sum == CHOOSE g : Adds(g)
<1>1. Len(star) = k
  OBVIOUS
<1>2. Ohms(star) = sum[k]
  BY <1>1 DEF Ohms
<1>3. Adds([n \in 0..k |-> n * r])
  <2> DEFINE g == [n \in 0..k |-> n * r]
  <2>1. \A n \in 0..k : g[n] = IF n = 0 THEN 0 ELSE g[n - 1] + star[n][1]
    <3> TAKE n \in 0..k
    <3>1. CASE n = 0
      BY <3>1
    <3>2. CASE n # 0
      <4>1. n - 1 \in 0..k /\ n \in 1..k
        BY <3>2
      <4>2. g[n - 1] = (n - 1) * r /\ star[n][1] = r /\ g[n] = n * r
        BY <4>1
      <4>3. (n - 1) * r + r = n * r
        OBVIOUS
      <4>4. QED
        BY <3>2, <4>2, <4>3
    <3>3. QED
      BY <3>1, <3>2
  <2>2. DOMAIN g = 0..k /\ g = [n \in 0..k |-> g[n]]
    OBVIOUS
  <2> HIDE DEF g, star
  <2>3. Adds(g)
    BY <2>1, <2>2
  <2>4. QED
    BY <2>3 DEF g
<1>4. Adds(sum)
  <2> HIDE DEF Adds
  <2>1. QED
    BY <1>3
<1> HIDE DEF sum
<1>5. \A n \in 0..k : sum[n] = n * r
  <2> DEFINE Bad == {n \in 0..k : sum[n] # n * r}
  <2>1. CASE Bad # {}
    <3>1. Bad \in SUBSET Nat
      OBVIOUS
    <3> DEFINE m == Min(Bad)
    <3> HIDE DEF Bad
    <3>2. m \in Bad /\ \A n \in Bad : m <= n
      BY <2>1, <3>1, LeastOf
    <3> HIDE DEF m
    <3>3. m \in 0..k /\ sum[m] # m * r
      BY <3>2 DEF Bad
    <3>4. m # 0
      <4>1. sum[0] = 0 /\ 0 * r = 0
        BY <1>4
      <4>2. QED
        BY <3>3, <4>1
    <3>5. m - 1 \in 0..k /\ m \in 1..k /\ m - 1 \notin Bad
      BY <3>2, <3>3, <3>4
    <3>6. sum[m - 1] = (m - 1) * r
      BY <3>5 DEF Bad
    <3>7. sum[m] = sum[m - 1] + r
      BY <1>4, <3>3, <3>4, <3>5
    <3>8. (m - 1) * r + r = m * r
      BY <3>3
    <3>9. QED
      BY <3>3, <3>6, <3>7, <3>8
  <2>2. QED
    BY <2>1
<1>6. QED
  BY <1>2, <1>5

\* A net of a lumped SPEF against the one it is made of.
LEMMA LumpedIsTheNet ==
  ASSUME package \in Packages, Unknown = {}, NEW n \in ToSet(package.spef)
  PROVE  /\ {<<x.at, x.pin>> : x \in {y \in Lumped(n).connections : y.direction = IF y.at = "" THEN "I" ELSE "O"}}
              = Drivers(n.net)
         /\ Len(n.resistors) = 1 /\ Cardinality(Lumped(n).connections) > 1 =>
              \A r \in ToSet(Lumped(n).resistors) : Ohms(Lumped(n).resistors) = r[2] * n.resistors[1]
<1>1. Lumped(n).connections = ConnectionsOf(n.net) /\ Lumped(n).resistors = StarOf(n)
  BY DEF Lumped
<1>2. {<<x.at, x.pin>> : x \in {y \in ConnectionsOf(n.net) : y.direction = IF y.at = "" THEN "I" ELSE "O"}}
        = Drivers(n.net)
  BY DriversAreFound
<1>3. ASSUME Len(n.resistors) = 1, Cardinality(ConnectionsOf(n.net)) > 1, NEW r \in ToSet(StarOf(n))
      PROVE  Ohms(StarOf(n)) = r[2] * n.resistors[1]
  <2> DEFINE branches == Cardinality(ConnectionsOf(n.net)) - 1
             ohms == n.resistors[1]
  <2>1. Cardinality(ConnectionsOf(n.net)) \in Nat
    BY ConnectionsAreFinite, FS_CardinalityType
  <2>2. branches \in Nat /\ branches >= 1
    BY <1>3, <2>1
  <2>3. n.resistors \in Seq(Nat)
    BY PackagesAssumption
  <2>4. n.resistors # <<>> /\ Head(n.resistors) = ohms /\ ohms \in Nat
    BY <1>3, <2>3
  <2>5. StarOf(n) = [b \in 1..branches |-> <<ohms, branches>>]
    BY <2>2, <2>4 DEF StarOf
  <2> HIDE DEF branches, ohms
  <2>6. Ohms(StarOf(n)) = branches * ohms
    BY <2>2, <2>4, <2>5, PartsAddUp
  <2>7. r[2] = branches
    BY <1>3, <2>2, <2>5 DEF ToSet
  <2>8. QED
    BY <2>6, <2>7 DEF ohms
<1>4. QED
  BY <1>1, <1>2, <1>3

LEMMA ViewsInv_Design == ViewsInv => ViewsAreTheDesign
<1> DEFINE source(net) == CHOOSE n \in ToSet(package.spef) : n.net = net
           driving(x) == x.direction = IF x.at = "" THEN "I" ELSE "O"
           nets == ToSet(package.spef)
<1> SUFFICES ASSUME ViewsInv, making = "made"
             PROVE  /\ {n.net : n \in given} = {n.net : n \in nets}
                    /\ \A n \in given :
                         /\ n.total = source(n.net).total
                         /\ n.connections # {} =>
                              /\ {<<x.at, x.pin>> : x \in {y \in n.connections : driving(y)}} = Drivers(n.net)
                              /\ Len(source(n.net).resistors) = 1 /\ Cardinality(n.connections) > 1 =>
                                   \A r \in ToSet(n.resistors) : Ohms(n.resistors) = r[2] * source(n.net).resistors[1]
                    /\ \A c \in ToSet(package.sdf) : \A arc \in c.arcs :
                         c.instance # "" /\ c.cell \in ModelNames /\ {arc[1], arc[2]} \subseteq ModelOf(c.cell).ports =>
                           arc \in paths[c.cell] /\ \E a \in annotated : a.instance = c.instance /\ arc \in a.arcs
  BY DEF ViewsAreTheDesign
<1>1. /\ package \in Packages
      /\ IF Distributed(nets) THEN given = {Own(n) : n \in nets}
         ELSE given = {Lumped(n) : n \in nets} /\ Unknown = {}
      /\ annotated = {c \in ToSet(package.sdf) : c.instance # "" /\ c.arcs # {}}
      /\ paths = [name \in ModelNames |-> Arcs(ModelOf(name))]
  BY DEF ViewsInv
<1>2. \A n \in nets : source(n.net) = n
  <2> TAKE n \in nets
  <2>1. source(n.net) \in nets /\ source(n.net).net = n.net
    OBVIOUS
  <2>2. QED
    BY <1>1, <2>1, PackagesAssumption
<1>3. \A n \in nets : /\ Own(n).net = n.net /\ Own(n).total = n.total /\ Own(n).connections = {}
                      /\ Lumped(n).net = n.net /\ Lumped(n).total = n.total
  BY DEF Own, Lumped
<1>4. \A g \in given : \E n \in nets : g.net = n.net
  <2>1. \A g \in given : \E n \in nets : g = Own(n) \/ g = Lumped(n)
    BY <1>1
  <2>2. QED
    BY <1>3, <2>1
<1>5. \A n \in nets : \E g \in given : g.net = n.net
  <2>1. \A n \in nets : Own(n) \in given \/ Lumped(n) \in given
    BY <1>1
  <2>2. QED
    BY <1>3, <2>1
<1>6. {n.net : n \in given} = {n.net : n \in nets}
  BY <1>4, <1>5
<1> HIDE DEF source, driving, nets
<1>7. ASSUME NEW g \in given
      PROVE  /\ g.total = source(g.net).total
             /\ g.connections # {} =>
                  /\ {<<x.at, x.pin>> : x \in {y \in g.connections : driving(y)}} = Drivers(g.net)
                  /\ Len(source(g.net).resistors) = 1 /\ Cardinality(g.connections) > 1 =>
                       \A r \in ToSet(g.resistors) : Ohms(g.resistors) = r[2] * source(g.net).resistors[1]
  <2>1. CASE Distributed(nets)
    <3>1. PICK n \in nets : g = Own(n)
      BY <1>1, <2>1
    <3>2. QED
      BY <1>2, <1>3, <3>1
  <2>2. CASE ~Distributed(nets)
    <3>1. PICK n \in nets : g = Lumped(n)
      BY <1>1, <2>2
    <3>2. source(g.net) = n /\ g.net = n.net /\ g.total = n.total
      BY <1>2, <1>3, <3>1
    <3>3. /\ {<<x.at, x.pin>> : x \in {y \in g.connections : driving(y)}} = Drivers(n.net)
          /\ Len(n.resistors) = 1 /\ Cardinality(g.connections) > 1 =>
               \A r \in ToSet(g.resistors) : Ohms(g.resistors) = r[2] * n.resistors[1]
      BY <1>1, <2>2, <3>1, LumpedIsTheNet DEF driving, nets
    <3>4. QED
      BY <3>2, <3>3
  <2>3. QED
    BY <2>1, <2>2
<1>8. ASSUME NEW c \in ToSet(package.sdf), NEW arc \in c.arcs,
             c.instance # "", c.cell \in ModelNames, {arc[1], arc[2]} \subseteq ModelOf(c.cell).ports
      PROVE  arc \in paths[c.cell] /\ \E a \in annotated : a.instance = c.instance /\ arc \in a.arcs
  <2>1. c \in annotated
    BY <1>1, <1>8
  <2>2. ModelOf(c.cell).name = c.cell
    BY <1>8, ModelOfIsOne
  <2>3. arc \in UNION {i.arcs : i \in {x \in ToSet(package.sdf) : x.cell = ModelOf(c.cell).name}}
    BY <2>2
  <2>4. arc \in Arcs(ModelOf(c.cell))
    BY <1>8, <2>3 DEF Arcs
  <2>5. paths[c.cell] = Arcs(ModelOf(c.cell))
    BY <1>1, <1>8
  <2>6. QED
    BY <2>1, <2>4, <2>5
<1>9. QED
  BY <1>6, <1>7, <1>8

\* For every design: what OpenSTA and the simulator are given has the nets, drivers,
\* loads and resistances of the SPEF and the netlist, and every delay of an
\* instance finds a path of its cell (make_lumped_spef,
\* generate_timing_cell_model, iverilog_sdf).
THEOREM ViewsOfTheDesign == ViewsSpec => []ViewsAreTheDesign
<1>1. ViewsSpec => []ViewsInv
  <2>1. ViewsInv /\ [ViewsNext]_viewVars => ViewsInv'
    BY ViewsNext_Inv
  <2>2. QED
    BY ViewsInit_Inv, <2>1, PTL DEF ViewsSpec
<1>2. QED
  BY <1>1, ViewsInv_Design, PTL
=============================================================================
