-------------------------- MODULE Characterisation --------------------------
(* char_liberty.py: for each extracted cell the pins' charges, the delays of *)
(* one input and, for flip-flops, the constraints of data and control are    *)
(* simulated and put in one Liberty file. What a simulation measures depends *)
(* on what the deck does to the cell: which level the other pins are tied    *)
(* to, and which edge of the output is waited for.                           *)
EXTENDS PushOut, FiniteSets, Sequences, SequencesExt

CONSTANTS
  Extracted,   \* cells with a netlist, sorted by name: <<[name, base]>>
  Areas,       \* names of cells with a LEF
  Selections,  \* what --cells may name, cells without a netlist too; {} for no filter
  MaxCalls     \* how often the script is called

Flops == {"DFFR", "DFFS"}
And2 == {"AND2", "NAND2"}  And3 == {"AND3", "NAND3"}  And4 == {"AND4", "NAND4"}
Or2 == {"OR2", "NOR2"}  Or3 == {"OR3", "NOR3"}  Or4 == {"OR4", "NOR4"}
Single == {"INV", "BUF", "CLKBUF", "DEL1", "DEL2", "DEL4"}
Logic == Single \cup And2 \cup And3 \cup And4 \cup Or2 \cup Or3 \cup Or4 \cup {"XOR2", "XNOR2", "MUX2"}
Inverting == {"INV", "NAND2", "NAND3", "NAND4", "NOR2", "NOR3", "NOR4", "XNOR2"}

ASSUME CellsAssumption ==
  /\ Extracted \in Seq(ToSet(Extracted))
  /\ \A i \in DOMAIN Extracted : Extracted[i].base \in Flops \cup Logic

VARIABLES
  library,   \* the Liberty file: [asked, cells, failed] of the call that wrote it, or Shipped;
             \* a combinational cell of it has the arcs Written
  calls, asked, todo, entries, failed, \* of this call: number, selection, places of the cells to go, done, given up
  checks,    \* of a flip-flop: the constraint tables still to be searched
  phase      \* "idle", "caps", "search", "delays"
charVars == <<library, calls, asked, todo, entries, failed, checks, phase>>
allVars == <<charVars, searchVars>>
-----------------------------------------------------------------------------
(* Combinational cells.                                                      *)
Inputs(base) == CASE base \in Single -> {"A"}
                  [] base \in And3 \cup Or3 -> {"A", "B", "C"}
                  [] base \in And4 \cup Or4 -> {"A", "B", "C", "D"}
                  [] base = "MUX2" -> {"A", "B", "S"}
                  [] OTHER -> {"A", "B"}

\* The Boolean function of the cell's table, of a level for each input.
Output(base, in) ==
  LET high == {p \in Inputs(base) : in[p]}
      value == CASE base \in Single -> in["A"]
                 [] base \in And2 \cup And3 \cup And4 -> high = Inputs(base)
                 [] base \in Or2 \cup Or3 \cup Or4 -> high # {}
                 [] base = "MUX2" -> IF in["S"] THEN in["B"] ELSE in["A"]
                 [] OTHER -> Cardinality(high) = 1
  IN  value # (base \in Inverting)

With(in, p, level) == [x \in DOMAIN in \cup {p} |-> IF x = p THEN level ELSE in[x]]
\* What the other inputs may be held at for a pin's charge to be measured.
Sensitized(base, pin) ==
  {in \in [Inputs(base) \ {pin} -> BOOLEAN] :
     Output(base, With(in, pin, TRUE)) # Output(base, With(in, pin, FALSE))}

TieHigh(base) == base \notin Or2 \cup Or3 \cup Or4 \cup {"MUX2", "XOR2", "XNOR2"}
NegativeUnate(base) == base \in Inverting
Tied(base) == [p \in Inputs(base) \ {"A"} |-> TieHigh(base)]

\* The arcs of the cell in the file: one for each input, all with the tables
\* that were timed on A and with A's sense.
Written(base) == {[pin |-> p, timed |-> "A", negative |-> NegativeUnate(base)] : p \in Inputs(base)}
-----------------------------------------------------------------------------
(* Flip-flops. A deck clocks the cell twice; the flip-flop takes D at an     *)
(* edge unless its control is active.                                        *)
Forced(base) == base = "DFFS"        \* what an active control makes of Q
Edge(base, q, at) == IF at.active THEN Forced(base) ELSE at.d

\* The edge of Q a hold check waits for is not the edge of D that threatens it.
\* Mutant of HeldEdge: it is taken for the same.
MovingEdge(rising) == rising
HeldEdge(rising) == ~rising

\* first: what holds at the first edge; met and missed: at the second, if the
\* pin that moves does so in time or not; wanted: the edge of Q measured. The
\* delay of the clock ("clock") has its data moved halfway between the edges.
At(d, active) == [d |-> d, active |-> active]
Stimulus(base, check, rising) ==
  CASE check = "setup" ->
         [first |-> At(~rising, FALSE), met |-> At(rising, FALSE), missed |-> At(~rising, FALSE),
          wanted |-> rising]
    [] check = "hold" ->
         [first |-> At(rising, FALSE), met |-> At(~rising, FALSE), missed |-> At(rising, FALSE),
          wanted |-> HeldEdge(rising)]
    [] check \in {"recovery", "removal"} ->
         [first |-> At(~Forced(base), TRUE), met |-> At(~Forced(base), FALSE),
          missed |-> At(~Forced(base), TRUE), wanted |-> ~Forced(base)]
    [] OTHER ->
         [first |-> At(~rising, FALSE), met |-> At(rising, FALSE), missed |-> At(~rising, FALSE),
          wanted |-> rising]

\* At which of the cell's levels the first edge wanted is seen, 0 if at none.
Levels(base, s, q0, at) ==
  LET start == IF s.first.active THEN Forced(base) ELSE q0
      one == Edge(base, start, s.first)
  IN  <<q0, start, one, Edge(base, one, at)>>
Seen(base, s, q0, at) ==
  LET l == Levels(base, s, q0, at)
      when == {i \in 2..Len(l) : l[i] # l[i - 1] /\ l[i] = s.wanted}
  IN  IF when = {} THEN 0 ELSE CHOOSE i \in when : \A j \in when : i <= j
SecondEdge == 4
-----------------------------------------------------------------------------
(* One call of the script.                                                   *)
Shipped == [asked |-> {}, cells |-> {}, failed |-> {}]
Names(places) == {Extracted[i].name : i \in places}
Known == Names(DOMAIN Extracted)
place == CHOOSE i \in todo : \A j \in todo : i <= j
Current == Extracted[place]
Tables == <<<<"setup", TRUE>>, <<"setup", FALSE>>, <<"hold", TRUE>>, <<"hold", FALSE>>,
            <<"recovery", TRUE>>, <<"removal", TRUE>>>>
NoSearch == /\ pass = [o \in Grid |-> TRUE] /\ good = Span /\ bad = 0 /\ turn = 0
            /\ stage = "returned" /\ constraint = Unmeasured
NewSearch == /\ pass' \in Measurements /\ good' = Span /\ bad' = 0 /\ turn' = 0
             /\ stage' = "baseline" /\ constraint' = Unmeasured

Init == /\ library = Shipped /\ calls = 0 /\ asked = {} /\ todo = {} /\ entries = {}
        /\ failed = {} /\ checks = <<>> /\ phase = "idle" /\ NoSearch

\* A cell without a LEF size stops the script before it simulates anything; a
\* name without a netlist is passed over in silence.
Call(sel) ==
  LET cells == {i \in DOMAIN Extracted : sel = {} \/ Extracted[i].name \in sel}
  IN  /\ phase = "idle" /\ calls < MaxCalls
      /\ calls' = calls + 1
      /\ asked' = (IF sel = {} THEN Known ELSE sel) /\ entries' = {} /\ failed' = {} /\ checks' = <<>>
      /\ IF Names(cells) \subseteq Areas
         THEN todo' = cells /\ phase' = "caps"
         ELSE todo' = {} /\ phase' = "idle"
      /\ UNCHANGED <<library, searchVars>>

\* An exception ends the script; what it has collected is lost.
Die == todo' = {} /\ checks' = <<>> /\ phase' = "idle" /\ UNCHANGED <<library, calls, asked, entries, failed>>

\* Every pin needs a sensitized state, and a charge that ngspice reports.
Caps ==
  /\ phase = "caps" /\ todo # {}
  /\ \E measured \in BOOLEAN :
       IF ~measured \/ (Current.base \notin Flops /\ \E p \in Inputs(Current.base) : Sensitized(Current.base, p) = {})
       THEN Die /\ UNCHANGED searchVars
       ELSE /\ IF Current.base \in Flops THEN checks' = Tables /\ phase' = "search" /\ NewSearch
               ELSE phase' = "delays" /\ UNCHANGED <<checks, searchVars>>
            /\ UNCHANGED <<library, calls, asked, todo, entries, failed>>

Search == phase = "search" /\ SearchNext /\ UNCHANGED charVars

NoTransition == phase = "search" /\ stage = "no transition" /\ Die /\ UNCHANGED searchVars

NextTable ==
  /\ phase = "search" /\ stage = "returned"
  /\ checks' = Tail(checks)
  /\ IF checks' = <<>> THEN phase' = "delays" /\ UNCHANGED searchVars ELSE NewSearch /\ UNCHANGED phase
  /\ UNCHANGED <<library, calls, asked, todo, entries, failed>>

\* A measurement missing, or negative, drops the cell; the script goes on.
Delays ==
  /\ phase = "delays"
  /\ \E ok \in BOOLEAN : /\ entries' = IF ok THEN entries \cup {Current.name} ELSE entries
                         /\ failed' = IF ok THEN failed ELSE failed \cup {Current.name}
  /\ todo' = todo \ {place} /\ phase' = "caps"
  /\ UNCHANGED <<library, calls, asked, checks, searchVars>>

\* The tie cells are added at the end, from their LEF sizes: without these, nothing.
Write ==
  /\ phase = "caps" /\ todo = {}
  /\ library' = IF {"TIEHI", "TIELO"} \subseteq Areas
                THEN [asked |-> asked, cells |-> entries, failed |-> failed] ELSE library
  /\ phase' = "idle"
  /\ UNCHANGED <<calls, asked, todo, entries, failed, checks, searchVars>>

Next == (\E sel \in Selections : Call(sel)) \/ Caps \/ Search \/ NoTransition \/ NextTable \/ Delays \/ Write
Spec == Init /\ [][Next]_allVars
-----------------------------------------------------------------------------
\* The arc that is timed exists: held as the script holds the other pins, the
\* output follows A in the polarity whose edges are waited for (sim_measure),
\* for every cell of the table.
ArcIsMeasured ==
  phase = "delays" /\ Current.base \notin Flops =>
    LET tied == Tied(Current.base)
    IN  \A a \in BOOLEAN : Output(Current.base, With(tied, "A", a)) = (a # NegativeUnate(Current.base))

\* The arcs of the other inputs are not measured, they are given the times of A
\* (main). Their sense is the cell's at least: wherever an input decides the
\* output, it does so in the sense that is written. The select of a multiplexer
\* and the inputs of an exclusive or have no one sense; theirs is written too.
Binate == {<<"MUX2", "S">>} \cup ({"XOR2", "XNOR2"} \X {"A", "B"})
SensesAreTheCells ==
  phase = "delays" /\ Current.base \notin Flops =>
    \A arc \in Written(Current.base) :
      \/ <<Current.base, arc.pin>> \in Binate
      \/ \A in \in Sensitized(Current.base, arc.pin) :
           Output(Current.base, With(in, arc.pin, TRUE)) = ~arc.negative

\* A search waits for an edge of Q that is made at the second clock edge if the
\* constraint is met, and never if it is not, whatever Q was at first
\* (sim_measure_setup_delay, sim_measure_hold_delay, sim_measure_async_delay).
EdgeIsCaptured ==
  phase = "search" =>
    LET s == Stimulus(Current.base, Head(checks)[1], Head(checks)[2])
    IN  \A q0 \in BOOLEAN : /\ Seen(Current.base, s, q0, s.met) = SecondEdge
                            /\ Seen(Current.base, s, q0, s.missed) = 0

\* The delay from the clock to Q, rising and falling, is that of the second
\* edge too: Q makes the edge that is timed there first (sim_measure_seq).
ClockIsTimed ==
  phase = "delays" /\ Current.base \in Flops =>
    \A rising \in BOOLEAN, q0 \in BOOLEAN :
      LET s == Stimulus(Current.base, "clock", rising)
      IN  Seen(Current.base, s, q0, s.met) = SecondEdge

\* The Liberty file is of a call that went through every cell it was asked for
\* that has a netlist, and lacks of these only the ones whose delays could not
\* be measured (main): a call that dies halfway leaves the file of an earlier
\* one. Names without a netlist are missing, and nothing tells.
LibraryIsWhole == library.asked \cap Known = library.cells \cup library.failed

\* Every measurement is of an arc the cell has, at the edge that is meant, for
\* all cells asked for that were there to be measured. What the file says of
\* inputs other than A is no measurement, and right in its sense only.
LibraryIsMeasured ==
  ArcIsMeasured /\ SensesAreTheCells /\ EdgeIsCaptured /\ ClockIsTimed /\ LibraryIsWhole
=============================================================================
