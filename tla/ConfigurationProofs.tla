-------------------------- MODULE ConfigurationProofs --------------------------
(***************************************************************************)
(* Configuration, for any variables, PDKs, files, overrides and inputs: an  *)
(* accepted configuration has every variable in the form of its type, is    *)
(* loaded again as it was written, is added to without disturbing the rest, *)
(* and holds what the command line said last.                               *)
(***************************************************************************)
EXTENDS Configuration, SequenceTheorems, WellFoundedInduction, TLAPS

-----------------------------------------------------------------------------
(* Which name a variable is found under.                                     *)

\* A set of natural numbers has a least member.
LEMMA LeastIndex ==
  ASSUME NEW S \in SUBSET Nat, S # {}
  PROVE  Min(S) \in S /\ \A m \in S : Min(S) <= m
<1>1. PICK n \in S : \A m \in Nat : <<m, n>> \in OpToRel(<, Nat) => m \notin S
  BY WFMin, NatLessThanWellFounded
<1>2. ASSUME NEW m \in S PROVE n <= m
  <2>1. m \in Nat /\ n \in Nat
    OBVIOUS
  <2>2. ~(m < n)
    BY <1>1, <2>1 DEF OpToRel
  <2>3. QED
    BY <2>1, <2>2
<1>3. QED
  BY <1>2 DEF Min

\* The variable of a name of today.
LEMMA NamedOnce ==
  ASSUME NEW v \in AllVars
  PROVE  (CHOOSE w \in AllVars : w.name = v.name) = v
<1> DEFINE w == CHOOSE u \in AllVars : u.name = v.name
<1>1. w \in AllVars /\ w.name = v.name
  OBVIOUS
<1> HIDE DEF w
<1>2. ASSUME w # v PROVE FALSE
  <2>1. ({v.name} \cup ToSet(v.old)) \cap ({w.name} \cup ToSet(w.old)) = {}
    BY <1>1, <1>2, VarsAssumption DEF AllVars
  <2>2. QED
    BY <1>1, <2>1
<1>3. QED
  BY <1>2 DEF w

\* What stands in a sequence is one of its values.
LEMMA StandsInSeq ==
  ASSUME NEW S, NEW s \in Seq(S), NEW n \in 1..Len(s)
  PROVE  s[n] \in S /\ s[n] \in ToSet(s)
<1>1. DOMAIN s = 1..Len(s)
  OBVIOUS
<1>2. s[n] \in ToSet(s)
  BY <1>1 DEF ToSet
<1>3. s[n] \in S
  BY ElementOfSeq
<1>4. QED
  BY <1>2, <1>3

\* No old name of a variable is a name of today.
LEMMA OldNamesAreOld ==
  ASSUME NEW v \in AllVars
  PROVE  /\ v.name \in Names /\ v.name # "" /\ v.old \in Seq(STRING \ {"", v.name}) /\ v.name \in STRING
         /\ \A n \in 1..Len(v.old) : v.old[n] \notin Names /\ v.old[n] # ""
<1>1. v.name \in STRING \ {""} /\ v.old \in Seq(STRING \ {"", v.name})
  BY VarsAssumption DEF AllVars
<1>2. ASSUME NEW n \in 1..Len(v.old) PROVE v.old[n] # ""
  <2>1. v.old[n] \in STRING \ {"", v.name}
    BY <1>1, StandsInSeq
  <2>2. QED
    BY <2>1
<1>3. ASSUME NEW n \in 1..Len(v.old), v.old[n] \in Names PROVE FALSE
  <2>1. PICK w \in AllVars : w.name = v.old[n]
    BY <1>3 DEF Names, AllVars
  <2>2. v.old[n] \in STRING \ {"", v.name} /\ v.old[n] \in ToSet(v.old)
    BY <1>1, StandsInSeq
  <2>3. v # w
    BY <2>1, <2>2
  <2>4. ({v.name} \cup ToSet(v.old)) \cap ({w.name} \cup ToSet(w.old)) = {}
    BY <2>3, VarsAssumption DEF AllVars
  <2>5. QED
    BY <2>1, <2>2, <2>4
<1>4. QED
  BY <1>1, <1>2, <1>3 DEF Names, AllVars

\* The names of a variable in the order they are looked for: its own comes last.
AllNames(v) == v.old \o <<v.name>>
Found(v, m) == {n \in 1..(Len(v.old) + 1) : AllNames(v)[n] \in DOMAIN m}

\* A variable is looked for under its old names, in their order, then under its own.
LEMMA NamesInTurn ==
  ASSUME NEW v \in AllVars
  PROVE  /\ Len(v.old) \in Nat /\ DOMAIN AllNames(v) = 1..(Len(v.old) + 1)
         /\ AllNames(v)[Len(v.old) + 1] = v.name
         /\ \A n \in 1..Len(v.old) : AllNames(v)[n] = v.old[n]
         /\ \A n \in 1..(Len(v.old) + 1) : AllNames(v)[n] # ""
<1> DEFINE own == <<v.name>>
           names == v.old \o own
           l == Len(v.old)
<1>1. v.old \in Seq(STRING) /\ own \in Seq(STRING) /\ l \in Nat /\ Len(own) = 1 /\ own[1] = v.name
  <2>1. v.old \in Seq(STRING \ {"", v.name}) /\ v.name \in STRING
    BY OldNamesAreOld
  <2>2. \A S, T : T \subseteq S => Seq(T) \subseteq Seq(S)
    OBVIOUS
  <2>3. \A S : \A a \in S : <<a>> \in Seq(S)
    OBVIOUS
  <2>4. v.old \in Seq(STRING)
    BY <2>1, <2>2
  <2>5. own \in Seq(STRING)
    BY <2>1, <2>3
  <2>6. l \in Nat
    BY <2>4
  <2>7. QED
    BY <2>4, <2>5, <2>6
<1> HIDE DEF own
<1>2. /\ names \in Seq(STRING) /\ Len(names) = l + 1
      /\ \A n \in 1..(l + 1) : names[n] = IF n <= l THEN v.old[n] ELSE own[n - l]
  <2>1. \A S : \A s1, s2 \in Seq(S) :
           /\ s1 \o s2 \in Seq(S) /\ Len(s1 \o s2) = Len(s1) + Len(s2)
           /\ \A n \in 1..(Len(s1) + Len(s2)) : (s1 \o s2)[n] = IF n <= Len(s1) THEN s1[n] ELSE s2[n - Len(s1)]
    BY ConcatProperties
  <2>2. names \in Seq(STRING)
    BY <1>1, <2>1
  <2>3. Len(names) = Len(v.old) + Len(own)
    BY <1>1, <2>1
  <2>4. \A n \in 1..(Len(v.old) + Len(own)) : names[n] = IF n <= Len(v.old) THEN v.old[n] ELSE own[n - Len(v.old)]
    BY <1>1, <2>1
  <2> HIDE DEF names
  <2>5. Len(v.old) + Len(own) = l + 1
    BY <1>1
  <2>6. QED
    BY <2>2, <2>3, <2>4, <2>5
<1>3. AllNames(v) = names
  BY DEF AllNames, own
<1> HIDE DEF names, l
<1>4. DOMAIN names = 1..(l + 1)
  BY <1>2
<1>5. names[l + 1] = v.name
  BY <1>1, <1>2
<1>6. \A n \in 1..l : names[n] = v.old[n]
  BY <1>1, <1>2
<1>7. \A n \in 1..l : names[n] # ""
  BY <1>6, OldNamesAreOld DEF l
<1>8. \A n \in 1..(l + 1) : names[n] # ""
  <2>1. \A n \in 1..(l + 1) : n \in 1..l \/ n = l + 1
    BY <1>1
  <2>2. v.name # ""
    BY OldNamesAreOld
  <2>3. QED
    BY <1>5, <1>7, <2>1, <2>2
<1>9. QED
  BY <1>1, <1>3, <1>4, <1>5, <1>6, <1>8 DEF l

\* The name used is the first of them that is there.
LEMMA FoundFirst ==
  ASSUME NEW v \in AllVars, NEW m
  PROVE  /\ Found(v, m) = {} => UsedName(v, m) = ""
         /\ \A n \in Found(v, m) : (\A k \in Found(v, m) : n <= k) => UsedName(v, m) = AllNames(v)[n] /\ AllNames(v)[n] # ""
         /\ Found(v, m) # {} => \E n \in Found(v, m) : \A k \in Found(v, m) : n <= k
<1> DEFINE given == {n \in DOMAIN AllNames(v) : AllNames(v)[n] \in DOMAIN m}
<1>1. given = Found(v, m) /\ given \in SUBSET Nat
  <2>1. given = Found(v, m) /\ Len(v.old) \in Nat
    BY NamesInTurn DEF Found
  <2>2. Found(v, m) \subseteq 1..(Len(v.old) + 1)
    BY DEF Found
  <2> HIDE DEF given
  <2>3. QED
    BY <2>1, <2>2
<1>2. UsedName(v, m) = IF given = {} THEN "" ELSE AllNames(v)[Min(given)]
  BY DEF UsedName, Given, AllNames
<1> HIDE DEF given
<1>3. given # {} => Min(given) \in given /\ \A k \in given : Min(given) <= k
  BY <1>1, LeastIndex
<1>4. ASSUME NEW n \in given, \A k \in given : n <= k
      PROVE  UsedName(v, m) = AllNames(v)[n] /\ AllNames(v)[n] # ""
  <2>1. Min(given) = n
    BY <1>1, <1>3, <1>4
  <2>2. n \in 1..(Len(v.old) + 1)
    BY <1>1 DEF Found
  <2>3. AllNames(v)[n] # ""
    BY <2>2, NamesInTurn
  <2>4. QED
    BY <1>2, <2>1, <2>3
<1>5. QED
  BY <1>1, <1>2, <1>3, <1>4

\* What is laid on top is found first, under any name; what lies below has names of
\* today only.
LEMMA FoundOnTop ==
  ASSUME NEW v \in AllVars, NEW m, NEW over, NEW below,
         DOMAIN m = DOMAIN over \cup DOMAIN below, DOMAIN below \subseteq Names
  PROVE  /\ UsedName(v, over) # "" => UsedName(v, m) = UsedName(v, over) /\ UsedName(v, over) \in DOMAIN over
         /\ UsedName(v, over) = "" => v.name \notin DOMAIN over /\ UsedName(v, m) = IF v.name \in DOMAIN below THEN v.name ELSE ""
<1> DEFINE l == Len(v.old)
           names == AllNames(v)
<1>1. l \in Nat /\ names[l + 1] = v.name
  BY NamesInTurn
<1>2. ASSUME NEW n \in 1..(l + 1), n # l + 1 PROVE names[n] \notin DOMAIN below
  <2>1. n \in 1..l
    BY <1>1, <1>2
  <2>2. names[n] \notin Names
    BY <2>1, NamesInTurn, OldNamesAreOld
  <2>3. QED
    BY <2>2
<1> HIDE DEF names, l
<1>3. /\ Found(v, m) = {n \in 1..(l + 1) : names[n] \in DOMAIN m}
      /\ Found(v, over) = {n \in 1..(l + 1) : names[n] \in DOMAIN over}
  BY DEF Found, l, names
<1>4. Found(v, over) \subseteq Found(v, m) /\ Found(v, m) \subseteq Found(v, over) \cup {l + 1}
  BY <1>2, <1>3
<1>5. l + 1 \in Found(v, m) <=> v.name \in DOMAIN m
  BY <1>1, <1>3
<1>6. l + 1 \in Found(v, over) <=> v.name \in DOMAIN over
  BY <1>1, <1>3
<1>7. CASE Found(v, over) # {}
  <2>1. PICK n \in Found(v, over) : \A k \in Found(v, over) : n <= k
    BY <1>7, FoundFirst
  <2>2. UsedName(v, over) = names[n] /\ names[n] # ""
    BY <2>1, FoundFirst DEF names
  <2>3. n \in Found(v, m) /\ n <= l + 1
    BY <1>1, <1>3, <1>4
  <2>4. \A k \in Found(v, m) : n <= k
    BY <1>4, <2>1, <2>3
  <2>5. UsedName(v, m) = names[n]
    BY <2>3, <2>4, FoundFirst DEF names
  <2>6. names[n] \in DOMAIN over
    BY <1>3
  <2>7. QED
    BY <2>2, <2>5, <2>6
<1>8. CASE Found(v, over) = {}
  <2>1. UsedName(v, over) = "" /\ v.name \notin DOMAIN over
    BY <1>6, <1>8, FoundFirst
  <2>2. CASE v.name \in DOMAIN below
    <3>1. Found(v, m) = {l + 1}
      BY <1>4, <1>5, <1>8, <2>2
    <3>2. UsedName(v, m) = names[l + 1]
      <4>1. l + 1 \in Found(v, m) /\ \A k \in Found(v, m) : l + 1 <= k
        BY <1>1, <3>1
      <4>2. QED
        BY <4>1, FoundFirst DEF names
    <3>3. QED
      BY <1>1, <2>1, <2>2, <3>2
  <2>3. CASE v.name \notin DOMAIN below
    <3>1. Found(v, m) = {}
      BY <1>4, <1>5, <1>8, <2>1, <2>3
    <3>2. QED
      BY <2>1, <2>3, <3>1, FoundFirst
  <2>4. QED
    BY <2>2, <2>3
<1>9. QED
  BY <1>7, <1>8

\* Among the names of today a variable is found under its own.
LEMMA UsedNameIsOwn ==
  ASSUME NEW v \in AllVars, NEW m, DOMAIN m \subseteq Names, v.name \in DOMAIN m
  PROVE  UsedName(v, m) = v.name
<1> DEFINE none == [k \in {} |-> k]
<1>1. DOMAIN none = {}
  OBVIOUS
<1> HIDE DEF none
<1>2. DOMAIN m = DOMAIN none \cup DOMAIN m
  BY <1>1
<1>3. /\ UsedName(v, none) # "" => UsedName(v, none) \in DOMAIN none
      /\ UsedName(v, none) = "" => UsedName(v, m) = IF v.name \in DOMAIN m THEN v.name ELSE ""
  BY <1>2, FoundOnTop
<1>4. QED
  BY <1>1, <1>3

\* A value in the form the variable has it in, whatever the typing.
IsConverted(v, value) == value # Null /\ \A q : Convert(v, value, q) = [is |-> "value", value |-> value]

\* What is converted once is what it is converted to.
LEMMA ConvertTwice ==
  ASSUME NEW v, NEW value, NEW permissive, Convert(v, value, permissive).is = "value"
  PROVE  /\ Convert(v, value, permissive).value.x = value.x
         /\ IsConverted(v, Convert(v, value, permissive).value)
<1> DEFINE made == Convert(v, value, permissive).value
<1>1. /\ value.x # "bad" /\ ~(~v.string /\ value.x = "null")
      /\ made = [x |-> value.x, text |-> v.string]
  BY DEF Convert
<1> HIDE DEF made
<1>2. made.x = value.x /\ made.text = v.string
  BY <1>1
<1>3. made # Null
  <2>1. Null.x = "null" /\ Null.text = FALSE
    BY DEF Null, Typed
  <2>2. QED
    BY <1>1, <1>2, <2>1
<1>4. \A q : Convert(v, made, q) = [is |-> "value", value |-> made]
  BY <1>1, <1>2 DEF Convert
<1>5. QED
  BY <1>2, <1>3, <1>4 DEF made, IsConverted

\* A configuration has a value for each variable and nothing else, and each is what it
\* would be converted to.
Settled(m) ==
  /\ m = [name \in Names |-> m[name]]
  /\ \A v \in AllVars :
       \/ m[v.name] = Null /\ v.optional
       \/ IsConverted(v, m[v.name])

\* What is compiled is in the form of the variable's type, or null where it may be.
LEMMA CompiledIsSettled ==
  ASSUME NEW v, NEW given, NEW there \in BOOLEAN, NEW permissive, Compiled(v, given, there, permissive).is = "value"
  PROVE  \/ Compiled(v, given, there, permissive).value = Null /\ v.optional
         \/ IsConverted(v, Compiled(v, given, there, permissive).value)
<1>1. CASE there /\ given # Null
  <2>1. Compiled(v, given, there, permissive) = Convert(v, given, permissive)
    BY <1>1 DEF Compiled
  <2>2. Convert(v, given, permissive).is = "value"
    BY <2>1
  <2>3. IsConverted(v, Convert(v, given, permissive).value)
    BY <2>2, ConvertTwice
  <2>4. QED
    BY <2>1, <2>3
<1>2. CASE ~there /\ v.default # Null
  <2>1. Compiled(v, given, there, permissive) = Convert(v, v.default, permissive)
    BY <1>2 DEF Compiled
  <2>2. Convert(v, v.default, permissive).is = "value"
    BY <2>1
  <2>3. IsConverted(v, Convert(v, v.default, permissive).value)
    BY <2>2, ConvertTwice
  <2>4. QED
    BY <1>2, <2>1, <2>3
<1>3. CASE ~(there /\ given # Null) /\ ~(~there /\ v.default # Null)
  <2>1. v.optional /\ Compiled(v, given, there, permissive) = [is |-> "value", value |-> Null]
    BY <1>3 DEF Compiled
  <2>2. QED
    BY <1>3, <2>1
<1>4. QED
  BY <1>1, <1>2, <1>3

\* A value that is there is kept, as far as it says anything.
LEMMA CompiledIsGiven ==
  ASSUME NEW v, NEW given, NEW permissive, Compiled(v, given, TRUE, permissive).is = "value"
  PROVE  Compiled(v, given, TRUE, permissive).value.x = given.x
<1> DEFINE made == Compiled(v, given, TRUE, permissive)
<1>1. CASE given # Null
  <2>1. made = Convert(v, given, permissive)
    BY <1>1 DEF Compiled
  <2>2. Convert(v, given, permissive).is = "value"
    BY <2>1
  <2> HIDE DEF made
  <2>3. made.value.x = given.x
    BY <2>1, <2>2, ConvertTwice
  <2>4. QED
    BY <2>3 DEF made
<1>2. CASE given = Null
  <2>1. made = [is |-> "value", value |-> Null]
    BY <1>2 DEF Compiled
  <2> HIDE DEF made
  <2>2. made.value.x = given.x
    BY <1>2, <2>1
  <2>3. QED
    BY <2>2 DEF made
<1>3. QED
  BY <1>1, <1>2

\* What is processed and accepted is settled.
LEMMA ProcessSettles ==
  ASSUME NEW m, NEW unknown, NEW permissive, Process(m, AllVars, unknown, permissive, FALSE).ok
  PROVE  LET r == Process(m, AllVars, unknown, permissive, FALSE)
             Of(v) == Compile(v, Translated(m), permissive)
         IN  /\ Settled(r.map)
             /\ \A v \in AllVars : Of(v).is = "value" /\ r.map[v.name] = Of(v).value
<1> DEFINE n == Translated(m)
           Of(v) == Compile(v, n, permissive)
           r == Process(m, AllVars, unknown, permissive, FALSE)
<1>1. \A v \in AllVars : Of(v).is = "value"
  BY DEF Process
<1>2. r.map = [name \in {v.name : v \in {u \in AllVars : Of(u).is = "value"}} |->
                 Of(CHOOSE v \in AllVars : v.name = name).value]
  BY DEF Process
<1>3. {v.name : v \in {u \in AllVars : Of(u).is = "value"}} = Names
  BY <1>1 DEF Names, AllVars
<1> HIDE DEF r
<1>4. r.map = [name \in Names |-> Of(CHOOSE v \in AllVars : v.name = name).value]
  BY <1>2, <1>3
<1> HIDE DEF Of
<1>5. ASSUME NEW v \in AllVars PROVE v.name \in Names /\ r.map[v.name] = Of(v).value
  <2>1. v.name \in Names
    BY OldNamesAreOld
  <2>2. r.map[v.name] = Of(CHOOSE w \in AllVars : w.name = v.name).value
    BY <1>4, <2>1
  <2>3. QED
    BY <2>1, <2>2, NamedOnce
<1>6. \A v \in AllVars :
       \/ r.map[v.name] = Null /\ v.optional
       \/ IsConverted(v, r.map[v.name])
  <2> TAKE v \in AllVars
  <2>1. Of(v).is = "value" /\ r.map[v.name] = Of(v).value
    BY <1>1, <1>5
  <2>2. PICK given : \E there \in BOOLEAN : Of(v) = Compiled(v, given, there, permissive)
    BY DEF Of, Compile
  <2> HIDE DEF r
  <2>3. \/ Of(v).value = Null /\ v.optional
        \/ IsConverted(v, Of(v).value)
    BY <2>1, <2>2, CompiledIsSettled
  <2>4. QED
    BY <2>1, <2>3
<1>7. r.map = [name \in Names |-> r.map[name]]
  BY <1>4
<1>8. Settled(r.map)
  BY <1>6, <1>7 DEF Settled
<1>9. QED
  BY <1>1, <1>5, <1>8 DEF r, Of

\* What is settled is processed into itself, however it is processed.
LEMMA ProcessKeeps ==
  ASSUME NEW m, Settled(m), NEW unknown, NEW permissive, NEW missingOk
  PROVE  Process(m, AllVars, unknown, permissive, missingOk) = [map |-> m, ok |-> TRUE]
<1> DEFINE n == Translated(m)
           Of(v) == Compile(v, n, permissive)
<1>1. DOMAIN m = Names
  BY DEF Settled
<1>2. ~Strategy(m) /\ n = m /\ StrategyFits(m)
  <2>1. ~Strategy(m)
    BY <1>1, VarsAssumption DEF Strategy, Names
  <2>2. QED
    BY <2>1 DEF Translated, StrategyFits
<1>3. ASSUME NEW v \in AllVars
      PROVE  UsedName(v, n) = v.name /\ Of(v) = [is |-> "value", value |-> m[v.name]]
  <2>1. v.name \in DOMAIN m /\ v.name # ""
    BY <1>1, OldNamesAreOld
  <2> HIDE DEF n
  <2>2. UsedName(v, n) = v.name
    BY <1>1, <1>2, <2>1, UsedNameIsOwn
  <2>3. Of(v) = Compiled(v, m[v.name], TRUE, permissive)
    BY <1>2, <2>1, <2>2 DEF Compile
  <2>4. CASE m[v.name] = Null /\ v.optional
    BY <2>2, <2>3, <2>4 DEF Compiled
  <2>5. CASE IsConverted(v, m[v.name])
    <3>1. Of(v) = Convert(v, m[v.name], permissive)
      BY <2>3, <2>5 DEF Compiled, IsConverted
    <3>2. QED
      BY <2>2, <2>5, <3>1 DEF IsConverted
  <2>6. QED
    BY <2>4, <2>5 DEF Settled
<1> DEFINE by == [name \in {v.name : v \in {u \in AllVars : Of(u).is = "value"}} |->
                    Of(CHOOSE v \in AllVars : v.name = name).value]
           taken == {UsedName(v, n) : v \in {u \in AllVars : Of(u).is = "value"}} \cup {v.name : v \in AllVars}
           left == DOMAIN n \ (taken \cup Known \cup {"PDK"} \cup UNION {ToSet(v.old) : v \in AllVars})
           fits == \A v \in AllVars : Of(v).is = "value" \/ (Of(v).is = "missing" /\ missingOk)
<1>4. Process(m, AllVars, unknown, permissive, missingOk)
        = [map |-> by, ok |-> StrategyFits(m) /\ fits /\ (unknown = "error" => left = {})]
  BY DEF Process
<1> HIDE DEF Of, n
<1>5. \A v \in AllVars : Of(v).is = "value" /\ Of(v).value = m[v.name]
  BY <1>3
<1>6. by = m
  <2>1. {v.name : v \in {u \in AllVars : Of(u).is = "value"}} = Names
    BY <1>5 DEF Names, AllVars
  <2>2. ASSUME NEW name \in Names PROVE Of(CHOOSE v \in AllVars : v.name = name).value = m[name]
    <3>1. PICK v \in AllVars : v.name = name
      BY DEF Names, AllVars
    <3>2. QED
      BY <1>5, <3>1, NamedOnce
  <2>3. by = [name \in Names |-> m[name]]
    BY <2>1, <2>2
  <2>4. QED
    BY <2>3 DEF Settled
<1>7. fits /\ left = {}
  <2>1. fits
    BY <1>5
  <2>2. DOMAIN m \subseteq {v.name : v \in AllVars}
    BY <1>1 DEF Names, AllVars
  <2>3. left = {}
    BY <1>2, <2>2
  <2>4. QED
    BY <2>1, <2>3
<1> HIDE DEF by, fits, left
<1>8. QED
  BY <1>2, <1>4, <1>6, <1>7

\* A default is kept in the same way.
LEMMA CompiledIsDefault ==
  ASSUME NEW v, NEW given, NEW permissive, Compiled(v, given, FALSE, permissive).is = "value"
  PROVE  Compiled(v, given, FALSE, permissive).value.x = v.default.x
<1> DEFINE made == Compiled(v, given, FALSE, permissive)
<1>1. CASE v.default # Null
  <2>1. made = Convert(v, v.default, permissive)
    BY <1>1 DEF Compiled
  <2>2. Convert(v, v.default, permissive).is = "value"
    BY <2>1
  <2> HIDE DEF made
  <2>3. made.value.x = v.default.x
    BY <2>1, <2>2, ConvertTwice
  <2>4. QED
    BY <2>3 DEF made
<1>2. CASE v.default = Null
  <2>1. made.is = "value"
    OBVIOUS
  <2>2. made = IF v.optional THEN [is |-> "value", value |-> Null] ELSE [is |-> "missing"]
    BY <1>2 DEF Compiled
  <2> HIDE DEF made
  <2>3. made = [is |-> "value", value |-> Null]
    BY <2>1, <2>2
  <2>4. made.value.x = v.default.x
    BY <1>2, <2>3
  <2>5. QED
    BY <2>4 DEF made
<1>3. QED
  BY <1>1, <1>2

\* A variable is what is found under the first of its names, or its default.
LEMMA CompileGives ==
  ASSUME NEW v, NEW m, NEW permissive, Compile(v, m, permissive).is = "value"
  PROVE  Compile(v, m, permissive).value.x = IF UsedName(v, m) # "" THEN m[UsedName(v, m)].x ELSE v.default.x
<1> DEFINE made == Compile(v, m, permissive)
           used == UsedName(v, m)
<1>1. CASE used # ""
  <2>1. made = Compiled(v, m[used], TRUE, permissive)
    BY <1>1 DEF Compile
  <2> HIDE DEF made, used
  <2>2. made.is = "value"
    BY DEF made
  <2>3. Compiled(v, m[used], TRUE, permissive).is = "value"
    BY <2>1, <2>2
  <2>4. Compiled(v, m[used], TRUE, permissive).value.x = m[used].x
    BY <2>3, CompiledIsGiven
  <2>5. made.value.x = m[used].x
    BY <2>1, <2>4
  <2>6. QED
    BY <1>1, <2>5 DEF made, used
<1>2. CASE used = ""
  <2>1. made = Compiled(v, Null, FALSE, permissive)
    BY <1>2 DEF Compile
  <2> HIDE DEF made, used
  <2>2. made.is = "value"
    BY DEF made
  <2>3. Compiled(v, Null, FALSE, permissive).is = "value"
    BY <2>1, <2>2
  <2>4. Compiled(v, Null, FALSE, permissive).value.x = v.default.x
    BY <2>3, CompiledIsDefault
  <2>5. made.value.x = v.default.x
    BY <2>1, <2>4
  <2>6. QED
    BY <1>2, <2>5 DEF made, used
<1>3. QED
  BY <1>1, <1>2

\* Among names of today, what is processed is what each variable is given.
LEMMA ProcessGives ==
  ASSUME NEW m, DOMAIN m = Names, NEW unknown, NEW permissive,
         Process(m, AllVars, unknown, permissive, FALSE).ok
  PROVE  \A v \in AllVars : Process(m, AllVars, unknown, permissive, FALSE).map[v.name].x = m[v.name].x
<1> TAKE v \in AllVars
<1> DEFINE made == Compile(v, m, permissive)
<1>1. Translated(m) = m
  <2>1. ~Strategy(m)
    BY VarsAssumption DEF Strategy, Names
  <2>2. QED
    BY <2>1 DEF Translated
<1>2. made.is = "value" /\ Process(m, AllVars, unknown, permissive, FALSE).map[v.name] = made.value
  BY <1>1, ProcessSettles
<1>3. v.name \in DOMAIN m /\ v.name # ""
  BY OldNamesAreOld
<1>4. UsedName(v, m) = v.name
  BY <1>3, UsedNameIsOwn
<1>5. made.value.x = m[v.name].x
  BY <1>2, <1>3, <1>4, CompileGives
<1> HIDE DEF made
<1>6. QED
  BY <1>2, <1>5

\* A file that holds plain values only is those values.
LEMMA ItemsAreValues ==
  ASSUME NEW m, m = [k \in DOMAIN m |-> m[k]], "PDK" \in DOMAIN m, NEW pdk
  PROVE  Preprocess(Items(m), pdk) = [map |-> m, ok |-> TRUE]
<1> DEFINE raw == Items(m)
           first == [map |-> Laid(raw.kept, Only("PDK", pdk)), ok |-> TRUE]
           after == CHOOSE g : g = [n \in 0..Len(raw.items) |->
                                      IF n = 0 THEN first ELSE PutItem(g[n - 1], raw.items[n])]
<1>1. raw.items = <<>> /\ raw.kept = m
  <2>1. raw.items = <<>> /\ raw.kept = Without(m, Keys(<<>>))
    BY DEF Items, UpdateReorder
  <2>2. ToSet(<<>>) = {}
    BY DEF ToSet
  <2>3. Keys(<<>>) = {}
    BY <2>2 DEF Keys
  <2>4. Without(m, {}) = m
    BY DEF Without
  <2> HIDE DEF raw
  <2>5. QED
    BY <2>1, <2>3, <2>4
<1>2. Preprocess(raw, pdk) = after[Len(raw.items)]
  BY DEF Preprocess
<1> HIDE DEF raw
<1>3. Laid(raw.kept, Only("PDK", pdk)) = m
  <2>1. DOMAIN Only("PDK", pdk) = {"PDK"}
    BY DEF Only
  <2>2. QED
    BY <1>1, <2>1 DEF Laid
<1>4. 0..Len(raw.items) = {0}
  BY <1>1
<1>5. \E g : g = [n \in 0..Len(raw.items) |-> IF n = 0 THEN first ELSE PutItem(g[n - 1], raw.items[n])]
  <2> DEFINE g == [n \in {0} |-> first]
  <2> HIDE DEF first
  <2>1. g = [n \in 0..Len(raw.items) |-> IF n = 0 THEN first ELSE PutItem(g[n - 1], raw.items[n])]
    BY <1>4
  <2>2. QED
    BY <2>1
<1>6. after = [n \in 0..Len(raw.items) |-> IF n = 0 THEN first ELSE PutItem(after[n - 1], raw.items[n])]
  BY <1>5
<1> HIDE DEF after, first
<1>7. after[0] = first
  BY <1>4, <1>6
<1>8. QED
  BY <1>1, <1>2, <1>3, <1>7 DEF raw, first

\* Beyond the first file, plain values are processed as they are.
IsMap(m) == m = [k \in DOMAIN m |-> m[k]] /\ "PDK" \in DOMAIN m
Unknown(permissive) == IF permissive THEN "warn" ELSE "error"
LEMMA LoadIsProcess ==
  ASSUME NEW m, IsMap(m), NEW pdk, NEW permissive, NEW missingOk
  PROVE  LoadDict(Items(m), pdk, FALSE, permissive, missingOk)
           = Process(m, AllVars, Unknown(permissive), permissive, missingOk)
<1> DEFINE chosen == IF m["PDK"] # NoPdk THEN m["PDK"] ELSE pdk
           unknown == IF permissive THEN "warn" ELSE "error"
<1> USE DEF IsMap
<1>1. \A q : Preprocess(Items(m), q) = [map |-> m, ok |-> TRUE]
  BY ItemsAreValues
<1>2. Laid(m, Only("PDK", chosen)) = m
  <2> HIDE DEF chosen
  <2>1. DOMAIN Only("PDK", chosen) = {"PDK"}
    BY DEF Only
  <2>2. QED
    BY <2>1 DEF Laid
<1>3. LoadDict(Items(m), pdk, FALSE, permissive, missingOk)
        = Process(Laid(m, Only("PDK", chosen)), AllVars, unknown, permissive, missingOk)
  BY <1>1 DEF LoadDict
<1> HIDE DEF chosen
<1>4. QED
  BY <1>2, <1>3 DEF Unknown

\* A settled configuration is loaded as it was written.
LEMMA LoadKeeps ==
  ASSUME NEW m, Settled(m), NEW permissive, NEW missingOk
  PROVE  LoadDict(Items(m), NoPdk, FALSE, permissive, missingOk) = [map |-> m, ok |-> TRUE]
<1>1. IsMap(m)
  BY VarsAssumption DEF Settled, Names, IsMap
<1>2. LoadDict(Items(m), NoPdk, FALSE, permissive, missingOk)
        = Process(m, AllVars, Unknown(permissive), permissive, missingOk)
  BY <1>1, LoadIsProcess
<1>3. QED
  BY <1>2, ProcessKeeps

\* What LoadDict accepts with nothing missing is settled.
LEMMA LoadSettles ==
  ASSUME NEW raw, NEW pdk, NEW permissive, LoadDict(raw, pdk, FALSE, permissive, FALSE).ok
  PROVE  Settled(LoadDict(raw, pdk, FALSE, permissive, FALSE).map)
<1> DEFINE r == LoadDict(raw, pdk, FALSE, permissive, FALSE)
           unknown == IF permissive THEN "warn" ELSE "error"
<1>1. r = Failed \/ \E m : r = Process(m, AllVars, unknown, permissive, FALSE)
  BY DEF LoadDict
<1> HIDE DEF r, unknown
<1>2. r # Failed
  <2>1. ~Failed.ok
    BY DEF Failed
  <2>2. r.ok
    BY DEF r
  <2>3. QED
    BY <2>1, <2>2
<1>3. PICK m : r = Process(m, AllVars, unknown, permissive, FALSE)
  BY <1>1, <1>2
<1>4. Process(m, AllVars, unknown, permissive, FALSE).ok
  BY <1>3 DEF r
<1>5. Settled(Process(m, AllVars, unknown, permissive, FALSE).map)
  BY <1>4, ProcessSettles
<1>6. QED
  BY <1>3, <1>5 DEF r

\* An increment says of each variable what was added, or else what was there.
LEMMA IncrementAdds ==
  ASSUME NEW m, Settled(m), NEW inputs \in Inputs, Incremented(m, inputs).ok, NEW v \in AllVars
  PROVE  /\ Incremented(m, inputs).map[v.name].x = Overridden(m, inputs)[v.name].x
         /\ Laid(inputs, Incremented(m, inputs).map)[v.name].x = Overridden(m, inputs)[v.name].x
<1> DEFINE below == PdkConfig(m["PDK"].x).map
           all == Laid(inputs, Laid(m, below))
           r == Incremented(m, inputs)
<1>1. DOMAIN below \subseteq Names
  <2> DEFINE p == Process(MigrateOldConfig(PdkGives[m["PDK"].x]), PdkVars, "ignore", TRUE, FALSE)
  <2>1. DOMAIN p.map \subseteq {u.name : u \in PdkVars}
    BY DEF Process
  <2>2. below = Laid(Only("PDK", Text(m["PDK"].x)), p.map)
    BY DEF PdkConfig
  <2> HIDE DEF p, below
  <2>3. DOMAIN below = {"PDK"} \cup DOMAIN p.map
    BY <2>2 DEF Laid, Only
  <2>4. {u.name : u \in PdkVars} \subseteq Names /\ "PDK" \in Names
    BY VarsAssumption DEF PdkVars, AllVars, Names
  <2>5. QED
    BY <2>1, <2>3, <2>4
<1> HIDE DEF below
<1>2. DOMAIN m = Names /\ DOMAIN inputs \subseteq Names /\ v.name \in Names
  BY InputsAssumption, OldNamesAreOld DEF Settled, Names
<1>3. DOMAIN all = Names
  BY <1>1, <1>2 DEF Laid
<1>4. all[v.name] = Overridden(m, inputs)[v.name]
  BY <1>1, <1>2 DEF Laid, Overridden
<1>5. r = Process(all, AllVars, "ignore", FALSE, FALSE)
  BY DEF Incremented, below
<1> HIDE DEF all
<1>6. r.map[v.name].x = all[v.name].x
  <2> HIDE DEF r
  <2>1. Process(all, AllVars, "ignore", FALSE, FALSE).ok
    BY <1>5 DEF r
  <2>2. Process(all, AllVars, "ignore", FALSE, FALSE).map[v.name].x = all[v.name].x
    BY <1>3, <2>1, ProcessGives
  <2>3. QED
    BY <1>5, <2>2
<1>7. Settled(r.map)
  <2> HIDE DEF r
  <2>1. Process(all, AllVars, "ignore", FALSE, FALSE).ok
    BY <1>5 DEF r
  <2>2. Settled(Process(all, AllVars, "ignore", FALSE, FALSE).map)
    BY <2>1, ProcessSettles
  <2>3. QED
    BY <1>5, <2>2
<1> HIDE DEF r
<1>8. Laid(inputs, r.map)[v.name].x = Overridden(m, inputs)[v.name].x
  <2>1. DOMAIN r.map = Names
    BY <1>7 DEF Settled
  <2>2. CASE v.name \in DOMAIN inputs
    BY <1>2, <2>1, <2>2 DEF Laid, Overridden
  <2>3. CASE v.name \notin DOMAIN inputs
    <3>1. Laid(inputs, r.map)[v.name] = r.map[v.name]
      BY <1>2, <2>1, <2>3 DEF Laid
    <3>2. QED
      BY <1>4, <1>6, <3>1
  <2>4. QED
    BY <2>2, <2>3
<1>9. QED
  BY <1>4, <1>6, <1>8 DEF r

\* What a file leads to that is accepted: names of today, the PDK among them.
Shaped(m) == DOMAIN m \subseteq Names /\ "PDK" \in DOMAIN m

\* What is processed and accepted has names of today; a missing variable is no key.
LEMMA ProcessShapes ==
  ASSUME NEW m, "PDK" \in DOMAIN m, NEW unknown, NEW permissive, NEW missingOk,
         Process(m, AllVars, unknown, permissive, missingOk).ok
  PROVE  Shaped(Process(m, AllVars, unknown, permissive, missingOk).map)
<1> DEFINE n == Translated(m)
           Of(v) == Compile(v, n, permissive)
           r == Process(m, AllVars, unknown, permissive, missingOk)
<1>1. DOMAIN r.map = {v.name : v \in {u \in AllVars : Of(u).is = "value"}}
  BY DEF Process
<1>2. \A v \in AllVars : Of(v).is = "value" \/ Of(v).is = "missing"
  BY DEF Process
<1>3. "PDK" \in Names /\ "PDK" # "DIODE_INSERTION_STRATEGY"
  BY VarsAssumption DEF Names
<1>4. "PDK" \in DOMAIN n
  BY <1>3 DEF Translated, Laid, Without
<1> HIDE DEF r, n
<1>5. PICK pdk \in AllVars : pdk.name = "PDK"
  BY <1>3 DEF Names, AllVars
<1>6. UsedName(pdk, n) # ""
  <2>1. Len(pdk.old) \in Nat /\ AllNames(pdk)[Len(pdk.old) + 1] = "PDK"
    BY <1>5, NamesInTurn
  <2>2. Len(pdk.old) + 1 \in Found(pdk, n)
    BY <1>4, <2>1 DEF Found
  <2>3. QED
    BY <2>2, FoundFirst
<1>7. Of(pdk).is # "missing"
  <2> DEFINE used == UsedName(pdk, n)
             made == Of(pdk)
  <2>1. made = Compiled(pdk, n[used], TRUE, permissive)
    BY <1>6 DEF Compile
  <2> HIDE DEF made, used
  <2>2. made.is \in {"value", "error"}
    BY <2>1 DEF Compiled, Convert
  <2>3. QED
    BY <2>2 DEF made
<1> HIDE DEF Of
<1>8. Of(pdk).is = "value"
  BY <1>2, <1>7
<1>9. DOMAIN r.map \subseteq Names
  BY <1>1 DEF Names, AllVars
<1>10. "PDK" \in DOMAIN r.map
  BY <1>1, <1>5, <1>8
<1>11. QED
  BY <1>9, <1>10 DEF r, Shaped

\* The same of a file, whatever its items are.
LEMMA LoadShapes ==
  ASSUME NEW raw, NEW pdk, NEW first \in BOOLEAN, NEW permissive, NEW missingOk,
         LoadDict(raw, pdk, first, permissive, missingOk).ok
  PROVE  Shaped(LoadDict(raw, pdk, first, permissive, missingOk).map)
<1> DEFINE info == Preprocess(raw, NoPdk)
           named == info.map["PDK"]
           chosen == IF named # NoPdk THEN named ELSE pdk
           below == IF first THEN PdkConfig(chosen.x) ELSE [ok |-> TRUE, map |-> Only("PDK", chosen)]
           items == Preprocess(raw, chosen)
           unknown == IF permissive THEN "warn" ELSE "error"
           all == Laid(items.map, below.map)
           r == LoadDict(raw, pdk, first, permissive, missingOk)
<1>1. r = Failed \/ r = Process(all, AllVars, unknown, permissive, missingOk)
  BY DEF LoadDict
<1> HIDE DEF r, unknown
<1>2. r # Failed
  <2>1. ~Failed.ok
    BY DEF Failed
  <2>2. r.ok
    BY DEF r
  <2>3. QED
    BY <2>1, <2>2
<1>3. "PDK" \in DOMAIN below.map
  <2> HIDE DEF chosen
  <2>1. CASE first
    BY <2>1 DEF PdkConfig, Laid, Only
  <2>2. CASE ~first
    BY <2>2 DEF Only
  <2>3. QED
    BY <2>1, <2>2
<1> HIDE DEF below, items
<1>4. "PDK" \in DOMAIN all
  BY <1>3 DEF Laid
<1> HIDE DEF all
<1>5. Process(all, AllVars, unknown, permissive, missingOk).ok
  BY <1>1, <1>2 DEF r
<1>6. Shaped(Process(all, AllVars, unknown, permissive, missingOk).map)
  BY <1>4, <1>5, ProcessShapes
<1>7. QED
  BY <1>1, <1>2, <1>6 DEF r

\* The inductive invariant: while files are read the keys are names of today, once it is
\* accepted the configuration is settled.
ConfigInv == /\ outcome = "loading" => Shaped(config)
             /\ outcome \in {"done", "reloaded", "incremented"} => Settled(config)
             /\ ReloadIsIdentity

\* One step for each action.
LEMMA ConfigInvariance == ConfigSpec => []ConfigInv
<1>1. Init => ConfigInv
  <2> SUFFICES ASSUME Init PROVE ConfigInv
    OBVIOUS
  <2>1. Shaped(config)
    <3>1. DOMAIN config = {"PDK"}
      BY DEF Init, Only
    <3>2. QED
      BY <3>1, VarsAssumption DEF Shaped, Names
  <2>2. outcome = "loading"
    BY DEF Init
  <2>3. QED
    BY <2>1, <2>2 DEF ConfigInv, ReloadIsIdentity
<1>2. ConfigInv /\ [ConfigNext]_vars => ConfigInv'
  <2> SUFFICES ASSUME ConfigInv, [ConfigNext]_vars PROVE ConfigInv'
    OBVIOUS
  <2>1. CASE LoadFile
    <3> DEFINE file == files[loaded + 1]
               sofar == IF loaded = 0 THEN <<>> ELSE config
               raw == UpdateReorder(sofar, file.items)
               first == loaded = 0
               permissive == Permissive(file)
               r == LoadDict(raw, argument.pdk, first, permissive, TRUE)
    <3>1. /\ config' = IF r.ok THEN r.map ELSE config
          /\ outcome' = IF r.ok THEN "loading" ELSE "refused"
      BY <2>1 DEF LoadFile, Take
    <3>2. r.ok => Shaped(r.map)
      <4>1. first \in BOOLEAN
        OBVIOUS
      <4> HIDE DEF raw, first, permissive
      <4>2. QED
        BY <4>1, LoadShapes
    <3> HIDE DEF r
    <3>3. CASE r.ok
      <4>1. config' = r.map /\ outcome' = "loading" /\ Shaped(r.map)
        BY <3>1, <3>2, <3>3
      <4>2. (outcome = "loading" => Shaped(config))'
        BY <4>1
      <4>3. QED
        BY <4>1, <4>2 DEF ConfigInv, ReloadIsIdentity
    <3>4. CASE ~r.ok
      BY <3>1, <3>4 DEF ConfigInv, ReloadIsIdentity
    <3>5. QED
      BY <3>3, <3>4
  <2>2. CASE Override
    <3> DEFINE r == LoadDict(Items(Overridden(config, argument.overrides)), argument.pdk, FALSE, TRUE, FALSE)
    <3>1. /\ config' = IF r.ok THEN r.map ELSE config
          /\ outcome' = IF r.ok THEN "done" ELSE "refused"
      BY <2>2 DEF Override, Take
    <3>2. r.ok => Settled(r.map)
      BY LoadSettles
    <3> HIDE DEF r
    <3>3. CASE r.ok
      <4>1. config' = r.map /\ outcome' = "done" /\ Settled(r.map)
        BY <3>1, <3>2, <3>3
      <4>2. (outcome \in {"done", "reloaded", "incremented"} => Settled(config))'
        BY <4>1
      <4>3. ReloadIsIdentity'
        BY <4>1 DEF ReloadIsIdentity
      <4>4. QED
        BY <4>1, <4>2, <4>3 DEF ConfigInv
    <3>4. CASE ~r.ok
      BY <3>1, <3>4 DEF ConfigInv, ReloadIsIdentity
    <3>5. QED
      BY <3>3, <3>4
  <2>3. CASE Reload
    <3>1. Settled(config) /\ again' = {Reloaded(config)} /\ outcome' = "reloaded" /\ config' = config
      BY <2>3 DEF Reload, ConfigInv
    <3>2. /\ LoadDict(Items(config), NoPdk, FALSE, FALSE, TRUE) = [map |-> config, ok |-> TRUE]
          /\ LoadDict(Items(config), NoPdk, FALSE, TRUE, FALSE) = [map |-> config, ok |-> TRUE]
      BY <3>1, LoadKeeps
    <3>3. Reloaded(config) = [ok |-> TRUE, map |-> config]
      <4> DEFINE once == LoadDict(Items(config), NoPdk, FALSE, FALSE, TRUE)
                 twice == LoadDict(Items(once.map), NoPdk, FALSE, TRUE, FALSE)
      <4>1. Reloaded(config) = IF once.ok THEN twice ELSE once
        BY DEF Reloaded
      <4>2. once = [map |-> config, ok |-> TRUE]
        BY <3>2, Zenon
      <4> HIDE DEF once
      <4>3. once.ok /\ once.map = config
        BY <4>2
      <4>4. twice = [map |-> config, ok |-> TRUE]
        BY <3>2, <4>3, Zenon
      <4> HIDE DEF twice
      <4>5. QED
        BY <4>1, <4>3, <4>4
    <3>4. (outcome \in {"done", "reloaded", "incremented"} => Settled(config))'
      BY <3>1
    <3>5. QED
      BY <3>1, <3>3, <3>4 DEF ConfigInv, ReloadIsIdentity
  <2>4. CASE Increment
    <3>1. PICK inputs \in Inputs :
            /\ again' = {[map |-> Laid(inputs, Incremented(config, inputs).map), ok |-> Incremented(config, inputs).ok],
                         Incremented(config, inputs)}
            /\ outcome' = IF Incremented(config, inputs).ok THEN "incremented" ELSE "refused"
      BY <2>4 DEF Increment
    <3>2. Settled(config) /\ config' = config
      BY <2>4 DEF Increment, ConfigInv
    <3>3. CASE ~Incremented(config, inputs).ok
      BY <3>1, <3>3 DEF ConfigInv, ReloadIsIdentity
    <3>4. CASE Incremented(config, inputs).ok
      <4>1. outcome' = "incremented"
        BY <3>1, <3>4
      <4>2. \A r \in again' : \A v \in AllVars : r.map[v.name].x = Overridden(config, inputs)[v.name].x
        BY <3>1, <3>2, <3>4, IncrementAdds
      <4>3. ReloadIsIdentity'
        BY <3>2, <4>1, <4>2 DEF ReloadIsIdentity, AllVars, Overridden
      <4>4. (outcome \in {"done", "reloaded", "incremented"} => Settled(config))'
        BY <3>2
      <4>5. QED
        BY <4>1, <4>3, <4>4 DEF ConfigInv
    <3>5. QED
      BY <3>3, <3>4
  <2>5. CASE UNCHANGED vars
    <3>1. config' = config /\ outcome' = outcome /\ again' = again
      BY <2>5 DEF vars
    <3>2. (outcome = "loading" => Shaped(config))'
      BY <3>1 DEF ConfigInv
    <3>3. (outcome \in {"done", "reloaded", "incremented"} => Settled(config))'
      BY <3>1 DEF ConfigInv
    <3>4. ReloadIsIdentity'
      BY <3>1 DEF ConfigInv, ReloadIsIdentity
    <3>5. QED
      BY <3>2, <3>3, <3>4 DEF ConfigInv
  <2>6. QED
    BY <2>1, <2>2, <2>3, <2>4, <2>5 DEF ConfigNext
<1>3. QED
  BY <1>1, <1>2, PTL DEF ConfigSpec

\* Loading a configuration that was written out gives it back, and adding to it
\* changes what is added and nothing else, whatever the variables, the PDK and the
\* files are (Step.load_config_from_file, Config.with_increment).
THEOREM ReloadGivesItBack == ConfigSpec => []ReloadIsIdentity
<1>1. ConfigInv => ReloadIsIdentity
  BY DEF ConfigInv
<1>2. QED
  BY <1>1, ConfigInvariance, PTL

\* What an accepted configuration is like, see AcceptedAreSettled.
AcceptedIsSettled == outcome = "done" => Settled(config)

\* A configuration that was accepted has every variable of the flow and nothing else,
\* and each is in the form of its type; only an optional one is null
\* (Variable.compile, Config.__process_variable_list).
THEOREM AcceptedAreSettled == ConfigSpec => []AcceptedIsSettled
<1>1. ConfigInv => AcceptedIsSettled
  BY DEF ConfigInv, AcceptedIsSettled
<1>2. QED
  BY <1>1, ConfigInvariance, PTL

\* What is last said of a variable: by the command line, by the files, by its default.
LastOf(v, over, m) ==
  LET said == UsedName(v, over)
  IN  IF said # "" THEN over[said].x ELSE IF v.name \in DOMAIN m THEN m[v.name].x ELSE v.default.x

\* What the last layer does, see OverridesHaveTheLastWord.
OverridesWin ==
  Override /\ outcome' = "done" /\ "DIODE_INSERTION_STRATEGY" \notin DOMAIN argument.overrides =>
    \A v \in AllVars : config'[v.name].x = LastOf(v, argument.overrides, config)

\* What the last of the layers, that of the command line, leads to.
Finished(m, pdk) == LoadDict(Items(m), pdk, FALSE, TRUE, FALSE)

\* The configuration with the command line on top of it holds what was said last.
LEMMA OverrideAdds ==
  ASSUME NEW m, Shaped(m), NEW over, "DIODE_INSERTION_STRATEGY" \notin DOMAIN over, NEW pdk,
         NEW r, r = Finished(Overridden(m, over), pdk), r.ok,
         NEW v \in AllVars
  PROVE  r.map[v.name].x = LastOf(v, over, m)
<1> DEFINE all == Overridden(m, over)
           permissive == TRUE
           p == Process(all, AllVars, Unknown(permissive), permissive, FALSE)
<1>1. /\ DOMAIN all = DOMAIN over \cup DOMAIN m
      /\ \A k \in DOMAIN over : all[k] = over[k]
      /\ \A k \in DOMAIN m \ DOMAIN over : all[k] = m[k]
      /\ all = [k \in DOMAIN all |-> all[k]]
  BY DEF Overridden, Laid
<1>2. DOMAIN m \subseteq Names /\ "PDK" \in DOMAIN m
  BY DEF Shaped
<1>3. r = LoadDict(Items(all), pdk, FALSE, permissive, FALSE)
  BY DEF Finished
<1> HIDE DEF all, permissive
<1>4. IsMap(all)
  BY <1>1, <1>2 DEF IsMap
<1>5. LoadDict(Items(all), pdk, FALSE, permissive, FALSE) = p
  BY <1>4, LoadIsProcess
<1> HIDE DEF p
<1>6. r = p
  BY <1>3, <1>5
<1>7. Translated(all) = all
  <2>1. "DIODE_INSERTION_STRATEGY" \notin DOMAIN all
    BY <1>1, <1>2, VarsAssumption DEF Names
  <2>2. QED
    BY <2>1 DEF Translated, Strategy
<1>8. p.ok
  BY <1>6
<1> DEFINE made == Compile(v, all, permissive)
<1>9. made.is = "value" /\ p.map[v.name] = made.value
  BY <1>7, <1>8, ProcessSettles DEF p
<1>10. made.value.x = IF UsedName(v, all) # "" THEN all[UsedName(v, all)].x ELSE v.default.x
  BY <1>9, CompileGives
<1> HIDE DEF made
<1>11. /\ UsedName(v, over) # "" => UsedName(v, all) = UsedName(v, over) /\ UsedName(v, over) \in DOMAIN over
       /\ UsedName(v, over) = "" => v.name \notin DOMAIN over /\ UsedName(v, all) = IF v.name \in DOMAIN m THEN v.name ELSE ""
  BY <1>1, <1>2, FoundOnTop
<1>12. v.name # ""
  BY OldNamesAreOld
<1>13. CASE UsedName(v, over) # ""
  <2>1. made.value.x = over[UsedName(v, over)].x
    BY <1>1, <1>10, <1>11, <1>13
  <2>2. QED
    BY <1>6, <1>9, <1>13, <2>1 DEF LastOf
<1>14. CASE UsedName(v, over) = ""
  <2>1. made.value.x = IF v.name \in DOMAIN m THEN m[v.name].x ELSE v.default.x
    BY <1>1, <1>10, <1>11, <1>12, <1>14
  <2>2. QED
    BY <1>6, <1>9, <1>14, <2>1 DEF LastOf
<1>15. QED
  BY <1>13, <1>14

\* The command line has the last word, under whatever name; what it does not speak of
\* stays as the files left it, or is the default (Config.load, the overrides). The
\* diode insertion strategy, which speaks for variables of other names, is left out.
THEOREM OverridesHaveTheLastWord == ConfigSpec => [][OverridesWin]_vars
<1>1. ConfigInv /\ [ConfigNext]_vars => [OverridesWin]_vars
  <2> SUFFICES ASSUME ConfigInv, Override, outcome' = "done",
                      "DIODE_INSERTION_STRATEGY" \notin DOMAIN argument.overrides, NEW v \in AllVars
               PROVE  config'[v.name].x = LastOf(v, argument.overrides, config)
    BY DEF OverridesWin
  <2> DEFINE r == LoadDict(Items(Overridden(config, argument.overrides)), argument.pdk, FALSE, TRUE, FALSE)
  <2>1. /\ config' = IF r.ok THEN r.map ELSE config
        /\ outcome' = IF r.ok THEN "done" ELSE "refused"
    BY DEF Override, Take
  <2> HIDE DEF r
  <2>2. r.ok /\ config' = r.map
    BY <2>1
  <2>3. Shaped(config)
    BY DEF ConfigInv, Override
  <2>4. r.map[v.name].x = LastOf(v, argument.overrides, config)
    <3>1. r = Finished(Overridden(config, argument.overrides), argument.pdk)
      BY DEF r, Finished
    <3>2. QED
      BY <2>2, <2>3, <3>1, OverrideAdds
  <2>5. QED
    BY <2>2, <2>4
<1>2. QED
  BY <1>1, ConfigInvariance, PTL DEF ConfigSpec
=============================================================================
