-------------------------- MODULE DigitalCoreProofs --------------------------
(***************************************************************************)
(* What the digital scripts sign is what they checked, for grids of any    *)
(* size, any designs and any number of commands, whatever the tools leave  *)
(* out: first the union-find of the power check, then the scripts.  And    *)
(* what a run of the flow says is true of its design, however many runs    *)
(* went before it in its directory: last, a run beside the undisturbed one *)
(* of its list.                                                            *)
(***************************************************************************)
EXTENDS DigitalCore, FiniteSetTheorems, WellFoundedInduction, TLAPS

(* Numbers                                                                 *)

\* A nonempty set of naturals has a least member.
LEMMA LeastExists ==
  ASSUME NEW S \in SUBSET Nat, S # {}
  PROVE  \E n \in S : \A m \in S : n <= m
<1>1. PICK n \in S : \A m \in Nat : <<m, n>> \in OpToRel(<, Nat) => m \notin S
  BY WFMin, NatLessThanWellFounded
<1>2. ASSUME NEW m \in S PROVE n <= m
  <2>1. m \in Nat /\ n \in Nat
    OBVIOUS
  <2>2. ~(m < n)
    BY <1>1, <2>1 DEF OpToRel
  <2>3. QED
    BY <2>1, <2>2
<1>3. QED
  BY <1>2

\* What holds of 0, and of each number up to N if of the one before, holds up to N.
LEMMA UpTo ==
  ASSUME NEW N \in Nat, NEW S, 0 \in S, \A n \in 1..N : n - 1 \in S => n \in S
  PROVE  \A n \in 0..N : n \in S
<1> DEFINE Out == {n \in 0..N : n \notin S}
<1>1. Out \in SUBSET Nat
  OBVIOUS
<1>2. SUFFICES ASSUME Out # {} PROVE FALSE
  OBVIOUS
<1>3. PICK n \in Out : \A m \in Out : n <= m
  BY <1>1, <1>2, LeastExists
<1>4. n \in 1..N /\ n - 1 \in 0..N
  OBVIOUS
<1>5. n - 1 \in S
  BY <1>3, <1>4
<1>6. QED
  BY <1>4, <1>5

\* A set of numbers up to n has a greatest member and a least one.
LEMMA BoundsExist ==
  ASSUME NEW n \in Nat, NEW S \in SUBSET (1..n), S # {}
  PROVE  /\ Min(S) \in S /\ Max(S) \in S
         /\ \A x \in S : Min(S) <= x /\ x <= Max(S)
<1>1. \E x \in S : \A y \in S : x <= y
  <2>1. S \in SUBSET Nat
    OBVIOUS
  <2>2. QED
    BY <2>1, LeastExists
<1>2. \E x \in S : \A y \in S : x >= y
  <2> DEFINE T == {n - x : x \in S}
  <2>1. T \in SUBSET Nat /\ T # {}
    <3>1. \A x \in S : n - x \in Nat
      OBVIOUS
    <3>2. QED
      BY <3>1
  <2>2. PICK t \in T : \A u \in T : t <= u
    BY <2>1, LeastExists
  <2>3. PICK x \in S : t = n - x
    OBVIOUS
  <2>4. ASSUME NEW y \in S PROVE x >= y
    <3>1. n - x <= n - y
      BY <2>2, <2>3
    <3>2. QED
      BY <3>1
  <2>5. QED
    BY <2>4
<1>3. Min(S) \in S /\ \A y \in S : Min(S) <= y
  BY <1>1 DEF Min
<1>4. Max(S) \in S /\ \A y \in S : Max(S) >= y
  BY <1>2 DEF Max
<1>5. QED
  BY <1>3, <1>4

\* g[n] is what n times of op make of first.
Iterated(g, n, D, first, op) ==
  /\ g \in [0..n -> D] /\ g[0] = first
  /\ \A i \in 1..n : g[i] = op[i][g[i - 1]]

\* A value can be made from the one before N times over.
LEMMA Iterates ==
  ASSUME NEW N \in Nat, NEW D, NEW first \in D, NEW op \in [1..N -> [D -> D]]
  PROVE  \E g : Iterated(g, N, D, first, op)
<1> DEFINE Good(g, n) == Iterated(g, n, D, first, op)
           S == {n \in 0..N : \E g : Good(g, n)}
<1>1. 0 \in S
  <2> DEFINE g == [i \in 0..0 |-> first]
  <2>1. Good(g, 0)
    BY DEF Iterated
  <2> HIDE DEF Good, g
  <2>2. QED
    BY <2>1
<1>2. ASSUME NEW n \in 1..N, n - 1 \in S PROVE n \in S
  <2>1. PICK g : Good(g, n - 1)
    BY <1>2
  <2> DEFINE h == [i \in 0..n |-> IF i = n THEN op[n][g[n - 1]] ELSE g[i]]
  <2>2. n - 1 \in 0..n - 1 /\ g[n - 1] \in D
    BY <2>1 DEF Iterated
  <2>3. h[n] = op[n][g[n - 1]] /\ h[n] \in D
    BY <2>2
  <2>4. \A i \in 0..n - 1 : h[i] = g[i] /\ i \in 0..n
    OBVIOUS
  <2>5. h \in [0..n -> D]
    BY <2>1, <2>3, <2>4 DEF Iterated
  <2>6. ASSUME NEW i \in 1..n PROVE h[i] = op[i][h[i - 1]]
    <3>1. i - 1 \in 0..n - 1 /\ h[i - 1] = g[i - 1]
      BY <2>4
    <3>2. CASE i = n
      BY <2>3, <3>1, <3>2
    <3>3. CASE i # n
      <4>1. i \in 1..n - 1
        BY <3>3
      <4>2. h[i] = g[i]
        BY <2>4, <4>1
      <4>3. QED
        BY <2>1, <3>1, <4>1, <4>2 DEF Iterated
    <3>4. QED
      BY <3>2, <3>3
  <2>7. h[0] = first
    BY <2>1, <2>4 DEF Iterated
  <2>8. Good(h, n)
    <3> HIDE DEF h
    <3>1. QED
      BY <2>5, <2>6, <2>7 DEF Iterated
  <2> HIDE DEF Good, h
  <2>9. QED
    BY <2>8
<1>3. N \in S
  <2> HIDE DEF S
  <2>1. \A n \in 0..N : n \in S
    BY <1>1, <1>2, UpTo
  <2>2. QED
    BY <2>1
<1>4. QED
  BY <1>3

-----------------------------------------------------------------------------
(* Trees of polygons                                                       *)

\* r tells the root of each item, and d how deep it lies at most.
Rooted(n, p, r, d) ==
  /\ p \in [1..n -> 1..n] /\ r \in [1..n -> 1..n] /\ d \in [1..n -> Nat]
  /\ \A i \in 1..n : p[r[i]] = r[i]
  /\ \A i \in 1..n : p[i] = i => r[i] = i
  /\ \A i \in 1..n : p[i] # i => r[i] = r[p[i]] /\ d[p[i]] < d[i]

Forests(n) == {p \in [1..n -> 1..n] : \E r, d : Rooted(n, p, r, d)}

\* The loop of find ends at the root, and at no other item.
LEMMA FindsRoot ==
  ASSUME NEW n \in Nat, NEW p, NEW r, NEW d, Rooted(n, p, r, d), NEW item \in 1..n
  PROVE  Find(p, item) = r[item]
<1> DEFINE Is(q) == q = [i \in DOMAIN p |-> IF p[i] = i THEN i ELSE q[p[i]]]
           root == CHOOSE q : Is(q)
<1>1. Is(r)
  <2>1. DOMAIN p = 1..n /\ r = [i \in 1..n |-> r[i]]
    BY DEF Rooted
  <2>2. \A i \in 1..n : r[i] = IF p[i] = i THEN i ELSE r[p[i]]
    BY DEF Rooted
  <2>3. [i \in 1..n |-> r[i]] = [i \in 1..n |-> IF p[i] = i THEN i ELSE r[p[i]]]
    BY <2>2
  <2>4. QED
    BY <2>1, <2>3, Zenon
<1>2. Is(root)
  <2> HIDE DEF Is
  <2>1. QED
    BY <1>1
<1>3. Find(p, item) = root[item]
  BY DEF Find
<1>4. \A i \in 1..n : root[i] = IF p[i] = i THEN i ELSE root[p[i]]
  <2> HIDE DEF root
  <2>1. DOMAIN p = 1..n
    BY DEF Rooted
  <2>2. QED
    BY <1>2, <2>1
<1> HIDE DEF root
<1>5. \A i \in 1..n : root[i] = r[i]
  <2> DEFINE Bad == {i \in 1..n : root[i] # r[i]}
             Depths == {d[i] : i \in Bad}
  <2>1. SUFFICES ASSUME Bad # {} PROVE FALSE
    OBVIOUS
  <2>2. Depths \in SUBSET Nat /\ Depths # {}
    BY <2>1 DEF Rooted
  <2>3. PICK x \in Depths : \A y \in Depths : x <= y
    BY <2>2, LeastExists
  <2>4. PICK i \in Bad : x = d[i]
    OBVIOUS
  <2>5. p[i] # i /\ p[i] \in 1..n /\ d[p[i]] < d[i] /\ r[i] = r[p[i]]
    BY <1>4, <2>4 DEF Rooted
  <2>6. p[i] \notin Bad
    <3>1. p[i] \in Bad => x <= d[p[i]]
      BY <2>3
    <3>2. d[i] \in Nat /\ d[p[i]] \in Nat
      BY <2>4, <2>5 DEF Rooted
    <3>3. QED
      BY <2>4, <2>5, <3>1, <3>2
  <2>7. QED
    BY <1>4, <2>4, <2>5, <2>6
<1>6. QED
  BY <1>3, <1>5

\* Every item of a forest has a root in it.
LEMMA FindIsItem ==
  ASSUME NEW n \in Nat, NEW p \in Forests(n), NEW i \in 1..n
  PROVE  Find(p, i) \in 1..n
<1>1. PICK r, d : Rooted(n, p, r, d)
  BY DEF Forests
<1>2. Find(p, i) = r[i]
  BY <1>1, FindsRoot
<1>3. QED
  BY <1>1, <1>2 DEF Rooted

\* A union puts the tree of one item under the root of another.
LEMMA UnionJoins ==
  ASSUME NEW n \in Nat, NEW p \in Forests(n), NEW left \in 1..n, NEW right \in 1..n
  PROVE  /\ Union(p, left, right) \in Forests(n)
         /\ \A i \in 1..n : Find(Union(p, left, right), i) =
              IF Find(p, i) = Find(p, right) THEN Find(p, left) ELSE Find(p, i)
<1>1. PICK r, d : Rooted(n, p, r, d)
  BY DEF Forests
<1> DEFINE a == r[left]
           b == r[right]
           q == [p EXCEPT ![b] = a]
           s == [i \in 1..n |-> IF r[i] = b THEN a ELSE r[i]]
           e == [i \in 1..n |-> IF r[i] = b THEN d[i] + d[a] + 1 ELSE d[i]]
<1>2. /\ a \in 1..n /\ b \in 1..n /\ p[a] = a /\ p[b] = b /\ r[a] = a /\ r[b] = b
  BY <1>1 DEF Rooted
<1>3. Union(p, left, right) = q
  <2>1. Find(p, left) = a /\ Find(p, right) = b
    BY <1>1, FindsRoot
  <2>2. QED
    BY <2>1 DEF Union
<1>4. q \in [1..n -> 1..n] /\ s \in [1..n -> 1..n] /\ \A i \in 1..n : q[i] = IF i = b THEN a ELSE p[i]
  BY <1>1, <1>2 DEF Rooted
<1>5. \A i \in 1..n : r[i] \in 1..n /\ p[i] \in 1..n /\ d[i] \in Nat
  BY <1>1 DEF Rooted
<1>6. CASE a = b
  <2>1. q = p
    BY <1>1, <1>2, <1>4, <1>6 DEF Rooted
  <2>2. Rooted(n, q, r, d)
    BY <1>1, <2>1
  <2>3. \A i \in 1..n : Find(q, i) = r[i] /\ Find(p, i) = r[i]
    BY <1>1, <2>1, FindsRoot
  <2>4. QED
    BY <1>2, <1>3, <1>6, <2>1, <2>3
<1>7. CASE a # b
  <2>1. e \in [1..n -> Nat]
    BY <1>2, <1>5
  <2>2. ASSUME NEW i \in 1..n PROVE q[s[i]] = s[i]
    <3>1. p[r[i]] = r[i]
      BY <1>1 DEF Rooted
    <3>2. QED
      BY <1>2, <1>4, <1>5, <1>7, <3>1
  <2>3. ASSUME NEW i \in 1..n, q[i] = i PROVE s[i] = i
    <3>1. i # b /\ p[i] = i
      BY <1>4, <1>7, <2>3
    <3>2. r[i] = i
      BY <1>1, <3>1 DEF Rooted
    <3>3. QED
      BY <3>1, <3>2
  <2>4. ASSUME NEW i \in 1..n, q[i] # i PROVE s[i] = s[q[i]] /\ e[q[i]] < e[i]
    <3>1. CASE i = b
      <4>1. q[i] = a /\ s[a] = a /\ s[i] = a
        BY <1>2, <1>4, <1>7, <3>1
      <4>2. e[a] = d[a] /\ e[i] = d[i] + d[a] + 1 /\ d[a] \in Nat /\ d[i] \in Nat
        BY <1>2, <1>5, <1>7, <3>1
      <4>3. QED
        BY <4>1, <4>2
    <3>2. CASE i # b
      <4>1. q[i] = p[i] /\ p[i] # i /\ p[i] \in 1..n
        BY <1>4, <1>5, <2>4, <3>2
      <4>2. r[i] = r[p[i]] /\ d[p[i]] < d[i]
        BY <1>1, <4>1 DEF Rooted
      <4>3. d[i] \in Nat /\ d[p[i]] \in Nat /\ d[a] \in Nat
        BY <1>2, <1>5, <4>1
      <4>4. s[i] = s[p[i]]
        BY <4>1, <4>2
      <4>5. e[p[i]] < e[i]
        <5>1. e[i] = (IF r[i] = b THEN d[i] + d[a] + 1 ELSE d[i])
          OBVIOUS
        <5>2. e[p[i]] = (IF r[i] = b THEN d[p[i]] + d[a] + 1 ELSE d[p[i]])
          BY <4>1, <4>2
        <5> HIDE DEF e, a, b
        <5>3. QED
          BY <4>2, <4>3, <5>1, <5>2
      <4>6. QED
        BY <4>1, <4>4, <4>5
    <3>3. QED
      BY <3>1, <3>2
  <2>5. Rooted(n, q, s, e)
    <3> HIDE DEF q, s, e
    <3>1. QED
      BY <1>4, <2>1, <2>2, <2>3, <2>4 DEF Rooted
  <2>6. q \in Forests(n)
    <3> HIDE DEF q, s, e
    <3>1. QED
      BY <1>4, <2>5 DEF Forests
  <2>7. ASSUME NEW i \in 1..n
        PROVE  Find(q, i) = s[i] /\ Find(p, i) = r[i]
    <3> HIDE DEF q, s, e
    <3>1. QED
      BY <1>1, <2>5, FindsRoot
  <2>8. Find(p, left) = a /\ Find(p, right) = b
    BY <2>7
  <2>9. \A i \in 1..n : s[i] = IF r[i] = b THEN a ELSE r[i]
    OBVIOUS
  <2> HIDE DEF q, s, e, a, b
  <2>10. QED
    BY <1>3, <2>6, <2>7, <2>8, <2>9
<1>8. QED
  BY <1>6, <1>7

\* No tree of a forest has items on both sides of a set.
Closed(n, p, P) == \A i, j \in 1..n : Find(p, i) = Find(p, j) => (i \in P <=> j \in P)

\* q keeps the trees of p whole, has all of S in one, and tells nothing together
\* that a set told apart.
Joins(n, p, q, S) ==
  /\ q \in Forests(n)
  /\ \A i, j \in 1..n : Find(p, i) = Find(p, j) => Find(q, i) = Find(q, j)
  /\ \A x, y \in S : Find(q, x) = Find(q, y)
  /\ \A P \in SUBSET (1..n) : Closed(n, p, P) /\ (S \subseteq P \/ S \cap P = {}) => Closed(n, q, P)

\* One more item is joined with one of the set.
LEMMA JoinsMore ==
  ASSUME NEW n \in Nat, NEW p, NEW q, NEW S \in SUBSET (1..n), Joins(n, p, q, S),
         NEW a \in S, NEW b \in 1..n
  PROVE  Joins(n, p, Union(q, a, b), S \cup {b})
<1> DEFINE u == Union(q, a, b)
<1>1. q \in Forests(n) /\ a \in 1..n
  BY DEF Joins
<1>2. /\ u \in Forests(n)
      /\ \A i \in 1..n : Find(u, i) = IF Find(q, i) = Find(q, b) THEN Find(q, a) ELSE Find(q, i)
  BY <1>1, UnionJoins
<1> HIDE DEF u
<1>3. \A i, j \in 1..n : Find(q, i) = Find(q, j) => Find(u, i) = Find(u, j)
  BY <1>2
<1>4. \A i, j \in 1..n : Find(p, i) = Find(p, j) => Find(u, i) = Find(u, j)
  BY <1>3 DEF Joins
<1>5. \A x \in S \cup {b} : Find(u, x) = Find(q, a)
  <2>1. \A x \in S : x \in 1..n /\ Find(q, x) = Find(q, a)
    BY DEF Joins
  <2>2. QED
    BY <1>2, <2>1
<1>6. ASSUME NEW P \in SUBSET (1..n), Closed(n, p, P),
             S \cup {b} \subseteq P \/ (S \cup {b}) \cap P = {}
      PROVE  Closed(n, u, P)
  <2>1. S \subseteq P \/ S \cap P = {}
    BY <1>6
  <2>2. Closed(n, q, P)
    BY <1>6, <2>1 DEF Joins
  <2>3. a \in P <=> b \in P
    BY <1>6
  <2>4. ASSUME NEW i \in 1..n, NEW j \in 1..n, Find(u, i) = Find(u, j) PROVE i \in P <=> j \in P
    <3>1. /\ Find(q, i) = Find(q, b) => (i \in P <=> b \in P)
          /\ Find(q, j) = Find(q, b) => (j \in P <=> b \in P)
          /\ Find(q, i) = Find(q, a) => (i \in P <=> a \in P)
          /\ Find(q, j) = Find(q, a) => (j \in P <=> a \in P)
          /\ Find(q, i) = Find(q, j) => (i \in P <=> j \in P)
      BY <1>1, <2>2 DEF Closed
    <3>2. \/ Find(q, i) = Find(q, b) /\ Find(q, j) = Find(q, b)
          \/ Find(q, i) = Find(q, b) /\ Find(q, j) = Find(q, a)
          \/ Find(q, i) = Find(q, a) /\ Find(q, j) = Find(q, b)
          \/ Find(q, i) = Find(q, j)
      BY <1>2, <2>4
    <3>3. QED
      BY <2>3, <3>1, <3>2
  <2>5. QED
    BY <2>4 DEF Closed
<1>7. \A x, y \in S \cup {b} : Find(u, x) = Find(u, y)
  BY <1>5
<1>8. Joins(n, p, u, S \cup {b})
  BY <1>2, <1>4, <1>6, <1>7 DEF Joins
<1>9. QED
  BY <1>8 DEF u

\* At a via the polygons found there are joined, and nothing else.
LEMMA ViaJoins ==
  ASSUME NEW n \in Nat, NEW p \in Forests(n), NEW hits \in SUBSET (1..n)
  PROVE  Joins(n, p, JoinedAt(p, hits), hits)
<1>1. CASE hits = {}
  <2>1. JoinedAt(p, hits) = p
    BY <1>1 DEF JoinedAt
  <2>2. QED
    BY <1>1, <2>1 DEF Joins
<1>2. CASE hits # {}
  <2> DEFINE first == Min(hits)
             M == Max(hits)
             D == Forests(n)
             op == [k \in 1..M |-> [x \in D |-> IF k \in hits \ {first} THEN Union(x, first, k) ELSE x]]
             Is(f) == f = [k \in 0..M |-> IF k = 0 THEN p
                                          ELSE IF k \in hits \ {first} THEN Union(f[k - 1], first, k)
                                          ELSE f[k - 1]]
             upto == CHOOSE f : Is(f)
             Part(k) == {x \in hits : x = first \/ x <= k}
  <2>1. first \in hits /\ M \in hits /\ \A x \in hits : x <= M
    BY <1>2, BoundsExist
  <2>3. JoinedAt(p, hits) = upto[M]
    BY <1>2 DEF JoinedAt
  <2> HIDE DEF M, first, upto, Is, op, D
  <2>2. M \in Nat /\ first \in 1..n /\ \A x \in hits : x \in Nat /\ x # 0
    BY <2>1
  <2> USE DEF upto, Is, op, D
  <2>4. op \in [1..M -> [D -> D]]
    <3>1. \A k \in 1..M, x \in D : k \in hits \ {first} => Union(x, first, k) \in D
      BY <2>2, UnionJoins
    <3> HIDE DEF D
    <3>2. QED
      BY <3>1
  <2>5. PICK g : Iterated(g, M, D, p, op)
    <3> HIDE DEF op, D
    <3>1. p \in D
      BY DEF D
    <3>2. QED
      BY <2>2, <2>4, <3>1, Iterates, Zenon
  <2>6. \A k \in 1..M, x \in D : op[k][x] = IF k \in hits \ {first} THEN Union(x, first, k) ELSE x
    OBVIOUS
  <2> HIDE DEF D, op
  <2>7. Is(g)
    <3>1. g = [k \in 0..M |-> g[k]] /\ g[0] = p
      BY <2>5 DEF Iterated
    <3>2. \A k \in 1..M : g[k] = op[k][g[k - 1]]
      BY <2>5 DEF Iterated
    <3>3. \A k \in 1..M : k - 1 \in 0..M /\ k # 0
      BY <2>2
    <3>4. \A k \in 1..M : g[k - 1] \in D
      BY <2>5, <3>3 DEF Iterated
    <3>5. \A k \in 1..M : g[k] = IF k \in hits \ {first} THEN Union(g[k - 1], first, k) ELSE g[k - 1]
      BY <2>6, <3>2, <3>4
    <3>6. \A k \in 0..M : k = 0 \/ (k \in 1..M /\ k # 0)
      BY <2>2
    <3>7. \A k \in 0..M : g[k] = IF k = 0 THEN p
                                 ELSE IF k \in hits \ {first} THEN Union(g[k - 1], first, k) ELSE g[k - 1]
      BY <3>1, <3>5, <3>6
    <3>8. [k \in 0..M |-> g[k]] = [k \in 0..M |-> IF k = 0 THEN p
                                 ELSE IF k \in hits \ {first} THEN Union(g[k - 1], first, k) ELSE g[k - 1]]
      BY <3>7
    <3>9. QED
      BY <3>1, <3>8, Zenon
  <2>8. Is(upto)
    <3> HIDE DEF Is
    <3>1. QED
      BY <2>7
  <2> HIDE DEF upto
  <2>9. /\ upto[0] = p
        /\ \A k \in 1..M : upto[k] = IF k \in hits \ {first} THEN Union(upto[k - 1], first, k) ELSE upto[k - 1]
    BY <2>2, <2>8
  <2> HIDE DEF Is
  <2>10. Joins(n, p, upto[0], Part(0))
    <3>1. Part(0) = {first}
      <4>1. \A x \in hits : ~(x <= 0)
        BY <2>2
      <4>2. QED
        BY <2>1, <4>1
    <3>2. QED
      BY <2>9, <3>1 DEF Joins
  <2> DEFINE S == {k \in 0..M : Joins(n, p, upto[k], Part(k))}
  <2>11. 0 \in S
    BY <2>2, <2>10
  <2>12. ASSUME NEW k \in 1..M, k - 1 \in S PROVE k \in S
    <3>1. Joins(n, p, upto[k - 1], Part(k - 1))
      BY <2>12
    <3>2. CASE k \in hits \ {first}
      <4>1. Part(k) = Part(k - 1) \cup {k}
        <5>1. \A x \in hits : x <= k <=> (x <= k - 1 \/ x = k)
          BY <2>2
        <5>2. QED
          BY <3>2, <5>1
      <4>2. first \in Part(k - 1) /\ Part(k - 1) \in SUBSET (1..n) /\ k \in 1..n
        BY <2>1, <3>2
      <4>3. upto[k] = Union(upto[k - 1], first, k)
        BY <2>9, <3>2
      <4> HIDE DEF Part
      <4>4. QED
        BY <3>1, <4>1, <4>2, <4>3, JoinsMore
    <3>3. CASE k \notin hits \ {first}
      <4>1. Part(k) = Part(k - 1)
        <5>1. \A x \in hits : x <= k <=> (x <= k - 1 \/ x = k)
          BY <2>2
        <5>2. QED
          BY <3>3, <5>1
      <4>2. upto[k] = upto[k - 1]
        BY <2>9, <3>3
      <4> HIDE DEF Part
      <4>3. QED
        BY <3>1, <4>1, <4>2
    <3>4. QED
      BY <3>2, <3>3
  <2>13. \A k \in 1..M : k - 1 \in S => k \in S
    BY <2>12
  <2>14. M \in S
    <3> HIDE DEF S
    <3>1. \A k \in 0..M : k \in S
      BY <2>2, <2>11, <2>13, UpTo
    <3>2. QED
      BY <2>2, <3>1
  <2>15. Part(M) = hits
    BY <2>1
  <2>16. QED
    BY <2>3, <2>14, <2>15
<1>3. QED
  BY <1>1, <1>2
-----------------------------------------------------------------------------
(* The power check                                                         *)

\* A set that every via up to this one leaves whole.
WholeUpTo(grid, v, P) == \A w \in 1..v : grid.vias[w] \subseteq P \/ grid.vias[w] \cap P = {}

\* f has joined what meets at the first v vias, and nothing else.
Drawn(grid, v, f) ==
  /\ f \in Forests(grid.n)
  /\ \A w \in 1..v : \A x, y \in grid.vias[w] : Find(f, x) = Find(f, y)
  /\ \A P \in SUBSET (1..grid.n) : WholeUpTo(grid, v, P) => Closed(grid.n, f, P)

\* The forest of a grid is the connection of its polygons.
LEMMA ForestDraws ==
  ASSUME NEW grid, grid.n \in Nat, grid.vias \in Seq(SUBSET (1..grid.n))
  PROVE  Drawn(grid, Len(grid.vias), Forest(grid))
<1> DEFINE n == grid.n
           vias == grid.vias
           M == Len(vias)
           D == Forests(n)
           start == [i \in 1..n |-> i]
           op == [v \in 1..M |-> [x \in D |-> JoinedAt(x, vias[v])]]
           Is(f) == f = [v \in 0..M |-> IF v = 0 THEN start ELSE JoinedAt(f[v - 1], vias[v])]
           upto == CHOOSE f : Is(f)
<1>1. M \in Nat /\ n \in Nat /\ \A v \in 1..M : vias[v] \in SUBSET (1..n)
  OBVIOUS
<1>2. Forest(grid) = upto[M]
  BY DEF Forest
<1> HIDE DEF M, D, n, vias
<1>3. start \in D /\ \A i \in 1..n : Find(start, i) = i
  <2> DEFINE d == [i \in 1..n |-> 0]
  <2>1. start \in [1..n -> 1..n] /\ d \in [1..n -> Nat] /\ \A i \in 1..n : start[i] = i
    OBVIOUS
  <2> HIDE DEF start, d
  <2>2. Rooted(n, start, start, d)
    BY <2>1 DEF Rooted
  <2>3. \A i \in 1..n : Find(start, i) = i
    BY <1>1, <2>1, <2>2, FindsRoot
  <2>4. QED
    BY <2>1, <2>2, <2>3 DEF Forests, D
<1>4. \A x \in D, v \in 1..M : Joins(n, x, JoinedAt(x, vias[v]), vias[v]) /\ JoinedAt(x, vias[v]) \in D
  <2>1. \A x \in D, v \in 1..M : Joins(n, x, JoinedAt(x, vias[v]), vias[v])
    BY <1>1, ViaJoins DEF D
  <2>2. QED
    BY <2>1 DEF Joins, D
<1>5. PICK g : Iterated(g, M, D, start, op)
  <2>1. op \in [1..M -> [D -> D]]
    BY <1>4
  <2> HIDE DEF op, start
  <2>2. QED
    BY <1>1, <1>3, <2>1, Iterates, Zenon
<1>6. \A v \in 1..M, x \in D : op[v][x] = JoinedAt(x, vias[v])
  OBVIOUS
<1> HIDE DEF op, start
<1>7. Is(g)
  <2>1. g = [v \in 0..M |-> g[v]] /\ g[0] = start
    BY <1>5 DEF Iterated
  <2>2. \A v \in 1..M : g[v] = op[v][g[v - 1]]
    BY <1>5 DEF Iterated
  <2>3. \A v \in 1..M : v - 1 \in 0..M /\ v # 0
    BY <1>1
  <2>4. \A v \in 1..M : g[v - 1] \in D
    BY <1>5, <2>3 DEF Iterated
  <2>5. \A v \in 1..M : g[v] = JoinedAt(g[v - 1], vias[v])
    BY <1>6, <2>2, <2>4
  <2>6. \A v \in 0..M : v = 0 \/ (v \in 1..M /\ v # 0)
    BY <1>1
  <2>7. \A v \in 0..M : g[v] = IF v = 0 THEN start ELSE JoinedAt(g[v - 1], vias[v])
    BY <2>1, <2>5, <2>6
  <2>8. [v \in 0..M |-> g[v]] = [v \in 0..M |-> IF v = 0 THEN start ELSE JoinedAt(g[v - 1], vias[v])]
    BY <2>7
  <2>9. QED
    BY <2>1, <2>8, Zenon
<1>8. Is(upto)
  <2> HIDE DEF Is
  <2>1. QED
    BY <1>7
<1> HIDE DEF upto
<1>9. upto[0] = start /\ \A v \in 1..M : upto[v] = JoinedAt(upto[v - 1], vias[v])
  BY <1>1, <1>8
<1> HIDE DEF Is
<1> DEFINE S == {v \in 0..M : Drawn(grid, v, upto[v])}
<1>10. 0 \in S
  <2>1. \A P : Closed(n, start, P)
    BY <1>3 DEF Closed
  <2>2. Drawn(grid, 0, start)
    BY <1>3, <2>1 DEF Drawn, D, n
  <2>3. QED
    BY <1>1, <1>9, <2>2
<1>11. ASSUME NEW v \in 1..M, v - 1 \in S PROVE v \in S
  <2> DEFINE p == upto[v - 1]
             q == upto[v]
  <2>1. Drawn(grid, v - 1, p)
    BY <1>11
  <2>2. p \in D
    BY <2>1 DEF Drawn, D, n
  <2>3. Joins(n, p, q, vias[v])
    BY <1>4, <1>9, <2>2
  <2>4. \A w \in 1..v : w = v \/ w \in 1..v - 1
    BY <1>1
  <2>5. \A w \in 1..v - 1 : w \in 1..v /\ w \in 1..M
    BY <1>1
  <2> HIDE DEF p, q
  <2>6. ASSUME NEW w \in 1..v, NEW x \in vias[w], NEW y \in vias[w] PROVE Find(q, x) = Find(q, y)
    <3>1. CASE w = v
      BY <2>3, <2>6, <3>1 DEF Joins
    <3>2. CASE w \in 1..v - 1
      <4>1. Find(p, x) = Find(p, y)
        BY <2>1, <2>6, <3>2 DEF Drawn, vias
      <4>2. x \in 1..n /\ y \in 1..n
        BY <1>1, <2>5, <2>6, <3>2
      <4>3. QED
        BY <2>3, <4>1, <4>2 DEF Joins
    <3>3. QED
      BY <2>4, <3>1, <3>2
  <2>7. ASSUME NEW P \in SUBSET (1..n), WholeUpTo(grid, v, P) PROVE Closed(n, q, P)
    <3>1. WholeUpTo(grid, v - 1, P)
      BY <2>5, <2>7 DEF WholeUpTo
    <3>2. Closed(n, p, P)
      BY <2>1, <2>7, <3>1 DEF Drawn, n
    <3>3. v \in 1..v
      BY <1>1
    <3>4. vias[v] \subseteq P \/ vias[v] \cap P = {}
      BY <2>7, <3>3 DEF WholeUpTo, vias
    <3>5. QED
      BY <2>3, <2>7, <3>2, <3>4 DEF Joins
  <2>8. Drawn(grid, v, q)
    BY <2>3, <2>6, <2>7 DEF Drawn, Joins, n, vias
  <2>9. QED
    BY <1>1, <2>8 DEF q
<1>12. \A v \in 1..M : v - 1 \in S => v \in S
  BY <1>11
<1>13. M \in S
  <2> HIDE DEF S
  <2>1. \A v \in 0..M : v \in S
    BY <1>1, <1>10, <1>12, UpTo
  <2>2. QED
    BY <1>1, <2>1
<1>14. QED
  BY <1>2, <1>13 DEF M, vias

\* What check_connected_power.py says is connected and apart is, in a grid of any
\* size: its union-find joins the polygons that vias connect, and no others.
THEOREM ConnectedIsSupplied ==
  ASSUME NEW grid, GridTyped(grid), PowerConnected(grid)
  PROVE  Supplied(grid)
<1> DEFINE n == grid.n
           f == Forest(grid)
           M == Len(grid.vias)
<1>1. /\ n \in Nat /\ grid.vias \in Seq(SUBSET (1..n))
      /\ \A l \in grid.labels : l.group \in Groups /\ l.on \in SUBSET (1..n) /\ \A a, b \in l.on : a = b
  BY DEF GridTyped
<1>2. Drawn(grid, M, f)
  BY <1>1, ForestDraws
<1>3. DOMAIN grid.vias = 1..M /\ M \in Nat
  BY <1>1
<1> HIDE DEF f, n, M
<1>4. \A i, j \in 1..n : Connected(grid, i, j) <=> Find(f, i) = Find(f, j)
  <2>1. ASSUME NEW i \in 1..n, NEW j \in 1..n, Find(f, i) = Find(f, j) PROVE Connected(grid, i, j)
    <3> SUFFICES ASSUME NEW P \in Whole(grid) PROVE i \in P <=> j \in P
      BY DEF Connected
    <3>1. P \in SUBSET (1..n) /\ WholeUpTo(grid, M, P)
      BY <1>3 DEF Whole, WholeUpTo, n
    <3>2. Closed(n, f, P)
      BY <1>2, <3>1 DEF Drawn, n
    <3>3. QED
      BY <2>1, <3>2 DEF Closed
  <2>2. ASSUME NEW i \in 1..n, NEW j \in 1..n, Find(f, i) # Find(f, j) PROVE ~Connected(grid, i, j)
    <3> DEFINE P == {k \in 1..n : Find(f, k) = Find(f, i)}
    <3>1. \A w \in 1..M : grid.vias[w] \subseteq P \/ grid.vias[w] \cap P = {}
      <4> SUFFICES ASSUME NEW w \in 1..M, NEW x \in grid.vias[w], x \in P
                   PROVE  grid.vias[w] \subseteq P
        OBVIOUS
      <4>1. \A y \in grid.vias[w] : Find(f, y) = Find(f, x)
        BY <1>2 DEF Drawn
      <4>2. grid.vias[w] \in SUBSET (1..n)
        BY <1>1, <1>3
      <4>3. QED
        BY <4>1, <4>2
    <3>2. P \in Whole(grid)
      BY <1>3, <3>1 DEF Whole, n
    <3>3. i \in P /\ j \notin P
      BY <2>2
    <3>4. QED
      BY <3>2, <3>3 DEF Connected
  <2>3. QED
    BY <2>1, <2>2
<1>5. ASSUME NEW l \in grid.labels, NEW a \in l.on
      PROVE  a \in 1..n /\ Find(f, a) \in Roots(grid, l.group)
  <2>1. l.on \in SUBSET (1..n) /\ l.on = {a}
    BY <1>1, <1>5
  <2>2. Min(l.on) = a
    <3>1. a \in 1..n /\ a <= a
      BY <1>1, <2>1
    <3>2. QED
      BY <2>1, <3>1 DEF Min
  <2>3. QED
    BY <2>1, <2>2 DEF Roots, f
<1>6. ASSUME NEW group \in Groups
      PROVE  \E x : Roots(grid, group) = {x}
  <2>1. Roots(grid, group) \in SUBSET (1..n)
    <3> SUFFICES ASSUME NEW x \in Roots(grid, group) PROVE x \in 1..n
      OBVIOUS
    <3>1. PICK l \in grid.labels : l.on # {} /\ x = Find(f, Min(l.on))
      BY DEF Roots, f
    <3>2. PICK a \in l.on : TRUE
      BY <3>1
    <3>3. l.on \in SUBSET (1..n) /\ l.on # {}
      BY <1>1, <3>1
    <3>4. Min(l.on) \in 1..n
      BY <1>1, <3>3, BoundsExist
    <3>5. f \in Forests(n)
      BY <1>2 DEF Drawn, n
    <3>6. QED
      BY <1>1, <3>1, <3>4, <3>5, FindIsItem
  <2>2. IsFiniteSet(1..n)
    BY <1>1, FS_Interval
  <2>3. IsFiniteSet(Roots(grid, group))
    BY <2>1, <2>2, FS_Subset
  <2>4. Cardinality(Roots(grid, group)) = 1
    BY DEF PowerConnected
  <2>5. QED
    BY <2>3, <2>4, FS_Singleton
<1>7. {label.group : label \in grid.labels} = Groups
  <2>1. ASSUME NEW group \in Groups PROVE \E l \in grid.labels : l.group = group
    <3>1. Roots(grid, group) # {}
      BY <1>6
    <3>2. QED
      BY <3>1 DEF Roots
  <2>2. QED
    BY <1>1, <2>1
<1>8. ASSUME NEW k \in grid.labels, NEW l \in grid.labels, NEW a \in k.on, NEW b \in l.on
      PROVE  Connected(grid, a, b) <=> k.group = l.group
  <2>1. a \in 1..n /\ b \in 1..n /\ Find(f, a) \in Roots(grid, k.group) /\ Find(f, b) \in Roots(grid, l.group)
    BY <1>5
  <2>2. CASE k.group = l.group
    <3>1. PICK x : Roots(grid, k.group) = {x}
      BY <1>1, <1>6
    <3>2. Find(f, a) = Find(f, b)
      BY <2>1, <2>2, <3>1
    <3>3. QED
      BY <1>4, <2>1, <2>2, <3>2
  <2>3. CASE k.group # l.group
    <3>1. Roots(grid, k.group) \cap Roots(grid, l.group) = {}
      BY <1>1, <2>3 DEF PowerConnected, Groups
    <3>2. Find(f, a) # Find(f, b)
      BY <2>1, <3>1
    <3>3. QED
      BY <1>4, <2>1, <2>3, <3>2
  <2>4. QED
    BY <2>2, <2>3
<1>9. \A label \in grid.labels : label.on # {}
  BY DEF PowerConnected
<1>10. QED
  BY <1>7, <1>8, <1>9 DEF Supplied
-----------------------------------------------------------------------------
(* The flow                                                                *)

\* A view is a record of two ordinals.
ViewOK(x) == DOMAIN x = {"layout", "nets"} /\ x.nets \in Nat

\* The views with a layout or a netlist.
Showing == View \ {"JSON_HEADER"}

\* What the flow leaves to the core flow: placements with the nets of a step.
FlowInv ==
  /\ design \in Designs /\ profile \in Profiles
  /\ ordinal \in Nat \ {0} /\ stage \in Nat \ {0}
  /\ \A v \in Showing : ViewOK(views[v]) /\ (views[v] # NoView => views[v].nets # 0)
  /\ \A o \in DOMAIN placed : ViewOK(placed[o]) /\ placed[o].nets # 0

LEMMA NoViewOK == ViewOK(NoView) /\ NoView.nets = 0
  BY DEF ViewOK, NoView

LEMMA NoViewsOK == \A v \in View : NoViews[v] = NoView
  BY DEF NoViews

\* A run starts from what there is, or from nothing.
LEMMA RunStarts ==
  ASSUME FlowInv, NEW p \in Profiles, NEW d \in Designs, Begin(p, d) \/ BeginAfresh(p, d)
  PROVE  FlowInv'
<1>1. /\ design' = d /\ profile' = p /\ stage' = 1
      /\ \/ ordinal' = ordinal /\ views' = views /\ placed' = placed
         \/ ordinal' = 1 /\ views' = NoViews /\ placed' = NoFiles
  BY DEF Begin, BeginAfresh, Enter
<1>2. ordinal' \in Nat \ {0} /\ stage' \in Nat \ {0} /\ design' \in Designs /\ profile' \in Profiles
  BY <1>1 DEF FlowInv
<1>3. CASE views' = views /\ placed' = placed
  BY <1>2, <1>3 DEF FlowInv
<1>4. CASE views' = NoViews /\ placed' = NoFiles
  <2>1. DOMAIN NoFiles = {}
    BY DEF NoFiles
  <2>2. \A v \in View : views'[v] = NoView
    BY <1>4, NoViewsOK
  <2>3. QED
    BY <1>2, <1>4, <2>1, <2>2, NoViewOK DEF FlowInv, Showing
<1>5. QED
  BY <1>1, <1>3, <1>4

\* A view that a step writes has nets.
LEMMA WrittenHasNets ==
  ASSUME FlowInv, Work, NEW v \in Showing
  PROVE  /\ ViewOK(views'[v]) /\ (views'[v] # NoView => views'[v].nets # 0)
         /\ v \in Current.out => views'[v].nets # 0
<1>1. /\ AtStep /\ ~Missing
      /\ views' = [w \in View |-> IF w \in Current.out
                                  THEN [Content EXCEPT !.layout = IF @ = 0 THEN ordinal ELSE @]
                                  ELSE views[w]]
  BY DEF Work, Started
<1>2. CASE v \notin Current.out
  BY <1>1, <1>2 DEF FlowInv, Showing
<1>3. CASE v \in Current.out
  <2> DEFINE written == [Content EXCEPT !.layout = IF @ = 0 THEN ordinal ELSE @]
             read == IF Current.main = None THEN NoView ELSE views[Current.main]
  <2>1. views'[v] = written
    BY <1>1, <1>3 DEF Showing
  <2>2. DOMAIN Content = {"layout", "nets"}
    BY DEF Content
  <2>3. DOMAIN written = {"layout", "nets"} /\ written.nets = Content.nets
    BY <2>2
  <2>4. Content.nets = IF "nets" \in Edited THEN ordinal ELSE read.nets
    BY DEF Content
  <2>5. stage \in 1..Len(Program[profile]) /\ Shaped(Current)
    BY <1>1, StepsAssumption DEF AtStep, Current, FlowInv
  <2> HIDE DEF written
  <2>6. CASE Current.main \in (Current.in \cap View) \ {"JSON_HEADER"}
    <3>1. views[Current.main] # NoView
      BY <1>1, <2>6 DEF Missing
    <3>2. views[Current.main].nets \in Nat \ {0}
      BY <2>6, <3>1 DEF FlowInv, ViewOK, Showing
    <3>3. Current.main # None
      BY <2>6 DEF None, View
    <3>4. Content.nets \in Nat \ {0}
      BY <2>4, <3>2, <3>3 DEF FlowInv
    <3>5. QED
      BY <2>1, <2>3, <3>4 DEF ViewOK
  <2>7. CASE Current.edits = "nets"
    <3>1. Content.nets = ordinal
      BY <2>4, <2>7 DEF Edited, Changes
    <3>2. QED
      BY <2>1, <2>3, <3>1 DEF ViewOK, FlowInv
  <2>8. ~(Current.out \subseteq {"JSON_HEADER"})
    BY <1>3 DEF Showing
  <2>9. QED
    BY <2>5, <2>6, <2>7, <2>8 DEF Shaped
<1>4. QED
  BY <1>2, <1>3

\* No step of a run spoils what the core flow builds on.
LEMMA LoopKeeps ==
  ASSUME FlowInv, Loop
  PROVE  FlowInv' /\ base' = base
<1>1. design' = design /\ profile' = profile /\ base' = base
  BY DEF Loop, Gated, MissingInput, DoNothing, Work, DiesUnnoticed, Clear, Defer, ErrAtOnce, ToolFails,
         Finish, GoOn, EndAtStep, kept
<1>2. (stage' = stage \/ stage' = stage + 1) /\ (ordinal' = ordinal \/ ordinal' = ordinal + 1)
  BY DEF Loop, Gated, MissingInput, DoNothing, Work, DiesUnnoticed, Clear, Defer, ErrAtOnce, ToolFails,
         Finish, GoOn, EndAtStep
<1>3. design' \in Designs /\ profile' \in Profiles /\ ordinal' \in Nat \ {0} /\ stage' \in Nat \ {0}
  BY <1>1, <1>2 DEF FlowInv
<1>4. CASE views' = views /\ placed' = placed
  BY <1>1, <1>3, <1>4 DEF FlowInv
<1>5. CASE Work
  <2>1. \A v \in Showing : ViewOK(views'[v]) /\ (views'[v] # NoView => views'[v].nets # 0)
    BY <1>5, WrittenHasNets
  <2>2. CASE Current.id = "OpenROAD.DetailedPlacement"
    <3>1. placed' = [o \in DOMAIN placed \cup {ordinal} |-> IF o = ordinal THEN views'["DEF"] ELSE placed[o]]
      BY <1>5, <2>2 DEF Work
    <3>2. stage \in 1..Len(Program[profile]) /\ Shaped(Current)
      BY <1>5, StepsAssumption DEF Work, Started, AtStep, Current, FlowInv
    <3>3. "DEF" \in Showing /\ "DEF" \in Current.out
      BY <2>2, <3>2 DEF Shaped, Showing, View
    <3>4. ViewOK(views'["DEF"]) /\ views'["DEF"].nets # 0
      BY <1>5, <3>3, WrittenHasNets
    <3>5. \A o \in DOMAIN placed' : ViewOK(placed'[o]) /\ placed'[o].nets # 0
      BY <3>1, <3>4 DEF FlowInv
    <3>6. QED
      BY <1>1, <1>3, <2>1, <3>5 DEF FlowInv
  <2>3. CASE Current.id # "OpenROAD.DetailedPlacement"
    <3>1. placed' = placed
      BY <1>5, <2>3 DEF Work
    <3>2. \A o \in DOMAIN placed' : ViewOK(placed'[o]) /\ placed'[o].nets # 0
      BY <3>1 DEF FlowInv
    <3>3. QED
      BY <1>1, <1>3, <2>1, <3>2 DEF FlowInv
  <2>4. QED
    BY <2>2, <2>3
<1>6. Work \/ (views' = views /\ placed' = placed)
  BY DEF Loop, Gated, MissingInput, DoNothing, DiesUnnoticed, Clear, Defer, ErrAtOnce, ToolFails, Finish,
         EndAtStep
<1>7. QED
  BY <1>1, <1>4, <1>5, <1>6
-----------------------------------------------------------------------------
(* The scripts                                                             *)

\* Where a command may be once a check has accepted.
PastOfficial == {"signed", "package"}
PastLvs == PastOfficial \cup {"official"}
PastExtract == PastLvs \cup {"lvs"}
PastPower == PastExtract \cup {"extract"}
PastDrc == PastPower \cup {"power"}
PastStream == PastDrc \cup {"drc"}
PastRoute == PastStream \cup {"stream"}
Past(phases) == phase \in phases \/ verdict = "pass"

\* A command is somewhere, and its verdict is of its end.
Scripts ==
  /\ phase \in PastRoute \cup {"none", "librelane", "inputs", "route"}
  /\ phase = "none" <=> script = "none"
  /\ phase # "none" => verdict # "pass"
  /\ phase = "package" => script = "tests"
  /\ phase = "route" => PlacementDir \in DOMAIN placed
  /\ script = "tests" => base = 1 /\ tries = IF phase \in PastRoute THEN 1 ELSE 0

\* A file is of a try, and a report that a check is still to read of an earlier one.
Files ==
  /\ tries \in Nat /\ DOMAIN out = Product
  /\ \A f \in Product : out[f] = NoFile \/ out[f].try \in 1..tries
  /\ phase \in {"stream", "drc"} => out["drc"] = NoFile \/ out["drc"].try < tries
  /\ phase \in {"stream", "drc", "power", "extract"} =>
       out["extracted"] = NoFile \/ out["extracted"].try < tries
  /\ phase \in {"stream", "drc", "power", "extract", "lvs", "official"} =>
       out["ip62"] = NoFile \/ out["ip62"].try < tries

\* The core has not this flaw, or a tool has left no report where one was.
Clean(flaw) == flaw \notin core.flaws \/ (tries > 1 /\ hollow # {})

Of(flaws) == [of |-> placed[PlacementDir], try |-> tries, flaws |-> flaws]

\* What each check that has accepted says of the core at hand.
Checked ==
  /\ Past(PastRoute) =>
       /\ tries # 0 /\ PlacementDir \in DOMAIN placed /\ core \in Cores(design) /\ "route" \notin core.flaws
       /\ out["def"] = Of(core.flaws) /\ out["lef"] = Of(core.flaws)
  /\ Past(PastStream) => out["gds"] = Of(core.flaws)
  /\ Past(PastDrc) => Clean("drc")
  /\ Past(PastPower) => Supplied(core.grid)
  /\ Past(PastExtract) => Clean("supply")
  /\ Past(PastLvs) =>
       /\ "lvs" \notin core.flaws
       /\ out["gds"].of.nets = final["PNL"].nets \/ out["gds"].of.nets < base
       /\ out["cir"].try = tries /\ out["cir"].of.layout = placed[PlacementDir].layout
  /\ Past(PastOfficial) /\ official => Clean("ip62")

CoreInv == Scripts /\ Files /\ Checked /\ BundleIsSigned

\* A command that ends without a verdict has nothing to answer for.
LEMMA EndsQuietly ==
  ASSUME CoreInv, phase' \in {"none", "librelane", "inputs", "route"}, verdict' # "pass",
         phase' = "none" <=> script' = "none", phase' = "route" => PlacementDir \in DOMAIN placed',
         script' = "tests" => base' = 1 /\ tries' = 0,
         tries' \in Nat, DOMAIN out' = Product,
         \A f \in Product : out'[f] = NoFile \/ out'[f].try \in 1..tries',
         BundleIsSigned'
  PROVE  CoreInv'
<1>1. Scripts'
  BY DEF Scripts, PastRoute, PastStream, PastDrc, PastPower, PastExtract, PastLvs, PastOfficial
<1>2. Files'
  BY DEF Files
<1>3. ~Past(PastRoute)' /\ ~Past(PastStream)' /\ ~Past(PastDrc)' /\ ~Past(PastPower)' /\ ~Past(PastExtract)'
      /\ ~Past(PastLvs)' /\ ~Past(PastOfficial)'
  BY DEF Past, PastRoute, PastStream, PastDrc, PastPower, PastExtract, PastLvs, PastOfficial
<1>4. Checked'
  BY <1>3 DEF Checked
<1>5. QED
  BY <1>1, <1>2, <1>4 DEF CoreInv

\* A failure leaves files of the tries there have been.
LEMMA FailureEnds ==
  ASSUME CoreInv, Fails, tries' \in Nat, DOMAIN out' = Product, BundleIsSigned',
         \A f \in Product : out'[f] = NoFile \/ out'[f].try \in 1..tries'
  PROVE  CoreInv'
<1>1. phase' = "none" /\ script' = "none" /\ verdict' = "fail"
  BY DEF Fails
<1>2. QED
  BY <1>1, EndsQuietly

\* The bundle stays as it is.
LEMMA BundleStays == ASSUME CoreInv, UNCHANGED bundle PROVE BundleIsSigned'
  BY DEF CoreInv, BundleIsSigned

\* The file a tool may write is of this try or is the one that was there.
LEMMA LeavesFile ==
  ASSUME Files, tries # 0, NEW f \in Product, NEW flaws, UNCHANGED <<vars, tries>>, Leaves(f, flaws)
  PROVE  /\ DOMAIN out' = Product
         /\ \A g \in Product : out'[g] = NoFile \/ out'[g].try \in 1..tries'
         /\ \A g \in Product \ {f} : out'[g] = out[g]
         /\ hollow # {} => hollow' # {}
         /\ \/ out'[f].flaws = flaws
            \/ out'[f] = out[f] /\ hollow' # {}
<1>1. placed' = placed /\ tries' = tries /\ tries \in Nat
  BY DEF vars, Files
<1>2. CASE out' = [out EXCEPT ![f] = Made(flaws)] /\ UNCHANGED hollow
  <2>1. Made(flaws).try = tries /\ Made(flaws).flaws = flaws
    BY <1>1 DEF Made
  <2>2. QED
    BY <1>1, <1>2, <2>1 DEF Files
<1>3. CASE out' = out /\ hollow' = hollow \cup {f}
  BY <1>1, <1>3 DEF Files
<1>4. QED
  BY <1>2, <1>3 DEF Leaves

\* A command starts from the files of the last ones.
LEMMA CommandStarts ==
  ASSUME FlowInv, CoreInv, StartFlow \/ StartDirect \/ StartTests \/ StartCore
  PROVE  FlowInv' /\ CoreInv'
<1>1. Files /\ Scripts
  BY DEF CoreInv
<1>2. ASSUME NEW name \in {"flow", "direct"}, NEW p \in Profiles, NEW d \in Designs, Librelane(name, p, d)
      PROVE  FlowInv' /\ CoreInv'
  <2>1. /\ Begin(p, d) /\ script' = name /\ phase' = "librelane" /\ verdict' = "none"
        /\ UNCHANGED <<tries, out, bundle>>
    BY <1>2 DEF Librelane, Command
  <2>2. FlowInv'
    BY <2>1, RunStarts
  <2>3. BundleIsSigned'
    BY <2>1, BundleStays
  <2>4. CoreInv'
    BY <1>1, <2>1, <2>3, EndsQuietly DEF Files
  <2>5. QED
    BY <2>2, <2>4
<1>3. CASE StartFlow
  BY <1>2, <1>3 DEF StartFlow
<1>4. CASE StartDirect
  <2>1. PICK d \in Designs : Librelane("direct", Access, d)
    BY <1>4 DEF StartDirect
  <2>2. Access \in Profiles
    BY <2>1, AccessAssumption
  <2>3. QED
    BY <1>2, <2>1, <2>2
<1>5. CASE StartTests
  <2>1. PICK d \in Designs : BeginAfresh(Access, d)
    BY <1>5 DEF StartTests
  <2>2. /\ script' = "tests" /\ phase' = "librelane" /\ verdict' = "none"
        /\ tries' = 0 /\ out' = NoFilesYet /\ bundle' = NoBundle
    BY <1>5 DEF StartTests, Command
  <2>3. base' = 1 /\ FlowInv'
    BY <2>1, RunStarts, AccessAssumption DEF BeginAfresh, Enter
  <2>4. BundleIsSigned'
    BY <2>2 DEF BundleIsSigned, NoBundle
  <2>5. DOMAIN out' = Product /\ \A f \in Product : out'[f] = NoFile
    BY <2>2 DEF NoFilesYet
  <2>6. CoreInv'
    BY <2>2, <2>3, <2>4, <2>5, EndsQuietly
  <2>7. QED
    BY <2>3, <2>6
<1>6. CASE StartCore
  <2>1. /\ script' = "core" /\ phase' = "inputs" /\ verdict' = "none"
        /\ UNCHANGED <<vars, tries, out, bundle>>
    BY <1>6 DEF StartCore, Command
  <2>2. FlowInv'
    BY <2>1 DEF FlowInv, vars
  <2>3. BundleIsSigned'
    BY <2>1, BundleStays
  <2>4. CoreInv'
    BY <1>1, <2>1, <2>3, EndsQuietly DEF Files
  <2>5. QED
    BY <2>2, <2>4
<1>7. QED
  BY <1>3, <1>4, <1>5, <1>6

\* The flow and the look for its files make nothing of the core flow's.
LEMMA BeforeTheCore ==
  ASSUME FlowInv, CoreInv, InLibrelane \/ LibrelaneEnds \/ CheckInputs \/ Breaks
  PROVE  FlowInv' /\ CoreInv'
<1>1. Files /\ Scripts
  BY DEF CoreInv
<1>2. CASE InLibrelane
  <2>1. /\ phase = "librelane" /\ Loop
        /\ UNCHANGED <<script, phase, tries, out, verdict, bundle>>
    BY <1>2 DEF InLibrelane, coreVars
  <2>2. FlowInv' /\ base' = base
    BY <2>1, LoopKeeps
  <2>3. BundleIsSigned'
    BY <2>1, BundleStays
  <2>4. script' = "tests" => base' = 1 /\ tries' = 0
    BY <1>1, <2>1, <2>2 DEF Scripts, PastRoute, PastStream, PastDrc, PastPower, PastExtract, PastLvs, PastOfficial
  <2>5. verdict' # "pass" /\ (phase' = "none" <=> script' = "none")
    BY <1>1, <2>1 DEF Scripts
  <2>6. CoreInv'
    BY <1>1, <2>1, <2>3, <2>4, <2>5, EndsQuietly DEF Files
  <2>7. QED
    BY <2>2, <2>6
<1>3. ASSUME UNCHANGED <<vars, tries, out, bundle>>, Fails PROVE FlowInv' /\ CoreInv'
  <2>1. FlowInv'
    BY <1>3 DEF FlowInv, vars
  <2>2. BundleIsSigned'
    BY <1>3, BundleStays
  <2>3. CoreInv'
    BY <1>1, <1>3, <2>2, FailureEnds DEF Files
  <2>4. QED
    BY <2>1, <2>3
<1>4. ASSUME UNCHANGED <<vars, tries, out, bundle>>, phase \in {"librelane", "inputs"},
             phase' = "inputs" \/ (phase' = "route" /\ InputsPresent), UNCHANGED <<script, verdict>>
      PROVE  FlowInv' /\ CoreInv'
  <2>1. FlowInv'
    BY <1>4 DEF FlowInv, vars
  <2>2. BundleIsSigned'
    BY <1>4, BundleStays
  <2>3. script' = "tests" => base' = 1 /\ tries' = 0
    BY <1>1, <1>4 DEF Scripts, vars, PastRoute, PastStream, PastDrc, PastPower, PastExtract, PastLvs, PastOfficial
  <2>4. verdict' # "pass" /\ (phase' = "none" <=> script' = "none")
    BY <1>1, <1>4 DEF Scripts
  <2>5. phase' = "route" => PlacementDir \in DOMAIN placed'
    BY <1>4 DEF InputsPresent, vars
  <2>6. CoreInv'
    BY <1>1, <1>4, <2>2, <2>3, <2>4, <2>5, EndsQuietly DEF Files
  <2>7. QED
    BY <2>1, <2>6
<1>5. CASE LibrelaneEnds
  <2>1. phase = "librelane" /\ UNCHANGED <<vars, tries, out, bundle>>
    BY <1>5 DEF LibrelaneEnds, At
  <2>2. CASE result # "success"
    BY <1>3, <1>5, <2>1, <2>2 DEF LibrelaneEnds
  <2>3. CASE result = "success" /\ script = "flow"
    <3>1. script' = "none" /\ phase' = "none" /\ verdict' = "none"
      BY <1>5, <2>3 DEF LibrelaneEnds
    <3>2. FlowInv'
      BY <2>1 DEF FlowInv, vars
    <3>3. BundleIsSigned'
      BY <2>1, BundleStays
    <3>4. CoreInv'
      BY <1>1, <2>1, <3>1, <3>3, EndsQuietly DEF Files
    <3>5. QED
      BY <3>2, <3>4
  <2>4. CASE result = "success" /\ script # "flow"
    <3>1. GoTo("inputs")
      BY <1>5, <2>4 DEF LibrelaneEnds
    <3>2. QED
      BY <1>4, <2>1, <3>1 DEF GoTo
  <2>5. QED
    BY <2>2, <2>3, <2>4
<1>6. CASE CheckInputs
  <2>1. phase = "inputs" /\ UNCHANGED <<vars, tries, out, bundle>> /\ (Fails \/ (InputsPresent /\ GoTo("route")))
    BY <1>6 DEF CheckInputs, At
  <2>2. QED
    BY <1>3, <1>4, <2>1 DEF GoTo
<1>7. CASE Breaks
  BY <1>3, <1>7 DEF Breaks
<1>8. QED
  BY <1>2, <1>5, <1>6, <1>7

\* Routing makes the core that the checks are about.
LEMMA CoreIsRouted ==
  ASSUME FlowInv, CoreInv, Route
  PROVE  CoreInv'
<1>1. Files /\ Scripts
  BY DEF CoreInv
<1>2. /\ phase = "route" /\ tries' = tries + 1 /\ core' \in Cores(design)
      /\ out' = [out EXCEPT !["def"] = Made(core'.flaws), !["lef"] = Made(core'.flaws)]
      /\ UNCHANGED <<vars, official, hollow, bundle>>
      /\ ("route" \in core'.flaws /\ Fails) \/ ("route" \notin core'.flaws /\ GoTo("stream"))
  BY DEF Route, At
<1>3. placed' = placed /\ base' = base /\ design' = design /\ tries \in Nat
  BY <1>1, <1>2 DEF vars, Files
<1>4. /\ DOMAIN out' = Product /\ out'["def"] = Of(core.flaws)' /\ out'["lef"] = Of(core.flaws)'
      /\ \A f \in Product \ {"def", "lef"} : out'[f] = out[f]
  BY <1>1, <1>2, <1>3 DEF Files, Product, Made, Of
<1>5. Of(core.flaws)'.try = tries + 1
  BY <1>2 DEF Of
<1>6. \A f \in Product : out'[f] = NoFile \/ out'[f].try \in 1..tries'
  BY <1>1, <1>2, <1>3, <1>4, <1>5 DEF Files
<1>7. BundleIsSigned'
  BY <1>2, BundleStays
<1>8. CASE Fails
  BY <1>2, <1>3, <1>4, <1>6, <1>7, <1>8, FailureEnds
<1>9. CASE GoTo("stream") /\ "route" \notin core'.flaws
  <2>1. phase' = "stream" /\ script' = script /\ verdict' = verdict
    BY <1>9 DEF GoTo
  <2>2. verdict # "pass" /\ script # "none" /\ (script = "tests" => base = 1 /\ tries = 0)
    BY <1>1, <1>2 DEF Scripts, PastRoute, PastStream, PastDrc, PastPower, PastExtract, PastLvs, PastOfficial
  <2>3. Scripts'
    BY <1>2, <1>3, <2>1, <2>2 DEF Scripts, PastRoute
  <2>4. \A f \in {"drc", "extracted", "ip62"} : out'[f] = NoFile \/ out'[f].try < tries'
    BY <1>1, <1>2, <1>3, <1>4 DEF Files, Product
  <2>5. Files'
    BY <1>2, <1>3, <1>4, <1>6, <2>4 DEF Files
  <2>6. PlacementDir \in DOMAIN placed'
    BY <1>1, <1>2, <1>3 DEF Scripts
  <2>7. Checked'
    BY <1>2, <1>3, <1>4, <1>9, <2>1, <2>2, <2>6
    DEF Checked, Past, PastStream, PastDrc, PastPower, PastExtract, PastLvs, PastOfficial
  <2>8. QED
    BY <1>7, <2>3, <2>5, <2>7 DEF CoreInv
<1>10. QED
  BY <1>2, <1>8, <1>9

\* What the checks have said stays said while the core and its files do.
LEMMA StaysSaid ==
  ASSUME CoreInv, phase \in PastRoute, phase' \in PastRoute,
         UNCHANGED <<vars, script, tries, official, core, verdict, bundle>>,
         phase' = "package" => script = "tests"
  PROVE  /\ Scripts' /\ BundleIsSigned' /\ verdict # "pass" /\ \A flaws : Of(flaws)' = Of(flaws)
         /\ Files' /\ Checked' => CoreInv'
<1>1. base' = base /\ placed' = placed
  BY DEF vars
<1>2. verdict # "pass" /\ script # "none"
  BY DEF CoreInv, Scripts, PastRoute, PastStream, PastDrc, PastPower, PastExtract, PastLvs, PastOfficial
<1>3. script = "tests" => base = 1 /\ tries = 1
  BY DEF CoreInv, Scripts
<1>4. "none" \notin PastRoute /\ "route" \notin PastRoute
  BY DEF PastRoute, PastStream, PastDrc, PastPower, PastExtract, PastLvs, PastOfficial
<1>5. Scripts'
  BY <1>1, <1>2, <1>3, <1>4 DEF Scripts
<1>6. BundleIsSigned'
  BY BundleStays
<1>7. \A flaws : Of(flaws)' = Of(flaws)
  BY <1>1 DEF Of
<1>8. QED
  BY <1>2, <1>5, <1>6, <1>7 DEF CoreInv

\* The streamed layout is that of the core, with the flaws it has.
LEMMA CoreIsStreamed ==
  ASSUME FlowInv, CoreInv, Stream
  PROVE  CoreInv'
<1>1. Files /\ Scripts /\ Checked
  BY DEF CoreInv
<1>2. /\ phase = "stream" /\ phase' = "drc"
      /\ out' = [out EXCEPT !["gds"] = [out["def"] EXCEPT !.flaws = core.flaws]]
      /\ UNCHANGED <<vars, script, tries, official, core, hollow, verdict, bundle>>
  BY DEF Stream, At, GoTo
<1>3. phase \in PastRoute /\ phase' \in PastRoute /\ phase' # "package"
  BY <1>2 DEF PastRoute, PastStream
<1>4. /\ Scripts' /\ BundleIsSigned' /\ verdict # "pass" /\ \A flaws : Of(flaws)' = Of(flaws)
      /\ Files' /\ Checked' => CoreInv'
  BY <1>2, <1>3, StaysSaid
<1>5. /\ tries # 0 /\ PlacementDir \in DOMAIN placed /\ core \in Cores(design) /\ "route" \notin core.flaws
      /\ out["def"] = Of(core.flaws) /\ out["lef"] = Of(core.flaws)
  BY <1>1, <1>3 DEF Checked, Past
<1>6. [out["def"] EXCEPT !.flaws = core.flaws] = Of(core.flaws)
  BY <1>5 DEF Of
<1>7. /\ DOMAIN out' = Product /\ out'["gds"] = Of(core.flaws)
      /\ \A f \in Product \ {"gds"} : out'[f] = out[f]
  BY <1>1, <1>2, <1>6 DEF Files, Product
<1>8. Of(core.flaws).try = tries /\ tries \in 1..tries
  BY <1>1, <1>5 DEF Of, Files
<1>9. Files'
  BY <1>1, <1>2, <1>7, <1>8 DEF Files, Product
<1>10. placed' = placed /\ design' = design
  BY <1>2 DEF vars
<1>11. Checked'
  BY <1>2, <1>4, <1>5, <1>7, <1>10 DEF Checked, Past, Product, PastDrc, PastPower, PastExtract, PastLvs, PastOfficial
<1>12. QED
  BY <1>4, <1>9, <1>11

\* A report that is accepted clears the core of its flaw, unless it was there.
LEMMA ReportClears ==
  ASSUME FlowInv, CoreInv, NEW f \in Product \ {"def", "lef", "gds", "cir"}, NEW flaw,
         phase \in PastStream, UNCHANGED <<vars, tries, core>>,
         out[f] = NoFile \/ out[f].try < tries,
         Leaves(f, out["gds"].flaws \cap {flaw}), out'[f] # NoFile, out'[f].flaws = {}
  PROVE  Clean(flaw)'
<1>1. Files /\ Checked
  BY DEF CoreInv
<1>2. tries # 0 /\ out["gds"].flaws = core.flaws
  BY <1>1 DEF Checked, Past, PastRoute, Of
<1>3. CASE out'[f].flaws = out["gds"].flaws \cap {flaw}
  BY <1>2, <1>3 DEF Clean
<1>4. CASE out'[f] = out[f] /\ hollow' # {}
  <2>1. out[f].try \in 1..tries /\ out[f].try < tries /\ tries \in Nat
    BY <1>1, <1>4 DEF Files
  <2>2. tries > 1
    BY <2>1
  <2>3. QED
    BY <1>4, <2>2 DEF Clean
<1>5. QED
  BY <1>1, <1>2, <1>3, <1>4, LeavesFile

\* The flaws a core has been cleared of, it stays cleared of.
LEMMA StaysClean ==
  ASSUME NEW flaw, Clean(flaw), UNCHANGED <<tries, core>>, hollow # {} => hollow' # {}
  PROVE  Clean(flaw)'
  BY DEF Clean

\* A check with a report is a step on.
LEMMA ReportKeeps ==
  ASSUME FlowInv, CoreInv, Drc \/ Extract \/ Official
  PROVE  CoreInv'
<1>1. Files /\ Scripts /\ Checked
  BY DEF CoreInv
<1>2. PICK f \in {"drc", "extracted", "ip62"}, flaw \in {"drc", "supply", "ip62"}, next \in PastDrc :
        /\ \/ f = "drc" /\ flaw = "drc" /\ phase = "drc" /\ next = "power"
           \/ f = "extracted" /\ flaw = "supply" /\ phase = "extract" /\ next = "lvs"
           \/ f = "ip62" /\ flaw = "ip62" /\ phase = "official" /\ next = "signed"
        /\ UNCHANGED <<vars, tries, official, core, bundle>>
        /\ Leaves(f, out["gds"].flaws \cap {flaw})
        /\ Judge(out'[f] # NoFile /\ out'[f].flaws = {}, next)
  <2>1. "power" \in PastDrc /\ "lvs" \in PastDrc /\ "signed" \in PastDrc
    BY DEF PastDrc, PastPower, PastExtract, PastLvs, PastOfficial
  <2>2. CASE Drc
    BY <2>1, <2>2 DEF Drc, At
  <2>3. CASE Extract
    BY <2>1, <2>3 DEF Extract, At
  <2>4. CASE Official
    BY <2>1, <2>4 DEF Official, At
  <2>5. QED
    BY <2>2, <2>3, <2>4
<1>3. phase \in PastStream /\ phase \in PastRoute /\ f \in Product \ {"def", "lef", "gds", "cir"}
  BY <1>2 DEF PastRoute, PastStream, PastDrc, PastPower, PastExtract, PastLvs, PastOfficial, Product
<1>4. /\ tries # 0 /\ PlacementDir \in DOMAIN placed /\ core \in Cores(design) /\ "route" \notin core.flaws
      /\ out["def"] = Of(core.flaws) /\ out["lef"] = Of(core.flaws) /\ out["gds"] = Of(core.flaws)
  BY <1>1, <1>3 DEF Checked, Past
<1>5. /\ DOMAIN out' = Product /\ \A g \in Product : out'[g] = NoFile \/ out'[g].try \in 1..tries'
      /\ \A g \in Product \ {f} : out'[g] = out[g]
      /\ hollow # {} => hollow' # {}
  BY <1>1, <1>2, <1>3, <1>4, LeavesFile
<1>6. BundleIsSigned'
  BY <1>2, BundleStays
<1>7. CASE Fails
  BY <1>1, <1>2, <1>5, <1>6, <1>7, FailureEnds DEF Files
<1>8. CASE ~Fails
  <2>1. out'[f] # NoFile /\ out'[f].flaws = {} /\ phase' = next /\ UNCHANGED <<script, verdict>>
    BY <1>2, <1>8 DEF Judge, GoTo
  <2>2. phase' \in PastRoute /\ phase' # "package"
    BY <1>2, <2>1 DEF PastRoute, PastStream
  <2>3. /\ Scripts' /\ verdict # "pass" /\ \A flaws : Of(flaws)' = Of(flaws)
        /\ Files' /\ Checked' => CoreInv'
    BY <1>2, <1>3, <2>1, <2>2, StaysSaid
  <2>4. out[f] = NoFile \/ out[f].try < tries
    BY <1>1, <1>2 DEF Files
  <2>5. Clean(flaw)'
    BY <1>2, <1>3, <2>1, <2>4, ReportClears
  <2>6. \A other : Clean(other) => Clean(other)'
    BY <1>2, <1>5, StaysClean
  <2>7. Files'
    BY <1>1, <1>2, <1>5, <2>1 DEF Files, Product
  <2>8. placed' = placed /\ design' = design /\ final' = final /\ base' = base
    BY <1>2 DEF vars
  <2>9. /\ out'["def"] = out["def"] /\ out'["lef"] = out["lef"] /\ out'["gds"] = out["gds"]
        /\ out'["cir"] = out["cir"]
    BY <1>2, <1>5 DEF Product
  <2>10. Checked'
    <3>1. CASE f = "drc"
      BY <1>2, <1>4, <2>1, <2>3, <2>5, <2>8, <2>9, <3>1
      DEF Checked, Past, PastPower, PastExtract, PastLvs, PastOfficial
    <3>2. CASE f = "extracted"
      <4>1. Clean("drc")' /\ Supplied(core.grid)'
        BY <1>1, <1>2, <2>6, <3>2 DEF Checked, Past, PastDrc, PastPower
      <4>2. QED
        BY <1>2, <1>4, <2>1, <2>3, <2>5, <2>8, <2>9, <3>2, <4>1 DEF Checked, Past, PastLvs, PastOfficial
    <3>3. CASE f = "ip62"
      <4>1. /\ Clean("drc")' /\ Supplied(core.grid)' /\ Clean("supply")'
            /\ "lvs" \notin core.flaws
            /\ out["gds"].of.nets = final["PNL"].nets \/ out["gds"].of.nets < base
            /\ out["cir"].try = tries /\ out["cir"].of.layout = placed[PlacementDir].layout
        BY <1>1, <1>2, <2>6, <3>3 DEF Checked, Past, PastDrc, PastPower, PastExtract, PastLvs
      <4>2. QED
        BY <1>2, <1>4, <2>1, <2>3, <2>5, <2>8, <2>9, <3>3, <4>1 DEF Checked, Past
    <3>4. QED
      BY <1>2, <3>1, <3>2, <3>3
  <2>11. QED
    BY <2>3, <2>7, <2>10
<1>9. QED
  BY <1>7, <1>8

\* The power check is a step on of a core whose supplies are whole.
LEMMA PowerKeeps ==
  ASSUME FlowInv, CoreInv, Power
  PROVE  CoreInv'
<1>1. Files /\ Scripts /\ Checked
  BY DEF CoreInv
<1>2. /\ phase = "power"
      /\ Judge(PowerConnected(core.grid), "extract")
      /\ UNCHANGED <<vars, tries, official, core, out, hollow, bundle>>
  BY DEF Power, At
<1>3. phase \in PastDrc /\ phase \in PastStream /\ phase \in PastRoute
  BY <1>2 DEF PastRoute, PastStream, PastDrc
<1>4. CASE Fails
  <2>1. BundleIsSigned'
    BY <1>2, BundleStays
  <2>2. QED
    BY <1>1, <1>2, <1>4, <2>1, FailureEnds DEF Files
<1>5. CASE ~Fails
  <2>1. PowerConnected(core.grid) /\ phase' = "extract" /\ UNCHANGED <<script, verdict>>
    BY <1>2, <1>5 DEF Judge, GoTo
  <2>2. phase' \in PastRoute /\ phase' # "package"
    BY <2>1 DEF PastRoute, PastStream, PastDrc, PastPower
  <2>3. /\ Scripts' /\ verdict # "pass" /\ \A flaws : Of(flaws)' = Of(flaws)
        /\ Files' /\ Checked' => CoreInv'
    BY <1>2, <1>3, <2>1, <2>2, StaysSaid
  <2>4. /\ tries # 0 /\ PlacementDir \in DOMAIN placed /\ core \in Cores(design) /\ "route" \notin core.flaws
        /\ out["def"] = Of(core.flaws) /\ out["lef"] = Of(core.flaws) /\ out["gds"] = Of(core.flaws)
        /\ Clean("drc")
    BY <1>1, <1>3 DEF Checked, Past
  <2>5. Supplied(core.grid)
    BY <2>1, <2>4, CoresAssumption, ConnectedIsSupplied DEF FlowInv
  <2>6. Files'
    BY <1>1, <1>2, <2>1 DEF Files
  <2>7. placed' = placed /\ design' = design
    BY <1>2 DEF vars
  <2>8. Clean("drc")'
    BY <1>2, <2>4 DEF Clean
  <2>9. Checked'
    BY <1>2, <2>1, <2>3, <2>4, <2>5, <2>7, <2>8 DEF Checked, Past, PastExtract, PastLvs, PastOfficial
  <2>10. QED
    BY <2>3, <2>6, <2>9
<1>6. QED
  BY <1>4, <1>5

\* LVS is a step on with the contract of this try.
LEMMA LvsKeeps ==
  ASSUME FlowInv, CoreInv, Lvs
  PROVE  CoreInv'
<1>1. Files /\ Scripts /\ Checked
  BY DEF CoreInv
<1>2. PICK equal \in BOOLEAN :
        /\ phase = "lvs"
        /\ out' = [out EXCEPT !["cir"] = [Made({}) EXCEPT !.of.nets = final["PNL"].nets]]
        /\ UNCHANGED <<vars, tries, official, core, hollow, bundle>>
        /\ Judge(NetlistsMatch(equal) /\ "lvs" \notin out["gds"].flaws,
                 IF official THEN "official" ELSE "signed")
  BY DEF Lvs, At
<1>3. phase \in PastExtract /\ phase \in PastPower /\ phase \in PastDrc /\ phase \in PastStream /\ phase \in PastRoute
  BY <1>2 DEF PastRoute, PastStream, PastDrc, PastPower, PastExtract
<1>4. /\ tries # 0 /\ PlacementDir \in DOMAIN placed /\ core \in Cores(design) /\ "route" \notin core.flaws
      /\ out["def"] = Of(core.flaws) /\ out["lef"] = Of(core.flaws) /\ out["gds"] = Of(core.flaws)
      /\ Clean("drc") /\ Supplied(core.grid) /\ Clean("supply")
  BY <1>1, <1>3 DEF Checked, Past
<1>5. placed' = placed /\ design' = design /\ final' = final /\ base' = base
  BY <1>2 DEF vars
<1>6. /\ DOMAIN out' = Product
      /\ out'["cir"].try = tries /\ out'["cir"].of.layout = placed[PlacementDir].layout
      /\ \A g \in Product \ {"cir"} : out'[g] = out[g]
  <2>1. DOMAIN placed[PlacementDir] = {"layout", "nets"}
    BY <1>4 DEF FlowInv, ViewOK
  <2>2. Made({}).try = tries /\ Made({}).of = placed[PlacementDir]
    BY <1>2 DEF Made
  <2>3. [Made({}) EXCEPT !.of.nets = final["PNL"].nets].try = tries
    BY <2>2 DEF Made
  <2>4. [Made({}) EXCEPT !.of.nets = final["PNL"].nets].of.layout = placed[PlacementDir].layout
    BY <2>1, <2>2 DEF Made
  <2>5. "cir" \in Product
    BY DEF Product
  <2>6. QED
    BY <1>1, <1>2, <2>3, <2>4, <2>5 DEF Files
<1>7. \A g \in Product : out'[g] = NoFile \/ out'[g].try \in 1..tries'
  BY <1>1, <1>2, <1>4, <1>6 DEF Files
<1>8. CASE Fails
  <2>1. BundleIsSigned'
    BY <1>2, BundleStays
  <2>2. QED
    BY <1>1, <1>2, <1>6, <1>7, <1>8, <2>1, FailureEnds DEF Files
<1>9. CASE ~Fails
  <2>1. /\ NetlistsMatch(equal) /\ "lvs" \notin out["gds"].flaws
        /\ phase' = IF official THEN "official" ELSE "signed"
        /\ UNCHANGED <<script, verdict>>
    BY <1>2, <1>9 DEF Judge, GoTo
  <2>2. phase' \in PastRoute /\ phase' # "package" /\ phase' \in {"official", "signed"}
    BY <2>1 DEF PastRoute, PastStream, PastDrc, PastPower, PastExtract, PastLvs, PastOfficial
  <2>3. /\ Scripts' /\ verdict # "pass" /\ \A flaws : Of(flaws)' = Of(flaws)
        /\ Files' /\ Checked' => CoreInv'
    BY <1>2, <1>3, <2>1, <2>2, StaysSaid
  <2>4. /\ "lvs" \notin core.flaws
        /\ out["gds"].of.nets = final["PNL"].nets \/ out["gds"].of.nets < base
    BY <1>4, <2>1 DEF NetlistsMatch, Of
  <2>5. /\ out'["def"] = out["def"] /\ out'["lef"] = out["lef"] /\ out'["gds"] = out["gds"]
        /\ out'["ip62"] = out["ip62"]
    BY <1>6 DEF Product
  <2>6. Files'
    BY <1>1, <1>2, <1>6, <1>7, <2>2, <2>5 DEF Files
  <2>7. Clean("drc")' /\ Clean("supply")'
    BY <1>2, <1>4 DEF Clean
  <2>8. official' => phase' = "official" /\ phase' \notin PastOfficial
    BY <1>2, <2>1 DEF PastOfficial
  <2>9. Past(PastOfficial)' => ~official'
    BY <2>1, <2>3, <2>8 DEF Past
  <2>10. Checked'
    BY <1>2, <1>4, <1>5, <1>6, <2>3, <2>4, <2>5, <2>7, <2>9 DEF Checked
  <2>11. QED
    BY <2>3, <2>6, <2>10
<1>10. QED
  BY <1>8, <1>9

\* What holds where all the checks have accepted.
LEMMA SignedHolds ==
  ASSUME CoreInv, phase \in PastOfficial
  PROVE  /\ tries # 0 /\ PlacementDir \in DOMAIN placed /\ core \in Cores(design) /\ "route" \notin core.flaws
         /\ out["def"] = Of(core.flaws) /\ out["lef"] = Of(core.flaws) /\ out["gds"] = Of(core.flaws)
         /\ Clean("drc") /\ Supplied(core.grid) /\ Clean("supply") /\ "lvs" \notin core.flaws
         /\ out["gds"].of.nets = final["PNL"].nets \/ out["gds"].of.nets < base
         /\ out["cir"].try = tries /\ out["cir"].of.layout = placed[PlacementDir].layout
         /\ official => Clean("ip62")
  BY DEF CoreInv, Checked, Past, PastRoute, PastStream, PastDrc, PastPower, PastExtract, PastLvs

\* A PASS is said of a core that all the checks have accepted.
LEMMA PassKeeps ==
  ASSUME CoreInv, phase \in PastOfficial,
         UNCHANGED <<vars, tries, official, core, out, hollow>>, BundleIsSigned',
         \/ phase = "signed" /\ script = "tests" /\ GoTo("package")
         \/ script' = "none" /\ phase' = "none" /\ verdict' = "pass"
  PROVE  CoreInv'
<1>1. Files /\ Scripts
  BY DEF CoreInv
<1>2. placed' = placed /\ design' = design /\ final' = final /\ base' = base
  BY DEF vars
<1>3. Scripts'
  <2>1. CASE phase = "signed" /\ script = "tests" /\ GoTo("package")
    BY <1>1, <1>2, <2>1
    DEF Scripts, GoTo, PastRoute, PastStream, PastDrc, PastPower, PastExtract, PastLvs, PastOfficial
  <2>2. CASE script' = "none" /\ phase' = "none" /\ verdict' = "pass"
    BY <2>2 DEF Scripts
  <2>3. QED
    BY <2>1, <2>2
<1>4. phase' \in {"none", "package"}
  BY DEF GoTo
<1>5. Files'
  BY <1>1, <1>4 DEF Files
<1>6. \A flaws : Of(flaws)' = Of(flaws)
  BY <1>2 DEF Of
<1>7. \A flaw : Clean(flaw) => Clean(flaw)'
  BY DEF Clean
<1>8. Checked'
  BY <1>2, <1>6, <1>7, SignedHolds DEF Checked
<1>9. QED
  BY <1>3, <1>5, <1>8 DEF CoreInv

\* A bundle is of the one try there has been.
LEMMA PackageKeeps ==
  ASSUME FlowInv, CoreInv, Package
  PROVE  CoreInv'
<1>1. Files /\ Scripts
  BY DEF CoreInv
<1>2. phase = "package" /\ UNCHANGED <<vars, tries, official, core, out, hollow>>
  BY DEF Package, At
<1>3. phase \in PastOfficial /\ phase \in PastRoute /\ base = 1 /\ tries = 1
  BY <1>1, <1>2 DEF Scripts, PastOfficial, PastRoute, PastStream, PastDrc, PastPower, PastExtract, PastLvs
<1>4. ASSUME Fails, bundle' = bundle \/ bundle' = Packed(FALSE) PROVE CoreInv'
  <2>1. CASE bundle' = bundle
    <3>1. BundleIsSigned'
      BY <2>1, BundleStays
    <3>2. QED
      BY <1>1, <1>2, <1>4, <3>1, FailureEnds DEF Files
  <2>2. CASE bundle' = Packed(FALSE)
    <3>1. BundleIsSigned'
      BY <2>2 DEF BundleIsSigned, Packed
    <3>2. QED
      BY <1>1, <1>2, <1>4, <3>1, FailureEnds DEF Files
  <2>3. QED
    BY <1>4, <2>1, <2>2
<1>5. ASSUME "interface" \notin core.flaws, bundle' = Packed(TRUE),
             script' = "none", phase' = "none", verdict' = "pass"
      PROVE  CoreInv'
  <2>1. /\ PlacementDir \in DOMAIN placed /\ "route" \notin core.flaws /\ "lvs" \notin core.flaws
        /\ out["lef"] = Of(core.flaws) /\ out["gds"] = Of(core.flaws)
        /\ Clean("drc") /\ Clean("supply")
        /\ out["gds"].of.nets = final["PNL"].nets \/ out["gds"].of.nets < base
        /\ out["cir"].try = tries /\ out["cir"].of.layout = placed[PlacementDir].layout
        /\ official => Clean("ip62")
    BY <1>3, SignedHolds
  <2>2. /\ bundle'.netlist = final["PNL"] /\ bundle'.official = official
        /\ bundle'.files = [f \in {"gds", "lef", "cir"} |-> out[f]]
    BY <1>5 DEF Packed
  <2>3. /\ bundle'.files["gds"] = out["gds"] /\ bundle'.files["lef"] = out["lef"]
        /\ bundle'.files["cir"] = out["cir"]
    BY <2>2
  <2>4. \A flaws : Of(flaws).try = tries /\ Of(flaws).of = placed[PlacementDir] /\ Of(flaws).flaws = flaws
    BY DEF Of
  <2>5. core.flaws \cap (Signed(official) \cup {"interface"}) = {}
    BY <1>3, <1>5, <2>1 DEF Clean, Signed
  <2>6. out["gds"].of.nets = final["PNL"].nets
    <3>1. out["gds"].of.nets \in Nat /\ out["gds"].of.nets # 0
      BY <2>1, <2>4 DEF FlowInv, ViewOK
    <3>2. QED
      BY <1>3, <2>1, <3>1
  <2>7. BundleIsSigned'
    BY <2>1, <2>2, <2>3, <2>4, <2>5, <2>6 DEF BundleIsSigned, Signed
  <2>8. QED
    BY <1>2, <1>3, <1>5, <2>7, PassKeeps
<1>6. QED
  BY <1>4, <1>5 DEF Package

\* The two invariants start and every step keeps them.
LEMMA CoreStarts == DigitalInit => FlowInv /\ CoreInv
<1> SUFFICES ASSUME DigitalInit PROVE FlowInv /\ CoreInv
  OBVIOUS
<1>1. /\ script = "none" /\ phase = "none" /\ tries = 0 /\ out = NoFilesYet /\ verdict = "none"
      /\ bundle = NoBundle
  BY DEF DigitalInit
<1>2. FlowInv
  <2>1. /\ design \in Designs /\ profile \in Profiles /\ ordinal = 1 /\ stage = 1
        /\ views = NoViews /\ placed = NoFiles
    BY DEF DigitalInit, Init
  <2>2. DOMAIN placed = {}
    BY <2>1 DEF NoFiles
  <2>3. QED
    BY <2>1, <2>2, NoViewOK, NoViewsOK DEF FlowInv, Showing
<1>3. Scripts /\ Files
  BY <1>1 DEF Scripts, Files, NoFilesYet
<1>4. Checked
  BY <1>1 DEF Checked, Past, PastRoute, PastStream, PastDrc, PastPower, PastExtract, PastLvs, PastOfficial
<1>5. BundleIsSigned
  BY <1>1 DEF BundleIsSigned, NoBundle
<1>6. QED
  BY <1>2, <1>3, <1>4, <1>5 DEF CoreInv

LEMMA CoreKeeps == FlowInv /\ CoreInv /\ [DigitalNext]_allVars => FlowInv' /\ CoreInv'
<1> SUFFICES ASSUME FlowInv, CoreInv, [DigitalNext]_allVars PROVE FlowInv' /\ CoreInv'
  OBVIOUS
<1>1. ASSUME UNCHANGED vars, CoreInv' PROVE FlowInv' /\ CoreInv'
  BY <1>1 DEF FlowInv, vars
<1>2. CASE StartFlow \/ StartDirect \/ StartTests \/ StartCore
  BY <1>2, CommandStarts
<1>3. CASE InLibrelane \/ LibrelaneEnds \/ CheckInputs \/ Breaks
  BY <1>3, BeforeTheCore
<1>4. CASE Route
  <2>1. UNCHANGED vars
    BY <1>4 DEF Route
  <2>2. QED
    BY <1>1, <1>4, <2>1, CoreIsRouted
<1>5. CASE Stream
  <2>1. UNCHANGED vars
    BY <1>5 DEF Stream
  <2>2. QED
    BY <1>1, <1>5, <2>1, CoreIsStreamed
<1>6. CASE Drc \/ Extract \/ Official
  <2>1. UNCHANGED vars
    BY <1>6 DEF Drc, Extract, Official
  <2>2. QED
    BY <1>1, <1>6, <2>1, ReportKeeps
<1>7. CASE Power
  <2>1. UNCHANGED vars
    BY <1>7 DEF Power
  <2>2. QED
    BY <1>1, <1>7, <2>1, PowerKeeps
<1>8. CASE Lvs
  <2>1. UNCHANGED vars
    BY <1>8 DEF Lvs
  <2>2. QED
    BY <1>1, <1>8, <2>1, LvsKeeps
<1>9. CASE Pass
  <2>1. /\ phase = "signed" /\ UNCHANGED <<vars, tries, official, core, out, hollow, bundle>>
        /\ \/ phase = "signed" /\ script = "tests" /\ GoTo("package")
           \/ script' = "none" /\ phase' = "none" /\ verdict' = "pass"
    BY <1>9 DEF Pass, At
  <2>2. phase \in PastOfficial /\ BundleIsSigned'
    BY <2>1, BundleStays DEF PastOfficial
  <2>3. QED
    BY <1>1, <2>1, <2>2, PassKeeps
<1>10. CASE Package
  <2>1. UNCHANGED vars
    BY <1>10 DEF Package
  <2>2. QED
    BY <1>1, <1>10, <2>1, PackageKeeps
<1>11. CASE UNCHANGED allVars
  <2>1. UNCHANGED vars /\ UNCHANGED coreVars
    BY <1>11 DEF allVars
  <2>2. placed' = placed /\ base' = base /\ final' = final /\ design' = design
    BY <2>1 DEF vars
  <2>3. UNCHANGED <<script, phase, tries, official, core, out, hollow, verdict, bundle>>
    BY <2>1 DEF coreVars
  <2>4. \A flaws : Of(flaws)' = Of(flaws) /\ Clean(flaws)' = Clean(flaws)
    BY <2>2, <2>3 DEF Of, Clean
  <2>5. Checked'
    BY <2>2, <2>3, <2>4 DEF CoreInv, Checked, Past
  <2>6. Scripts' /\ Files' /\ BundleIsSigned'
    BY <2>2, <2>3 DEF CoreInv, Scripts, Files, BundleIsSigned
  <2>7. QED
    BY <1>1, <2>1, <2>5, <2>6 DEF CoreInv
<1>12. QED
  BY <1>2, <1>3, <1>4, <1>5, <1>6, <1>7, <1>8, <1>9, <1>10, <1>11 DEF DigitalNext, CoreFlow

LEMMA PassFollows == CoreInv => SignedIsChecked
<1> SUFFICES ASSUME CoreInv, verdict = "pass", tries = 1 \/ hollow = {}
             PROVE  /\ core.flaws \cap Signed(official) = {}
                    /\ Supplied(core.grid)
                    /\ out["gds"].of.nets = final["PNL"].nets \/ out["gds"].of.nets < base
  BY DEF CoreInv, SignedIsChecked, PassIsEarned
<1>1. /\ "route" \notin core.flaws /\ Clean("drc") /\ Supplied(core.grid) /\ Clean("supply")
      /\ "lvs" \notin core.flaws
      /\ out["gds"].of.nets = final["PNL"].nets \/ out["gds"].of.nets < base
      /\ official => Clean("ip62")
  BY DEF CoreInv, Checked, Past
<1>2. ~(tries > 1 /\ hollow # {})
  OBVIOUS
<1>3. QED
  BY <1>1, <1>2 DEF Clean, Signed

\* What the scripts sign is what they checked: the core of a PASS has none of the
\* flaws looked for, its supplies are whole and its netlist is the flow's; a bundle
\* with its sums is of one try.  (run_digital_core_flow.sh, run_digital_tests.sh)
THEOREM SignedAreChecked == DigitalSpec => []SignedIsChecked
<1>1. DigitalInit => FlowInv /\ CoreInv
  BY CoreStarts
<1>2. (FlowInv /\ CoreInv) /\ [DigitalNext]_allVars => (FlowInv /\ CoreInv)'
  BY CoreKeeps
<1>3. FlowInv /\ CoreInv => SignedIsChecked
  BY PassFollows
<1>4. QED
  BY <1>1, <1>2, <1>3, PTL DEF DigitalSpec
-----------------------------------------------------------------------------
(* The run that nothing disturbs                                          *)

Revision == [{"layout", "nets"} -> Nat]
Sketch == [dirs : Nat, of : [Metric -> Nat], views : [View -> Revision]]

\* A step leads from one sketch of a run to another.
LEMMA OnwardIsSketch ==
  ASSUME NEW step, Shaped(step), NEW repairs, NEW before \in Sketch
  PROVE  Onward(step, repairs, before) \in Sketch
<1>1. /\ before.dirs \in Nat /\ before.of \in [Metric -> Nat] /\ before.views \in [View -> Revision]
  BY DEF Sketch
<1>2. Shows(step, repairs, before) \in Revision
  <2>1. step.main = None \/ step.main \in View
    BY DEF Shaped
  <2>2. step.main # None => before.views[step.main] \in Revision
    BY <1>1, <2>1
  <2>3. \A k \in {"layout", "nets"} : step.main # None => before.views[step.main][k] \in Nat
    BY <2>2 DEF Revision
  <2>4. QED
    BY <1>1, <2>3 DEF Shows, Revision
<1> DEFINE shown == Shows(step, repairs, before)
<1>3. shown["layout"] \in Nat
  BY <1>2 DEF Revision
<1> HIDE DEF shown
<1>4. [m \in Metric |-> IF Works(step) /\ m \in step.measures THEN shown["layout"] ELSE before.of[m]] \in [Metric -> Nat]
  BY <1>1, <1>3
<1>5. [v \in View |-> IF Works(step) /\ v \in step.out THEN shown ELSE before.views[v]] \in [View -> Revision]
  BY <1>1, <1>2 DEF shown
<1>6. QED
  BY <1>1, <1>4, <1>5 DEF Onward, Sketch, shown

\* The undisturbed run goes on from step to step.
LEMMA RunGoesOn ==
  ASSUME NEW p \in Profiles, NEW repairs \in BOOLEAN
  PROVE  /\ Undisturbed(p, repairs)[0] = Outset
         /\ \A i \in 1..Len(Program[p]) :
              Undisturbed(p, repairs)[i] = Onward(Program[p][i], repairs, Undisturbed(p, repairs)[i - 1])
         /\ \A i \in 0..Len(Program[p]) : Undisturbed(p, repairs)[i] \in Sketch
<1> DEFINE M == Len(Program[p])
           op == [i \in 1..M |-> [x \in Sketch |-> Onward(Program[p][i], repairs, x)]]
           Is(f) == f = [i \in 0..M |-> IF i = 0 THEN Outset ELSE Onward(Program[p][i], repairs, f[i - 1])]
           after == CHOOSE f : Is(f)
<1>1. M \in Nat /\ \A i \in 1..M : Shaped(Program[p][i])
  BY StepsAssumption
<1>2. Undisturbed(p, repairs) = after
  BY DEF Undisturbed
<1> HIDE DEF M
<1>3. Outset \in Sketch
  BY DEF Outset, Sketch, Revision
<1>4. \A i \in 1..M, x \in Sketch : Onward(Program[p][i], repairs, x) \in Sketch
  BY <1>1, OnwardIsSketch
<1>5. PICK g : Iterated(g, M, Sketch, Outset, op)
  <2>1. op \in [1..M -> [Sketch -> Sketch]]
    BY <1>4
  <2> HIDE DEF op
  <2>2. QED
    BY <1>1, <1>3, <2>1, Iterates, Zenon
<1>6. \A i \in 1..M, x \in Sketch : op[i][x] = Onward(Program[p][i], repairs, x)
  OBVIOUS
<1> HIDE DEF op
<1>7. Is(g)
  <2>1. g = [i \in 0..M |-> g[i]] /\ g[0] = Outset
    BY <1>5 DEF Iterated
  <2>2. \A i \in 1..M : g[i] = op[i][g[i - 1]]
    BY <1>5 DEF Iterated
  <2>3. \A i \in 1..M : i - 1 \in 0..M /\ i # 0
    BY <1>1
  <2>4. \A i \in 1..M : g[i - 1] \in Sketch
    BY <1>5, <2>3 DEF Iterated
  <2>5. \A i \in 1..M : g[i] = Onward(Program[p][i], repairs, g[i - 1])
    BY <1>6, <2>2, <2>4
  <2>6. \A i \in 0..M : i = 0 \/ (i \in 1..M /\ i # 0)
    BY <1>1
  <2>7. \A i \in 0..M : g[i] = IF i = 0 THEN Outset ELSE Onward(Program[p][i], repairs, g[i - 1])
    BY <2>1, <2>5, <2>6
  <2>8. [i \in 0..M |-> g[i]] = [i \in 0..M |-> IF i = 0 THEN Outset ELSE Onward(Program[p][i], repairs, g[i - 1])]
    BY <2>7
  <2>9. QED
    BY <2>1, <2>8, Zenon
<1>8. Is(after)
  <2> HIDE DEF Is
  <2>1. QED
    BY <1>7
<1> HIDE DEF after
<1>9. after[0] = Outset /\ \A i \in 1..M : after[i] = Onward(Program[p][i], repairs, after[i - 1])
  BY <1>1, <1>8
<1> HIDE DEF Is
<1> DEFINE S == {i \in 0..M : after[i] \in Sketch}
<1>10. 0 \in S
  BY <1>1, <1>3, <1>9
<1>11. \A i \in 1..M : i - 1 \in S => i \in S
  BY <1>1, <1>4, <1>9
<1>12. \A i \in 0..M : i \in S
  <2> HIDE DEF S
  <2>1. QED
    BY <1>1, <1>10, <1>11, UpTo
<1>13. QED
  BY <1>2, <1>9, <1>12 DEF M
-----------------------------------------------------------------------------
(* A run beside the undisturbed one of its list                            *)

Repairs == "repairs" \in design
Ideal == Undisturbed(profile, Repairs)
Now == Ideal[stage - 1]

\* A metric a run may blame.
Deserved(m) ==
  \/ m \in design
  \/ base > 1 /\ (m \notin Measures[profile] \/ m = "power_grid")
  \/ m = "lvs" /\ NetlistsBehind(profile)
  \/ m = "xor" /\ "KLAYOUT_GDS" \in Retouched(profile)

\* What this run has written and measured is what the undisturbed one has, in the
\* directories from the first of this run on.
ShowsAsIdeal ==
  \A v \in View : v \notin lost =>
    \A k \in {"layout", "nets"} : Now.views[v][k] # 0 => views[v][k] = base - 1 + Now.views[v][k]
MeasuredAsIdeal ==
  \A m \in Metric : m # "power_grid" /\ m \notin lost /\ Now.of[m] # 0 =>
    metrics[m].at >= base /\ metrics[m].of = base - 1 + Now.of[m]

\* What the steps behind the loop have left.
Did(j) ==
  /\ \A v \in Program[profile][j].out : v \in lost \/ views[v]["layout"] # 0
  /\ \A m \in Program[profile][j].measures : m \in design => m \in lost \/ metrics[m].bad
  /\ Program[profile][j].id = "OpenROAD.DetailedPlacement" /\ ~Program[profile][j].tacit =>
       base + Ideal[j - 1].dirs \in DOMAIN placed
StepsDid == \A j \in 1..stage - 1 : Works(Program[profile][j]) => Did(j)

Acts(step) == ~step.gated /\ ~step.idle

\* A metric that a checker may not let pass.
Fatal(m) == m # None /\ m \in design /\ m \in Measures[profile] /\ m \notin Tolerates[profile]
CheckersSaid ==
  \A j \in 1..stage - 1 : Acts(Program[profile][j]) /\ Fatal(Program[profile][j].judges) =>
    Program[profile][j].judges \in deferred \cup lost

Deserving ==
  /\ \A m \in Metric : metrics[m].bad /\ (base = 1 \/ MeasuredBefore(profile, stage, m)) => Deserved(m)
  /\ \A m \in deferred : Deserved(m)

Mortal == {"LEF", "magic_drc"}

Underway ==
  /\ stage \in 1..Len(Program[profile]) + 1
  /\ ordinal = base + Now.dirs
  /\ lost \subseteq Mortal
  /\ ShowsAsIdeal /\ MeasuredAsIdeal /\ StepsDid /\ CheckersSaid /\ Deserving

Numbered ==
  /\ profile \in Profiles /\ base \in Nat \ {0} /\ ordinal \in Nat \ {0}
  /\ \A v \in View : views[v] \in Revision
  /\ ordinal = 1 => \A m \in Metric : ~metrics[m].bad
  /\ pc = "run" => result = "none" /\ blame = {}

\* Where the loop is, and where it goes on to.
LEMMA Advance ==
  ASSUME Numbered, Underway, AtStep, UNCHANGED <<profile, design, base>>, stage' = stage + 1
  PROVE  /\ stage \in 1..Len(Program[profile]) /\ stage' \in 1..Len(Program[profile]) + 1
         /\ Current = Program[profile][stage] /\ Shaped(Current)
         /\ stage' - 1 = stage
         /\ Ideal' = Ideal /\ Now \in Sketch
         /\ Now' = Onward(Current, Repairs, Now)
         /\ \A j \in 1..stage : j = stage \/ j \in 1..stage - 1
<1>1. Len(Program[profile]) \in Nat /\ profile \in Profiles
  BY StepsAssumption DEF Numbered
<1>2. stage \in 1..Len(Program[profile]) /\ stage' \in 1..Len(Program[profile]) + 1 /\ stage' - 1 = stage
  BY <1>1 DEF Underway, AtStep
<1>3. Current = Program[profile][stage] /\ Shaped(Current)
  BY <1>1, <1>2, StepsAssumption DEF Current
<1>4. Ideal' = Ideal
  BY DEF Ideal, Repairs
<1>5. Repairs \in BOOLEAN
  BY DEF Repairs
<1>6. stage - 1 \in 0..Len(Program[profile])
  BY <1>1, <1>2
<1>7. Now \in Sketch
  BY <1>1, <1>5, <1>6, RunGoesOn DEF Now, Ideal
<1>8. Ideal[stage] = Onward(Current, Repairs, Now)
  BY <1>1, <1>2, <1>3, <1>5, RunGoesOn DEF Now, Ideal
<1>9. Now' = Ideal[stage]
  BY <1>2, <1>4 DEF Now
<1>10. \A j \in 1..stage : j = stage \/ j \in 1..stage - 1
  BY <1>1, <1>2
<1>11. QED
  BY <1>2, <1>3, <1>4, <1>7, <1>8, <1>9, <1>10

\* What has been done stays done.
LEMMA StaysDone ==
  ASSUME Numbered, Underway, AtStep, UNCHANGED <<profile, design, base>>, stage' = stage + 1,
         lost \subseteq lost', deferred \subseteq deferred',
         \A v \in View : views[v]["layout"] # 0 => views'[v]["layout"] # 0,
         \A m \in Metric : m \in design /\ metrics[m].bad => m \in lost' \/ metrics'[m].bad,
         DOMAIN placed \subseteq DOMAIN placed',
         NEW here, here = stage, Works(Current) => Did(here)',
         Acts(Current) /\ Fatal(Current.judges) => Current.judges \in deferred' \cup lost'
  PROVE  StepsDid' /\ CheckersSaid'
<1>1. /\ stage \in 1..Len(Program[profile]) /\ Current = Program[profile][stage]
      /\ stage' - 1 = stage /\ Ideal' = Ideal
      /\ \A j \in 1..stage : j = stage \/ j \in 1..stage - 1
  BY Advance
<1>2. ASSUME NEW j \in 1..stage - 1, Works(Program[profile][j]) PROVE Did(j)'
  <2>1. Did(j)
    BY <1>2 DEF Underway, StepsDid
  <2>2. Program[profile][j].out \subseteq View /\ Program[profile][j].measures \subseteq Metric
    <3>1. j \in 1..Len(Program[profile]) /\ profile \in Profiles
      BY <1>1, StepsAssumption DEF Numbered
    <3>2. QED
      BY <3>1, StepsAssumption DEF Shaped
  <2>3. QED
    BY <1>1, <2>1, <2>2 DEF Did
<1>3. StepsDid'
  <2> SUFFICES ASSUME NEW j \in 1..stage, Works(Program[profile][j]) PROVE Did(j)'
    BY <1>1 DEF StepsDid
  <2>1. QED
    BY <1>1, <1>2
<1>4. \A m : Fatal(m)' <=> Fatal(m)
  BY DEF Fatal
<1>5. CheckersSaid'
  <2> SUFFICES ASSUME NEW j \in 1..stage, Acts(Program[profile][j]), Fatal(Program[profile][j].judges)
               PROVE  Program[profile][j].judges \in deferred' \cup lost'
    BY <1>1, <1>4 DEF CheckersSaid
  <2>1. QED
    BY <1>1 DEF Underway, CheckersSaid
<1>6. QED
  BY <1>3, <1>5

\* A step that writes and measures nothing, or dies.
LEMMA PassesBy ==
  ASSUME Numbered, Underway, AtStep,
         UNCHANGED <<profile, design, base, views, placed>>, stage' = stage + 1,
         ordinal' = IF Current.gated THEN ordinal ELSE ordinal + 1,
         lost \subseteq lost', lost' \subseteq Mortal, deferred \subseteq deferred',
         \A m \in Metric : IF Works(Current) /\ m \in Current.measures THEN ~metrics'[m].bad
                          ELSE metrics'[m] = metrics[m],
         \A m \in deferred' : Deserved(m),
         Works(Current) => Current.measures \cup Current.out \subseteq lost' /\ Current.tacit,
         Acts(Current) /\ Fatal(Current.judges) => Current.judges \in deferred' \cup lost'
  PROVE  Underway'
<1>1. /\ stage \in 1..Len(Program[profile]) /\ stage' \in 1..Len(Program[profile]) + 1
      /\ Current = Program[profile][stage]
      /\ stage' - 1 = stage /\ Ideal' = Ideal /\ Now \in Sketch
      /\ Now' = Onward(Current, Repairs, Now)
      /\ \A j \in 1..stage : j = stage \/ j \in 1..stage - 1
  BY Advance
<1>2. /\ Now'.dirs = IF Current.gated THEN Now.dirs ELSE Now.dirs + 1
      /\ \A m \in Metric : m \notin lost' => Now'.of[m] = Now.of[m]
      /\ \A v \in View : v \notin lost' => Now'.views[v] = Now.views[v]
  BY <1>1 DEF Onward
<1>3. ordinal' = base' + Now'.dirs
  <2>1. Now.dirs \in Nat /\ base \in Nat /\ ordinal = base + Now.dirs
    BY <1>1 DEF Sketch, Numbered, Underway
  <2>2. QED
    BY <1>2, <2>1
<1>4. ShowsAsIdeal' /\ MeasuredAsIdeal'
  BY <1>2 DEF Underway, ShowsAsIdeal, MeasuredAsIdeal
<1>5. ASSUME NEW here, here = stage PROVE Works(Current) => Did(here)'
  <2>1. Works(Current) => Current.out \subseteq lost' /\ Current.measures \subseteq lost' /\ Current.tacit
    OBVIOUS
  <2>2. Program[profile'][here] = Current
    BY <1>1, <1>5
  <2>3. QED
    BY <2>1, <2>2 DEF Did
<1>6. StepsDid' /\ CheckersSaid'
  <2>1. PICK here : here = stage
    OBVIOUS
  <2>2. Works(Current) => Did(here)'
    BY <1>5, <2>1
  <2>3. \A v \in View : views[v]["layout"] # 0 => views'[v]["layout"] # 0
    OBVIOUS
  <2>4. \A m \in Metric : m \in design /\ metrics[m].bad => m \in lost' \/ metrics'[m].bad
    OBVIOUS
  <2>5. QED
    BY <2>1, <2>2, <2>3, <2>4, StaysDone
<1>7. Deserving'
  <2>1. \A m : Deserved(m)' <=> Deserved(m)
    BY DEF Deserved
  <2>2. ASSUME NEW m \in Metric, ~(Works(Current) /\ m \in Current.measures)
        PROVE  MeasuredBefore(profile, stage', m) => MeasuredBefore(profile, stage, m)
    BY <1>1, <2>2 DEF MeasuredBefore
  <2>3. ASSUME NEW m \in Metric, metrics'[m].bad, base = 1 \/ MeasuredBefore(profile, stage', m)
        PROVE  Deserved(m)
    <3>1. metrics'[m] = metrics[m] /\ ~(Works(Current) /\ m \in Current.measures)
      BY <2>3
    <3>2. QED
      BY <2>2, <2>3, <3>1 DEF Underway, Deserving
  <2>4. QED
    BY <2>1, <2>3 DEF Deserving
<1>8. QED
  BY <1>1, <1>3, <1>4, <1>6, <1>7 DEF Underway

\* Where the loop is.
LEMMA AtAStep ==
  ASSUME Numbered, Underway, AtStep
  PROVE  /\ profile \in Profiles /\ stage \in 1..Len(Program[profile])
         /\ Current = Program[profile][stage] /\ Shaped(Current)
         /\ Repairs \in BOOLEAN /\ Now = Undisturbed(profile, Repairs)[stage - 1]
<1>1. Len(Program[profile]) \in Nat /\ profile \in Profiles
  BY StepsAssumption DEF Numbered
<1>2. stage \in 1..Len(Program[profile])
  BY <1>1 DEF Underway, AtStep
<1>3. QED
  BY <1>1, <1>2, StepsAssumption DEF Current, Repairs, Now, Ideal

\* Two views that the list leads to one layout, or to one netlist, are of one.
LEMMA SaidIsSo ==
  ASSUME Numbered, Underway, NEW v \in View \ {"LEF"}, NEW w \in View \ {"LEF"}, NEW k \in {"layout", "nets"},
         Said(k, Now.views[v], Now.views[w])
  PROVE  views[v][k] = views[w][k]
<1>1. v \notin lost /\ w \notin lost
  BY DEF Underway, Mortal, View
<1>2. QED
  BY <1>1 DEF Underway, ShowsAsIdeal, Said

\* What a tool that writes its findings down finds is the design's, or the
\* configuration's.
LEMMA FoundDeserved ==
  ASSUME Numbered, Underway, AtStep, Works(Current), NEW m \in Current.measures, Found(m)
  PROVE  Deserved(m)
<1>1. /\ profile \in Profiles /\ stage \in 1..Len(Program[profile])
      /\ Current = Program[profile][stage] /\ Shaped(Current)
      /\ Repairs \in BOOLEAN /\ Now = Undisturbed(profile, Repairs)[stage - 1]
  BY AtAStep
<1>2. CASE m \in design
  BY <1>2 DEF Deserved
<1>3. CASE m = "lvs" /\ views["SPICE"].nets # views["PNL"].nets
  <2>1. CASE NetlistsBehind(profile)
    BY <1>3, <2>1 DEF Deserved
  <2>2. CASE ~NetlistsBehind(profile)
    <3>1. Said("nets", Now.views["SPICE"], Now.views["PNL"])
      BY <1>1, <1>3, <2>2, EndAssumption
    <3>2. QED
      BY <1>3, <3>1, SaidIsSo DEF View
  <2>3. QED
    BY <2>1, <2>2
<1>4. CASE m = "xor" /\ views["MAG_GDS"].layout # views["KLAYOUT_GDS"].layout
  <2>1. CASE "KLAYOUT_GDS" \in Retouched(profile)
    BY <1>4, <2>1 DEF Deserved
  <2>2. CASE "KLAYOUT_GDS" \notin Retouched(profile)
    <3>1. Said("layout", Now.views["MAG_GDS"], Now.views["KLAYOUT_GDS"])
      BY <1>1, <1>4, <2>2, EndAssumption
    <3>2. QED
      BY <1>4, <3>1, SaidIsSo DEF View
  <2>3. QED
    BY <2>1, <2>2
<1>5. QED
  BY <1>2, <1>3, <1>4 DEF Found

\* A metric that is judged, if a step of the run measures it, has been measured.
LEMMA MeasuredIsKnown ==
  ASSUME Numbered, Underway, AtStep, Acts(Current), Current.judges # None, Current.measures = {},
         Current.judges \in Measures[profile]
  PROVE  MeasuredBefore(profile, stage, Current.judges)
<1>1. /\ profile \in Profiles /\ stage \in 1..Len(Program[profile])
      /\ Current = Program[profile][stage]
  BY AtAStep
<1>2. QED
  BY <1>1, OrderAssumption DEF Acts

\* A checker errs over nothing that the run may not blame,
LEMMA ExceedsDeserved ==
  ASSUME Numbered, Underway, AtStep, Acts(Current), Current.judges # None, Exceeds
  PROVE  Deserved(Current.judges)
<1>1. Shaped(Current)
  BY AtAStep
<1>2. CASE Current.measures # {}
  BY <1>1, <1>2 DEF Exceeds, Shaped, Found, Deserved
<1>3. CASE Current.measures = {}
  <2>1. Current.judges \in Metric /\ metrics[Current.judges].bad
    BY <1>1, <1>3 DEF Shaped, Exceeds
  <2>2. CASE base = 1
    BY <2>1, <2>2 DEF Underway, Deserving
  <2>3. CASE base > 1 /\ Current.judges \notin Measures[profile]
    BY <2>3 DEF Deserved
  <2>4. CASE Current.judges \in Measures[profile]
    BY <1>3, <2>1, <2>4, MeasuredIsKnown DEF Underway, Deserving
  <2>5. base = 1 \/ base > 1
    BY DEF Numbered
  <2>6. QED
    BY <2>2, <2>3, <2>4, <2>5
<1>4. QED
  BY <1>2, <1>3

\* and it errs over what may not pass, unless the tool that measures died.
LEMMA FatalErrs ==
  ASSUME Numbered, Underway, AtStep, Acts(Current), Fatal(Current.judges), Current.judges \notin lost
  PROVE  Errs
<1>1. /\ profile \in Profiles /\ stage \in 1..Len(Program[profile])
      /\ Current = Program[profile][stage] /\ Shaped(Current)
  BY AtAStep
<1>2. Current.judges # None /\ Current.judges \in design /\ Current.judges \in Measures[profile]
      /\ Current.judges \notin Tolerates[profile]
  BY DEF Fatal
<1>3. Exceeds
  <2>1. CASE Current.measures # {}
    BY <1>2, <2>1 DEF Exceeds, Found
  <2>2. CASE Current.measures = {}
    <3>1. PICK j \in 1..stage - 1 : Works(Program[profile][j]) /\ Current.judges \in Program[profile][j].measures
      BY <1>2, <2>2, MeasuredIsKnown DEF MeasuredBefore
    <3>2. Did(j)
      BY <3>1 DEF Underway, StepsDid
    <3>3. QED
      BY <1>2, <2>2, <3>1, <3>2 DEF Did, Exceeds
  <2>3. QED
    BY <2>1, <2>2
<1>4. QED
  BY <1>2, <1>3 DEF Errs

\* The steps that leave the views, and the metrics unless they die, as they are.
LEMMA PassingKeeps ==
  ASSUME Numbered, Underway, Gated \/ DoNothing \/ DiesUnnoticed \/ Clear \/ Defer
  PROVE  Underway'
<1>1. /\ AtStep /\ stage' = stage + 1
      /\ UNCHANGED <<profile, design, base, views, placed>>
  BY DEF Gated, DoNothing, DiesUnnoticed, Clear, Defer, Started, GoOn, kept
<1>2. Shaped(Current)
  BY <1>1, AtAStep
<1>3. \A m \in deferred : Deserved(m)
  BY DEF Underway, Deserving
<1>4. lost \subseteq Mortal
  BY DEF Underway
<1>5. CASE Gated
  <2>1. Current.gated /\ metrics' = metrics /\ ordinal' = ordinal /\ lost' = lost /\ deferred' = deferred
    BY <1>5 DEF Gated, GoOn
  <2>2. QED
    BY <1>1, <1>3, <1>4, <2>1, PassesBy DEF Works, Acts
<1>6. CASE DoNothing
  <2>1. ~Current.gated /\ Current.idle /\ metrics' = metrics /\ ordinal' = ordinal + 1 /\ lost' = lost /\ deferred' = deferred
    BY <1>6 DEF DoNothing, Started, GoOn
  <2>2. QED
    BY <1>1, <1>3, <1>4, <2>1, PassesBy DEF Works, Acts
<1>7. CASE DiesUnnoticed
  <2>1. /\ ~Current.gated /\ Current.tacit /\ ordinal' = ordinal + 1
        /\ lost' = lost \cup Current.out \cup Current.measures /\ deferred' = deferred
        /\ metrics' = [m \in Metric |-> IF m \in Current.measures THEN Unread ELSE metrics[m]]
        /\ ~Current.idle
    BY <1>7 DEF DiesUnnoticed, Started, GoOn
  <2>2. Current.out \cup Current.measures \subseteq Mortal /\ Current.judges = None
    BY <1>2, <2>1 DEF Shaped, Mortal
  <2>3. ~Fatal(Current.judges) /\ Works(Current)
    BY <2>1, <2>2 DEF Fatal, Works
  <2>4. ~Unread.bad
    BY DEF Unread
  <2>5. \A m \in Metric : IF m \in Current.measures THEN ~metrics'[m].bad ELSE metrics'[m] = metrics[m]
    BY <2>1, <2>4
  <2>6. lost' \subseteq Mortal /\ lost \subseteq lost' /\ Current.measures \cup Current.out \subseteq lost'
    BY <1>4, <2>1, <2>2
  <2>7. QED
    BY <1>1, <1>3, <2>1, <2>3, <2>5, <2>6, PassesBy
<1>8. CASE Clear
  <2>1. /\ ~Current.gated /\ ~Current.idle /\ Current.judges # None /\ ~Errs /\ metrics' = metrics
        /\ ordinal' = ordinal + 1 /\ lost' = lost /\ deferred' = deferred
    BY <1>8 DEF Clear, Started, Judging, GoOn
  <2>2. Fatal(Current.judges) => Current.judges \in lost'
    BY <1>1, <2>1, FatalErrs DEF Acts
  <2>3. QED
    BY <1>1, <1>3, <1>4, <2>1, <2>2, PassesBy DEF Works
<1>9. CASE Defer
  <2>1. /\ ~Current.gated /\ ~Current.idle /\ Current.judges # None /\ Exceeds /\ metrics' = metrics
        /\ ordinal' = ordinal + 1 /\ lost' = lost /\ deferred' = deferred \cup {Current.judges}
    BY <1>9 DEF Defer, Started, Judging, GoOn, Errs
  <2>2. Deserved(Current.judges)
    BY <1>1, <2>1, ExceedsDeserved DEF Acts
  <2>3. QED
    BY <1>1, <1>3, <1>4, <2>1, <2>2, PassesBy DEF Works
<1>10. QED
  BY <1>5, <1>6, <1>7, <1>8, <1>9

\* What a step writes.
Written == [Content EXCEPT !.layout = IF @ = 0 THEN ordinal ELSE @]

\* It shows what it would show in the undisturbed run.
LEMMA WritesAsIdeal ==
  ASSUME Numbered, Underway, AtStep
  PROVE  /\ Written \in Revision /\ Written["layout"] # 0
         /\ Content["layout"] \in Nat
         /\ \A k \in {"layout", "nets"} : Shows(Current, Repairs, Now)[k] # 0 =>
              Content[k] = base - 1 + Shows(Current, Repairs, Now)[k] /\ Written[k] = Content[k]
<1>1. /\ profile \in Profiles /\ stage \in 1..Len(Program[profile]) /\ Shaped(Current)
      /\ Repairs \in BOOLEAN /\ Now = Undisturbed(profile, Repairs)[stage - 1]
  BY AtAStep
<1> DEFINE read == IF Current.main = None THEN NoView ELSE views[Current.main]
<1>2. Now \in Sketch
  <2>1. stage - 1 \in 0..Len(Program[profile])
    BY <1>1, StepsAssumption
  <2>2. QED
    BY <1>1, <2>1, RunGoesOn
<1>3. base \in Nat \ {0} /\ ordinal \in Nat \ {0} /\ ordinal = base + Now.dirs /\ Now.dirs \in Nat
  BY <1>2 DEF Numbered, Underway, Sketch
<1>4. /\ Content = [k \in {"layout", "nets"} |-> IF k \in Edited THEN ordinal ELSE read[k]]
      /\ Edited = Changes(Current, Repairs)
  BY DEF Content, Edited, Repairs
<1>5. read \in Revision
  <2>1. NoView \in Revision
    BY DEF NoView, Revision
  <2>2. Current.main # None => Current.main \in View
    BY <1>1 DEF Shaped
  <2>3. QED
    BY <2>1, <2>2 DEF Numbered
<1>6. Content \in Revision
  BY <1>3, <1>4, <1>5 DEF Revision
<1>7. ASSUME NEW k \in {"layout", "nets"}, Shows(Current, Repairs, Now)[k] # 0
      PROVE  Content[k] = base - 1 + Shows(Current, Repairs, Now)[k] /\ Content[k] # 0
  <2>1. CASE k \in Changes(Current, Repairs)
    <3>1. Shows(Current, Repairs, Now)[k] = Now.dirs + 1 /\ Content[k] = ordinal
      BY <1>4, <2>1 DEF Shows
    <3>2. QED
      BY <1>3, <3>1
  <2>2. CASE k \notin Changes(Current, Repairs)
    <3>1. /\ Current.main # None /\ Shows(Current, Repairs, Now)[k] = Now.views[Current.main][k]
          /\ Content[k] = views[Current.main][k]
      BY <1>4, <1>7, <2>2 DEF Shows
    <3>2. Current.main \in View /\ Current.main \notin lost
      BY <1>1, <3>1 DEF Shaped, Underway, Mortal, View
    <3>3. Content[k] = base - 1 + Now.views[Current.main][k]
      BY <1>7, <3>1, <3>2 DEF Underway, ShowsAsIdeal
    <3>4. Now.views[Current.main][k] \in Nat \ {0}
      BY <1>2, <1>7, <3>1, <3>2 DEF Sketch, Revision
    <3>5. QED
      BY <1>3, <3>1, <3>3, <3>4
  <2>3. QED
    BY <2>1, <2>2
<1>8. Content["layout"] \in Nat /\ Written \in Revision /\ Written["layout"] # 0
  BY <1>3, <1>6 DEF Written, Revision
<1>9. \A k \in {"layout", "nets"} : Content[k] # 0 => Written[k] = Content[k]
  BY <1>6 DEF Written, Revision
<1>10. QED
  BY <1>7, <1>8, <1>9

\* A step that works goes on as in the undisturbed run.
LEMMA WorkKeeps ==
  ASSUME Numbered, Underway, Work
  PROVE  Underway'
<1>1. /\ AtStep /\ stage' = stage + 1 /\ ordinal' = ordinal + 1 /\ Works(Current)
      /\ UNCHANGED <<profile, design, base, lost, deferred>>
      /\ views' = [v \in View |-> IF v \in Current.out THEN Written ELSE views[v]]
  BY DEF Work, Started, GoOn, kept, Works, Judging, Written
<1>2. /\ profile \in Profiles /\ stage \in 1..Len(Program[profile])
      /\ Current = Program[profile][stage] /\ Shaped(Current)
      /\ stage' \in 1..Len(Program[profile]) + 1
      /\ stage' - 1 = stage /\ Ideal' = Ideal /\ Now \in Sketch
      /\ Now' = Onward(Current, Repairs, Now)
      /\ \A j \in 1..stage : j = stage \/ j \in 1..stage - 1
  BY <1>1, AtAStep, Advance
<1>3. PICK silent \in SUBSET {m \in Current.measures : m = "power_grid" /\ ~Found(m)} :
        metrics' = Measured(Current.measures \ silent)
  BY DEF Work
<1> DEFINE shown == Shows(Current, Repairs, Now)
<1>4. /\ Written["layout"] # 0 /\ Content["layout"] \in Nat
      /\ \A k \in {"layout", "nets"} : shown[k] # 0 =>
           Content[k] = base - 1 + shown[k] /\ Written[k] = Content[k]
  BY <1>1, WritesAsIdeal
<1>5. /\ Now'.dirs = Now.dirs + 1
      /\ \A m \in Metric : Now'.of[m] = IF m \in Current.measures THEN shown["layout"] ELSE Now.of[m]
      /\ \A v \in View : Now'.views[v] = IF v \in Current.out THEN shown ELSE Now.views[v]
  BY <1>1, <1>2 DEF Onward, Works
<1> HIDE DEF shown
<1>6. base \in Nat \ {0} /\ ordinal = base + Now.dirs /\ Now.dirs \in Nat
  BY <1>2 DEF Numbered, Underway, Sketch
<1>7. ordinal' = base' + Now'.dirs
  BY <1>1, <1>5, <1>6
<1>8. \A v \in View : views'[v] = IF v \in Current.out THEN Written ELSE views[v]
  BY <1>1
<1>9. ShowsAsIdeal'
  <2> SUFFICES ASSUME NEW v \in View, v \notin lost, NEW k \in {"layout", "nets"}, Now'.views[v][k] # 0
               PROVE  views'[v][k] = base - 1 + Now'.views[v][k]
    BY <1>1 DEF ShowsAsIdeal
  <2>1. CASE v \in Current.out
    BY <1>4, <1>5, <1>8, <2>1
  <2>2. CASE v \notin Current.out
    BY <1>5, <1>8, <2>2 DEF Underway, ShowsAsIdeal
  <2>3. QED
    BY <2>1, <2>2
<1>10. \A m \in Metric :
         /\ m \in Current.measures \ silent =>
              metrics'[m].bad = Found(m) /\ metrics'[m].of = Content["layout"] /\ metrics'[m].at = ordinal
         /\ m \notin Current.measures \ silent => metrics'[m] = metrics[m]
  BY <1>3 DEF Measured
<1>11. \A m \in silent : m = "power_grid" /\ ~Found(m)
  OBVIOUS
<1>12. MeasuredAsIdeal'
  <2> SUFFICES ASSUME NEW m \in Metric, m # "power_grid", m \notin lost, Now'.of[m] # 0
               PROVE  metrics'[m].at >= base /\ metrics'[m].of = base - 1 + Now'.of[m]
    BY <1>1 DEF MeasuredAsIdeal
  <2>1. CASE m \in Current.measures
    <3>1. metrics'[m].of = Content["layout"] /\ metrics'[m].at = ordinal
      BY <1>10, <1>11, <2>1
    <3>2. Now'.of[m] = shown["layout"]
      BY <1>5, <2>1
    <3>3. QED
      BY <1>4, <1>6, <3>1, <3>2
  <2>2. CASE m \notin Current.measures
    BY <1>5, <1>10, <2>2 DEF Underway, MeasuredAsIdeal
  <2>3. QED
    BY <2>1, <2>2
<1>13. \A m \in Current.measures : m \in Metric
  BY <1>2 DEF Shaped
<1>14. ASSUME NEW m \in Metric, m \in design
       PROVE  /\ m \in Current.measures => metrics'[m].bad
              /\ metrics[m].bad => metrics'[m].bad
  <2>1. Found(m)
    BY <1>14 DEF Found
  <2>2. QED
    BY <1>10, <1>11, <2>1
<1>15. StepsDid' /\ CheckersSaid'
  <2>1. PICK here : here = stage
    OBVIOUS
  <2>2. \A v \in View : views[v]["layout"] # 0 => views'[v]["layout"] # 0
    BY <1>4, <1>8
  <2>3. \A m \in Metric : m \in design /\ metrics[m].bad => metrics'[m].bad
    BY <1>14
  <2>4. Current.id = "OpenROAD.DetailedPlacement" =>
          placed' = [o \in DOMAIN placed \cup {ordinal} |-> IF o = ordinal THEN views'["DEF"] ELSE placed[o]]
    BY DEF Work
  <2>5. Current.id # "OpenROAD.DetailedPlacement" => placed' = placed
    BY DEF Work
  <2>6. DOMAIN placed \subseteq DOMAIN placed'
    BY <2>4, <2>5
  <2>7. Did(here)'
    <3>1. Program[profile'][here] = Current /\ Ideal'[here - 1] = Now /\ base' = base
      BY <1>1, <1>2, <2>1 DEF Now
    <3>2. \A v \in Current.out : views'[v]["layout"] # 0
      BY <1>2, <1>4, <1>8 DEF Shaped
    <3>3. \A m \in Current.measures : m \in design => metrics'[m].bad
      BY <1>13, <1>14
    <3>4. Current.id = "OpenROAD.DetailedPlacement" => base + Now.dirs \in DOMAIN placed'
      BY <1>6, <2>4
    <3>5. design' = design
      BY <1>1
    <3>6. QED
      BY <3>1, <3>2, <3>3, <3>4, <3>5 DEF Did
  <2>8. Current.judges = None
    BY <1>1 DEF Works
  <2>9. ~Fatal(Current.judges)
    BY <2>8 DEF Fatal
  <2>10. QED
    BY <1>1, <2>1, <2>2, <2>3, <2>6, <2>7, <2>9, StaysDone
<1>16. Deserving'
  <2>1. \A m : Deserved(m)' <=> Deserved(m)
    BY <1>1 DEF Deserved
  <2>2. ASSUME NEW m \in Metric, metrics'[m].bad, base = 1 \/ MeasuredBefore(profile, stage', m)
        PROVE  Deserved(m)
    <3>1. CASE m \in Current.measures \ silent
      <4>1. Found(m)
        BY <1>10, <2>2, <3>1
      <4>2. QED
        BY <1>1, <3>1, <4>1, FoundDeserved
    <3>2. CASE m \in silent
      <4>1. metrics[m].bad /\ m = "power_grid"
        BY <1>10, <1>11, <2>2, <3>2
      <4>2. base = 1 \/ base > 1
        BY <1>6
      <4>3. QED
        BY <4>1, <4>2 DEF Underway, Deserving, Deserved
    <3>3. CASE m \notin Current.measures
      <4>1. metrics[m].bad
        BY <1>10, <2>2, <3>3
      <4>2. MeasuredBefore(profile, stage', m) => MeasuredBefore(profile, stage, m)
        BY <1>2, <3>3 DEF MeasuredBefore
      <4>3. QED
        BY <2>2, <4>1, <4>2 DEF Underway, Deserving
    <3>4. QED
      BY <3>1, <3>2, <3>3
  <2>3. QED
    BY <1>1, <2>1, <2>2 DEF Underway, Deserving
<1>17. lost' \subseteq Mortal
  BY <1>1 DEF Underway
<1>18. QED
  BY <1>1, <1>2, <1>7, <1>9, <1>12, <1>15, <1>16, <1>17 DEF Underway

Judged ==
  /\ Numbered
  /\ pc = "run" => Underway
  /\ RunIsJudgedByItsDesign /\ SuccessIsOneDesign /\ InputsAreFound

\* Nothing is said of a run that goes on.
LEMMA NothingSaidYet ==
  ASSUME Numbered, pc = "run"
  PROVE  RunIsJudgedByItsDesign /\ SuccessIsOneDesign /\ InputsAreFound
<1>1. result = "none" /\ blame = {}
  BY DEF Numbered
<1>2. QED
  BY <1>1 DEF RunIsJudgedByItsDesign, SuccessMeansClean, BlameIsDeserved, SuccessIsOneDesign, ViewsAgree,
              SignoffSeesFinalLayout, InputsAreFound, NeverStarved, PlacementIsWhereExpected, Succeeded

\* A run starts as the undisturbed one, whatever there is.
LEMMA StartsUnderway ==
  ASSUME Numbered, NEW p \in Profiles, NEW d \in Designs, Begin(p, d) \/ BeginAfresh(p, d)
  PROVE  Judged'
<1>1. /\ profile' = p /\ design' = d /\ pc' = "run" /\ stage' = 1 /\ base' = ordinal' /\ lost' = {}
      /\ deferred' = {} /\ blame' = {} /\ result' = "none"
      /\ \/ ordinal' = ordinal /\ views' = views /\ metrics' = metrics
         \/ ordinal' = 1 /\ views' = NoViews /\ metrics' = NoMetrics
  BY DEF Begin, BeginAfresh, Enter
<1>2. \A v \in View : NoViews[v] \in Revision
  BY DEF NoViews, NoView, Revision
<1>3. \A m \in Metric : ~NoMetrics[m].bad
  BY DEF NoMetrics, NoMetric
<1>4. Numbered'
  <2>1. profile' \in Profiles /\ base' \in Nat \ {0} /\ ordinal' \in Nat \ {0}
    BY <1>1 DEF Numbered
  <2>2. \A v \in View : views'[v] \in Revision
    BY <1>1, <1>2 DEF Numbered
  <2>3. ordinal' = 1 => \A m \in Metric : ~metrics'[m].bad
    BY <1>1, <1>3 DEF Numbered
  <2>4. QED
    BY <1>1, <2>1, <2>2, <2>3 DEF Numbered
<1>5. Underway'
  <2>1. Repairs' \in BOOLEAN
    BY DEF Repairs
  <2>2. Len(Program[p]) \in Nat
    BY StepsAssumption
  <2>3. Now' = Outset
    <3>1. Undisturbed(p, Repairs')[0] = Outset
      BY <2>1, RunGoesOn
    <3>2. stage' - 1 = 0 /\ profile' = p
      BY <1>1
    <3>3. QED
      BY <3>1, <3>2 DEF Now, Ideal
  <2>4. stage' \in 1..Len(Program[profile']) + 1
    BY <1>1, <2>2
  <2>5. ordinal' = base' + Now'.dirs
    <3>1. Now'.dirs = 0
      BY <2>3 DEF Outset
    <3>2. ordinal' \in Nat
      BY <1>4 DEF Numbered
    <3>3. base' = ordinal'
      BY <1>1
    <3>4. QED
      <4>1. \A b \in Nat : b = b + 0
        OBVIOUS
      <4>2. ordinal' = base' + 0
        BY <3>2, <3>3, <4>1
      <4>3. QED
        BY <3>1, <4>2
  <2>6. ShowsAsIdeal' /\ MeasuredAsIdeal'
    BY <2>3 DEF ShowsAsIdeal, MeasuredAsIdeal, Outset
  <2>7. 1..stage' - 1 = {}
    BY <1>1
  <2>8. StepsDid' /\ CheckersSaid'
    BY <2>7 DEF StepsDid, CheckersSaid
  <2>9. Deserving'
    <3>1. \A m : ~MeasuredBefore(profile', stage', m)
      BY <2>7 DEF MeasuredBefore
    <3>2. base' = 1 => \A m \in Metric : ~metrics'[m].bad
      BY <1>1, <1>4 DEF Numbered
    <3>3. QED
      BY <1>1, <3>1, <3>2 DEF Deserving
  <2>10. QED
    BY <1>1, <2>4, <2>5, <2>6, <2>8, <2>9 DEF Underway
<1>6. (RunIsJudgedByItsDesign /\ SuccessIsOneDesign /\ InputsAreFound)'
  BY <1>1 DEF RunIsJudgedByItsDesign, SuccessMeansClean, BlameIsDeserved, SuccessIsOneDesign, ViewsAgree,
              SignoffSeesFinalLayout, InputsAreFound, NeverStarved, PlacementIsWhereExpected, Succeeded
<1>7. QED
  BY <1>4, <1>5, <1>6 DEF Judged

\* A run that goes on leaves the books in order.
LEMMA StaysNumbered ==
  ASSUME Numbered, pc = "run" => Underway, Loop
  PROVE  Numbered'
<1>1. profile' = profile /\ base' = base /\ pc = "run"
  BY DEF Loop, Gated, MissingInput, DoNothing, Work, DiesUnnoticed, Clear, Defer, ErrAtOnce, ToolFails,
         Finish, GoOn, EndAtStep, kept, Started, AtStep
<1>2. (ordinal' = ordinal /\ ~Work) \/ ordinal' = ordinal + 1
  BY DEF Loop, Gated, MissingInput, DoNothing, Work, DiesUnnoticed, Clear, Defer, ErrAtOnce, ToolFails,
         Finish, GoOn, EndAtStep, Started
<1>3. /\ Work \/ views' = views
      /\ Work \/ DiesUnnoticed \/ metrics' = metrics
  BY DEF Loop, Gated, MissingInput, DoNothing, DiesUnnoticed, Clear, Defer, ErrAtOnce, ToolFails, Finish,
         EndAtStep
<1>4. pc' = "run" => result' = "none" /\ blame' = {}
  BY <1>1 DEF Numbered, Loop, Gated, MissingInput, DoNothing, Work, DiesUnnoticed, Clear, Defer, ErrAtOnce,
              ToolFails, Finish, GoOn, EndAtStep
<1>5. \A v \in View : views'[v] \in Revision
  <2>1. CASE Work
    <3>1. AtStep /\ views' = [v \in View |-> IF v \in Current.out THEN Written ELSE views[v]]
      BY <2>1 DEF Work, Started, Written
    <3>2. Written \in Revision
      BY <1>1, <3>1, WritesAsIdeal
    <3>3. QED
      BY <3>1, <3>2 DEF Numbered
  <2>2. QED
    BY <1>3, <2>1 DEF Numbered
<1>6. ordinal' \in Nat \ {0} /\ (ordinal' = 1 => \A m \in Metric : ~metrics'[m].bad)
  <2>1. DiesUnnoticed => ordinal' = ordinal + 1
    BY DEF DiesUnnoticed, GoOn
  <2>2. QED
    BY <1>2, <1>3, <2>1 DEF Numbered
<1>7. QED
  BY <1>1, <1>4, <1>5, <1>6 DEF Numbered

\* A run that ends at a step has asked for what is not there, or blames what is.
LEMMA EndsAtStepJudged ==
  ASSUME Numbered, Underway, MissingInput \/ ErrAtOnce \/ ToolFails
  PROVE  (RunIsJudgedByItsDesign /\ SuccessIsOneDesign /\ InputsAreFound)'
<1>1. /\ AtStep /\ ~Current.gated
      /\ UNCHANGED <<profile, design, base, lost>> /\ result' # "success"
      /\ result' = "exception" => MissingInput
      /\ blame' = {} \/ (ErrAtOnce /\ blame' = deferred \cup {Current.judges})
  BY DEF MissingInput, ErrAtOnce, ToolFails, Started, EndAtStep, kept
<1>2. BlameIsDeserved'
  <2>1. \A m \in blame' : Deserved(m)
    <3>1. ErrAtOnce => Deserved(Current.judges)
      BY <1>1, ExceedsDeserved DEF ErrAtOnce, Started, Judging, Errs, Acts
    <3>2. QED
      BY <1>1, <3>1 DEF Underway, Deserving
  <2>2. QED
    BY <1>1, <2>1 DEF BlameIsDeserved, Deserved
<1>3. NeverStarved'
  <2> SUFFICES ASSUME MissingInput PROVE ~(Reads[profile] \subseteq Writes[profile] \ lost)
    BY <1>1 DEF NeverStarved
  <2>1. PICK v \in Current.in : views[v] = NoView
    BY DEF MissingInput, Missing
  <2>2. /\ profile \in Profiles /\ stage \in 1..Len(Program[profile])
        /\ Current = Program[profile][stage]
    BY <1>1, AtAStep
  <2>3. v \in Reads[profile] /\ (v \in Writes[profile] => WrittenBefore(profile, stage, v))
    BY <1>1, <2>2, OrderAssumption
  <2>4. CASE v \in Writes[profile]
    <3>1. PICK j \in 1..stage - 1 : Works(Program[profile][j]) /\ v \in Program[profile][j].out
      BY <2>3, <2>4 DEF WrittenBefore
    <3>2. v \in lost \/ views[v]["layout"] # 0
      BY <3>1 DEF Underway, StepsDid, Did
    <3>3. v \in lost
      BY <2>1, <3>2 DEF NoView
    <3>4. QED
      BY <2>3, <3>3
  <2>5. QED
    BY <2>3, <2>4
<1>4. QED
  BY <1>1, <1>2, <1>3 DEF RunIsJudgedByItsDesign, SuccessMeansClean, SuccessIsOneDesign, ViewsAgree,
                          SignoffSeesFinalLayout, InputsAreFound, PlacementIsWhereExpected, Succeeded

\* What a view shows at the end of a run is saved.
LEMMA Saved ==
  ASSUME Numbered, Underway, Finish, NEW v \in View, v \notin lost, NEW k \in {"layout", "nets"},
         Now.views[v][k] # 0, Now.views[v][k] \in Nat
  PROVE  final'[v] = views[v] /\ views[v][k] = base - 1 + Now.views[v][k] /\ final'[v] # NoView
<1>1. views[v][k] = base - 1 + Now.views[v][k]
  BY DEF Underway, ShowsAsIdeal
<1>2. views[v][k] # 0
  BY <1>1 DEF Numbered
<1>3. views[v] # NoView
  BY <1>2 DEF NoView
<1>4. QED
  BY <1>1, <1>3 DEF Finish

\* A run that ends is judged by its design, and leaves one design.
LEMMA FinishesJudged ==
  ASSUME Numbered, Underway, Finish
  PROVE  (RunIsJudgedByItsDesign /\ SuccessIsOneDesign /\ InputsAreFound)'
<1> DEFINE last == Len(Program[profile])
<1>1. /\ UNCHANGED <<profile, design, base, lost, metrics, placed, views>> /\ blame' = deferred
      /\ result' = IF deferred = {} THEN "success" ELSE "failed"
      /\ stage = last + 1
      /\ final' = [v \in View |-> IF views[v] = NoView THEN final[v] ELSE views[v]]
  BY DEF Finish, kept
<1>2. /\ profile \in Profiles /\ last \in Nat /\ stage - 1 = last
      /\ \A i \in 1..last : Shaped(Program[profile][i])
      /\ DOMAIN Program[profile] = 1..last
  BY <1>1, StepsAssumption DEF Numbered
<1> HIDE DEF last
<1>3. Repairs \in BOOLEAN /\ Now = Undisturbed(profile, Repairs)[last] /\ Now \in Sketch
  <2>1. Repairs \in BOOLEAN
    BY DEF Repairs
  <2>2. last \in 0..last
    BY <1>2
  <2>3. QED
    BY <1>2, <2>1, <2>2, RunGoesOn DEF Now, Ideal, last
<1>4. lost \subseteq Mortal /\ base \in Nat \ {0}
  BY DEF Underway, Numbered
<1>5. \A v \in View, k \in {"layout", "nets"} : Now.views[v][k] \in Nat
  BY <1>3 DEF Sketch, Revision
<1>6. \A s \in Active[profile] : \E j \in 1..stage - 1 : s = Program[profile][j] /\ Acts(s)
  BY <1>2 DEF Active, Acts, Range
<1>7. BlameIsDeserved'
  <2>1. \A m \in deferred : Deserved(m)
    BY DEF Underway, Deserving
  <2>2. QED
    BY <1>1, <2>1 DEF BlameIsDeserved, Deserved
<1>8. NeverStarved'
  BY <1>1 DEF NeverStarved
<1>9. CASE deferred # {}
  <2>1. result' = "failed"
    BY <1>1, <1>9
  <2>2. QED
    BY <1>7, <1>8, <2>1 DEF RunIsJudgedByItsDesign, SuccessMeansClean, SuccessIsOneDesign, ViewsAgree,
                            SignoffSeesFinalLayout, InputsAreFound, PlacementIsWhereExpected, Succeeded
<1>10. CASE deferred = {}
  <2>1. SuccessMeansClean'
    <3> SUFFICES ASSUME NEW m \in design \cap Measures[profile] \cap (Judges[profile] \ Tolerates[profile])
                 PROVE  m \in lost
      BY <1>1 DEF SuccessMeansClean
    <3>1. PICK s \in Active[profile] : s.judges = m
      BY <1>2 DEF Judges
    <3>2. PICK j \in 1..stage - 1 : s = Program[profile][j] /\ Acts(s)
      BY <1>6
    <3>3. Fatal(m)
      BY <1>2 DEF Fatal, Judges
    <3>4. QED
      BY <1>10, <3>1, <3>2, <3>3 DEF Underway, CheckersSaid
  <2>2. ViewsAgree'
    <3>1. "DEF" \in View \ lost
      BY <1>4 DEF View, Mortal
    <3>2. ASSUME NEW v \in Alike \cap (Writes[profile] \ lost)
          PROVE  /\ final'[v].nets = final'["DEF"].nets
                 /\ IF v \in Beyond(profile) THEN final'[v].layout > final'["DEF"].layout
                                             ELSE final'[v].layout = final'["DEF"].layout
      <4>1. v \in View \ lost
        BY DEF Alike, View
      <4>2. /\ Now.views["DEF"]["layout"] # 0
            /\ Said("nets", Now.views[v], Now.views["DEF"])
            /\ IF v \in Beyond(profile) THEN Now.views[v]["layout"] > Now.views["DEF"]["layout"]
                                        ELSE Now.views[v]["layout"] = Now.views["DEF"]["layout"]
        BY <1>2, <1>3, EndAssumption DEF last
      <4>3. \A k \in {"layout", "nets"} : Now.views[v][k] \in Nat /\ Now.views["DEF"][k] \in Nat
        BY <1>5, <3>1, <4>1
      <4>4. Now.views[v]["nets"] = Now.views["DEF"]["nets"] /\ Now.views[v]["nets"] # 0
            /\ Now.views[v]["layout"] # 0
        BY <4>2, <4>3 DEF Said
      <4>5. /\ final'[v] = views[v] /\ final'["DEF"] = views["DEF"]
            /\ \A k \in {"layout", "nets"} : /\ views[v][k] = base - 1 + Now.views[v][k]
                                             /\ views["DEF"][k] = base - 1 + Now.views["DEF"][k]
        BY <3>1, <4>1, <4>2, <4>3, <4>4, Saved
      <4>6. final'[v].nets = final'["DEF"].nets
        BY <4>4, <4>5
      <4>7. /\ final'[v].layout = base - 1 + Now.views[v]["layout"]
            /\ final'["DEF"].layout = base - 1 + Now.views["DEF"]["layout"]
        BY <4>5
      <4>8. QED
        BY <1>4, <4>2, <4>3, <4>6, <4>7
    <3>4. ASSUME ~NetlistsBehind(profile), NEW v \in Netlists \cap Writes[profile]
          PROVE  final'[v].nets = final'["DEF"].nets
      <4>1. Said("nets", Now.views[v], Now.views["DEF"])
        BY <1>2, <1>3, <3>4, EndAssumption DEF last
      <4>2. v \in View \ lost /\ "DEF" \in View \ lost
        BY <1>4 DEF View, Netlists, Mortal
      <4>3. QED
        BY <1>5, <4>1, <4>2, Saved DEF Said
    <3>5. QED
      BY <1>1, <3>2, <3>4 DEF ViewsAgree
  <2>3. SignoffSeesFinalLayout'
    <3> SUFFICES ASSUME NEW m \in (SignoffMetrics(profile) \cap Measures[profile] \cap Judges[profile]) \ lost
                 PROVE  metrics[m].at >= base /\ metrics[m].of = final'[Subject(profile, m)].layout
      BY <1>1 DEF SignoffSeesFinalLayout
    <3>1. Now.of[m] = Now.views[Subject(profile, m)].layout /\ Now.of[m] # 0
      BY <1>2, <1>3, EndAssumption DEF last
    <3>2. m # "power_grid" /\ Subject(profile, m) \in View \ lost
      BY <1>4 DEF SignoffMetrics, Timing, Subject, View, Mortal
    <3>3. m \in Metric
      <4>1. PICK s \in Active[profile] : m \in s.measures
        BY <1>2 DEF Measures
      <4>2. QED
        BY <1>2, <1>6, <4>1 DEF Shaped
    <3>4. metrics[m].at >= base /\ metrics[m].of = base - 1 + Now.of[m]
      BY <3>1, <3>2, <3>3 DEF Underway, MeasuredAsIdeal
    <3>5. final'[Subject(profile, m)].layout = base - 1 + Now.views[Subject(profile, m)].layout
      BY <1>5, <3>1, <3>2, Saved
    <3>6. QED
      BY <3>1, <3>4, <3>5
  <2>4. PlacementIsWhereExpected'
    <3> SUFFICES ASSUME profile = Access, base = 1 PROVE InputsPresent'
      BY <1>1 DEF PlacementIsWhereExpected
    <3>1. PICK i \in 1..last :
            LET s == Program[Access][i]
            IN  /\ Works(s) /\ ~s.tacit /\ s.id = "OpenROAD.DetailedPlacement"
                /\ \A repairs \in BOOLEAN : Undisturbed(Access, repairs)[i - 1].dirs = PlacementDir - 1
      BY AccessAssumption DEF last
    <3>2. base + Ideal[i - 1].dirs \in DOMAIN placed
      BY <1>2, <3>1 DEF Underway, StepsDid, Did
    <3>3. Ideal[i - 1].dirs = 30
      BY <1>3, <3>1 DEF Ideal, PlacementDir
    <3>4. PlacementDir \in DOMAIN placed'
      BY <1>1, <3>2, <3>3 DEF PlacementDir
    <3>5. ASSUME NEW v \in {"GDS", "PNL"} PROVE final'[v] # NoView
      <4>1. v \in Writes[profile] /\ v \in View \ lost
        BY <1>4, AccessAssumption DEF View, Mortal
      <4>2. PICK s \in Active[profile] : v \in s.out
        BY <1>2, <4>1 DEF Writes
      <4>3. PICK j \in 1..stage - 1 : s = Program[profile][j] /\ Acts(s)
        BY <1>6
      <4>4. Works(s)
        BY <1>2, <4>2, <4>3 DEF Shaped, Works, Acts
      <4>5. views[v]["layout"] # 0
        BY <4>1, <4>2, <4>3, <4>4 DEF Underway, StepsDid, Did
      <4>6. views[v] # NoView
        BY <4>5 DEF NoView
      <4>7. QED
        BY <1>1, <4>1, <4>6
    <3>6. QED
      BY <3>4, <3>5 DEF InputsPresent
  <2>5. QED
    BY <1>7, <1>8, <2>1, <2>2, <2>3, <2>4 DEF RunIsJudgedByItsDesign, SuccessIsOneDesign, InputsAreFound
<1>11. QED
  BY <1>9, <1>10
-----------------------------------------------------------------------------
LEMMA JudgedStarts == DigitalInit => Judged
<1> SUFFICES ASSUME DigitalInit PROVE Judged
  OBVIOUS
<1>1. /\ profile \in Profiles /\ pc = "idle" /\ ordinal = 1 /\ base = 1 /\ views = NoViews
      /\ metrics = NoMetrics /\ blame = {} /\ result = "none"
  BY DEF DigitalInit, Init
<1>2. Numbered
  <2>1. \A v \in View : views[v] \in Revision
    BY <1>1 DEF NoViews, NoView, Revision
  <2>2. \A m \in Metric : ~metrics[m].bad
    BY <1>1 DEF NoMetrics, NoMetric
  <2>3. QED
    BY <1>1, <2>1, <2>2 DEF Numbered
<1>3. QED
  BY <1>1, <1>2 DEF Judged, RunIsJudgedByItsDesign, SuccessMeansClean, BlameIsDeserved, SuccessIsOneDesign,
                    ViewsAgree, SignoffSeesFinalLayout, InputsAreFound, NeverStarved,
                    PlacementIsWhereExpected, Succeeded

\* What lies between two runs stays as it was judged.
LEMMA RestKeeps == ASSUME Judged, UNCHANGED vars PROVE Judged'
<1>1. Numbered' /\ RunIsJudgedByItsDesign' /\ SuccessIsOneDesign' /\ InputsAreFound'
  BY DEF Judged, vars, Numbered, RunIsJudgedByItsDesign, SuccessMeansClean, BlameIsDeserved,
         SuccessIsOneDesign, ViewsAgree, SignoffSeesFinalLayout, InputsAreFound, NeverStarved,
         PlacementIsWhereExpected, InputsPresent, Succeeded
<1>2. Underway => Underway'
  BY DEF vars, Underway, Now, Ideal, Repairs, ShowsAsIdeal, MeasuredAsIdeal, StepsDid, Did, CheckersSaid,
         Fatal, Deserving, Deserved
<1>3. QED
  BY <1>1, <1>2 DEF Judged, vars

LEMMA LoopJudges == ASSUME Judged, Loop PROVE Judged'
<1>1. Numbered /\ pc = "run" /\ Underway
  BY DEF Judged, Loop, Gated, MissingInput, DoNothing, Work, DiesUnnoticed, Clear, Defer, ErrAtOnce,
         ToolFails, Finish, Started, AtStep
<1>2. Numbered'
  BY <1>1, StaysNumbered
<1>3. CASE Gated \/ DoNothing \/ DiesUnnoticed \/ Clear \/ Defer \/ Work
  <2>1. Underway'
    BY <1>1, <1>3, PassingKeeps, WorkKeeps
  <2>2. pc' = "run" /\ result' = "none" /\ blame' = {}
    BY <1>1, <1>3 DEF Numbered, Gated, DoNothing, DiesUnnoticed, Clear, Defer, Work, GoOn
  <2>3. (RunIsJudgedByItsDesign /\ SuccessIsOneDesign /\ InputsAreFound)'
    BY <2>2 DEF RunIsJudgedByItsDesign, SuccessMeansClean, BlameIsDeserved, SuccessIsOneDesign, ViewsAgree,
                SignoffSeesFinalLayout, InputsAreFound, NeverStarved, PlacementIsWhereExpected, Succeeded
  <2>4. QED
    BY <1>2, <2>1, <2>3 DEF Judged
<1>4. CASE MissingInput \/ ErrAtOnce \/ ToolFails \/ Finish
  <2>1. (RunIsJudgedByItsDesign /\ SuccessIsOneDesign /\ InputsAreFound)'
    BY <1>1, <1>4, EndsAtStepJudged, FinishesJudged
  <2>2. pc' = "idle"
    BY <1>4 DEF MissingInput, ErrAtOnce, ToolFails, Finish, EndAtStep
  <2>3. QED
    BY <1>2, <2>1, <2>2 DEF Judged
<1>5. QED
  BY <1>3, <1>4 DEF Loop

LEMMA JudgedKeeps == Judged /\ [DigitalNext]_allVars => Judged'
<1> SUFFICES ASSUME Judged, [DigitalNext]_allVars PROVE Judged'
  OBVIOUS
<1>1. Numbered
  BY DEF Judged
<1>2. CASE StartFlow \/ StartDirect \/ StartTests
  <2>1. PICK p \in Profiles, d \in Designs : Begin(p, d) \/ BeginAfresh(p, d)
    BY <1>2, AccessAssumption DEF StartFlow, StartDirect, StartTests, Librelane
  <2>2. QED
    BY <1>1, <2>1, StartsUnderway
<1>3. CASE InLibrelane
  BY <1>3, LoopJudges DEF InLibrelane
<1>4. CASE UNCHANGED vars
  BY <1>4, RestKeeps
<1>5. UNCHANGED allVars => UNCHANGED vars
  BY DEF allVars
<1>6. StartCore \/ LibrelaneEnds \/ CoreFlow \/ Package \/ Breaks => UNCHANGED vars
  BY DEF StartCore, LibrelaneEnds, CoreFlow, CheckInputs, Route, Stream, Drc, Power, Extract, Lvs, Official,
         Pass, Package, Breaks
<1>7. QED
  BY <1>2, <1>3, <1>4, <1>5, <1>6 DEF DigitalNext

\* What a run says of its design is what the design deserves, whatever earlier runs
\* left in the run directory: a success has no defect that a step looks for and a
\* checker stops at, and a failure blames nothing that is not there.
\* (SequentialFlow.run over Classic.Steps)
THEOREM RunsAreJudged == DigitalSpec => []RunIsJudgedByItsDesign
<1>1. Judged => RunIsJudgedByItsDesign
  BY DEF Judged
<1>2. QED
  BY <1>1, JudgedStarts, JudgedKeeps, PTL DEF DigitalSpec

\* The views of a successful run are of one design, and its sign-off was on them:
\* nothing that repairs, fills or finishes the layout moves it behind a tool's back.
\* (Classic.Steps, save_snapshot into final/)
THEOREM SuccessesAreOneDesign == DigitalSpec => []SuccessIsOneDesign
<1>1. Judged => SuccessIsOneDesign
  BY DEF Judged
<1>2. QED
  BY <1>1, JudgedStarts, JudgedKeeps, PTL DEF DigitalSpec

\* Whoever asks for a file finds it: a step the views of others, unless what writes
\* them is off or died, and run_digital_core_flow.sh the placement in step directory
\* 31 of a run in an empty directory.
THEOREM InputsAreAlwaysFound == DigitalSpec => []InputsAreFound
<1>1. Judged => InputsAreFound
  BY DEF Judged
<1>2. QED
  BY <1>1, JudgedStarts, JudgedKeeps, PTL DEF DigitalSpec
=============================================================================
