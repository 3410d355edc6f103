--------------------------- MODULE ConnectedPower ---------------------------
(***************************************************************************)
(* The check of the drawn supply network (check_connected_power.py): the   *)
(* merged polygons of both metals are joined by vias with a union-find     *)
(* forest, and the supply labels must sit on one tree each.                *)
(*                                                                         *)
(* A grid is what the script sees of a layout:                             *)
(*   n       the number of polygons,                                       *)
(*   vias    the sequence of the sets of polygons found at a via's centre, *)
(*   labels  a set of [group, on]: the polygons of its own layer at a      *)
(*           label, none of them or one.                                   *)
(* (A polygon with a hole is found in its hole too: not in these grids.)   *)
(***************************************************************************)
EXTENDS Naturals, FiniteSets, FiniteSetsExt, Sequences

Groups == {"ground", "power"}

GridTyped(grid) ==
  /\ grid.n \in Nat
  /\ grid.vias \in Seq(SUBSET (1..grid.n))
  /\ \A l \in grid.labels :
       l.group \in Groups /\ l.on \in SUBSET (1..grid.n) /\ \A a, b \in l.on : a = b

\* find: up to the polygon that is its own parent.  (The halving of paths on the
\* way changes no root.)
Find(parent, item) ==
  LET root[i \in DOMAIN parent] == IF parent[i] = i THEN i ELSE root[parent[i]]
  IN  root[item]

\* union; if both have one root this changes nothing.
Union(parent, left, right) ==
  [parent EXCEPT ![Find(parent, right)] = Find(parent, left)]

\* The first polygon at a via is joined with each of the others, in order.
JoinedAt(parent, hits) ==
  LET first == Min(hits)
      upto[k \in 0..Max(hits)] ==
        IF k = 0 THEN parent
        ELSE IF k \in hits \ {first} THEN Union(upto[k - 1], first, k) ELSE upto[k - 1]
  IN  IF hits = {} THEN parent ELSE upto[Max(hits)]

Forest(grid) ==
  LET upto[v \in 0..Len(grid.vias)] ==
        IF v = 0 THEN [i \in 1..grid.n |-> i] ELSE JoinedAt(upto[v - 1], grid.vias[v])
  IN  upto[Len(grid.vias)]

Roots(grid, group) ==
  LET forest == Forest(grid)
  IN  {Find(forest, Min(label.on)) : label \in {l \in grid.labels : l.group = group /\ l.on # {}}}

\* main prints PASS and exits with 0.
PowerConnected(grid) ==
  /\ \A group \in Groups : Cardinality(Roots(grid, group)) = 1
  /\ \A label \in grid.labels : label.on # {}
  /\ Roots(grid, "ground") \cap Roots(grid, "power") = {}
-----------------------------------------------------------------------------
\* What that should mean.  Two polygons are connected if no set of polygons that
\* every via leaves whole tells them apart.
Whole(grid) == {P \in SUBSET (1..grid.n) :
                  \A v \in DOMAIN grid.vias : grid.vias[v] \subseteq P \/ grid.vias[v] \cap P = {}}

Connected(grid, a, b) == \A P \in Whole(grid) : a \in P <=> b \in P

\* Both supplies are labelled, each label lies on metal, and two labels are
\* connected exactly if they are of one supply.
Supplied(grid) ==
  /\ {label.group : label \in grid.labels} = Groups
  /\ \A label \in grid.labels : label.on # {}
  /\ \A k, l \in grid.labels :
       \A a \in k.on, b \in l.on : Connected(grid, a, b) <=> k.group = l.group
=============================================================================
