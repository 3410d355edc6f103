----------------------------- MODULE Parasitics -----------------------------
(* extract_tr1um_parasitics.py: every wire of a routed DEF is cut where other *)
(* wires, vias and located pins of its net touch it; each piece becomes two   *)
(* resistors about a midpoint that carries the capacitances. Vias and pins    *)
(* are joined to the nearest nodes, neighbours and crossing layers coupled.   *)
(* Coordinates are even, so that midpoints are whole; a capacitance is an     *)
(* area, a length or a length weighted by the distance.                       *)
EXTENDS Integers, FiniteSets, Sequences, SequencesExt, FiniteSetsExt

CONSTANTS
  Layouts,      \* [wires, vias, pins] of a DEF, [gds, shapes, region] of a GDS if gds,
                \* [devices, ports] of an extracted netlist
  MaxDistance,  \* beyond which parallel wires are not coupled
  Modelled,     \* layers the RC model knows
  Substrate,    \* net of the substrate
  Well          \* net of the wells

ASSUME ParasiticsAssumption == MaxDistance \in Nat /\ {"M1", "M2"} \subseteq Modelled
\* A segment of a DEF has a length (the parser drops one that has none) and runs
\* along one axis; a via has a place.
ASSUME LayoutsAssumption ==
  \A l \in Layouts :
    /\ l.wires \in Seq([net : STRING, layer : STRING, from : Int \X Int, to : Int \X Int, width : Nat])
    /\ l.vias \in Seq([net : STRING, at : Int \X Int])
    /\ l.pins \in Seq([net : STRING, at : (Int \X Int) \cup {<<>>}])
    /\ \A n \in DOMAIN l.wires : \E d \in 1..2 : /\ l.wires[n].from[d] = l.wires[n].to[d]
                                              /\ l.wires[n].from[3 - d] # l.wires[n].to[3 - d]

VARIABLES
  layout,
  nodes,     \* routed nodes in the order they are numbered: [net, layer, at]
  pieces,    \* of cut wires: [wire, first, mid, last, length]
  anchor,    \* net -> the node its unlocated pins and device terminals go to
  joints,    \* resistors of vias and pins, as pairs of nodes; {} where a pin has none
  attached,  \* number of a pin -> the node it is joined to
  ground,    \* capacitors to ground: {[by, node, cap]}, by = what makes it
  coupling,  \* capacitors between two nodes: {[by, ends, cap]}
  spef,      \* net -> its total capacitance in the SPEF
  left,      \* wires or vias still to do
  doing      \* the stage the extraction is in
rcVars == <<layout, nodes, pieces, anchor, joints, attached, ground, coupling, spef, left, doing>>
-----------------------------------------------------------------------------
(* Wires and boxes.                                                          *)
Wires == layout.wires
Abs(n) == IF n < 0 THEN -n ELSE n
Axis(w) == IF Abs(w.to[1] - w.from[1]) >= Abs(w.to[2] - w.from[2]) THEN 1 ELSE 2
Low(w) == Min({w.from[Axis(w)], w.to[Axis(w)]})
High(w) == Max({w.from[Axis(w)], w.to[Axis(w)]})
Across(w) == w.from[3 - Axis(w)]
Point(w, along) == IF Axis(w) = 1 THEN <<along, Across(w)>> ELSE <<Across(w), along>>
Distance(p, q) == Abs(p[1] - q[1]) + Abs(p[2] - q[2])

\* A box is <<lowest x, lowest y, highest x, highest y>>.
Box(w) == LET half == w.width \div 2
              a == Point(w, Low(w)) b == Point(w, High(w))
          IN  <<a[1] - half, a[2] - half, b[1] + half, b[2] + half>>
Area(a, b) == LET side(d) == Max({0, Min({a[d + 2], b[d + 2]}) - Max({a[d], b[d]})}) IN side(1) * side(2)
Overlap(a, b) == Max({0, Min({High(a), High(b)}) - Max({Low(a), Low(b)})})
Spacing(a, b) == Max({0, Abs(Across(a) - Across(b)) - (a.width + b.width) \div 2})

\* Where along wire w the place p of a via or pin falls, within its half width.
Projected(w, p) ==
  LET half == w.width \div 2
  IN  IF p[Axis(w)] \in (Low(w) - half)..(High(w) + half) /\ Abs(p[3 - Axis(w)] - Across(w)) <= half
      THEN {Max({Low(w), Min({High(w), p[Axis(w)]})})} ELSE {}

\* Where along w another wire touches it.
\* Mutant of Crossed: only wires that run across it are looked at.
CrossedAcross(w, o) ==
  IF o.net = w.net /\ o.layer = w.layer /\ Axis(o) # Axis(w)
     /\ Across(o) \in Low(w)..High(w) /\ Across(w) \in Low(o)..High(o)
  THEN {Across(o)} ELSE {}
Crossed(w, o) ==
  LET sameWay == Axis(o) = Axis(w)
      from == Max({Low(w), Low(o)})
      to == Min({High(w), High(o)})
  IN  IF o.net # w.net \/ o.layer # w.layer THEN {}
      ELSE IF sameWay THEN IF Across(o) = Across(w) /\ from <= to THEN {from, to} ELSE {}
      ELSE IF Across(o) \in Low(w)..High(w) /\ Across(w) \in Low(o)..High(o) THEN {Across(o)} ELSE {}

Located(pin) == pin.at # <<>>
Ascending(S) == [n \in 1..Cardinality(S) |-> CHOOSE x \in S : Cardinality({y \in S : y < x}) = n - 1]
Others(w) == {Wires[i] : i \in {j \in DOMAIN Wires : Wires[j] # w}}
PlacesOf(w) == {v.at : v \in {x \in ToSet(layout.vias) : x.net = w.net /\ w.layer \in {"M1", "M2"}}}
               \cup {p.at : p \in {x \in ToSet(layout.pins) : x.net = w.net /\ Located(x)}}
CutPlaces(w) ==
  {Low(w), High(w)} \cup (UNION {Crossed(w, o) : o \in Others(w)}) \cup (UNION {Projected(w, p) : p \in PlacesOf(w)})
Cuts(w) == Ascending(CutPlaces(w))
-----------------------------------------------------------------------------
(* Nodes.                                                                    *)
\* A node is <<net, number>>; 0 stands for the net's own name and -j for pin j.
Id(k) == <<nodes[k].net, k>>
\* Of the routed nodes in set S those nearest to p, whose coordinates are doubled.
Nearest(S, p) == {k \in S : \A j \in S : Distance(<<2 * nodes[k].at[1], 2 * nodes[k].at[2]>>, p)
                                           <= Distance(<<2 * nodes[j].at[1], 2 * nodes[j].at[2]>>, p)}
Doubled(p) == <<2 * p[1], 2 * p[2]>>
Nets == {w.net : w \in ToSet(Wires)} \cup {v.net : v \in ToSet(layout.vias)} \cup {p.net : p \in ToSet(layout.pins)}
RoutedOf(net, layers) == {k \in DOMAIN nodes : nodes[k].net = net /\ nodes[k].layer \in layers}
Canonical(name) == IF name \in DOMAIN anchor THEN anchor[name] ELSE <<name, 0>>
Node(net, layer, at) == [net |-> net, layer |-> layer, at |-> at]

RcInit ==
  /\ layout \in Layouts
  /\ nodes = <<>> /\ pieces = <<>> /\ anchor = <<>> /\ joints = <<>> /\ attached = <<>>
  /\ ground = {} /\ coupling = {} /\ spef = <<>>
  /\ left = Len(layout.wires)
  /\ doing = IF {w.layer : w \in ToSet(layout.wires)} \subseteq Modelled THEN "wires" ELSE "refused"

\* coordinate_nodes is asked for a node at this place and never told of one: the
\* ends of a piece are always new nodes.
CutWire ==
  LET i == Len(Wires) - left + 1
      w == Wires[i]
      cut == Cuts(w)
      at(n) == Point(w, cut[n])
      middle(n) == Point(w, (cut[n] + cut[n + 1]) \div 2)
      spots(n) == <<at(n), at(n + 1), middle(n)>>
      new == [m \in 1..(3 * (Len(cut) - 1)) |-> Node(w.net, w.layer, spots((m + 2) \div 3)[1 + ((m - 1) % 3)])]
      k == Len(nodes)
  IN  /\ doing = "wires" /\ left > 0
      /\ nodes' = nodes \o new
      /\ pieces' = pieces \o [n \in 1..Len(cut) - 1 |->
           [wire |-> i, first |-> k + 3 * n - 2, last |-> k + 3 * n - 1, mid |-> k + 3 * n,
            length |-> cut[n + 1] - cut[n]]]
      /\ left' = left - 1
      /\ UNCHANGED <<layout, anchor, joints, attached, ground, coupling, spef, doing>>

\* The first node of a net in the order of names, where 10 comes before 2: its
\* first or its last number.
ChooseAnchors ==
  /\ doing = "wires" /\ left = 0
  /\ \E last \in SUBSET Nets :
       anchor' = [n \in Nets |-> LET own == RoutedOf(n, Modelled)
                                 IN  <<n, IF own = {} THEN 0 ELSE IF n \in last THEN Max(own) ELSE Min(own)>>]
  /\ left' = Len(layout.vias) /\ doing' = "vias"
  /\ UNCHANGED <<layout, nodes, pieces, joints, attached, ground, coupling, spef>>

\* A layer without a node of the net gets one at the via.
PlaceVia ==
  LET v == layout.vias[Len(layout.vias) - left + 1]
      near(layer) == Nearest(RoutedOf(v.net, {layer}), Doubled(v.at))
      lacking(layer) == IF RoutedOf(v.net, {layer}) = {} THEN <<layer>> ELSE <<>>
      missing == lacking("M1") \o lacking("M2")
      made(layer) == IF missing[1] = layer THEN Len(nodes) + 1 ELSE Len(nodes) + 2
      end(layer) == IF RoutedOf(v.net, {layer}) = {} THEN made(layer) ELSE Min(near(layer))
  IN  /\ doing = "vias" /\ left > 0
      /\ nodes' = nodes \o [n \in DOMAIN missing |-> Node(v.net, missing[n], v.at)]
      /\ joints' = Append(joints, {<<v.net, end("M1")>>, <<v.net, end("M2")>>})
      /\ left' = left - 1
      /\ UNCHANGED <<layout, pieces, anchor, attached, ground, coupling, spef, doing>>

\* A located pin goes to one of the nearest nodes of its net on whatever layer, any
\* other to the anchor; one that has no node to go to gets no resistor.
PlacePins ==
  /\ doing = "vias" /\ left = 0
  /\ \E last \in SUBSET DOMAIN layout.pins :
       LET pin(j) == layout.pins[j]
           own(j) == RoutedOf(pin(j).net, Modelled)
           near(j) == Nearest(own(j), Doubled(pin(j).at))
           target(j) == CASE ~Located(pin(j)) \/ own(j) = {} -> anchor[pin(j).net]
                          [] j \in last /\ Located(pin(j)) /\ own(j) # {} -> Id(Max(near(j)))
                          [] OTHER -> Id(Min(near(j)))
           joint(j) == IF target(j)[2] = 0 THEN {} ELSE {<<pin(j).net, -j>>, target(j)}
       IN  /\ attached' = [j \in DOMAIN layout.pins |-> target(j)]
           /\ joints' = joints \o [j \in DOMAIN layout.pins |-> joint(j)]
  /\ doing' = "capacitors"
  /\ UNCHANGED <<layout, nodes, pieces, anchor, ground, coupling, spef, left>>
-----------------------------------------------------------------------------
(* Capacitors.                                                               *)
WireCap(w, length) == length * (w.width + 2)
\* The midpoint of wire i nearest to a place, given doubled.
Midpoint(i, p) ==
  LET own == {pieces[n].mid : n \in {m \in DOMAIN pieces : pieces[m].wire = i}} IN Id(Min(Nearest(own, p)))

\* The wires of one layer and direction from the lowest to the highest.
Row(layer, axis) ==
  LET members == SelectSeq([i \in DOMAIN Wires |-> i],
                           LAMBDA i : Wires[i].layer = layer /\ Axis(Wires[i]) = axis)
  IN  SortSeq(members, LAMBDA i, j : \/ Across(Wires[i]) < Across(Wires[j])
                                     \/ Across(Wires[i]) = Across(Wires[j]) /\ i < j)
Gap(a, b) == Abs(Across(b) - Across(a)) - (a.width + b.width) \div 2

\* Of a row, the pairs the two loops reach: the inner one ends at the first wire
\* out of reach.
Reached(row) ==
  {p \in (1..Len(row)) \X (1..Len(row)) :
     p[1] < p[2] /\ \A k \in (p[1] + 1)..p[2] : Gap(Wires[row[p[1]]], Wires[row[k]]) <= MaxDistance}
\* Half-way between two wires, doubled.
Between(a, b) ==
  LET along == Max({Low(a), Low(b)}) + Min({High(a), High(b)})
      over == Across(a) + Across(b)
  IN  IF Axis(a) = 1 THEN <<along, over>> ELSE <<over, along>>
Lateral ==
  LET in(row) == {<<row[p[1]], row[p[2]]>> : p \in Reached(row)}
      pairs == UNION {in(Row(l, x)) : l \in Modelled, x \in 1..2}
      kept == {p \in pairs : LET a == Wires[p[1]] b == Wires[p[2]]
                             IN  a.net # b.net /\ Overlap(a, b) > 0 /\ Spacing(a, b) <= MaxDistance}
      one(p) == LET a == Wires[p[1]] b == Wires[p[2]]
                IN  [by |-> <<"lateral", p>>, cap |-> Overlap(a, b) * (MaxDistance + 1 - Spacing(a, b)),
                     ends |-> {Midpoint(p[1], Between(a, b)), Midpoint(p[2], Between(a, b))}]
  IN  {one(p) : p \in kept}

(* Overlaps of layers. A box of a wire or shape is [layer, net, box].         *)
BoxesOf(seq, layers) == SelectSeq([i \in DOMAIN seq |-> [layer |-> seq[i].layer, net |-> seq[i].net, box |-> Box(seq[i])]],
                                  LAMBDA b : b.layer \in layers)
OnWire(shape) == \E w \in ToSet(Wires) : w.layer = shape.layer /\ Area(Box(w), shape.box) > 0
\* The label of a shape in the GDS, or the net of the first wire under it; a bare
\* M3 shape is taken for the substrate's, and any other is not used.
Owner(shape) ==
  LET under == SelectSeq(Wires, LAMBDA w : w.layer = shape.layer /\ Area(Box(w), shape.box) > 0)
  IN  CASE shape.label \in Nets \cup {Substrate} -> shape.label
        [] shape.label \notin Nets \cup {Substrate} /\ under # <<>> -> Head(under).net
        [] OTHER -> IF shape.layer = "M3" THEN Substrate ELSE ""
Owned(shape) == [layer |-> shape.layer, net |-> Owner(shape), box |-> shape.box]

\* Mutant of Below: shapes that draw a wire of the DEF are used as well.
BelowTwice ==
  LET shapes == SelectSeq(layout.shapes, LAMBDA x : x.layer \in {"M1", "M2"} /\ Owner(x) # "")
  IN  BoxesOf(Wires, {"M1", "M2"}) \o [i \in DOMAIN shapes |-> Owned(shapes[i])]
Below ==
  LET shapes == SelectSeq(layout.shapes, LAMBDA x : x.layer \in {"M1", "M2"} /\ Owner(x) # "" /\ ~OnWire(x))
  IN  BoxesOf(Wires, {"M1", "M2"}) \o [i \in DOMAIN shapes |-> Owned(shapes[i])]
\* A wire on M3 counts by itself where no shape of the GDS draws it.
Above ==
  LET shapes == SelectSeq(layout.shapes, LAMBDA x : x.layer = "M3")
      bare == SelectSeq(BoxesOf(Wires, {"M3"}), LAMBDA b : \A x \in ToSet(shapes) : Area(x.box, b.box) = 0)
  IN  [i \in DOMAIN shapes |-> Owned(shapes[i])] \o bare

\* The routed node of the box's net and layer nearest to its centre, or the anchor.
NodeOf(b) ==
  LET own == RoutedOf(b.net, {b.layer}) centre == <<b.box[1] + b.box[3], b.box[2] + b.box[4]>>
  IN  IF own = {} THEN Canonical(b.net) ELSE Id(Min(Nearest(own, centre)))
\* A capacitor with both ends on one net is left out.
Coupled(list) == {c \in list : Cardinality({n[1] : n \in c.ends}) = 2 /\ c.cap > 0}
Crossings == {p \in (DOMAIN Wires) \X (DOMAIN Wires) : Wires[p[1]].layer = "M1" /\ Wires[p[2]].layer = "M2"}
MetalOverlaps ==
  LET centre(a, b) == <<Max({a[1], b[1]}) + Min({a[3], b[3]}), Max({a[2], b[2]}) + Min({a[4], b[4]})>>
      one(p) == LET a == Box(Wires[p[1]]) b == Box(Wires[p[2]])
                IN  [by |-> <<"metal", p>>, cap |-> Area(a, b), ends |-> {Midpoint(p[1], centre(a, b)), Midpoint(p[2], centre(a, b))}]
  IN  {one(p) : p \in Crossings}
Over == {p \in (DOMAIN Above) \X (DOMAIN Below) : Area(Above[p[1]].box, Below[p[2]].box) > 0}
BoxArea(b) == Area(b.box, b.box)

Capacitors ==
  LET wire(n) == [by |-> <<"wire", n>>, node |-> Id(pieces[n].mid),
                  cap |-> WireCap(Wires[pieces[n].wire], pieces[n].length)]
  IN  /\ doing = "capacitors"
      /\ ground' = {wire(n) : n \in DOMAIN pieces}
      /\ coupling' = Coupled(Lateral)
      /\ doing' = "overlaps"
      /\ UNCHANGED <<layout, nodes, pieces, anchor, joints, attached, spef, left>>

\* Over the substrate's M3 what lies below is coupled to ground; any other M3 to
\* ground itself and to what lies below of another net.
LayerOverlaps ==
  LET below(p) == Below[p[2]]
      area(p) == Area(Above[p[1]].box, below(p).box)
      shielded == {p \in Over : Above[p[1]].net = Substrate}
      free == {n \in DOMAIN Above : Above[n].net # Substrate}
  IN  /\ doing = "overlaps"
      /\ ground' = ground \cup {[by |-> <<"M3", n>>, node |-> NodeOf(Above[n]), cap |-> BoxArea(Above[n])] : n \in free}
                    \cup {[by |-> <<"shield", p>>, node |-> NodeOf(below(p)), cap |-> area(p)] : p \in shielded}
      /\ coupling' = coupling \cup Coupled(MetalOverlaps) \cup Coupled(
           {[by |-> <<"M3", p>>, cap |-> area(p), ends |-> {NodeOf(Above[p[1]]), NodeOf(below(p))}] : p \in Over \ shielded})
      /\ doing' = "devices"
      /\ UNCHANGED <<layout, nodes, pieces, anchor, joints, attached, spef, left>>

\* Resistors in a well go to the well's net if the cell has it as a port, and to
\* the substrate's otherwise; mixed geometry counts as substrate.
BulkNet == LET wanted == IF layout.gds /\ layout.region = "NW" THEN Well ELSE Substrate
           IN  IF wanted \in layout.ports \/ layout.ports = {} THEN {wanted} ELSE {Substrate} \cap layout.ports
\* The capacitors of a device: pairs of its nets. One without its dimensions has none.
Terms(d) ==
  CASE ~d.top \/ ~d.sized -> {}
    [] d.model = "F_RR" -> {<<d.ends[1], d.ends[3]>>}
    [] d.model = "F_RS" -> {<<d.ends[n], b>> : n \in 1..2, b \in BulkNet}
    [] OTHER -> {<<d.ends[2], d.ends[3]>>, <<d.ends[2], d.ends[1]>>}
Devices ==
  LET terms == UNION {{<<n, t>> : t \in Terms(layout.devices[n])} : n \in DOMAIN layout.devices}
  IN  /\ doing = "devices"
      /\ coupling' = coupling \cup Coupled(
           {[by |-> <<"device", x>>, cap |-> 1, ends |-> {Canonical(x[2][1]), Canonical(x[2][2])}] : x \in terms})
      /\ doing' = "report"
      /\ UNCHANGED <<layout, nodes, pieces, anchor, joints, attached, ground, spef, left>>

Total(S) == FoldSet(LAMBDA c, sum : sum + c.cap, 0, S)
GroundOf(net) == Total({g \in ground : g.node[1] = net})
CouplingOf(net) == Total({c \in coupling : \E n \in c.ends : n[1] = net})
\* A net with neither a capacitor nor a resistor has no section.
WriteSpef ==
  LET named == Nets \cup {g.node[1] : g \in ground} \cup UNION {{n[1] : n \in c.ends} : c \in coupling}
      resistive == {Wires[p.wire].net : p \in ToSet(pieces)} \cup UNION {{n[1] : n \in j} : j \in ToSet(joints)}
  IN  /\ doing = "report"
      /\ spef' = [net \in {n \in named : GroundOf(n) + CouplingOf(n) > 0 \/ n \in resistive} |->
                    GroundOf(net) + CouplingOf(net)]
      /\ doing' = "written"
      /\ UNCHANGED <<layout, nodes, pieces, anchor, joints, attached, ground, coupling, left>>

\* What joins the pieces of the wires to each other and to the pins.
Attach == ChooseAnchors \/ PlaceVia \/ PlacePins
RcNext == CutWire \/ Attach \/ Capacitors \/ LayerOverlaps \/ Devices \/ WriteSpef
RcSpec == RcInit /\ [][RcNext]_rcVars
-----------------------------------------------------------------------------
\* The points of a wire, for the properties.
Points(w) == {Point(w, x) : x \in Low(w)..High(w)}
Touching(i, j) == /\ i # j /\ Wires[i].net = Wires[j].net /\ Wires[i].layer = Wires[j].layer
                  /\ Points(Wires[i]) \cap Points(Wires[j]) # {}
CutAt(i) == UNION {{nodes[p.first].at, nodes[p.last].at} : p \in {x \in ToSet(pieces) : x.wire = i}}
On(net, layers, at) == \E w \in ToSet(Wires) : w.net = net /\ w.layer \in layers /\ at \in Points(w)

\* Wires that touch are both cut where they do; a via on a wire, and a pin on one,
\* is joined to a node that lies there and nowhere else (build_route_topology):
\* otherwise current takes a way round that the layout does not have.
WhatTouchesMeets ==
  doing = "written" =>
    /\ \A i, j \in DOMAIN Wires : Touching(i, j) => CutAt(i) \cap CutAt(j) # {}
    /\ \A n \in DOMAIN layout.vias : LET v == layout.vias[n] IN
         \A layer \in {"M1", "M2"} : On(v.net, {layer}, v.at) =>
           \E e \in joints[n] : nodes[e[2]].layer = layer /\ nodes[e[2]].at = v.at
    /\ \A n \in DOMAIN layout.pins : LET pin == layout.pins[n] IN
         Located(pin) /\ On(pin.net, Modelled, pin.at) => nodes[attached[n][2]].at = pin.at

\* What a net's capacitance should be, pair by pair, for wires of one width per
\* layer and a GDS that draws the wires of the DEF and nothing else.
Uniform == \A a, b \in ToSet(Wires) : a.layer = b.layer => a.width = b.width
DrawsWires ==
  LET drawn(layer) == {x.box : x \in {y \in ToSet(layout.shapes) : y.layer = layer}}
      routed(layer) == {Box(w) : w \in {v \in ToSet(Wires) : v.layer = layer}}
  IN  /\ drawn("M3") \in {{}, routed("M3")}
      /\ \A layer \in {"M1", "M2"} : drawn(layer) \subseteq routed(layer)
PairCap(a, b) ==
  CASE a.layer = b.layer ->
         IF Axis(a) = Axis(b) /\ Spacing(a, b) <= MaxDistance THEN Overlap(a, b) * (MaxDistance + 1 - Spacing(a, b)) ELSE 0
    [] OTHER -> Area(Box(a), Box(b))
Sum(S, f(_)) == FoldSet(LAMBDA x, sum : sum + f(x), 0, S)
Expected(net) ==
  LET of(n) == {i \in DOMAIN Wires : Wires[i].net = n}
      mine == of(net)
      ground1(i) == WireCap(Wires[i], High(Wires[i]) - Low(Wires[i]))
                    + IF Wires[i].layer = "M3" /\ net # Substrate THEN Area(Box(Wires[i]), Box(Wires[i])) ELSE 0
      shield(p) == IF Wires[p[1]].layer # "M3" /\ Wires[p[2]].layer = "M3" /\ Wires[p[2]].net = Substrate
                   THEN Area(Box(Wires[p[1]]), Box(Wires[p[2]])) ELSE 0
      pair(p) == LET a == Wires[p[1]] b == Wires[p[2]]
                     toM3 == {a.layer, b.layer} # {"M3"} /\ \E w \in {a, b} : w.layer = "M3" /\ w.net = Substrate
                 IN  IF toM3 THEN 0 ELSE PairCap(a, b)
      terms == {<<n, t>> : n \in DOMAIN layout.devices, t \in UNION {Terms(d) : d \in ToSet(layout.devices)}}
      term(x) == IF x[2] \in Terms(layout.devices[x[1]]) /\ x[2][1] # x[2][2] /\ net \in {x[2][1], x[2][2]} THEN 1 ELSE 0
  IN  Sum(mine, ground1) + Sum(mine \X (DOMAIN Wires), shield)
      + Sum(mine \X ((DOMAIN Wires) \ mine), pair) + Sum(terms, term)

\* The total of each section of the SPEF is that of the layout: each piece of wire,
\* each pair of neighbours, each overlap and each device counts once, however
\* the wires are cut, sorted and drawn (add_route_network, add_vertical_network,
\* add_device_network, write_spef).
TotalsAreTheLayouts ==
  doing = "written" /\ Uniform /\ DrawsWires =>
    \A net \in Nets \cup DOMAIN spef :
      Expected(net) = IF net \in DOMAIN spef THEN spef[net] ELSE 0

\* Wires that touch are one net for the current as well (flow/README.md:525-544,
\* "distributed RC network"): resistors lead from each to the other.
Neighbours(S) ==
  S \cup UNION {IF {p.first, p.mid, p.last} \cap S # {} THEN {p.first, p.mid, p.last} ELSE {} : p \in ToSet(pieces)}
    \cup UNION {IF {e[2] : e \in j} \cap S # {} THEN {e[2] : e \in j} ELSE {} : j \in ToSet(joints)}
ConnectedTo(k) == LET grown[n \in Nat] == IF n = 0 THEN {k} ELSE Neighbours(grown[n - 1])
                  IN  grown[Len(nodes) + Len(layout.pins)]
NetIsConnected ==
  doing = "written" =>
    \A p, q \in ToSet(pieces) : p.wire = q.wire \/ Touching(p.wire, q.wire) => q.mid \in ConnectedTo(p.mid)
=============================================================================
