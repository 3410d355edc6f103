------------------------------ MODULE MCModels ------------------------------
(* The programs that compute what the analyses are given, one case at a time: *)
(* cells are characterised, a layout is extracted, or its timing views made.  *)
EXTENDS Characterisation, Parasitics, TimingViews

-----------------------------------------------------------------------------
(* Both flip-flops and a cell of each kind of gate that is tied in a way of   *)
(* its own; one name that has no netlist. A measurement passes from some offset on, or up to one, or at     *)
(* every other offset of some stretch.                                        *)
Cell(name, base) == [name |-> name, base |-> base]
MCExtracted ==
  <<Cell("DEL1", "DEL1"), Cell("DFFR", "DFFR"), Cell("DFFS", "DFFS"), Cell("INV_X1", "INV"),
    Cell("MUX2", "MUX2"), Cell("NAND3", "NAND3"), Cell("NOR4", "NOR4"), Cell("OR2", "OR2"),
    Cell("XNOR2", "XNOR2"), Cell("XOR2", "XOR2")>>
MCAreas == ({x.name : x \in ToSet(MCExtracted)} \ {"DEL1"}) \cup {"TIEHI", "TIELO"}
MCSelections == {{}, {"DFFR", "XOR2", "NAND9"}, {"DFFS", "MUX2", "NOR4"}, {"XNOR2", "OR2", "NAND3", "INV_X1"}}
MCMeasurements ==
  {[o \in Grid |-> o >= t] : t \in {0, 1, 85, 256, 257}}
    \cup {[o \in Grid |-> o >= 200 \/ o \in 64..127], [o \in Grid |-> o % 3 = 1]}

-----------------------------------------------------------------------------
(* Up to three wires out of eleven, of three nets on three layers (and one on *)
(* a layer without a model), with vias, pins, shapes of a GDS and devices.    *)
Wire(net, layer, from, to, width) == [net |-> net, layer |-> layer, from |-> from, to |-> to, width |-> width]
MCWires ==
  {Wire("a", "M1", <<0, 0>>, <<8, 0>>, 2), Wire("a", "M1", <<4, -2>>, <<4, 2>>, 2),
   Wire("a", "M1", <<6, 0>>, <<12, 0>>, 2), Wire("a", "M2", <<4, 8>>, <<4, 0>>, 2),
   Wire("b", "M1", <<0, 4>>, <<12, 4>>, 2), Wire("b", "M1", <<0, 10>>, <<8, 10>>, 8),
   Wire("b", "M2", <<8, 0>>, <<8, 8>>, 2), Wire("b", "M3", <<0, 2>>, <<8, 2>>, 4),
   Wire("vss", "M3", <<4, 0>>, <<4, 12>>, 4), Wire("vss", "M1", <<0, -4>>, <<12, -4>>, 2),
   Wire("a", "M4", <<0, 0>>, <<2, 0>>, 2)}
\* Wires of different nets do not touch on a layer.
Legal(route) == \A a, b \in route : a.net # b.net /\ a.layer = b.layer => Area(Box(a), Box(b)) = 0
Routes == {route \in UNION {kSubset(k, MCWires) : k \in 0..3} : Legal(route)}
MCVias == {<<>>, <<[net |-> "a", at |-> <<4, 0>>]>>, <<[net |-> "a", at |-> <<8, 0>>], [net |-> "b", at |-> <<8, 4>>]>>}
Pin(net, at) == [net |-> net, at |-> at]
MCPins == {<<>>, <<Pin("a", <<2, 0>>), Pin("a", <<4, 4>>)>>, <<Pin("b", <<10, 4>>), Pin("c", <<0, 0>>)>>,
           <<Pin("a", <<>>), Pin("b", <<>>), Pin("a", <<-2, 1>>)>>}
Device(model, ends, top, sized) == [model |-> model, ends |-> ends, top |-> top, sized |-> sized]
MCDevices == <<Device("NMOS", <<"a", "b", "vss", "vss">>, TRUE, TRUE), Device("F_RR", <<"a", "c", "vss">>, TRUE, TRUE),
               Device("F_RS", <<"a", "b">>, TRUE, TRUE), Device("PMOS", <<"a", "b", "x", "vdd">>, FALSE, TRUE),
               Device("F_RS", <<"a", "b">>, TRUE, FALSE)>>
Shape(layer, box, label) == [layer |-> layer, box |-> box, label |-> label]
Drawn(wires) == [i \in DOMAIN wires |-> Shape(wires[i].layer, Box(wires[i]), "")]
Extra == <<Shape("M3", <<-10, -10, 20, 2>>, ""), Shape("M1", <<0, 20, 4, 24>>, "a"), Shape("M2", <<0, 0, 2, -8>>, "")>>
Def(wires, vias, pins, gds, shapes, region, devices, ports) ==
  [wires |-> wires, vias |-> vias, pins |-> pins, gds |-> gds, shapes |-> shapes, region |-> region,
   devices |-> devices, ports |-> ports]
Plain(wires, vias, pins) == Def(wires, vias, pins, FALSE, <<>>, "PSUB", <<>>, {})
MCLayouts ==
  LET lists == {SetToSeq(r) : r \in Routes}
  IN  {Plain(w, v, p) : w \in lists, v \in MCVias, p \in MCPins}
      \cup {Def(w, <<>>, <<Pin("c", <<>>)>>, TRUE, Extra, x[1], MCDevices, x[2]) :
              w \in lists, x \in {<<"NW", {}>>, <<"NW", {"vss", "vdd"}>>, <<"MIXED", {"a", "b"}>>}}
      \cup {Def(w, <<>>, <<Pin("c", <<>>)>>, TRUE, Drawn(w), "PSUB", MCDevices, {"vss"}) : w \in lists}
      \cup {Plain(Reverse(w), <<>>, <<>>) : w \in lists}

-----------------------------------------------------------------------------
(* A buffer, an inverter and a flip-flop, whose models say in different ways  *)
(* what they drive, in netlists and SPEFs that fit or do not.                 *)
Pins(out) == {"A", out, "VDD", "GND"}
Gate(name, out, declared, assigned, clocked) ==
  [name |-> name, ports |-> Pins(out), drives |-> {out}, declared |-> declared, assigned |-> assigned, clocked |-> clocked]
Ways(name, out) == {Gate(name, out, {out}, {}, {}), Gate(name, out, {}, {out}, {}), Gate(name, out, {}, {}, {out}),
                    Gate(name, out, {out}, {}, {out})}
Instance(cell, name, in, out, to) ==
  [cell |-> cell, name |-> name, pins |-> "A" :> in @@ out :> to @@ "VDD" :> "VDD" @@ "GND" :> "GND"]
Ring == <<Instance("BUF", "u1", "a", "Y", "n"), Instance("DFF", "u2", "n", "Q", "y"), Instance("BUF", "u3", "n", "Y", "z")>>
Net(net, resistors, connected, numbered) ==
  [net |-> net, total |-> 7, resistors |-> resistors, connected |-> connected, numbered |-> numbered]
Spefs == {<<Net("a", <<12>>, c, d), Net("n", r, FALSE, FALSE), Net("y", <<>>, FALSE, d), Net(x, <<>>, FALSE, FALSE)>> :
            c \in BOOLEAN, d \in BOOLEAN, r \in {<<>>, <<12>>, <<6, 6>>}, x \in {"z", "VDD", "nowhere"}}
         \cup {<<>>}
Delay(cell, instance, arcs) == [cell |-> cell, instance |-> instance, arcs |-> arcs]
Sdfs == {<<Delay("TOP", "", {<<"u1/Y", "u2/A">>}), Delay("BUF", "u1", arcs), Delay("DFF", "u2", more)>> :
           arcs \in {{}, {<<"A", "Y">>}}, more \in {{}, {<<"A", "Q">>, <<"B", "Q">>}}}
        \cup {<<Delay("BUF", "u1", {}), Delay("BUF", "u3", {<<"A", "Y">>}), Delay("NOR", "u4", {<<"A", "Y">>})>>}
MCPackages ==
  {[models |-> models, ports |-> "a" :> "I" @@ "y" :> "O" @@ "z" :> way, instances |-> Ring, spef |-> nets, sdf |-> sdf] :
     models \in {<<b, f>> : b \in Ways("BUF", "Y"), f \in Ways("DFF", "Q")}
                \cup {<<CHOOSE b \in Ways("BUF", "Y") : TRUE>>}
                \cup {<<b, f, b>> : b \in {CHOOSE x \in Ways("BUF", "Y") : TRUE}, f \in Ways("DFF", "Q")},
     way \in {"O", "B"}, nets \in Spefs, sdf \in Sdfs}

-----------------------------------------------------------------------------
NoLayout == Plain(<<>>, <<>>, <<>>)
NothingExtracted ==
  /\ layout = NoLayout /\ nodes = <<>> /\ pieces = <<>> /\ anchor = <<>> /\ joints = <<>> /\ attached = <<>>
  /\ ground = {} /\ coupling = {} /\ spef = <<>> /\ left = 0 /\ doing = "nothing"
NoPackage == [models |-> <<>>, ports |-> <<>>, instances |-> <<>>, spef |-> <<>>, sdf |-> <<>>]
NothingMade == package = NoPackage /\ given = {} /\ annotated = {} /\ paths = <<>> /\ making = "nothing"
MCInit == Init /\ \/ NothingExtracted /\ NothingMade
                  \/ RcInit /\ NothingMade
                  \/ NothingExtracted /\ ViewsInit
CharacterisingNext == doing = "nothing" /\ making = "nothing" /\ Next /\ UNCHANGED <<rcVars, viewVars>>
ExtractingNext == RcNext /\ UNCHANGED <<allVars, viewVars>>
MakingNext == ViewsNext /\ UNCHANGED <<allVars, rcVars>>
MCNext == CharacterisingNext \/ ExtractingNext \/ MakingNext
MCSpec == MCInit /\ [][MCNext]_<<allVars, rcVars, viewVars>>
=============================================================================
