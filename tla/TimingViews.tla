---------------------------- MODULE TimingViews ----------------------------
(* The views run_post_layout_digital.py makes of what the layout flow gives  *)
(* it: a SPEF that OpenSTA can read, out of one without connections; a model *)
(* of the cells with a path for each delay; and the SDF that Icarus reads.   *)
(* A capacitance or resistance is a whole number, an arc a pair of pins.     *)
EXTENDS Integers, FiniteSets, Sequences, SequencesExt, FiniteSetsExt

CONSTANT Packages  \* [models, ports, instances, spef, sdf] of one design

\* The models of the library drive their pins in the ways that are looked for and an
\* instance has pins that its cell has; a SPEF has one section for a net, as
\* write_spef makes them.
ASSUME PackagesAssumption ==
  \A p \in Packages :
    /\ \A c \in ToSet(p.models) : c.drives \cap c.ports = (c.declared \cup c.assigned \cup c.clocked) \cap c.ports
    /\ \A i \in ToSet(p.instances) :
         /\ i.name # "" /\ IsFiniteSet(DOMAIN i.pins)
         /\ \A c \in ToSet(p.models) : c.name = i.cell => DOMAIN i.pins \subseteq c.ports
    /\ p.instances \in Seq(ToSet(p.instances)) /\ p.spef \in Seq(ToSet(p.spef))
    /\ \A m, n \in ToSet(p.spef) : m.net = n.net => m = n
    /\ \A n \in ToSet(p.spef) : n.resistors \in Seq(Nat)

VARIABLES
  package,
  given,       \* the SPEF that OpenSTA is given: a set of nets
  annotated,   \* cells of the SDF for Icarus, as a set
  paths,       \* cell -> arcs its model has a path for
  making       \* "spef", "sdf", "model", "made" or "refused"
viewVars == <<package, given, annotated, paths, making>>

Power == {"VDD", "GND"}
ModelNames == {c.name : c \in ToSet(package.models)}
ModelOf(name) == CHOOSE c \in ToSet(package.models) : c.name = name
-----------------------------------------------------------------------------
(* The models of the cells, [name, ports, drives, declared, assigned, clocked]: *)
(* what is declared an output, assigned to, or given a value in a process is  *)
(* taken for one; drives is what the cell does drive.                         *)
\* Mutant of Outputs: the declarations are believed.
DeclaredOutputs(c) == c.declared
Outputs(c) == c.declared \cup c.assigned \cup c.clocked

PinDirection(c, pin) == CASE pin \in Power -> "B"
                          [] pin \in Outputs(c) \ Power -> "O"
                          [] OTHER -> "I"
\* What the netlist has on a net: ports of the top, which are at no instance, and
\* pins of instances.
ConnectionsOf(net) ==
  {[at |-> "", pin |-> net, direction |-> package.ports[net]] : n \in {net} \cap DOMAIN package.ports}
  \cup UNION {{[at |-> i.name, pin |-> p, direction |-> PinDirection(ModelOf(i.cell), p)] :
                  p \in {q \in DOMAIN i.pins : i.pins[q] = net}} : i \in ToSet(package.instances)}
Unknown == {i.cell : i \in ToSet(package.instances)} \ ModelNames
-----------------------------------------------------------------------------
(* The SPEF. A net is [net, total, resistors, connected, numbered]: whether it *)
(* has connections, and resistors or couplings between numbered nodes.        *)
Distributed(nets) == (\E n \in nets : n.connected) /\ (\E n \in nets : n.numbered)
\* The first resistor, shared out over the branches of a star. A resistor is
\* <<r, k>>: one of k equal parts of r.
StarOf(n) ==
  LET branches == Cardinality(ConnectionsOf(n.net)) - 1
  IN  IF n.resistors = <<>> \/ branches < 1 THEN <<>>
      ELSE [b \in 1..branches |-> <<Head(n.resistors), branches>>]
Lumped(n) == [net |-> n.net, total |-> n.total, resistors |-> StarOf(n), connections |-> ConnectionsOf(n.net)]
Own(n) == [net |-> n.net, total |-> n.total, resistors |-> [b \in DOMAIN n.resistors |-> <<n.resistors[b], 1>>],
           connections |-> {}]

ViewsInit == package \in Packages /\ given = {} /\ annotated = {} /\ paths = <<>> /\ making = "spef"

Refuse == making' = "refused" /\ UNCHANGED <<given, annotated, paths>>

\* A SPEF without connections is made one net by net; it takes a netlist of
\* known cells in which each of its nets is connected.
PrepareSpef ==
  LET nets == ToSet(package.spef)
  IN  /\ making = "spef"
      /\ IF nets = {} \/ (~Distributed(nets) /\ (Unknown # {} \/ \E n \in nets : ConnectionsOf(n.net) = {}))
         THEN Refuse
         ELSE /\ given' = IF Distributed(nets) THEN {Own(n) : n \in nets} ELSE {Lumped(n) : n \in nets}
              /\ making' = "sdf" /\ UNCHANGED <<annotated, paths>>
      /\ UNCHANGED package

\* The block of the top goes, as does a cell without delays, and what delays wires.
IcarusSdf ==
  LET kept == {c \in ToSet(package.sdf) : c.instance # "" /\ c.arcs # {}}
  IN  /\ making = "sdf"
      /\ IF kept = {} THEN Refuse ELSE annotated' = kept /\ making' = "model" /\ UNCHANGED <<given, paths>>
      /\ UNCHANGED package

\* The arcs of all instances of a cell, where both ends are ports of it.
Arcs(c) == {arc \in UNION {i.arcs : i \in {x \in ToSet(package.sdf) : x.cell = c.name}} :
              arc[1] \in c.ports /\ arc[2] \in c.ports}
TimingModel ==
  /\ making = "model"
  /\ IF Cardinality(ModelNames) # Len(package.models) THEN Refuse
     ELSE /\ paths' = [name \in ModelNames |-> Arcs(ModelOf(name))]
          /\ making' = "made" /\ UNCHANGED <<given, annotated>>
  /\ UNCHANGED package

ViewsNext == PrepareSpef \/ IcarusSdf \/ TimingModel
ViewsSpec == ViewsInit /\ [][ViewsNext]_viewVars
-----------------------------------------------------------------------------
\* What OpenSTA and the simulator are given is the design: each net of a lumped
\* SPEF has the drivers it has in the netlist, however the models of their cells say
\* so, and the load and resistance of the layout (make_lumped_spef,
\* parse_cell_models); each delay of an instance is annotated onto a path that
\* its cell's model has (generate_timing_cell_model, iverilog_sdf).
Drivers(net) ==
  {<<"", p>> : p \in {x \in {net} \cap DOMAIN package.ports : package.ports[x] = "I"}}
  \cup UNION {{<<i.name, p>> : p \in {q \in DOMAIN i.pins \ Power : i.pins[q] = net /\ q \in ModelOf(i.cell).drives}} :
                i \in ToSet(package.instances)}
\* What the parts of a star are in all.
Ohms(resistors) ==
  LET sum[n \in 0..Len(resistors)] == IF n = 0 THEN 0 ELSE sum[n - 1] + resistors[n][1]
  IN  sum[Len(resistors)]
ViewsAreTheDesign ==
  LET source(net) == CHOOSE n \in ToSet(package.spef) : n.net = net
      driving(x) == x.direction = IF x.at = "" THEN "I" ELSE "O"
  IN  making = "made" =>
        /\ {n.net : n \in given} = {n.net : n \in ToSet(package.spef)}
        /\ \A n \in given :
             /\ n.total = source(n.net).total
             /\ n.connections # {} =>
                  /\ {<<x.at, x.pin>> : x \in {y \in n.connections : driving(y)}} = Drivers(n.net)
                  /\ Len(source(n.net).resistors) = 1 /\ Cardinality(n.connections) > 1 =>
                       \A r \in ToSet(n.resistors) : Ohms(n.resistors) = r[2] * source(n.net).resistors[1]
        /\ \A c \in ToSet(package.sdf) : \A arc \in c.arcs :
             c.instance # "" /\ c.cell \in ModelNames /\ {arc[1], arc[2]} \subseteq ModelOf(c.cell).ports =>
               arc \in paths[c.cell] /\ \E a \in annotated : a.instance = c.instance /\ arc \in a.arcs
=============================================================================
