------------------------------ MODULE MCGateWiring ------------------------------
(***************************************************************************)
(* A few pins, subgates and wires below a small limit, added by commands or *)
(* in the window.                                                           *)
(***************************************************************************)
EXTENDS BoardGui

CONSTANTS MaxOutputs, MaxSubgates, MaxWires

GateShapes == {<<2, 1>>, <<1, 2>>}

\* Bounds: what the limit on inputs does not bound.
Small ==
  /\ output_pins <= MaxOutputs
  /\ subgate_count <= MaxSubgates
  /\ by = "commands" => Len(wires) <= MaxWires

\* Bounds on the window, where every click is two steps: fewer pins, in vectors that do not
\* move; a search that finds nothing and the text box of the name only before there are components;
\* one kind of slip, an edge clicked with nothing at the mouse or typing with no component; and a
\* wire more with one input, one component and none at the mouse.
SmallWindow ==
  by = "window" =>
    /\ output_pins < MaxOutputs
    /\ input_pins <= 2
    /\ m_entries \/ subgate_count = 0
    /\ m_name_edit => subgate_count = 0
    /\ loose = {}
    /\ slips # {} => \/ slips = {"edge"} /\ m_active_component = nullptr /\ subgate_count < MaxSubgates
                     \/ slips = {"typed"} /\ subgate_count = 0
    /\ \/ Len(m_wires) <= MaxWires
       \/ Len(m_wires) = MaxWires + 1 /\ slips = {} /\ subgate_count < MaxSubgates
          /\ input_pins < 2 /\ m_active_component = nullptr
=============================================================================
