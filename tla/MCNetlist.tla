------------------------------- MODULE MCNetlist -------------------------------
(***************************************************************************)
(* Notation for the small circuits the propagation runs use.  A gate is    *)
(* named by the path of part names that leads to it, a pin by its gate,    *)
(* its side and its position, and a circuit is the sequence of its wires   *)
(* in the order wire_pins made them.                                       *)
(***************************************************************************)
EXTENDS Integers, Sequences

In(g, i)  == <<g, "in", i>>
Out(g, i) == <<g, "out", i>>

PinsOf(inputs, outputs) ==
  UNION {{In(g, i) : i \in 1 .. inputs[g]} : g \in DOMAIN inputs}
    \cup UNION {{Out(g, i) : i \in 1 .. outputs[g]} : g \in DOMAIN outputs}

InPinsOf(inputs)   == [g \in DOMAIN inputs |-> [i \in 1 .. inputs[g] |-> In(g, i)]]
OutPinsOf(outputs) == [g \in DOMAIN outputs |-> [i \in 1 .. outputs[g] |-> Out(g, i)]]

\* The targets of the wires that leave pin p, in construction order.
TargetsOf(wires, p) ==
  LET leaving == SelectSeq(wires, LAMBDA w : w[1] = p)
  IN  [i \in DOMAIN leaving |-> leaving[i][2]]

ConnectionsOf(wires, pins) == [p \in pins |-> TargetsOf(wires, p)]

\* Input pins point to their gate except the root's, output pins to none.
ParentOf(pins, root, none) ==
  [p \in pins |-> IF p[2] = "in" /\ p[1] # root THEN p[1] ELSE none]

=============================================================================
