--------------------------------- MODULE MCBit ---------------------------------
(***************************************************************************)
(* The one-bit register of scripts/bit.hdl: a mux that chooses between the *)
(* input and the dff's output, and the dff, whose output runs back to the  *)
(* mux.  The mux is the one of scripts/mux.hdl, precomputed as that file   *)
(* asks (SERIALIZE).                                                       *)
(***************************************************************************)
EXTENDS Propagation, MCNetlist, TLC

R   == <<"root">>
Mux == <<"mux">>
Dff == <<"dff">>

MCGate == {R, Mux, Dff}
MCRoot == R
MCNoGate == <<>>
MCKind == (R :> "CUSTOM") @@ (Mux :> "SERIALIZED") @@ (Dff :> "DFF")

Arity == [g \in MCGate |-> IF g = Dff THEN 2 ELSE 3]
OutArity == [g \in MCGate |-> 1]

MCTable ==
  Mux :> [v \in [1 .. 3 -> BOOLEAN] |-> <<IF v[3] THEN v[2] ELSE v[1]>>]

\* In(R, 1..3) is in, load, clock; In(Mux, 1..3) is a, b, sel.
Wires ==
  << <<In(R, 1), In(Mux, 2)>>, <<In(R, 2), In(Mux, 3)>>,
     <<Out(Mux, 1), In(Dff, 1)>>, <<In(R, 3), In(Dff, 2)>>,
     <<Out(Dff, 1), Out(R, 1)>>, <<Out(Dff, 1), In(Mux, 1)>> >>

MCPin == PinsOf(Arity, OutArity)
MCInPins == InPinsOf(Arity)
MCOutPins == OutPinsOf(OutArity)
MCParent == ParentOf(MCPin, R, MCNoGate)
MCConnections == ConnectionsOf(Wires, MCPin)

-----------------------------------------------------------------------------
\* The register bit takes its input exactly when load and clock are both up and
\* otherwise keeps its output, the feedback through the mux notwithstanding
\* (scripts/bit.tst).
MCEval == [w \in [Ins(R) -> BOOLEAN] \X [Outs(R) -> BOOLEAN] |->
           IF w[1][In(R, 3)] /\ w[1][In(R, 2)]
             THEN [p \in Outs(R) |-> w[1][In(R, 1)]]
             ELSE w[2]]

\* The dff opens while the mux still holds a value other than the stored one
\* and is told, by the same call, to let go of it: the two then swap values
\* around the feedback loop.
Racing ==
  /\ level[In(R, 3)] /\ ~level[In(R, 2)]
  /\ before[Out(Mux, 1)] # before[Out(Dff, 1)]

\* A call that makes the loop race does not return: there is no cycle detection
\* and the feedback loop runs infinitely (README.md:222; Gate::handle_custom_type).
RaceNeverReturns == Idle => ~Racing

\* Every other call returns, although the circuit has a cycle.
ReturnsUnlessRacing == (~Idle /\ ~Racing) ~> Idle
=============================================================================
