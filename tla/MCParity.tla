-------------------------------- MODULE MCParity --------------------------------
(***************************************************************************)
(* Three-input parity from two xor chips in a row, each a composite gate   *)
(* of four nands wired as in scripts/xor.hdl and not precomputed.          *)
(***************************************************************************)
EXTENDS Propagation, MCNetlist

R == <<"root">>
X == {<<"x1">>, <<"x2">>}
Nand(x, k) == x \o <<k>>

MCGate == {R} \cup X \cup {Nand(x, k) : x \in X, k \in 1 .. 4}
MCRoot == R
MCNoGate == <<>>
MCKind == [g \in MCGate |-> IF Len(g) = 2 THEN "NAND" ELSE "CUSTOM"]

Arity == [g \in MCGate |-> IF g = R THEN 3 ELSE 2]
OutArity == [g \in MCGate |-> 1]

XorWires(x) ==
  << <<In(x, 1), In(Nand(x, 1), 1)>>, <<In(x, 2), In(Nand(x, 1), 2)>>,
     <<In(x, 1), In(Nand(x, 2), 1)>>, <<Out(Nand(x, 1), 1), In(Nand(x, 2), 2)>>,
     <<In(x, 2), In(Nand(x, 3), 1)>>, <<Out(Nand(x, 1), 1), In(Nand(x, 3), 2)>>,
     <<Out(Nand(x, 2), 1), In(Nand(x, 4), 1)>>,
     <<Out(Nand(x, 3), 1), In(Nand(x, 4), 2)>>,
     <<Out(Nand(x, 4), 1), Out(x, 1)>> >>

Wires ==
  XorWires(<<"x1">>) \o XorWires(<<"x2">>) \o
  << <<In(R, 1), In(<<"x1">>, 1)>>, <<In(R, 2), In(<<"x1">>, 2)>>,
     <<Out(<<"x1">>, 1), In(<<"x2">>, 1)>>, <<In(R, 3), In(<<"x2">>, 2)>>,
     <<Out(<<"x2">>, 1), Out(R, 1)>> >>

MCPin == PinsOf(Arity, OutArity)
MCInPins == InPinsOf(Arity)
MCOutPins == OutPinsOf(OutArity)
MCParent == ParentOf(MCPin, R, MCNoGate)
MCConnections == ConnectionsOf(Wires, MCPin)
MCTable == [g \in {} |-> {}]

-----------------------------------------------------------------------------
\* Levels rise through the gates of an xor, and those of the second are behind the first.
MCRank ==
  [p \in MCPin |->
     LET g == p[1]
         behind == IF g[1] = "x1" THEN 0 ELSE 8
     IN  CASE g = R            -> IF p[2] = "in" THEN 0 ELSE 17
           [] Len(g) = 1       -> behind + (IF p[2] = "in" THEN 1 ELSE 8)
           [] OTHER            -> behind + 2 * (g[2] \div 2 + 1) + (IF p[2] = "in" THEN 0 ELSE 1)]

\* Parity is one of the circuits that have a function (CombinationalChip of PropagationProofs).
ASSUME ParityCombinational == Combinational(MCRank)

ParityOf(v) == (v[In(R, 1)] # v[In(R, 2)]) # v[In(R, 3)]

MCEval == [w \in [Ins(R) -> BOOLEAN] \X [Outs(R) -> BOOLEAN] |->
             [p \in Outs(R) |-> ParityOf(w[1])]]
=============================================================================
