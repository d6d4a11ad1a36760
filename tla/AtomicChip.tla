------------------------------- MODULE AtomicChip -------------------------------
(***************************************************************************)
(* What a chip promises to whoever simulates it: one call of simulate()    *)
(* takes it from its outputs to the outputs its function gives for the new *)
(* inputs, with nothing in between to be seen.  A combinational chip       *)
(* ignores its previous outputs; a storage chip does not.                  *)
(***************************************************************************)
CONSTANTS
  Inputs,  \* the input pins
  Outputs, \* the output pins
  Eval     \* <<inputs, previous outputs>> -> outputs

VARIABLES inp, out

Init ==
  /\ inp = [p \in Inputs |-> FALSE]
  /\ out = [p \in Outputs |-> FALSE]

Evaluate(v) ==
  /\ inp' = v
  /\ out' = Eval[<<v, out>>]

Next == \E v \in [Inputs -> BOOLEAN] : Evaluate(v)

Spec == Init /\ [][Next]_<<inp, out>>
=============================================================================
