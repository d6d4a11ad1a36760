---------------------------- MODULE AddressedMemory ----------------------------
(***************************************************************************)
(* What a memory chip promises: a call of simulate() either leaves its     *)
(* words alone or replaces the one at the write address of that call, and  *)
(* then shows the word at the read address.                                *)
(***************************************************************************)
CONSTANTS
  Word, Address,
  Levels,           \* the input levels
  Blank,            \* the initial input levels
  Stores(_, _),     \* do these levels, after those of the last call, store?
  WriteAddress(_), ReadAddress(_)

VARIABLES level, data, out

Init ==
  /\ level = Blank
  /\ data = [a \in Address |-> 0]
  /\ out = 0

Evaluate(l) ==
  /\ level' = l
  /\ data' = IF Stores(level, l) THEN [data EXCEPT ![WriteAddress(l)] = l.in] ELSE data
  /\ out' = data'[ReadAddress(l)]

Next == \E l \in Levels : Evaluate(l)

Spec == Init /\ [][Next]_<<level, data, out>>
=============================================================================
