-------------------------------- MODULE MCJackOS --------------------------------
(***************************************************************************)
(* A heap of a few words, and words of a few bits.                          *)
(***************************************************************************)
EXTENDS JackOS

Bits == INSTANCE Bitwise
BitAnd(a, b) == Bits!&(a, b)

\* Bounds: once a block is split that has no room for a second header the heap is
\* corrupt, and a search may follow a length as if it were an address; and a division by
\* zero, or by less, is not followed for ever.
Sound == ~tight /\ Math!Followed

InModel ==
  /\ block # null => block + next \in Addresses
  /\ free_blocks + next \in Addresses
=============================================================================
