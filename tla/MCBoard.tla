-------------------------------- MODULE MCBoard --------------------------------
(***************************************************************************)
(* Three chips in three layers: bit is made of and and not, and of not. All *)
(* but bit are precomputed.                                                 *)
(***************************************************************************)
EXTENDS Board, TLC

CONSTANTS not, and, bit, MaxImages

Layers == (not :> <<>>) @@ (and :> <<not>>) @@ (bit :> <<and, not>>)

\* Bound: how often a chip is created.
FewImages == \A c \in Chips : created[c] <= MaxImages
=============================================================================
