----------------------------- MODULE MCHdlCompiler -----------------------------
(***************************************************************************)
(* Small sources: a few parts with single pins, with a bus, and one that no *)
(* meta file is found for.                                                  *)
(***************************************************************************)
EXTENDS HdlCompiler

CONSTANTS MaxParts, MaxMentions

Declarations == {<<"w", 2>>}
Results == {<<"o", 0>>}

Library == [not  |-> [inputs |-> << <<"in", 0>> >>, outputs |-> << <<"out", 0>> >>],
            wide |-> [inputs |-> << <<"in", 2>> >>, outputs |-> << <<"out", 2>> >>]]

Used == {"not", "wide", "lost"}

Linked ==
  {"not"} \X {<<"in">>} \X {<<"w", 1>>, <<"s">>, <<"o">>}
    \cup {"not"} \X {<<"out">>} \X {<<"o">>, <<"s">>}
    \cup {"not"} \X {<<"oot">>} \X {<<"o">>}
    \cup {"wide"} \X {<<"in">>} \X {<<"w">>, <<"t">>}
    \cup {"wide"} \X {<<"out">>} \X {<<"t">>}
    \cup {"wide"} \X {<<"out", 0>>} \X {<<"s">>, <<"t", 0>>}
    \cup {"lost"} \X {<<"in">>} \X {<<"s">>}

\* Bounds: the parts of a chip and the mentions of signals by them. Declarations come
\* before the second part, and a source with an error is not followed beyond its first.
Small ==
  /\ Len(dependencies) <= MaxParts
  /\ Cardinality({m \in DOMAIN source : source[m].pin[1] > 0}) <= MaxMentions
  /\ phase = "chip" \/ has_error => Len(dependencies) <= 1
=============================================================================
