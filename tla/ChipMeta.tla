-------------------------------- MODULE ChipMeta --------------------------------
(***************************************************************************)
(* The names of a chip's pins and buses, and the numbers they have, as the  *)
(* builtin chips declare them or their meta files list them: shared by the  *)
(* HDL parser and the interpreter of tests.                                 *)
(***************************************************************************)
EXTENDS Integers, Sequences, FiniteSets, SequencesExt

CONSTANTS INPUT_PIN_LIMIT,
          Chips  \* the chips a meta file is found for: their inputs and outputs in order,
                 \* each <<name, width>>, width 0 a single pin

ASSUME PinLimitAssumption == INPUT_PIN_LIMIT \in Nat \ {0}

\* A chip's pins and buses have names of their own.
ASSUME ChipsAssumption ==
  \A chip \in DOMAIN Chips :
    LET inputs == Chips[chip].inputs
        outputs == Chips[chip].outputs
    IN  /\ \A declared \in {inputs, outputs} :
             /\ declared \in Seq(Range(declared))
             /\ \A k \in DOMAIN declared : declared[k][2] \in Nat
             /\ \A j, k \in DOMAIN declared : declared[j][1] = declared[k][1] => j = k
        /\ \A j \in DOMAIN inputs, k \in DOMAIN outputs : inputs[j][1] # outputs[k][1]

\* The name of a single pin is <<id>>, that of a place in a bus <<id, place>>; the pins
\* of a bus are numbered from its last place.

\* Mutant: from its first place.
PinNamesUp(id, width) ==
  IF width = 0 THEN << <<id>> >> ELSE [k \in 1 .. width |-> <<id, k - 1>>]

PinNames(id, width) ==
  IF width = 0 THEN << <<id>> >> ELSE [k \in 1 .. width |-> <<id, width - k>>]

\* The names of the pins after each of the declarations.
NamesUpTo(declared) ==
  LET names[n \in 0 .. Len(declared)] ==
        IF n = 0 THEN <<>> ELSE names[n - 1] \o PinNames(declared[n][1], declared[n][2])
  IN  names

AllNames(declared) == NamesUpTo(declared)[Len(declared)]

InputNames == [chip \in DOMAIN Chips |-> AllNames(Chips[chip].inputs)]
OutputNames == [chip \in DOMAIN Chips |-> AllNames(Chips[chip].outputs)]

\* The number of the pin of that name in its own chip, none if there is no such pin
\* (Meta::get_pin).
get_pin(chip, name) ==
  {k - 1 : k \in {i \in DOMAIN InputNames[chip] : InputNames[chip][i] = name}}
    \cup {INPUT_PIN_LIMIT + k - 1 :
            k \in {i \in DOMAIN OutputNames[chip] : OutputNames[chip][i] = name}}

\* The bus of that name, with the number of its first pin, none if there is no such bus
\* (Meta::get_bus).
get_bus(chip, name) ==
  LET buses(declared, first) ==
        {[start |-> first + Len(NamesUpTo(declared)[k - 1]), size |-> declared[k][2]] :
           k \in {j \in DOMAIN declared : declared[j][2] > 0 /\ <<declared[j][1]>> = name}}
  IN  buses(Chips[chip].inputs, 0) \cup buses(Chips[chip].outputs, INPUT_PIN_LIMIT)
=============================================================================
