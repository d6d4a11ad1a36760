------------------------------- MODULE GateWiring -------------------------------
(***************************************************************************)
(* How one gate numbers its pins and wires them. Inputs and outputs share   *)
(* one range of numbers: below INPUT_PIN_LIMIT come the gate's inputs and   *)
(* then those of its subgates in the order they were added, from            *)
(* INPUT_PIN_LIMIT on the outputs likewise. A gate keeps the numbers of     *)
(* every wire in a recipe, from which its duplicates are wired, and the     *)
(* numbers change when a pin is added below them.                           *)
(***************************************************************************)
EXTENDS Integers, Sequences

CONSTANTS INPUT_PIN_LIMIT,  \* 1000 in the code
          Counts,           \* how many pins one instruction may add
          Shapes            \* <<inputs, outputs>> of the gates that can be added

ASSUME LimitAssumption == INPUT_PIN_LIMIT \in Nat \ {0}
ASSUME CountsAssumption == Counts \subseteq Nat
ASSUME ShapesAssumption == Shapes \subseteq Nat \X Nat

VARIABLES
  input_pins, output_pins,         \* how many pins the gate has itself
  subgate_count,
  subgate_inputs, subgate_outputs, \* the pins of the subgates, in order
  wire_construction_recipe,        \* the numbers each wire was made from
  wires,                           \* the pins each wire joins
  loose                            \* the wires that hold the address of a pin that has moved

vars == <<input_pins, output_pins, subgate_count, subgate_inputs, subgate_outputs,
          wire_construction_recipe, wires, loose>>

\* A pin is known by its gate, 0 for the gate itself, its side and its place there.
Pin == Nat \X {"in", "out"} \X Nat
nullptr == <<>>

\* Mutant: the outputs of the subgates are looked up among their inputs.
get_pin_copied(id) ==
  IF id < INPUT_PIN_LIMIT
  THEN IF id < input_pins THEN <<0, "in", id>>
       ELSE IF id - input_pins < Len(subgate_inputs) THEN subgate_inputs[id - input_pins + 1]
       ELSE nullptr
  ELSE LET o == id - INPUT_PIN_LIMIT
       IN IF o < output_pins THEN <<0, "out", o>>
          ELSE IF o - output_pins < Len(subgate_inputs) THEN subgate_inputs[o - output_pins + 1]
          ELSE nullptr

get_pin(id) ==
  IF id < INPUT_PIN_LIMIT
  THEN IF id < input_pins THEN <<0, "in", id>>
       ELSE IF id - input_pins < Len(subgate_inputs) THEN subgate_inputs[id - input_pins + 1]
       ELSE nullptr
  ELSE LET o == id - INPUT_PIN_LIMIT
       IN IF o < output_pins THEN <<0, "out", o>>
          ELSE IF o - output_pins < Len(subgate_outputs) THEN subgate_outputs[o - output_pins + 1]
          ELSE nullptr

\* No number after these is a pin.
Numbers == 0 .. INPUT_PIN_LIMIT + output_pins + Len(subgate_outputs)

TypeOK ==
  /\ input_pins \in Nat
  /\ output_pins \in Nat
  /\ subgate_count \in Nat
  /\ subgate_inputs \in Seq(Pin)
  /\ subgate_outputs \in Seq(Pin)
  /\ wire_construction_recipe \in Seq(Nat \X Nat)
  /\ wires \in Seq(Pin \X Pin)
  /\ loose \subseteq Nat

Init ==
  /\ input_pins = 0
  /\ output_pins = 0
  /\ subgate_count = 0
  /\ subgate_inputs = <<>>
  /\ subgate_outputs = <<>>
  /\ wire_construction_recipe = <<>>
  /\ wires = <<>>
  /\ loose = {}

\* Bound: inputs are numbered below the limit, which nothing in the code sees to.
Addressable(inputs) == inputs + Len(subgate_inputs) <= INPUT_PIN_LIMIT

-----------------------------------------------------------------------------
Renumbered(Number(_)) ==
  [w \in 1 .. Len(wire_construction_recipe) |->
     <<Number(wire_construction_recipe[w][1]), Number(wire_construction_recipe[w][2])>>]

\* The wires at the gate's own pins of one side: the vector the pins are in may move.
At(side) ==
  {w \in 1 .. Len(wires) : \E end \in {1, 2} : wires[w][end][1] = 0 /\ wires[w][end][2] = side}

\* Mutant: the outputs are renumbered as well.
ShiftedAll(n, id) == IF id >= input_pins THEN id + n ELSE id

ShiftedInput(n, id) ==
  IF id >= input_pins /\ id < INPUT_PIN_LIMIT THEN id + n ELSE id

\* Growing a vector of pins moves them, or not, as its capacity has it.
add_input_pin(n) ==
  /\ Addressable(input_pins + n)
  /\ LET Number(id) == ShiftedInput(n, id)
     IN wire_construction_recipe' = Renumbered(Number)
  /\ input_pins' = input_pins + n
  /\ loose' \in {loose, loose \cup At("in")}
  /\ UNCHANGED <<output_pins, subgate_count, subgate_inputs, subgate_outputs, wires>>

ShiftedOutput(n, id) ==
  IF id >= output_pins + INPUT_PIN_LIMIT THEN id + n ELSE id

add_output_pin(n) ==
  /\ LET Number(id) == ShiftedOutput(n, id)
     IN wire_construction_recipe' = Renumbered(Number)
  /\ output_pins' = output_pins + n
  /\ loose' \in {loose, loose \cup At("out")}
  /\ UNCHANGED <<input_pins, subgate_count, subgate_inputs, subgate_outputs, wires>>

\* Mutant: the places of pins are counted down from the last but one.
PinsOfDown(gate, side, n) == [k \in 1 .. n |-> <<gate, side, n - k - 1>>]

PinsOf(gate, side, n) == [k \in 1 .. n |-> <<gate, side, k - 1>>]

add_subgate(shape) ==
  /\ Addressable(input_pins + shape[1])
  /\ subgate_count' = subgate_count + 1
  /\ subgate_inputs' = subgate_inputs \o PinsOf(subgate_count', "in", shape[1])
  /\ subgate_outputs' = subgate_outputs \o PinsOf(subgate_count', "out", shape[2])
  /\ UNCHANGED <<input_pins, output_pins, wire_construction_recipe, wires, loose>>

\* Numbers that are no pin leave no trace: wire_pins returns false.
wire_pins(p1, p2) ==
  /\ get_pin(p1) # nullptr
  /\ get_pin(p2) # nullptr
  /\ wire_construction_recipe' = Append(wire_construction_recipe, <<p1, p2>>)
  /\ wires' = Append(wires, <<get_pin(p1), get_pin(p2)>>)
  /\ UNCHANGED <<input_pins, output_pins, subgate_count, subgate_inputs, subgate_outputs, loose>>

Next ==
  \/ \E n \in Counts : add_input_pin(n)
  \/ \E n \in Counts : add_output_pin(n)
  \/ \E shape \in Shapes : add_subgate(shape)
  \/ \E p1, p2 \in Numbers : wire_pins(p1, p2)

Spec == Init /\ [][Next]_vars

-----------------------------------------------------------------------------
\* The wires a duplicate of this gate, which has the same pins, is given
\* (duplicate calls construct_wire with the recipe).
Duplicated == [w \in 1 .. Len(wire_construction_recipe) |->
                 <<get_pin(wire_construction_recipe[w][1]), get_pin(wire_construction_recipe[w][2])>>]

\* However pins, subgates and wires are added, in whatever order, a duplicate is wired
\* exactly as the gate is: the numbers in the recipe follow the pins they were given
\* for (add_input_pin, add_output_pin, duplicate).
Coherent == Duplicated = wires

\* No two numbers mean the same pin, and the pins of a subgate are numbered after
\* those of the gate itself (get_pin).
OneNumberEach ==
  \A a, b \in Numbers : get_pin(a) = get_pin(b) /\ get_pin(a) # nullptr => a = b

\* Wires lead to pins that are where they were when the wire was made: adding a pin to
\* a gate that is wired, for which add_input_pin renumbers the recipe, leaves its wires
\* in place.
WiresHold == loose = {}
=============================================================================
