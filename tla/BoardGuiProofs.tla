---------------------------- MODULE BoardGuiProofs ----------------------------
(***************************************************************************)
(* Proofs about a gate and the window that sketches it, for every limit and *)
(* all gates.  First the gate alone (GateWiring): the numbers of pins stay  *)
(* apart and the recipe keeps up with the pins.  Then the window: whatever  *)
(* is clicked and typed, the sketch stays as sound, the window and the      *)
(* sketch number the pins alike, and the sketch is wired as the window      *)
(* shows, with the slips that their statements except.                      *)
(***************************************************************************)
EXTENDS BoardGui, SequenceTheorems, NatInduction

\* The inputs have room below the limit.
HasRoom == input_pins + Len(subgate_inputs) <= INPUT_PIN_LIMIT

\* The pins in a sequence belong to the first count subgates and are on one side, each there once.
Listed(pins, side, count) ==
  /\ \A k \in 1 .. Len(pins) : pins[k][1] \in 1 .. count /\ pins[k][2] = side
  /\ \A j, k \in 1 .. Len(pins) : pins[j] = pins[k] => j = k

\* Each wire's numbers, if they are numbers of pins at all, are those of its ends.
Followed ==
  /\ Len(wire_construction_recipe) = Len(wires)
  /\ \A w \in 1 .. Len(wires) :
       /\ get_pin(wire_construction_recipe[w][1]) = wires[w][1]
       /\ get_pin(wire_construction_recipe[w][2]) = wires[w][2]

\* Any operation, whoever calls it: Next adds as many pins as one instruction may, and the
\* window one at a time.
Operation ==
  \/ \E n \in Nat : add_input_pin(n)
  \/ \E n \in Nat : add_output_pin(n)
  \/ \E shape \in Shapes : add_subgate(shape)
  \/ \E p1, p2 \in Nat : wire_pins(p1, p2)

IInv ==
  /\ TypeOK
  /\ HasRoom
  /\ Listed(subgate_inputs, "in", subgate_count)
  /\ Listed(subgate_outputs, "out", subgate_count)
  /\ Followed

USE LimitAssumption, CountsAssumption, ShapesAssumption
    DEF LimitAssumption, CountsAssumption, ShapesAssumption

\* No pin is the null pointer.
LEMMA NullIsNoPin == nullptr \notin Pin
BY DEF nullptr, Pin

\* A number that is not a pin's gives the null pointer, any other one a pin (get_pin).
LEMMA PinOrNull ==
  ASSUME TypeOK, NEW id \in Nat
  PROVE get_pin(id) \in Pin \cup {nullptr}
BY DEF TypeOK, get_pin, Pin, nullptr

\* A function on the first numbers is a sequence.
LEMMA FunctionIsSeq ==
  ASSUME NEW S, NEW m \in Nat, NEW f \in [1 .. m -> S]
  PROVE f \in Seq(S) /\ Len(f) = m
OBVIOUS

\* What add_subgate appends (PinsOf).
LEMMA PinsOfGate ==
  ASSUME NEW g \in Nat, NEW side \in {"in", "out"}, NEW n \in Nat
  PROVE /\ PinsOf(g, side, n) \in Seq(Pin)
        /\ Len(PinsOf(g, side, n)) = n
        /\ \A k \in 1 .. n : PinsOf(g, side, n)[k] = <<g, side, k - 1>>
<1>1. PinsOf(g, side, n) \in [1 .. n -> Pin]
  BY DEF PinsOf, Pin
<1> QED
  BY <1>1 DEF PinsOf

\* Types survive every step; the sequences change by mapping and appending.
LEMMA TypeStep ==
  ASSUME TypeOK, [Operation]_vars
  PROVE TypeOK'
<1>1. ASSUME NEW n \in Nat, add_input_pin(n)
      PROVE TypeOK'
  <2>1. wire_construction_recipe' \in Seq(Nat \X Nat)
    <3>1. \A id \in Nat : ShiftedInput(n, id) \in Nat
      BY DEF TypeOK, ShiftedInput
    <3>2. wire_construction_recipe' =
            [w \in 1 .. Len(wire_construction_recipe) |->
               <<ShiftedInput(n, wire_construction_recipe[w][1]),
                 ShiftedInput(n, wire_construction_recipe[w][2])>>]
      BY <1>1 DEF add_input_pin, Renumbered
    <3>3. wire_construction_recipe' \in [1 .. Len(wire_construction_recipe) -> Nat \X Nat]
      <4>1. \A w \in 1 .. Len(wire_construction_recipe) :
              /\ wire_construction_recipe[w][1] \in Nat
              /\ wire_construction_recipe[w][2] \in Nat
        BY DEF TypeOK
      <4> QED
        BY <3>1, <3>2, <4>1
    <3>4. Len(wire_construction_recipe) \in Nat
      BY DEF TypeOK
    <3> QED
      BY ONLY <3>3, <3>4, FunctionIsSeq
  <2>2. loose' \subseteq Nat
    BY <1>1 DEF TypeOK, add_input_pin, At
  <2> QED
    BY <1>1, <2>1, <2>2 DEF TypeOK, add_input_pin
<1>2. ASSUME NEW n \in Nat, add_output_pin(n)
      PROVE TypeOK'
  <2>1. wire_construction_recipe' \in Seq(Nat \X Nat)
    <3>1. \A id \in Nat : ShiftedOutput(n, id) \in Nat
      BY DEF TypeOK, ShiftedOutput
    <3>2. wire_construction_recipe' =
            [w \in 1 .. Len(wire_construction_recipe) |->
               <<ShiftedOutput(n, wire_construction_recipe[w][1]),
                 ShiftedOutput(n, wire_construction_recipe[w][2])>>]
      BY <1>2 DEF add_output_pin, Renumbered
    <3>3. wire_construction_recipe' \in [1 .. Len(wire_construction_recipe) -> Nat \X Nat]
      <4>1. \A w \in 1 .. Len(wire_construction_recipe) :
              /\ wire_construction_recipe[w][1] \in Nat
              /\ wire_construction_recipe[w][2] \in Nat
        BY DEF TypeOK
      <4> QED
        BY <3>1, <3>2, <4>1
    <3>4. Len(wire_construction_recipe) \in Nat
      BY DEF TypeOK
    <3> QED
      BY ONLY <3>3, <3>4, FunctionIsSeq
  <2>2. loose' \subseteq Nat
    BY <1>2 DEF TypeOK, add_output_pin, At
  <2> QED
    BY <1>2, <2>1, <2>2 DEF TypeOK, add_output_pin
<1>3. ASSUME NEW shape \in Shapes, add_subgate(shape)
      PROVE TypeOK'
  <2>1. shape[1] \in Nat /\ shape[2] \in Nat
    OBVIOUS
  <2>2. subgate_count' \in Nat
    BY <1>3 DEF TypeOK, add_subgate
  <2>3. PinsOf(subgate_count', "in", shape[1]) \in Seq(Pin)
    BY <2>1, <2>2, PinsOfGate
  <2>4. PinsOf(subgate_count', "out", shape[2]) \in Seq(Pin)
    BY <2>1, <2>2, PinsOfGate
  <2>5. subgate_inputs' \in Seq(Pin) /\ subgate_outputs' \in Seq(Pin)
    BY <1>3, <2>3, <2>4 DEF TypeOK, add_subgate
  <2> QED
    BY <1>3, <2>2, <2>5 DEF TypeOK, add_subgate
<1>4. ASSUME NEW p1 \in Nat, NEW p2 \in Nat, wire_pins(p1, p2)
      PROVE TypeOK'
  <2>1. p1 \in Nat /\ p2 \in Nat
    OBVIOUS
  <2>2. get_pin(p1) \in Pin /\ get_pin(p2) \in Pin
    BY <1>4, <2>1, PinOrNull DEF wire_pins
  <2> QED
    BY <1>4, <2>1, <2>2 DEF TypeOK, wire_pins
<1>5. CASE UNCHANGED vars
  BY <1>5 DEF TypeOK, vars
<1> QED
  BY <1>1, <1>2, <1>3, <1>4, <1>5 DEF Operation

LEMMA NextOperates == [Next]_vars => [Operation]_vars
BY DEF Next, Operation, Numbers

\* The counts, sequences and numbers of a gate have their types in every state.
THEOREM TypeCorrect == Spec => []TypeOK
<1>1. Init => TypeOK
  BY DEF Init, TypeOK
<1> QED
  BY <1>1, TypeStep, NextOperates, PTL DEF Spec

-----------------------------------------------------------------------------
\* An input keeps its pin under its new number (add_input_pin).
LEMMA InputsMove ==
  ASSUME TypeOK, NEW n \in Nat, add_input_pin(n),
         NEW id \in Nat, get_pin(id) # nullptr,
         NEW to, to = ShiftedInput(n, id)
  PROVE get_pin(to)' = get_pin(id)
<1>1. n \in Nat /\ input_pins' = input_pins + n /\ input_pins' + Len(subgate_inputs) <= INPUT_PIN_LIMIT
  BY DEF add_input_pin, Addressable
<1>2. UNCHANGED <<output_pins, subgate_inputs, subgate_outputs>>
  BY DEF add_input_pin
<1>3. CASE id < input_pins
  <2>1. to = id
    BY <1>3 DEF ShiftedInput, TypeOK
  <2> QED
    BY <1>1, <1>2, <1>3, <2>1 DEF TypeOK, get_pin
<1>4. CASE id >= input_pins /\ id < INPUT_PIN_LIMIT
  <2>1. id - input_pins < Len(subgate_inputs) /\ get_pin(id) = subgate_inputs[id - input_pins + 1]
    BY <1>4 DEF TypeOK, get_pin
  <2>2. to = id + n
    BY <1>4 DEF ShiftedInput
  <2>3. Len(subgate_inputs) \in Nat /\ input_pins \in Nat
    BY DEF TypeOK
  <2>4. /\ to < INPUT_PIN_LIMIT
        /\ ~ (to < input_pins')
        /\ to - input_pins' = id - input_pins
    BY ONLY <1>1, <1>4, <2>1, <2>2, <2>3, LimitAssumption
  <2>5. get_pin(to)' = subgate_inputs[to - input_pins' + 1]
    BY <1>2, <2>1, <2>4 DEF get_pin
  <2> QED
    BY <2>1, <2>4, <2>5
<1>5. CASE id >= INPUT_PIN_LIMIT
  <2>1. to = id
    BY <1>5 DEF ShiftedInput
  <2> QED
    BY <1>2, <1>5, <2>1 DEF get_pin
<1> QED
  BY <1>3, <1>4, <1>5 DEF TypeOK

\* An output keeps its pin under its new number (add_output_pin).
LEMMA OutputsMove ==
  ASSUME TypeOK, NEW n \in Nat, add_output_pin(n),
         NEW id \in Nat, get_pin(id) # nullptr,
         NEW to, to = ShiftedOutput(n, id)
  PROVE get_pin(to)' = get_pin(id)
<1>1. n \in Nat /\ output_pins' = output_pins + n
  BY DEF add_output_pin
<1>2. UNCHANGED <<input_pins, subgate_inputs, subgate_outputs>>
  BY DEF add_output_pin
<1>3. CASE id < output_pins + INPUT_PIN_LIMIT
  <2>1. to = id
    BY <1>3 DEF ShiftedOutput, TypeOK
  <2> QED
    BY <1>1, <1>2, <1>3, <2>1 DEF TypeOK, get_pin
<1>4. CASE id >= output_pins + INPUT_PIN_LIMIT
  <2> DEFINE o == id - INPUT_PIN_LIMIT
  <2>0. ~ (id < INPUT_PIN_LIMIT) /\ ~ (o < output_pins)
    BY <1>4 DEF TypeOK
  <2>1. o - output_pins < Len(subgate_outputs) /\ get_pin(id) = subgate_outputs[o - output_pins + 1]
    BY <2>0 DEF get_pin
  <2>2. to = id + n
    BY <1>4 DEF ShiftedOutput
  <2>3. Len(subgate_outputs) \in Nat /\ output_pins \in Nat
    BY DEF TypeOK
  <2>4. /\ ~ (to < INPUT_PIN_LIMIT)
        /\ ~ (to - INPUT_PIN_LIMIT < output_pins')
        /\ to - INPUT_PIN_LIMIT - output_pins' = o - output_pins
    BY ONLY <1>1, <1>4, <2>1, <2>2, <2>3, LimitAssumption
  <2>5. get_pin(to)' = subgate_outputs[to - INPUT_PIN_LIMIT - output_pins' + 1]
    BY <1>2, <2>1, <2>4 DEF get_pin
  <2> QED
    BY <2>1, <2>4, <2>5
<1> QED
  BY <1>3, <1>4 DEF TypeOK

\* The pins there were keep their numbers when a subgate is added (add_subgate).
LEMMA SubgatesFollow ==
  ASSUME TypeOK, NEW shape \in Shapes, add_subgate(shape),
         NEW id \in Nat, get_pin(id) # nullptr
  PROVE get_pin(id)' = get_pin(id)
<1> DEFINE ins == PinsOf(subgate_count + 1, "in", shape[1])
           outs == PinsOf(subgate_count + 1, "out", shape[2])
<1>1. /\ subgate_inputs' = subgate_inputs \o ins
      /\ subgate_outputs' = subgate_outputs \o outs
      /\ UNCHANGED <<input_pins, output_pins>>
  BY DEF add_subgate
<1>2. ins \in Seq(Pin) /\ outs \in Seq(Pin)
  <2>1. shape[1] \in Nat /\ shape[2] \in Nat
    OBVIOUS
  <2>2. subgate_count + 1 \in Nat
    BY DEF TypeOK
  <2> QED
    BY <2>1, <2>2, PinsOfGate
<1> HIDE DEF ins, outs
<1>3. /\ Len(subgate_inputs') >= Len(subgate_inputs)
      /\ \A k \in 1 .. Len(subgate_inputs) : subgate_inputs'[k] = subgate_inputs[k]
  BY <1>1, <1>2 DEF TypeOK
<1>4. /\ Len(subgate_outputs') >= Len(subgate_outputs)
      /\ \A k \in 1 .. Len(subgate_outputs) : subgate_outputs'[k] = subgate_outputs[k]
  BY <1>1, <1>2 DEF TypeOK
<1>5. Len(subgate_inputs) \in Nat /\ Len(subgate_outputs) \in Nat
      /\ Len(subgate_inputs') \in Nat /\ Len(subgate_outputs') \in Nat
  BY <1>1, <1>2 DEF TypeOK
<1>6. input_pins \in Nat /\ output_pins \in Nat
  BY DEF TypeOK
<1>7. CASE id < INPUT_PIN_LIMIT /\ ~(id < input_pins)
  <2>1. id - input_pins < Len(subgate_inputs) /\ id - input_pins + 1 \in 1 .. Len(subgate_inputs)
    BY <1>5, <1>6, <1>7 DEF get_pin
  <2>2. id - input_pins < Len(subgate_inputs') /\ input_pins' = input_pins
    BY ONLY <1>1, <1>3, <1>5, <1>6, <2>1, id \in Nat
  <2>3. subgate_inputs'[id - input_pins + 1] = subgate_inputs[id - input_pins + 1]
    BY <1>3, <2>1
  <2> QED
    BY <1>7, <2>1, <2>2, <2>3 DEF get_pin
<1>8. CASE ~(id < INPUT_PIN_LIMIT) /\ ~(id - INPUT_PIN_LIMIT < output_pins)
  <2> DEFINE o == id - INPUT_PIN_LIMIT
  <2>1. o \in Int
    BY LimitAssumption
  <2>2. o - output_pins < Len(subgate_outputs) /\ o - output_pins + 1 \in 1 .. Len(subgate_outputs)
    BY <1>5, <1>6, <1>8, <2>1 DEF get_pin
  <2> HIDE DEF o
  <2>3. o - output_pins < Len(subgate_outputs') /\ output_pins' = output_pins
    BY ONLY <1>1, <1>4, <1>5, <1>6, <2>1, <2>2
  <2>4. subgate_outputs'[o - output_pins + 1] = subgate_outputs[o - output_pins + 1]
    BY <1>4, <2>2
  <2> QED
    BY <1>8, <2>2, <2>3, <2>4 DEF get_pin, o
<1>9. CASE id < INPUT_PIN_LIMIT /\ id < input_pins
  BY <1>1, <1>9 DEF get_pin
<1>10. CASE ~(id < INPUT_PIN_LIMIT) /\ id - INPUT_PIN_LIMIT < output_pins
  BY <1>1, <1>10 DEF get_pin
<1> QED
  BY <1>7, <1>8, <1>9, <1>10

-----------------------------------------------------------------------------
\* Each wire's numbers still are those of its ends after every step.
LEMMA FollowedStep ==
  ASSUME TypeOK, Followed, [Operation]_vars
  PROVE Followed'
<1> DEFINE recipe == wire_construction_recipe
<1>1. /\ Len(recipe) = Len(wires) /\ Len(wires) \in Nat
      /\ \A w \in 1 .. Len(wires), end \in {1, 2} :
           /\ recipe[w][end] \in Nat
           /\ get_pin(recipe[w][end]) = wires[w][end]
           /\ wires[w][end] # nullptr
  <2>1. Len(recipe) = Len(wires) /\ Len(wires) \in Nat
    BY DEF Followed, TypeOK
  <2>2. ASSUME NEW w \in 1 .. Len(wires), NEW end \in {1, 2}
        PROVE /\ recipe[w][end] \in Nat
              /\ get_pin(recipe[w][end]) = wires[w][end]
              /\ wires[w][end] # nullptr
    <3>1. recipe[w] \in Nat \X Nat /\ wires[w] \in Pin \X Pin
      BY <2>1 DEF TypeOK
    <3>2. recipe[w][end] \in Nat /\ wires[w][end] \in Pin
      BY <3>1
    <3> QED
      BY <2>1, <3>2, NullIsNoPin DEF Followed
  <2> QED
    BY <2>1, <2>2
<1>2. ASSUME NEW n \in Nat, add_input_pin(n)
      PROVE Followed'
  <2>1. /\ wires' = wires
        /\ recipe' = [w \in 1 .. Len(recipe) |-> <<ShiftedInput(n, recipe[w][1]), ShiftedInput(n, recipe[w][2])>>]
    BY <1>2 DEF add_input_pin, Renumbered
  <2>2. Len(recipe') = Len(wires')
    BY <1>1, <2>1
  <2>3. ASSUME NEW w \in 1 .. Len(wires), NEW end \in {1, 2}
        PROVE get_pin(recipe[w][end])' = wires[w][end]
    <3>1. recipe'[w][end] = ShiftedInput(n, recipe[w][end])
      BY <1>1, <2>1
    <3> QED
      BY <1>1, <1>2, <2>1, <3>1, InputsMove
  <2> QED
    BY <2>1, <2>2, <2>3 DEF Followed
<1>3. ASSUME NEW n \in Nat, add_output_pin(n)
      PROVE Followed'
  <2>1. /\ wires' = wires
        /\ recipe' = [w \in 1 .. Len(recipe) |-> <<ShiftedOutput(n, recipe[w][1]), ShiftedOutput(n, recipe[w][2])>>]
    BY <1>3 DEF add_output_pin, Renumbered
  <2>2. Len(recipe') = Len(wires')
    BY <1>1, <2>1
  <2>3. ASSUME NEW w \in 1 .. Len(wires), NEW end \in {1, 2}
        PROVE get_pin(recipe[w][end])' = wires[w][end]
    <3>1. recipe'[w][end] = ShiftedOutput(n, recipe[w][end])
      BY <1>1, <2>1
    <3> QED
      BY <1>1, <1>3, <2>1, <3>1, OutputsMove
  <2> QED
    BY <2>1, <2>2, <2>3 DEF Followed
<1>4. ASSUME NEW shape \in Shapes, add_subgate(shape)
      PROVE Followed'
  <2>1. recipe' = recipe /\ wires' = wires
    BY <1>4 DEF add_subgate
  <2>2. ASSUME NEW w \in 1 .. Len(wires), NEW end \in {1, 2}
        PROVE get_pin(recipe[w][end])' = wires[w][end]
    <3> DEFINE id == recipe[w][end]
    <3>1. get_pin(id)' = get_pin(id)
      <4>1. id' = id /\ id \in Nat /\ get_pin(id) # nullptr
        BY <1>1, <2>1
      <4> QED
        BY <1>4, <4>1, SubgatesFollow
    <3> QED
      BY <1>1, <3>1
  <2> QED
    BY <1>1, <2>1, <2>2 DEF Followed
<1>5. ASSUME NEW p1 \in Nat, NEW p2 \in Nat, wire_pins(p1, p2)
      PROVE Followed'
  <2>1. /\ recipe' = Append(recipe, <<p1, p2>>)
        /\ wires' = Append(wires, <<get_pin(p1), get_pin(p2)>>)
    BY <1>5 DEF wire_pins
  <2>2. \A id : get_pin(id)' = get_pin(id)
    BY <1>5 DEF wire_pins, get_pin
  <2> QED
    BY <1>1, <2>1, <2>2 DEF Followed, TypeOK
<1>6. CASE UNCHANGED vars
  BY <1>6 DEF Followed, vars, get_pin
<1> QED
  BY <1>2, <1>3, <1>4, <1>5, <1>6 DEF Operation

-----------------------------------------------------------------------------
\* The pins of one more gate are new ones (add_subgate).
LEMMA ListedLonger ==
  ASSUME NEW pins \in Seq(Pin), NEW side \in {"in", "out"}, NEW count \in Nat, NEW n \in Nat,
         Listed(pins, side, count)
  PROVE Listed(pins \o PinsOf(count + 1, side, n), side, count + 1)
<1> DEFINE more == PinsOf(count + 1, side, n)
           all == pins \o more
<1>1. more \in Seq(Pin) /\ Len(more) = n /\ \A k \in 1 .. n : more[k] = <<count + 1, side, k - 1>>
  <2>1. count + 1 \in Nat
    OBVIOUS
  <2> QED
    BY ONLY <2>1, PinsOfGate, side \in {"in", "out"}, n \in Nat
<1> HIDE DEF more
<1>2. /\ Len(all) = Len(pins) + n
      /\ Len(pins) \in Nat
      /\ \A k \in 1 .. Len(pins) : all[k] = pins[k]
      /\ \A k \in Len(pins) + 1 .. Len(pins) + n : all[k] = <<count + 1, side, k - Len(pins) - 1>>
  <2>1. Len(all) = Len(pins) + n /\ Len(pins) \in Nat
    BY <1>1, ConcatProperties, LenProperties
  <2>2. \A k \in 1 .. Len(pins) : all[k] = pins[k]
    BY <1>1
  <2>3. ASSUME NEW k \in Len(pins) + 1 .. Len(pins) + n
        PROVE all[k] = <<count + 1, side, k - Len(pins) - 1>>
    <3>1. k - Len(pins) \in 1 .. n
      BY <2>1
    <3>2. all[k] = more[k - Len(pins)]
      BY <1>1, <2>1
    <3> QED
      BY <1>1, <3>1, <3>2
  <2> QED
    BY <2>1, <2>2, <2>3
<1> HIDE DEF all
<1>3. \A k \in 1 .. Len(all) : all[k][1] \in 1 .. count + 1 /\ all[k][2] = side
  BY <1>2 DEF Listed
<1>4. ASSUME NEW j \in 1 .. Len(all), NEW k \in 1 .. Len(all), all[j] = all[k]
      PROVE j = k
  <2>1. CASE j <= Len(pins) /\ k <= Len(pins)
    <3>1. j \in 1 .. Len(pins) /\ k \in 1 .. Len(pins)
      BY <1>2, <2>1
    <3>2. pins[j] = pins[k]
      BY <1>2, <1>4, <3>1
    <3> QED
      BY <3>1, <3>2 DEF Listed
  <2>2. CASE j <= Len(pins) /\ k > Len(pins)
    <3>1. all[j][1] \in 1 .. count /\ all[k][1] = count + 1
      BY <1>2, <2>2 DEF Listed
    <3> QED
      BY <1>4, <3>1
  <2>3. CASE j > Len(pins) /\ k <= Len(pins)
    <3>1. all[k][1] \in 1 .. count /\ all[j][1] = count + 1
      BY <1>2, <2>3 DEF Listed
    <3> QED
      BY <1>4, <3>1
  <2>4. CASE j > Len(pins) /\ k > Len(pins)
    <3>1. all[j][3] = j - Len(pins) - 1 /\ all[k][3] = k - Len(pins) - 1
      BY <1>2, <2>4
    <3> QED
      BY <1>2, <1>4, <3>1
  <2> QED
    BY <1>2, <2>1, <2>2, <2>3, <2>4
<1> QED
  BY <1>3, <1>4 DEF Listed, all, more

\* The inputs stay below the limit, and the pins of the subgates stay distinct.
LEMMA PinsStep ==
  ASSUME TypeOK, HasRoom, Listed(subgate_inputs, "in", subgate_count),
         Listed(subgate_outputs, "out", subgate_count), [Operation]_vars
  PROVE HasRoom' /\ Listed(subgate_inputs, "in", subgate_count)'
              /\ Listed(subgate_outputs, "out", subgate_count)'
<1>1. ASSUME NEW n \in Nat, add_input_pin(n) \/ add_output_pin(n)
      PROVE /\ HasRoom'
            /\ UNCHANGED <<subgate_inputs, subgate_outputs, subgate_count>>
  BY <1>1 DEF add_input_pin, add_output_pin, Addressable, HasRoom
<1>2. ASSUME NEW shape \in Shapes, add_subgate(shape)
      PROVE /\ HasRoom'
            /\ Listed(subgate_inputs, "in", subgate_count)'
            /\ Listed(subgate_outputs, "out", subgate_count)'
  <2>1. shape[1] \in Nat /\ shape[2] \in Nat
    OBVIOUS
  <2>2. /\ subgate_count' = subgate_count + 1 /\ subgate_count \in Nat
        /\ subgate_inputs \in Seq(Pin) /\ subgate_outputs \in Seq(Pin)
    BY <1>2 DEF add_subgate, TypeOK
  <2>3. /\ subgate_inputs' = subgate_inputs \o PinsOf(subgate_count + 1, "in", shape[1])
        /\ subgate_outputs' = subgate_outputs \o PinsOf(subgate_count + 1, "out", shape[2])
    BY <1>2 DEF add_subgate
  <2>4. Listed(subgate_inputs, "in", subgate_count)'
    BY <2>1, <2>2, <2>3, ListedLonger
  <2>5. Listed(subgate_outputs, "out", subgate_count)'
    BY <2>1, <2>2, <2>3, ListedLonger
  <2>6. HasRoom'
    <3>1. Len(subgate_inputs') = Len(subgate_inputs) + shape[1]
      <4> DEFINE ins == PinsOf(subgate_count + 1, "in", shape[1])
      <4>1. subgate_count + 1 \in Nat
        BY <2>2
      <4>2. ins \in Seq(Pin) /\ Len(ins) = shape[1]
        BY <2>1, <4>1, PinsOfGate
      <4> HIDE DEF ins
      <4> QED
        BY <2>2, <2>3, <4>2 DEF ins
    <3>2. input_pins' = input_pins /\ input_pins + shape[1] + Len(subgate_inputs) <= INPUT_PIN_LIMIT
      BY <1>2 DEF add_subgate, Addressable
    <3>3. input_pins \in Nat /\ Len(subgate_inputs) \in Nat
      BY DEF TypeOK
    <3> QED
      BY <2>1, <3>1, <3>2, <3>3 DEF HasRoom
  <2> QED
    BY <2>4, <2>5, <2>6
<1>3. ASSUME NEW p1 \in Nat, NEW p2 \in Nat, wire_pins(p1, p2)
      PROVE UNCHANGED <<input_pins, subgate_inputs, subgate_outputs, subgate_count>>
  BY <1>3 DEF wire_pins
<1>4. CASE UNCHANGED vars
  BY <1>4 DEF vars, HasRoom, Listed
<1> QED
  BY <1>1, <1>2, <1>3, <1>4 DEF Operation, HasRoom, Listed

LEMMA Initially == Init => IInv
<1> SUFFICES ASSUME Init PROVE IInv
  OBVIOUS
<1>1. TypeOK
  BY DEF Init, TypeOK
<1>2. HasRoom /\ Listed(subgate_inputs, "in", subgate_count) /\ Listed(subgate_outputs, "out", subgate_count)
  BY DEF Init, HasRoom, Listed
<1>3. Followed
  BY DEF Init, Followed
<1> QED
  BY <1>1, <1>2, <1>3 DEF IInv

\* The inductive invariant: a recipe can only keep up with the pins while the inputs
\* stay below the limit, and numbers can only stay apart while the pins do.
LEMMA Inductive == IInv /\ [Operation]_vars => IInv'
BY TypeStep, PinsStep, FollowedStep DEF IInv

LEMMA Invariance == Spec => []IInv
BY Initially, Inductive, NextOperates, PTL DEF Spec

\* The invariant gives a duplicate the wires of the gate (duplicate).
LEMMA Agree == IInv => Coherent
<1> SUFFICES ASSUME TypeOK, Followed PROVE Coherent
  BY DEF IInv
<1>1. /\ wires \in Seq(Pin \X Pin)
      /\ Len(wire_construction_recipe) = Len(wires)
  BY DEF TypeOK, Followed
<1>2. \A w \in 1 .. Len(wires) :
        wires[w] = <<get_pin(wire_construction_recipe[w][1]), get_pin(wire_construction_recipe[w][2])>>
  <2>1. \A w \in 1 .. Len(wires) : wires[w] = <<wires[w][1], wires[w][2]>>
    BY <1>1
  <2> QED
    BY <2>1 DEF Followed
<1>3. wires = [w \in 1 .. Len(wires) |-> wires[w]]
  BY <1>1
<1> QED
  BY <1>1, <1>2, <1>3 DEF Coherent, Duplicated

\* However pins, subgates and wires are added, as long as the inputs stay below the
\* limit, a duplicate of the gate is wired as the gate itself is (duplicate).
THEOREM DuplicatesAgree == Spec => []Coherent
BY Agree, Invariance, PTL

-----------------------------------------------------------------------------
\* Where the pin of a number is: among the gate's own on one side, or its subgates'.
OwnInput(id) == id < input_pins /\ get_pin(id) = <<0, "in", id>>
OwnOutput(id) == get_pin(id) = <<0, "out", id - INPUT_PIN_LIMIT>>
SubgateInput(id) ==
  /\ id - input_pins + 1 \in 1 .. Len(subgate_inputs)
  /\ get_pin(id) = subgate_inputs[id - input_pins + 1]
SubgateOutput(id) ==
  /\ id - INPUT_PIN_LIMIT - output_pins + 1 \in 1 .. Len(subgate_outputs)
  /\ get_pin(id) = subgate_outputs[id - INPUT_PIN_LIMIT - output_pins + 1]

\* Every pin is in one of the four places (get_pin).
LEMMA PinPlaces ==
  ASSUME TypeOK, NEW id \in Nat, get_pin(id) # nullptr
  PROVE OwnInput(id) \/ OwnOutput(id) \/ SubgateInput(id) \/ SubgateOutput(id)
<1> USE DEF get_pin
<1>1. /\ input_pins \in Nat /\ output_pins \in Nat
      /\ Len(subgate_inputs) \in Nat /\ Len(subgate_outputs) \in Nat
  BY DEF TypeOK
<1>2. CASE id < INPUT_PIN_LIMIT /\ id < input_pins
  BY <1>2 DEF OwnInput
<1>3. CASE id < INPUT_PIN_LIMIT /\ ~ (id < input_pins)
  BY <1>1, <1>3 DEF SubgateInput
<1>4. CASE ~ (id < INPUT_PIN_LIMIT) /\ id - INPUT_PIN_LIMIT < output_pins
  BY <1>4 DEF OwnOutput
<1>5. CASE ~ (id < INPUT_PIN_LIMIT) /\ ~ (id - INPUT_PIN_LIMIT < output_pins)
  BY <1>1, <1>5 DEF SubgateOutput
<1> QED
  BY <1>2, <1>3, <1>4, <1>5

\* It keeps the numbers apart (get_pin).
LEMMA Apart == IInv => OneNumberEach
<1> SUFFICES ASSUME IInv,
                    NEW a \in Nat, NEW b \in Nat,
                    get_pin(a) = get_pin(b), get_pin(a) # nullptr
             PROVE a = b
  BY DEF OneNumberEach, Numbers
<1>1. /\ TypeOK
      /\ input_pins \in Nat /\ output_pins \in Nat
      /\ Len(subgate_inputs) \in Nat /\ Len(subgate_outputs) \in Nat
  BY DEF IInv, TypeOK
<1>2. /\ \A k \in 1 .. Len(subgate_inputs) : subgate_inputs[k][1] # 0 /\ subgate_inputs[k][2] = "in"
      /\ \A k \in 1 .. Len(subgate_outputs) : subgate_outputs[k][1] # 0 /\ subgate_outputs[k][2] = "out"
  BY DEF IInv, Listed
<1>3. ASSUME NEW id \in {a, b}
      PROVE /\ OwnInput(id) \/ OwnOutput(id) \/ SubgateInput(id) \/ SubgateOutput(id)
            /\ OwnInput(id) => get_pin(id)[1] = 0 /\ get_pin(id)[2] = "in" /\ get_pin(id)[3] = id
            /\ OwnOutput(id) => get_pin(id)[1] = 0 /\ get_pin(id)[2] = "out" /\ get_pin(id)[3] = id - INPUT_PIN_LIMIT
            /\ SubgateInput(id) => get_pin(id)[1] # 0 /\ get_pin(id)[2] = "in"
            /\ SubgateOutput(id) => get_pin(id)[1] # 0 /\ get_pin(id)[2] = "out"
  <2>1. OwnInput(id) \/ OwnOutput(id) \/ SubgateInput(id) \/ SubgateOutput(id)
    BY <1>1, PinPlaces
  <2> QED
    BY <1>2, <2>1 DEF OwnInput, OwnOutput, SubgateInput, SubgateOutput
<1>4. CASE OwnInput(a) /\ OwnInput(b)
  BY <1>3, <1>4
<1>5. CASE OwnOutput(a) /\ OwnOutput(b)
  <2>1. a - INPUT_PIN_LIMIT = b - INPUT_PIN_LIMIT
    BY <1>3, <1>5
  <2> QED
    BY <2>1
<1>6. CASE SubgateInput(a) /\ SubgateInput(b)
  <2>1. a - input_pins + 1 = b - input_pins + 1
    BY <1>6 DEF IInv, Listed, SubgateInput
  <2> QED
    BY <1>1, <2>1
<1>7. CASE SubgateOutput(a) /\ SubgateOutput(b)
  <2>1. a - INPUT_PIN_LIMIT - output_pins + 1 = b - INPUT_PIN_LIMIT - output_pins + 1
    BY <1>7 DEF IInv, Listed, SubgateOutput
  <2> QED
    BY <1>1, <2>1
<1> QED
  BY <1>3, <1>4, <1>5, <1>6, <1>7

\* However the gate was built, no two numbers mean the same pin (get_pin).
THEOREM NumbersApart == Spec => []OneNumberEach
BY Apart, Invariance, PTL

-----------------------------------------------------------------------------
(* The window. *)

USE LimitAssumption DEF LimitAssumption

guiAll == <<vars, guiVars>>

-----------------------------------------------------------------------------
(* The ports and the pins in them. *)

\* Where the size of a component has the pins of a side.
Column(side) == IF side = "in" THEN 1 ELSE 2

\* How many pins a port shows.
LEMMA PortSizes ==
  /\ PortSize(0, "in") = m_input_pin_port
  /\ PortSize(0, "out") = m_output_pin_port
  /\ \A g \in Nat \ {0}, side \in Sides : PortSize(g, side) = m_components[g][Column(side)]
BY DEF PortSize, Column, Sides

\* A pin that the window shows, by its gate, its side and its place.
Shows(g, side, k) ==
  /\ g \in 0 .. Len(m_components)
  /\ side \in Sides
  /\ k \in 0 .. PortSize(g, side) - 1

LEMMA Showing ==
  ASSUME NEW pin
  PROVE  pin \in ShownPins <=> \E g, side, k : Shows(g, side, k) /\ pin = <<g, side, k>>
<1>1. ASSUME pin \in ShownPins
      PROVE  \E g, side, k : Shows(g, side, k) /\ pin = <<g, side, k>>
  <2>1. PICK g \in 0 .. Len(m_components), side \in Sides : pin \in PortPins(g, side)
    BY <1>1 DEF ShownPins
  <2>2. PICK k \in 0 .. PortSize(g, side) - 1 : pin = <<g, side, k>>
    BY <2>1 DEF PortPins
  <2> QED
    BY <2>1, <2>2 DEF Shows
<1>2. ASSUME NEW g, NEW side, NEW k, Shows(g, side, k), pin = <<g, side, k>>
      PROVE  pin \in ShownPins
  <2>1. pin \in PortPins(g, side)
    BY <1>2 DEF PortPins, Shows
  <2> QED
    BY <1>2, <2>1 DEF ShownPins, Shows
<1> QED
  BY <1>1, <1>2

\* The place of a click on a pin names the pin.
LEMMA PinPlace ==
  ASSUME NEW g, NEW side, NEW k, NEW place, place = <<"pin">> \o <<g, side, k>>
  PROVE  place[1] = "pin" /\ place[2] = g /\ place[3] = side /\ place[4] = k /\ place # nullptr
<1>1. Len(place) = 4
  OBVIOUS
<1>2. place # nullptr
  BY <1>1 DEF nullptr
<1>3. place[1] = "pin" /\ place[2] = g /\ place[3] = side /\ place[4] = k
  OBVIOUS
<1>. QED
  BY <1>2, <1>3

-----------------------------------------------------------------------------
(* The inductive invariant. *)

\* A wire on the screen, with the number its first pin had.
Wire == [m_src : Pin, m_src_idx : Nat, m_dest_pins : Pin \cup {nullptr}]

\* What the toolbox, the ports and the wires can be.
WindowTypes ==
  /\ edit_mode \in {"IDLE", "WIRING", "TEXT"}
  /\ m_name_edit \in BOOLEAN /\ m_search_edit \in BOOLEAN /\ m_entries \in BOOLEAN
  /\ m_active_component \in Shapes \cup {nullptr}
  /\ m_input_pin_port \in Nat /\ m_output_pin_port \in Nat
  /\ m_components \in Seq(Nat \X Nat)
  /\ m_wires \in Seq(Wire)

\* A click under way is at a place that is on the screen, and a box is typed in only if
\* the click is on it.
Clicked ==
  event # nullptr =>
    /\ m_name_edit <=> event = <<"name">>
    /\ m_search_edit <=> event = <<"search">>
    /\ event[1] = "port" => event[2] \in 0 .. Len(m_components) /\ event[3] \in Sides
    /\ event[1] = "pin" => Shows(event[2], event[3], event[4])

\* Typing is a mode, and the wire being drawn is the last one.
Modes ==
  /\ edit_mode = "TEXT" => m_name_edit \/ m_search_edit
  /\ active_wire \in {0, Len(m_wires)}
  /\ active_wire # 0 => m_wires[active_wire].m_dest_pins = nullptr

\* The pins of the components on one side are one after the other in a list: off[g] of
\* them come before those of component g.
Stacked(off, components, pins, side) ==
  /\ off[1] = 0
  /\ Len(pins) = off[Len(components) + 1]
  /\ \A g \in 1 .. Len(components) :
       /\ off[g + 1] = off[g] + components[g][Column(side)]
       /\ off[g + 1] <= Len(pins)
       /\ \A k \in 0 .. components[g][Column(side)] - 1 : pins[off[g] + k + 1] = <<g, side, k>>

\* The window shows the pins that the sketch has.
Alike ==
  /\ m_input_pin_port = input_pins
  /\ m_output_pin_port = output_pins
  /\ Len(m_components) = subgate_count
  /\ \E off \in [Nat -> Nat] : Stacked(off, m_components, subgate_inputs, "in")
  /\ \E off \in [Nat -> Nat] : Stacked(off, m_components, subgate_outputs, "out")

\* While a wire is drawn the mode stays, no box is open, and its first pin keeps the
\* number it had.
Drawing ==
  active_wire # 0 =>
    /\ edit_mode = "WIRING" /\ ~m_name_edit /\ ~m_search_edit
    /\ get_pin(m_wires[active_wire].m_src_idx) = m_wires[active_wire].m_src

WindowInv ==
  /\ IInv
  /\ WindowTypes
  /\ Clicked
  /\ Modes
  /\ "edge" \notin slips => Alike
  /\ slips = {} => Drawing /\ WiredAsDrawn
-----------------------------------------------------------------------------
(* How many pins of a side the window counts before a component. *)

\* Sizes can be added up one after the other.
LEMMA Totals ==
  ASSUME NEW size \in [Nat -> Nat]
  PROVE  \E f \in [Nat -> Nat] : f[0] = 0 /\ \A m \in Nat \ {0} : f[m] = f[m - 1] + size[m - 1]
<1> DEFINE step == [n \in Nat |-> [v \in Nat |-> v + size[n]]]
<1>1. step \in [Nat -> [Nat -> Nat]] /\ \A n, v \in Nat : step[n][v] = v + size[n]
  OBVIOUS
<1> HIDE DEF step
<1>2. PICK f : Recurs(f, Nat, 0, step)
  BY <1>1, Recursion
<1>3. f \in [Nat -> Nat] /\ f[0] = 0 /\ \A n \in Nat : f[n + 1] = step[n][f[n]]
  BY <1>2 DEF Recurs
<1>4. ASSUME NEW m \in Nat \ {0}
      PROVE  f[m] = f[m - 1] + size[m - 1]
  <2>1. m - 1 \in Nat /\ (m - 1) + 1 = m /\ f[m - 1] \in Nat
    BY <1>3
  <2>2. f[m] = step[m - 1][f[m - 1]]
    BY <1>3, <2>1
  <2>. QED
    BY <1>1, <2>1, <2>2
<1>. QED
  BY <1>3, <1>4

\* What the window counts before a component is the sum of the ports before it.
LEMMA Counting ==
  ASSUME NEW side, NEW n \in Nat, NEW f \in [Nat -> Nat], f[0] = 0,
         \A m \in 1 .. n : f[m] = f[m - 1] + PortSize(m - 1, side)
  PROVE  \A g \in 0 .. n : Before(g, side) = f[g]
<1> TAKE g \in 0 .. n
<1> DEFINE E(h) == h = [x \in 0 .. g |-> IF x = 0 THEN 0 ELSE h[x - 1] + PortSize(x - 1, side)]
           acc == CHOOSE h : E(h)
           f0 == [x \in 0 .. g |-> f[x]]
<1>1. Before(g, side) = acc[g]
  BY DEF Before
<1>2. E(f0)
  <2>1. ASSUME NEW x \in 0 .. g
        PROVE  f0[x] = IF x = 0 THEN 0 ELSE f0[x - 1] + PortSize(x - 1, side)
    OBVIOUS
  <2>. QED
    BY <2>1, Zenon
<1>3. E(acc)
  BY <1>2
<1>4. PICK a : a = acc
  OBVIOUS
<1>5. /\ a[0] = f[0]
      /\ \A x \in 0 .. g : x + 1 \in 0 .. g /\ a[x] = f[x] => a[x + 1] = f[x + 1]
  <2> HIDE DEF acc
  <2>1. a[0] = f[0]
    BY <1>3, <1>4
  <2>2. ASSUME NEW x \in 0 .. g, x + 1 \in 0 .. g, a[x] = f[x]
        PROVE  a[x + 1] = f[x + 1]
    <3>1. x + 1 \in 1 .. n /\ x + 1 # 0 /\ (x + 1) - 1 = x
      BY <2>2
    <3>2. a[x + 1] = a[x] + PortSize(x, side)
      BY <1>3, <1>4, <2>2, <3>1
    <3>3. f[x + 1] = f[x] + PortSize(x, side)
      BY <3>1
    <3>. QED
      BY <2>2, <3>2, <3>3
  <2>. QED
    BY <2>1, <2>2
<1>6. \A x \in 0 .. g : a[x] = f[x]
  <2> DEFINE S == {x \in Nat : x \in 0 .. g => a[x] = f[x]}
  <2>1. 0 \in S
    BY <1>5
  <2>2. ASSUME NEW x \in Nat, x \in S
        PROVE  x + 1 \in S
    BY <1>5, <2>2
  <2>3. Nat \subseteq S
    <3> HIDE DEF S
    <3>. QED
      BY <2>1, <2>2, SetInduction
  <2>. QED
    BY <2>3
<1> QED
  BY <1>1, <1>4, <1>6

\* Sizes are numbers, and so is what is counted.
LEMMA SizesCount ==
  ASSUME WindowTypes, NEW side \in Sides
  PROVE  \A g \in 0 .. Len(m_components) : PortSize(g, side) \in Nat
<1> TAKE g \in 0 .. Len(m_components)
<1>1. CASE g = 0
  BY <1>1, PortSizes DEF WindowTypes, Sides
<1>2. CASE g # 0
  <2>1. g \in 1 .. Len(m_components) /\ g \in Nat \ {0}
    BY <1>2
  <2>2. m_components[g] \in Nat \X Nat
    BY <2>1 DEF WindowTypes
  <2>. QED
    BY <2>1, <2>2, PortSizes DEF Sides, Column
<1>. QED
  BY <1>1, <1>2

LEMMA CountsNumbers ==
  ASSUME WindowTypes, NEW side \in Sides, NEW g \in 0 .. Len(m_components)
  PROVE  Before(g, side) \in Nat
<1> DEFINE size == [x \in Nat |-> IF x \in 0 .. Len(m_components) THEN PortSize(x, side) ELSE 0]
<1>1. Len(m_components) \in Nat
  BY DEF WindowTypes
<1>2. size \in [Nat -> Nat]
  BY SizesCount
<1>3. \A x \in 0 .. Len(m_components) : size[x] = PortSize(x, side)
  OBVIOUS
<1> HIDE DEF size
<1>4. PICK s : s = size
  OBVIOUS
<1>5. \E f \in [Nat -> Nat] : f[0] = 0 /\ \A m \in Nat \ {0} : f[m] = f[m - 1] + s[m - 1]
  BY ONLY <1>2, <1>4, Totals
<1>6. PICK f \in [Nat -> Nat] : f[0] = 0 /\ \A m \in Nat \ {0} : f[m] = f[m - 1] + s[m - 1]
  BY <1>5
<1>7. ASSUME NEW m \in 1 .. Len(m_components)
      PROVE  f[m] = f[m - 1] + PortSize(m - 1, side)
  <2>1. m - 1 \in 0 .. Len(m_components)
    BY <1>1
  <2>2. s[m - 1] = PortSize(m - 1, side)
    BY <1>3, <1>4, <2>1
  <2>. QED
    BY <1>6, <2>2
<1>8. Before(g, side) = f[g]
  BY ONLY <1>1, <1>6, <1>7, Counting, g \in 0 .. Len(m_components)
<1>. QED
  BY <1>1, <1>8

\* Once the components are stacked, what is counted before one is the sketch's own pins
\* and those of the components below it.
LEMMA Stacks ==
  ASSUME WindowTypes, NEW side \in Sides, NEW pins \in Seq(Pin),
         NEW off \in [Nat -> Nat], Stacked(off, m_components, pins, side)
  PROVE  /\ Before(0, side) = 0
         /\ \A g \in 1 .. Len(m_components) : Before(g, side) = PortSize(0, side) + off[g]
<1> DEFINE f == [x \in Nat |-> IF x = 0 THEN 0 ELSE PortSize(0, side) + off[x]]
<1>1. Len(m_components) \in Nat
  BY DEF WindowTypes
<1>2. PortSize(0, side) \in Nat
  BY <1>1, SizesCount
<1>3. f \in [Nat -> Nat] /\ f[0] = 0 /\ \A x \in Nat \ {0} : f[x] = PortSize(0, side) + off[x]
  <2>0. PICK p \in Nat : p = PortSize(0, side)
    BY ONLY <1>2
  <2>1. \A x \in Nat : p + off[x] \in Nat
    BY ONLY off \in [Nat -> Nat], p \in Nat
  <2>. QED
    BY ONLY <2>0, <2>1, 0 \in Nat
<1> HIDE DEF f
<1>4. ASSUME NEW m \in 1 .. Len(m_components)
      PROVE  f[m] = f[m - 1] + PortSize(m - 1, side)
  <2>1. CASE m = 1
    BY <1>2, <1>3, <2>1 DEF Stacked
  <2>2. CASE m # 1
    <3>1. /\ m - 1 \in 1 .. Len(m_components) /\ m - 1 \in Nat \ {0} /\ m \in Nat \ {0}
          /\ (m - 1) + 1 = m /\ m - 1 \in 0 .. Len(m_components)
      <4>1. PICK n \in Nat : n = Len(m_components)
        BY <1>1
      <4>2. m \in 1 .. n
        BY <4>1
      <4>3. /\ m - 1 \in 1 .. n /\ m - 1 \in Nat \ {0} /\ m \in Nat \ {0}
            /\ (m - 1) + 1 = m /\ m - 1 \in 0 .. n
        BY ONLY <2>2, <4>2, n \in Nat
      <4>. QED
        BY ONLY <4>1, <4>3
    <3>2. off[m] = off[m - 1] + PortSize(m - 1, side)
      BY <3>1, PortSizes DEF Stacked
    <3>3. off[m - 1] \in Nat /\ PortSize(m - 1, side) \in Nat
      BY <1>1, <3>1, SizesCount
    <3>. QED
      BY <1>2, <1>3, <3>1, <3>2, <3>3
  <2>. QED
    BY <2>1, <2>2
<1>5. PICK h \in [Nat -> Nat] : h = f
  BY <1>3
<1>6. \A g \in 0 .. Len(m_components) : Before(g, side) = h[g]
  <2>1. h[0] = 0 /\ \A m \in 1 .. Len(m_components) : h[m] = h[m - 1] + PortSize(m - 1, side)
    BY <1>3, <1>4, <1>5
  <2>. QED
    BY ONLY <1>1, <1>5, <2>1, Counting
<1>. QED
  BY <1>1, <1>3, <1>5, <1>6

\* A number the window finds is a number.
LEMMA PidNumber ==
  ASSUME WindowTypes, NEW g, NEW side, NEW k, Shows(g, side, k)
  PROVE  get_pid(<<g, side, k>>) \in Nat
<1>1. g \in 0 .. Len(m_components) /\ side \in Sides /\ PortSize(g, side) \in Nat
  BY SizesCount DEF Shows
<1>2. Before(g, side) \in Nat /\ k \in Nat
  BY <1>1, CountsNumbers DEF Shows
<1>3. side = "in" \/ side = "out"
  BY <1>1 DEF Sides
<1>4. get_pid(<<g, side, k>>) \in {k + Before(g, side), k + Before(g, side) + INPUT_PIN_LIMIT}
  BY DEF get_pid
<1>. QED
  BY <1>2, <1>4

\* The sketch finds the pin by the number that the window counts (BoardGui::get_pin, Gate::get_pin).
LEMMA Numbered ==
  ASSUME IInv, WindowTypes, Alike, NEW g, NEW side, NEW k, Shows(g, side, k)
  PROVE  get_pin(get_pid(<<g, side, k>>)) = <<g, side, k>>
<1>1. PICK l \in Nat, m \in Nat, n \in Nat :
        /\ l = Len(subgate_inputs) /\ m = Len(subgate_outputs) /\ n = Len(m_components)
        /\ input_pins \in Nat /\ output_pins \in Nat
        /\ input_pins + l <= INPUT_PIN_LIMIT
  <2>1. Len(subgate_inputs) \in Nat /\ Len(subgate_outputs) \in Nat /\ Len(m_components) \in Nat
    BY DEF IInv, TypeOK, WindowTypes
  <2>2. /\ input_pins \in Nat /\ output_pins \in Nat
        /\ input_pins + Len(subgate_inputs) <= INPUT_PIN_LIMIT
    BY DEF IInv, TypeOK, HasRoom
  <2>. QED
    BY ONLY <2>1, <2>2
<1>2. PICK ins \in [Nat -> Nat] : Stacked(ins, m_components, subgate_inputs, "in")
  BY DEF Alike
<1>3. PICK outs \in [Nat -> Nat] : Stacked(outs, m_components, subgate_outputs, "out")
  BY DEF Alike
<1>4. /\ g \in 0 .. n /\ side \in Sides
      /\ PortSize(g, side) \in Nat /\ k \in Nat /\ k < PortSize(g, side)
      /\ k \in 0 .. PortSize(g, side) - 1
  <2>1. /\ g \in 0 .. Len(m_components) /\ side \in Sides
        /\ k \in 0 .. PortSize(g, side) - 1
    BY DEF Shows
  <2>2. PortSize(g, side) \in Nat
    BY <2>1, SizesCount
  <2>. QED
    BY ONLY <1>1, <2>1, <2>2
<1>5. PortSize(0, "in") = input_pins /\ PortSize(0, "out") = output_pins
  BY PortSizes DEF Alike
<1>6. /\ Before(0, "in") = 0 /\ Before(0, "out") = 0
      /\ \A h \in 1 .. n : /\ Before(h, "in") = input_pins + ins[h]
                     /\ Before(h, "out") = output_pins + outs[h]
  <2>1. subgate_inputs \in Seq(Pin) /\ subgate_outputs \in Seq(Pin)
    BY DEF IInv, TypeOK
  <2>2. "in" \in Sides /\ "out" \in Sides
    BY DEF Sides
  <2>. QED
    BY <1>1, <1>2, <1>3, <1>5, <2>1, <2>2, Stacks
<1>7. /\ k < input_pins => k < INPUT_PIN_LIMIT
      /\ ~(k + INPUT_PIN_LIMIT < INPUT_PIN_LIMIT) /\ (k + INPUT_PIN_LIMIT) - INPUT_PIN_LIMIT = k
  BY ONLY <1>1, <1>4, LimitAssumption DEF LimitAssumption
<1>8. CASE g = 0 /\ side = "in"
  <2>1. get_pid(<<g, side, k>>) = k
    BY <1>4, <1>6, <1>8 DEF get_pid
  <2>2. k < input_pins
    BY ONLY <1>4, <1>5, <1>8
  <2>. QED
    BY ONLY <1>7, <1>8, <2>1, <2>2 DEF get_pin
<1>9. CASE g = 0 /\ side = "out"
  <2>1. get_pid(<<g, side, k>>) = k + INPUT_PIN_LIMIT
    BY <1>4, <1>6, <1>9 DEF get_pid
  <2>2. k < output_pins
    BY ONLY <1>4, <1>5, <1>9
  <2>. QED
    BY ONLY <1>7, <1>9, <2>1, <2>2 DEF get_pin
<1>10. CASE g # 0
  <2>1. g \in 1 .. n /\ g \in Nat
    BY ONLY <1>4, <1>10, n \in Nat
  <2> DEFINE i == ins[g]
             o == outs[g]
  <2>2. i \in Nat /\ o \in Nat
    BY <2>1
  <2>5. PICK size \in Nat : size = PortSize(g, side) /\ size = m_components[g][Column(side)]
    BY <1>4, <1>10, <2>1, PortSizes
  <2>3. CASE side = "in"
    <3>1. PICK id : id = k + (input_pins + i) /\ id = get_pid(<<g, side, k>>)
      BY <1>6, <2>1, <2>3 DEF get_pid
    <3>2. /\ i + size <= l
          /\ subgate_inputs[i + k + 1] = <<g, side, k>>
      BY ONLY <1>1, <1>2, <1>4, <2>1, <2>3, <2>5 DEF Stacked
    <3> HIDE DEF i
    <3>3. i + k < l
      BY ONLY <1>4, <2>2, <2>5, <3>2, l \in Nat
    <3>4. /\ id < INPUT_PIN_LIMIT /\ ~(id < input_pins)
          /\ id - input_pins < l /\ id - input_pins + 1 = i + k + 1
      BY ONLY <1>1, <1>4, <3>1, <2>2, <3>3, LimitAssumption DEF LimitAssumption
    <3>5. get_pin(id) = subgate_inputs[id - input_pins + 1]
      BY ONLY <1>1, <3>4 DEF get_pin
    <3>. QED
      BY ONLY <3>1, <3>2, <3>4, <3>5
  <2>4. CASE side = "out"
    <3>1. PICK id : id = k + (output_pins + o) + INPUT_PIN_LIMIT /\ id = get_pid(<<g, side, k>>)
      BY <1>6, <2>1, <2>4 DEF get_pid
    <3>2. /\ o + size <= m
          /\ subgate_outputs[o + k + 1] = <<g, side, k>>
      BY ONLY <1>1, <1>3, <1>4, <2>1, <2>4, <2>5 DEF Stacked
    <3> HIDE DEF o
    <3>3. o + k < m
      BY ONLY <1>4, <2>2, <2>5, <3>2, m \in Nat
    <3>4. /\ ~(id < INPUT_PIN_LIMIT) /\ ~(id - INPUT_PIN_LIMIT < output_pins)
          /\ id - INPUT_PIN_LIMIT - output_pins < m
          /\ id - INPUT_PIN_LIMIT - output_pins + 1 = o + k + 1
      BY ONLY <1>1, <1>4, <3>1, <3>3, <2>2, LimitAssumption DEF LimitAssumption
    <3>5. get_pin(id) = subgate_outputs[id - INPUT_PIN_LIMIT - output_pins + 1]
      BY ONLY <1>1, <3>4 DEF get_pin
    <3>. QED
      BY ONLY <3>1, <3>2, <3>4, <3>5
  <2>. QED
    BY <1>4, <2>3, <2>4 DEF Sides
<1>. QED
  BY <1>4, <1>8, <1>9, <1>10 DEF Sides

-----------------------------------------------------------------------------
(* The wires drawn. *)

\* The ends of the first wires of a list, without those that have no second end.
EndsOf(ws) ==
  CHOOSE e : e = [k \in 0 .. Len(ws) |->
    IF k = 0 THEN <<>>
    ELSE IF ws[k].m_dest_pins = nullptr THEN e[k - 1]
         ELSE Append(e[k - 1], <<ws[k].m_src, ws[k].m_dest_pins>>)]

\* Each wire with two ends adds them to those of the wires before it.
LEMMA EndsSteps ==
  ASSUME NEW ws \in Seq(Wire)
  PROVE  /\ EndsOf(ws)[0] = <<>>
         /\ \A k \in 1 .. Len(ws) :
              EndsOf(ws)[k] = IF ws[k].m_dest_pins = nullptr THEN EndsOf(ws)[k - 1]
                              ELSE Append(EndsOf(ws)[k - 1], <<ws[k].m_src, ws[k].m_dest_pins>>)
<1> DEFINE More(k, v) == IF ws[k].m_dest_pins = nullptr THEN v
                         ELSE Append(v, <<ws[k].m_src, ws[k].m_dest_pins>>)
           E(e) == e = [k \in 0 .. Len(ws) |->
             IF k = 0 THEN <<>>
             ELSE IF ws[k].m_dest_pins = nullptr THEN e[k - 1]
                  ELSE Append(e[k - 1], <<ws[k].m_src, ws[k].m_dest_pins>>)]
           V == Seq(Pin \X Pin)
           step == [n \in Nat |-> [v \in V |-> IF n < Len(ws) THEN More(n + 1, v) ELSE v]]
<1>1. Len(ws) \in Nat
  OBVIOUS
<1>2. ASSUME NEW k \in 1 .. Len(ws), NEW v \in V
      PROVE  More(k, v) \in V
  <2>1. ws[k] \in Wire
    OBVIOUS
  <2>2. ws[k].m_dest_pins # nullptr => <<ws[k].m_src, ws[k].m_dest_pins>> \in Pin \X Pin
    BY <2>1 DEF Wire
  <2>. QED
    BY <2>2
<1> HIDE DEF V, More
<1>3. step \in [Nat -> [V -> V]]
  <2>1. ASSUME NEW n \in Nat, NEW v \in V
        PROVE  (IF n < Len(ws) THEN More(n + 1, v) ELSE v) \in V
    <3>1. n < Len(ws) => n + 1 \in 1 .. Len(ws)
      BY <1>1
    <3>. QED
      BY <1>2, <3>1
  <2>. QED
    BY <2>1
<1>4. <<>> \in V
  BY DEF V
<1>5. \A n \in Nat, v \in V : n < Len(ws) => step[n][v] = More(n + 1, v)
  OBVIOUS
<1> HIDE DEF step
<1>6. PICK f : Recurs(f, V, <<>>, step)
  BY <1>3, <1>4, Recursion
<1>7. f \in [Nat -> V] /\ f[0] = <<>> /\ \A n \in Nat : f[n + 1] = step[n][f[n]]
  BY <1>6 DEF Recurs
<1>8. ASSUME NEW k \in 1 .. Len(ws)
      PROVE  f[k] = More(k, f[k - 1])
  <2>1. k - 1 \in Nat /\ k - 1 < Len(ws) /\ (k - 1) + 1 = k
    BY <1>1
  <2>2. f[k - 1] \in V
    BY <1>7, <2>1
  <2>. QED
    BY <1>5, <1>7, <2>1, <2>2
<1> DEFINE f0 == [k \in 0 .. Len(ws) |-> f[k]]
<1>9. E(f0)
  <2>1. ASSUME NEW k \in 0 .. Len(ws)
        PROVE  f0[k] = IF k = 0 THEN <<>>
                       ELSE IF ws[k].m_dest_pins = nullptr THEN f0[k - 1]
                            ELSE Append(f0[k - 1], <<ws[k].m_src, ws[k].m_dest_pins>>)
    <3>1. CASE k = 0
      BY <1>7, <3>1
    <3>2. CASE k # 0
      <4>1. k \in 1 .. Len(ws) /\ k - 1 \in 0 .. Len(ws)
        BY <1>1, <3>2
      <4>2. f0[k] = f[k] /\ f0[k - 1] = f[k - 1]
        BY <4>1
      <4>. QED
        BY <1>8, <3>2, <4>1, <4>2 DEF More
    <3>. QED
      BY <3>1, <3>2
  <2>. QED
    BY <2>1, Zenon
<1>10. E(EndsOf(ws))
  <2>1. EndsOf(ws) = CHOOSE e : E(e)
    BY DEF EndsOf
  <2>. QED
    BY <1>9, <2>1
<1>11. PICK e : e = EndsOf(ws)
  OBVIOUS
<1>12. e[0] = <<>>
  BY <1>1, <1>10, <1>11
<1>13. ASSUME NEW k \in 1 .. Len(ws)
       PROVE  e[k] = More(k, e[k - 1])
  <2>1. k \in 0 .. Len(ws) /\ k # 0
    BY <1>1
  <2>2. E(e)
    BY <1>10, <1>11
  <2>3. e[k] = IF k = 0 THEN <<>>
               ELSE IF ws[k].m_dest_pins = nullptr THEN e[k - 1]
                    ELSE Append(e[k - 1], <<ws[k].m_src, ws[k].m_dest_pins>>)
    BY ONLY <2>1, <2>2
  <2>. QED
    BY <2>1, <2>3 DEF More
<1>. QED
  BY <1>11, <1>12, <1>13 DEF More

\* Lists that begin alike draw alike as far.
LEMMA EndsAgree ==
  ASSUME NEW ws \in Seq(Wire), NEW vs \in Seq(Wire), NEW n \in Nat,
         n <= Len(ws), n <= Len(vs), \A k \in 1 .. n : ws[k] = vs[k]
  PROVE  EndsOf(ws)[n] = EndsOf(vs)[n]
<1> DEFINE S == {k \in Nat : k <= n => EndsOf(ws)[k] = EndsOf(vs)[k]}
<1>1. 0 \in S
  BY EndsSteps
<1>2. ASSUME NEW k \in Nat, k \in S
      PROVE  k + 1 \in S
  <2> SUFFICES ASSUME k + 1 <= n
               PROVE  EndsOf(ws)[k + 1] = EndsOf(vs)[k + 1]
    OBVIOUS
  <2>1. k + 1 \in 1 .. n /\ k + 1 \in 1 .. Len(ws) /\ k + 1 \in 1 .. Len(vs) /\ (k + 1) - 1 = k
    OBVIOUS
  <2>2. EndsOf(ws)[k] = EndsOf(vs)[k]
    BY <1>2
  <2>3. EndsOf(ws)[k + 1] = IF ws[k + 1].m_dest_pins = nullptr THEN EndsOf(ws)[k]
                            ELSE Append(EndsOf(ws)[k], <<ws[k + 1].m_src, ws[k + 1].m_dest_pins>>)
    BY ONLY <2>1, EndsSteps, ws \in Seq(Wire)
  <2>4. EndsOf(vs)[k + 1] = IF vs[k + 1].m_dest_pins = nullptr THEN EndsOf(vs)[k]
                            ELSE Append(EndsOf(vs)[k], <<vs[k + 1].m_src, vs[k + 1].m_dest_pins>>)
    BY ONLY <2>1, EndsSteps, vs \in Seq(Wire)
  <2>5. ws[k + 1] = vs[k + 1]
    BY <2>1
  <2>. QED
    BY ONLY <2>2, <2>3, <2>4, <2>5
<1>3. Nat \subseteq S
  <2> HIDE DEF S
  <2>. QED
    BY <1>1, <1>2, SetInduction
<1>. QED
  BY <1>3

-----------------------------------------------------------------------------
(* Components are stacked one on the other. *)

\* A new component goes on top: its pins are the last of the list, as add_subgate has it.
LEMMA Stacking ==
  ASSUME NEW T, NEW components \in Seq(T), NEW pins \in Seq(Pin), NEW shape \in T,
         NEW side \in Sides, \A t \in T : t[Column(side)] \in Nat,
         NEW off \in [Nat -> Nat], Stacked(off, components, pins, side)
  PROVE  \E more \in [Nat -> Nat] :
           Stacked(more, Append(components, shape),
                   pins \o PinsOf(Len(components) + 1, side, shape[Column(side)]), side)
<1>1. PICK n \in Nat, l \in Nat, size \in Nat :
        n = Len(components) /\ l = Len(pins) /\ size = shape[Column(side)]
  <2>1. Len(components) \in Nat /\ Len(pins) \in Nat
    BY ONLY components \in Seq(T), pins \in Seq(Pin), LenProperties
  <2>2. shape[Column(side)] \in Nat
    OBVIOUS
  <2>. QED
    BY ONLY <2>1, <2>2
<1> DEFINE new == PinsOf(n + 1, side, size)
           all == pins \o new
           cs == Append(components, shape)
           more == [off EXCEPT ![n + 2] = l + size]
<1>2. new \in Seq(Pin) /\ Len(new) = size /\ \A k \in 1 .. size : new[k] = <<n + 1, side, k - 1>>
  <2>1. PICK gate \in Nat : gate = n + 1
    OBVIOUS
  <2>2. side \in {"in", "out"}
    BY DEF Sides
  <2>3. /\ PinsOf(gate, side, size) \in Seq(Pin)
        /\ Len(PinsOf(gate, side, size)) = size
        /\ \A k \in 1 .. size : PinsOf(gate, side, size)[k] = <<gate, side, k - 1>>
    BY ONLY <2>2, PinsOfGate, gate \in Nat, size \in Nat
  <2>. QED
    BY ONLY <2>1, <2>3
<1> HIDE DEF new
<1>3. /\ all \in Seq(Pin) /\ Len(all) = l + size
      /\ \A k \in 1 .. l : all[k] = pins[k]
      /\ \A k \in 1 .. size : all[l + k] = <<n + 1, side, k - 1>>
  <2>1. /\ all \in Seq(Pin)
        /\ Len(all) = Len(pins) + Len(new)
        /\ \A i \in 1 .. Len(pins) + Len(new) :
             all[i] = IF i <= Len(pins) THEN pins[i] ELSE new[i - Len(pins)]
    BY ONLY <1>2, ConcatProperties, pins \in Seq(Pin)
  <2> HIDE DEF all
  <2>2. l = Len(pins) /\ size = Len(new)
    BY <1>1, <1>2
  <2>3. /\ Len(all) = l + size
        /\ \A i \in 1 .. l + size : all[i] = IF i <= l THEN pins[i] ELSE new[i - l]
    BY ONLY <2>1, <2>2
  <2>4. ASSUME NEW k \in 1 .. l
        PROVE  all[k] = pins[k]
    <3>1. k \in 1 .. l + size /\ k <= l
      BY ONLY l \in Nat, size \in Nat, k \in 1 .. l
    <3>. QED
      BY ONLY <2>3, <3>1
  <2>5. ASSUME NEW k \in 1 .. size
        PROVE  all[l + k] = new[k]
    <3>1. PICK i : i = l + k
      OBVIOUS
    <3>2. i \in 1 .. l + size /\ ~(i <= l) /\ i - l = k
      BY ONLY <3>1, l \in Nat, size \in Nat, k \in 1 .. size
    <3>3. all[i] = new[i - l]
      BY ONLY <2>3, <3>2
    <3>. QED
      BY ONLY <3>1, <3>2, <3>3
  <2>. QED
    BY ONLY <1>2, <2>1, <2>3, <2>4, <2>5
<1>4. /\ Len(cs) = n + 1 /\ cs[n + 1] = shape /\ cs[n + 1][Column(side)] = size
      /\ \A g \in 1 .. n : cs[g] = components[g]
  <2>1. /\ Len(cs) = Len(components) + 1 /\ cs[Len(components) + 1] = shape
        /\ \A g \in 1 .. Len(components) : cs[g] = components[g]
    BY ONLY AppendProperties, components \in Seq(T), shape \in T
  <2> HIDE DEF cs
  <2>2. n = Len(components) /\ shape[Column(side)] = size
    BY <1>1
  <2>. QED
    BY ONLY <2>1, <2>2
<1>5. /\ more \in [Nat -> Nat] /\ more[n + 2] = l + size
      /\ \A g \in Nat : g # n + 2 => more[g] = off[g]
  <2>1. n + 2 \in Nat /\ l + size \in Nat
    OBVIOUS
  <2>. QED
    BY <2>1
<1> HIDE DEF all, cs, more
<1>6. off[1] = 0 /\ off[n + 1] = l
  BY <1>1 DEF Stacked
<1>7. more[1] = 0 /\ more[n + 1] = l
  <2>1. 1 # n + 2 /\ n + 1 # n + 2 /\ n + 1 \in Nat
    OBVIOUS
  <2>. QED
    BY <1>5, <1>6, <2>1
<1>8. ASSUME NEW g \in 1 .. n + 1
      PROVE  /\ more[g + 1] = more[g] + cs[g][Column(side)]
             /\ more[g + 1] <= l + size
             /\ \A k \in 0 .. cs[g][Column(side)] - 1 : all[more[g] + k + 1] = <<g, side, k>>
  <2>1. CASE g = n + 1
    <3>1. g + 1 = n + 2 /\ cs[g][Column(side)] = size
      <4>1. g + 1 = n + 2
        BY ONLY <2>1, n \in Nat
      <4>. QED
        BY ONLY <1>4, <2>1, <4>1
    <3>2. ASSUME NEW k \in 0 .. size - 1
          PROVE  all[l + k + 1] = <<g, side, k>>
      <4>1. k + 1 \in 1 .. size /\ l + k + 1 = l + (k + 1) /\ (k + 1) - 1 = k
        OBVIOUS
      <4>. QED
        BY <1>3, <2>1, <4>1
    <3>. QED
      <4>1. /\ more[g] = l /\ more[g + 1] = l + size /\ cs[g][Column(side)] = size
        BY ONLY <1>5, <1>7, <2>1, <3>1
      <4>2. l + size <= l + size
        BY ONLY l \in Nat, size \in Nat
      <4>. QED
        BY ONLY <3>2, <4>1, <4>2
  <2>2. CASE g # n + 1
    <3>1. /\ g \in 1 .. n /\ g \in Nat /\ g + 1 \in Nat
          /\ g # n + 2 /\ g + 1 # n + 2
      BY <2>2
    <3>2. more[g] = off[g] /\ more[g + 1] = off[g + 1] /\ cs[g] = components[g]
      BY <1>4, <1>5, <3>1
    <3>3. PICK c \in Nat, m \in Nat : c = components[g][Column(side)] /\ m = off[g]
      <4>1. components[g] \in T
        BY <1>1, <3>1
      <4>. QED
        BY <3>1, <4>1
    <3>4. /\ off[g + 1] = m + c /\ m + c <= l
          /\ \A k \in 0 .. c - 1 : pins[m + k + 1] = <<g, side, k>>
      BY <1>1, <3>1, <3>3 DEF Stacked
    <3>5. ASSUME NEW k \in 0 .. c - 1
          PROVE  all[m + k + 1] = <<g, side, k>>
      <4>1. m + k + 1 \in 1 .. l
        BY ONLY <3>4, c \in Nat, m \in Nat, l \in Nat, k \in 0 .. c - 1
      <4>. QED
        BY <1>3, <3>4, <4>1
    <3>6. m + c <= l + size
      BY ONLY <3>4, c \in Nat, m \in Nat, l \in Nat, size \in Nat
    <3>. QED
      BY <3>2, <3>3, <3>4, <3>5, <3>6
  <2>. QED
    BY <2>1, <2>2
<1>9. Stacked(more, cs, all, side)
  <2>1. Len(all) = more[Len(cs) + 1]
    <3>1. (n + 1) + 1 = n + 2
      OBVIOUS
    <3>. QED
      BY ONLY <1>3, <1>4, <1>5, <3>1
  <2>. QED
    BY <1>3, <1>4, <1>7, <1>8, <2>1 DEF Stacked
<1>. QED
  BY <1>1, <1>5, <1>9 DEF all, cs, new

-----------------------------------------------------------------------------
(* What a click is, and what it does to the sketch. *)

\* A pin that is shown is a pin.
LEMMA ShownIsPin ==
  ASSUME WindowTypes, NEW g, NEW side, NEW k, Shows(g, side, k)
  PROVE  <<g, side, k>> \in Pin /\ <<g, side, k>> # nullptr
<1>1. g \in Nat /\ side \in {"in", "out"} /\ k \in Nat
  <2>1. g \in 0 .. Len(m_components) /\ side \in Sides /\ k \in 0 .. PortSize(g, side) - 1
    BY DEF Shows
  <2>2. PortSize(g, side) \in Nat
    BY <2>1, SizesCount
  <2>. QED
    BY <2>1, <2>2 DEF Sides
<1>2. <<g, side, k>> \in Pin
  BY ONLY <1>1 DEF Pin
<1>. QED
  BY ONLY <1>2, NullIsNoPin

\* The places one can click are on the screen.
LEMMA PlacesShown ==
  ASSUME NEW place \in Places
  PROVE  /\ place[1] = "port" => place[2] \in 0 .. Len(m_components) /\ place[3] \in Sides
         /\ place[1] = "pin" => Shows(place[2], place[3], place[4])
         /\ place # nullptr
<1>1. CASE place \in {<<"name">>, <<"search">>, <<"board">>, <<"entry">>}
  BY <1>1 DEF nullptr
<1>2. CASE \E g \in 0 .. Len(m_components), side \in Sides : place = <<"port", g, side>>
  BY <1>2 DEF nullptr
<1>3. ASSUME NEW pin \in ShownPins, place = <<"pin">> \o pin
      PROVE  /\ place[1] = "pin" /\ place # nullptr
             /\ Shows(place[2], place[3], place[4])
  <2>1. PICK g, side, k : Shows(g, side, k) /\ pin = <<g, side, k>>
    BY Showing
  <2>2. place[1] = "pin" /\ place[2] = g /\ place[3] = side /\ place[4] = k /\ place # nullptr
    BY <1>3, <2>1, PinPlace
  <2>. QED
    BY <2>1, <2>2
<1>4. \/ place \in {<<"name">>, <<"search">>, <<"board">>, <<"entry">>}
      \/ \E g \in 0 .. Len(m_components), side \in Sides : place = <<"port", g, side>>
      \/ \E pin \in ShownPins : place = <<"pin">> \o pin
  <2> DEFINE ports == {<<"port", gate, side>> : gate \in IF Room THEN 0 .. Len(m_components) ELSE {}, side \in Sides}
             pins == {<<"pin">> \o pin : pin \in ShownPins}
  <2>1. place \in {<<"name">>, <<"search">>, <<"board">>, <<"entry">>} \/ place \in ports \/ place \in pins
    BY DEF Places
  <2>2. place \in ports => \E g \in 0 .. Len(m_components), side \in Sides : place = <<"port", g, side>>
    OBVIOUS
  <2>. QED
    BY <2>1, <2>2
<1>5. place[1] = "pin" \/ place[1] = "port" =>
        ~(place \in {<<"name">>, <<"search">>, <<"board">>, <<"entry">>})
  OBVIOUS
<1>. QED
  BY <1>1, <1>2, <1>3, <1>4

\* The wire being drawn is one of the wires.
LEMMA ActiveWire ==
  ASSUME WindowTypes, Modes, active_wire # 0
  PROVE  /\ active_wire \in 1 .. Len(m_wires)
         /\ active_wire = Len(m_wires)
         /\ m_wires[active_wire] \in Wire
BY DEF WindowTypes, Modes

\* Every click and key is one operation of the gate, or none, or the start of a new one.
LEMMA SketchSteps ==
  ASSUME WindowTypes, Clicked, Modes, [GuiNext]_guiAll
  PROVE  [Operation]_vars \/ Init'
<1>1. ASSUME NEW place \in Places, Click(place)
      PROVE  [Operation]_vars
  <2>1. CASE place_component
    BY <2>1 DEF place_component, Operation, WindowTypes
  <2>2. CASE ~place_component
    BY <1>1, <2>2 DEF Click, select_belt, vars
  <2>. QED
    BY <2>1, <2>2
<1>2. ASSUME HandleClick
      PROVE  [Operation]_vars
  <2>1. CASE add_pin(event[2], event[3])
    <3>1. add_output_pin(1) \/ add_input_pin(1)
      BY <2>1 DEF add_pin
    <3>. QED
      BY <3>1 DEF Operation
  <2>2. CASE Wires(event) /\ handle_wiring_mode(<<event[2], event[3], event[4]>>)
    <3> DEFINE pin == <<event[2], event[3], event[4]>>
    <3>1. Shows(event[2], event[3], event[4])
      BY <1>2, <2>2 DEF Clicked, Wires, HandleClick
    <3>2. get_pid(pin) \in Nat
      BY <3>1, PidNumber
    <3> HIDE DEF pin
    <3>3. CASE end_wire(pin) /\ active_wire # 0
      <4>1. m_wires[active_wire].m_src_idx \in Nat
        BY <3>3, ActiveWire DEF Wire
      <4>2. wire_pins(m_wires[active_wire].m_src_idx, get_pid(pin)) \/ UNCHANGED vars
        BY <3>3 DEF end_wire
      <4>. QED
        BY <3>2, <4>1, <4>2 DEF Operation
    <3>4. CASE UNCHANGED vars
      BY <3>4
    <3>. QED
      BY <2>2, <3>3, <3>4 DEF handle_wiring_mode, start_wire, pin
  <2>3. CASE UNCHANGED vars
    BY <2>3
  <2>. QED
    BY <1>2, <2>1, <2>2, <2>3 DEF HandleClick
<1>3. clear => Init'
  BY DEF clear, new_sketch, Init
<1>4. TypeText \/ TypeReturn \/ toggle_mode \/ Escape \/ UNCHANGED guiAll => UNCHANGED vars
  BY DEF TypeText, TypeReturn, toggle_mode, Escape, guiAll
<1>. QED
  BY <1>1, <1>2, <1>3, <1>4 DEF GuiNext

\* So the sketch stays as sound as a gate that commands make.
LEMMA SketchSound ==
  ASSUME IInv, WindowTypes, Clicked, Modes, [GuiNext]_guiAll
  PROVE  IInv'
<1>1. Init' => IInv'
  BY Initially, PTL
<1>. QED
  BY <1>1, SketchSteps, Inductive

-----------------------------------------------------------------------------
(* What each step does to the window. *)

\* What comes of a click on a pin.
LEMMA PinClicked ==
  ASSUME WindowTypes, Clicked, HandleClick, Wires(event)
  PROVE  \E g, side, k : /\ Shows(g, side, k)
                         /\ event[2] = g /\ event[3] = side /\ event[4] = k
                         /\ handle_wiring_mode(<<g, side, k>>) \/ UNCHANGED <<vars, shown, drawing, slips>>
<1>1. Shows(event[2], event[3], event[4])
  BY DEF HandleClick, Clicked, Wires
<1>2. ~AddsPin(event)
  BY DEF AddsPin, Wires
<1>3. handle_wiring_mode(<<event[2], event[3], event[4]>>) \/ UNCHANGED <<vars, shown, drawing, slips>>
  BY <1>2 DEF HandleClick
<1>. QED
  BY <1>1, <1>3

\* A click that adds a pin is on a port of the sketch or of a component.
LEMMA PortClicked ==
  ASSUME WindowTypes, Clicked, HandleClick, AddsPin(event)
  PROVE  \E g \in 0 .. Len(m_components), side \in Sides :
           /\ event[2] = g /\ event[3] = side
           /\ g = 0 => edit_mode = "IDLE"
           /\ add_pin(g, side)
<1>1. event[2] \in 0 .. Len(m_components) /\ event[3] \in Sides
  BY DEF HandleClick, Clicked, AddsPin
<1>2. ~Wires(event)
  BY DEF AddsPin, Wires
<1>3. add_pin(event[2], event[3])
  BY <1>2 DEF HandleClick
<1>. QED
  BY <1>1, <1>3 DEF AddsPin

\* The wires change as their types have it (start_wire, end_wire).
LEMMA WiresTyped ==
  ASSUME WindowTypes, Modes, NEW g, NEW side, NEW k, Shows(g, side, k)
  PROVE  /\ start_wire(<<g, side, k>>) => m_wires' \in Seq(Wire)
         /\ active_wire # 0 /\ end_wire(<<g, side, k>>) => m_wires' \in Seq(Wire)
<1>1. PICK pin \in Pin : pin = <<g, side, k>>
  BY ShownIsPin
<1>2. get_pid(pin) \in Nat
  BY <1>1, PidNumber
<1>3. ASSUME start_wire(pin)
      PROVE  m_wires' \in Seq(Wire)
  <2>1. PICK wire : wire = [m_src |-> pin, m_src_idx |-> get_pid(pin), m_dest_pins |-> nullptr]
    OBVIOUS
  <2>2. wire \in Wire
    BY <1>2, <2>1 DEF Wire
  <2>3. m_wires' = Append(m_wires, wire)
    BY <1>3, <2>1 DEF start_wire
  <2>. QED
    BY <2>2, <2>3 DEF WindowTypes
<1>4. ASSUME active_wire # 0, end_wire(pin)
      PROVE  m_wires' \in Seq(Wire)
  <2>1. m_wires' = [m_wires EXCEPT ![active_wire].m_dest_pins = pin]
    BY <1>4 DEF end_wire
  <2>2. PICK w : w = [m_wires[active_wire] EXCEPT !.m_dest_pins = pin]
    OBVIOUS
  <2>3. m_wires' = [m_wires EXCEPT ![active_wire] = w]
    BY <2>1, <2>2
  <2>4. w \in Wire
    BY <1>4, <2>2, ActiveWire DEF Wire
  <2>5. m_wires \in Seq(Wire) /\ active_wire \in 1 .. Len(m_wires)
    BY <1>4, ActiveWire DEF WindowTypes
  <2>. QED
    BY ONLY <2>3, <2>4, <2>5, ExceptSeq
<1>. QED
  BY <1>1, <1>3, <1>4

\* A port of a component grows by one (PinPortGui::add_pin).
LEMMA PortGrows ==
  ASSUME NEW components \in Seq(Nat \X Nat), NEW g \in 1 .. Len(components), NEW c \in {1, 2}
  PROVE  [components EXCEPT ![g] = [components[g] EXCEPT ![c] = components[g][c] + 1]] \in Seq(Nat \X Nat)
<1>1. PICK old \in Nat \X Nat : old = components[g]
  OBVIOUS
<1> DEFINE grown == [old EXCEPT ![c] = old[c] + 1]
<1>2. grown \in Nat \X Nat
  <2>1. PICK a \in Nat, b \in Nat : old = <<a, b>>
    BY ONLY old \in Nat \X Nat
  <2>2. c = 1 => grown = <<a + 1, b>>
    BY ONLY <2>1
  <2>3. c = 2 => grown = <<a, b + 1>>
    BY ONLY <2>1
  <2>4. <<a + 1, b>> \in Nat \X Nat /\ <<a, b + 1>> \in Nat \X Nat
    BY ONLY a \in Nat, b \in Nat
  <2>. QED
    BY <2>2, <2>3, <2>4
<1>3. PICK new : new = grown
  OBVIOUS
<1>4. new = [components[g] EXCEPT ![c] = components[g][c] + 1]
  BY <1>1, <1>3
<1>5. [components EXCEPT ![g] = new] \in Seq(Nat \X Nat)
  BY <1>2, <1>3, ExceptSeq
<1>. QED
  BY ONLY <1>4, <1>5

\* A new component has the types of a component.
LEMMA PlacedTyped ==
  ASSUME WindowTypes, place_component
  PROVE  /\ m_components' \in Seq(Nat \X Nat)
         /\ m_active_component \in Shapes /\ m_active_component \in Nat \X Nat
         /\ m_active_component' = nullptr
<1>1. m_active_component \in Shapes
  BY DEF WindowTypes, place_component
<1>2. m_active_component \in Nat \X Nat
  BY <1>1, ShapesAssumption
<1>. QED
  BY <1>1, <1>2 DEF WindowTypes, place_component

\* The types of the window (toolbox, ports, components and wires).
LEMMA TypesStep ==
  ASSUME WindowTypes, Clicked, Modes, [GuiNext]_guiAll
  PROVE  WindowTypes'
<1>1. ASSUME NEW place \in Places, Click(place)
      PROVE  WindowTypes'
  <2>1. /\ edit_mode' \in {"IDLE", "WIRING", "TEXT"}
        /\ m_name_edit' \in BOOLEAN /\ m_search_edit' \in BOOLEAN /\ m_entries' \in BOOLEAN
        /\ m_wires' = m_wires
    BY <1>1 DEF Click, ClickedMode, WindowTypes, drawing
  <2>2. CASE place_component
    BY <2>1, <2>2, PlacedTyped DEF WindowTypes, place_component
  <2>3. CASE select_belt
    BY <2>1, <2>3 DEF WindowTypes, select_belt, shown
  <2>4. CASE UNCHANGED <<vars, shown, m_active_component>>
    BY <2>1, <2>4 DEF WindowTypes, shown
  <2>. QED
    BY <1>1, <2>2, <2>3, <2>4 DEF Click
<1>2. ASSUME HandleClick
      PROVE  WindowTypes'
  <2>1. UNCHANGED <<edit_mode, m_name_edit, m_search_edit, m_entries, m_active_component>>
    BY <1>2 DEF HandleClick, toolbox
  <2>2. CASE AddsPin(event)
    <3>1. PICK g \in 0 .. Len(m_components), side \in Sides : add_pin(g, side)
      BY <1>2, <2>2, PortClicked
    <3>2. m_input_pin_port' \in Nat /\ m_output_pin_port' \in Nat /\ m_wires' = m_wires
      BY <3>1 DEF add_pin, WindowTypes, drawing
    <3>3. m_components' \in Seq(Nat \X Nat)
      <4>1. CASE g = 0
        BY <3>1, <4>1 DEF add_pin, WindowTypes
      <4>2. CASE g # 0
        <5>1. g \in 1 .. Len(m_components) /\ m_components \in Seq(Nat \X Nat)
          BY <4>2 DEF WindowTypes
        <5>2. PICK c \in {1, 2} : c = IF side = "in" THEN 1 ELSE 2
          OBVIOUS
        <5>3. m_components' = [m_components EXCEPT ![g][c] = @ + 1]
          BY <3>1, <4>2, <5>2 DEF add_pin
        <5>4. m_components' = [m_components EXCEPT ![g] = [m_components[g] EXCEPT ![c] = m_components[g][c] + 1]]
          BY ONLY <5>3
        <5>. QED
          BY ONLY <5>1, <5>4, PortGrows, c \in {1, 2}
      <4>. QED
        BY <4>1, <4>2
    <3>. QED
      BY <2>1, <3>2, <3>3 DEF WindowTypes
  <2>3. CASE Wires(event)
    <3>1. PICK g, side, k : /\ Shows(g, side, k)
                            /\ handle_wiring_mode(<<g, side, k>>) \/ UNCHANGED <<vars, shown, drawing, slips>>
      BY <1>2, <2>3, PinClicked
    <3>2. m_wires' \in Seq(Wire)
      <4>1. m_wires' = m_wires => m_wires' \in Seq(Wire)
        BY DEF WindowTypes
      <4>. QED
        BY <3>1, <4>1, WiresTyped DEF handle_wiring_mode, drawing
    <3>3. UNCHANGED <<m_input_pin_port, m_output_pin_port, m_components>>
      BY <3>1 DEF handle_wiring_mode, shown
    <3>. QED
      BY <2>1, <3>2, <3>3 DEF WindowTypes
  <2>4. CASE ~AddsPin(event) /\ ~Wires(event)
    BY <1>2, <2>1, <2>4 DEF HandleClick, WindowTypes, shown, drawing
  <2>. QED
    BY <2>2, <2>3, <2>4
<1>3. ASSUME TypeText \/ TypeReturn \/ Escape \/ toggle_mode \/ UNCHANGED guiAll
      PROVE  WindowTypes'
  <2>1. UNCHANGED <<m_input_pin_port, m_output_pin_port, m_components, m_wires>>
    BY <1>3 DEF TypeText, TypeReturn, Escape, toggle_mode, guiAll, guiVars, shown, drawing
  <2>2. /\ edit_mode' \in {"IDLE", "WIRING", "TEXT"}
        /\ m_name_edit' \in BOOLEAN /\ m_search_edit' \in BOOLEAN /\ m_entries' \in BOOLEAN
        /\ m_active_component' \in Shapes \cup {nullptr}
    BY <1>3 DEF TypeText, TypeReturn, Escape, toggle_mode, guiAll, guiVars, toolbox, WindowTypes
  <2>. QED
    BY <2>1, <2>2 DEF WindowTypes
<1>4. ASSUME clear
      PROVE  WindowTypes'
  BY <1>4 DEF clear, toolbox, WindowTypes
<1>. QED
  BY <1>1, <1>2, <1>3, <1>4 DEF GuiNext

\* A component more changes no port that is shown.
LEMMA PortsStay ==
  ASSUME WindowTypes, place_component \/ UNCHANGED shown,
         NEW g \in 0 .. Len(m_components), NEW side \in Sides
  PROVE  g \in 0 .. Len(m_components') /\ PortSize(g, side)' = PortSize(g, side)
<1>1. CASE UNCHANGED shown
  BY <1>1 DEF shown, PortSize
<1>2. CASE place_component
  <2>1. m_components \in Seq(Nat \X Nat) /\ m_active_component \in Nat \X Nat
    BY <1>2, PlacedTyped DEF WindowTypes
  <2>2. m_components' = Append(m_components, m_active_component)
    BY <1>2 DEF place_component
  <2>3. PICK n \in Nat : n = Len(m_components)
    BY <2>1
  <2>4. Len(m_components') = n + 1 /\ \A h \in 1 .. n : m_components'[h] = m_components[h]
    BY ONLY <2>1, <2>2, <2>3, AppendProperties
  <2>5. g \in 0 .. Len(m_components')
    <3>1. g \in 0 .. n
      BY <2>3
    <3>2. PICK m \in Nat : m = n + 1
      OBVIOUS
    <3>3. g \in 0 .. m
      BY ONLY <3>1, <3>2, n \in Nat
    <3>4. m = Len(m_components')
      BY <2>4, <3>2
    <3>. QED
      BY ONLY <3>3, <3>4
  <2>6. UNCHANGED <<m_input_pin_port, m_output_pin_port>>
    BY <1>2 DEF place_component
  <2>7. g = 0 => PortSize(g, side)' = PortSize(g, side)
    BY <2>6 DEF PortSize, Sides
  <2>8. g # 0 => PortSize(g, side)' = PortSize(g, side)
    <3>1. g # 0 => m_components'[g] = m_components[g]
      BY <2>3, <2>4
    <3>. QED
      BY <3>1 DEF PortSize
  <2>. QED
    BY <2>5, <2>7, <2>8
<1>. QED
  BY <1>1, <1>2

LEMMA ShowsStay ==
  ASSUME WindowTypes, place_component \/ UNCHANGED shown, NEW g, NEW side, NEW k, Shows(g, side, k)
  PROVE  Shows(g, side, k)'
BY PortsStay DEF Shows

\* The click under way is on the screen.
LEMMA ClickedStep ==
  ASSUME WindowTypes, Clicked, Modes, [GuiNext]_guiAll
  PROVE  Clicked'
<1>1. ASSUME NEW place \in Places, Click(place)
      PROVE  Clicked'
  <2>1. /\ event' = place
        /\ m_name_edit' = (place = <<"name">>) /\ m_search_edit' = (place = <<"search">>)
    BY <1>1 DEF Click
  <2>2. place_component \/ UNCHANGED shown
    BY <1>1 DEF Click, select_belt, shown
  <2>3. ASSUME place[1] = "port"
        PROVE  place[2] \in 0 .. Len(m_components') /\ place[3] \in Sides
    <3>1. PICK g \in 0 .. Len(m_components), side \in Sides : g = place[2] /\ side = place[3]
      BY <2>3, PlacesShown
    <3>. QED
      BY <2>2, <3>1, PortsStay
  <2>4. ASSUME place[1] = "pin"
        PROVE  Shows(place[2], place[3], place[4])'
    <3>1. PICK g, side, k : g = place[2] /\ side = place[3] /\ k = place[4]
      OBVIOUS
    <3>2. Shows(g, side, k)
      BY <2>4, <3>1, PlacesShown
    <3>3. Shows(g, side, k)'
      BY <2>2, <3>2, ShowsStay
    <3>. QED
      BY <3>1, <3>3
  <2>. QED
    BY <2>1, <2>3, <2>4 DEF Clicked
<1>2. ASSUME event' = nullptr
      PROVE  Clicked'
  BY <1>2 DEF Clicked
<1>3. ASSUME UNCHANGED guiAll
      PROVE  Clicked'
  BY <1>3 DEF Clicked, guiAll, guiVars, toolbox, shown, Shows, PortSize
<1>4. HandleClick \/ TypeText \/ TypeReturn \/ toggle_mode \/ clear \/ Escape => event' = nullptr
  BY DEF HandleClick, TypeText, TypeReturn, toggle_mode, clear, Escape
<1>. QED
  BY <1>1, <1>2, <1>3, <1>4 DEF GuiNext

\* The modes, and the wire being drawn (handle_wiring_mode, clear).
LEMMA ModesStep ==
  ASSUME WindowTypes, Clicked, Modes, [GuiNext]_guiAll
  PROVE  Modes'
<1>1. ASSUME NEW place \in Places, Click(place)
      PROVE  Modes'
  <2>1. UNCHANGED <<m_wires, active_wire>>
    BY <1>1 DEF Click, drawing
  <2>2. edit_mode' = "TEXT" => m_search_edit'
    BY <1>1 DEF Click, ClickedMode
  <2>. QED
    BY <2>1, <2>2 DEF Modes
<1>2. ASSUME HandleClick
      PROVE  Modes'
  <2>1. UNCHANGED <<edit_mode, m_name_edit, m_search_edit>>
    BY <1>2 DEF HandleClick, toolbox
  <2>2. CASE AddsPin(event)
    <3>1. UNCHANGED drawing
      BY <1>2, <2>2, PortClicked DEF add_pin
    <3>. QED
      BY <2>1, <3>1 DEF Modes, drawing
  <2>3. CASE Wires(event)
    <3>1. PICK g, side, k : /\ Shows(g, side, k)
                            /\ handle_wiring_mode(<<g, side, k>>) \/ UNCHANGED <<vars, shown, drawing, slips>>
      BY <1>2, <2>3, PinClicked
    <3>2. CASE start_wire(<<g, side, k>>)
      <4>1. PICK wire : wire = [m_src |-> <<g, side, k>>, m_src_idx |-> get_pid(<<g, side, k>>),
                                m_dest_pins |-> nullptr]
        OBVIOUS
      <4>2. m_wires' = Append(m_wires, wire) /\ active_wire' = Len(m_wires')
        BY <3>2, <4>1 DEF start_wire
      <4>3. m_wires'[Len(m_wires')] = wire
        BY <4>2 DEF WindowTypes
      <4>4. m_wires'[active_wire'].m_dest_pins = nullptr
        BY <4>1, <4>2, <4>3
      <4>. QED
        BY <2>1, <4>2, <4>4 DEF Modes
    <3>3. CASE end_wire(<<g, side, k>>)
      BY <2>1, <3>3 DEF end_wire, Modes
    <3>4. CASE UNCHANGED drawing
      BY <2>1, <3>4 DEF drawing, Modes
    <3>. QED
      BY <3>1, <3>2, <3>3, <3>4 DEF handle_wiring_mode
  <2>4. CASE ~AddsPin(event) /\ ~Wires(event)
    BY <1>2, <2>1, <2>4 DEF HandleClick, drawing, Modes
  <2>. QED
    BY <2>2, <2>3, <2>4
<1>3. ASSUME TypeText \/ TypeReturn
      PROVE  Modes'
  BY <1>3 DEF TypeText, TypeReturn, Typing, drawing, Modes
<1>4. ASSUME toggle_mode \/ clear
      PROVE  Modes'
  BY <1>4 DEF toggle_mode, clear, toolbox, Modes
<1>5. ASSUME Escape \/ UNCHANGED guiAll
      PROVE  Modes'
  BY <1>5 DEF Escape, guiAll, guiVars, toolbox, drawing, Modes
<1>. QED
  BY <1>1, <1>2, <1>3, <1>4, <1>5 DEF GuiNext

-----------------------------------------------------------------------------
(* The window and the sketch stay alike. *)

\* What the list of one side is after add_subgate.
LEMMA SideStacks ==
  ASSUME WindowTypes, NEW side \in Sides, NEW pins \in Seq(Pin), NEW shape \in Nat \X Nat,
         NEW off \in [Nat -> Nat], Stacked(off, m_components, pins, side)
  PROVE  \E more \in [Nat -> Nat] :
           Stacked(more, Append(m_components, shape),
                   pins \o PinsOf(Len(m_components) + 1, side, shape[Column(side)]), side)
<1>1. m_components \in Seq(Nat \X Nat)
  BY DEF WindowTypes
<1>2. \A t \in Nat \X Nat : t[Column(side)] \in Nat
  BY DEF Column
<1>. QED
  BY ONLY <1>1, <1>2, Stacking, pins \in Seq(Pin), shape \in Nat \X Nat, side \in Sides,
          off \in [Nat -> Nat], Stacked(off, m_components, pins, side)

\* A component that is placed is one more subgate (ToolBox::place_component, Gate::add_subgate).
LEMMA PlacedAlike ==
  ASSUME IInv, WindowTypes, Alike, place_component
  PROVE  Alike'
<1>1. PICK shape \in Nat \X Nat : shape = m_active_component
  BY PlacedTyped
<1>2. PICK n \in Nat : n = Len(m_components) /\ n = subgate_count
  BY DEF Alike, WindowTypes
<1>3. /\ subgate_inputs \in Seq(Pin) /\ subgate_outputs \in Seq(Pin)
      /\ m_components \in Seq(Nat \X Nat)
  BY DEF IInv, TypeOK, WindowTypes
<1>4. /\ add_subgate(shape) /\ m_components' = Append(m_components, shape)
      /\ UNCHANGED <<m_input_pin_port, m_output_pin_port>>
  BY <1>1 DEF place_component
<1>5. /\ subgate_count' = n + 1
      /\ subgate_inputs' = subgate_inputs \o PinsOf(n + 1, "in", shape[1])
      /\ subgate_outputs' = subgate_outputs \o PinsOf(n + 1, "out", shape[2])
      /\ UNCHANGED <<input_pins, output_pins>>
  BY <1>2, <1>4 DEF add_subgate
<1>6. "in" \in Sides /\ Column("in") = 1 /\ "out" \in Sides /\ Column("out") = 2
  BY DEF Sides, Column
<1>7. \E off \in [Nat -> Nat] : Stacked(off, m_components', subgate_inputs', "in")
  <2>1. PICK off \in [Nat -> Nat] : Stacked(off, m_components, subgate_inputs, "in")
    BY DEF Alike
  <2>2. \E off2 \in [Nat -> Nat] :
          Stacked(off2, Append(m_components, shape),
                  subgate_inputs \o PinsOf(Len(m_components) + 1, "in", shape[Column("in")]), "in")
    BY <1>3, <1>6, <2>1, SideStacks
  <2>. QED
    BY <1>2, <1>4, <1>5, <1>6, <2>2
<1>8. \E off \in [Nat -> Nat] : Stacked(off, m_components', subgate_outputs', "out")
  <2>1. PICK off \in [Nat -> Nat] : Stacked(off, m_components, subgate_outputs, "out")
    BY DEF Alike
  <2>2. \E off2 \in [Nat -> Nat] :
          Stacked(off2, Append(m_components, shape),
                  subgate_outputs \o PinsOf(Len(m_components) + 1, "out", shape[Column("out")]), "out")
    BY <1>3, <1>6, <2>1, SideStacks
  <2>. QED
    BY <1>2, <1>4, <1>5, <1>6, <2>2
<1>9. Len(m_components') = n + 1
  <2>1. Len(m_components') = Len(m_components) + 1
    BY ONLY <1>3, <1>4, AppendProperties, shape \in Nat \X Nat
  <2>. QED
    BY <1>2, <2>1
<1>. QED
  BY <1>4, <1>5, <1>7, <1>8, <1>9 DEF Alike

\* Steps that change neither the sketch's pins nor the ports leave them alike.
LEMMA StayAlike ==
  ASSUME Alike,
         UNCHANGED <<input_pins, output_pins, subgate_count, subgate_inputs, subgate_outputs, shown>>
  PROVE  Alike'
BY DEF Alike, shown, Stacked

\* An empty sketch shows nothing.
LEMMA EmptyAlike ==
  ASSUME m_input_pin_port = 0, m_output_pin_port = 0, m_components = <<>>, Init
  PROVE  Alike
<1>1. PICK off \in [Nat -> Nat] : off[1] = 0
  <2>1. [n \in Nat |-> 0] \in [Nat -> Nat] /\ [n \in Nat |-> 0][1] = 0
    OBVIOUS
  <2>. QED
    BY <2>1
<1>2. Stacked(off, <<>>, <<>>, "in") /\ Stacked(off, <<>>, <<>>, "out")
  BY <1>1 DEF Stacked
<1>. QED
  BY <1>2 DEF Init, Alike

\* The window and the sketch count the same pins until the edge of a component is clicked.
LEMMA AlikeStep ==
  ASSUME IInv, WindowTypes, Clicked, Modes, Alike, [GuiNext]_guiAll, "edge" \notin slips'
  PROVE  Alike'
<1>1. ASSUME NEW place \in Places, Click(place)
      PROVE  Alike'
  <2>1. CASE place_component
    BY <2>1, PlacedAlike
  <2>2. CASE ~place_component
    <3>1. UNCHANGED <<vars, shown>>
      BY <1>1, <2>2 DEF Click, select_belt
    <3>. QED
      BY <3>1, StayAlike DEF vars
  <2>. QED
    BY <2>1, <2>2
<1>2. ASSUME HandleClick
      PROVE  Alike'
  <2>1. CASE AddsPin(event)
    <3>1. PICK g \in 0 .. Len(m_components), side \in Sides : add_pin(g, side)
      BY <1>2, <2>1, PortClicked
    <3>2. g = 0
      BY <3>1 DEF add_pin
    <3>3. /\ UNCHANGED <<m_components, subgate_count, subgate_inputs, subgate_outputs>>
          /\ m_input_pin_port' = input_pins' /\ m_output_pin_port' = output_pins'
      BY <3>1, <3>2 DEF add_pin, add_input_pin, add_output_pin, Alike, Sides
    <3>. QED
      BY <3>3 DEF Alike, Stacked
  <2>2. CASE Wires(event)
    <3>1. PICK g, side, k : handle_wiring_mode(<<g, side, k>>) \/ UNCHANGED <<vars, shown, drawing, slips>>
      BY <1>2, <2>2, PinClicked
    <3>2. UNCHANGED <<input_pins, output_pins, subgate_count, subgate_inputs, subgate_outputs, shown>>
      BY <3>1 DEF handle_wiring_mode, start_wire, end_wire, wire_pins, vars
    <3>. QED
      BY <3>2, StayAlike
  <2>3. CASE ~AddsPin(event) /\ ~Wires(event)
    BY <1>2, <2>3, StayAlike DEF HandleClick, vars
  <2>. QED
    BY <2>1, <2>2, <2>3
<1>3. ASSUME clear
      PROVE  Alike'
  <2>1. /\ m_input_pin_port' = 0 /\ m_output_pin_port' = 0 /\ m_components' = <<>>
        /\ Init'
    BY <1>3 DEF clear, new_sketch, Init
  <2>2. (m_input_pin_port = 0 /\ m_output_pin_port = 0 /\ m_components = <<>> /\ Init => Alike)'
    BY EmptyAlike, PTL
  <2>. QED
    BY <2>1, <2>2
<1>4. TypeText \/ TypeReturn \/ toggle_mode \/ Escape \/ UNCHANGED guiAll => UNCHANGED <<vars, shown>>
  BY DEF TypeText, TypeReturn, toggle_mode, Escape, guiAll, guiVars
<1>. QED
  BY <1>1, <1>2, <1>3, <1>4, StayAlike DEF GuiNext, vars

-----------------------------------------------------------------------------
(* The sketch stays wired as it is drawn. *)

\* A slip is not forgotten.
LEMMA SlipsStay ==
  ASSUME WindowTypes, Clicked, Modes, [GuiNext]_guiAll
  PROVE  /\ "edge" \notin slips' => "edge" \notin slips
         /\ slips' = {} => slips = {}
<1>1. slips' = slips \/ slips' = slips \cup {"typed"} \/ slips' = slips \cup {"edge"}
  BY DEF GuiNext, Click, HandleClick, add_pin, handle_wiring_mode, TypeText, TypeReturn, toggle_mode,
         clear, Escape, guiAll, guiVars
<1>. QED
  BY <1>1

\* A wire that has just one end keeps the number of that pin.
LEMMA FirstPinStays ==
  ASSUME IInv, WindowTypes, Modes, UNCHANGED drawing, active_wire # 0,
         get_pin(m_wires[active_wire].m_src_idx) = m_wires[active_wire].m_src,
         place_component \/ UNCHANGED vars
  PROVE  get_pin(m_wires[active_wire].m_src_idx)' = m_wires'[active_wire'].m_src
<1>1. PICK wire \in Wire : wire = m_wires[active_wire]
  BY ActiveWire
<1>2. PICK id \in Nat : id = wire.m_src_idx
  BY DEF Wire
<1>3. get_pin(id) = wire.m_src /\ wire.m_src \in Pin
  BY <1>1, <1>2 DEF Wire
<1>4. get_pin(id) # nullptr
  BY <1>3, NullIsNoPin
<1>5. get_pin(id)' = get_pin(id)
  <2>1. CASE place_component
    <3>1. PICK shape \in Shapes : shape = m_active_component
      BY <2>1, PlacedTyped
    <3>2. add_subgate(shape)
      BY <2>1, <3>1 DEF place_component
    <3>. QED
      BY <1>4, <3>2, SubgatesFollow DEF IInv
  <2>2. CASE UNCHANGED vars
    BY <2>2 DEF vars, get_pin
  <2>. QED
    BY <2>1, <2>2
<1>6. m_wires'[active_wire'] = wire
  BY <1>1 DEF drawing
<1>7. get_pin(m_wires[active_wire].m_src_idx)' = get_pin(id)'
  BY <1>2, <1>6 DEF get_pin
<1>. QED
  BY <1>3, <1>5, <1>6, <1>7

\* While a wire is drawn, no click or key changes the number of its first pin.
LEMMA DrawingStep ==
  ASSUME IInv, WindowTypes, Clicked, Modes, Alike, Drawing, [GuiNext]_guiAll, slips' = {}
  PROVE  Drawing'
<1>1. ASSUME NEW place \in Places, Click(place)
      PROVE  Drawing'
  <2> SUFFICES ASSUME active_wire' # 0
               PROVE  Drawing'
    BY DEF Drawing
  <2>1. UNCHANGED drawing /\ active_wire # 0
    BY <1>1 DEF Click, drawing
  <2>2. place # <<"name">> /\ place # <<"search">>
    BY <1>1, <2>1 DEF Click
  <2>3. edit_mode' = "WIRING" /\ ~m_name_edit' /\ ~m_search_edit'
    BY <1>1, <2>1, <2>2 DEF Click, ClickedMode, Drawing
  <2>4. place_component \/ UNCHANGED vars
    BY <1>1 DEF Click, select_belt
  <2>5. get_pin(m_wires[active_wire].m_src_idx)' = m_wires'[active_wire'].m_src
    BY <2>1, <2>4, FirstPinStays DEF Drawing
  <2>. QED
    BY <2>3, <2>5 DEF Drawing
<1>2. ASSUME HandleClick
      PROVE  Drawing'
  <2>1. UNCHANGED <<edit_mode, m_name_edit, m_search_edit>>
    BY <1>2 DEF HandleClick, toolbox
  <2>2. CASE AddsPin(event)
    <3>1. PICK g \in 0 .. Len(m_components), side \in Sides :
            (g = 0 => edit_mode = "IDLE") /\ add_pin(g, side)
      BY <1>2, <2>2, PortClicked
    <3>2. g = 0 /\ active_wire' = active_wire
      BY <3>1 DEF add_pin, drawing
    <3>. QED
      BY <3>1, <3>2 DEF Drawing
  <2>3. CASE Wires(event)
    <3>1. PICK g, side, k : /\ Shows(g, side, k)
                            /\ handle_wiring_mode(<<g, side, k>>) \/ UNCHANGED <<vars, shown, drawing, slips>>
      BY <1>2, <2>3, PinClicked
    <3>2. PICK pin \in Pin : pin = <<g, side, k>>
      BY <3>1, ShownIsPin
    <3>3. CASE start_wire(pin)
      <4>1. PICK id \in Nat : id = get_pid(pin)
        <5>1. get_pid(<<g, side, k>>) \in Nat
          BY <3>1, PidNumber
        <5>. QED
          BY <3>2, <5>1
      <4>2. get_pin(id) = pin
        <5>1. get_pin(get_pid(<<g, side, k>>)) = <<g, side, k>>
          BY <3>1, Numbered
        <5>. QED
          BY <3>2, <4>1, <5>1
      <4>3. PICK wire : wire = [m_src |-> pin, m_src_idx |-> id, m_dest_pins |-> nullptr]
        OBVIOUS
      <4>4. m_wires' = Append(m_wires, wire) /\ active_wire' = Len(m_wires') /\ UNCHANGED vars
        BY <3>3, <4>1, <4>3 DEF start_wire
      <4>5. m_wires'[active_wire'] = wire
        BY <4>4 DEF WindowTypes
      <4>6. get_pin(m_wires[active_wire].m_src_idx)' = get_pin(id)
        <5>1. m_wires'[active_wire'].m_src_idx = id
          BY <4>3, <4>5
        <5>2. get_pin(id)' = get_pin(id)
          BY <4>4 DEF get_pin, vars
        <5>3. get_pin(m_wires[active_wire].m_src_idx)' = get_pin(id)'
          BY ONLY <5>1 DEF get_pin
        <5>. QED
          BY <5>2, <5>3
      <4>7. edit_mode = "WIRING" /\ ~m_name_edit /\ ~m_search_edit
        BY <1>2, <2>3 DEF Wires, Clicked, HandleClick
      <4>. QED
        BY <2>1, <4>2, <4>3, <4>5, <4>6, <4>7 DEF Drawing
    <3>4. CASE end_wire(pin)
      BY <3>4 DEF end_wire, Drawing
    <3>5. CASE UNCHANGED <<vars, drawing>>
      BY <2>1, <3>5, FirstPinStays DEF Drawing, drawing
    <3>. QED
      BY <3>1, <3>2, <3>3, <3>4, <3>5 DEF handle_wiring_mode
  <2>4. CASE ~AddsPin(event) /\ ~Wires(event)
    <3>1. UNCHANGED <<vars, drawing>>
      BY <1>2, <2>4 DEF HandleClick
    <3>. QED
      BY <2>1, <3>1, FirstPinStays DEF Drawing, drawing
  <2>. QED
    BY <2>2, <2>3, <2>4
<1>3. ASSUME TypeText \/ TypeReturn
      PROVE  Drawing'
  BY <1>3 DEF TypeText, TypeReturn, Typing, drawing, Drawing
<1>4. ASSUME toggle_mode \/ clear
      PROVE  Drawing'
  BY <1>4 DEF toggle_mode, clear, Drawing
<1>5. ASSUME Escape \/ UNCHANGED guiAll
      PROVE  Drawing'
  <2>1. UNCHANGED <<edit_mode, m_name_edit, m_search_edit, drawing, vars>>
    BY <1>5 DEF Escape, guiAll, guiVars, toolbox
  <2>. QED
    BY <2>1, FirstPinStays DEF Drawing, drawing
<1>. QED
  BY <1>1, <1>2, <1>3, <1>4, <1>5 DEF GuiNext

\* What is drawn, of the list of wires.
LEMMA DrawnEnds == WiredAsDrawn <=> (slips = {} => wires = EndsOf(m_wires)[Len(m_wires)])
BY DEF WiredAsDrawn, DrawnUpTo, EndsOf

\* A wire that has been started adds nothing (start_wire).
LEMMA StartedEnds ==
  ASSUME NEW ws \in Seq(Wire), NEW wire \in Wire, wire.m_dest_pins = nullptr
  PROVE  EndsOf(Append(ws, wire))[Len(Append(ws, wire))] = EndsOf(ws)[Len(ws)]
<1>1. PICK n \in Nat : n = Len(ws)
  OBVIOUS
<1>2. PICK vs \in Seq(Wire) : vs = Append(ws, wire)
  BY AppendProperties
<1>3. Len(vs) = n + 1 /\ vs[n + 1] = wire /\ \A k \in 1 .. n : vs[k] = ws[k]
  <2>1. /\ Len(vs) = Len(ws) + 1 /\ vs[Len(ws) + 1] = wire
        /\ \A k \in 1 .. Len(ws) : vs[k] = ws[k]
    BY ONLY <1>2, AppendProperties, ws \in Seq(Wire), wire \in Wire
  <2>. QED
    BY ONLY <1>1, <2>1
<1>4. n + 1 \in 1 .. n + 1 /\ (n + 1) - 1 = n /\ n <= n /\ n <= n + 1
  OBVIOUS
<1>5. EndsOf(vs)[n + 1] = EndsOf(vs)[n]
  BY <1>3, <1>4, EndsSteps
<1>6. EndsOf(ws)[n] = EndsOf(vs)[n]
  BY <1>1, <1>3, <1>4, EndsAgree
<1>. QED
  BY <1>1, <1>2, <1>3, <1>5, <1>6

\* The last wire, once it has its second end, adds both (end_wire).
LEMMA EndedEnds ==
  ASSUME NEW ws \in Seq(Wire), NEW n \in Nat, n = Len(ws), n # 0, ws[n].m_dest_pins = nullptr,
         NEW pin \in Pin
  PROVE  EndsOf([ws EXCEPT ![n].m_dest_pins = pin])[n] = Append(EndsOf(ws)[n], <<ws[n].m_src, pin>>)
<1>1. PICK wire : wire = [ws[n] EXCEPT !.m_dest_pins = pin]
  OBVIOUS
<1>2. n \in 1 .. Len(ws) /\ n - 1 \in Nat /\ n - 1 <= n
  OBVIOUS
<1>3. ws[n] \in Wire
  BY <1>2
<1>4. wire \in Wire /\ wire.m_dest_pins = pin /\ wire.m_src = ws[n].m_src
  BY <1>1, <1>3 DEF Wire
<1>5. PICK vs : vs = [ws EXCEPT ![n] = wire]
  OBVIOUS
<1>6. /\ vs \in Seq(Wire) /\ Len(vs) = Len(ws)
      /\ \A j \in 1 .. Len(ws) : vs[j] = IF j = n THEN wire ELSE ws[j]
  BY ONLY <1>2, <1>4, <1>5, ExceptSeq, ws \in Seq(Wire)
<1>7. Len(vs) = n /\ vs[n] = wire /\ \A j \in 1 .. n - 1 : ws[j] = vs[j]
  <2>1. \A j \in 1 .. n - 1 : j \in 1 .. n /\ j # n
    OBVIOUS
  <2>. QED
    BY <1>2, <1>6, <2>1
<1>8. EndsOf(vs)[n] = Append(EndsOf(vs)[n - 1], <<ws[n].m_src, pin>>)
  <2>1. pin # nullptr
    BY NullIsNoPin
  <2>2. n \in 1 .. Len(vs)
    BY <1>2, <1>6
  <2>3. EndsOf(vs)[n] = IF vs[n].m_dest_pins = nullptr THEN EndsOf(vs)[n - 1]
                        ELSE Append(EndsOf(vs)[n - 1], <<vs[n].m_src, vs[n].m_dest_pins>>)
    BY ONLY <1>6, <2>2, EndsSteps
  <2>. QED
    BY ONLY <1>4, <1>7, <2>1, <2>3
<1>9. EndsOf(ws)[n] = EndsOf(ws)[n - 1]
  BY <1>2, EndsSteps
<1>10. EndsOf(ws)[n - 1] = EndsOf(vs)[n - 1]
  BY <1>2, <1>6, <1>7, EndsAgree
<1>11. vs = [ws EXCEPT ![n].m_dest_pins = pin]
  BY <1>1, <1>5
<1>. QED
  BY ONLY <1>8, <1>9, <1>10, <1>11

\* The second end is wired to the pin that the first end shows (handle_wiring_mode, wire_pins).
LEMMA EndedWires ==
  ASSUME IInv, WindowTypes, Modes, Alike, Drawing, active_wire # 0,
         NEW g, NEW side, NEW k, Shows(g, side, k), end_wire(<<g, side, k>>)
  PROVE  wires' = Append(wires, <<m_wires[active_wire].m_src, <<g, side, k>>>>)
<1>1. PICK pin \in Pin : pin = <<g, side, k>>
  BY ShownIsPin
<1>2. PICK id \in Nat : id = get_pid(pin)
  BY <1>1, PidNumber
<1>3. get_pin(id) = pin
  BY <1>1, <1>2, Numbered
<1>4. PICK wire \in Wire : wire = m_wires[active_wire]
  BY ActiveWire
<1>5. PICK src_idx \in Nat : src_idx = wire.m_src_idx
  BY DEF Wire
<1>6. get_pin(src_idx) = wire.m_src
  BY <1>4, <1>5 DEF Drawing
<1>7. wire.m_src # nullptr /\ pin # nullptr
  BY NullIsNoPin DEF Wire
<1>8. wire_pins(src_idx, id)
  BY <1>1, <1>2, <1>3, <1>4, <1>5, <1>6, <1>7 DEF end_wire
<1>9. wires' = Append(wires, <<get_pin(src_idx), get_pin(id)>>)
  BY <1>8 DEF wire_pins
<1>. QED
  BY <1>1, <1>3, <1>4, <1>6, <1>9

\* The sketch is wired as drawn after each step.
LEMMA WiredStep ==
  ASSUME IInv, WindowTypes, Clicked, Modes, Alike, Drawing,
         wires = EndsOf(m_wires)[Len(m_wires)],
         [GuiNext]_guiAll, slips' = {}
  PROVE  wires' = EndsOf(m_wires')[Len(m_wires')]
<1>1. ASSUME UNCHANGED <<wires, m_wires>>
      PROVE  wires' = EndsOf(m_wires')[Len(m_wires')]
  BY <1>1
<1>2. ASSUME NEW place \in Places, Click(place)
      PROVE  UNCHANGED <<wires, m_wires>>
  BY <1>2 DEF Click, place_component, add_subgate, select_belt, vars, drawing
<1>3. ASSUME HandleClick
      PROVE  wires' = EndsOf(m_wires')[Len(m_wires')]
  <2>1. CASE AddsPin(event)
    <3>1. UNCHANGED <<wires, m_wires>>
      BY <1>3, <2>1, PortClicked DEF add_pin, add_input_pin, add_output_pin, drawing
    <3>. QED
      BY <1>1, <3>1
  <2>2. CASE Wires(event)
    <3>1. PICK g, side, k : /\ Shows(g, side, k)
                            /\ handle_wiring_mode(<<g, side, k>>) \/ UNCHANGED <<vars, shown, drawing, slips>>
      BY <1>3, <2>2, PinClicked
    <3>2. PICK pin \in Pin : pin = <<g, side, k>>
      BY <3>1, ShownIsPin
    <3>3. m_wires \in Seq(Wire)
      BY DEF WindowTypes
    <3>4. CASE start_wire(pin)
      <4>1. PICK wire : wire = [m_src |-> pin, m_src_idx |-> get_pid(pin), m_dest_pins |-> nullptr]
        OBVIOUS
      <4>2. get_pid(pin) \in Nat
        BY <3>1, <3>2, PidNumber
      <4>3. wire \in Wire /\ wire.m_dest_pins = nullptr
        BY <4>1, <4>2 DEF Wire
      <4>4. m_wires' = Append(m_wires, wire) /\ wires' = wires
        BY <3>4, <4>1 DEF start_wire, vars
      <4>. QED
        BY <3>3, <4>3, <4>4, StartedEnds
    <3>5. CASE active_wire # 0 /\ end_wire(pin)
      <4>1. PICK n \in Nat : n = active_wire /\ n = Len(m_wires) /\ n # 0
        BY <3>5, ActiveWire
      <4>2. m_wires[n].m_dest_pins = nullptr
        BY <4>1 DEF Modes
      <4>3. m_wires' = [m_wires EXCEPT ![n].m_dest_pins = pin]
        BY <3>5, <4>1 DEF end_wire
      <4>4. wires' = Append(wires, <<m_wires[n].m_src, pin>>)
        BY <3>1, <3>2, <3>5, <4>1, EndedWires
      <4>5. EndsOf(m_wires')[n] = Append(EndsOf(m_wires)[n], <<m_wires[n].m_src, pin>>)
        BY <3>3, <4>1, <4>2, <4>3, EndedEnds
      <4>6. Len(m_wires') = n
        BY <3>3, <4>1, <4>3
      <4>. QED
        BY <4>1, <4>4, <4>5, <4>6
    <3>6. CASE UNCHANGED <<wires, m_wires>>
      BY <1>1, <3>6
    <3>. QED
      BY <3>1, <3>2, <3>4, <3>5, <3>6 DEF handle_wiring_mode, vars, drawing
  <2>3. CASE ~AddsPin(event) /\ ~Wires(event)
    <3>1. UNCHANGED <<wires, m_wires>>
      BY <1>3, <2>3 DEF HandleClick, vars, drawing
    <3>. QED
      BY <1>1, <3>1
  <2>. QED
    BY <2>1, <2>2, <2>3
<1>4. ASSUME clear
      PROVE  wires' = EndsOf(m_wires')[Len(m_wires')]
  <2>1. wires' = <<>> /\ m_wires' = <<>>
    BY <1>4 DEF clear, new_sketch
  <2>2. <<>> \in Seq(Wire) /\ Len(<<>>) = 0
    OBVIOUS
  <2>3. EndsOf(<<>>)[0] = <<>>
    BY <2>2, EndsSteps
  <2>. QED
    BY <2>1, <2>2, <2>3
<1>5. TypeText \/ TypeReturn \/ toggle_mode \/ Escape \/ UNCHANGED guiAll => UNCHANGED <<wires, m_wires>>
  BY DEF TypeText, TypeReturn, toggle_mode, Escape, guiAll, guiVars, drawing, vars
<1>. QED
  BY <1>1, <1>2, <1>3, <1>4, <1>5 DEF GuiNext

-----------------------------------------------------------------------------
(* The invariant, and what follows from it. *)

LEMMA WindowStarts == Init /\ GuiInit => WindowInv
<1> SUFFICES ASSUME Init, GuiInit
             PROVE  WindowInv
  OBVIOUS
<1>1. IInv
  BY Initially
<1>2. WindowTypes /\ Clicked /\ Modes
  <2>1. <<>> \in Seq(Nat \X Nat) /\ <<>> \in Seq(Wire) /\ Len(<<>>) = 0
    OBVIOUS
  <2>2. WindowTypes
    BY <2>1 DEF GuiInit, WindowTypes
  <2>3. Clicked /\ Modes
    BY DEF GuiInit, Clicked, Modes
  <2>. QED
    BY <2>2, <2>3
<1>3. Alike
  BY EmptyAlike DEF GuiInit
<1>4. Drawing
  BY DEF GuiInit, Drawing
<1>5. WiredAsDrawn
  <2>1. <<>> \in Seq(Wire) /\ Len(<<>>) = 0
    OBVIOUS
  <2>2. EndsOf(<<>>)[0] = <<>>
    BY <2>1, EndsSteps
  <2>. QED
    BY <2>1, <2>2, DrawnEnds DEF Init, GuiInit
<1>. QED
  BY <1>1, <1>2, <1>3, <1>4, <1>5 DEF WindowInv

LEMMA WindowSteps == WindowInv /\ [GuiNext]_guiAll => WindowInv'
<1> SUFFICES ASSUME WindowInv, [GuiNext]_guiAll
             PROVE  WindowInv'
  OBVIOUS
<1>1. /\ IInv /\ WindowTypes /\ Clicked /\ Modes
      /\ "edge" \notin slips => Alike
      /\ slips = {} => Drawing /\ WiredAsDrawn
  BY DEF WindowInv
<1>2. IInv' /\ WindowTypes' /\ Clicked' /\ Modes'
  BY <1>1, SketchSound, TypesStep, ClickedStep, ModesStep
<1>3. "edge" \notin slips' => Alike'
  BY <1>1, SlipsStay, AlikeStep
<1>4. ASSUME slips' = {}
      PROVE  Drawing' /\ WiredAsDrawn'
  <2>1. slips = {} /\ Alike /\ Drawing /\ wires = EndsOf(m_wires)[Len(m_wires)]
    BY <1>1, <1>4, SlipsStay, DrawnEnds
  <2>2. Drawing'
    BY <1>1, <1>4, <2>1, DrawingStep
  <2>3. wires' = EndsOf(m_wires')[Len(m_wires')]
    BY <1>1, <1>4, <2>1, WiredStep
  <2>4. WiredAsDrawn'
    BY <2>3 DEF WiredAsDrawn, DrawnUpTo, EndsOf
  <2>. QED
    BY <2>2, <2>4
<1>. QED
  BY <1>2, <1>3, <1>4 DEF WindowInv

(***************************************************************************)
(* Sessions: of commands, which keep the sketch sound and leave the window  *)
(* empty, or in the window.                                                 *)
(***************************************************************************)
SessionInv ==
  /\ IInv
  /\ by = "commands" => GuiInit
  /\ by = "window" => WindowInv
  /\ by \in {"commands", "window"}

LEMMA SessionStarts == SessionInit => SessionInv
BY WindowStarts DEF SessionInit, SessionInv, WindowInv

LEMMA SessionSteps == SessionInv /\ [SessionNext]_<<vars, guiVars, by>> => SessionInv'
<1> SUFFICES ASSUME SessionInv, [SessionNext]_<<vars, guiVars, by>>
             PROVE  SessionInv'
  OBVIOUS
<1>1. by' = by
  BY DEF SessionNext
<1>2. CASE by = "commands"
  <2>1. IInv /\ GuiInit /\ UNCHANGED guiVars /\ [Next]_vars
    BY <1>2 DEF SessionInv, SessionNext
  <2>2. [Operation]_vars
    BY <2>1, NextOperates
  <2>3. IInv'
    BY <2>1, <2>2, Inductive
  <2>4. GuiInit'
    BY <2>1 DEF GuiInit, guiVars, toolbox, shown, drawing
  <2>. QED
    BY <1>1, <1>2, <2>3, <2>4 DEF SessionInv
<1>3. CASE by = "window"
  <2>1. WindowInv /\ [GuiNext]_guiAll
    BY <1>3 DEF SessionInv, SessionNext, guiAll
  <2>2. WindowInv'
    BY <2>1, WindowSteps
  <2>. QED
    BY <1>1, <1>3, <2>2 DEF SessionInv, WindowInv
<1>. QED
  BY <1>2, <1>3 DEF SessionInv

LEMMA SessionInvariant == SessionSpec => []SessionInv
BY SessionStarts, SessionSteps, PTL DEF SessionSpec

\* Nothing is on the screen.
LEMMA NothingShown ==
  ASSUME GuiInit
  PROVE  GuiTypeOK /\ NumberedAsShown
<1>1. GuiTypeOK
  <2>1. m_components \in Seq(Nat \X Nat)
    BY DEF GuiInit
  <2>2. {m_name_edit, m_search_edit, m_entries} \subseteq BOOLEAN
    BY DEF GuiInit
  <2>3. active_wire = 0 /\ edit_mode = "IDLE" /\ m_active_component = nullptr
    BY DEF GuiInit
  <2>. QED
    BY <2>1, <2>2, <2>3 DEF GuiTypeOK
<1>2. ASSUME NEW pin \in ShownPins
      PROVE  FALSE
  <2>1. PICK g, side, k : Shows(g, side, k)
    BY <1>2, Showing
  <2>2. g = 0 /\ PortSize(g, side) = 0
    BY <2>1, PortSizes DEF Shows, GuiInit, Sides
  <2>. QED
    BY <2>1, <2>2 DEF Shows
<1>. QED
  BY <1>1, <1>2 DEF NumberedAsShown

\* The modes and the types of the window hold whatever is clicked, and the wire that is being
\* drawn is the last one, with one end: the pointer to it is good when the vector grows
\* (handle_wiring_mode, handle_keyboard, clear).
THEOREM WindowTyped == SessionSpec => []GuiTypeOK
<1>1. WindowInv => GuiTypeOK
  BY DEF WindowInv, WindowTypes, Modes, GuiTypeOK
<1>2. SessionInv => GuiTypeOK
  BY <1>1, NothingShown DEF SessionInv
<1>. QED
  BY <1>2, SessionInvariant, PTL

\* For every limit, all gates and any number of clicks the window finds the number that the
\* sketch knows a pin by, as long as nobody clicks the edge of a component (BoardGui::get_pin,
\* Gate::get_pin).
THEOREM NumbersShown == SessionSpec => []NumberedAsShown
<1>1. WindowInv => NumberedAsShown
  <2> SUFFICES ASSUME WindowInv, "edge" \notin slips, NEW pin \in ShownPins
               PROVE  get_pin(get_pid(pin)) = pin
    BY DEF NumberedAsShown
  <2>1. PICK g, side, k : Shows(g, side, k) /\ pin = <<g, side, k>>
    BY Showing
  <2>. QED
    BY <2>1, Numbered DEF WindowInv
<1>2. SessionInv => NumberedAsShown
  BY <1>1, NothingShown DEF SessionInv
<1>. QED
  BY <1>2, SessionInvariant, PTL

\* The sketch is wired as the screen shows after any clicks and keys without the slips, however
\* the numbers of pins change meanwhile (handle_wiring_mode, add_pin, place_component).
THEOREM AlwaysAsDrawn == SessionSpec => []WindowWired
<1>1. SessionInv => WindowWired
  BY DEF SessionInv, WindowInv, WindowWired, WiredAsDrawn
<1>. QED
  BY <1>1, SessionInvariant, PTL

\* A sketch is as sound as a gate that commands make, slips or not: duplicates of it are wired
\* like it and no two numbers mean one pin (BoardGui::clear, Gate::add_input_pin, Gate::wire_pins).
THEOREM SketchStaysSound == SessionSpec => [](Coherent /\ OneNumberEach)
<1>1. SessionInv => Coherent /\ OneNumberEach
  BY Agree, Apart DEF SessionInv
<1>. QED
  BY <1>1, SessionInvariant, PTL
=============================================================================
