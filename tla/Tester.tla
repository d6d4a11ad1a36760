---------------------------------- MODULE Tester ----------------------------------
(***************************************************************************)
(* The interpreter of test files (src/src/lang/test/tester.hpp): it loads   *)
(* chips, makes variables of them, sets their inputs, evaluates them and    *)
(* checks what they show.  A source is taken a statement at a time, a       *)
(* statement with what its syntax errors leave of it.                       *)
(***************************************************************************)
EXTENDS ChipMeta

CONSTANTS Variables, \* the names a test may give its variables
          Loadable,  \* the chips that are on the board, or whose gate file loads
          Hidden,    \* what a chip keeps besides its pins: its subgates', or those of its class
          Fresh,     \* [chip -> what a duplicate of it may keep at first]
          Eval,      \* [chip -> [states from which a call of simulate returns -> states]]
          MAX_INT    \* the largest number of an int

VARIABLES phase,       \* "file", "test", or how it ended: "done", "looping", "aborted", "undefined"
          chip_images, \* the chips loaded
          variables,   \* [names -> chips: their type, the states of their pins, what they keep]
          test_failed, has_error,
          verdict      \* of the last test: "none", "passed" or "failed"

vars == <<phase, chip_images, variables, test_failed, has_error, verdict>>

Pins(n) == [1 .. n -> BOOLEAN]
ChipStates(chip) == [type : {chip}, input_pins : Pins(Len(InputNames[chip])),
                     output_pins : Pins(Len(OutputNames[chip])), hidden : Hidden]

\* A call that returns leaves the chip with the pins it has; it may switch off inputs.
ASSUME EvalAssumption ==
  \A chip \in Loadable \cap DOMAIN Chips :
    /\ Fresh[chip] \subseteq Hidden
    /\ \A state \in ChipStates(chip) \cap DOMAIN Eval[chip] : Eval[chip][state] \in ChipStates(chip)

\* Operands: a number, a member of a variable, or none where the source has neither.
Number(n) == [kind |-> "number", number |-> n]
Member(v, name) == [kind |-> "member", variable |-> v, member |-> name]
NoOperand == [kind |-> "none"]

-----------------------------------------------------------------------------

two_to_the[n \in Nat] == IF n = 0 THEN 1 ELSE 2 * two_to_the[n - 1]

\* Mutant: the first place is the lowest bit.
pinvec_to_uint_lowest_first(pins) ==
  LET val[n \in 0 .. Len(pins)] ==
        IF n = 0 THEN 0 ELSE 2 * val[n - 1] + (IF pins[Len(pins) + 1 - n] THEN 1 ELSE 0)
  IN  val[Len(pins)]

\* The number after as many pins as n, the highest first.
pinvec_to_uint(pins) ==
  LET val[n \in 0 .. Len(pins)] == IF n = 0 THEN 0 ELSE 2 * val[n - 1] + (IF pins[n] THEN 1 ELSE 0)
  IN  val[Len(pins)]

\* Mutant: the first place takes the lowest bit.
set_pinvec_lowest_first(value, size) == [k \in 1 .. size |-> (value \div two_to_the[k - 1]) % 2 = 1]

\* The bits of value in as many pins as size, the highest first.
set_pinvec(value, size) == [k \in 1 .. size |-> (value \div two_to_the[size - k]) % 2 = 1]

values(chip) == Range(InputNames[chip]) \cup Range(OutputNames[chip])
                  \cup {<<d[1]>> : d \in Range(Chips[chip].inputs) \cup Range(Chips[chip].outputs)}

Found(operand) ==
  operand.kind = "member" => /\ operand.variable \in DOMAIN variables
                             /\ operand.member \in values(variables[operand.variable].type)

\* The numbers of a member's pins: those of a bus follow each other, the last place first.
NumbersOf(chip, name) ==
  LET buses == get_bus(chip, name)
      bus == CHOOSE b \in buses : TRUE
  IN  IF buses = {} THEN <<CHOOSE n \in get_pin(chip, name) : TRUE>>
      ELSE [k \in 1 .. bus.size |-> bus.start + k - 1]

PinOf(state, n) ==
  IF n < INPUT_PIN_LIMIT THEN state.input_pins[n + 1] ELSE state.output_pins[n - INPUT_PIN_LIMIT + 1]

\* What is not found counts as 0, once it is reported.
get_value(operand) ==
  CASE operand.kind = "number" -> operand.number
    [] ~Found(operand) -> 0
    [] OTHER -> LET state == variables[operand.variable]
                    numbers == NumbersOf(state.type, operand.member)
                IN  pinvec_to_uint([k \in DOMAIN numbers |-> PinOf(state, numbers[k])])

\* What std::stoi throws on, which ends the program: get_value is noexcept.
NoInt(operand) ==
  \/ operand.kind = "none"
  \/ operand.kind = "number" /\ operand.number > MAX_INT

-----------------------------------------------------------------------------

Init ==
  /\ phase = "file"
  /\ chip_images = {}
  /\ variables = <<>>
  /\ test_failed = FALSE
  /\ has_error = FALSE
  /\ verdict = "none"

\* In a broken statement the syntax error is reported first, or after the last token that
\* matters: here only that it is reported.
LOAD_impl(chip, broken) ==
  LET found == chip \in Loadable /\ chip \in DOMAIN Chips
  IN  /\ phase = "file"
      /\ chip_images' = IF ~has_error /\ found THEN chip_images \cup {chip} ELSE chip_images
      /\ has_error' = (has_error \/ broken \/ ~found)
      /\ UNCHANGED <<phase, variables, test_failed, verdict>>

\* Mutant: the variables of the last test stay.
TEST_impl_unpurged(broken) ==
  /\ phase = "file"
  /\ phase' = "test"
  /\ test_failed' = FALSE
  /\ has_error' = (has_error \/ broken)
  /\ UNCHANGED <<chip_images, variables, verdict>>

TEST_impl(broken) ==
  /\ phase = "file"
  /\ phase' = "test"
  /\ test_failed' = FALSE
  /\ variables' = <<>>
  /\ has_error' = (has_error \/ broken)
  /\ UNCHANGED <<chip_images, verdict>>

\* A variable is a chip of its own, added to the gate of the test; one of that name
\* before it is no longer evaluated.
VAR_impl(v, type, hidden, broken) ==
  /\ phase = "test"
  /\ IF type \in chip_images
     THEN /\ hidden \in Fresh[type]
          /\ variables' = [w \in DOMAIN variables \cup {v} |->
                             IF w # v THEN variables[w]
                             ELSE [type |-> type,
                                   input_pins |-> [k \in DOMAIN InputNames[type] |-> FALSE],
                                   output_pins |-> [k \in DOMAIN OutputNames[type] |-> FALSE],
                                   hidden |-> hidden]]
     ELSE UNCHANGED variables
  /\ has_error' = (has_error \/ broken \/ type \notin chip_images)
  /\ UNCHANGED <<phase, chip_images, test_failed, verdict>>

Returns(v) == variables[v] \in DOMAIN Eval[variables[v].type]

EVAL_impl(broken) ==
  /\ phase = "test"
  /\ \A v \in DOMAIN variables : Returns(v)
  /\ variables' = [v \in DOMAIN variables |-> Eval[variables[v].type][variables[v]]]
  /\ has_error' = (has_error \/ broken)
  /\ UNCHANGED <<phase, chip_images, test_failed, verdict>>

\* A circuit that does not settle is simulated for ever.
EVAL_loops ==
  /\ phase = "test"
  /\ \E v \in DOMAIN variables : ~Returns(v)
  /\ phase' = "looping"
  /\ UNCHANGED <<chip_images, variables, test_failed, has_error, verdict>>

\* A target that is a number, missing or unknown is reported before the value is looked at.
SET_refused(target, value) ==
  /\ phase = "test"
  /\ target.kind # "member" \/ ~Found(target)
  /\ has_error' = TRUE
  /\ UNCHANGED <<phase, chip_images, variables, test_failed, verdict>>

\* A value that is missing or too large is converted to a number all the same.
SET_aborts(target, value) ==
  /\ phase = "test"
  /\ target.kind = "member" /\ Found(target) /\ NoInt(value)
  /\ phase' = "aborted"
  /\ UNCHANGED <<chip_images, variables, test_failed, has_error, verdict>>

Overflows(target, value) ==
  \E bus \in get_bus(variables[target.variable].type, target.member) :
    get_value(value) \div two_to_the[bus.size] > 0

SET_overflow(target, value) ==
  /\ phase = "test"
  /\ target.kind = "member" /\ Found(target) /\ ~NoInt(value)
  /\ Overflows(target, value)
  /\ has_error' = TRUE
  /\ UNCHANGED <<phase, chip_images, variables, test_failed, verdict>>

\* A single pin is on for 1 and off for every other number.  The number of an output is used
\* as an index of the inputs.
SET_impl(target, value, broken) ==
  /\ phase = "test"
  /\ target.kind = "member" /\ Found(target) /\ ~NoInt(value)
  /\ ~Overflows(target, value)
  /\ LET v == target.variable
         numbers == NumbersOf(variables[v].type, target.member)
         states == IF get_bus(variables[v].type, target.member) = {} THEN <<get_value(value) = 1>>
                   ELSE set_pinvec(get_value(value), Len(numbers))
     IN  IF \E n \in Range(numbers) : n >= INPUT_PIN_LIMIT
         THEN /\ phase' = "undefined"
              /\ UNCHANGED variables
         ELSE /\ variables' = [variables EXCEPT ![v].input_pins = [i \in DOMAIN @ |->
                                 IF \E k \in DOMAIN numbers : numbers[k] = i - 1
                                 THEN states[CHOOSE k \in DOMAIN numbers : numbers[k] = i - 1]
                                 ELSE @[i]]]
              /\ UNCHANGED phase
  /\ has_error' = (has_error \/ broken \/ ~Found(value))
  /\ UNCHANGED <<chip_images, test_failed, verdict>>

Holds(cond) == IF cond.type = "IS" THEN get_value(cond.a) = get_value(cond.b)
               ELSE get_value(cond.a) # get_value(cond.b)

\* The conditions are looked at in order up to the first that does not hold.
Failing(conditions) == {k \in DOMAIN conditions : ~Holds(conditions[k])}
Looked(conditions) == {k \in DOMAIN conditions : \A j \in Failing(conditions) : k <= j}

NotInts(conditions) == \E k \in Looked(conditions) : NoInt(conditions[k].a) \/ NoInt(conditions[k].b)

\* Nothing is required once an error was reported.
REQUIRE_impl(conditions, broken) ==
  /\ phase = "test"
  /\ IF has_error \/ broken
     THEN /\ has_error' = TRUE
          /\ UNCHANGED test_failed
     ELSE /\ ~NotInts(conditions)
          /\ test_failed' = (test_failed \/ Failing(conditions) # {})
          /\ has_error' = \E k \in Looked(conditions) :
                             ~Found(conditions[k].a) \/ ~Found(conditions[k].b)
  /\ UNCHANGED <<phase, chip_images, variables, verdict>>

REQUIRE_aborts(conditions, broken) ==
  /\ phase = "test"
  /\ ~has_error /\ ~broken /\ NotInts(conditions)
  /\ phase' = "aborted"
  /\ UNCHANGED <<chip_images, variables, test_failed, has_error, verdict>>

Verdict(failed, error) == IF failed \/ error THEN "failed" ELSE "passed"

TEST_end ==
  /\ phase = "test"
  /\ phase' = "file"
  /\ verdict' = Verdict(test_failed, has_error)
  /\ UNCHANGED <<chip_images, variables, test_failed, has_error>>

\* The file ends in a test, at once or because the rest of it is skipped after a token that
\* starts no statement.
TEST_unterminated ==
  /\ phase = "test"
  /\ phase' = "done"
  /\ has_error' = TRUE
  /\ verdict' = "failed"
  /\ UNCHANGED <<chip_images, variables, test_failed>>

\* A token that starts no statement: in a test the source is skipped to the next test, where
\* the body goes on and finds a token that starts no statement.  In a file it is not even
\* skipped.  A name without an end is read for ever.
Loops ==
  /\ phase \in {"file", "test"}
  /\ phase' = "looping"
  /\ UNCHANGED <<chip_images, variables, test_failed, has_error, verdict>>

parse_end ==
  /\ phase = "file"
  /\ phase' = "done"
  /\ UNCHANGED <<chip_images, variables, test_failed, has_error, verdict>>

-----------------------------------------------------------------------------

\* A variable is of a type that is loaded, and what ended stays as it was: an error leaves
\* no chip half set.
TypeOK ==
  /\ phase \in {"file", "test", "done", "looping", "aborted", "undefined"}
  /\ chip_images \subseteq Loadable \cap DOMAIN Chips
  /\ DOMAIN variables \subseteq Variables
  /\ \A v \in DOMAIN variables : \E chip \in chip_images : variables[v] \in ChipStates(chip)
  /\ test_failed \in BOOLEAN /\ has_error \in BOOLEAN
  /\ verdict \in {"none", "passed", "failed"}

\* The number the places of a bus make, each known by its name, from the lowest up.
NumberOfPlaces(v, id, size) ==
  LET sum[n \in 0 .. size] ==
        IF n = 0 THEN 0 ELSE sum[n - 1] + two_to_the[n - 1] * get_value(Member(v, <<id, n - 1>>))
  IN  sum[size]

\* A bus reads as the number its places make: the names of the places, their numbers and the
\* order of the bits agree (Meta::add_input_bus, Tester::get_value, pinvec_to_uint).
BusReadsItsPlaces ==
  \A v \in DOMAIN variables :
    \A d \in Range(Chips[variables[v].type].inputs) \cup Range(Chips[variables[v].type].outputs) :
      d[2] > 0 => get_value(Member(v, <<d[1]>>)) = NumberOfPlaces(v, d[1], d[2])
=============================================================================
