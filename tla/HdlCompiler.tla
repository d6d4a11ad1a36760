------------------------------ MODULE HdlCompiler ------------------------------
(***************************************************************************)
(* How the HDL parser turns the source of a chip into a recipe. Every       *)
(* signal is known by the number of the pin that first mentions it, be it a *)
(* pin of the chip or of a part; a later mention is remembered as a linkage *)
(* by name, and resolved to a wire between two numbers when the chip ends.  *)
(* The source is read one declaration, part or linkage at a time.           *)
(***************************************************************************)
EXTENDS ChipMeta

CONSTANTS Ins, Outs,  \* what the chip may declare: <<name, width>>
          Parts,      \* the names of chips the source may use
          Links       \* <<chip, pin, signal>>: the linkages the source may make

\* The width of a declaration is a number, and a name is a sequence, <<id>> or <<id, place>>.
ASSUME SourceAssumption ==
  /\ \A d \in Ins \cup Outs : d[2] \in Nat
  /\ \A l \in Links : Len(l[3]) \in Nat /\ l[3] = [k \in 1 .. Len(l[3]) |-> l[3][k]]

VARIABLES
  phase,                               \* where the parser is in the source
  input_pins, output_pins, dependencies, wire_linkages, bus, \* what the RecipeBuilder holds
  input_pin_offset, output_pin_offset, \* the numbers of the next pins
  pin_numbers, bus_numbers,            \* the numbers of signals, by name
  linkages,                            \* <<name, number, is_output>>, to be resolved
  context_gate_metadata,
  has_error,
  source                               \* history: which pin each mention joins to which signal

vars == <<phase, input_pins, output_pins, dependencies, wire_linkages, bus, input_pin_offset,
          output_pin_offset, pin_numbers, bus_numbers, linkages, context_gate_metadata,
          has_error, source>>

nullptr == "nullptr"

-----------------------------------------------------------------------------
\* The names get the numbers from the given one on, as in IN, OUT and a bus of a part.
Numbered(names, from) ==
  [n \in DOMAIN pin_numbers \cup Range(names) |->
     IF n \in Range(names) THEN from + (CHOOSE k \in DOMAIN names : names[k] = n) - 1
                           ELSE pin_numbers[n]]

Bus(name, entry) == [n \in DOMAIN bus_numbers \cup {name} |-> IF n = name THEN entry ELSE bus_numbers[n]]

Mention(pin, signal, whole) == [pin |-> pin, signal |-> signal, whole |-> whole]

Init ==
  /\ phase = "chip"
  /\ input_pins = <<>>
  /\ output_pins = <<>>
  /\ dependencies = <<>>
  /\ wire_linkages = <<>>
  /\ bus = {}
  /\ input_pin_offset = 0
  /\ output_pin_offset = 0
  /\ pin_numbers = <<>>
  /\ bus_numbers = <<>>
  /\ linkages = <<>>
  /\ context_gate_metadata = nullptr
  /\ has_error = FALSE
  /\ source = <<>>

-----------------------------------------------------------------------------
\* The loop of CHIP, where a declaration, PARTS or the end may come.
InChip == phase \in {"chip", "parts"}

\* A name is declared once: the code takes the later declaration for the name.
Undeclared(id) == id \notin {n[1] : n \in Range(input_pins) \cup Range(output_pins)}

Declared(d, start) ==
  /\ pin_numbers' = Numbered(PinNames(d[1], d[2]), start)
  /\ bus' = bus \cup {<<d[1], start, d[2]>> : w \in {d[2]} \ {0}}
  /\ bus_numbers' = IF d[2] = 0 THEN bus_numbers ELSE Bus(<<d[1]>>, <<start, d[2]>>)
  /\ phase' = "chip"
  /\ UNCHANGED <<dependencies, wire_linkages, linkages, context_gate_metadata, has_error>>

OwnPins(side, first, names, width) ==
  [k \in DOMAIN names |-> Mention(<<0, side, first + k - 1>>, names[k], width > 0)]

\* Mutant: the outputs of the chip are not counted.
OUT_statement_stale(d) ==
  /\ InChip /\ Undeclared(d[1])
  /\ LET names == PinNames(d[1], d[2])
     IN /\ Declared(d, INPUT_PIN_LIMIT + output_pin_offset)
        /\ output_pins' = output_pins \o names
        /\ source' = source \o OwnPins("out", Len(output_pins), names, d[2])
  /\ UNCHANGED <<input_pins, input_pin_offset, output_pin_offset>>

IN_statement(d) ==
  /\ InChip /\ Undeclared(d[1])
  /\ LET names == PinNames(d[1], d[2])
     IN /\ Declared(d, input_pin_offset)
        /\ input_pins' = input_pins \o names
        /\ input_pin_offset' = input_pin_offset + Len(names)
        /\ source' = source \o OwnPins("in", Len(input_pins), names, d[2])
  /\ UNCHANGED <<output_pins, output_pin_offset>>

OUT_statement(d) ==
  /\ InChip /\ Undeclared(d[1])
  /\ LET names == PinNames(d[1], d[2])
     IN /\ Declared(d, INPUT_PIN_LIMIT + output_pin_offset)
        /\ output_pins' = output_pins \o names
        /\ output_pin_offset' = output_pin_offset + Len(names)
        /\ source' = source \o OwnPins("out", Len(output_pins), names, d[2])
  /\ UNCHANGED <<input_pins, input_pin_offset>>

-----------------------------------------------------------------------------
(* A part: the first of PARTS, or one of SUBGATE that follows it. It has at  *)
(* least one linkage, and the first is treated unlike the rest.              *)

subgate_name == Last(dependencies)
subgate_added == subgate_name \in DOMAIN Chips

\* A chip no meta file is found for leaves the metadata of the part before it.
add_subgate_metadata(name) ==
  /\ dependencies' = Append(dependencies, name)
  /\ context_gate_metadata' = IF name \in DOMAIN Chips THEN name ELSE context_gate_metadata
  /\ has_error' = (has_error \/ name \notin DOMAIN Chips)
  /\ UNCHANGED <<input_pins, output_pins, wire_linkages, bus, input_pin_offset,
                 output_pin_offset, pin_numbers, bus_numbers, linkages, source>>

PARTS_statement(name) ==
  /\ InChip
  /\ phase' = "PARTS"
  /\ add_subgate_metadata(name)

SUBGATE_statement(name) ==
  /\ phase = "parts"
  /\ phase' = "SUBGATE"
  /\ add_subgate_metadata(name)

\* The number a pin of the part has in the chip that is being parsed.
NumberInChip(number) ==
  number + IF number >= INPUT_PIN_LIMIT THEN output_pin_offset ELSE input_pin_offset

PartPin(number) ==
  IF number >= INPUT_PIN_LIMIT THEN <<Len(dependencies), "out", number - INPUT_PIN_LIMIT>>
                               ELSE <<Len(dependencies), "in", number>>

Linkage(signal, number) == <<signal, NumberInChip(number), number >= INPUT_PIN_LIMIT>>

\* The bus of a part: an unknown signal becomes a bus at the pins of the part.
link_bus(start, size, signal) ==
  LET names == [k \in 1 .. size |-> Append(signal, size - k)]
      first == NumberInChip(start)
      known == signal \in DOMAIN bus_numbers
  IN /\ has_error' = (has_error \/ (known /\ bus_numbers[signal][2] # size))
     /\ IF known
        THEN /\ linkages' = linkages \o
                   [k \in 1 .. size |-> <<names[k], first + k - 1, start >= INPUT_PIN_LIMIT>>]
             /\ UNCHANGED <<pin_numbers, bus_numbers>>
        ELSE /\ pin_numbers' = Numbered(names, first)
             /\ bus_numbers' = Bus(signal, <<first, size>>)
             /\ UNCHANGED linkages
     /\ source' = source \o [k \in 1 .. size |-> Mention(PartPin(start + k - 1), names[k], TRUE)]

\* A pin of a part: an unknown signal is known by the pin's number from then on. The
\* first linkage of a SUBGATE that makes its signal known is a linkage as well.
link_pin(number, signal) ==
  LET known == signal \in DOMAIN pin_numbers
  IN /\ pin_numbers' = IF known THEN pin_numbers ELSE Numbered(<<signal>>, NumberInChip(number))
     /\ linkages' = IF known \/ phase = "SUBGATE" THEN Append(linkages, Linkage(signal, number))
                    ELSE linkages
     /\ source' = Append(source, Mention(PartPin(number), signal, FALSE))
     /\ UNCHANGED <<bus_numbers, has_error>>

\* The parser says nothing of a pin the first of PARTS has not, after its first linkage:
\* the report is the alternative of subgate_added there (parser.hpp:672).
link_unknown ==
  /\ has_error' = (has_error \/ phase # "PARTS,")
  /\ UNCHANGED <<pin_numbers, bus_numbers, linkages, source>>

link(chip, pin, signal) ==
  /\ phase \in {"PARTS", "PARTS,", "SUBGATE", "SUBGATE,"}
  /\ chip = subgate_name
  /\ phase' = CASE phase = "PARTS" -> "PARTS," [] phase = "SUBGATE" -> "SUBGATE," [] OTHER -> phase
  /\ \/ /\ ~subgate_added
        /\ has_error
        /\ UNCHANGED <<pin_numbers, bus_numbers, linkages, has_error, source>>
     \/ /\ subgate_added
        /\ \E entry \in get_bus(subgate_name, pin) : link_bus(entry.start, entry.size, signal)
     \/ /\ subgate_added
        /\ \E number \in get_pin(subgate_name, pin) : link_pin(number, signal)
     \/ /\ subgate_added
        /\ get_bus(subgate_name, pin) = {} /\ get_pin(subgate_name, pin) = {}
        /\ link_unknown
  /\ UNCHANGED <<input_pins, output_pins, dependencies, wire_linkages, bus, input_pin_offset,
                 output_pin_offset, context_gate_metadata>>

\* Mutant: the outputs of a part are not counted.
end_part_inputs ==
  /\ phase \in {"PARTS,", "SUBGATE,"}
  /\ context_gate_metadata # nullptr
  /\ phase' = "parts"
  /\ input_pin_offset' = input_pin_offset + Len(InputNames[context_gate_metadata])
  /\ UNCHANGED <<input_pins, output_pins, dependencies, wire_linkages, bus, output_pin_offset,
                 pin_numbers, bus_numbers, linkages, context_gate_metadata, has_error, source>>

\* The pins of the part are counted by the metadata at hand, which are those of the
\* part before it when there is none for this one.
end_part ==
  /\ phase \in {"PARTS,", "SUBGATE,"}
  /\ context_gate_metadata # nullptr
  /\ phase' = "parts"
  /\ input_pin_offset' = input_pin_offset + Len(InputNames[context_gate_metadata])
  /\ output_pin_offset' = output_pin_offset + Len(OutputNames[context_gate_metadata])
  /\ UNCHANGED <<input_pins, output_pins, dependencies, wire_linkages, bus,
                 pin_numbers, bus_numbers, linkages, context_gate_metadata, has_error, source>>

\* Without any metadata yet the null pointer is read.
end_part_unknown ==
  /\ phase \in {"PARTS,", "SUBGATE,"}
  /\ context_gate_metadata = nullptr
  /\ phase' = "crashed"
  /\ UNCHANGED <<input_pins, output_pins, dependencies, wire_linkages, bus, input_pin_offset,
                 output_pin_offset, pin_numbers, bus_numbers, linkages, context_gate_metadata,
                 has_error, source>>

-----------------------------------------------------------------------------
\* Mutant: an output is not swapped.
wire_linkage_forth(l) == <<pin_numbers[l[1]], l[2]>>

\* A linkage leads from the signal to the input of a part, or from its output.
wire_linkage(l) == IF l[3] THEN <<l[2], pin_numbers[l[1]]>> ELSE <<pin_numbers[l[1]], l[2]>>

Resolved(l) == l[1] \in DOMAIN pin_numbers

\* The wires of the linkages one after another, without those of an unknown signal.
WiresUpTo ==
  LET wired[n \in 0 .. Len(linkages)] ==
        IF n = 0 THEN <<>>
        ELSE wired[n - 1] \o IF Resolved(linkages[n]) THEN <<wire_linkage(linkages[n])>> ELSE <<>>
  IN  wired

\* The '}' of the chip: what was linked is resolved.
CHIP_end ==
  /\ InChip
  /\ phase' = "done"
  /\ wire_linkages' = WiresUpTo[Len(linkages)]
  /\ has_error' = (has_error \/ \E k \in DOMAIN linkages : ~Resolved(linkages[k]))
  /\ UNCHANGED <<input_pins, output_pins, dependencies, bus, input_pin_offset, output_pin_offset,
                 pin_numbers, bus_numbers, linkages, context_gate_metadata, source>>

\* The file ends within the chip, which is reported; any other token is left where it
\* is, and the loop of CHIP looks at it again for ever.
CHIP_broken ==
  /\ InChip
  /\ \/ /\ phase' = "unfinished"
        /\ has_error' = TRUE
     \/ /\ phase' = "looping"
        /\ UNCHANGED has_error
  /\ UNCHANGED <<input_pins, output_pins, dependencies, wire_linkages, bus, input_pin_offset,
                 output_pin_offset, pin_numbers, bus_numbers, linkages, context_gate_metadata,
                 source>>

Next ==
  \/ \E d \in Ins : IN_statement(d)
  \/ \E d \in Outs : OUT_statement(d)
  \/ \E name \in Parts : PARTS_statement(name) \/ SUBGATE_statement(name)
  \/ \E l \in Links : link(l[1], l[2], l[3])
  \/ end_part
  \/ end_part_unknown
  \/ CHIP_end
  \/ CHIP_broken

Spec == Init /\ [][Next]_vars

-----------------------------------------------------------------------------
(* What the recipe builds: `input`, `output`, one `add` for every part, and  *)
(* a wire for every linkage, as the gate that loads it numbers its pins.     *)

PinsOfPart(i, part, side, names) ==
  IF part \notin DOMAIN Chips THEN <<>> ELSE [k \in DOMAIN names[part] |-> <<i, side, k - 1>>]

\* The pins on one side of the first parts.
PinsUpTo(parts, side, names) ==
  LET pins[n \in 0 .. Len(parts)] ==
        IF n = 0 THEN <<>> ELSE pins[n - 1] \o PinsOfPart(n, parts[n], side, names)
  IN  pins

PartInputs(parts) == PinsUpTo(parts, "in", InputNames)[Len(parts)]
PartOutputs(parts) == PinsUpTo(parts, "out", OutputNames)[Len(parts)]

Recipe == INSTANCE GateWiring WITH
  Counts <- {}, Shapes <- {},
  input_pins <- Len(input_pins), output_pins <- Len(output_pins),
  subgate_count <- Len(dependencies),
  subgate_inputs <- PartInputs(dependencies),
  subgate_outputs <- PartOutputs(dependencies),
  wire_construction_recipe <- wire_linkages, wires <- <<>>, loose <- {}

PinOf(number) == Recipe!get_pin(number)
Wires == {<<PinOf(w[1]), PinOf(w[2])>> : w \in Range(wire_linkages)}

\* A recipe is written only when nothing was reported.
Complete == phase = "done" /\ ~has_error

Signals == {source[m].signal : m \in DOMAIN source}

TypeOK ==
  /\ phase \in {"chip", "parts", "PARTS", "PARTS,", "SUBGATE", "SUBGATE,", "done", "crashed",
                "looping", "unfinished"}
  /\ input_pins \in Seq(Signals) /\ output_pins \in Seq(Signals)
  /\ dependencies \in Seq(Parts)
  /\ wire_linkages \in Seq(Nat \X Nat)
  /\ \A b \in bus : b[2] \in Nat /\ b[3] \in Nat
  /\ input_pin_offset \in Nat /\ output_pin_offset \in Nat
  /\ DOMAIN pin_numbers \subseteq Signals /\ Range(pin_numbers) \subseteq Nat
  /\ Range(bus_numbers) \subseteq Nat \X Nat
  /\ linkages \in Seq(Signals \X Nat \X BOOLEAN)
  /\ context_gate_metadata \in DOMAIN Chips \cup {nullptr}
  /\ has_error \in BOOLEAN
  /\ source \in Seq([pin : Recipe!Pin, signal : Signals, whole : BOOLEAN])

-----------------------------------------------------------------------------
(* The source says which pins belong together; the wires should do the same. *)

Mentions(signal) == {m \in DOMAIN source : source[m].signal = signal}

\* IN and OUT before the parts: an input declared later is put before the inputs of the
\* parts by `input`, and every number after it is off.
HeaderFirst == \A m, n \in DOMAIN source : m < n /\ source[n].pin[1] = 0 => source[m].pin[1] = 0

\* The driver of a signal is an input of the chip or an output of a part.
Drivers(signal) == {m \in Mentions(signal) : (source[m].pin[1] = 0) # (source[m].pin[2] = "out")}
Readers(signal) == Mentions(signal) \ Drivers(signal)

\* The numbers of inputs stay below those of outputs, which nothing in the code sees to.
Addressable == Len(input_pins) + Len(PartInputs(dependencies)) <= INPUT_PIN_LIMIT

\* The chip is declared before its parts, and its inputs are not too many.
Orderly == HeaderFirst /\ Addressable

\* The source links both pins to one signal.
Joined(p, q) ==
  \E m, n \in DOMAIN source :
    source[m].pin = p /\ source[n].pin = q /\ source[m].signal = source[n].signal

\* A level comes from one pin to another by a wire, or by way of an output of the chip.
Carried(p, q) ==
  \/ <<p, q>> \in Wires
  \/ \E k \in 1 .. Len(output_pins) :
       <<p, <<0, "out", k - 1>>>> \in Wires /\ <<<<0, "out", k - 1>>, q>> \in Wires

\* While the source is read, the number a signal is known by is that of a pin that the
\* source joins to it, in the chip the recipe will build: the parser counts the pins of
\* the parts just as Gate::get_pin does.
NumberedAsBuilt ==
  Orderly /\ ~has_error =>
    \A s \in DOMAIN pin_numbers :
      PinOf(pin_numbers[s]) \in {source[m].pin : m \in Mentions(s)}

\* The wires of a recipe only join pins that the source links to the same signal.
NoShorts == Complete /\ Orderly => \A w \in Wires : Joined(w[1], w[2])

\* A signal that the code is able to carry: one driver, first mentioned by a pin that is
\* read from there on, or having a single reader; and a bus first mentioned as a whole
\* when it is ever.
Plain(signal) ==
  LET first == CHOOSE m \in Mentions(signal) : \A n \in Mentions(signal) : m <= n
  IN /\ Cardinality(Drivers(signal)) = 1
     /\ first \in Drivers(signal) \/ source[first].pin[1] = 0 \/ Cardinality(Readers(signal)) = 1
     /\ source[first].whole \/ \A m \in Mentions(signal) : ~source[m].whole

\* In a recipe, what drives a signal reaches every pin that reads it, whether it was
\* mentioned before its driver or after.
Delivered ==
  Complete /\ Orderly =>
    \A s \in Signals : Plain(s) =>
      \A d \in Drivers(s), r \in Readers(s) : Carried(source[d].pin, source[r].pin)

\* The number a meta file has for a name: its place among the inputs or the outputs.
MetaNumber(name) ==
  {k - 1 : k \in {i \in DOMAIN input_pins : input_pins[i] = name}}
    \cup {INPUT_PIN_LIMIT + k - 1 : k \in {i \in DOMAIN output_pins : output_pins[i] = name}}

\* The meta file of a chip gives a bus the numbers of the pins of that name, by which the
\* chips that use this one link it.
MetaNumbers ==
  Complete /\ Orderly =>
    \A b \in bus : \A k \in 1 .. b[3] : MetaNumber(<<b[1], b[3] - k>>) = {b[2] + k - 1}

\* No wire of a recipe leads from a pin to itself, when the source links no pin twice to
\* a signal: a signal is declared by the first pin that mentions it, or linked, but not
\* both (parser.hpp:363-376).
NotWiredToItself ==
  Complete /\ Cardinality({<<source[m].pin, source[m].signal>> : m \in DOMAIN source}) = Len(source)
    => \A w \in Wires : w[1] # w[2]
=============================================================================
