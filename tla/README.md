# Circuits-SFML: a verification project

Circuits-SFML simulates logic circuits built from nand gates and dffs, compiles
chips from an HDL, precomputes them into tables, and on top of that carries a
small Hack/Jack tool chain: a Jack compiler, a VM translator, an assembler, an
emulator with a window, and an operating system written in Jack. This directory
holds TLA+ models of it, the TLC configurations that check them, and theorems
about them that TLAPS proves.

Paths below are relative to the repository, so `src/gate.cpp` is its C++ source
and `scripts/` its gate files and test scripts.

- [Inventory](#inventory): the parts of the system and what makes them correct
- [Modules](#modules): which module models what, and how it follows the code
- [Runs](#runs): what each run checks, its bounds, and what it showed
- [Disagreements found](#disagreements-found)
- [Fairness](#fairness)
- [Proofs](#proofs)
- [What is not modelled](#what-is-not-modelled) and [Plan](#plan)

To check a run: `tlc -config MCParity.cfg MCParity`. To check proofs:
`tlapm PropagationProofs.tla`.

## Inventory

The program (`src/main.cpp`) is one process with, apart from the emulator's
window, one thread. Components call each other directly; they share state
through pointers into one another's objects (wires to pins, duplicates to
tables, the GUI to its sketch) and through the files of a directory.

| Component | State it keeps | Operations | What makes it correct |
|---|---|---|---|
| Signal propagation: `src/gate.cpp`, `src/gate.hpp`, `src/pin.hpp`, `src/wire.hpp` | levels of pins; per call a queue of pins, a queue of wires and a visited set | `Gate::simulate`, `handle_custom_type`, `handle_nand`, `handle_dff`, `handle_serialized` | when `simulate` returns, every wire joins equal levels and every gate agrees with its inputs; it returns on every circuit without a race (circuits of nands, dffs, precomputed and composite gates) |
| Pins and recipes: `src/gate.hpp`, `src/component_recipe.*` | vectors of pins, subgates and wires; the recipe of numbers the wires were made from | `add_input_pin`, `add_output_pin`, `add_subgate`, `wire_pins`, `duplicate` | a number means one pin, and the same one now and in the recipe a duplicate is made from |
| Board and gate files: `src/board.hpp`, `src/main.cpp` | chips by name, the context, the directory | `load`, `load_file` with nested needs, `save`, `create_new`, `precompute`, `compile` | a chip on the board is whole and its parts are on the board; nothing points to what has been destroyed |
| Builtin clocked chips: `src/builtin/*.hpp` | register, memory, flags that remember the last simulation | `handle_*_impl`, called from the wave loop whenever an input changes | one operation per rising clock edge, with the inputs the circuit settles on, whatever order they arrive in |
| HDL compiler: `src/lang/hdl/` | numbers of pins and buses by signal, linkages to resolve, the recipe | `CHIP`, `IN`, `OUT`, `PARTS`, `SUBGATE` statements, `resolve_linkages` | the gate file joins the pins the HDL names, in the right direction, and the meta file numbers them as the gate does |
| Test interpreter: `src/lang/test/` | chips loaded, variables, the flags of failure and error | `LOAD`, `TEST`, `VAR`, `SET`, `EVAL`, `REQUIRE` | a test has the verdict it would have alone; a bus reads as it was set |
| Assembler: `src/lang/assembler/` | symbol table, its inverse, the instruction counter | one pass over labels, A and C instructions | every name resolves as in two passes |
| VM translator: `src/lang/vm/vm.hpp` | label and call counters, the output | one routine per VM command | the code, on the Hack computer, does what the commands say |
| Emulated VM: `src/lang/vm/emulated_vm.hpp` | byte code, symbols, stack | `generate_symbols_and_labels`, an interpreter of which only the pushes exist | |
| Jack compiler: `src/lang/jack/` | tables of a class and a subroutine, counts of labels, fields and statics | recursive descent to VM code | the program does, on the computer, what Jack's statements say |
| Hack computer: `src/emulator/computer.hpp` | `m_pc`, `m_A`, `m_D`, `m_ram`, `m_rom` | `process` | the Hack instruction set |
| Jack OS memory: `src/emulator/os/memory.jack` | the heap and its free list | `init`, `alloc`, `dealloc` | blocks in use never overlap, none is lost, `alloc` returns |
| Jack OS math: `src/emulator/os/math.jack` | powers of two | `multiply`, `divide`, `sqrt` | right results in words that wrap around |
| Jack OS screen, output, system | pixels, a cursor | drawing and printing | |
| Emulator shell: `src/emulator/compilation_context.hpp` | the computer, the window | a CPU thread and a window thread | the two may share the memory; the program ends |
| Scanner, parser core: `src/lang/core/` | character position, trie | tokens, error recovery | |
| GUI: `src/gui/` | mode, text boxes, ports, components, wires and the one being drawn, the sketch | clicks and keys | the sketch is the circuit on the screen |

What is hard here, and a test would hardly reach:

- **Order within one call.** A clock edge, a select line and the data they
  govern arrive at a chip in different waves of the same call. Chips with memory
  see several half-updated vectors, and the wave in which a signal arrives
  depends on the circuit the chip is put into.
- **State copied or cached.** Nested simulations get the visited set by value;
  builtin chips compare pins with what they remembered in another wave; recipes
  hold numbers that later additions shift; wires and duplicates hold pointers.
- **Cycles.** The dff makes feedback loops legal; nothing detects one that
  oscillates. Free lists and recursions may close on themselves as well.
- **Partial failure.** Loading a file loads other files in the middle; a failure
  several files deep leaves what it had done so far.
- **Widths.** Words wrap around; the arithmetic of the Jack OS relies on it.

`PROJECT.json` lists the hazards line by line, with the properties that are
about each of them, or why there is none.

## Modules

Names in the modules are those of the code. Data are abstract: signals are
Booleans, names are model values or short sequences, files are sets; logging and
wording are left out.

### Signal propagation: Propagation, AtomicChip, PropagationProofs

`Propagation` models `Gate::simulate` on a fixed circuit given by constants:
gates nested to any depth, their pins, the
parent a pin points to, and the wires that leave a pin in the order they were
made. State: `level` of every pin and a stack of `frames`, one for each nested
`handle_custom_type`, with the queue of pins, the wires of the wave, the gates
to fire and the visited set, which a nested call gets as a copy. One step is one turn of a loop of the
code: `ExploreWire` and `ExploreWireChanged` (a wire is followed; a changed pin
takes its gate out of the visited set), `NextPin`, `SkipGate`, `FireGate` (a gate
without inner wires is evaluated whole), `EnterGate` (a composite gate is
simulated by a nested call), `NextWave`, `Return`. Between calls `Simulate` sets
the root's inputs to anything.

A gate is a nand, a dff, precomputed or composite (`Kinds`); wherever "every circuit" stands
below, circuits of these are meant. The builtin chips of `src/gate.hpp:41` are not among them: the
handlers of the counter and the register switch off their own input pins, so the ends
of a wire need not agree when a call returns. They are in `ClockedChips`, one at a time.

One thing the model keeps that a cleaner one would miss: output pins have no
parent and carry the wires of the enclosing gate as well, so a nested call follows
wires out of the gate it was called for and may fire its siblings.

`AtomicChip` is the abstract specification: a call of `simulate` sets the inputs
and replaces the outputs by a function of them and of the previous outputs, in
one step. Which function a circuit is for is the constant `Eval` of
`Propagation`; `ImplementsChip` is that specification of it, with the levels at the
last return as the refinement mapping. `Combinational(rank)` says that a circuit
has no loop: levels go from pins of a lower rank to pins of a higher. `MCParity` and `MCBit`
are a circuit without a loop and one with; `MCNetlist` has notation for small circuits.

### Builtin chips: ChipInputs, ProgramCounter, RegisterChip, Ram16k, Rom32k, AddressedMemory, ClockedChips, BoardProofs

What propagation does to a chip inside a circuit is in `ChipInputs`: a call
brings new levels for the chip's inputs, signal `s` arrives in the waves named
in `Waves`, takes any value in a wave if it arrives again later (a glitch) and
its settled value in the last; the chip is simulated in the first wave and then
whenever a pin changed. This is what `Propagation` does to a `SERIALIZED` gate,
seen from the gate. Each chip module instantiates it and adds the handler as the
action `Simulate`, with the chip's fields as variables (`register_value`,
`action_taken`, `previous_state`; `data`, `written`; `data`, `immutable`; `data`).
A handler may write its own input pins (the program counter and the register
switch off pins they have consumed), and the model does too. History variables
(`incs`, `rearmed`, `stores`, `stored`, `writes`, `before`) only serve properties.

`AddressedMemory` is what a memory promises to a caller; `Ram16k` and `Rom32k`
are shown to implement it.

`ClockedChips` puts the four next to each other: `placement`, chosen at the start and never
changed, is the chip, for a counter or register also its number of bits and the order in
which its inputs arrive (`PC(p)` and `Register(p)` are instances with the placement as
parameter). What an order must be for a property to hold is said in the property
itself, by `First`, `Last`, `ClockAhead`, `AtOnce` and `OnlyReadLate`, so that checks and proofs
are about the same formula.

### Pins and recipes: GateWiring, BoardGuiProofs

One gate, to which pins, subgates and wires are added in any order (the commands
of a gate file, the HDL compiler's output or the GUI). Inputs and outputs are
numbered from 0 and from `INPUT_PIN_LIMIT`, the gate's own before those of
the subgates, so an addition shifts the numbers behind it, and the code renumbers
the recipe. A pin is `<<gate, side, place>>`; `wires` is what the wires join,
`wire_construction_recipe` is what a duplicate will be wired from, and `loose` marks
wires whose address of a pin dangles, because the vector that holds the pins
grew. A vector that grows may or may not move its elements: that is a choice.

### Board and gate files: Board, BoardProofs

The chips of a directory, which chips each file needs, which are precomputed and
which may be broken. `load_file` is a stack of `calls`, each at the need it has
come to: `NeedFound`, `NeedLoad`, `NeedLoaded`, `NeedCompile` (the file is not
there, the HDL is), `NeedFails`, `NeedExits` (the code calls `exit`), then the
chip is created, wired and, for precomputed ones, given a table; an image records
whether it is wired and which tables its parts point to. `walk` is the start-up
loop over the directory. Names are in lower case, as in every script: `create_new` puts a chip under
its name in lower case, while needs and parts are looked up as they are written, so a chip with a capital
letter in its name would never be found (`src/board.hpp:93`). The commands are loads, compiles and serializes
given one after another. Its specification is `BoardSpec`: `Board` and `ClockedChips`, the
chips of a directory and those that are built in, are proved about in one module.

### The window: BoardGui, BoardGuiProofs

What a user does in the window to a sketch: `BoardGui` extends `GateWiring` by the
mode, the two text boxes, the component at the mouse, the pins every port shows, the
wires drawn and the one being drawn. A click is two steps, for its handlers
change the sketch twice: `Click` is the text box of the name and the toolbox
(which may place or pick up a component), `HandleClick` the components and what the mode says:
`add_pin` or `handle_wiring_mode`. Keys are `toggle_mode` (E), `clear` (C),
`TypeText`, `TypeReturn` and `Escape`. The window numbers pins on its own, by
adding up what its ports show (`get_pid`), and the sketch by adding up its gates
(`get_pin`); a wire is made of the number its first pin had when it was clicked.
`slips` remembers two things a user can do that the code takes amiss (see
below). `DrawnUpTo` are the ends of the wires on the screen, without those given up
half drawn, in the order they were drawn. A session (`SessionSpec`) makes the gate either `by`
commands, with the actions of `GateWiring`, or in the window. The toolbox is taken to be drawn anew between two clicks, and the pins
of the main ports to stay where they are in memory.

### HDL compiler: ChipMeta, HdlCompiler, HdlCompilerProofs

`ChipMeta` is how names stand for pins in the files the tools share: a bus `a[3]` is
the names `a[2]`, `a[1]`, `a[0]`, with numbers that go up, and the bus as a whole is known by the
number of its first pin and its size (`get_bus`). `HdlCompiler` is the
parser's state, a source being read a declaration, a part or a linkage at a
time: `IN_statement`, `OUT_statement`, `PARTS_statement` with its first linkages,
`SUBGATE_statement`, `CHIP_end` with `resolve_linkages`, and the ends without a
recipe (an error, a chip whose meta file is missing, a token the loop never
gets past). A signal is known by the number of the pin that mentions it first; later mentions
are linkages by name, resolved when the chip ends. `source` is a history of what
the source said, from which the properties know what should be joined: they look at the
recipe through a `get_pin` of their own, the one of the gate that will be built. They are about
sources that are `Orderly`, which nothing in the code sees to: `HeaderFirst`, the chip is declared before its parts, and
`Addressable`, its inputs and those of its parts have numbers below those of outputs. `Plain` says which
signals the code is able to carry.

### Test interpreter: Tester, TestFile, TesterProofs

`Tester` has the chips loaded, the variables of the test with the levels of their
pins and what their chips keep besides (`hidden`: what a duplicate starts with is in `Fresh`, any of it where
a field is not initialized), the two flags and the verdict; an action per statement, with a
disjunct for what its errors leave of it, and the ends without a verdict
(`looping`, `aborted`, `undefined`). What a chip does is a constant `Eval`, a function of the
chip's whole state that is defined where `simulate` returns: an `EVAL` with a chip in another
state never ends (`EVAL_loops`). A number beyond an int ends the program where it is looked
at, in a `SET` or in a condition (`NoInt`).
`TestFile` runs two interpreters on the same source: one reads the whole file, the
other, `Alone`, is started anew at each `TEST`. Both get duplicates that start alike. After an
error the first requires nothing any more, and goes on where the second is ended by a condition (`AloneEnded`).

### The Hack tool chain: Assembler, AssemblerProofs, VMTranslator, HackComputer, StackMachine, TranslatedProgram

`Assembler` is the symbol table of the one-pass assembler: a name used before it
is known takes the next free address; if it turns out to be a label, that address is
given back and the addresses behind it move down.

`VMTranslator` is the code of every VM command as an operator that yields
instructions; `HackComputer` is the computer's registers, ALU and memory, a step
per instruction; `TranslatedProgram` composes them: it loads a program, and
runs it. `StackMachine` is the abstract specification: each function has a stack,
locals, arguments and two pointers of its own; a call puts the caller aside and
a return brings it back. The refinement mapping (`Reading` in `TranslatedProgram`)
reads the words of the memory as such a machine at the starts of commands, and
what it read at the last start in between.

### Jack: JackCompiler, JackLanguage, MCJackPrograms

`JackCompiler` is the parser of `jack.hpp` as operators from a class, given as the tree its
syntax makes of it, to VM commands: one operator per `compile_...` routine, each passing on
the tables and counts it leaves (`class_table` is never emptied, so neither is it
here). `JackLanguage` is the reference: what the statements of Jack
mean for variables and words of objects, with no stack, segment or label
in it. `MCJackPrograms` has the programs. `MCTranslatedProgram` compiles them,
`TranslatedProgram` translates the commands and runs them, and the words of
memory at the end must be what `JackLanguage` says: the whole tool chain, from a
statement to the memory of the computer, in one run. What the model's
compiler writes was compared with the program's own output, 182 commands:
they are the same.

### Jack operating system: JackHeap, JackMath, JackOS, JackOSProofs

`JackHeap` is the free list over the words of the heap as `memory.jack` leaves
it, the search of `alloc` one block per step. `JackMath` is `multiply`, `divide`
(with the calls that wait) and `sqrt`, one turn of a loop or one call per step, in words
of `Width` bits. `JackOS` puts the two classes next to each other: `class` is the one whose program is followed.

## Runs

| Run | Module | Properties | What it shows |
|---|---|---|---|
| parity | MCParity | TypeOK, Settled, NothingLost, ImplementsChip, Returns | two composite xors of four nands each, in a row, compute three-input parity under every sequence of inputs: each call settles the circuit and returns |
| bit | MCBit | RaceNeverReturns, ImplementsChip, ReturnsUnlessRacing | the register of `scripts/bit.hdl`, a mux and a dff in a loop, stores as it should; exactly the calls that open the dff while the mux is told to let go of another value never return |
| clocked_chips | MCClockedChips | RisingEdgeCounts, IncrementsOnce, RisingEdgeStores, StoresOnce, ShowsData, WrittenOnce, ImplementMemories | counter, register, ram and rom do one operation per rising clock: with the inputs the call settles on where the clock comes in time for them, in the counter of `scripts/cpu.hdl` with the controls that were there before |
| gate_wiring | MCGateWiring | TypeOK, Coherent, OneNumberEach, GuiTypeOK, NumberedAsShown, WindowWired | in any order of additions, by commands or in the window, the recipe follows the pins and no two numbers mean one pin; the window numbers pins as the sketch does and the sketch is wired as it is drawn, but for two slips of the user |
| board_loads | MCBoard | NeedsFound, LoadedWired, LoadEnds | from every set of gate and HDL files, some broken, loading ends, the parts of a chip are on the board, and a chip on it is wired unless its own file is broken |
| hdl_recipes | MCHdlCompiler | NumberedAsBuilt, NoShorts, Delivered, MetaNumbers | in every source of a few parts, numbers agree with the gate that will be built, wires join only what the source joins, what drives a signal reaches all its readers, and the meta file numbers pins as the gate does |
| hdl_self_wire (violation) | MCHdlCompiler | NotWiredToItself | the first linkage of a later part makes its signal known and is linked as well: a wire from a pin to itself |
| tester | MCTester | BusReadsItsPlaces, VerdictsAlone, SetReads | a test has the verdict it would have in a file of its own unless there was an error before it; a bus reads what it was set to and nothing else changes |
| assembler_apart | MCAssembler | ResolvedApart, VariablesDistinct | one pass resolves every name as two would, forward labels included, when the labels lie clear of the variables |
| translated_program | MCTranslatedProgram | ImplementsMachine, JackRuns | translated programs run on the Hack computer implement the stack machine; compiled programs of Jack reach their end with the variables and objects Jack's statements give them |
| jack_os | MCJackOS | Partitioned, LengthsKept, AllocReturns, Calculated, DivideEnds | while no block is split that has no room for it, every word of the heap is in one block and every search ends; products, quotients and roots are right up to the largest words, wrap-around included |
| jack_heap_overlap (violation) | MCJackOS | Disjoint | a block that just fits is split all the same, and later blocks overlap |

`TypeOK` is stated in every module that has state; the runs of propagation and gates list it, those of
the ram, the tests, the HDL compiler and the board are theorems (`TypeCorrect`, `AlwaysTyped`, `HdlTyped`,
`BoardTyped`). `GuiTypeOK` is checked for what it says of the pointer to the
wire being drawn.

### Bounds, and why they are enough

- **MCParity**: two levels of nesting, eight nands, three inputs, any number of
  calls. The theorems cover every other circuit for `Settled` and `NothingLost`, and every
  other circuit without a loop for `ImplementsChip`; the run checks their condition on
  this circuit (its ASSUME), and is about what they do not say, that the function is
  parity and that calls return. Glitches do happen: the second xor gets its inputs in
  different waves.
- **MCBit**: the smallest circuit with a cycle, complete.
- **MCClockedChips**: words of two bits (one for the counter behind glitches), so
  that the counter wraps around; two addresses, so that a write can go to the wrong
  one. Some orders are those of the scripts (`SomePlacements`): the counter of `scripts/cpu.hdl`, whose
  clock and reset are there in the first wave while data and controls glitch behind it (`ClockEarly`); its
  registers, whose input and load glitch behind the clock and whose input goes on changing
  behind the load (`LoadBehindGates`); the ram of `scripts/computer.hdl`, whose clock the two forward
  chips hold back until the processor has said where to store (`ClockLast`); the late read address of its rom. The
  others are those in which a chip does all that is asked of it: all inputs at once, the clock of a counter
  behind glitching controls, the load of a register behind the input. The scripts' orders are
  shorter here by waves in which nothing new comes. `placement` chooses chip and order
  once, and the sequence of calls is not bounded. The theorems are about words, addresses and
  orders of any size.
- **MCGateWiring**: a limit of four inputs, up to two outputs, two subgates of two
  shapes (one with more outputs than inputs) and one wire, with additions before
  and behind the wire. `Addressable` is a bound too: the code does not refuse more inputs
  than the limit. `SmallWindow` narrows sessions in the window, where every click is two
  steps: two inputs and an output of the sketch beside two components, and a second wire
  where there is one component, so that a wire can be left half drawn and another begun. The
  slips, the text box of the name and a search that finds nothing are kept to the small
  sketches: none of them reads how much is drawn.
- **MCBoard**: three chips in three layers, one needed twice on different ways,
  which is what nested needs take to fail halfway; each chip is created at most
  twice (`FewImages`), enough for one image to replace another.
- **MCHdlCompiler**: a limit of six, so that sources with too many inputs occur; a bus of two and a single output, up to three parts out of one with single
  pins, one with buses and one that has no meta file, four mentions of signals by them: a
  signal read twice before it is driven, an output of the chip that a part reads, a bus as a whole and by its places, and a part
  that keeps the metadata of the one before. The theorems have sources and chips of every size; the
  run checks that the sources they are about occur, with what is hard in them. A source with an error is followed up to its
  second part.
- **MCTester**: two tests of five statements over one chip that stores once per load, which its pins do not
  show, and that does not settle for one of its inputs; one bus and
  single pins, one chip that is missing, and an int of three bits. Two tests are what it takes for one to be seen by
  the next, and five statements make a variable, set it twice, evaluate and require. Every statement may
  have a syntax error, also a LOAD and a SET.
- **MCAssembler**: three names, one register, eight lines: enough for two forward
  labels with variables in between, and so for the shift of a run of addresses.
- **MCTranslatedProgram**: some 700 programs. Of VM commands: arithmetic at the ends of
  the range, every pair of segments, calls with moved pointers, recursion, loops. Of
  Jack: all calculations of three terms (for precedence and brackets), branches
  and loops in each other, objects, methods and arrays, statics in two files of classes, a recursion. The computer
  has words of eleven bits and 80 words of memory: every constant of the translator, addresses
  included, is in range.
- **MCJackOS**: the classes of the Jack OS share no state, so `Class` chooses one. A heap
  of 13 words and blocks of one to three: several blocks in use at once, given back in
  any order, with exact and one-off fits. `Sound` cuts off heaps that the split
  without room has corrupted (the subject of jack_heap_overlap), and divisions by
  zero or less, which do not end. All pairs of words of six bits: the ends of the range are where the
  algorithms are at risk, and six bits have all of them.

Every property of a passing run has a mutant in `PROJECT.json`: a bug of a
plausible kind in one definition, next to it in its module under a comment that
begins with `Mutant`, and TLC finds the property violated with it.

## Disagreements found

Two violation runs show the code doing something other than what the
repository says of it:

- **jack_heap_overlap** (`src/emulator/os/memory.jack:37`). `alloc` accepts
  blocks that lack the two words the split needs; the remainder's header lands
  in the neighbour.
- **hdl_self_wire** (`src/lang/hdl/parser.hpp:363`). A signal is declared by the first pin
  that mentions it, or linked, but the first linkage of a `SUBGATE` does both when it
  makes its signal known: the recipe has a wire from the pin to itself. The compiled program writes it.

More properties are stated in the modules and do not hold of the code, and no run is
kept for them:

- `ForwardsOnce` in ClockedChips (`src/builtin/pc.hpp:43`; it fails with the `HeldPlacements` of
  MCClockedChips, and with `ClockEarly`, the order of the counter of `scripts/cpu.hdl`). The counter takes the
  clock pin it has itself switched off for the end of the cycle. A signal that arrives after
  the clock re-arms it, and it counts again in the same phase. The compiled program
  does so with `not(in=x,out=nx); pc(in[0]=nx,inc=inc,clock=clock,out=out)`.
- `TablesAlive` in Board (`src/board.hpp:93`). A second load of a chip frees the table
  its duplicates in other chips point to. The compiled program, with an address
  sanitizer, stops at `compile mux`, `bit`, `mux`, `serialize bit`.
- `SearchEnds` in JackHeap: by the same split the free list may close on itself,
  and `alloc` then never returns.
- `NeedsLoaded` in Board: a chip whose file failed halfway stays on the board without
  its wires and counts as loaded for the next file that needs it.
- `WiresHold` in GateWiring: wires keep pointers into vectors of pins, which
  move when pins are added to a wired gate; the GUI adds pins to its sketch at
  any time (`src/gui/pin_port_gui.cpp:32`).
- `LabelsStay` in Assembler: labels and variables share `index_mapping_inverse`, so
  that a label whose instruction number is the address right behind the
  variables is moved with them. `ResolvedApart` is about programs without such a label.

What the properties have to except, because the code does otherwise:

- **The window** (`slips` in BoardGui). Components hand clicks to their ports as if they were
  those of the sketch (`src/gui/component_gui.hpp:126`): a click on a component's edge in normal mode
  adds an input to the sketch and a pin to the port, and from then on the
  window numbers pins otherwise than the sketch. And a text box used while a wire is half drawn
  ends in normal mode with the wire kept: pins added then shift the number it
  was begun with, and it is made to a neighbour of the pin (`src/gui/board_gui.hpp:230`). Leaving
  wiring mode by E drops the wire.
- **HDL** (`HeaderFirst`, `Addressable`, `Plain` in HdlCompiler). `IN` or `OUT` behind `PARTS` shift numbers that have been
  given; a signal two parts read before the part that drives it reaches only the first of
  them; a bus named as a whole after one of its places loses the earlier link. A pin the
  part does not have is accepted silently in the linkages of `PARTS` behind the first (`parser.hpp:672`); a first part
  without a meta file is reported and then read through a null pointer.
- **Tests** (`erred` in TestFile). `has_error` is never reset: every test after an error fails
  (`src/lang/test/tester.hpp:632`). Setting an output indexes the inputs beyond their end; a `SET` without a value ends in an exception that may
  not leave; a number beyond an int ends the program the same way, in a condition as well; a single pin set to any number but one is off.
- **Loops that read on nowhere.** A token that starts no statement is skipped to the next
  statement or test of a kind without leaving the loop that then meets it again: in the
  body of a test with another behind it (`tester.hpp:621`), at the file level of a test
  file, in the body of a `CHIP`, in the body of a Jack subroutine, where a `let` of an undefined variable
  has the same effect (`src/lang/jack/jack.hpp:660`). The models end there in `looping`, or leave such a source out (Jack).
- **Jack** (programs that `MCJackPrograms` does not have, for Jack gives them another meaning than the
  compiler): a call without a class writes its arguments and no call (`jack.hpp:257`); a field as the receiver of a
  call is called without its object; a string writes nothing; the variables of an earlier
  class of the file are still known in a later one; a second constructor, or a field declared
  behind one, counts on from the fields of the first; `if` and `while` take a condition for true when it is negative, not when it is
  another word than zero.
- **Ends of ranges.** A division by zero or by a negative word calls itself for ever
  (`src/emulator/os/math.jack:52`); `gt` and `lt` compare the sign of a difference that wraps around
  (`src/lang/vm/vm.hpp:599`); `m_A` may be beyond the memory (`src/emulator/computer.hpp:290`); with more inputs than
  `INPUT_PIN_LIMIT`, those of subgates included, numbers of inputs run into those of outputs
  (`src/gate.hpp:288`); `alloc` returns -1 when nothing fits, which a constructor takes for an address
  (`src/emulator/os/memory.jack:42`); gate files that need each other load each other for ever
  (`src/board.hpp:203`). The models stop before these by a named bound or an input set.

Smaller remarks from reading: a register whose uninitialized `data`
equals the first word stored does not show it (`src/builtin/register.hpp:111`;
`ShowsData` says what holds instead, from every initial word); the register
stores whenever load rises with the clock up, where its comment speaks of a new
clock signal; a precomputed chip keeps its table when a chip it is made of is compiled anew
(`src/gate.hpp:177`); the README's numbering of outputs from 255 (`README.md:25`) is from
1000 in the code; nothing calls the belt (`src/gui/board_gui.hpp:256`), so a sketch of the window cannot be saved.

## Fairness

- `Propagation` has weak fairness of `Step`, the loop of a call that has been
  started: it is one thread that runs until it returns. Calls themselves have
  none: nobody has to simulate. `Returns` therefore says that the loop ends.
- `Board` has the same of `load_file`, for the same reason.
- `JackHeap` and `JackOS` have it of the steps of a search that is under way.
- `TranslatedProgram` has it of the computer's step, in `FairSpec` of `MCTranslatedProgram`: the CPU thread
  processes instructions in a loop that does not end (`CompilationContext::run`). `JackRuns` needs it: a
  program of Jack reaches its end.
- Nothing else has fairness; the remaining properties are safety.

## Proofs

TLAPS proves the following for every value of the constants that meets the
named assumptions, with nothing taken on trust.

**PropagationProofs**: for every circuit of nands, dffs, precomputed and composite gates
(`GateAssumption`, `PinAssumption`, `WireAssumption`: what a board can build of them; cycles and any nesting are allowed),

- `TypeCorrect`: `Spec => []TypeOK`;
- `NeverLost`: `Spec => []NothingLost`;
- `AlwaysSettled`: `Spec => []Settled`.

`Settled` is about the moment a call returns and is not inductive: in the
middle of a call wires join different levels. The invariant is `NothingLost`: a wire
whose ends differ is still in some frame's queues, and a gate that disagrees with
its inputs is queued in some frame that has not marked it visited. That "some frame" is
the crux, for frames have copies of the visited set. The proof has a lemma per
action, which shows that what was pending stays pending or is done: following a
wire settles it but makes the wires and the gate behind it pending; firing a gate makes
its output pins pending; a nested call that returns hands its outputs to its caller.
When the stack is empty nothing can be pending, hence `Settled`.

What a circuit is for goes further: that it ends up at the one set of levels its inputs
determine, whatever glitches came by. For every circuit without a loop
(`Combinational(rank)` for some rank),

- `FunctionComputed`: its gates and wires give it a function of its inputs;
- `CombinationalChip`: `Spec => ImplementsChip`, when `Eval` is that function (`Computed`).

`FunctionComputed` is induction on the rank: of two solutions with the same inputs take a
pin of least rank at which they differ; its level comes from pins at which they agree.
`CombinationalChip` needs one thing `Settled` does not say: that every gate was simulated since the
inputs were set for the first time. Its invariant `Reaching` has this: a frame goes on with what is
queued in it, so whatever the inputs lead to by wires and gates is simulated by the time
the call returns (`Reached`), and in a circuit without a loop that is every gate. So at a return the levels
solve gates and wires. Circuits with a loop may keep what they had before, which is what the
dff of `bit.hdl` is for: `ImplementsChip` of `MCBit` stays with TLC.

**BoardGuiProofs** has the gate and the window. Of the gate alone, for every limit, every set of counts
and every set of shapes (`LimitAssumption`, `CountsAssumption`, `ShapesAssumption`),

- `TypeCorrect`: `Spec => []TypeOK`;
- `DuplicatesAgree`: `Spec => []Coherent`, the recipe leads to the pins the wires join;
- `NumbersApart`: `Spec => []OneNumberEach`.

`Coherent` alone is not inductive: to know where a number leads after a shift one has
to know that inputs stay below the limit (`Room`), which pins the subgates' lists hold and in
which order (`Listed`), and that each recipe entry leads to the pin of its wire (`Followed`).

Of the window, for the same constants and any number of clicks and keys,

- `WindowTyped`: `SessionSpec => []GuiTypeOK`;
- `NumbersShown`: `SessionSpec => []NumberedAsShown`;
- `AlwaysAsDrawn`: `SessionSpec => []WindowWired`;
- `SketchStaysSound`: `SessionSpec => [](Coherent /\ OneNumberEach)`, slips or not.

`WindowInv` adds to the invariant of the sketch that ports and sketch have the
same sizes until an edge is clicked (`Alike`, with the offset of each component as a function of its
place), and that while a wire is drawn the number it was begun with still means its first pin
(`Drawing`): no step that shifts numbers is possible in that mode, without the slips.

**BoardProofs** has the chips that are built in and those of a directory. Of the builtin ones, for all words, addresses,
numbers of bits and arrival orders
(`RamAssumption`, `ClockAssumption`, `PlacementsAssumption`),

- `TypeCorrect`, `AtMostOneWrite`: `Spec => []TypeOK` and `Spec => []WrittenOnce`, of the ram;
- `ImplementsMemory`: the ram implements `AddressedMemory` where the clock comes last;
- `CountsOnEdges`, `CountsOnce`: `ChipsSpec => []RisingEdgeCounts`, `[]IncrementsOnce`;
- `StoresOnEdges`, `StoresAtMostOnce`, `ShowsWhatItHolds`: `[]RisingEdgeStores`, `[]StoresOnce`,
  `[]ShowsData` of the register;
- `MemoriesImplement`: `ChipsSpec => ImplementMemories`, ram and rom.

The orders they need are those of the properties: a counter whose clock comes last, or ahead of what its controls become,
or with all the rest; a register whose clock comes first, and its load last; a ram whose clock
comes last; a rom of which only the address that is read is late. Not all of them are
orders of the scripts. In `scripts/cpu.hdl`:

- the counter gets clock and reset in the first wave and the rest behind them. So it
  does what its controls asked for when the last call returned, which the second part of `RisingEdgeCounts` says, and not what
  those of the call ask for; and a control that changes behind the clock lets it count again in the same
  phase, which is all that `IncrementsOnce` leaves (`IncrementsAgainRearmed`). Nothing drives its load.
- the registers get load and input in turns, and the input again behind the load, from the register's own output: `StoresOnce` and `ShowsData`
  hold there, and `RisingEdgeStores` is not about it.

In `scripts/computer.hdl` the clock of the ram comes behind what the processor says at
first; what the answers of the memory change in turn comes behind the clock, and a second store
is refused (`WrittenOnce`). The rom is as its property wants it.

`WrittenOnce` needs to know why a second store is refused: `Protected` adds that
the memory is `immutable` exactly while the chip's clock pin is up, and that it
has stored in this phase only if that pin and the wire that leads to it are both
up. The pin cannot fall before the wire does, because the clock does not glitch. The
invariants of the others (`CounterInv`, `RegisterInv`, `RomSettled`) follow one call wave by wave: what has arrived for good by the
present wave, what the chip did with it, and, while the clock is awaited, that nothing was
done yet, although handlers have switched off pins they consumed.

Of the directory, for every set of chips and files (`BoardAssumption`), files that
need each other or themselves included,

- `AlwaysFound`: `BoardSpec => []NeedsFound`;
- `AlwaysWired`: `BoardSpec => []LoadedWired`;
- `AlwaysClosed`: the needs and parts of chips on the board are on the board;
- `FailsBeforeCreate`: a call that gives up while its needs are loaded, and every call
  around it, has not yet put its chip on the board;
- `NeverWithinItself`: `BoardSpec => []WellMade`: no chip on the board is made of itself;
- `BoardTyped`: `BoardSpec => []BoardTypeOK`, which also says that the tables parts point to are
  those of images that were made.

The crux is that no call under way creates a chip an outer call is about to create. A call
waits for a need only while its own chip is not on the board (`Waits`): if it were, its needs would be there too
(`Closed`) and there would be nothing to wait for. Calls nest by needs (`Nested`), so this holds of each
of them at once.

A chip comes onto the board when all it needs is there, so none that is there needs it yet:
among any chips of the board one needs none of the others (`WellMade`), and `duplicate`, which goes down
through parts and their parts, ends. For the same reason the recursive function `Reads`, the tables a chip looks up through its
parts, has a solution: the least tables that are enough (`ReadsExist`). `BoardTypeOK` speaks of it,
so its proof needs this first.

**AssemblerProofs**: for every finite set of names, every number of registers and
every program (`AssemblerAssumption`),

- `AlwaysResolved`: `Spec => []ResolvedApart`;
- `AlwaysDistinct`: `Spec => []VariablesDistinct`;
- `LabelsStayApart`: in a program whose labels lie clear of the variables they are never moved.

The invariant `Assigned` says what both maps are after any part of a program: a name that is
no label so far has the rank of its first use among such names, and the inverse has exactly those, the labels' places and
what the last one taken out has left. When a label takes a name out, the ranks behind it go down by one, just as
the code moves them. A label to come may still take names out, hence the whole invariant is about
the source so far. Labels lying apart (`Apart`) is a condition of the properties, not an assumption.

**JackOSProofs**, memory: for every heap and all sizes asked for (`HeapAssumption`),

- `AlwaysPartitioned`: `OSSpec => []Partitioned`;
- `LengthsAlwaysKept`: `OSSpec => []LengthsKept`;
- `OverlapOnlyWhenTight`: `OSSpec => [](~tight => Disjoint)`: the overlap the violation run shows
  comes from splitting without room and from nothing else.

`Partitioned` says nothing of the links between free blocks, which decide what is handed out. The invariant
has, while no tight split happened, a free list as a function `c` of `0 .. n` without repetition that follows
the `next` words, a search that stands somewhere on it with the block before, and a tiling: blocks on the list and blocks in use
have lengths that cover the heap without overlap.

Math: for words of every even number of bits, 16 among them (`MathAssumption`, which also says that `And` is the bitwise
and, for its use with powers of two), and all arguments,

- `AlwaysCalculated`: `OSSpec => []Calculated`;
- `DivisionEnds`: `OSSpec => []DivideEnds`.

`Calculated` is about what a function returns; the invariant `MathInv` is about its loop. `Multiplying`: the sum is
`x` times the bits of `y` looked at, in words (`OneBitMore` adds a bit; sums and products may be taken in words first,
`RemainderPlus`; and `BitMeans`: the test of a bit with a signed comparison finds the sign bit too). `Dividing`: the calls that wait
have the divisor doubled once, twice, ..., and, when the dividend is not negative, none of them is larger than the
dividend; so nothing has wrapped around when a call compares (`NoneWrapped`) and the one that first
exceeds the dividend, even as the bit pattern of a negative word, is found to. For a
negative dividend only the depth is kept: the calls end, at the latest when the doubled divisor has
become zero as a word, which is greater than the dividend. `Rooting`: the root lies between what was found and that
with all the bits left, and what is tried stays below `2 ^ (WordBits / 2)`, so that a square is a word, perhaps a negative
one, which `Fits` refuses (`FitsMeans`).

**TesterProofs**: for chips with any declarations and buses of any size whose names tell them apart
(`PinLimitAssumption`, `ChipsAssumption`), calls that leave a chip with the pins declared, if they return (`EvalAssumption`), and files of any
length (`SetsAssumption`: a source has numbers without a sign),

- `AlwaysTyped`: `FileSpec => []TypeOK`;
- `AlwaysReadsPlaces`: `FileSpec => []BusReadsItsPlaces`;
- `TestsAlone`: `FileSpec => []VerdictsAlone`;
- `SetAlwaysReads`: `FileSpec => SetReads`.

A member is found twice: by its name among the pins, and as a bus by the number of its first pin. That both
lead to the same places is arithmetic over the declarations: the names of all pins are those of the declarations
joined one after another (`NamesLaid`, `Numbered`), so the pins of a bus are the stretch its number begins
(`BusNumbered`) and no other name falls in it (`NumbersNamed`). Then reading a bus from its highest bit down, by
doubling, gives the sum of its places (`BothOrders`), and what `set_pinvec` writes is read back (`BitsRead`). With
`TypeOK`, which is inductive, `BusReadsItsPlaces` and `SetReads` follow of a state and a step. `VerdictsAlone` is about the end of a
test; its invariant `Following` says that within it (`Lockstep`) the two interpreters have the same variables
and flags unless there was an error before, in which case the flag of the first is up. Of the
statements only `REQUIRE` asks for a flag, the error: with none before the test the two take the same branch, and with one the first
interpreter skips the requirement, but its verdict is failed whatever the variables are, and whether the second
got as far or not.

**HdlCompilerProofs**: for every source, every declaration and linkage it may have and all chips it may use
(`PinLimitAssumption`; `ChipsAssumption`: the names of a chip's pins tell them apart; `SourceAssumption`: widths
are numbers, names are sequences),

- `HdlTyped`: `Spec => []TypeOK`, of sources with errors too;
- `HdlNumbers`: `Spec => []NumberedAsBuilt`;
- `HdlNoShorts`: `Spec => []NoShorts`;
- `HdlDelivers`: `Spec => []Delivered`;
- `HdlMetaNumbers`: `Spec => []MetaNumbers`;
- `AlwaysInOrder`: `Spec => []IInv`, the invariant they follow from.

None of the four is inductive: a wire is made at the end, from a name and a number that were remembered when the pins
of the chip were not all there. The invariant `InOrder` is about sources that are orderly and without an error so far.
`PinsCounted`: the two offsets are the pins that chip and parts have so far, as `get_pin` will count them (`Place`),
without those of the part being read; since the chip is declared first and parts come behind parts, a number
that means a pin goes on meaning it (`PlacesStay`). `Named`: a signal's number is that of a pin the
source joins to it (`KnownBy`), a linkage has the number of a pin of a part, and its direction (`LinkedBy`), and a signal
stands for the pin that mentioned it first, to which every later one is linked (`ToldBy`). The
last has an exception, the signal that is first mentioned alone and later as a part of a bus, for the bus takes its name: hence
the last condition of `Plain`. `NamesKept` shows that these three are kept by a step that makes new
names known (`Fresh`) or links known ones (`Later`), whichever statement it is. `Buses`: the places of a known bus are
known. `OwnNames` and `OwnBuses` are what the meta file has. At the end of the source each linkage is a wire
(`AllWired`), which joins the pin that mentions a signal with the first (`WiredToFirst`), and from there
`CarriedToReaders` finds the way from a driver to a reader: at most two wires, over an output of the chip when that was first.

**NatInduction** has induction, recursion and sequences joined one after another as the lemmas above need them,
stated of sets and functions instead of predicates: the provers here
cannot instantiate the library's theorems that take an operator.

What stays with TLC:

- liveness (`Returns`, `ReturnsUnlessRacing`, `LoadEnds`, `AllocReturns`, `JackRuns`), which the prover
  does not do under fairness;
- the register of `bit.hdl`, a circuit with a loop (`RaceNeverReturns`, `ImplementsChip`);
- `ImplementsMachine`, the translated programs: a step is an instruction of a program that an operator of
  the translator wrote, and the programs are given one by one;
- the Jack compiler, which is recursive throughout.

## What is not modelled

- **Emulated VM**: its interpreter has the pushes alone (`src/lang/vm/emulated_vm.hpp:319` on
  are empty), nothing runs it, and the symbols it numbers are only printed.
- **Emulator shell**: the CPU thread is the loop `JackRuns` assumes; the window thread reads the memory
  without a lock to draw it and changes nothing. After the window is closed `run` waits for a
  loop that has no exit (`src/emulator/compilation_context.hpp:125`).
- **Scanners, trie**: character by character work on single tokens; no state that
  outlives a token but the position. Searching names is one walk of a tree per query.
- **The 16-bit multiplexer**: stateless; a precomputed gate of `Propagation` stands for it.
- **Screen, output, system of the Jack OS**: they draw on a device nothing else
  reads.
- **Printing, logging, timing, the window's widgets and the signals it shows**: no property is about them.
- Within modelled components: circuits that have builtin chips among their gates (`Propagation` has the circuits,
  `ClockedChips` the chips, by the waves in which a circuit reaches them), chips with a capital letter in their name, files in another order than the HDL compiler
  writes them (nested saves), needs that form a cycle, source that the Jack
  compiler, the VM translator or the assembler reports an error for, syntax errors beyond their being
  reported, stores outside the emulator's memory, the stack operations of
  `Computer` that nothing calls, the XML the Jack compiler writes, and the belt of the window.

## Plan

Done, in this order, the most central behaviour first: propagation and its
proofs; the clocked chips; assembler; heap; the Hack tool chain; math;
pins and recipes with their proofs; the board; the HDL compiler; the test
interpreter; the Jack compiler with the whole tool chain below it; the window.

Of the invariants the runs check, all are theorems but `RaceNeverReturns`, which is about the one circuit
of MCBit. What is left to prove are the refinements of particular instances: `ImplementsChip` of a circuit with a loop,
which needs a condition on loops that the dff of `bit.hdl` meets, and `ImplementsMachine` command by command, which
needs what the translator's operators write stated without the programs.
