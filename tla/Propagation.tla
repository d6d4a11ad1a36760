------------------------------ MODULE Propagation ------------------------------
(***************************************************************************)
(* Signal propagation through a circuit: Gate::simulate and                *)
(* Gate::handle_custom_type.  A call explores the wires breadth first,     *)
(* wave by wave: the wires leaving the pins of the current wave are        *)
(* copied, the gates they reach are simulated, and the output pins of      *)
(* those gates are the next wave.  A subgate that is itself a composite    *)
(* gate is simulated by a nested call with a copy of the visited set, so   *)
(* the state of the computation is a stack of frames.                      *)
(*                                                                         *)
(* A subgate's output pin carries the wires of the enclosing gate as well, *)
(* and an output pin has no parent: the nested call follows them and may   *)
(* simulate the siblings of the gate it was called for, and even that gate *)
(* again.                                                                  *)
(***************************************************************************)
EXTENDS Integers, Sequences

CONSTANTS
  Gate,         \* the gate objects of the circuit, at every nesting level
  Root,         \* the gate simulate() is called on
  NoGate,       \* the null parent of a pin
  Pin,          \* the pin objects
  Kind,         \* gate -> "NAND", "DFF", "SERIALIZED" or "CUSTOM"
  InPins,       \* gate -> sequence of its input pins
  OutPins,      \* gate -> sequence of its output pins
  Parent,       \* pin -> the gate its parent pointer names
  Connections,  \* pin -> the pins its wires lead to, in construction order
  Table,        \* serialized gate -> its precomputed outputs, per input vector
  Eval          \* what the circuit is for: <<inputs, previous outputs>> -> outputs

\* The handlers of these kinds write output pins only.  The clocked chips of src/builtin keep
\* fields and switch off pins of their own: ClockedChips has them, and no circuit here.
Kinds == {"NAND", "DFF", "SERIALIZED", "CUSTOM"}

Ins(g)  == {InPins[g][i] : i \in DOMAIN InPins[g]}
Outs(g) == {OutPins[g][i] : i \in DOMAIN OutPins[g]}

\* The pins and gates a Board can build: a gate constructor gives its input
\* pins a parent and its output pins none; the root's input pins may have none
\* (Gate::add_input_pin); a serialized copy has no inner wires.
ASSUME GateAssumption ==
  /\ Root \in Gate
  /\ NoGate \notin Gate
  /\ Kind \in [Gate -> Kinds]
  /\ Kind[Root] = "CUSTOM"
  /\ InPins \in [Gate -> Seq(Pin)]
  /\ OutPins \in [Gate -> Seq(Pin)]
  /\ \A g \in Gate : Kind[g] \in {"NAND", "DFF"} =>
       /\ Len(InPins[g]) = 2
       /\ Len(OutPins[g]) = 1
  /\ \A g \in Gate : Kind[g] = "SERIALIZED" =>
       Table[g] \in [[1 .. Len(InPins[g]) -> BOOLEAN] ->
                     [1 .. Len(OutPins[g]) -> BOOLEAN]]

ASSUME PinAssumption ==
  /\ Parent \in [Pin -> Gate \cup {NoGate}]
  /\ \A g \in Gate \ {Root}, p \in Pin : p \in Ins(g) => Parent[p] = g
  /\ \A g \in Gate, p \in Pin : p \in Outs(g) => Parent[p] = NoGate
  /\ \A g, h \in Gate : g # h => Ins(g) \cap Ins(h) = {} /\ Outs(g) \cap Outs(h) = {}
  /\ \A g, h \in Gate : Ins(g) \cap Outs(h) = {}
  /\ \A g \in Gate : \A i, j \in DOMAIN OutPins[g] :
       OutPins[g][i] = OutPins[g][j] => i = j

\* A wire ends at an input pin of a subgate or at an output pin of a composite
\* gate, no pin is driven by two pins, and no wire leaves an input pin of a
\* gate that has no inner wires.
ASSUME WireAssumption ==
  /\ Connections \in [Pin -> Seq(Pin)]
  /\ \A p \in Pin : \A i \in DOMAIN Connections[p] :
       \E g \in Gate : \/ g # Root /\ Connections[p][i] \in Ins(g)
                       \/ Kind[g] = "CUSTOM" /\ Connections[p][i] \in Outs(g)
  /\ \A p, q \in Pin : \A i \in DOMAIN Connections[p], j \in DOMAIN Connections[q] :
       Connections[p][i] = Connections[q][j] => p = q
  /\ \A g \in Gate, p \in Pin :
       Kind[g] # "CUSTOM" /\ p \in Ins(g) => Connections[p] = <<>>

VARIABLES
  level,   \* pin -> is its state ACTIVE
  stack,   \* the frames of the calls of handle_custom_type under way
  before,  \* history: the levels when the call on the root was made
  fired    \* history: the gates simulated at least once

vars == <<level, stack, before, fired>>

\* The local variables of one call.  The copies of pins in exploring and
\* to_explore are used for their connections only, so a pin stands for them.
Frame == [gate       : Gate,
          visited    : SUBSET Gate,
          exploring  : Seq(Pin),
          conn       : Nat \ {0},   \* next connection of the pin at the head
          gates      : Seq(Gate),
          to_explore : Seq(Pin)]

TypeOK ==
  /\ level \in [Pin -> BOOLEAN]
  /\ stack \in Seq(Frame)
  /\ before \in [Pin -> BOOLEAN]
  /\ fired \in SUBSET Gate

Idle == stack = <<>>

Top == stack[Len(stack)]

SetTop(f) == stack' = [stack EXCEPT ![Len(stack)] = f]

NewFrame(g, visited) ==
  [gate |-> g, visited |-> visited \cup {g}, exploring |-> InPins[g],
   conn |-> 1, gates |-> <<>>, to_explore |-> <<>>]

Init ==
  /\ level = [p \in Pin |-> FALSE]
  /\ stack = <<>>
  /\ before = level
  /\ fired = {}

-----------------------------------------------------------------------------
\* The caller sets the input pins of the root and simulates it.
Simulate(v) ==
  /\ Idle
  /\ level' = [p \in Pin |-> IF p \in Ins(Root) THEN v[p] ELSE level[p]]
  /\ before' = level
  /\ stack' = <<NewFrame(Root, {})>>
  /\ fired' = fired \cup {Root}

Exploring == ~Idle /\ Top.exploring # <<>>

Source == Head(Top.exploring)

Target == Connections[Source][Top.conn]

\* Mutant: a changed input leaves its gate visited.
VisitedAfterNoErase == Top.visited

\* A changed input makes a visited gate eligible again.
VisitedAfter ==
  IF level[Target] # level[Source] THEN Top.visited \ {Parent[Target]}
                                   ELSE Top.visited

\* Mutant: only a changed input queues its gate.
ExploreWireChanged ==
  /\ Exploring
  /\ Top.conn \in DOMAIN Connections[Source]
  /\ level' = [level EXCEPT ![Target] = level[Source]]
  /\ SetTop([Top EXCEPT
       !.conn      = @ + 1,
       !.visited   = VisitedAfter,
       !.exploring = IF Parent[Target] = NoGate THEN Append(@, Target) ELSE @,
       !.gates     = IF /\ Parent[Target] \in Gate \ VisitedAfter
                        /\ level[Target] # level[Source]
                       THEN Append(@, Parent[Target]) ELSE @])
  /\ UNCHANGED <<before, fired>>

\* Copy one wire; go on through a pin without parent, queue a parent not visited.
ExploreWire ==
  /\ Exploring
  /\ Top.conn \in DOMAIN Connections[Source]
  /\ level' = [level EXCEPT ![Target] = level[Source]]
  /\ SetTop([Top EXCEPT
       !.conn      = @ + 1,
       !.visited   = VisitedAfter,
       !.exploring = IF Parent[Target] = NoGate THEN Append(@, Target) ELSE @,
       !.gates     = IF Parent[Target] \in Gate \ VisitedAfter
                       THEN Append(@, Parent[Target]) ELSE @])
  /\ UNCHANGED <<before, fired>>

\* Mutant: connections counted from zero after the first pin.
NextPinFromZero ==
  /\ Exploring
  /\ Top.conn \notin DOMAIN Connections[Source]
  /\ SetTop([Top EXCEPT !.exploring = Tail(@), !.conn = 0])
  /\ UNCHANGED <<level, before, fired>>

NextPin ==
  /\ Exploring
  /\ Top.conn \notin DOMAIN Connections[Source]
  /\ SetTop([Top EXCEPT !.exploring = Tail(@), !.conn = 1])
  /\ UNCHANGED <<level, before, fired>>

Visiting == ~Idle /\ Top.exploring = <<>> /\ Top.gates # <<>>

SkipGate ==
  /\ Visiting
  /\ Head(Top.gates) \in Top.visited
  /\ SetTop([Top EXCEPT !.gates = Tail(@)])
  /\ UNCHANGED <<level, before, fired>>

InputVector(g) == [i \in 1 .. Len(InPins[g]) |-> level[InPins[g][i]]]

\* Mutant: the dff is transparent whatever its clock.
OutputUnclocked(g, i) ==
  CASE Kind[g] = "NAND" -> ~(level[InPins[g][1]] /\ level[InPins[g][2]])
    [] Kind[g] = "DFF"  -> level[InPins[g][1]]
    [] OTHER            -> Table[g][InputVector(g)][i]

\* handle_nand, handle_dff and simulate_serialized: output pin i of gate g.
Output(g, i) ==
  CASE Kind[g] = "NAND" -> ~(level[InPins[g][1]] /\ level[InPins[g][2]])
    [] Kind[g] = "DFF"  -> IF level[InPins[g][2]] THEN level[InPins[g][1]]
                                                  ELSE level[OutPins[g][1]]
    [] OTHER            -> Table[g][InputVector(g)][i]

Fire(g) ==
  [p \in Pin |-> IF p \in Outs(g)
                   THEN Output(g, CHOOSE i \in DOMAIN OutPins[g] : OutPins[g][i] = p)
                   ELSE level[p]]

\* Simulate a queued gate that is not composite.
FireGate ==
  /\ Visiting
  /\ LET g == Head(Top.gates)
     IN  /\ g \notin Top.visited
         /\ Kind[g] # "CUSTOM"
         /\ level' = Fire(g)
         /\ SetTop([Top EXCEPT !.visited = @ \cup {g}, !.gates = Tail(@),
                               !.to_explore = @ \o OutPins[g]])
         /\ fired' = fired \cup {g}
  /\ UNCHANGED before

\* Simulate a queued composite gate: a nested call, with a copy of visited.
EnterGate ==
  /\ Visiting
  /\ LET g == Head(Top.gates)
         f == [Top EXCEPT !.visited = @ \cup {g}, !.gates = Tail(@)]
     IN  /\ g \notin Top.visited
         /\ Kind[g] = "CUSTOM"
         /\ stack' = Append([stack EXCEPT ![Len(stack)] = f], NewFrame(g, f.visited))
         /\ fired' = fired \cup {g}
  /\ UNCHANGED <<level, before>>

WaveDone == ~Idle /\ Top.exploring = <<>> /\ Top.gates = <<>>

\* Mutant: to_explore is copied, not moved.
NextWaveCopies ==
  /\ WaveDone
  /\ Top.to_explore # <<>>
  /\ SetTop([Top EXCEPT !.exploring = Top.to_explore, !.conn = 1])
  /\ UNCHANGED <<level, before, fired>>

NextWave ==
  /\ WaveDone
  /\ Top.to_explore # <<>>
  /\ SetTop([Top EXCEPT !.exploring = Top.to_explore, !.conn = 1,
                        !.to_explore = <<>>])
  /\ UNCHANGED <<level, before, fired>>

\* The caller explores the output pins of the gate it simulated.
Return ==
  /\ WaveDone
  /\ Top.to_explore = <<>>
  /\ LET n == Len(stack) - 1
     IN  stack' = [k \in 1 .. n |->
                     IF k = n
                       THEN [stack[k] EXCEPT !.to_explore = @ \o OutPins[Top.gate]]
                       ELSE stack[k]]
  /\ UNCHANGED <<level, before, fired>>

Step == \/ ExploreWire \/ NextPin
        \/ SkipGate \/ FireGate \/ EnterGate
        \/ NextWave \/ Return

Next == Step \/ \E v \in [Ins(Root) -> BOOLEAN] : Simulate(v)

Spec == Init /\ [][Next]_vars

\* A call runs until it returns; nobody has to make another one.
FairSpec == Spec /\ WF_vars(Step)

-----------------------------------------------------------------------------
\* The outputs of a gate that is not composite agree with its inputs.
Consistent(g) ==
  CASE Kind[g] = "NAND" ->
         level[OutPins[g][1]] = ~(level[InPins[g][1]] /\ level[InPins[g][2]])
    [] Kind[g] = "DFF" ->
         level[InPins[g][2]] => level[OutPins[g][1]] = level[InPins[g][1]]
    [] Kind[g] = "SERIALIZED" ->
         \A i \in DOMAIN OutPins[g] :
           level[OutPins[g][i]] = Table[g][InputVector(g)][i]
    [] OTHER -> TRUE

\* When simulate() has returned, both ends of every wire are at the same level
\* and every gate that was ever simulated agrees with its inputs: no change of
\* a pin is forgotten by the visited set, whatever the shape of the circuit
\* (Gate::handle_custom_type, the erase of a changed gate at gate.cpp:79-84).
Settled ==
  Idle => /\ \A p \in Pin : \A i \in DOMAIN Connections[p] :
               level[Connections[p][i]] = level[p]
          /\ \A g \in fired : Consistent(g)

\* Frame f will still copy the i-th wire of pin p: p waits in one of its queues,
\* or p is an input pin of a composite gate it will simulate.
PendingIn(f, p, i) ==
  \/ \E j \in DOMAIN f.exploring : f.exploring[j] = p /\ (j = 1 => i >= f.conn)
  \/ \E j \in DOMAIN f.to_explore : f.to_explore[j] = p
  \/ \E j \in DOMAIN f.gates : /\ f.gates[j] \notin f.visited
                               /\ Kind[f.gates[j]] = "CUSTOM"
                               /\ p \in Ins(f.gates[j])

\* Frame f will still simulate gate g.
QueuedIn(f, g) == \E j \in DOMAIN f.gates : f.gates[j] = g /\ g \notin f.visited

Pending(p, i) == \E k \in DOMAIN stack : PendingIn(stack[k], p, i)
Queued(g)     == \E k \in DOMAIN stack : QueuedIn(stack[k], g)

WiresTracked ==
  \A p \in Pin : \A i \in DOMAIN Connections[p] :
    level[Connections[p][i]] = level[p] \/ Pending(p, i)

GatesTracked == \A g \in fired : Consistent(g) \/ Queued(g)

\* At every step of a call, a wire whose ends differ is in some frame's queues and
\* a gate that disagrees with its inputs is queued and not marked visited there:
\* the by-value visited sets and queues of the nested calls together lose nothing
\* (gate.cpp:53-110).
NothingLost == WiresTracked /\ GatesTracked

\* Every call of simulate() returns.
Returns == ~Idle ~> Idle

-----------------------------------------------------------------------------
\* The levels a caller sees: those of the last time simulate() was not running.
Seen == IF Idle THEN level ELSE before

Chip == INSTANCE AtomicChip
          WITH Inputs <- Ins(Root), Outputs <- Outs(Root),
               inp <- [p \in Ins(Root) |-> Seen[p]],
               out <- [p \in Outs(Root) |-> Seen[p]]

\* To its caller a circuit is a chip that does what it is for in one step: no glitch, stale
\* input or skipped gate shows in the outputs when simulate() returns, however the waves
\* go through its parts and theirs (Gate::handle_custom_type).
ImplementsChip == Chip!Spec

\* A circuit without dffs and without a loop: levels go from lower ranks to higher ones,
\* and every pin gets its level from a pin or a gate, or is an input of the root.
Combinational(rank) ==
  /\ rank \in [Pin -> Nat]
  /\ \A p \in Pin : \A i \in DOMAIN Connections[p] : rank[p] < rank[Connections[p][i]]
  /\ \A g \in Gate : Kind[g] # "CUSTOM" =>
       /\ Kind[g] # "DFF"
       /\ Ins(g) # {}
       /\ \A p \in Ins(g), q \in Outs(g) : rank[p] < rank[q]
  /\ \A q \in Pin : \/ q \in Ins(Root)
                    \/ \E g \in Gate : Kind[g] # "CUSTOM" /\ q \in Outs(g)
                    \/ \E p \in Pin : \E i \in DOMAIN Connections[p] : q = Connections[p][i]
=============================================================================
