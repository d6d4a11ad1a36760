--------------------------- MODULE PropagationProofs ---------------------------
(***************************************************************************)
(* For every circuit of nands, dffs, precomputed and composite gates that  *)
(* meets the assumptions of Propagation, cyclic or not, nested or not:     *)
(* whenever simulate() has returned, the circuit is settled.               *)
(***************************************************************************)
EXTENDS Propagation, NatInduction

USE DEF Idle, Exploring, Visiting, WaveDone, Source, Target

-----------------------------------------------------------------------------
(***************************************************************************)
(* Type correctness.                                                       *)
(***************************************************************************)
LEMMA NewFrameType ==
  ASSUME NEW g \in Gate, NEW V \in SUBSET Gate
  PROVE  NewFrame(g, V) \in Frame
BY GateAssumption DEF NewFrame, Frame

LEMMA TopType ==
  ASSUME TypeOK, ~Idle
  PROVE  /\ Len(stack) \in Nat \ {0}
         /\ Len(stack) \in DOMAIN stack
         /\ Top \in Frame
BY DEF TypeOK, Top

LEMMA SetTopType ==
  ASSUME TypeOK, ~Idle, NEW f \in Frame, SetTop(f)
  PROVE  stack' \in Seq(Frame)
BY TopType DEF TypeOK, SetTop

LEMMA WireType ==
  ASSUME TypeOK, Exploring, Top.conn \in DOMAIN Connections[Source]
  PROVE  /\ Source \in Pin
         /\ Target \in Pin
         /\ Parent[Target] \in Gate \cup {NoGate}
         /\ VisitedAfter \in SUBSET Gate
<1>1. Top \in Frame
  BY TopType
<1>2. Source \in Pin
  BY <1>1 DEF Frame
<1>3. Target \in Pin
  BY <1>2, WireAssumption
<1>4. VisitedAfter \in SUBSET Gate
  BY <1>1 DEF VisitedAfter, Frame
<1>. QED
  BY <1>2, <1>3, <1>4, PinAssumption

LEMMA OutputType ==
  ASSUME TypeOK, NEW g \in Gate, Kind[g] # "CUSTOM", NEW i \in DOMAIN OutPins[g]
  PROVE  Output(g, i) \in BOOLEAN
<1>1. CASE Kind[g] = "NAND"
  BY <1>1 DEF Output
<1>2. CASE Kind[g] = "DFF"
  <2>1. /\ InPins[g] \in Seq(Pin) /\ OutPins[g] \in Seq(Pin)
        /\ Len(InPins[g]) = 2 /\ Len(OutPins[g]) = 1
    BY <1>2, GateAssumption
  <2>2. InPins[g][1] \in Pin /\ OutPins[g][1] \in Pin
    BY <2>1
  <2>3. level[InPins[g][1]] \in BOOLEAN /\ level[OutPins[g][1]] \in BOOLEAN
    BY <2>2 DEF TypeOK
  <2>. QED
    BY <1>2, <2>3 DEF Output
<1>3. CASE Kind[g] = "SERIALIZED"
  <2>1. /\ InPins[g] \in Seq(Pin) /\ OutPins[g] \in Seq(Pin)
        /\ Table[g] \in [[1 .. Len(InPins[g]) -> BOOLEAN] ->
                         [1 .. Len(OutPins[g]) -> BOOLEAN]]
    BY <1>3, GateAssumption
  <2>2. \A j \in 1 .. Len(InPins[g]) : level[InPins[g][j]] \in BOOLEAN
    BY <2>1 DEF TypeOK
  <2>3. InputVector(g) \in [1 .. Len(InPins[g]) -> BOOLEAN]
    BY <2>2 DEF InputVector
  <2>4. Table[g][InputVector(g)] \in [1 .. Len(OutPins[g]) -> BOOLEAN]
    BY <2>1, <2>3
  <2>5. i \in 1 .. Len(OutPins[g])
    BY <2>1
  <2>. QED
    BY <1>3, <2>4, <2>5 DEF Output
<1>. QED
  BY <1>1, <1>2, <1>3, GateAssumption DEF Kinds

LEMMA FireType ==
  ASSUME TypeOK, NEW g \in Gate, Kind[g] # "CUSTOM"
  PROVE  Fire(g) \in [Pin -> BOOLEAN]
<1>1. ASSUME NEW p \in Pin, p \in Outs(g)
      PROVE  (CHOOSE i \in DOMAIN OutPins[g] : OutPins[g][i] = p) \in DOMAIN OutPins[g]
  BY <1>1 DEF Outs
<1>2. ASSUME NEW p \in Pin
      PROVE  (IF p \in Outs(g)
                THEN Output(g, CHOOSE i \in DOMAIN OutPins[g] : OutPins[g][i] = p)
                ELSE level[p]) \in BOOLEAN
  <2>1. CASE p \in Outs(g)
    BY <2>1, <1>1, OutputType
  <2>2. CASE p \notin Outs(g)
    BY <2>2 DEF TypeOK
  <2>. QED
    BY <2>1, <2>2
<1>. QED
  BY <1>2 DEF Fire

LEMMA TypeStep ==
  ASSUME TypeOK, [Next]_vars
  PROVE  TypeOK'
<1>1. ASSUME NEW v \in [Ins(Root) -> BOOLEAN], Simulate(v)
      PROVE  TypeOK'
  <2>1. NewFrame(Root, {}) \in Frame
    BY NewFrameType, GateAssumption
  <2>2. stack' \in Seq(Frame)
    BY <1>1, <2>1 DEF Simulate
  <2>3. level' \in [Pin -> BOOLEAN]
    BY <1>1 DEF Simulate, TypeOK
  <2>. QED
    BY <1>1, <2>2, <2>3, GateAssumption DEF Simulate, TypeOK
<1>2. CASE ExploreWire
  <2>1. Top \in Frame /\ ~Idle
    BY <1>2, TopType DEF ExploreWire
  <2>2. /\ Source \in Pin /\ Target \in Pin
        /\ Parent[Target] \in Gate \cup {NoGate}
        /\ VisitedAfter \in SUBSET Gate
    BY <1>2, WireType DEF ExploreWire
  <2>3. [Top EXCEPT !.conn = @ + 1,
                    !.visited = VisitedAfter,
                    !.exploring = IF Parent[Target] = NoGate THEN Append(@, Target) ELSE @,
                    !.gates = IF Parent[Target] \in Gate \ VisitedAfter
                                THEN Append(@, Parent[Target]) ELSE @] \in Frame
    <3>1. Top.conn + 1 \in Nat \ {0}
      BY <2>1 DEF Frame
    <3>2. (IF Parent[Target] = NoGate THEN Append(Top.exploring, Target)
                                      ELSE Top.exploring) \in Seq(Pin)
      BY <2>1, <2>2 DEF Frame
    <3>3. (IF Parent[Target] \in Gate \ VisitedAfter
             THEN Append(Top.gates, Parent[Target]) ELSE Top.gates) \in Seq(Gate)
      BY <2>1, <2>2 DEF Frame
    <3>. QED
      BY <2>1, <2>2, <3>1, <3>2, <3>3 DEF Frame
  <2>4. stack' \in Seq(Frame)
    BY <1>2, <2>1, <2>3, SetTopType DEF ExploreWire
  <2>5. level' \in [Pin -> BOOLEAN]
    BY <1>2, <2>2 DEF ExploreWire, TypeOK
  <2>. QED
    BY <1>2, <2>4, <2>5 DEF ExploreWire, TypeOK
<1>3. CASE NextPin
  <2>1. Top \in Frame /\ ~Idle
    BY <1>3, TopType DEF NextPin
  <2>2. [Top EXCEPT !.exploring = Tail(@), !.conn = 1] \in Frame
    <3>1. Tail(Top.exploring) \in Seq(Pin) /\ 1 \in Nat \ {0}
      BY <1>3, <2>1 DEF Frame, NextPin
    <3>. QED
      BY <2>1, <3>1 DEF Frame
  <2>3. stack' \in Seq(Frame)
    BY <1>3, <2>1, <2>2, SetTopType DEF NextPin
  <2>. QED
    BY <1>3, <2>3 DEF NextPin, TypeOK
<1>4. CASE SkipGate
  <2>1. Top \in Frame /\ ~Idle
    BY <1>4, TopType DEF SkipGate
  <2>2. [Top EXCEPT !.gates = Tail(@)] \in Frame
    <3>1. Tail(Top.gates) \in Seq(Gate)
      BY <1>4, <2>1 DEF Frame, SkipGate
    <3>. QED
      BY <2>1, <3>1 DEF Frame
  <2>3. stack' \in Seq(Frame)
    BY <1>4, <2>1, <2>2, SetTopType DEF SkipGate
  <2>. QED
    BY <1>4, <2>3 DEF SkipGate, TypeOK
<1>5. CASE FireGate
  <2>. DEFINE g == Head(Top.gates)
  <2>1. Top \in Frame /\ ~Idle
    BY <1>5, TopType DEF FireGate
  <2>2. g \in Gate
    BY <1>5, <2>1 DEF Frame, FireGate
  <2>3. OutPins[g] \in Seq(Pin)
    BY <2>2, GateAssumption
  <2>4. [Top EXCEPT !.visited = @ \cup {g}, !.gates = Tail(@),
                    !.to_explore = @ \o OutPins[g]] \in Frame
    <3>1. /\ Top.visited \cup {g} \in SUBSET Gate
          /\ Tail(Top.gates) \in Seq(Gate)
          /\ Top.to_explore \o OutPins[g] \in Seq(Pin)
      BY <1>5, <2>1, <2>2, <2>3 DEF Frame, FireGate
    <3>. QED
      BY <2>1, <3>1 DEF Frame
  <2>5. stack' \in Seq(Frame)
    BY <1>5, <2>1, <2>4, SetTopType DEF FireGate
  <2>6. level' \in [Pin -> BOOLEAN]
    BY <1>5, <2>2, FireType DEF FireGate
  <2>. QED
    BY <1>5, <2>2, <2>5, <2>6 DEF FireGate, TypeOK
<1>6. CASE EnterGate
  <2>. DEFINE g == Head(Top.gates)
              f == [Top EXCEPT !.visited = @ \cup {g}, !.gates = Tail(@)]
  <2>1. Top \in Frame /\ ~Idle
    BY <1>6, TopType DEF EnterGate
  <2>2. g \in Gate
    BY <1>6, <2>1 DEF Frame, EnterGate
  <2>3. /\ Top.visited \cup {g} \in SUBSET Gate
        /\ Tail(Top.gates) \in Seq(Gate)
    BY <1>6, <2>1, <2>2 DEF Frame, EnterGate
  <2>4. f \in Frame /\ f.visited \in SUBSET Gate
    BY <2>1, <2>3 DEF Frame
  <2>5. NewFrame(g, f.visited) \in Frame
    BY <2>2, <2>4, NewFrameType
  <2>6. [stack EXCEPT ![Len(stack)] = f] \in Seq(Frame)
    BY <2>1, <2>4, TopType DEF TypeOK
  <2>7. stack' = Append([stack EXCEPT ![Len(stack)] = f], NewFrame(g, f.visited))
    BY <1>6 DEF EnterGate
  <2>8. stack' \in Seq(Frame)
    BY <2>5, <2>6, <2>7
  <2>. QED
    BY <1>6, <2>2, <2>8 DEF EnterGate, TypeOK
<1>7. CASE NextWave
  <2>1. Top \in Frame /\ ~Idle
    BY <1>7, TopType DEF NextWave
  <2>2. [Top EXCEPT !.exploring = Top.to_explore, !.conn = 1, !.to_explore = <<>>] \in Frame
    <3>1. Top.to_explore \in Seq(Pin) /\ <<>> \in Seq(Pin) /\ 1 \in Nat \ {0}
      BY <2>1 DEF Frame
    <3>. QED
      BY <2>1, <3>1 DEF Frame
  <2>3. stack' \in Seq(Frame)
    BY <1>7, <2>1, <2>2, SetTopType DEF NextWave
  <2>. QED
    BY <1>7, <2>3 DEF NextWave, TypeOK
<1>8. CASE Return
  <2>1. Top \in Frame /\ ~Idle /\ Len(stack) \in Nat \ {0}
    BY <1>8, TopType DEF Return
  <2>2. OutPins[Top.gate] \in Seq(Pin)
    BY <2>1, GateAssumption DEF Frame
  <2>3. \A k \in 1 .. Len(stack) - 1 : stack[k] \in Frame
    BY <2>1 DEF TypeOK
  <2>4. \A k \in 1 .. Len(stack) - 1 :
          [stack[k] EXCEPT !.to_explore = @ \o OutPins[Top.gate]] \in Frame
    <3>1. ASSUME NEW h \in Frame
          PROVE  [h EXCEPT !.to_explore = @ \o OutPins[Top.gate]] \in Frame
      <4>1. h.to_explore \o OutPins[Top.gate] \in Seq(Pin)
        BY <2>2 DEF Frame
      <4>. QED
        BY <4>1 DEF Frame
    <3>. QED
      BY <2>3, <3>1
  <2>5. Len(stack) - 1 \in Nat
    BY <2>1
  <2>6. stack' \in [1 .. Len(stack) - 1 -> Frame]
    BY <1>8, <2>3, <2>4 DEF Return
  <2>7. stack' \in Seq(Frame)
    BY <2>5, <2>6
  <2>. QED
    BY <1>8, <2>7 DEF Return, TypeOK
<1>9. CASE UNCHANGED vars
  BY <1>9 DEF vars, TypeOK
<1>. QED
  BY <1>1, <1>2, <1>3, <1>4, <1>5, <1>6, <1>7, <1>8, <1>9 DEF Next, Step

\* The frames, queues and visited sets of nested calls keep their types for
\* every circuit (the locals of Gate::handle_custom_type).
THEOREM TypeCorrect == Spec => []TypeOK
<1>1. Init => TypeOK
  BY DEF Init, TypeOK
<1>. QED
  BY <1>1, TypeStep, PTL DEF Spec

-----------------------------------------------------------------------------
(***************************************************************************)
(* The frames, and the gates and wires they are about.                     *)
(***************************************************************************)

\* What SetTop does to the stack.
LEMMA SetTopFrames ==
  ASSUME TypeOK, ~Idle, NEW f \in Frame, SetTop(f)
  PROVE  /\ DOMAIN stack' = DOMAIN stack
         /\ stack'[Len(stack)] = f
         /\ \A k \in DOMAIN stack : k # Len(stack) => stack'[k] = stack[k]
BY TopType DEF TypeOK, SetTop

\* A wire stays pending when the top frame alone changes and keeps it pending.
LEMMA PendingKept ==
  ASSUME TypeOK, ~Idle, NEW f \in Frame, SetTop(f),
         NEW p \in Pin, NEW i \in DOMAIN Connections[p],
         Pending(p, i),
         PendingIn(Top, p, i) => PendingIn(f, p, i)
  PROVE  Pending(p, i)'
<1>1. PICK k \in DOMAIN stack : PendingIn(stack[k], p, i)
  BY DEF Pending
<1>2. PendingIn(stack'[k], p, i)
  <2>1. CASE k = Len(stack)
    BY <1>1, <2>1, SetTopFrames DEF Top
  <2>2. CASE k # Len(stack)
    BY <1>1, <2>2, SetTopFrames
  <2>. QED
    BY <2>1, <2>2
<1>. QED
  BY <1>2, SetTopFrames DEF Pending, PendingIn

LEMMA PendingOnTop ==
  ASSUME TypeOK, ~Idle, NEW f \in Frame, SetTop(f),
         NEW p \in Pin, NEW i \in DOMAIN Connections[p],
         PendingIn(f, p, i)
  PROVE  Pending(p, i)'
BY SetTopFrames, TopType DEF Pending, PendingIn

\* The same for a queued gate.
LEMMA QueuedKept ==
  ASSUME TypeOK, ~Idle, NEW f \in Frame, SetTop(f), NEW g \in Gate,
         Queued(g),
         QueuedIn(Top, g) => QueuedIn(f, g)
  PROVE  Queued(g)'
<1>1. PICK k \in DOMAIN stack : QueuedIn(stack[k], g)
  BY DEF Queued
<1>2. QueuedIn(stack'[k], g)
  <2>1. CASE k = Len(stack)
    BY <1>1, <2>1, SetTopFrames DEF Top
  <2>2. CASE k # Len(stack)
    BY <1>1, <2>2, SetTopFrames
  <2>. QED
    BY <2>1, <2>2
<1>. QED
  BY <1>2, SetTopFrames DEF Queued, QueuedIn

LEMMA QueuedOnTop ==
  ASSUME TypeOK, ~Idle, NEW f \in Frame, SetTop(f), NEW g \in Gate,
         QueuedIn(f, g)
  PROVE  Queued(g)'
BY SetTopFrames, TopType DEF Queued, QueuedIn

\* A gate whose own pins keep their levels stays consistent.
LEMMA ConsistentKept ==
  ASSUME TypeOK, NEW g \in Gate, Consistent(g),
         \A p \in Ins(g) \cup Outs(g) : level'[p] = level[p]
  PROVE  Consistent(g)'
<1>1. /\ InPins[g] \in Seq(Pin) /\ OutPins[g] \in Seq(Pin)
      /\ \A i \in DOMAIN InPins[g] : InPins[g][i] \in Ins(g)
      /\ \A i \in DOMAIN OutPins[g] : OutPins[g][i] \in Outs(g)
  BY GateAssumption DEF Ins, Outs
<1>2. CASE Kind[g] = "NAND" \/ Kind[g] = "DFF"
  <2>1. /\ 1 \in DOMAIN InPins[g] /\ 2 \in DOMAIN InPins[g]
        /\ 1 \in DOMAIN OutPins[g]
    BY <1>1, <1>2, GateAssumption
  <2>2. /\ level'[InPins[g][1]] = level[InPins[g][1]]
        /\ level'[InPins[g][2]] = level[InPins[g][2]]
        /\ level'[OutPins[g][1]] = level[OutPins[g][1]]
    BY <1>1, <2>1
  <2>. QED
    BY <1>2, <2>2 DEF Consistent
<1>3. CASE Kind[g] = "SERIALIZED"
  <2>1. InputVector(g)' = InputVector(g)
    BY <1>1 DEF InputVector
  <2>2. \A i \in DOMAIN OutPins[g] : level'[OutPins[g][i]] = level[OutPins[g][i]]
    BY <1>1
  <2>. QED
    BY <1>3, <2>1, <2>2 DEF Consistent
<1>4. CASE Kind[g] = "CUSTOM"
  BY <1>4 DEF Consistent
<1>. QED
  BY <1>2, <1>3, <1>4, GateAssumption DEF Kinds

\* A wire never ends at an input pin of the root or at an output pin of a gate
\* that is not composite; an input pin it ends at has its gate for parent.
LEMMA TargetOfWire ==
  ASSUME NEW p \in Pin, NEW i \in DOMAIN Connections[p]
  PROVE  /\ Connections[p][i] \in Pin
         /\ Connections[p][i] \notin Ins(Root)
         /\ \A g \in Gate : Connections[p][i] \in Outs(g) => Kind[g] = "CUSTOM"
         /\ \A g \in Gate : Connections[p][i] \in Ins(g) =>
              g # Root /\ Parent[Connections[p][i]] = g
         /\ Parent[Connections[p][i]] # NoGate =>
              /\ Parent[Connections[p][i]] \in Gate
              /\ Connections[p][i] \in Ins(Parent[Connections[p][i]])
<1>. DEFINE q == Connections[p][i]
<1>1. q \in Pin
  BY WireAssumption
<1>2. PICK h \in Gate : \/ h # Root /\ q \in Ins(h)
                        \/ Kind[h] = "CUSTOM" /\ q \in Outs(h)
  BY WireAssumption
<1>3. q \notin Ins(Root)
  BY <1>2, PinAssumption, GateAssumption
<1>4. ASSUME NEW g \in Gate, q \in Outs(g)
      PROVE  Kind[g] = "CUSTOM"
  BY <1>2, <1>4, PinAssumption
<1>5. ASSUME NEW g \in Gate, q \in Ins(g)
      PROVE  g # Root /\ Parent[q] = g
  BY <1>1, <1>3, <1>5, PinAssumption
<1>6. ASSUME Parent[q] # NoGate
      PROVE  Parent[q] \in Gate /\ q \in Ins(Parent[q])
  BY <1>1, <1>2, <1>6, PinAssumption
<1>. QED
  BY <1>1, <1>3, <1>4, <1>5, <1>6

\* A gate that has just been simulated agrees with its inputs.
LEMMA FireConsistent ==
  ASSUME TypeOK, NEW g \in Gate, Kind[g] # "CUSTOM", level' = Fire(g)
  PROVE  Consistent(g)'
<1>1. /\ InPins[g] \in Seq(Pin) /\ OutPins[g] \in Seq(Pin)
      /\ \A i \in DOMAIN InPins[g] : InPins[g][i] \in Pin \ Outs(g)
      /\ \A i \in DOMAIN OutPins[g] : OutPins[g][i] \in Pin /\ OutPins[g][i] \in Outs(g)
  <2>1. InPins[g] \in Seq(Pin) /\ OutPins[g] \in Seq(Pin)
    BY GateAssumption
  <2>2. \A i \in DOMAIN InPins[g] : InPins[g][i] \in Ins(g)
    BY DEF Ins
  <2>3. \A i \in DOMAIN OutPins[g] : OutPins[g][i] \in Outs(g)
    BY DEF Outs
  <2>. QED
    BY <2>1, <2>2, <2>3, PinAssumption
<1>2. \A i \in DOMAIN InPins[g] : level'[InPins[g][i]] = level[InPins[g][i]]
  BY <1>1 DEF Fire
<1>3. ASSUME NEW i \in DOMAIN OutPins[g]
      PROVE  level'[OutPins[g][i]] = Output(g, i)
  <2>1. (CHOOSE j \in DOMAIN OutPins[g] : OutPins[g][j] = OutPins[g][i]) = i
    BY PinAssumption
  <2>. QED
    BY <1>1, <2>1 DEF Fire
<1>4. CASE Kind[g] = "NAND" \/ Kind[g] = "DFF"
  <2>1. 1 \in DOMAIN InPins[g] /\ 2 \in DOMAIN InPins[g] /\ 1 \in DOMAIN OutPins[g]
    BY <1>1, <1>4, GateAssumption
  <2>2. /\ level'[InPins[g][1]] = level[InPins[g][1]]
        /\ level'[InPins[g][2]] = level[InPins[g][2]]
        /\ level'[OutPins[g][1]] = Output(g, 1)
    BY <1>2, <1>3, <2>1
  <2>. QED
    BY <1>4, <2>2 DEF Consistent, Output
<1>5. CASE Kind[g] = "SERIALIZED"
  <2>1. InputVector(g)' = InputVector(g)
    BY <1>1, <1>2 DEF InputVector
  <2>2. \A i \in DOMAIN OutPins[g] : level'[OutPins[g][i]] = Table[g][InputVector(g)][i]
    BY <1>3, <1>5 DEF Output
  <2>. QED
    BY <1>5, <2>1, <2>2 DEF Consistent
<1>. QED
  BY <1>4, <1>5, GateAssumption DEF Kinds

\* Where the elements of a concatenation are.
LEMMA ConcatElements ==
  ASSUME NEW S, NEW a \in Seq(S), NEW b \in Seq(S)
  PROVE  /\ \A j \in DOMAIN a : j \in DOMAIN (a \o b) /\ (a \o b)[j] = a[j]
         /\ \A j \in DOMAIN b : \E m \in DOMAIN (a \o b) : (a \o b)[m] = b[j]
<1>1. \A j \in DOMAIN a : j \in DOMAIN (a \o b) /\ (a \o b)[j] = a[j]
  OBVIOUS
<1>2. ASSUME NEW j \in DOMAIN b
      PROVE  \E m \in DOMAIN (a \o b) : (a \o b)[m] = b[j]
  <2>1. Len(a) + j \in DOMAIN (a \o b) /\ (a \o b)[Len(a) + j] = b[j]
    OBVIOUS
  <2>. QED
    BY <2>1
<1>. QED
  BY <1>1, <1>2

-----------------------------------------------------------------------------
(***************************************************************************)
(* What the frames keep: whatever waits in the queues of some frame goes   *)
(* on waiting there until it is its turn.                                  *)
(***************************************************************************)
StillPending ==
  \A p \in Pin : \A i \in DOMAIN Connections[p] : Pending(p, i) => Pending(p, i)'

\* The wires that leave pins of S wait.
NowPending(S) ==
  \A p \in Pin : \A i \in DOMAIN Connections[p] : p \in S => Pending(p, i)'

NowQueued(G) == \A g \in Gate : g \in G => Queued(g)'

StillQueued(G) == \A g \in Gate : Queued(g) /\ g \notin G => Queued(g)'

\* Only gates that have been simulated are marked.
VisitedFired == \A k \in DOMAIN stack : stack[k].visited \subseteq fired

LEMMA TopKeeps ==
  ASSUME TypeOK, ~Idle, NEW f \in Frame, SetTop(f),
         \A p \in Pin : \A i \in DOMAIN Connections[p] : PendingIn(Top, p, i) => PendingIn(f, p, i)
  PROVE  StillPending
BY PendingKept DEF StillPending

LEMMA TopQueues ==
  ASSUME TypeOK, ~Idle, NEW f \in Frame, SetTop(f), NEW G,
         \A g \in Gate : QueuedIn(Top, g) /\ g \notin G => QueuedIn(f, g)
  PROVE  StillQueued(G)
BY QueuedKept DEF StillQueued

LEMMA TopVisits ==
  ASSUME TypeOK, ~Idle, NEW f \in Frame, SetTop(f), VisitedFired, fired \subseteq fired',
         f.visited \subseteq fired'
  PROVE  VisitedFired'
BY SetTopFrames DEF VisitedFired

\* Nothing waits between two calls; a new call has the inputs of the root to explore.
LEMMA SimulateKeeps ==
  ASSUME TypeOK, NEW v \in [Ins(Root) -> BOOLEAN], Simulate(v)
  PROVE  /\ \A p \in Pin : \A i \in DOMAIN Connections[p] : ~Pending(p, i)
         /\ \A g \in Gate : ~Queued(g)
         /\ NowPending(Ins(Root))
         /\ VisitedFired'
<1>1. /\ stack = <<>> /\ stack' = <<NewFrame(Root, {})>> /\ fired' = fired \cup {Root}
  BY DEF Simulate
<1>2. 1 \in DOMAIN stack' /\ stack'[1] = NewFrame(Root, {}) /\ DOMAIN stack' = {1}
  BY <1>1
<1>3. ASSUME NEW p \in Pin, NEW i \in DOMAIN Connections[p], p \in Ins(Root)
      PROVE  Pending(p, i)'
  <2>1. PICK j \in DOMAIN InPins[Root] : InPins[Root][j] = p
    BY <1>3 DEF Ins
  <2>2. i >= 1
    BY WireAssumption
  <2>3. PendingIn(NewFrame(Root, {}), p, i)
    BY <2>1, <2>2 DEF PendingIn, NewFrame
  <2>. QED
    BY <1>2, <2>3 DEF Pending, PendingIn
<1>4. VisitedFired'
  BY <1>1, <1>2 DEF VisitedFired, NewFrame
<1>. QED
  BY <1>1, <1>3, <1>4 DEF Pending, Queued, NowPending

\* Following a wire leaves what is behind it waiting: the wires of a pin that has no
\* gate, or the gate, unless it is marked visited and its pin has not changed.
LEMMA ExploreWireKeeps ==
  ASSUME TypeOK, ExploreWire
  PROVE  /\ \A p \in Pin : \A i \in DOMAIN Connections[p] :
              Pending(p, i) /\ ~(p = Source /\ i = Top.conn) => Pending(p, i)'
         /\ StillQueued({})
         /\ Parent[Target] = NoGate => NowPending({Target})
         /\ Parent[Target] # NoGate => Parent[Target] \in VisitedAfter \/ NowQueued({Parent[Target]})
         /\ VisitedFired => VisitedFired'
<1>. DEFINE s == Source
            c == Top.conn
            t == Target
<1>1. /\ ~Idle /\ Top \in Frame /\ Top.exploring # <<>>
      /\ fired' = fired
      /\ c \in DOMAIN Connections[s]
      /\ level' = [level EXCEPT ![t] = level[s]]
  BY TopType DEF ExploreWire
<1>2. /\ s \in Pin /\ t \in Pin
      /\ Parent[t] \in Gate \cup {NoGate}
      /\ VisitedAfter \in SUBSET Gate
  BY <1>1, WireType
<1>3. \E h \in Frame :
        /\ SetTop(h)
        /\ h.conn = c + 1
        /\ h.visited = VisitedAfter
        /\ h.exploring = IF Parent[t] = NoGate THEN Append(Top.exploring, t)
                                               ELSE Top.exploring
        /\ h.gates = IF Parent[t] \in Gate \ VisitedAfter
                       THEN Append(Top.gates, Parent[t]) ELSE Top.gates
        /\ h.to_explore = Top.to_explore
  <2>. DEFINE E == IF Parent[t] = NoGate THEN Append(Top.exploring, t)
                                         ELSE Top.exploring
              G == IF Parent[t] \in Gate \ VisitedAfter
                     THEN Append(Top.gates, Parent[t]) ELSE Top.gates
              h == [Top EXCEPT !.conn = c + 1, !.visited = VisitedAfter,
                               !.exploring = E, !.gates = G]
  <2>1. SetTop(h)
    BY DEF ExploreWire
  <2>2. c + 1 \in Nat \ {0} /\ E \in Seq(Pin) /\ G \in Seq(Gate)
    BY <1>1, <1>2 DEF Frame
  <2>3. VisitedAfter \in SUBSET Gate
    BY <1>2
  <2>. HIDE DEF E, G
  <2>4. /\ h \in Frame
        /\ h.conn = c + 1 /\ h.visited = VisitedAfter
        /\ h.exploring = E /\ h.gates = G /\ h.to_explore = Top.to_explore
    BY <1>1, <2>2, <2>3 DEF Frame
  <2>. HIDE DEF h
  <2>. QED
    BY <2>1, <2>4 DEF E, G
<1>4. PICK f \in Frame :
        /\ SetTop(f)
        /\ f.conn = c + 1
        /\ f.visited = VisitedAfter
        /\ f.exploring = IF Parent[t] = NoGate THEN Append(Top.exploring, t)
                                               ELSE Top.exploring
        /\ f.gates = IF Parent[t] \in Gate \ VisitedAfter
                       THEN Append(Top.gates, Parent[t]) ELSE Top.gates
        /\ f.to_explore = Top.to_explore
  BY <1>3
<1>5. VisitedAfter \subseteq Top.visited
  BY DEF VisitedAfter
<1>6. ASSUME NEW g \in Gate, QueuedIn(Top, g)
      PROVE  QueuedIn(f, g)
  <2>1. PICK j \in DOMAIN Top.gates : Top.gates[j] = g /\ g \notin Top.visited
    BY <1>6 DEF QueuedIn
  <2>2. j \in DOMAIN f.gates /\ f.gates[j] = g
    BY <1>1, <1>2, <1>4, <2>1 DEF Frame
  <2>. QED
    BY <1>4, <1>5, <2>1, <2>2 DEF QueuedIn
<1>7. ASSUME NEW p \in Pin, NEW i \in DOMAIN Connections[p],
             ~(p = s /\ i = c), PendingIn(Top, p, i)
      PROVE  PendingIn(f, p, i)
  <2>1. CASE \E j \in DOMAIN Top.exploring :
               Top.exploring[j] = p /\ (j = 1 => i >= Top.conn)
    <3>1. PICK j \in DOMAIN Top.exploring :
               Top.exploring[j] = p /\ (j = 1 => i >= Top.conn)
      BY <2>1
    <3>2. j \in DOMAIN f.exploring /\ f.exploring[j] = p
      BY <1>1, <1>2, <1>4, <3>1 DEF Frame
    <3>3. j = 1 => p = s
      BY <1>1, <3>1 DEF Frame
    <3>4. c \in Nat /\ i \in Nat
      <4>1. c \in Nat
        BY <1>1 DEF Frame
      <4>2. i \in Nat
        BY WireAssumption
      <4>. QED
        BY <4>1, <4>2
    <3>5. j = 1 => i >= f.conn
      BY <1>4, <1>7, <3>1, <3>3, <3>4
    <3>. QED
      BY <3>2, <3>5 DEF PendingIn
  <2>2. CASE \E j \in DOMAIN Top.to_explore : Top.to_explore[j] = p
    BY <1>4, <2>2 DEF PendingIn
  <2>3. CASE \E j \in DOMAIN Top.gates : /\ Top.gates[j] \notin Top.visited
                                         /\ Kind[Top.gates[j]] = "CUSTOM"
                                         /\ p \in Ins(Top.gates[j])
    <3>1. PICK j \in DOMAIN Top.gates : /\ Top.gates[j] \notin Top.visited
                                        /\ Kind[Top.gates[j]] = "CUSTOM"
                                        /\ p \in Ins(Top.gates[j])
      BY <2>3
    <3>2. j \in DOMAIN f.gates /\ f.gates[j] = Top.gates[j]
      BY <1>1, <1>2, <1>4, <3>1 DEF Frame
    <3>. QED
      BY <1>4, <1>5, <3>1, <3>2 DEF PendingIn
  <2>. QED
    BY <1>7, <2>1, <2>2, <2>3 DEF PendingIn
<1>8. ASSUME NEW p \in Pin, NEW i \in DOMAIN Connections[p],
             ~(p = s /\ i = c), Pending(p, i)
      PROVE  Pending(p, i)'
  BY <1>1, <1>4, <1>7, <1>8, PendingKept
<1>9. StillQueued({})
  BY <1>1, <1>4, <1>6, TopQueues
<1>10. ASSUME Parent[t] = NoGate, NEW q \in Pin, q = t, NEW i \in DOMAIN Connections[q]
       PROVE  Pending(q, i)'
  <2>1. f.exploring = Append(Top.exploring, q) /\ Top.exploring \in Seq(Pin)
    BY <1>1, <1>4, <1>10 DEF Frame
  <2>. DEFINE m == Len(Top.exploring) + 1
  <2>2. m \in DOMAIN f.exploring /\ f.exploring[m] = q /\ m # 1
    BY <1>1, <2>1
  <2>. HIDE DEF m
  <2>3. PendingIn(f, q, i)
    BY <2>2 DEF PendingIn
  <2>. QED
    BY <1>1, <1>4, <2>3, PendingOnTop
<1>11. ASSUME NEW h \in Gate, h = Parent[t], h \notin VisitedAfter
       PROVE  Queued(h)'
  <2>1. f.gates = Append(Top.gates, h) /\ Top.gates \in Seq(Gate)
    BY <1>1, <1>4, <1>11 DEF Frame
  <2>. DEFINE m == Len(Top.gates) + 1
  <2>2. m \in DOMAIN f.gates /\ f.gates[m] = h
    BY <2>1
  <2>. HIDE DEF m
  <2>3. QueuedIn(f, h)
    BY <1>4, <1>11, <2>2 DEF QueuedIn
  <2>. QED
    BY <1>1, <1>4, <2>3, QueuedOnTop
<1>12. VisitedFired => VisitedFired'
  <2>1. Top.visited \subseteq fired \/ ~VisitedFired
    BY TopType, <1>1 DEF VisitedFired, Top
  <2>. QED
    BY <1>1, <1>4, <1>5, <2>1, TopVisits
<1>. QED
  <2>1. Parent[t] = NoGate => NowPending({t})
    BY <1>10 DEF NowPending
  <2>2. Parent[t] # NoGate => Parent[t] \in VisitedAfter \/ NowQueued({Parent[t]})
    BY <1>11 DEF NowQueued
  <2>. QED
    BY <1>8, <1>9, <1>12, <2>1, <2>2

LEMMA NextPinKeeps ==
  ASSUME TypeOK, NextPin
  PROVE  StillPending /\ StillQueued({}) /\ (VisitedFired => VisitedFired')
<1>1. /\ ~Idle /\ Top \in Frame /\ Top.exploring # <<>>
      /\ Top.conn \notin DOMAIN Connections[Source]
      /\ UNCHANGED <<level, fired>>
  BY TopType DEF NextPin
<1>2. Top.exploring \in Seq(Pin) /\ Tail(Top.exploring) \in Seq(Pin)
      /\ Top.conn \in Nat \ {0} /\ 1 \in Nat \ {0}
  BY <1>1 DEF Frame
<1>3. \E h \in Frame : /\ SetTop(h) /\ h.exploring = Tail(Top.exploring)
                       /\ h.gates = Top.gates /\ h.visited = Top.visited
                       /\ h.to_explore = Top.to_explore /\ h.conn = 1
  <2>. DEFINE h == [Top EXCEPT !.exploring = Tail(@), !.conn = 1]
  <2>1. /\ h \in Frame /\ h.exploring = Tail(Top.exploring)
        /\ h.gates = Top.gates /\ h.visited = Top.visited
        /\ h.to_explore = Top.to_explore /\ h.conn = 1
    BY <1>1, <1>2 DEF Frame
  <2>2. SetTop(h)
    BY DEF NextPin
  <2>. HIDE DEF h
  <2>. QED
    BY <2>1, <2>2
<1>4. PICK f \in Frame : /\ SetTop(f) /\ f.exploring = Tail(Top.exploring)
                         /\ f.gates = Top.gates /\ f.visited = Top.visited
                         /\ f.to_explore = Top.to_explore /\ f.conn = 1
  BY <1>3
<1>5. ASSUME NEW p \in Pin, NEW i \in DOMAIN Connections[p], PendingIn(Top, p, i)
      PROVE  PendingIn(f, p, i)
  <2>1. CASE \E j \in DOMAIN Top.exploring :
               Top.exploring[j] = p /\ (j = 1 => i >= Top.conn)
    <3>1. PICK j \in DOMAIN Top.exploring :
               Top.exploring[j] = p /\ (j = 1 => i >= Top.conn)
      BY <2>1
    <3>2. j # 1
      <4>1. Connections[p] \in Seq(Pin) /\ i \in 1 .. Len(Connections[p])
        BY WireAssumption
      <4>2. ASSUME j = 1 PROVE p = Source
        BY <1>1, <1>2, <3>1, <4>2
      <4>3. ASSUME j = 1 PROVE FALSE
        <5>1. Top.conn \notin 1 .. Len(Connections[p])
          BY <1>1, <4>1, <4>2, <4>3
        <5>. QED
          BY <1>2, <3>1, <4>1, <4>3, <5>1
      <4>. QED
        BY <4>3
    <3>3. j - 1 \in DOMAIN f.exploring /\ f.exploring[j - 1] = p
      BY <1>1, <1>2, <1>4, <3>1, <3>2
    <3>4. i >= 1
      BY WireAssumption
    <3>. QED
      BY <1>4, <3>3, <3>4 DEF PendingIn
  <2>2. CASE \E j \in DOMAIN Top.to_explore : Top.to_explore[j] = p
    BY <1>4, <2>2 DEF PendingIn
  <2>3. CASE \E j \in DOMAIN Top.gates : /\ Top.gates[j] \notin Top.visited
                                         /\ Kind[Top.gates[j]] = "CUSTOM"
                                         /\ p \in Ins(Top.gates[j])
    BY <1>4, <2>3 DEF PendingIn
  <2>. QED
    BY <1>5, <2>1, <2>2, <2>3 DEF PendingIn
<1>6. \A g \in Gate : QueuedIn(Top, g) => QueuedIn(f, g)
  BY <1>4 DEF QueuedIn
<1>8. VisitedFired => VisitedFired'
  <2>1. Top.visited \subseteq fired \/ ~VisitedFired
    BY TopType, <1>1 DEF VisitedFired, Top
  <2>. QED
    BY <1>1, <1>4, <2>1, TopVisits
<1>. QED
  BY <1>1, <1>4, <1>5, <1>6, <1>8, TopKeeps, TopQueues

LEMMA SkipGateKeeps ==
  ASSUME TypeOK, SkipGate
  PROVE  StillPending /\ StillQueued({}) /\ (VisitedFired => VisitedFired')
<1>1. /\ ~Idle /\ Top \in Frame /\ Top.exploring = <<>> /\ Top.gates # <<>>
      /\ Head(Top.gates) \in Top.visited
      /\ UNCHANGED <<level, fired>>
  BY TopType DEF SkipGate
<1>2. Top.gates \in Seq(Gate) /\ Tail(Top.gates) \in Seq(Gate)
  BY <1>1 DEF Frame
<1>3. \E h \in Frame : /\ SetTop(h) /\ h.exploring = Top.exploring
                       /\ h.gates = Tail(Top.gates) /\ h.visited = Top.visited
                       /\ h.to_explore = Top.to_explore
  <2>. DEFINE h == [Top EXCEPT !.gates = Tail(@)]
  <2>1. /\ h \in Frame /\ h.exploring = Top.exploring
        /\ h.gates = Tail(Top.gates) /\ h.visited = Top.visited
        /\ h.to_explore = Top.to_explore
    BY <1>1, <1>2 DEF Frame
  <2>2. SetTop(h)
    BY DEF SkipGate
  <2>. HIDE DEF h
  <2>. QED
    BY <2>1, <2>2
<1>4. PICK f \in Frame : /\ SetTop(f) /\ f.exploring = Top.exploring
                         /\ f.gates = Tail(Top.gates) /\ f.visited = Top.visited
                         /\ f.to_explore = Top.to_explore
  BY <1>3
<1>5. ASSUME NEW j \in DOMAIN Top.gates, Top.gates[j] \notin Top.visited
      PROVE  j - 1 \in DOMAIN f.gates /\ f.gates[j - 1] = Top.gates[j]
  BY <1>1, <1>2, <1>4, <1>5
<1>6. ASSUME NEW p \in Pin, NEW i \in DOMAIN Connections[p], PendingIn(Top, p, i)
      PROVE  PendingIn(f, p, i)
  <2>1. CASE \E j \in DOMAIN Top.to_explore : Top.to_explore[j] = p
    BY <1>4, <2>1 DEF PendingIn
  <2>2. CASE \E j \in DOMAIN Top.gates : /\ Top.gates[j] \notin Top.visited
                                         /\ Kind[Top.gates[j]] = "CUSTOM"
                                         /\ p \in Ins(Top.gates[j])
    BY <1>4, <1>5, <2>2 DEF PendingIn
  <2>. QED
    BY <1>1, <1>6, <2>1, <2>2 DEF PendingIn
<1>7. ASSUME NEW g \in Gate, QueuedIn(Top, g)
      PROVE  QueuedIn(f, g)
  BY <1>4, <1>5, <1>7 DEF QueuedIn
<1>8. VisitedFired => VisitedFired'
  <2>1. Top.visited \subseteq fired \/ ~VisitedFired
    BY TopType, <1>1 DEF VisitedFired, Top
  <2>. QED
    BY <1>1, <1>4, <2>1, TopVisits
<1>. QED
  BY <1>1, <1>4, <1>6, <1>7, <1>8, TopKeeps, TopQueues

LEMMA NextWaveKeeps ==
  ASSUME TypeOK, NextWave
  PROVE  StillPending /\ StillQueued({}) /\ (VisitedFired => VisitedFired')
<1>1. /\ ~Idle /\ Top \in Frame /\ Top.exploring = <<>> /\ Top.gates = <<>>
      /\ UNCHANGED <<level, fired>>
  BY TopType DEF NextWave
<1>2. Top.to_explore \in Seq(Pin) /\ <<>> \in Seq(Pin) /\ 1 \in Nat \ {0}
  BY <1>1 DEF Frame
<1>3. \E h \in Frame : /\ SetTop(h) /\ h.exploring = Top.to_explore /\ h.conn = 1
                       /\ h.visited = Top.visited
  <2>. DEFINE h == [Top EXCEPT !.exploring = Top.to_explore, !.conn = 1,
                               !.to_explore = <<>>]
  <2>1. h \in Frame /\ h.exploring = Top.to_explore /\ h.conn = 1 /\ h.visited = Top.visited
    BY <1>1, <1>2 DEF Frame
  <2>2. SetTop(h)
    BY DEF NextWave
  <2>. HIDE DEF h
  <2>. QED
    BY <2>1, <2>2
<1>4. PICK f \in Frame : /\ SetTop(f) /\ f.exploring = Top.to_explore /\ f.conn = 1
                         /\ f.visited = Top.visited
  BY <1>3
<1>5. ASSUME NEW p \in Pin, NEW i \in DOMAIN Connections[p], PendingIn(Top, p, i)
      PROVE  PendingIn(f, p, i)
  <2>1. i >= 1
    BY WireAssumption
  <2>2. \E j \in DOMAIN Top.to_explore : Top.to_explore[j] = p
    BY <1>1, <1>5 DEF PendingIn
  <2>. QED
    BY <1>4, <2>1, <2>2 DEF PendingIn
<1>6. \A g \in Gate : QueuedIn(Top, g) => QueuedIn(f, g)
  BY <1>1 DEF QueuedIn
<1>8. VisitedFired => VisitedFired'
  <2>1. Top.visited \subseteq fired \/ ~VisitedFired
    BY TopType, <1>1 DEF VisitedFired, Top
  <2>. QED
    BY <1>1, <1>4, <2>1, TopVisits
<1>. QED
  BY <1>1, <1>4, <1>5, <1>6, <1>8, TopKeeps, TopQueues

LEMMA FireGateKeeps ==
  ASSUME TypeOK, FireGate
  PROVE  /\ StillPending
         /\ StillQueued({Head(Top.gates)})
         /\ NowPending(Outs(Head(Top.gates)))
         /\ VisitedFired => VisitedFired'
<1>. DEFINE g0 == Head(Top.gates)
<1>1. /\ ~Idle /\ Top \in Frame /\ Top.exploring = <<>> /\ Top.gates # <<>>
      /\ g0 \notin Top.visited /\ Kind[g0] # "CUSTOM"
      /\ level' = Fire(g0) /\ fired' = fired \cup {g0}
  BY TopType DEF FireGate
<1>2. /\ Top.gates \in Seq(Gate) /\ g0 \in Gate /\ Tail(Top.gates) \in Seq(Gate)
      /\ Top.to_explore \in Seq(Pin) /\ Top.visited \cup {g0} \in SUBSET Gate
  BY <1>1 DEF Frame
<1>3. OutPins[g0] \in Seq(Pin)
  BY <1>2, GateAssumption
<1>4. \E h \in Frame : /\ SetTop(h) /\ h.exploring = Top.exploring
                       /\ h.gates = Tail(Top.gates) /\ h.visited = Top.visited \cup {g0}
                       /\ h.to_explore = Top.to_explore \o OutPins[g0]
  <2>. DEFINE h == [Top EXCEPT !.visited = @ \cup {g0}, !.gates = Tail(@),
                               !.to_explore = @ \o OutPins[g0]]
  <2>1. Top.to_explore \o OutPins[g0] \in Seq(Pin)
    BY <1>2, <1>3
  <2>2. /\ h \in Frame /\ h.exploring = Top.exploring
        /\ h.gates = Tail(Top.gates) /\ h.visited = Top.visited \cup {g0}
        /\ h.to_explore = Top.to_explore \o OutPins[g0]
    BY <1>1, <1>2, <2>1 DEF Frame
  <2>3. SetTop(h)
    BY DEF FireGate
  <2>. HIDE DEF h
  <2>. QED
    BY <2>2, <2>3
<1>5. PICK f \in Frame : /\ SetTop(f) /\ f.exploring = Top.exploring
                         /\ f.gates = Tail(Top.gates) /\ f.visited = Top.visited \cup {g0}
                         /\ f.to_explore = Top.to_explore \o OutPins[g0]
  BY <1>4
<1>6. /\ \A j \in DOMAIN Top.to_explore :
           /\ j \in DOMAIN f.to_explore
           /\ f.to_explore[j] = Top.to_explore[j]
      /\ \A j \in DOMAIN OutPins[g0] :
           \E m \in DOMAIN f.to_explore : f.to_explore[m] = OutPins[g0][j]
  <2>. DEFINE a == Top.to_explore
              b == OutPins[g0]
  <2>1. a \in Seq(Pin) /\ b \in Seq(Pin)
    BY <1>2, <1>3
  <2>2. f.to_explore = a \o b
    BY <1>5
  <2>. HIDE DEF a, b
  <2>3. /\ \A j \in DOMAIN a : j \in DOMAIN (a \o b) /\ (a \o b)[j] = a[j]
        /\ \A j \in DOMAIN b : \E m \in DOMAIN (a \o b) : (a \o b)[m] = b[j]
    BY <2>1, ConcatElements
  <2>. QED
    BY <2>2, <2>3 DEF a, b
<1>7. ASSUME NEW j \in DOMAIN Top.gates, Top.gates[j] # g0
      PROVE  j - 1 \in DOMAIN f.gates /\ f.gates[j - 1] = Top.gates[j]
  BY <1>1, <1>2, <1>5, <1>7
<1>. HIDE DEF g0
<1>8. ASSUME NEW p \in Pin, NEW i \in DOMAIN Connections[p], PendingIn(Top, p, i)
      PROVE  PendingIn(f, p, i)
  <2>1. CASE \E j \in DOMAIN Top.to_explore : Top.to_explore[j] = p
    <3>1. PICK j \in DOMAIN Top.to_explore : Top.to_explore[j] = p
      BY <2>1
    <3>2. j \in DOMAIN f.to_explore /\ f.to_explore[j] = p
      BY <1>6, <3>1
    <3>. QED
      BY <3>2 DEF PendingIn
  <2>2. CASE \E j \in DOMAIN Top.gates : /\ Top.gates[j] \notin Top.visited
                                         /\ Kind[Top.gates[j]] = "CUSTOM"
                                         /\ p \in Ins(Top.gates[j])
    BY <1>1, <1>5, <1>7, <2>2 DEF PendingIn
  <2>. QED
    BY <1>1, <1>8, <2>1, <2>2 DEF PendingIn
<1>9. StillPending
  BY <1>1, <1>5, <1>8, TopKeeps
<1>10. ASSUME NEW p \in Pin, NEW i \in DOMAIN Connections[p], p \in Outs(g0)
       PROVE  Pending(p, i)'
  <2>1. PICK j \in DOMAIN OutPins[g0] : OutPins[g0][j] = p
    BY <1>10 DEF Outs
  <2>2. \E m \in DOMAIN f.to_explore : f.to_explore[m] = p
    BY <1>6, <2>1
  <2>3. PendingIn(f, p, i)
    BY <2>2 DEF PendingIn
  <2>. QED
    BY <1>1, <1>5, <2>3, PendingOnTop
<1>11. StillQueued({g0})
  <2>1. \A g \in Gate : QueuedIn(Top, g) /\ g \notin {g0} => QueuedIn(f, g)
    BY <1>5, <1>7 DEF QueuedIn
  <2>. QED
    BY <1>1, <1>5, <2>1, TopQueues
<1>12. VisitedFired => VisitedFired'
  <2>1. Top.visited \subseteq fired \/ ~VisitedFired
    BY TopType, <1>1 DEF VisitedFired, Top
  <2>. QED
    BY <1>1, <1>5, <2>1, TopVisits
<1>13. NowPending(Outs(g0))
  BY <1>10 DEF NowPending
<1>. QED
  BY <1>9, <1>11, <1>12, <1>13 DEF g0

LEMMA EnterGateKeeps ==
  ASSUME TypeOK, EnterGate
  PROVE  /\ StillPending
         /\ StillQueued({Head(Top.gates)})
         /\ NowPending(Ins(Head(Top.gates)))
         /\ VisitedFired => VisitedFired'
<1>. DEFINE g0 == Head(Top.gates)
            n == Len(stack)
<1>1. /\ ~Idle /\ Top \in Frame /\ Top.exploring = <<>> /\ Top.gates # <<>>
      /\ g0 \notin Top.visited /\ Kind[g0] = "CUSTOM"
      /\ fired' = fired \cup {g0} /\ UNCHANGED level
      /\ n \in Nat \ {0}
  BY TopType DEF EnterGate
<1>2. /\ Top.gates \in Seq(Gate) /\ g0 \in Gate /\ Tail(Top.gates) \in Seq(Gate)
      /\ Top.visited \cup {g0} \in SUBSET Gate
  BY <1>1 DEF Frame
<1>3. \E h, w \in Frame :
        /\ stack' = Append([stack EXCEPT ![n] = h], w)
        /\ h.gates = Tail(Top.gates) /\ h.visited = Top.visited \cup {g0}
        /\ h.to_explore = Top.to_explore
        /\ w.exploring = InPins[g0] /\ w.conn = 1 /\ w.visited = Top.visited \cup {g0}
  <2>. DEFINE h == [Top EXCEPT !.visited = @ \cup {g0}, !.gates = Tail(@)]
              w == NewFrame(g0, h.visited)
  <2>1. /\ h \in Frame
        /\ h.gates = Tail(Top.gates) /\ h.visited = Top.visited \cup {g0}
        /\ h.to_explore = Top.to_explore
    BY <1>1, <1>2 DEF Frame
  <2>2. w \in Frame
    BY <1>2, <2>1, NewFrameType
  <2>3. w.exploring = InPins[g0] /\ w.conn = 1 /\ w.visited = Top.visited \cup {g0}
    BY <2>1 DEF NewFrame
  <2>4. stack' = Append([stack EXCEPT ![n] = h], w)
    BY DEF EnterGate
  <2>. HIDE DEF h, w
  <2>. QED
    BY <2>1, <2>2, <2>3, <2>4
<1>4. PICK f \in Frame, w \in Frame :
        /\ stack' = Append([stack EXCEPT ![n] = f], w)
        /\ f.gates = Tail(Top.gates) /\ f.visited = Top.visited \cup {g0}
        /\ f.to_explore = Top.to_explore
        /\ w.exploring = InPins[g0] /\ w.conn = 1 /\ w.visited = Top.visited \cup {g0}
  BY <1>3
<1>5. /\ DOMAIN stack' = 1 .. n + 1
      /\ DOMAIN stack = 1 .. n
      /\ stack'[n] = f /\ stack'[n + 1] = w
      /\ \A k \in 1 .. n : k # n => stack'[k] = stack[k]
  <2>. DEFINE b == [stack EXCEPT ![n] = f]
  <2>1. stack \in Seq(Frame) /\ DOMAIN stack = 1 .. n
    BY DEF TypeOK
  <2>2. b \in Seq(Frame)
    BY <1>1, <2>1
  <2>. HIDE DEF n
  <2>3. DOMAIN b = 1 .. n /\ b[n] = f /\ \A k \in 1 .. n : k # n => b[k] = stack[k]
    <3>1. n \in DOMAIN stack
      BY <1>1, <2>1
    <3>. QED
      BY <2>1, <3>1
  <2>4. stack' = Append(b, w)
    BY <1>4
  <2>. HIDE DEF b
  <2>5. Len(b) = n
    BY <1>1, <2>2, <2>3
  <2>6. DOMAIN stack' = 1 .. n + 1 /\ stack'[n + 1] = w
        /\ \A k \in 1 .. n : stack'[k] = b[k]
    BY <1>1, <2>2, <2>4, <2>5
  <2>. QED
    BY <1>1, <2>1, <2>3, <2>6
<1>6. ASSUME NEW j \in DOMAIN Top.gates, Top.gates[j] # g0
      PROVE  j - 1 \in DOMAIN f.gates /\ f.gates[j - 1] = Top.gates[j]
  BY <1>1, <1>2, <1>4, <1>6
<1>. HIDE DEF g0, n
<1>7. StillPending
  <2>. SUFFICES ASSUME NEW p \in Pin, NEW i \in DOMAIN Connections[p], Pending(p, i)
                PROVE  \E k \in DOMAIN stack' : PendingIn(stack'[k], p, i)
    BY DEF StillPending, Pending, PendingIn
  <2>1. PICK k \in DOMAIN stack : PendingIn(stack[k], p, i)
    BY DEF Pending
  <2>2. CASE k # n
    BY <1>1, <1>5, <2>1, <2>2
  <2>3. CASE k = n
    <3>1. PendingIn(Top, p, i)
      BY <2>1, <2>3 DEF Top, n
    <3>2. CASE \E j \in DOMAIN Top.to_explore : Top.to_explore[j] = p
      <4>1. PendingIn(f, p, i)
        BY <1>4, <3>2 DEF PendingIn
      <4>. QED
        BY <1>1, <1>5, <4>1
    <3>3. CASE \E j \in DOMAIN Top.gates : /\ Top.gates[j] \notin Top.visited
                                           /\ Kind[Top.gates[j]] = "CUSTOM"
                                           /\ p \in Ins(Top.gates[j])
      <4>1. PICK j \in DOMAIN Top.gates : /\ Top.gates[j] \notin Top.visited
                                          /\ Kind[Top.gates[j]] = "CUSTOM"
                                          /\ p \in Ins(Top.gates[j])
        BY <3>3
      <4>2. CASE Top.gates[j] # g0
        <5>1. PendingIn(f, p, i)
          BY <1>4, <1>6, <4>1, <4>2 DEF PendingIn
        <5>. QED
          BY <1>1, <1>5, <5>1
      <4>3. CASE Top.gates[j] = g0
        <5>1. PICK m \in DOMAIN InPins[g0] : InPins[g0][m] = p
          BY <4>1, <4>3 DEF Ins
        <5>2. i >= 1
          BY WireAssumption
        <5>3. PendingIn(w, p, i)
          BY <1>4, <5>1, <5>2 DEF PendingIn
        <5>. QED
          BY <1>1, <1>5, <5>3
      <4>. QED
        BY <4>2, <4>3
    <3>. QED
      BY <1>1, <3>1, <3>2, <3>3 DEF PendingIn
  <2>. QED
    BY <2>2, <2>3
<1>8. StillQueued({g0})
  <2>. SUFFICES ASSUME NEW g \in Gate, Queued(g), g # g0
                PROVE  \E k \in DOMAIN stack' : QueuedIn(stack'[k], g)
    BY DEF StillQueued, Queued, QueuedIn
  <2>1. PICK k \in DOMAIN stack : QueuedIn(stack[k], g)
    BY DEF Queued
  <2>2. CASE k # n
    BY <1>1, <1>5, <2>1, <2>2
  <2>3. CASE k = n
    <3>1. QueuedIn(Top, g)
      BY <2>1, <2>3 DEF Top, n
    <3>2. QueuedIn(f, g)
      BY <1>4, <1>6, <3>1 DEF QueuedIn
    <3>. QED
      BY <1>1, <1>5, <3>2
  <2>. QED
    BY <2>2, <2>3
<1>9. ASSUME NEW p \in Pin, NEW i \in DOMAIN Connections[p], p \in Ins(g0)
      PROVE  \E k \in DOMAIN stack' : PendingIn(stack'[k], p, i)
  <2>1. PICK m \in DOMAIN InPins[g0] : InPins[g0][m] = p
    BY <1>9 DEF Ins
  <2>2. i >= 1
    BY WireAssumption
  <2>3. PendingIn(w, p, i)
    BY <1>4, <2>1, <2>2 DEF PendingIn
  <2>. QED
    BY <1>1, <1>5, <2>3
<1>10. NowPending(Ins(g0))
  BY <1>9 DEF NowPending, Pending, PendingIn
<1>11. VisitedFired => VisitedFired'
  <2>. SUFFICES ASSUME VisitedFired
                PROVE  \A k \in DOMAIN stack' : stack'[k].visited \subseteq fired'
    BY DEF VisitedFired
  <2>1. Top.visited \subseteq fired
    BY TopType, <1>1 DEF VisitedFired, Top
  <2>2. \A k \in 1 .. n : k # n => stack'[k].visited \subseteq fired
    BY <1>5 DEF VisitedFired
  <2>3. stack'[n].visited \subseteq fired' /\ stack'[n + 1].visited \subseteq fired'
    BY <1>1, <1>4, <1>5, <2>1
  <2>. QED
    BY <1>1, <1>5, <2>2, <2>3
<1>. QED
  BY <1>7, <1>8, <1>10, <1>11 DEF g0

LEMMA ReturnKeeps ==
  ASSUME TypeOK, Return
  PROVE  StillPending /\ StillQueued({}) /\ (VisitedFired => VisitedFired')
<1>. DEFINE n == Len(stack) - 1
<1>1. /\ ~Idle /\ Top \in Frame /\ Top.exploring = <<>> /\ Top.gates = <<>>
      /\ Top.to_explore = <<>>
      /\ UNCHANGED <<level, fired>>
      /\ n \in Nat /\ DOMAIN stack = 1 .. n + 1
      /\ \A k \in 1 .. n + 1 : stack[k] \in Frame
      /\ Top = stack[n + 1]
  BY TopType DEF Return, TypeOK, Top
<1>2. OutPins[Top.gate] \in Seq(Pin)
  BY <1>1, GateAssumption DEF Frame
<1>3. stack' = [k \in 1 .. n |->
                  IF k = n
                    THEN [stack[k] EXCEPT !.to_explore = @ \o OutPins[Top.gate]]
                    ELSE stack[k]]
  BY DEF Return
<1>. HIDE DEF n
<1>4. ASSUME NEW k \in 1 .. n
      PROVE  /\ k \in DOMAIN stack'
             /\ stack'[k].exploring = stack[k].exploring
             /\ stack'[k].conn = stack[k].conn
             /\ stack'[k].gates = stack[k].gates
             /\ stack'[k].visited = stack[k].visited
             /\ \A j \in DOMAIN stack[k].to_explore :
                  /\ j \in DOMAIN stack'[k].to_explore
                  /\ stack'[k].to_explore[j] = stack[k].to_explore[j]
  <2>. DEFINE e == stack[k].to_explore \o OutPins[Top.gate]
  <2>1. stack[k] \in Frame
    BY <1>1
  <2>2. CASE k = n
    <3>1. stack'[k] = [stack[k] EXCEPT !.to_explore = e]
      BY <1>3, <2>2
    <3>2. \A j \in DOMAIN stack[k].to_explore :
            j \in DOMAIN e /\ e[j] = stack[k].to_explore[j]
      <4>. DEFINE a == stack[k].to_explore
                  b == OutPins[Top.gate]
      <4>1. a \in Seq(Pin) /\ b \in Seq(Pin)
        BY <1>2, <2>1 DEF Frame
      <4>. HIDE DEF a, b
      <4>2. \A j \in DOMAIN a : j \in DOMAIN (a \o b) /\ (a \o b)[j] = a[j]
        BY <4>1, ConcatElements
      <4>. QED
        BY <4>2 DEF a, b
    <3>. HIDE DEF e
    <3>. QED
      BY <1>3, <2>1, <3>1, <3>2 DEF Frame
  <2>3. CASE k # n
    BY <1>3, <2>3
  <2>. QED
    BY <2>2, <2>3
<1>5. StillPending
  <2>. SUFFICES ASSUME NEW p \in Pin, NEW i \in DOMAIN Connections[p], Pending(p, i)
                PROVE  \E k \in DOMAIN stack' : PendingIn(stack'[k], p, i)
    BY DEF StillPending, Pending, PendingIn
  <2>1. PICK k \in DOMAIN stack : PendingIn(stack[k], p, i)
    BY DEF Pending
  <2>2. k # n + 1
    BY <1>1, <2>1 DEF PendingIn
  <2>3. k \in 1 .. n
    BY <1>1, <2>1, <2>2
  <2>4. PendingIn(stack'[k], p, i)
    BY <1>4, <2>1, <2>3 DEF PendingIn
  <2>. QED
    BY <1>4, <2>3, <2>4
<1>6. StillQueued({})
  <2>. SUFFICES ASSUME NEW g \in Gate, Queued(g)
                PROVE  \E k \in DOMAIN stack' : QueuedIn(stack'[k], g)
    BY DEF StillQueued, Queued, QueuedIn
  <2>1. PICK k \in DOMAIN stack : QueuedIn(stack[k], g)
    BY DEF Queued
  <2>2. k \in 1 .. n
    BY <1>1, <2>1 DEF QueuedIn
  <2>3. QueuedIn(stack'[k], g)
    BY <1>4, <2>1, <2>2 DEF QueuedIn
  <2>. QED
    BY <1>4, <2>2, <2>3
<1>7. VisitedFired => VisitedFired'
  <2>1. DOMAIN stack' = 1 .. n
    BY <1>3
  <2>. QED
    BY <1>1, <1>4, <2>1 DEF VisitedFired
<1>. QED
  BY <1>5, <1>6, <1>7

-----------------------------------------------------------------------------
(***************************************************************************)
(* No change is lost.                                                      *)
(***************************************************************************)

\* A step that changes no level.
LEMMA QuietStep ==
  ASSUME TypeOK, NothingLost, UNCHANGED level, StillPending, NEW G, StillQueued(G),
         \A g \in fired' : g \in fired \/ Kind[g] = "CUSTOM", \A g \in G : Kind[g] = "CUSTOM"
  PROVE  NothingLost'
<1>1. WiresTracked'
  BY DEF NothingLost, WiresTracked, StillPending
<1>2. GatesTracked'
  <2>. SUFFICES ASSUME NEW g \in fired'
                PROVE  Consistent(g)' \/ Queued(g)'
    BY DEF GatesTracked
  <2>1. CASE Kind[g] = "CUSTOM"
    BY <2>1 DEF Consistent
  <2>2. CASE Kind[g] # "CUSTOM"
    <3>1. g \in fired /\ g \in Gate /\ g \notin G
      BY <2>2 DEF TypeOK
    <3>. QED
      BY <3>1, ConsistentKept DEF NothingLost, GatesTracked, StillQueued
  <2>. QED
    BY <2>1, <2>2
<1>. QED
  BY <1>1, <1>2 DEF NothingLost

LEMMA SimulateStep ==
  ASSUME TypeOK, NothingLost, NEW v \in [Ins(Root) -> BOOLEAN], Simulate(v)
  PROVE  NothingLost'
<1>1. Root \in Gate /\ Kind[Root] = "CUSTOM" /\ fired' = fired \cup {Root}
  BY GateAssumption DEF Simulate
<1>2. WiresTracked'
  <2>. SUFFICES ASSUME NEW p \in Pin, NEW i \in DOMAIN Connections[p]
                PROVE  level'[Connections[p][i]] = level'[p] \/ Pending(p, i)'
    BY DEF WiresTracked
  <2>1. level[Connections[p][i]] = level[p]
    BY SimulateKeeps DEF NothingLost, WiresTracked
  <2>2. level'[Connections[p][i]] = level[Connections[p][i]]
    BY TargetOfWire DEF Simulate
  <2>3. CASE p \notin Ins(Root)
    BY <2>1, <2>2, <2>3 DEF Simulate
  <2>4. CASE p \in Ins(Root)
    BY <2>4, SimulateKeeps DEF NowPending
  <2>. QED
    BY <2>3, <2>4
<1>3. GatesTracked'
  <2>. SUFFICES ASSUME NEW g \in fired'
                PROVE  Consistent(g)' \/ Queued(g)'
    BY DEF GatesTracked
  <2>1. g \in Gate
    BY <1>1 DEF TypeOK
  <2>2. CASE Kind[g] = "CUSTOM"
    BY <2>2 DEF Consistent
  <2>3. CASE Kind[g] # "CUSTOM"
    <3>1. g \in fired /\ g # Root
      BY <1>1, <2>3
    <3>2. Consistent(g)
      BY <2>1, <3>1, SimulateKeeps DEF NothingLost, GatesTracked
    <3>3. \A p \in Ins(g) \cup Outs(g) : p \in Pin /\ p \notin Ins(Root)
      <4>1. Ins(g) \subseteq Pin /\ Outs(g) \subseteq Pin
        BY <2>1, GateAssumption DEF Ins, Outs
      <4>. QED
        BY <1>1, <2>1, <3>1, <4>1, PinAssumption
    <3>4. \A p \in Ins(g) \cup Outs(g) : level'[p] = level[p]
      BY <3>3 DEF Simulate
    <3>. QED
      BY <2>1, <3>2, <3>4, ConsistentKept
  <2>. QED
    BY <2>2, <2>3
<1>. QED
  BY <1>2, <1>3 DEF NothingLost

LEMMA ExploreWireStep ==
  ASSUME TypeOK, NothingLost, ExploreWire
  PROVE  NothingLost'
<1>. DEFINE s == Source
            c == Top.conn
            t == Target
<1>1. /\ c \in DOMAIN Connections[s]
      /\ fired' = fired
      /\ level' = [level EXCEPT ![t] = level[s]]
  BY DEF ExploreWire
<1>2. s \in Pin /\ t \in Pin /\ Parent[t] \in Gate \cup {NoGate}
  BY WireType DEF ExploreWire
<1>3. /\ \A p \in Pin : \A i \in DOMAIN Connections[p] :
           Pending(p, i) /\ ~(p = s /\ i = c) => Pending(p, i)'
      /\ StillQueued({})
      /\ Parent[t] = NoGate => NowPending({t})
      /\ Parent[t] # NoGate => Parent[t] \in VisitedAfter \/ NowQueued({Parent[t]})
  BY ExploreWireKeeps
<1>4. Parent[t] # NoGate /\ level[t] # level[s] => NowQueued({Parent[t]})
  BY <1>3 DEF VisitedAfter
<1>5. WiresTracked'
  <2>. SUFFICES ASSUME NEW p \in Pin, NEW i \in DOMAIN Connections[p],
                       level'[Connections[p][i]] # level'[p]
                PROVE  Pending(p, i)'
    BY DEF WiresTracked
  <2>. DEFINE q == Connections[p][i]
  <2>1. q \in Pin
    BY TargetOfWire
  <2>2. q # t
    <3>1. ASSUME q = t PROVE p = s
      BY <1>1, <1>2, <3>1, WireAssumption
    <3>2. level'[t] = level[s] /\ level'[s] = level[s]
      BY <1>1, <1>2 DEF TypeOK
    <3>. QED
      BY <3>1, <3>2
  <2>3. level'[q] = level[q]
    BY <1>1, <2>1, <2>2 DEF TypeOK
  <2>4. ~(p = s /\ i = c)
    BY <2>2
  <2>5. ASSUME level[q] # level[p] PROVE Pending(p, i)'
    <3>1. Pending(p, i)
      BY <2>5 DEF NothingLost, WiresTracked
    <3>. QED
      BY <1>3, <2>4, <3>1
  <2>6. CASE p # t
    <3>1. level'[p] = level[p]
      BY <1>1, <2>6 DEF TypeOK
    <3>. QED
      BY <2>3, <2>5, <3>1
  <2>7. CASE p = t
    <3>1. level'[p] = level[s]
      BY <1>1, <1>2, <2>7 DEF TypeOK
    <3>2. CASE Parent[t] = NoGate
      BY <1>3, <2>7, <3>2 DEF NowPending
    <3>3. CASE Parent[t] # NoGate /\ level[t] = level[s]
      BY <2>3, <2>5, <2>7, <3>1, <3>3
    <3>4. CASE Parent[t] # NoGate /\ level[t] # level[s]
      <4>. DEFINE h == Parent[t]
      <4>1. PICK g \in Gate : g = h
        BY <1>2, <3>4
      <4>2. p \in Ins(g)
        BY <1>1, <1>2, <2>7, <3>4, <4>1, TargetOfWire
      <4>3. Kind[g] = "CUSTOM"
        BY <4>2, WireAssumption
      <4>4. Queued(g)'
        BY <1>4, <3>4, <4>1 DEF NowQueued
      <4>. QED
        BY <4>2, <4>3, <4>4 DEF Queued, QueuedIn, Pending, PendingIn
    <3>. QED
      BY <3>2, <3>3, <3>4
  <2>. QED
    BY <2>6, <2>7
<1>6. GatesTracked'
  <2>. SUFFICES ASSUME NEW g \in fired, ~Consistent(g)'
                PROVE  Queued(g)'
    BY <1>1 DEF GatesTracked
  <2>1. g \in Gate
    BY DEF TypeOK
  <2>2. CASE ~Consistent(g)
    BY <1>3, <2>1, <2>2 DEF NothingLost, GatesTracked, StillQueued
  <2>3. CASE Consistent(g)
    <3>1. Kind[g] # "CUSTOM"
      BY DEF Consistent
    <3>2. PICK p \in Ins(g) \cup Outs(g) : level'[p] # level[p]
      BY <2>1, <2>3, ConsistentKept
    <3>3. p = t /\ level[t] # level[s]
      BY <1>1, <1>2, <3>2 DEF TypeOK
    <3>4. t \in Ins(g)
      BY <1>1, <1>2, <2>1, <3>1, <3>2, <3>3, TargetOfWire
    <3>5. Parent[t] = g
      BY <1>1, <1>2, <2>1, <3>4, TargetOfWire
    <3>. QED
      BY <1>4, <2>1, <3>3, <3>5, GateAssumption DEF NowQueued
  <2>. QED
    BY <2>2, <2>3
<1>. QED
  BY <1>5, <1>6 DEF NothingLost

LEMMA FireGateStep ==
  ASSUME TypeOK, NothingLost, FireGate
  PROVE  NothingLost'
<1>. DEFINE g0 == Head(Top.gates)
<1>1. Top \in Frame /\ Top.gates # <<>>
      /\ Kind[g0] # "CUSTOM" /\ level' = Fire(g0) /\ fired' = fired \cup {g0}
  BY TopType DEF FireGate
<1>2. g0 \in Gate
  BY <1>1 DEF Frame
<1>3. StillPending /\ StillQueued({g0}) /\ NowPending(Outs(g0))
  BY FireGateKeeps
<1>. HIDE DEF g0
<1>4. WiresTracked'
  <2>. SUFFICES ASSUME NEW p \in Pin, NEW i \in DOMAIN Connections[p],
                       level'[Connections[p][i]] # level'[p]
                PROVE  Pending(p, i)'
    BY DEF WiresTracked
  <2>1. level'[Connections[p][i]] = level[Connections[p][i]]
    BY <1>1, <1>2, TargetOfWire DEF Fire
  <2>2. CASE p \in Outs(g0)
    BY <1>3, <2>2 DEF NowPending
  <2>3. CASE p \notin Outs(g0)
    <3>1. level'[p] = level[p]
      BY <1>1, <2>3 DEF Fire
    <3>. QED
      BY <1>3, <2>1, <3>1 DEF NothingLost, WiresTracked, StillPending
  <2>. QED
    BY <2>2, <2>3
<1>5. GatesTracked'
  <2>. SUFFICES ASSUME NEW g \in fired', ~Consistent(g)'
                PROVE  Queued(g)'
    BY DEF GatesTracked
  <2>1. g \in Gate /\ Kind[g] # "CUSTOM"
    BY <1>1, <1>2 DEF TypeOK, Consistent
  <2>2. g # g0
    BY <1>1, <1>2, FireConsistent
  <2>3. \A p \in Ins(g) \cup Outs(g) : p \in Pin /\ p \notin Outs(g0)
    <3>1. Ins(g) \subseteq Pin /\ Outs(g) \subseteq Pin
      BY <2>1, GateAssumption DEF Ins, Outs
    <3>. QED
      BY <1>2, <2>1, <2>2, <3>1, PinAssumption
  <2>4. ~Consistent(g)
    BY <1>1, <2>1, <2>3, ConsistentKept DEF Fire
  <2>. QED
    BY <1>1, <1>3, <2>1, <2>2, <2>4 DEF NothingLost, GatesTracked, StillQueued
<1>. QED
  BY <1>4, <1>5 DEF NothingLost

LEMMA EnterGateStep ==
  ASSUME TypeOK, NothingLost, EnterGate
  PROVE  NothingLost'
<1>1. /\ Kind[Head(Top.gates)] = "CUSTOM"
      /\ fired' = fired \cup {Head(Top.gates)} /\ UNCHANGED level
  BY DEF EnterGate
<1>. QED
  BY <1>1, EnterGateKeeps, QuietStep

LEMMA LoopStep ==
  ASSUME TypeOK, NothingLost, NextPin \/ SkipGate \/ NextWave \/ Return
  PROVE  NothingLost'
<1>1. UNCHANGED <<level, fired>>
  BY DEF NextPin, SkipGate, NextWave, Return
<1>2. StillPending /\ StillQueued({})
  BY NextPinKeeps, SkipGateKeeps, NextWaveKeeps, ReturnKeeps
<1>. QED
  BY <1>1, <1>2, QuietStep

LEMMA NothingLostStep ==
  ASSUME TypeOK, NothingLost, [Next]_vars
  PROVE  NothingLost'
<1>1. CASE UNCHANGED vars
  BY <1>1 DEF vars, NothingLost, WiresTracked, GatesTracked, Consistent,
              InputVector, Pending, PendingIn, Queued, QueuedIn
<1>. QED
  BY <1>1, SimulateStep, ExploreWireStep, LoopStep, FireGateStep, EnterGateStep
  DEF Next, Step

\* In every circuit a wire whose ends differ is waiting in a queue of some call
\* and a gate that disagrees with its inputs is queued and unvisited there
\* (Gate::handle_custom_type).
THEOREM NeverLost == Spec => []NothingLost
<1>1. Init => NothingLost
  <2>1. ASSUME Init, NEW p \in Pin, NEW i \in DOMAIN Connections[p]
        PROVE  level[Connections[p][i]] = level[p]
    BY <2>1, TargetOfWire DEF Init
  <2>. QED
    BY <2>1 DEF Init, NothingLost, WiresTracked, GatesTracked
<1>2. TypeOK /\ NothingLost /\ [Next]_vars => NothingLost'
  BY NothingLostStep
<1>. QED
  BY <1>1, <1>2, TypeCorrect, PTL DEF Spec

\* In every circuit, cyclic or not, the ends of every wire agree and every gate
\* that was simulated agrees with its inputs whenever simulate() has returned.
THEOREM AlwaysSettled == Spec => []Settled
<1>1. NothingLost => Settled
  BY DEF NothingLost, WiresTracked, GatesTracked, Settled, Pending, Queued
<1>. QED
  BY <1>1, NeverLost, PTL
-----------------------------------------------------------------------------
(***************************************************************************)
(* Circuits without a loop have a function.                                *)
(***************************************************************************)

\* The levels L have a wire's ends alike and every gate in agreement with its inputs.
Solves(L) ==
  /\ L \in [Pin -> BOOLEAN]
  /\ \A p \in Pin : \A i \in DOMAIN Connections[p] : L[Connections[p][i]] = L[p]
  /\ \A g \in Gate : Kind[g] = "NAND" =>
       L[OutPins[g][1]] = ~(L[InPins[g][1]] /\ L[InPins[g][2]])
  /\ \A g \in Gate : Kind[g] = "SERIALIZED" => \A i \in DOMAIN OutPins[g] :
       L[OutPins[g][i]] = Table[g][[j \in 1 .. Len(InPins[g]) |-> L[InPins[g][j]]]][i]

Restricted(L, S) == [p \in S |-> L[p]]

\* What the circuit is for agrees with its gates and wires.
Computed(E) ==
  \A L \in [Pin -> BOOLEAN] : Solves(L) =>
    \A o \in [Outs(Root) -> BOOLEAN] : E[<<Restricted(L, Ins(Root)), o>>] = Restricted(L, Outs(Root))

LEMMA GatePins ==
  ASSUME NEW g \in Gate
  PROVE  Ins(g) \subseteq Pin /\ Outs(g) \subseteq Pin
BY GateAssumption DEF Ins, Outs

\* Gates with the same inputs have the same outputs.
LEMMA SameOutputs ==
  ASSUME NEW L, NEW M, Solves(L), Solves(M), NEW g \in Gate, Kind[g] \in {"NAND", "SERIALIZED"},
         \A p \in Ins(g) : L[p] = M[p], NEW q \in Outs(g)
  PROVE  L[q] = M[q]
<1>1. PICK i \in DOMAIN OutPins[g] : OutPins[g][i] = q
  BY DEF Outs
<1>2. InPins[g] \in Seq(Pin) /\ \A j \in DOMAIN InPins[g] : InPins[g][j] \in Ins(g)
  BY GateAssumption DEF Ins
<1>3. CASE Kind[g] = "NAND"
  <2>1. 1 \in DOMAIN InPins[g] /\ 2 \in DOMAIN InPins[g] /\ i = 1
    BY <1>1, <1>2, <1>3, GateAssumption
  <2>2. L[InPins[g][1]] = M[InPins[g][1]] /\ L[InPins[g][2]] = M[InPins[g][2]]
    BY <1>2, <2>1
  <2>3. L[q] = ~(L[InPins[g][1]] /\ L[InPins[g][2]])
    BY <1>1, <1>3, <2>1 DEF Solves
  <2>4. M[q] = ~(M[InPins[g][1]] /\ M[InPins[g][2]])
    BY <1>1, <1>3, <2>1 DEF Solves
  <2>. QED
    BY <2>2, <2>3, <2>4
<1>4. CASE Kind[g] = "SERIALIZED"
  <2>. DEFINE v(X) == [j \in 1 .. Len(InPins[g]) |-> X[InPins[g][j]]]
  <2>1. v(L) = v(M)
    BY <1>2
  <2>2. L[q] = Table[g][v(L)][i] /\ M[q] = Table[g][v(M)][i]
    BY <1>1, <1>4 DEF Solves
  <2>. QED
    BY <2>1, <2>2
<1>. QED
  BY <1>3, <1>4

\* The inputs determine all levels: a pin that has the lowest rank of those at which two
\* solutions differ would get its level from pins at which they agree.
LEMMA OneSolution ==
  ASSUME NEW rank, Combinational(rank), NEW L, NEW M, Solves(L), Solves(M),
         \A p \in Ins(Root) : L[p] = M[p]
  PROVE  L = M
<1>. DEFINE Differing == {p \in Pin : L[p] # M[p]}
            T == {rank[p] : p \in Differing}
<1>1. rank \in [Pin -> Nat]
  BY DEF Combinational
<1>2. CASE Differing = {}
  <2>1. L \in [Pin -> BOOLEAN] /\ M \in [Pin -> BOOLEAN]
    BY DEF Solves
  <2>. QED
    BY <1>2, <2>1
<1>3. CASE Differing # {}
  <2>1. T \subseteq Nat /\ T # {}
    BY <1>1, <1>3
  <2>2. PICK n \in T : \A m \in T : n <= m
    BY <2>1, LeastNumber
  <2>3. PICK q \in Differing : n = rank[q]
    BY <2>2
  <2>4. q \in Pin /\ L[q] # M[q] /\ \A p \in Pin : rank[p] < rank[q] => L[p] = M[p]
    BY <1>1, <2>2, <2>3
  <2>. HIDE DEF Differing, T
  <2>5. q \notin Ins(Root)
    BY <2>4
  <2>6. ASSUME NEW g \in Gate, Kind[g] # "CUSTOM", q \in Outs(g)
        PROVE  FALSE
    <3>1. Kind[g] \in {"NAND", "SERIALIZED"}
      BY <2>6, GateAssumption DEF Combinational, Kinds
    <3>2. \A p \in Ins(g) : p \in Pin /\ rank[p] < rank[q]
      BY <2>6, GatePins DEF Combinational
    <3>. QED
      BY <2>4, <2>6, <3>1, <3>2, SameOutputs
  <2>7. ASSUME NEW p \in Pin, NEW i \in DOMAIN Connections[p], q = Connections[p][i]
        PROVE  FALSE
    <3>1. rank[p] < rank[q]
      BY <2>7 DEF Combinational
    <3>2. L[q] = L[p] /\ M[q] = M[p]
      BY <2>7 DEF Solves
    <3>. QED
      BY <2>4, <3>1, <3>2
  <2>. QED
    BY <2>4, <2>5, <2>6, <2>7 DEF Combinational
<1>. QED
  BY <1>2, <1>3

\* So each such circuit computes something: what its gates and wires say of its inputs.
Solution(v) == CHOOSE L : Solves(L) /\ \A p \in Ins(Root) : L[p] = v[p]

Function ==
  [w \in [Ins(Root) -> BOOLEAN] \X [Outs(Root) -> BOOLEAN] |->
     Restricted(Solution(w[1]), Outs(Root))]

LEMMA RootPins == Ins(Root) \subseteq Pin /\ Outs(Root) \subseteq Pin
BY GatePins, GateAssumption

\* Every circuit without a loop is for something: its gates and wires give it a function of
\* its inputs, in which what was there before does not count.
THEOREM FunctionComputed ==
  ASSUME NEW rank, Combinational(rank)
  PROVE  Computed(Function)
<1>. SUFFICES ASSUME NEW L \in [Pin -> BOOLEAN], Solves(L), NEW o \in [Outs(Root) -> BOOLEAN]
              PROVE  Function[<<Restricted(L, Ins(Root)), o>>] = Restricted(L, Outs(Root))
  BY DEF Computed
<1>. DEFINE v == Restricted(L, Ins(Root))
            M == Solution(v)
<1>1. v \in [Ins(Root) -> BOOLEAN] /\ \A p \in Ins(Root) : L[p] = v[p]
  BY RootPins DEF Restricted
<1>. HIDE DEF v
<1>2. Solves(M) /\ \A p \in Ins(Root) : M[p] = v[p]
  BY <1>1 DEF Solution
<1>. HIDE DEF M
<1>3. L = M
  BY <1>1, <1>2, OneSolution
<1>4. Function[<<v, o>>] = Restricted(M, Outs(Root))
  BY <1>1 DEF Function, M
<1>. QED
  BY <1>3, <1>4 DEF v

-----------------------------------------------------------------------------
(***************************************************************************)
(* A call reaches everything that the inputs lead to.                      *)
(***************************************************************************)

\* The pins a simulated gate goes on from.
Onward(g) == IF Kind[g] = "CUSTOM" THEN Ins(g) ELSE Outs(g)

\* A wire to q has been followed.
Followed(T, q) ==
  IF Parent[q] = NoGate THEN q \in T ELSE Parent[q] \in fired \/ Queued(Parent[q])

\* The wires of the pins in T have been followed or wait, and so on.
Reached(T) ==
  /\ T \subseteq Pin
  /\ \A p \in T : \A i \in DOMAIN Connections[p] : Pending(p, i) \/ Followed(T, Connections[p][i])
  /\ \A g \in fired : Onward(g) \subseteq T

LEMMA OnwardPins ==
  ASSUME NEW g \in Gate
  PROVE  Onward(g) \subseteq Pin
BY GatePins DEF Onward

LEMMA ReachedMore ==
  ASSUME TypeOK, NEW T, Reached(T), StillPending, NEW G \in SUBSET Gate, StillQueued(G),
         fired' = fired \cup G, NEW N \in SUBSET Pin, NowPending(N), \A g \in G : Onward(g) \subseteq N
  PROVE  Reached(T \cup N)'
<1>1. T \cup N \subseteq Pin
  BY DEF Reached
<1>2. ASSUME NEW p \in T \cup N, NEW i \in DOMAIN Connections[p], ~Pending(p, i)'
      PROVE  Followed(T \cup N, Connections[p][i])'
  <2>1. p \in T /\ p \in Pin /\ ~Pending(p, i)
    BY <1>1, <1>2 DEF NowPending, StillPending
  <2>2. Followed(T, Connections[p][i])
    BY <2>1 DEF Reached
  <2>3. Parent[Connections[p][i]] \in Gate \cup {NoGate}
    BY <2>1, TargetOfWire, PinAssumption
  <2>. QED
    BY <2>2, <2>3 DEF Followed, StillQueued
<1>3. \A g \in fired' : Onward(g) \subseteq T \cup N
  BY DEF Reached
<1>. QED
  BY <1>1, <1>2, <1>3 DEF Reached

LEMMA ReachedStep ==
  ASSUME TypeOK, VisitedFired, NEW T, Reached(T), [Next]_vars
  PROVE  \E S : Reached(S)'
<1>1. ASSUME NEW v \in [Ins(Root) -> BOOLEAN], Simulate(v)
      PROVE  \E S : Reached(S)'
  <2>1. StillPending /\ StillQueued({Root}) /\ NowPending(Ins(Root))
    BY <1>1, SimulateKeeps DEF StillPending, StillQueued
  <2>2. Root \in Gate /\ Onward(Root) = Ins(Root) /\ Ins(Root) \subseteq Pin /\ fired' = fired \cup {Root}
    BY <1>1, GateAssumption, RootPins DEF Onward, Simulate
  <2>3. Reached(T \cup Ins(Root))'
    BY <2>1, <2>2, ReachedMore
  <2>. QED
    BY <2>3
<1>2. CASE ExploreWire
  <2>. DEFINE t == Target
              S == IF Parent[t] = NoGate THEN T \cup {t} ELSE T
  <2>1. /\ t \in Pin /\ Parent[t] \in Gate \cup {NoGate} /\ fired' = fired
        /\ Source \in Pin /\ Top.conn \in DOMAIN Connections[Source]
    BY <1>2, WireType DEF ExploreWire
  <2>2. /\ \A p \in Pin : \A i \in DOMAIN Connections[p] :
             Pending(p, i) /\ ~(p = Source /\ i = Top.conn) => Pending(p, i)'
        /\ StillQueued({})
        /\ Parent[t] = NoGate => NowPending({t})
        /\ Parent[t] # NoGate => Parent[t] \in VisitedAfter \/ NowQueued({Parent[t]})
    BY <1>2, ExploreWireKeeps
  <2>3. VisitedAfter \subseteq fired
    <3>1. Top.visited \subseteq fired
      BY <1>2, TopType DEF ExploreWire, VisitedFired, Top
    <3>. QED
      BY <3>1 DEF VisitedAfter
  <2>4. PICK q, R : q \in Pin /\ q = t /\ R = S
    BY <2>1
  <2>5. ASSUME NEW p \in R, NEW i \in DOMAIN Connections[p], ~Pending(p, i)'
        PROVE  Followed(R, Connections[p][i])'
    <3>1. p \in Pin /\ Parent[Connections[p][i]] \in Gate \cup {NoGate}
      <4>1. p \in Pin
        BY <2>4 DEF Reached
      <4>. QED
        BY <4>1, TargetOfWire, PinAssumption
    <3>2. p \in T
      BY <2>2, <2>4, <2>5, <3>1 DEF NowPending
    <3>3. CASE ~Pending(p, i)
      <4>1. Followed(T, Connections[p][i])
        BY <3>2, <3>3 DEF Reached
      <4>. QED
        BY <2>1, <2>2, <2>4, <3>1, <4>1 DEF Followed, StillQueued
    <3>4. CASE Pending(p, i)
      <4>1. p = Source /\ i = Top.conn
        BY <2>2, <2>5, <3>1, <3>4
      <4>2. Connections[p][i] = q
        BY <2>4, <4>1
      <4>3. CASE Parent[q] = NoGate
        BY <2>4, <4>2, <4>3 DEF Followed
      <4>4. CASE Parent[q] # NoGate
        <5>1. Parent[q] \in fired \/ (Parent[q] \in Gate /\ NowQueued({Parent[q]}))
          BY <2>1, <2>2, <2>3, <2>4, <4>4
        <5>2. Parent[q] \in fired' \/ Queued(Parent[q])'
          BY <2>1, <5>1 DEF NowQueued
        <5>. QED
          BY <4>2, <4>4, <5>2 DEF Followed
      <4>. QED
        BY <4>3, <4>4
    <3>. QED
      BY <3>3, <3>4
  <2>6. R \subseteq Pin /\ \A g \in fired' : Onward(g) \subseteq R
    BY <2>1, <2>4 DEF Reached
  <2>7. Reached(R)'
    BY <2>5, <2>6 DEF Reached
  <2>. QED
    BY <2>7
<1>3. ASSUME FireGate \/ EnterGate
      PROVE  \E S : Reached(S)'
  <2>1. Top \in Frame /\ Top.gates # <<>>
    BY <1>3, TopType DEF FireGate, EnterGate
  <2>2. PICK g \in Gate : g = Head(Top.gates)
    BY <2>1 DEF Frame
  <2>3. /\ fired' = fired \cup {g} /\ StillPending /\ StillQueued({g})
        /\ FireGate => Onward(g) = Outs(g) /\ NowPending(Outs(g))
        /\ EnterGate => Onward(g) = Ins(g) /\ NowPending(Ins(g))
    BY <1>3, <2>2, FireGateKeeps, EnterGateKeeps DEF FireGate, EnterGate, Onward
  <2>4. NowPending(Onward(g))
    BY <1>3, <2>3
  <2>5. Reached(T \cup Onward(g))'
    BY <2>3, <2>4, ReachedMore, OnwardPins
  <2>. QED
    BY <2>5
<1>4. ASSUME NextPin \/ SkipGate \/ NextWave \/ Return
      PROVE  \E S : Reached(S)'
  <2>1. StillPending /\ StillQueued({}) /\ fired' = fired \cup {}
    BY <1>4, NextPinKeeps, SkipGateKeeps, NextWaveKeeps, ReturnKeeps
    DEF NextPin, SkipGate, NextWave, Return
  <2>2. NowPending({})
    BY DEF NowPending
  <2>3. Reached(T \cup {})'
    BY <2>1, <2>2, ReachedMore
  <2>. QED
    BY <2>3
<1>5. CASE UNCHANGED vars
  <2>1. Reached(T)'
    BY <1>5 DEF vars, Reached, Followed, Pending, PendingIn, Queued, QueuedIn
  <2>. QED
    BY <2>1
<1>. QED
  BY <1>1, <1>2, <1>3, <1>4, <1>5 DEF Next, Step

\* The root is simulated first, and what it leads to is reached.
Reaching ==
  /\ ~Idle => Root \in fired
  /\ VisitedFired
  /\ \E T : Reached(T)

LEMMA ReachingStep ==
  ASSUME TypeOK, Reaching, [Next]_vars
  PROVE  Reaching'
<1>1. ~Idle' => Root \in fired'
  BY DEF Reaching, Next, Step, vars, Simulate, ExploreWire, NextPin, SkipGate, FireGate,
         EnterGate, NextWave, Return
<1>2. VisitedFired'
  <2>1. CASE UNCHANGED vars
    BY <2>1 DEF Reaching, vars, VisitedFired
  <2>. QED
    BY <2>1, SimulateKeeps, ExploreWireKeeps, NextPinKeeps, SkipGateKeeps, FireGateKeeps,
       EnterGateKeeps, NextWaveKeeps, ReturnKeeps DEF Next, Step, Reaching
<1>3. \E T : Reached(T)'
  BY ReachedStep DEF Reaching
<1>. QED
  BY <1>1, <1>2, <1>3 DEF Reaching

\* When nothing waits, every gate of a circuit without a loop has been simulated.
LEMMA AllSimulated ==
  ASSUME TypeOK, Idle, Root \in fired, NEW T, Reached(T), NEW rank, Combinational(rank),
         NEW g \in Gate, Kind[g] # "CUSTOM"
  PROVE  g \in fired
<1>. DEFINE Met(p) == /\ p \in T \/ \E h \in fired : p \in Ins(h)
                      /\ \A h \in Gate : Kind[h] # "CUSTOM" /\ p \in Ins(h) => h \in fired
            Unmet == {p \in Pin : ~Met(p)}
            N == {rank[p] : p \in Unmet}
<1>1. rank \in [Pin -> Nat]
  BY DEF Combinational
<1>2. /\ \A p \in T : \A i \in DOMAIN Connections[p] : Followed(T, Connections[p][i])
      /\ \A h \in Gate : ~Queued(h)
      /\ \A h \in fired : Onward(h) \subseteq T
      /\ fired \subseteq Gate
  BY DEF Reached, Pending, Queued, TypeOK
<1>3. ASSUME NEW q \in Pin, \A p \in Pin : rank[p] < rank[q] => Met(p)
      PROVE  Met(q)
  <2>1. CASE q \in Ins(Root)
    <3>1. q \in T /\ Kind[Root] = "CUSTOM" /\ Root \in Gate
      BY <1>2, <2>1, GateAssumption DEF Onward
    <3>2. \A h \in Gate : q \in Ins(h) => h = Root
      BY <2>1, <3>1, PinAssumption
    <3>. QED
      BY <3>1, <3>2
  <2>2. ASSUME NEW h \in Gate, Kind[h] # "CUSTOM", q \in Outs(h)
        PROVE  Met(q)
    <3>1. PICK p \in Ins(h) : rank[p] < rank[q]
      BY <2>2 DEF Combinational
    <3>2. p \in Pin
      BY <3>1, GateAssumption DEF Ins
    <3>3. h \in fired
      BY <1>3, <2>2, <3>1, <3>2
    <3>4. q \in T
      BY <1>2, <2>2, <3>3 DEF Onward
    <3>. QED
      BY <2>2, <3>4, PinAssumption
  <2>3. ASSUME NEW p \in Pin, NEW i \in DOMAIN Connections[p], q = Connections[p][i]
        PROVE  Met(q)
    <3>1. rank[p] < rank[q]
      BY <2>3 DEF Combinational
    <3>2. Met(p)
      BY <1>3, <3>1
    <3>3. p \in T
      <4>1. ASSUME NEW h \in fired, p \in Ins(h)
            PROVE  p \in T
        <5>1. Kind[h] = "CUSTOM"
          BY <1>2, <4>1, WireAssumption
        <5>. QED
          BY <1>2, <4>1, <5>1 DEF Onward
      <4>. QED
        BY <3>2, <4>1
    <3>4. Followed(T, q)
      BY <1>2, <2>3, <3>3
    <3>5. CASE Parent[q] = NoGate
      <4>1. q \in T
        BY <3>4, <3>5 DEF Followed
      <4>2. \A h \in Gate : q \notin Ins(h)
        BY <2>3, <3>5, TargetOfWire, GateAssumption
      <4>. QED
        BY <4>1, <4>2
    <3>6. CASE Parent[q] # NoGate
      <4>1. Parent[q] \in Gate /\ q \in Ins(Parent[q]) /\ \A h \in Gate : q \in Ins(h) => h = Parent[q]
        BY <2>3, <3>6, TargetOfWire
      <4>2. Parent[q] \in fired
        BY <1>2, <3>4, <3>6, <4>1 DEF Followed
      <4>. QED
        BY <4>1, <4>2
    <3>. QED
      BY <3>5, <3>6
  <2>. QED
    BY <2>1, <2>2, <2>3 DEF Combinational
<1>. HIDE DEF Met
<1>4. Unmet = {}
  <2>1. SUFFICES ASSUME Unmet # {} PROVE FALSE
    OBVIOUS
  <2>2. N \subseteq Nat /\ N # {}
    BY <1>1, <2>1
  <2>3. PICK n \in N : \A m \in N : n <= m
    BY <2>2, LeastNumber
  <2>4. PICK q \in Unmet : n = rank[q]
    BY <2>3
  <2>5. ASSUME NEW p \in Pin, rank[p] < rank[q]
        PROVE  Met(p)
    <3>1. rank[p] \in Nat /\ rank[q] \in Nat
      BY <1>1, <2>4
    <3>2. ~(n <= rank[p])
      BY <2>4, <2>5, <3>1
    <3>3. rank[p] \notin N
      BY <2>3, <3>2
    <3>. QED
      BY <3>3
  <2>. QED
    BY <1>3, <2>4, <2>5
<1>5. PICK p \in Ins(g) : TRUE
  BY DEF Combinational
<1>6. p \in Pin
  BY GateAssumption DEF Ins
<1>7. Met(p)
  BY <1>4, <1>6
<1>. QED
  BY <1>7 DEF Met

\* What a step does to the caller's view.
LEMMA StepSeen ==
  ASSUME [Next]_vars
  PROVE  /\ Idle => (Idle' /\ level' = level) \/ (~Idle' /\ before' = level)
         /\ ~Idle => before' = before /\ fired \subseteq fired'
<1>1. ASSUME NEW v \in [Ins(Root) -> BOOLEAN], Simulate(v)
      PROVE  Idle /\ ~Idle' /\ before' = level
  BY <1>1 DEF Simulate
<1>2. CASE ExploreWire \/ NextPin
  BY <1>2 DEF ExploreWire, NextPin
<1>3. CASE SkipGate \/ FireGate
  BY <1>3 DEF SkipGate, FireGate
<1>4. CASE EnterGate
  BY <1>4 DEF EnterGate
<1>5. CASE NextWave \/ Return
  BY <1>5 DEF NextWave, Return
<1>6. CASE UNCHANGED vars
  BY <1>6 DEF vars
<1>. QED
  BY <1>1, <1>2, <1>3, <1>4, <1>5, <1>6 DEF Next, Step

\* When a call has returned, the levels are the solution for its inputs.
Solved == Idle /\ Root \in fired => Solves(level)

LEMMA SettledSolves ==
  ASSUME TypeOK, Settled, Reaching, NEW rank, Combinational(rank)
  PROVE  Solved
<1>. SUFFICES ASSUME Idle, Root \in fired
              PROVE  Solves(level)
  BY DEF Solved
<1>1. \A g \in Gate : Kind[g] # "CUSTOM" => Consistent(g)
  BY AllSimulated DEF Reaching, Settled
<1>2. level \in [Pin -> BOOLEAN]
  BY DEF TypeOK
<1>3. \A p \in Pin : \A i \in DOMAIN Connections[p] : level[Connections[p][i]] = level[p]
  BY DEF Settled
<1>4. ASSUME NEW g \in Gate, Kind[g] = "NAND"
      PROVE  level[OutPins[g][1]] = ~(level[InPins[g][1]] /\ level[InPins[g][2]])
  BY <1>1, <1>4 DEF Consistent
<1>5. ASSUME NEW g \in Gate, Kind[g] = "SERIALIZED", NEW i \in DOMAIN OutPins[g]
      PROVE  level[OutPins[g][i]] = Table[g][[j \in 1 .. Len(InPins[g]) |-> level[InPins[g][j]]]][i]
  BY <1>1, <1>5 DEF Consistent, InputVector
<1>. QED
  BY <1>2, <1>3, <1>4, <1>5 DEF Solves

LEMMA AlwaysSolved ==
  ASSUME NEW CONSTANT rank, Combinational(rank)
  PROVE  Spec => [](TypeOK /\ Reaching /\ Solved)
<1>1. Init => Reaching
  <2>. SUFFICES ASSUME Init PROVE Reaching
    OBVIOUS
  <2>1. Reached({})
    BY DEF Init, Reached
  <2>. QED
    BY <2>1 DEF Init, Reaching, VisitedFired
<1>2. TypeOK /\ Settled /\ Reaching => Solved
  BY SettledSolves
<1>. QED
  BY <1>1, <1>2, ReachingStep, TypeCorrect, AlwaysSettled, PTL DEF Spec

\* Every circuit without a loop is a chip to its caller, whatever its shape, its parts, the
\* order of its wires and the calls before: one call takes it to the outputs that its gates
\* and wires give for the inputs of that call (Gate::simulate, Gate::handle_custom_type).
THEOREM CombinationalChip ==
  ASSUME NEW CONSTANT rank, Combinational(rank), Computed(Eval)
  PROVE  Spec => ImplementsChip
<1>. DEFINE inp == [p \in Ins(Root) |-> Seen[p]]
            out == [p \in Outs(Root) |-> Seen[p]]
<1>1. Init => Chip!Init
  BY RootPins DEF Init, Chip!Init, Seen
<1>2. ASSUME TypeOK, TypeOK', Reaching, Solved', [Next]_vars
      PROVE  [Chip!Next]_<<inp, out>>
  <2>. DEFINE seen == Seen
  <2>1. CASE seen' = seen
    BY <2>1
  <2>2. CASE ~Idle /\ Idle'
    <3>1. Root \in fired'
      BY <1>2, <2>2, StepSeen DEF Reaching
    <3>2. Solves(level') /\ Seen' = level' /\ level' \in [Pin -> BOOLEAN]
      BY <1>2, <2>2, <3>1 DEF Solved, Seen, TypeOK
    <3>3. inp' = Restricted(level', Ins(Root)) /\ out' = Restricted(level', Outs(Root))
      BY <3>2 DEF Restricted
    <3>4. inp' \in [Ins(Root) -> BOOLEAN]
      BY <3>2, RootPins
    <3>5. out \in [Outs(Root) -> BOOLEAN]
      BY <1>2, RootPins DEF TypeOK, Seen
    <3>. HIDE DEF inp, out
    <3>6. out' = Eval[<<inp', out>>]
      BY <3>2, <3>3, <3>5 DEF Computed
    <3>. QED
      BY <3>4, <3>6 DEF Chip!Next, Chip!Evaluate, inp, out
  <2>. QED
    BY <1>2, <2>1, <2>2, StepSeen DEF Seen
<1>3. Spec => [](TypeOK /\ Reaching /\ Solved)
  BY AlwaysSolved
<1>. QED
  BY <1>1, <1>2, <1>3, PTL DEF Spec, ImplementsChip, Chip!Spec
=============================================================================
