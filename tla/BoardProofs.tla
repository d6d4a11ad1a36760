------------------------------ MODULE BoardProofs ------------------------------
(***************************************************************************)
(* Proofs about the chips of a board: first the builtin clocked chips, for  *)
(* every number of bits, every address space and every order in which the   *)
(* signals reach them that the properties speak of (the ram by itself, then *)
(* each chip in ClockedChips); then the board that loads chips, for every   *)
(* set of chips and files, also of files that need each other or            *)
(* themselves.                                                              *)
(*                                                                          *)
(* Why a chip never comes onto the board before what it is made of: a call  *)
(* that waits for a needed chip loads a chip that is not on the board       *)
(* itself (Waits), since whatever is there has all its needs there too      *)
(* (Closed), and then it would not have to wait. So no call under way       *)
(* creates a chip that an outer call is waiting with, and a call that gives *)
(* up gives up a chip that is not on the board.                             *)
(*                                                                          *)
(* Why no chip is made of itself, though files may need each other: a chip  *)
(* comes onto the board when all it needs is there, so none that is there   *)
(* needs it yet. Hence what is read off a chip's parts and their parts is   *)
(* well defined: it is the least family of tables that is enough.           *)
(***************************************************************************)
EXTENDS Board, ClockedChips, SequenceTheorems, TLAPS

USE DEF Between

-----------------------------------------------------------------------------
(* The ram. *)

LEMMA EndWaveType ==
  ASSUME TypeOK, ~Between, EndWave
  PROVE  wave' \in 0 .. Len(Waves)
BY RamAssumption DEF TypeOK, EndWave

LEMMA BlankType == Blank \in Levels
BY RamAssumption DEF Blank, Levels

LEMMA DeliveredType ==
  ASSUME NEW p \in Levels
  PROVE  p.in \in Word /\ p.address \in Address /\ p.clock \in BOOLEAN /\ p.load \in BOOLEAN
BY DEF Levels

LEMMA TypeStep ==
  ASSUME TypeOK, [Next]_vars
  PROVE  TypeOK'
<1>1. CASE Simulate
  <2>1. PICK p \in Levels : Deliver(p) /\ (Write(p) \/ Keep(p)) /\ Synchronize(p)
                            /\ UNCHANGED before
    BY <1>1 DEF Simulate
  <2>2. /\ p.in \in Word /\ p.address \in Address
        /\ p.clock \in BOOLEAN /\ p.load \in BOOLEAN
    BY DeliveredType
  <2>3. data' \in [Address -> Word] /\ writes' \in 0 .. 2
    <3>1. CASE Write(p)
      BY <2>2, <3>1 DEF Write, TypeOK
    <3>2. CASE Keep(p)
      BY <3>2 DEF Keep, TypeOK
    <3>. QED
      BY <2>1, <3>1, <3>2
  <2>4. pin' \in Levels /\ immutable' \in BOOLEAN /\ out' \in Word
    BY <2>1, <2>2, <2>3 DEF Synchronize
  <2>5. wave' \in 0 .. Len(Waves) /\ wire' = wire
    BY <2>1, EndWaveType DEF Deliver
  <2>. QED
    BY <2>1, <2>3, <2>4, <2>5 DEF TypeOK
<1>2. CASE Evaluate
  <2>1. PICK w \in Levels : /\ Call(w)
                            /\ before' = [wire |-> wire, data |-> data, out |-> out]
                            /\ writes' = IF w.clock THEN writes ELSE 0
                            /\ UNCHANGED chip
    BY <1>2 DEF Evaluate
  <2>2. Len(Waves) >= 1
    <3>1. "in" \in UNION {Waves[k] : k \in DOMAIN Waves}
      BY RamAssumption DEF Signals
    <3>2. PICK k \in DOMAIN Waves : "in" \in Waves[k]
      BY <3>1
    <3>. QED
      BY <3>2, RamAssumption
  <2>3. wave' \in 0 .. Len(Waves) /\ wire' \in Levels /\ pin' \in Levels
    BY <2>1, <2>2, RamAssumption DEF Call, TypeOK
  <2>4. writes' \in 0 .. 2
    BY <2>1 DEF TypeOK
  <2>. QED
    BY <2>1, <2>3, <2>4 DEF TypeOK, chip
<1>3. CASE Quiet
  <2>1. wave' \in 0 .. Len(Waves)
    BY <1>3, EndWaveType DEF Quiet, Pass
  <2>. QED
    BY <1>3, <2>1 DEF Quiet, Pass, TypeOK, chip
<1>4. CASE UNCHANGED vars
  BY <1>4 DEF vars, chip, TypeOK
<1>. QED
  BY <1>1, <1>2, <1>3, <1>4 DEF Next

\* The pins, the words and the flag of the memory keep their types.
THEOREM TypeCorrect == Spec => []TypeOK
<1>1. Init => TypeOK
  BY BlankType, RamAssumption DEF Init, TypeOK
<1>. QED
  BY <1>1, TypeStep, PTL DEF Spec

-----------------------------------------------------------------------------
\* The chip is immutable exactly while its clock pin is up, and it has written
\* in this cycle only if that pin and the wire that leads to it are up.
Protected ==
  /\ immutable = pin.clock
  /\ writes = 0 \/ (writes = 1 /\ pin.clock /\ wire.clock)

LEMMA ProtectedStep ==
  ASSUME TypeOK, Protected, [Next]_vars
  PROVE  Protected'
<1>1. CASE Simulate
  <2>1. PICK p \in Levels : Deliver(p) /\ (Write(p) \/ Keep(p)) /\ Synchronize(p)
                            /\ UNCHANGED before
    BY <1>1 DEF Simulate
  <2>2. pin' = p /\ immutable' = p.clock /\ wire' = wire
    BY <2>1 DEF Synchronize, Deliver
  <2>3. p.clock = pin.clock \/ p.clock = wire.clock
    <3>1. "clock" \in DOMAIN pin
      BY DEF TypeOK, Levels
    <3>2. p \in Arrivals /\ wave \in DOMAIN Waves
      BY <2>1, RamAssumption DEF Deliver, TypeOK
    <3>3. CASE "clock" \in Waves[wave]
      <4>1. ~ArrivesAgain("clock")
        BY <3>2, <3>3, ClockAssumption, RamAssumption DEF ArrivesAgain
      <4>. QED
        BY <3>1, <3>2, <3>3, <4>1 DEF Arrivals
    <3>4. CASE "clock" \notin Waves[wave]
      BY <3>1, <3>2, <3>4 DEF Arrivals
    <3>. QED
      BY <3>3, <3>4
  <2>4. CASE Write(p)
    <3>1. ~pin.clock /\ p.clock
      BY <2>4 DEF Write, Storing, Protected
    <3>2. writes = 0 /\ writes' = 1
      BY <2>4, <3>1 DEF Write, Protected
    <3>. QED
      BY <2>2, <2>3, <3>1, <3>2 DEF Protected
  <2>5. CASE Keep(p)
    BY <2>2, <2>3, <2>5 DEF Keep, Protected
  <2>. QED
    BY <2>1, <2>4, <2>5
<1>2. CASE Evaluate
  <2>1. PICK w \in Levels : /\ Call(w)
                            /\ writes' = IF w.clock THEN writes ELSE 0
                            /\ UNCHANGED chip
    BY <1>2 DEF Evaluate
  <2>2. w.clock \in BOOLEAN
    BY DeliveredType
  <2>. QED
    BY <2>1, <2>2 DEF Call, Protected, chip
<1>3. CASE Quiet
  BY <1>3 DEF Quiet, Pass, Protected, chip
<1>4. CASE UNCHANGED vars
  BY <1>4 DEF vars, chip, Protected
<1>. QED
  BY <1>1, <1>2, <1>3, <1>4 DEF Next

\* However the signals arrive, and however many calls are made with the clock up,
\* the memory stores at most one word before the clock falls (ram16k.hpp:80-86).
THEOREM AtMostOneWrite == Spec => []WrittenOnce
<1>1. Init => Protected
  <2>1. Blank.clock = FALSE
    BY DEF Blank
  <2>. QED
    BY <2>1 DEF Init, Protected
<1>2. Protected => WrittenOnce
  BY DEF Protected, WrittenOnce
<1>. QED
  BY <1>1, <1>2, TypeCorrect, ProtectedStep, PTL DEF Spec
-----------------------------------------------------------------------------
\* The two forward chips in scripts/computer.hdl are to have the clock come behind all
\* other inputs: nothing arrives after it.
ClockLast == Last("clock", Waves)

\* The signal has arrived for the last time in this call.
Arrived(s, w) == \A k \in DOMAIN w : s \in w[k] => k < wave

\* During a call the words are still those that the caller saw, since the clock has not
\* come; the pins that no signal will reach any more are settled, and all are between calls.
Settling ==
  /\ out = data[pin.address]
  /\ Between => pin = wire
  /\ ~Between => /\ data = before.data
                 /\ pin.clock = before.wire.clock
                 /\ \A s \in Signals : Arrived(s, Waves) => pin[s] = wire[s]

LEMMA LevelsEqual ==
  ASSUME NEW p \in Levels, NEW q \in Levels, \A s \in Signals : p[s] = q[s]
  PROVE  p = q
BY DEF Levels, Signals

LEMMA SomeWave ==
  /\ Len(Waves) \in Nat \ {0} /\ DOMAIN Waves = 1 .. Len(Waves)
  /\ \A s \in Signals : \E k \in DOMAIN Waves : s \in Waves[k]
<1>1. \A s \in Signals : \E k \in DOMAIN Waves : s \in Waves[k]
  BY RamAssumption
<1>2. "in" \in Signals
  BY DEF Signals
<1> QED
  BY <1>1, <1>2, RamAssumption

\* What arrives agrees with what is settled; the clock comes in the last wave, and then
\* everything is settled.
LEMMA Arriving ==
  ASSUME TypeOK, Settling, ClockLast, ~Between, NEW p \in Arrivals
  PROVE  /\ p \in Levels
         /\ \A s \in Signals : (\A k \in DOMAIN Waves : s \in Waves[k] => k < wave + 1) => p[s] = wire[s]
         /\ wave # Len(Waves) => p.clock = pin.clock
         /\ wave = Len(Waves) => p = wire
<1>1. wave \in 1 .. Len(Waves) /\ DOMAIN Waves = 1 .. Len(Waves)
  BY SomeWave DEF TypeOK
<1>2. p \in Levels /\ pin \in Levels /\ wire \in Levels /\ DOMAIN pin = Signals
  BY DEF Arrivals, TypeOK, Levels, Signals
<1>3. ASSUME NEW s \in Signals, \A k \in DOMAIN Waves : s \in Waves[k] => k < wave + 1
      PROVE  p[s] = wire[s]
  <2>1. CASE s \in Waves[wave]
    <3>1. ~ArrivesAgain(s)
      BY <1>1, <1>3 DEF ArrivesAgain
    <3> QED
      BY <1>2, <2>1, <3>1 DEF Arrivals
  <2>2. CASE s \notin Waves[wave]
    <3>1. Arrived(s, Waves)
      BY <1>1, <1>3, <2>2 DEF Arrived
    <3> QED
      BY <1>2, <2>2, <3>1 DEF Arrivals, Settling
  <2> QED
    BY <2>1, <2>2
<1>4. ASSUME wave # Len(Waves)
      PROVE  p.clock = pin.clock
  <2>1. "clock" \notin Waves[wave]
    BY <1>1, <1>4 DEF ClockLast, Last
  <2> QED
    BY <1>2, <2>1 DEF Arrivals, Signals
<1>5. ASSUME wave = Len(Waves)
      PROVE  p = wire
  <2>1. \A s \in Signals : p[s] = wire[s]
    BY <1>1, <1>3, <1>5
  <2> QED
    BY <1>2, <2>1, LevelsEqual
<1> QED
  BY <1>2, <1>3, <1>4, <1>5


\* A wave that ends leaves the signals that it brought for the last time arrived.
LEMMA WaveEnds ==
  ASSUME TypeOK, ~Between, EndWave
  PROVE  /\ wave = Len(Waves) => wave' = 0
         /\ wave # Len(Waves) => wave' = wave + 1 /\ wave' # 0
<1>1. wave \in Nat /\ wave # 0
  BY SomeWave DEF TypeOK
<1>2. wave + 1 # 0
  BY <1>1
<1> QED
  BY <1>2 DEF EndWave

\* The chip stores in the last wave or not at all.
LEMMA SimulateStep ==
  ASSUME TypeOK, Protected, Settling, ClockLast, NEW p \in Levels, Deliver(p),
         Write(p) \/ Keep(p), Synchronize(p)
  PROVE  /\ wave # Len(Waves) => data' = data
         /\ wave = Len(Waves) =>
              /\ p = wire
              /\ data' = IF RisingEdge(before.wire, wire)
                         THEN [before.data EXCEPT ![wire.address] = wire.in] ELSE before.data
         /\ out' = data'[p.address] /\ pin' = p /\ immutable' = p.clock
<1>1. ~Between /\ p \in Arrivals
  BY DEF Deliver
<1>2. immutable = pin.clock /\ data = before.data /\ pin.clock = before.wire.clock
  BY <1>1 DEF Protected, Settling
<1>3. CASE wave # Len(Waves)
  <2>1. Keep(p)
    BY <1>1, <1>2, <1>3, Arriving DEF Write, Storing
  <2> QED
    BY <1>3, <2>1 DEF Keep, Synchronize
<1>4. CASE wave = Len(Waves)
  <2>1. p = wire
    BY <1>1, <1>4, Arriving
  <2>2. Storing(p) <=> RisingEdge(before.wire, wire)
    BY <1>2, <2>1 DEF Storing, RisingEdge
  <2>3. data' = IF RisingEdge(before.wire, wire)
                THEN [before.data EXCEPT ![wire.address] = wire.in] ELSE before.data
    BY <1>2, <2>1, <2>2 DEF Write, Keep
  <2> QED
    BY <1>4, <2>1, <2>3 DEF Synchronize
<1> QED
  BY <1>3, <1>4

LEMMA SettlingStep ==
  ASSUME TypeOK, Protected, Settling, ClockLast, [Next]_vars
  PROVE  Settling'
<1>1. CASE Simulate
  <2>1. PICK p \in Levels : Deliver(p) /\ (Write(p) \/ Keep(p)) /\ Synchronize(p)
                            /\ UNCHANGED before
    BY <1>1 DEF Simulate
  <2>2. ~Between /\ p \in Arrivals /\ EndWave /\ wire' = wire /\ before' = before
    BY <2>1 DEF Deliver
  <2>3. /\ wave # Len(Waves) => data' = data
        /\ wave = Len(Waves) => p = wire
        /\ out' = data'[p.address] /\ pin' = p
    BY <2>1, SimulateStep
  <2>4. CASE wave = Len(Waves)
    BY <2>2, <2>3, <2>4, WaveEnds DEF Settling
  <2>5. CASE wave # Len(Waves)
    <3>1. wave' = wave + 1 /\ ~Between'
      BY <2>2, <2>5, WaveEnds
    <3>2. data' = before.data /\ p.clock = before.wire.clock
      BY <2>2, <2>3, <2>5, Arriving DEF Settling
    <3>3. \A s \in Signals : Arrived(s, Waves)' => p[s] = wire[s]
      BY <2>2, <3>1, Arriving DEF Arrived
    <3> QED
      BY <2>2, <2>3, <3>1, <3>2, <3>3 DEF Settling
  <2> QED
    BY <2>4, <2>5
<1>2. CASE Evaluate
  <2>1. PICK w \in Levels : /\ Call(w)
                            /\ before' = [wire |-> wire, data |-> data, out |-> out]
                            /\ UNCHANGED chip
    BY <1>2 DEF Evaluate
  <2>2. Between /\ pin' = pin /\ pin = wire /\ wave' = 1 /\ data' = data /\ out' = out
    BY <2>1 DEF Call, chip, Settling
  <2>3. \A s \in Signals : ~Arrived(s, Waves)'
    <3>1. ASSUME NEW s \in Signals, Arrived(s, Waves)' PROVE FALSE
      <4>1. PICK k \in DOMAIN Waves : s \in Waves[k]
        BY SomeWave
      <4>2. k < 1
        BY <2>2, <3>1, <4>1 DEF Arrived
      <4> QED
        BY <4>2, SomeWave
    <3> QED
      BY <3>1
  <2> QED
    BY <2>1, <2>2, <2>3 DEF Settling
<1>3. CASE Quiet
  <2>1. PICK p \in Arrivals : ~Fires(p)
    BY <1>3 DEF Quiet, Pass
  <2>2. /\ ~Between /\ EndWave
        /\ UNCHANGED <<wire, pin, data, out, before>>
    BY <1>3 DEF Quiet, Pass, chip
  <2>3. p = pin
    BY <2>1 DEF Fires
  <2>4. CASE wave = Len(Waves)
    BY <2>1, <2>2, <2>3, <2>4, WaveEnds, Arriving DEF Settling
  <2>5. CASE wave # Len(Waves)
    <3>1. wave' = wave + 1 /\ ~Between'
      BY <2>2, <2>5, WaveEnds
    <3>2. \A s \in Signals : Arrived(s, Waves)' => pin[s] = wire[s]
      BY <2>1, <2>2, <2>3, <3>1, Arriving DEF Arrived
    <3> QED
      BY <2>2, <3>1, <3>2 DEF Settling
  <2> QED
    BY <2>4, <2>5
<1>4. CASE UNCHANGED vars
  BY <1>4 DEF vars, chip, Settling, Arrived
<1> QED
  BY <1>1, <1>2, <1>3, <1>4 DEF Next

\* A call of simulate() is one step of the memory, which the wave that ends the call
\* takes; all others change nothing that a caller sees.
LEMMA MemoryStep ==
  ASSUME TypeOK, Protected, Settling, ClockLast, [Next]_vars
  PROVE  [Memory!Next]_<<IF Between THEN wire ELSE before.wire,
                         IF Between THEN data ELSE before.data,
                         IF Between THEN out ELSE before.out>>
<1> DEFINE Evaluated ==
      /\ wire' \in Levels /\ Between' /\ ~Between
      /\ data' = IF RisingEdge(before.wire, wire')
                 THEN [before.data EXCEPT ![wire'.address] = wire'.in] ELSE before.data
      /\ out' = data'[wire'.address]
    Unseen ==
      /\ (IF Between THEN wire ELSE before.wire)' = IF Between THEN wire ELSE before.wire
      /\ (IF Between THEN data ELSE before.data)' = IF Between THEN data ELSE before.data
      /\ (IF Between THEN out ELSE before.out)' = IF Between THEN out ELSE before.out
<1>1. SUFFICES Evaluated \/ Unseen
  <2>1. ASSUME Evaluated PROVE Memory!Next
    <3>1. Memory!Evaluate(wire')
      BY <2>1 DEF Memory!Evaluate, AddressOf
    <3> QED
      BY <2>1, <3>1 DEF Memory!Next
  <2> QED
    BY <2>1
<1>2. CASE Simulate
  <2>1. PICK p \in Levels : Deliver(p) /\ (Write(p) \/ Keep(p)) /\ Synchronize(p)
                            /\ UNCHANGED before
    BY <1>2 DEF Simulate
  <2>2. ~Between /\ EndWave /\ wire' = wire /\ before' = before /\ wire \in Levels
    BY <2>1 DEF Deliver, TypeOK
  <2>3. CASE wave = Len(Waves)
    <3>1. Evaluated
      BY <2>1, <2>2, <2>3, SimulateStep, WaveEnds
    <3> QED
      BY <3>1
  <2>4. CASE wave # Len(Waves)
    <3>1. Unseen
      BY <2>2, <2>4, WaveEnds
    <3> QED
      BY <3>1
  <2> QED
    BY <2>3, <2>4
<1>3. CASE Evaluate
  <2>1. Unseen
    BY <1>3 DEF Evaluate, Call, chip
  <2> QED
    BY <2>1
<1>4. CASE Quiet
  <2>1. PICK p \in Arrivals : ~Fires(p)
    BY <1>4 DEF Quiet, Pass
  <2>2. /\ ~Between /\ EndWave /\ wire \in Levels
        /\ UNCHANGED <<wire, pin, data, out, before>>
    BY <1>4 DEF Quiet, Pass, chip, TypeOK
  <2>3. CASE wave = Len(Waves)
    <3>1. pin = wire
      BY <2>1, <2>2, <2>3, Arriving DEF Fires
    <3>2. ~RisingEdge(before.wire, wire) /\ data = before.data /\ out = data[wire.address]
      BY <2>2, <3>1 DEF RisingEdge, Settling
    <3>3. Evaluated
      BY <2>2, <2>3, <3>2, WaveEnds
    <3> QED
      BY <3>3
  <2>4. CASE wave # Len(Waves)
    <3>1. Unseen
      BY <2>2, <2>4, WaveEnds
    <3> QED
      BY <3>1
  <2> QED
    BY <2>3, <2>4
<1>5. CASE UNCHANGED vars
  <2>1. Unseen
    BY <1>5 DEF vars, chip
  <2> QED
    BY <2>1
<1> QED
  BY <1>2, <1>3, <1>4, <1>5 DEF Next

LEMMA RamStarts ==
  ASSUME Init
  PROVE  TypeOK /\ Protected /\ Settling /\ Memory!Init
<1>1. Between /\ Blank \in Levels /\ Blank.clock = FALSE /\ Blank.address = 0 /\ 0 \in Address
  BY BlankType, RamAssumption DEF Init, Blank
<1>2. TypeOK
  BY BlankType, RamAssumption DEF Init, TypeOK
<1>3. Protected /\ Settling
  BY <1>1 DEF Init, Protected, Settling
<1>4. Memory!Init
  BY <1>1 DEF Init, Memory!Init
<1> QED
  BY <1>2, <1>3, <1>4

\* Where the clock comes last, the chip is a memory to whoever simulates the circuit it
\* is in: each call stores on the rising edge of the clock, at the address and the word
\* the circuit settles on, and shows the word at that address, however address, word and
\* load glitch before the clock comes (Ram16k::handle_ram_16k_impl).
THEOREM ImplementsMemory ==
  ASSUME ClockLast
  PROVE  Spec => Memory!Spec
<1>1. Init => TypeOK /\ Protected /\ Settling /\ Memory!Init
  BY RamStarts
<1>2. TypeOK /\ Protected /\ Settling /\ [Next]_vars
        => /\ TypeOK' /\ Protected' /\ Settling'
           /\ [Memory!Next]_<<IF Between THEN wire ELSE before.wire,
                              IF Between THEN data ELSE before.data,
                              IF Between THEN out ELSE before.out>>
  BY TypeStep, ProtectedStep, SettlingStep, MemoryStep
<1> QED
  BY <1>1, <1>2, PTL DEF Spec, Memory!Spec

-----------------------------------------------------------------------------
(* What arrives at a chip, for all four. *)

ArrivalsOf(levels, w) ==
  {a \in levels : \A s \in DOMAIN pin :
     IF s \notin w[wave] THEN a[s] = pin[s]
                         ELSE a[s] = wire[s] \/ \E k \in wave + 1 .. Len(w) : s \in w[k]}

\* A signal that does not arrive stays, and one that arrives for the last time is settled.
LEMMA Delivered ==
  ASSUME NEW S, NEW w \in Orders(S), wave \in 1 .. Len(w), DOMAIN pin = S,
         NEW levels, NEW a \in ArrivalsOf(levels, w), NEW s \in S
  PROVE  /\ a \in levels
         /\ s \notin w[wave] => a[s] = pin[s]
         /\ s \in w[wave] /\ (\A k \in DOMAIN w : s \in w[k] => k <= wave) => a[s] = wire[s]
<1>1. Len(w) \in Nat /\ DOMAIN w = 1 .. Len(w)
  BY DEF Orders
<1>2. a \in levels /\ (IF s \notin w[wave] THEN a[s] = pin[s]
                       ELSE a[s] = wire[s] \/ \E k \in wave + 1 .. Len(w) : s \in w[k])
  BY DEF ArrivalsOf
<1>3. ASSUME \A k \in DOMAIN w : s \in w[k] => k <= wave
      PROVE  ~ \E k \in wave + 1 .. Len(w) : s \in w[k]
  BY <1>1, <1>3
<1>. QED
  BY <1>2, <1>3

\* Every order has a wave, and the signals of an order come in one of its waves.
LEMMA OrderHasWaves ==
  ASSUME NEW S, NEW w \in Orders(S), NEW s \in S
  PROVE  /\ Len(w) \in Nat \ {0} /\ DOMAIN w = 1 .. Len(w)
         /\ \E k \in DOMAIN w : s \in w[k]
BY DEF Orders

-----------------------------------------------------------------------------
(* The register. *)

RegisterTypes(p) ==
  /\ wave \in 0 .. Len(p.waves)
  /\ DOMAIN pin = RegisterSignals
  /\ pin.clock \in BOOLEAN /\ wire.clock \in BOOLEAN
  /\ stored => out = data

\* The clock pin follows the clock from the first wave on, and a register that has stored since
\* the clock was down is written until its clock pin falls.
ClockFollowed(p) ==
  /\ pin.clock = IF wave = 1 THEN before.clock ELSE wire.clock
  /\ stores \in {0, 1}
  /\ stores = 1 => wire.clock /\ pin.clock /\ written = 1
  /\ ~pin.clock => ~pin.load /\ written = 0

\* While the clock rises there is nothing to store until load comes, and by then the input is
\* settled.
LoadAwaited(p) ==
  /\ ~Between /\ Arrived("in", p.waves) => pin.in = wire.in
  /\ ~Between /\ ~before.clock =>
       data = before.data /\ (pin.clock => ~pin.load /\ written = 0)
  /\ Register(p)!RisingEdgeStores

RegisterInv(p) ==
  /\ RegisterTypes(p)
  /\ First("clock", p.waves) => ClockFollowed(p)
  /\ First("clock", p.waves) /\ Last("load", p.waves) => LoadAwaited(p)

\* A wave that does not end a call, and one that does.
NextWave(w) == wave' = IF wave = Len(w) THEN 0 ELSE wave + 1

LEMMA NextWaveType ==
  ASSUME NEW S, NEW w \in Orders(S), wave \in 1 .. Len(w), NextWave(w)
  PROVE  /\ wave' \in 0 .. Len(w) /\ wave' # 1
         /\ wave = Len(w) <=> wave' = 0
<1>1. Len(w) \in Nat
  BY DEF Orders
<1>. QED
  BY <1>1 DEF NextWave

\* What a step of the register does with the levels that have arrived.
Handled(p, a) ==
  \/ Register(p)!Store(a)
  \/ Register(p)!Hold(a)
  \/ Register(p)!Reopen(a)
  \/ a = pin /\ wave # 1 /\ UNCHANGED <<pin, data, written, out, stores, stored>>

RegisterWave(p, a) ==
  /\ ~Between /\ NextWave(p.waves) /\ UNCHANGED <<wire, before>>
  /\ a \in ArrivalsOf(Register(p)!Levels, p.waves)
  /\ Handled(p, a)

RegisterCall(p) ==
  /\ Between /\ wave' = 1 /\ UNCHANGED <<pin, data, written, out, stored>>
  /\ wire'.clock \in BOOLEAN
  /\ before' = [clock |-> wire.clock, data |-> data]
  /\ stores' = IF wire'.clock THEN stores ELSE 0

LEMMA RegisterSteps ==
  ASSUME NEW p, [Register(p)!Next]_(Register(p)!vars)
  PROVE  \/ \E a : RegisterWave(p, a)
         \/ RegisterCall(p)
         \/ UNCHANGED <<wire, pin, wave, data, written, out, stores, stored, before>>
<1>1. Register(p)!Arrivals = ArrivalsOf(Register(p)!Levels, p.waves)
  BY DEF Register!Arrivals, Register!ArrivesAgain, ArrivalsOf
<1>2. CASE Register(p)!Simulate
  <2>1. PICK a \in Register(p)!Levels :
          /\ Register(p)!Deliver(a)
          /\ Register(p)!Store(a) \/ Register(p)!Hold(a) \/ Register(p)!Reopen(a)
          /\ UNCHANGED before
    BY <1>2 DEF Register!Simulate
  <2>2. RegisterWave(p, a)
    BY <1>1, <2>1 DEF RegisterWave, Handled, NextWave, Register!Deliver, Register!EndWave, Register!Between
  <2>. QED
    BY <2>2
<1>3. CASE Register(p)!Evaluate
  <2>1. PICK w \in Register(p)!Levels :
          /\ Register(p)!Call(w)
          /\ before' = [clock |-> wire.clock, data |-> data]
          /\ stores' = IF w.clock THEN stores ELSE 0
          /\ UNCHANGED <<Register(p)!chip, stored>>
    BY <1>3 DEF Register!Evaluate
  <2>2. w.clock \in BOOLEAN
    BY DEF Register!Levels
  <2>3. RegisterCall(p)
    BY <2>1, <2>2 DEF RegisterCall, Register!Call, Register!Between, Register!chip
  <2>. QED
    BY <2>3
<1>4. CASE Register(p)!Quiet
  <2>1. PICK a \in Register(p)!Arrivals : ~Register(p)!Fires(a)
    BY <1>4 DEF Register!Quiet, Register!Pass
  <2>2. RegisterWave(p, a)
    BY <1>1, <1>4, <2>1 DEF RegisterWave, Handled, NextWave, Register!Quiet, Register!Pass,
      Register!Fires, Register!EndWave, Register!Between, Register!chip
  <2>. QED
    BY <2>2
<1>5. CASE UNCHANGED Register(p)!vars
  BY <1>5 DEF Register!vars, Register!chip
<1>. QED
  BY <1>2, <1>3, <1>4, <1>5 DEF Register!Next

\* What has arrived at the register.
LEMMA RegisterArrival ==
  ASSUME NEW p, p.waves \in Orders(RegisterSignals), RegisterTypes(p), ~Between,
         NEW a \in ArrivalsOf(Register(p)!Levels, p.waves)
  PROVE  /\ DOMAIN a = RegisterSignals /\ a.clock \in BOOLEAN /\ a.load \in BOOLEAN
         /\ First("clock", p.waves) /\ ClockFollowed(p) => a.clock = wire.clock
         /\ Last("load", p.waves) => a.load = IF wave = Len(p.waves) THEN wire.load ELSE pin.load
         /\ LoadAwaited(p) /\ (\A k \in DOMAIN p.waves : "in" \in p.waves[k] => k <= wave)
              => a.in = wire.in
<1> DEFINE w == p.waves
<1>1. /\ Len(w) \in Nat \ {0} /\ DOMAIN w = 1 .. Len(w) /\ wave \in 1 .. Len(w)
      /\ "clock" \in RegisterSignals /\ "load" \in RegisterSignals /\ "in" \in RegisterSignals
  BY OrderHasWaves DEF RegisterTypes, RegisterSignals
<1>2. \A s \in RegisterSignals :
        /\ a \in Register(p)!Levels
        /\ s \notin w[wave] => a[s] = pin[s]
        /\ s \in w[wave] /\ (\A k \in DOMAIN w : s \in w[k] => k <= wave) => a[s] = wire[s]
  BY <1>1, Delivered DEF RegisterTypes
<1>3. DOMAIN a = RegisterSignals /\ a.clock \in BOOLEAN /\ a.load \in BOOLEAN
  BY <1>1, <1>2 DEF Register!Levels, RegisterSignals
<1>4. ASSUME First("clock", w), ClockFollowed(p)
      PROVE  a.clock = wire.clock
  <2>1. CASE wave = 1
    BY <1>1, <1>2, <1>4, <2>1 DEF First
  <2>2. CASE wave # 1
    BY <1>1, <1>2, <1>4, <2>2 DEF First, ClockFollowed
  <2>. QED
    BY <2>1, <2>2
<1>5. ASSUME Last("load", w)
      PROVE  a.load = IF wave = Len(w) THEN wire.load ELSE pin.load
  BY <1>1, <1>2, <1>5 DEF Last
<1>6. ASSUME LoadAwaited(p), \A k \in DOMAIN w : "in" \in w[k] => k <= wave
      PROVE  a.in = wire.in
  <2>1. CASE "in" \in w[wave]
    BY <1>1, <1>2, <1>6, <2>1
  <2>2. CASE "in" \notin w[wave]
    <3>1. Arrived("in", w)
      BY <1>1, <1>6, <2>2 DEF Arrived
    <3>. QED
      BY <1>1, <1>2, <1>6, <2>2, <3>1 DEF LoadAwaited
  <2>. QED
    BY <2>1, <2>2
<1>. QED
  BY <1>3, <1>4, <1>5, <1>6

\* With the clock pin down the register is reopened, otherwise it takes the levels as they are
\* and stores what is loaded, once.
LEMMA RegisterHandles ==
  ASSUME NEW p, RegisterTypes(p), NEW a, RegisterWave(p, a),
         DOMAIN a = RegisterSignals, a.clock \in BOOLEAN, a.load \in BOOLEAN
  PROVE  /\ DOMAIN pin' = RegisterSignals /\ pin'.clock = a.clock /\ pin'.in = a.in
         /\ a.clock => pin'.load = a.load
         /\ Register(p)!Storing(a) =>
              \/ data' = a.in /\ written' = 1 /\ stores' = IF stores < 2 THEN stores + 1 ELSE stores
              \/ wave # 1 /\ a = pin /\ UNCHANGED <<data, written, stores>>
         /\ a.clock /\ ~Register(p)!Storing(a) => UNCHANGED <<data, written, stores>>
         /\ ~a.clock => \/ ~pin'.load /\ written' = 0 /\ UNCHANGED <<data, stores>>
                        \/ pin' = pin /\ a = pin /\ wave # 1 /\ UNCHANGED <<data, written, stores>>
         /\ (stored => out = data) => (stored' => out' = data')
<1>1. CASE Register(p)!Store(a)
  BY <1>1 DEF Register!Store, Register!Storing
<1>2. CASE Register(p)!Hold(a)
  BY <1>2 DEF Register!Hold, Register!chip
<1>3. CASE Register(p)!Reopen(a)
  BY <1>3 DEF Register!Reopen, Register!Storing, RegisterSignals
<1>4. CASE a = pin /\ wave # 1 /\ UNCHANGED <<pin, data, written, out, stores, stored>>
  BY <1>4
<1>5. Handled(p, a)
  BY DEF RegisterWave
<1>. QED
  BY ONLY <1>1, <1>2, <1>3, <1>4, <1>5 DEF Handled

LEMMA RegisterTypesStep ==
  ASSUME NEW p, p.waves \in Orders(RegisterSignals), RegisterTypes(p),
         [Register(p)!Next]_(Register(p)!vars)
  PROVE  RegisterTypes(p)'
<1>1. Len(p.waves) \in Nat \ {0}
  BY OrderHasWaves DEF RegisterSignals
<1>2. ASSUME NEW a, RegisterWave(p, a)
      PROVE  RegisterTypes(p)'
  <2>1. ~Between /\ NextWave(p.waves) /\ wire' = wire /\ a \in ArrivalsOf(Register(p)!Levels, p.waves)
    BY <1>2 DEF RegisterWave
  <2>2. DOMAIN a = RegisterSignals /\ a.clock \in BOOLEAN /\ a.load \in BOOLEAN
    BY <2>1, RegisterArrival
  <2>3. DOMAIN pin' = RegisterSignals /\ pin'.clock = a.clock /\ (stored' => out' = data')
    BY <1>2, <2>2, RegisterHandles DEF RegisterTypes
  <2>4. wave' \in 0 .. Len(p.waves)
    BY <1>1, <2>1, NextWaveType DEF RegisterTypes
  <2>. QED
    BY <2>1, <2>2, <2>3, <2>4 DEF RegisterTypes
<1>3. CASE RegisterCall(p)
  BY <1>1, <1>3 DEF RegisterCall, RegisterTypes
<1>4. CASE UNCHANGED <<wire, pin, wave, data, written, out, stores, stored, before>>
  BY <1>4 DEF RegisterTypes
<1>. QED
  BY <1>2, <1>3, <1>4, RegisterSteps

LEMMA ClockFollowedStep ==
  ASSUME NEW p, p.waves \in Orders(RegisterSignals), RegisterTypes(p),
         First("clock", p.waves), ClockFollowed(p), [Register(p)!Next]_(Register(p)!vars)
  PROVE  ClockFollowed(p)'
<1>1. ASSUME NEW a, RegisterWave(p, a)
      PROVE  ClockFollowed(p)'
  <2>1. ~Between /\ NextWave(p.waves) /\ wire' = wire /\ a \in ArrivalsOf(Register(p)!Levels, p.waves)
    BY <1>1 DEF RegisterWave
  <2>2. DOMAIN a = RegisterSignals /\ a.clock \in BOOLEAN /\ a.load \in BOOLEAN /\ a.clock = wire.clock
    BY <2>1, RegisterArrival
  <2>3. wave' # 1 /\ pin'.clock = wire.clock
    <3>1. wave \in 1 .. Len(p.waves) /\ wave' # 1
      BY <2>1, NextWaveType DEF RegisterTypes
    <3>. QED
      BY <1>1, <2>2, <3>1, RegisterHandles
  <2>4. CASE Register(p)!Storing(a)
    <3>1. written < 1 /\ a.clock
      BY <2>4 DEF Register!Storing
    <3>2. stores = 0
      BY <3>1 DEF ClockFollowed
    <3>3. CASE UNCHANGED <<data, written, stores>>
      BY <2>1, <2>2, <2>3, <3>1, <3>2, <3>3 DEF ClockFollowed
    <3>4. CASE written' = 1 /\ stores' = IF stores < 2 THEN stores + 1 ELSE stores
      BY <2>1, <2>2, <2>3, <3>1, <3>2, <3>4 DEF ClockFollowed
    <3>. QED
      BY <1>1, <2>2, <2>4, <3>3, <3>4, RegisterHandles
  <2>5. CASE a.clock /\ ~Register(p)!Storing(a)
    <3>1. UNCHANGED <<data, written, stores>>
      BY <1>1, <2>2, <2>5, RegisterHandles
    <3>. QED
      BY <2>1, <2>2, <2>3, <2>5, <3>1 DEF ClockFollowed
  <2>6. CASE ~a.clock
    <3>1. stores = 0 /\ stores' = 0
      BY <1>1, <2>2, <2>6, RegisterHandles DEF ClockFollowed
    <3>2. ~pin'.load /\ written' = 0
      BY <1>1, <2>2, <2>6, RegisterHandles DEF ClockFollowed
    <3>. QED
      BY <2>1, <2>2, <2>3, <2>6, <3>1, <3>2 DEF ClockFollowed
  <2>. QED
    BY <2>2, <2>4, <2>5, <2>6
<1>2. CASE RegisterCall(p)
  BY <1>2 DEF RegisterCall, ClockFollowed, RegisterTypes
<1>3. CASE UNCHANGED <<wire, pin, wave, data, written, out, stores, stored, before>>
  BY <1>3 DEF ClockFollowed
<1>. QED
  BY <1>1, <1>2, <1>3, RegisterSteps

LEMMA LoadAwaitedStep ==
  ASSUME NEW p, p.waves \in Orders(RegisterSignals), RegisterTypes(p),
         First("clock", p.waves), ClockFollowed(p),
         Last("load", p.waves), LoadAwaited(p), [Register(p)!Next]_(Register(p)!vars)
  PROVE  LoadAwaited(p)'
<1>1. /\ Len(p.waves) \in Nat \ {0} /\ DOMAIN p.waves = 1 .. Len(p.waves)
      /\ \E k \in DOMAIN p.waves : "in" \in p.waves[k]
  BY OrderHasWaves DEF RegisterSignals
<1>2. ASSUME NEW a, RegisterWave(p, a)
      PROVE  LoadAwaited(p)'
  <2>1. /\ ~Between /\ NextWave(p.waves) /\ wire' = wire /\ before' = before
        /\ a \in ArrivalsOf(Register(p)!Levels, p.waves)
    BY <1>2 DEF RegisterWave
  <2>2. wave \in 1 .. Len(p.waves) /\ (wave = Len(p.waves) <=> wave' = 0)
    BY <2>1, NextWaveType DEF RegisterTypes
  <2>3. /\ DOMAIN a = RegisterSignals /\ a.clock \in BOOLEAN /\ a.load \in BOOLEAN
        /\ a.clock = wire.clock
        /\ a.load = IF wave = Len(p.waves) THEN wire.load ELSE pin.load
        /\ (\A k \in DOMAIN p.waves : "in" \in p.waves[k] => k <= wave) => a.in = wire.in
    BY <2>1, RegisterArrival
  <2>4. pin'.in = a.in /\ pin'.clock = a.clock /\ (a.clock => pin'.load = a.load)
    BY <1>2, <2>3, RegisterHandles
  <2>5. ~Between' /\ Arrived("in", p.waves)' => pin'.in = wire'.in
    <3>1. ASSUME ~Between', Arrived("in", p.waves)'
          PROVE  \A k \in DOMAIN p.waves : "in" \in p.waves[k] => k <= wave
      <4>1. wave' = wave + 1
        BY <2>1, <3>1 DEF NextWave
      <4>. QED
        BY <1>1, <2>2, <3>1, <4>1 DEF Arrived
    <3>. QED
      BY <2>1, <2>3, <2>4, <3>1
  <2>6. ASSUME ~before.clock
        PROVE  data = before.data /\ (a.clock => written = 0) /\ (wave # Len(p.waves) => ~a.clock \/ ~a.load)
    <3>1. data = before.data /\ (pin.clock => ~pin.load /\ written = 0) /\ (~pin.clock => ~pin.load /\ written = 0)
      BY <2>1, <2>6 DEF LoadAwaited, ClockFollowed
    <3>2. ~pin.load /\ written = 0
      BY <3>1
    <3>. QED
      BY <2>3, <3>1, <3>2
  <2>7. CASE wave # Len(p.waves)
    <3>1. ASSUME ~before.clock
          PROVE  data' = before.data /\ (pin'.clock => ~pin'.load /\ written' = 0)
      <4>1. CASE a.clock
        <5>1. ~a.load /\ ~Register(p)!Storing(a)
          BY <2>6, <2>7, <3>1, <4>1 DEF Register!Storing
        <5>2. data' = data /\ written' = written
          BY <1>2, <2>3, <4>1, <5>1, RegisterHandles
        <5>. QED
          BY <2>4, <2>6, <3>1, <4>1, <5>1, <5>2
      <4>2. CASE ~a.clock
        <5>1. data' = data
          BY <1>2, <2>3, <4>2, RegisterHandles
        <5>. QED
          BY <2>4, <2>6, <3>1, <4>2, <5>1
      <4>. QED
        BY <2>3, <4>1, <4>2
    <3>. QED
      BY <2>1, <2>2, <2>5, <2>7, <3>1 DEF LoadAwaited, Register!RisingEdgeStores, Register!RisingEdge, Register!Between
  <2>8. CASE wave = Len(p.waves)
    <3>1. a.in = wire.in /\ a.load = wire.load
      BY <1>1, <2>3, <2>8
    <3>2. ASSUME ~before.clock, wire.clock
          PROVE  data' = IF wire.load THEN wire.in ELSE before.data
      <4>1. written = 0 /\ data = before.data /\ a.clock
        BY <2>3, <2>6, <3>2
      <4>2. CASE Register(p)!Storing(a)
        <5>1. CASE data' = a.in
          BY <3>1, <4>2, <5>1 DEF Register!Storing
        <5>2. CASE wave # 1 /\ a = pin
          <6>1. ~pin.load
            BY <2>1, <3>2, <4>1, <5>2 DEF LoadAwaited
          <6>. QED
            BY <4>2, <5>2, <6>1 DEF Register!Storing
        <5>. QED
          BY <1>2, <2>3, <4>2, <5>1, <5>2, RegisterHandles
      <4>3. CASE ~Register(p)!Storing(a)
        <5>1. data' = data
          BY <1>2, <2>3, <4>1, <4>3, RegisterHandles
        <5>. QED
          BY <3>1, <4>1, <4>3, <5>1 DEF Register!Storing
      <4>. QED
        BY <4>2, <4>3
    <3>. QED
      BY <2>1, <2>2, <2>8, <3>2 DEF LoadAwaited, Register!RisingEdgeStores, Register!RisingEdge, Register!Between
  <2>. QED
    BY <2>7, <2>8
<1>3. CASE RegisterCall(p)
  <2>1. Between /\ wave' = 1 /\ pin' = pin /\ data' = data /\ written' = written
        /\ before' = [clock |-> wire.clock, data |-> data]
    BY <1>3 DEF RegisterCall
  <2>2. ~Arrived("in", p.waves)'
    BY <1>1, <2>1 DEF Arrived
  <2>3. ~wire.clock => ~pin.clock
    BY <2>1 DEF ClockFollowed
  <2>. QED
    BY <2>1, <2>2, <2>3 DEF LoadAwaited, Register!RisingEdgeStores, Register!RisingEdge, Register!Between
<1>4. CASE UNCHANGED <<wire, pin, wave, data, written, out, stores, stored, before>>
  BY <1>4 DEF LoadAwaited, Arrived, Register!RisingEdgeStores, Register!RisingEdge, Register!Between
<1>. QED
  BY <1>2, <1>3, <1>4, RegisterSteps

-----------------------------------------------------------------------------
(* The counter. *)

CounterTypes(p) ==
  /\ wave \in 0 .. Len(p.waves)
  /\ DOMAIN pin = PCSignals
  /\ pin.clock \in BOOLEAN /\ wire.clock \in BOOLEAN /\ action_taken \in BOOLEAN
  /\ previous_state = PC(p)!Control(pin)

\* What no wave to come brings has settled.  The counter switches off its clock pin alone.
ControlsSettled(p) ==
  \A s \in PCSignals \ {"clock"} : Between \/ Arrived(s, p.waves) => pin[s] = wire[s]

\* With the clock down before a call, and the last to come in it, the counter finds its clock
\* pin down and has taken no action when the clock comes, with the controls settled.
ClockAwaited(p) ==
  /\ Between /\ ~wire.clock => ~pin.clock /\ (AtOnce(p.waves) => ~action_taken)
  /\ ~Between /\ ~before.clock =>
       /\ ~pin.clock /\ register_value = before.count
       /\ wave # 1 \/ AtOnce(p.waves) => ~action_taken
  /\ PC(p)!RisingEdgeCounts

\* When everything comes at once, a counter that has counted since the clock was down has
\* taken an action.
CountedOnce(p) ==
  /\ out = register_value
  /\ ~Between => register_value = before.count
  /\ incs \in {0, 1}
  /\ incs = 1 => action_taken /\ wire.clock
  /\ PC(p)!LowClockHolds

\* A counter that has counted since the clock was down has taken an action, unless it was
\* simulated with its clock pin down since then.
CountedArmed(p) ==
  /\ incs \in 0 .. 2 /\ rearmed \in BOOLEAN
  /\ incs > 0 /\ ~rearmed => incs = 1 /\ action_taken

Asks(levels) == levels.reset \/ levels.inc \/ levels.load

\* With the clock ahead, the counter finds in the first wave what is to be counted, and its
\* clock pin stays down from then on.
ClockTaken(p) ==
  /\ ~wire.clock /\ wave # 1 => ~pin.clock /\ ~action_taken
  /\ wave = 1 =>
       /\ register_value = before.count
       /\ ~before.clock => ~pin.clock /\ ~action_taken
       /\ \A s \in p.waves[1] : s \in PCSignals => wire[s] = before.early[s]
       /\ \A s \in PCSignals \ p.waves[1] : s # "clock" => pin[s] = before.early[s]
  /\ wave # 1 /\ ~before.clock /\ wire.clock /\ Asks(before.early) =>
       /\ register_value = PC(p)!CountAfter(before.count, before.early) /\ out = register_value
       /\ ~pin.clock

CounterInv(p) ==
  /\ CounterTypes(p)
  /\ ControlsSettled(p)
  /\ CountedArmed(p)
  /\ ClockAhead(p.waves) => ClockTaken(p)
  /\ Last("clock", p.waves) => ClockAwaited(p)
  /\ AtOnce(p.waves) => CountedOnce(p)

\* What a step of the counter does with the levels that have arrived.
Counted(p, a) ==
  \/ PC(p)!Reset(a)
  \/ PC(p)!Increment(a)
  \/ PC(p)!Load(a)
  \/ PC(p)!Forward(a)
  \/ PC(p)!Ignore(a)
  \/ a = pin /\ wave # 1 /\ UNCHANGED <<pin, register_value, action_taken, previous_state, out, incs>>

CounterWave(p, a) ==
  /\ ~Between /\ NextWave(p.waves) /\ UNCHANGED <<wire, before>>
  /\ a \in ArrivalsOf(PC(p)!Levels, p.waves)
  /\ Counted(p, a)
  /\ \/ rearmed' = (rearmed \/ (incs > 0 /\ ~a.clock))
     \/ UNCHANGED <<action_taken, incs, rearmed>>

CounterCall(p) ==
  /\ Between /\ wave' = 1 /\ UNCHANGED <<pin, register_value, action_taken, previous_state, out>>
  /\ wire'.clock \in BOOLEAN
  /\ before' = [clock |-> wire.clock, count |-> register_value, early |-> PC(p)!Early(wire')]
  /\ incs' = IF wire'.clock THEN incs ELSE 0
  /\ rearmed' = (rearmed /\ wire'.clock)

LEMMA CounterSteps ==
  ASSUME NEW p, [PC(p)!Next]_(PC(p)!vars)
  PROVE  \/ \E a : CounterWave(p, a)
         \/ CounterCall(p)
         \/ UNCHANGED <<wire, pin, wave, register_value, action_taken, previous_state, out, incs, rearmed, before>>
<1>1. PC(p)!Arrivals = ArrivalsOf(PC(p)!Levels, p.waves)
  BY DEF PC!Arrivals, PC!ArrivesAgain, ArrivalsOf
<1>2. CASE PC(p)!Simulate
  <2>1. PICK a \in PC(p)!Levels :
          /\ PC(p)!Deliver(a)
          /\ PC(p)!Reset(a) \/ PC(p)!Increment(a) \/ PC(p)!Load(a) \/ PC(p)!Forward(a) \/ PC(p)!Ignore(a)
          /\ rearmed' = (rearmed \/ (incs > 0 /\ ~a.clock))
          /\ UNCHANGED before
    BY <1>2 DEF PC!Simulate
  <2>2. CounterWave(p, a)
    BY <1>1, <2>1 DEF CounterWave, Counted, NextWave, PC!Deliver, PC!EndWave, PC!Between
  <2>. QED
    BY <2>2
<1>3. CASE PC(p)!Evaluate
  <2>1. PICK w \in PC(p)!Levels :
          /\ PC(p)!Call(w)
          /\ before' = [clock |-> wire.clock, count |-> register_value, early |-> PC(p)!Early(w)]
          /\ incs' = IF w.clock THEN incs ELSE 0
          /\ rearmed' = (rearmed /\ w.clock)
          /\ UNCHANGED PC(p)!chip
    BY <1>3 DEF PC!Evaluate
  <2>2. w.clock \in BOOLEAN
    BY DEF PC!Levels
  <2>3. CounterCall(p)
    BY <2>1, <2>2 DEF CounterCall, PC!Call, PC!Between, PC!chip
  <2>. QED
    BY <2>3
<1>4. CASE PC(p)!Quiet
  <2>1. PICK a \in PC(p)!Arrivals : ~PC(p)!Fires(a)
    BY <1>4 DEF PC!Quiet, PC!Pass
  <2>2. CounterWave(p, a)
    BY <1>1, <1>4, <2>1 DEF CounterWave, Counted, NextWave, PC!Quiet, PC!Pass,
      PC!Fires, PC!EndWave, PC!Between, PC!chip
  <2>. QED
    BY <2>2
<1>5. CASE UNCHANGED PC(p)!vars
  BY <1>5 DEF PC!vars, PC!chip
<1>. QED
  BY <1>2, <1>3, <1>4, <1>5 DEF PC!Next

\* What has arrived at the counter.
LEMMA CounterArrival ==
  ASSUME NEW p, p.waves \in Orders(PCSignals), CounterTypes(p), ~Between,
         NEW a \in ArrivalsOf(PC(p)!Levels, p.waves)
  PROVE  /\ a \in PC(p)!Levels
         /\ Last("clock", p.waves) => a.clock = IF wave = Len(p.waves) THEN wire.clock ELSE pin.clock
         /\ AtOnce(p.waves) => \A s \in PCSignals : a[s] = wire[s]
         /\ ControlsSettled(p) => \A s \in PCSignals \ {"clock"} :
              (\A k \in DOMAIN p.waves : s \in p.waves[k] => k <= wave) => a[s] = wire[s]
<1> DEFINE w == p.waves
<1>1. Len(w) \in Nat \ {0} /\ DOMAIN w = 1 .. Len(w) /\ wave \in 1 .. Len(w) /\ "clock" \in PCSignals
  BY OrderHasWaves DEF CounterTypes, PCSignals
<1>2. \A s \in PCSignals :
        /\ a \in PC(p)!Levels
        /\ s \notin w[wave] => a[s] = pin[s]
        /\ s \in w[wave] /\ (\A k \in DOMAIN w : s \in w[k] => k <= wave) => a[s] = wire[s]
  BY <1>1, Delivered DEF CounterTypes
<1>3. ASSUME Last("clock", w)
      PROVE  a.clock = IF wave = Len(w) THEN wire.clock ELSE pin.clock
  BY <1>1, <1>2, <1>3 DEF Last
<1>4. ASSUME AtOnce(w), NEW s \in PCSignals
      PROVE  a[s] = wire[s]
  <2>1. \E k \in DOMAIN w : s \in w[k]
    BY OrderHasWaves
  <2>2. wave = 1 /\ s \in w[1] /\ \A k \in DOMAIN w : k <= wave
    BY <1>1, <1>4, <2>1 DEF AtOnce
  <2>. QED
    BY <1>2, <2>2
<1>5. ASSUME ControlsSettled(p), NEW s \in PCSignals \ {"clock"}, \A k \in DOMAIN w : s \in w[k] => k <= wave
      PROVE  a[s] = wire[s]
  <2>1. CASE s \in w[wave]
    BY <1>2, <1>5, <2>1
  <2>2. CASE s \notin w[wave]
    <3>1. Arrived(s, w)
      BY <1>1, <1>5, <2>2 DEF Arrived
    <3>. QED
      BY <1>2, <1>5, <2>2, <3>1 DEF ControlsSettled
  <2>. QED
    BY <2>1, <2>2
<1>. QED
  BY <1>1, <1>2, <1>3, <1>4, <1>5

\* With its clock pin down the counter does nothing but forget that it has taken an action;
\* where the clock pin has just come up and no action was taken, it does what the controls ask.
LEMMA CounterHandles ==
  ASSUME NEW p, CounterTypes(p), NEW a \in PC(p)!Levels, Counted(p, a)
  PROVE  /\ DOMAIN pin' = PCSignals /\ pin'.clock \in BOOLEAN /\ (pin'.clock => a.clock)
         /\ \A s \in PCSignals \ {"clock"} : pin'[s] = a[s]
         /\ action_taken' \in BOOLEAN /\ previous_state' = PC(p)!Control(pin')
         /\ ~a.clock => /\ UNCHANGED <<register_value, out, incs>>
                        /\ ~action_taken' \/ (a = pin /\ wave # 1 /\ action_taken' = action_taken)
         /\ a.clock /\ ~pin.clock /\ ~action_taken =>
              /\ register_value' = PC(p)!CountAfter(register_value, a) /\ out' = register_value'
              /\ Asks(a) => ~pin'.clock
         /\ out = register_value => out' = register_value'
         /\ a.clock /\ action_taken => incs' = incs /\ action_taken'
         /\ a.clock /\ ~action_taken =>
              incs' = incs \/ (action_taken' /\ incs' = IF incs < 2 THEN incs + 1 ELSE incs)
<1>1. /\ DOMAIN a = PCSignals /\ a.clock \in BOOLEAN /\ a.load \in BOOLEAN
      /\ a.inc \in BOOLEAN /\ a.reset \in BOOLEAN
  BY DEF PC!Levels, PCSignals
<1>2. /\ DOMAIN PC(p)!ClockOff(a) = PCSignals /\ PC(p)!ClockOff(a).clock = FALSE
      /\ \A s \in PCSignals \ {"clock"} : PC(p)!ClockOff(a)[s] = a[s]
  BY <1>1 DEF PC!ClockOff, PCSignals
<1>3. action_taken \in BOOLEAN /\ (a.clock /\ ~pin.clock => PC(p)!Forwardable(a))
  <2>1. a.clock /\ ~pin.clock => PC(p)!Control(pin) # PC(p)!Control(a)
    BY DEF PC!Control
  <2>. QED
    BY <2>1 DEF CounterTypes, PC!Forwardable
<1>4. PC(p)!Taken(a) <=> action_taken /\ a.clock
  BY DEF PC!Taken
<1>5. PC(p)!Forwardable(a) => a.clock
  BY DEF PC!Forwardable
<1>6. CASE PC(p)!Reset(a)
  BY <1>1, <1>2, <1>3, <1>4, <1>5, <1>6 DEF PC!Reset, PC!Finish, PC!CountAfter, Asks
<1>7. CASE PC(p)!Increment(a)
  BY <1>1, <1>2, <1>3, <1>4, <1>5, <1>7 DEF PC!Increment, PC!Incremented, PC!Finish, PC!CountAfter, Asks
<1>8. CASE PC(p)!Load(a)
  BY <1>1, <1>2, <1>3, <1>4, <1>5, <1>8 DEF PC!Load, PC!Finish, PC!CountAfter, Asks
<1>9. CASE PC(p)!Forward(a)
  <2>1. /\ pin' = a /\ previous_state' = PC(p)!Control(a) /\ a.clock
        /\ register_value' = register_value /\ out' = register_value /\ incs' = incs
        /\ action_taken' = (action_taken /\ a.clock)
    BY <1>5, <1>9 DEF PC!Forward, PC!Finish, PC!Taken
  <2>2. ~action_taken => PC(p)!CountAfter(register_value, a) = register_value /\ ~Asks(a)
    BY <1>4, <1>9 DEF PC!Forward, PC!CountAfter, Asks
  <2>3. action_taken' \in BOOLEAN /\ (action_taken => action_taken')
    BY <1>3, <2>1
  <2>. QED
    BY ONLY <1>1, <2>1, <2>2, <2>3
<1>10. CASE PC(p)!Ignore(a)
  <2>1. /\ pin' = a /\ previous_state' = PC(p)!Control(a) /\ ~(a.clock /\ ~pin.clock)
        /\ UNCHANGED <<register_value, out, incs>>
        /\ action_taken' = (action_taken /\ a.clock)
    BY <1>3, <1>10 DEF PC!Ignore, PC!Finish, PC!Taken
  <2>2. /\ action_taken' \in BOOLEAN /\ (~a.clock => ~action_taken')
        /\ a.clock /\ action_taken => action_taken'
    BY <1>1, <1>3, <2>1
  <2>. QED
    BY ONLY <1>1, <2>1, <2>2
<1>11. CASE a = pin /\ wave # 1 /\ UNCHANGED <<pin, register_value, action_taken, previous_state, out, incs>>
  BY <1>1, <1>3, <1>11 DEF CounterTypes
<1>. QED
  BY ONLY <1>6, <1>7, <1>8, <1>9, <1>10, <1>11, Counted(p, a) DEF Counted

LEMMA CounterTypesStep ==
  ASSUME NEW p, p.waves \in Orders(PCSignals), CounterTypes(p), [PC(p)!Next]_(PC(p)!vars)
  PROVE  CounterTypes(p)'
<1>1. Len(p.waves) \in Nat \ {0}
  BY OrderHasWaves DEF PCSignals
<1>2. ASSUME NEW a, CounterWave(p, a)
      PROVE  CounterTypes(p)'
  <2>1. ~Between /\ NextWave(p.waves) /\ wire' = wire /\ a \in ArrivalsOf(PC(p)!Levels, p.waves)
        /\ Counted(p, a)
    BY <1>2 DEF CounterWave
  <2>2. a \in PC(p)!Levels
    BY <2>1, CounterArrival
  <2>3. /\ DOMAIN pin' = PCSignals /\ pin'.clock \in BOOLEAN /\ action_taken' \in BOOLEAN
        /\ previous_state' = PC(p)!Control(pin')
    BY <2>1, <2>2, CounterHandles
  <2>4. wave' \in 0 .. Len(p.waves)
    BY <1>1, <2>1, NextWaveType DEF CounterTypes
  <2>5. PC(p)!Control(pin)' = PC(p)!Control(pin')
    BY DEF PC!Control
  <2>. QED
    BY <2>1, <2>3, <2>4, <2>5 DEF CounterTypes
<1>3. CASE CounterCall(p)
  BY <1>1, <1>3 DEF CounterCall, CounterTypes, PC!Control
<1>4. CASE UNCHANGED <<wire, pin, wave, register_value, action_taken, previous_state, out, incs, rearmed, before>>
  BY <1>4 DEF CounterTypes, PC!Control
<1>. QED
  BY <1>2, <1>3, <1>4, CounterSteps

LEMMA ClockAwaitedStep ==
  ASSUME NEW p, p.waves \in Orders(PCSignals), CounterTypes(p), ControlsSettled(p),
         Last("clock", p.waves), ClockAwaited(p), [PC(p)!Next]_(PC(p)!vars)
  PROVE  ClockAwaited(p)'
<1>1. /\ Len(p.waves) \in Nat \ {0} /\ DOMAIN p.waves = 1 .. Len(p.waves)
      /\ \A s \in PCSignals : \E k \in DOMAIN p.waves : s \in p.waves[k]
  <2>1. "in" \in PCSignals
    BY DEF PCSignals
  <2>. QED
    BY <2>1, OrderHasWaves
<1>2. ASSUME NEW a, CounterWave(p, a)
      PROVE  ClockAwaited(p)'
  <2>1. /\ ~Between /\ NextWave(p.waves) /\ wire' = wire /\ before' = before
        /\ a \in ArrivalsOf(PC(p)!Levels, p.waves) /\ Counted(p, a)
    BY <1>2 DEF CounterWave
  <2>2. /\ wave \in 1 .. Len(p.waves) /\ (wave = Len(p.waves) <=> wave' = 0)
        /\ wave' # 1
    BY <2>1, NextWaveType DEF CounterTypes
  <2>3. /\ a \in PC(p)!Levels
        /\ a.clock = IF wave = Len(p.waves) THEN wire.clock ELSE pin.clock
        /\ \A s \in PCSignals \ {"clock"} :
             (\A k \in DOMAIN p.waves : s \in p.waves[k] => k <= wave) => a[s] = wire[s]
    BY <2>1, CounterArrival
  <2>4. /\ pin'.clock => a.clock
        /\ \A s \in PCSignals \ {"clock"} : pin'[s] = a[s]
        /\ ~a.clock => /\ UNCHANGED <<register_value, out, incs>>
                       /\ ~action_taken' \/ (a = pin /\ wave # 1 /\ action_taken' = action_taken)
        /\ a.clock /\ ~pin.clock /\ ~action_taken =>
             register_value' = PC(p)!CountAfter(register_value, a) /\ out' = register_value'
    BY <2>1, <2>3, CounterHandles
  <2>5. CASE wave # Len(p.waves)
    <3>1. wave' = wave + 1 /\ ~Between'
      BY <2>1, <2>2, <2>5 DEF NextWave
    <3>2. ASSUME ~before.clock
          PROVE  ~pin'.clock /\ register_value' = before.count /\ ~action_taken'
      <4>1. ~a.clock /\ register_value = before.count
        BY <2>1, <2>3, <2>5, <3>2 DEF ClockAwaited
      <4>2. wave # 1 => ~action_taken
        BY <2>1, <3>2 DEF ClockAwaited
      <4>. QED
        BY <2>4, <4>1, <4>2
    <3>. QED
      BY <2>1, <3>1, <3>2 DEF ClockAwaited, PC!RisingEdgeCounts, PC!Between
  <2>6. CASE wave = Len(p.waves)
    <3>1. Between' /\ a.clock = wire.clock
      BY <2>2, <2>3, <2>6
    <3>2. \A s \in PCSignals \ {"clock"} : a[s] = wire[s]
      BY <1>1, <2>3, <2>6
    <3>3. a.in = wire.in /\ a.load = wire.load /\ a.inc = wire.inc /\ a.reset = wire.reset
      BY <3>2 DEF PCSignals
    <3>4. ASSUME ~wire.clock
          PROVE  ~pin'.clock /\ (AtOnce(p.waves) => ~action_taken')
      BY <2>4, <2>6, <3>1, <3>4 DEF AtOnce
    <3>5. ASSUME ~before.clock, wire.clock
          PROVE  register_value' = PC(p)!CountAfter(before.count, wire) /\ out' = register_value'
      <4>1. ~pin.clock /\ register_value = before.count /\ ~action_taken
        BY <2>1, <2>6, <3>5 DEF ClockAwaited, AtOnce
      <4>2. register_value' = PC(p)!CountAfter(register_value, a) /\ out' = register_value'
        BY <2>4, <3>1, <3>5, <4>1
      <4>3. PC(p)!CountAfter(register_value, a) = PC(p)!CountAfter(before.count, wire)
        BY <3>3, <4>1 DEF PC!CountAfter
      <4>. QED
        BY <4>2, <4>3
    <3>6. PC(p)!RisingEdgeCounts'
      <4>1. PC(p)!CountAfter(before.count, wire)' = PC(p)!CountAfter(before.count, wire)
        BY <2>1 DEF PC!CountAfter
      <4>. QED
        BY <2>1, <3>5, <4>1 DEF PC!RisingEdgeCounts, PC!Between
    <3>. QED
      BY <2>1, <3>1, <3>4, <3>6 DEF ClockAwaited
  <2>. QED
    BY <2>5, <2>6
<1>3. CASE CounterCall(p)
  <2>1. /\ Between /\ wave' = 1 /\ pin' = pin /\ register_value' = register_value
        /\ action_taken' = action_taken
        /\ before'.clock = wire.clock /\ before'.count = register_value
    BY <1>3 DEF CounterCall
  <2>. QED
    BY <2>1 DEF ClockAwaited, PC!RisingEdgeCounts, PC!Between
<1>4. CASE UNCHANGED <<wire, pin, wave, register_value, action_taken, previous_state, out, incs, rearmed, before>>
  BY <1>4 DEF ClockAwaited, PC!RisingEdgeCounts, PC!CountAfter, PC!Between
<1>. QED
  BY <1>2, <1>3, <1>4, CounterSteps

LEMMA CountedOnceStep ==
  ASSUME NEW p, p.waves \in Orders(PCSignals), CounterTypes(p),
         AtOnce(p.waves), CountedOnce(p), [PC(p)!Next]_(PC(p)!vars)
  PROVE  CountedOnce(p)'
<1>1. ASSUME NEW a, CounterWave(p, a)
      PROVE  CountedOnce(p)'
  <2>1. /\ ~Between /\ NextWave(p.waves) /\ wire' = wire /\ before' = before
        /\ a \in ArrivalsOf(PC(p)!Levels, p.waves) /\ Counted(p, a)
    BY <1>1 DEF CounterWave
  <2>2. wave = 1 /\ Between'
    BY <2>1 DEF NextWave, CounterTypes, AtOnce
  <2>3. a \in PC(p)!Levels /\ a.clock = wire.clock
    BY <2>1, CounterArrival DEF PCSignals
  <2>4. /\ ~a.clock => UNCHANGED <<register_value, out, incs>>
        /\ out = register_value => out' = register_value'
        /\ a.clock /\ action_taken => incs' = incs /\ action_taken'
        /\ a.clock /\ ~action_taken =>
             incs' = incs \/ (action_taken' /\ incs' = IF incs < 2 THEN incs + 1 ELSE incs)
    BY <2>1, <2>3, CounterHandles
  <2>5. incs' \in {0, 1} /\ (incs' = 1 => action_taken' /\ wire.clock)
    <3>1. CASE ~a.clock
      BY <2>3, <2>4, <3>1 DEF CountedOnce
    <3>2. CASE a.clock /\ action_taken
      BY <2>3, <2>4, <3>2 DEF CountedOnce
    <3>3. CASE a.clock /\ ~action_taken
      <4>1. incs = 0
        BY <3>3 DEF CountedOnce
      <4>. QED
        BY <2>3, <2>4, <3>3, <4>1
    <3>. QED
      BY <3>1, <3>2, <3>3
  <2>6. ASSUME ~wire.clock
        PROVE  register_value' = before.count /\ out' = before.count
    BY <2>1, <2>3, <2>4, <2>6 DEF CountedOnce
  <2>. QED
    BY <2>1, <2>2, <2>4, <2>5, <2>6 DEF CountedOnce, PC!LowClockHolds, PC!Between
<1>2. CASE CounterCall(p)
  BY <1>2 DEF CounterCall, CountedOnce, PC!LowClockHolds, PC!Between
<1>3. CASE UNCHANGED <<wire, pin, wave, register_value, action_taken, previous_state, out, incs, rearmed, before>>
  BY <1>3 DEF CountedOnce, PC!LowClockHolds, PC!Between
<1>. QED
  BY <1>1, <1>2, <1>3, CounterSteps

LEMMA ControlsSettledStep ==
  ASSUME NEW p, p.waves \in Orders(PCSignals), CounterTypes(p), ControlsSettled(p),
         [PC(p)!Next]_(PC(p)!vars)
  PROVE  ControlsSettled(p)'
<1>1. /\ Len(p.waves) \in Nat \ {0} /\ DOMAIN p.waves = 1 .. Len(p.waves)
      /\ \A s \in PCSignals : \E k \in DOMAIN p.waves : s \in p.waves[k]
  <2>1. "in" \in PCSignals
    BY DEF PCSignals
  <2>. QED
    BY <2>1, OrderHasWaves
<1>2. ASSUME NEW a, CounterWave(p, a), NEW s \in PCSignals \ {"clock"},
             Between' \/ Arrived(s, p.waves)'
      PROVE  pin'[s] = wire'[s]
  <2>1. /\ ~Between /\ NextWave(p.waves) /\ wire' = wire
        /\ a \in ArrivalsOf(PC(p)!Levels, p.waves) /\ Counted(p, a)
    BY <1>2 DEF CounterWave
  <2>2. wave \in 1 .. Len(p.waves) /\ (wave = Len(p.waves) <=> wave' = 0)
    BY <2>1, NextWaveType DEF CounterTypes
  <2>3. \A k \in DOMAIN p.waves : s \in p.waves[k] => k <= wave
    <3>1. CASE wave = Len(p.waves)
      BY <1>1, <2>2, <3>1
    <3>2. CASE wave # Len(p.waves)
      <4>1. wave' = wave + 1 /\ Arrived(s, p.waves)'
        BY <1>2, <2>1, <2>2, <3>2 DEF NextWave
      <4>. QED
        BY <1>1, <2>2, <4>1 DEF Arrived
    <3>. QED
      BY <3>1, <3>2
  <2>4. a \in PC(p)!Levels /\ a[s] = wire[s]
    BY <2>1, <2>3, CounterArrival
  <2>5. pin'[s] = a[s]
    BY <2>1, <2>4, CounterHandles
  <2>. QED
    BY <2>1, <2>4, <2>5
<1>3. CASE CounterCall(p)
  <2>1. wave' = 1
    BY <1>3 DEF CounterCall
  <2>2. \A s \in PCSignals : ~Arrived(s, p.waves)'
    BY <1>1, <2>1 DEF Arrived
  <2>. QED
    BY <2>1, <2>2 DEF ControlsSettled
<1>4. CASE UNCHANGED <<wire, pin, wave, register_value, action_taken, previous_state, out, incs, rearmed, before>>
  BY <1>4 DEF ControlsSettled, Arrived
<1>. QED
  BY <1>2, <1>3, <1>4, CounterSteps DEF ControlsSettled

LEMMA CountedArmedStep ==
  ASSUME NEW p, p.waves \in Orders(PCSignals), CounterTypes(p), CountedArmed(p),
         [PC(p)!Next]_(PC(p)!vars)
  PROVE  CountedArmed(p)'
<1>1. ASSUME NEW a, CounterWave(p, a)
      PROVE  CountedArmed(p)'
  <2>1. a \in PC(p)!Levels
    BY <1>1, CounterArrival DEF CounterWave
  <2>2. /\ a.clock \in BOOLEAN
        /\ ~a.clock => incs' = incs
        /\ a.clock /\ action_taken => incs' = incs /\ action_taken'
        /\ a.clock /\ ~action_taken =>
             incs' = incs \/ (action_taken' /\ incs' = IF incs < 2 THEN incs + 1 ELSE incs)
    BY <1>1, <2>1, CounterHandles DEF CounterWave, PC!Levels
  <2>3. CASE UNCHANGED <<action_taken, incs, rearmed>>
    BY <2>3 DEF CountedArmed
  <2>4. CASE rearmed' = (rearmed \/ (incs > 0 /\ ~a.clock))
    <3>1. CASE ~a.clock
      BY <2>2, <2>4, <3>1 DEF CountedArmed
    <3>2. CASE a.clock /\ action_taken
      BY <2>2, <2>4, <3>2 DEF CountedArmed
    <3>3. CASE a.clock /\ ~action_taken
      BY <2>2, <2>4, <3>3 DEF CountedArmed
    <3>. QED
      BY <2>2, <3>1, <3>2, <3>3
  <2>. QED
    BY <1>1, <2>3, <2>4 DEF CounterWave
<1>2. CASE CounterCall(p)
  BY <1>2 DEF CounterCall, CountedArmed
<1>3. CASE UNCHANGED <<wire, pin, wave, register_value, action_taken, previous_state, out, incs, rearmed, before>>
  BY <1>3 DEF CountedArmed
<1>. QED
  BY <1>1, <1>2, <1>3, CounterSteps

LEMMA ClockTakenStep ==
  ASSUME NEW p, p.waves \in Orders(PCSignals), CounterTypes(p), ControlsSettled(p),
         ClockAhead(p.waves), ClockTaken(p), [PC(p)!Next]_(PC(p)!vars)
  PROVE  ClockTaken(p)'
<1>1. Len(p.waves) \in Nat \ {0} /\ DOMAIN p.waves = 1 .. Len(p.waves) /\ "clock" \in PCSignals
  <2>1. "clock" \in PCSignals
    BY DEF PCSignals
  <2>. QED
    BY <2>1, OrderHasWaves
<1>2. \A s \in p.waves[1] : \A k \in DOMAIN p.waves : s \in p.waves[k] <=> k = 1
  BY DEF ClockAhead, First
<1>3. "clock" \in p.waves[1]
  BY DEF ClockAhead
<1>4. ASSUME NEW a, CounterWave(p, a)
      PROVE  ClockTaken(p)'
  <2>1. /\ ~Between /\ NextWave(p.waves) /\ wire' = wire /\ before' = before
        /\ a \in ArrivalsOf(PC(p)!Levels, p.waves) /\ Counted(p, a)
    BY <1>4 DEF CounterWave
  <2>2. /\ wave \in 1 .. Len(p.waves) /\ wave' # 1
    BY <2>1, NextWaveType DEF CounterTypes
  <2>3. /\ a \in PC(p)!Levels
        /\ \A s \in PCSignals :
             /\ s \notin p.waves[wave] => a[s] = pin[s]
             /\ s \in p.waves[wave] /\ (\A k \in DOMAIN p.waves : s \in p.waves[k] => k <= wave) => a[s] = wire[s]
    BY <2>1, <2>2, Delivered, CounterArrival DEF CounterTypes
  <2>4. /\ pin'.clock => a.clock
        /\ ~a.clock => /\ UNCHANGED <<register_value, out, incs>>
                       /\ ~action_taken' \/ (wave # 1 /\ action_taken' = action_taken)
        /\ a.clock /\ ~pin.clock /\ ~action_taken =>
             /\ register_value' = PC(p)!CountAfter(register_value, a) /\ out' = register_value'
             /\ Asks(a) => ~pin'.clock
    BY <2>1, <2>3, CounterHandles
  <2>5. CASE wave = 1
    <3>1. \A s \in p.waves[1] : s \in PCSignals => a[s] = wire[s]
      <4> SUFFICES ASSUME NEW s \in p.waves[1], s \in PCSignals
                   PROVE  a[s] = wire[s]
        OBVIOUS
      <4>1. \A k \in DOMAIN p.waves : s \in p.waves[k] => k <= wave
        BY <1>1, <1>2, <2>5
      <4>. QED
        BY <2>3, <2>5, <4>1
    <3>2. \A s \in PCSignals : a[s] = before.early[s]
      BY <1>3, <2>3, <2>5, <3>1 DEF ClockTaken
    <3>3. a.clock = wire.clock
      BY <1>1, <1>3, <3>1
    <3>4. /\ a.in = before.early.in /\ a.load = before.early.load
          /\ a.inc = before.early.inc /\ a.reset = before.early.reset
      BY <3>2 DEF PCSignals
    <3>5. ~wire.clock => ~pin'.clock /\ ~action_taken'
      BY <2>4, <2>5, <3>3
    <3>6. ASSUME ~before.clock, wire.clock, Asks(before.early)
          PROVE  /\ register_value' = PC(p)!CountAfter(before.count, before.early)
                 /\ out' = register_value' /\ ~pin'.clock
      <4>1. ~pin.clock /\ ~action_taken /\ register_value = before.count
        BY <2>5, <3>6 DEF ClockTaken
      <4>2. Asks(a)
        BY <3>4, <3>6 DEF Asks
      <4>3. PC(p)!CountAfter(register_value, a) = PC(p)!CountAfter(before.count, before.early)
        BY <3>4, <4>1 DEF PC!CountAfter
      <4>. QED
        BY <2>4, <3>3, <3>6, <4>1, <4>2, <4>3
    <3>7. PC(p)!CountAfter(before.count, before.early)' = PC(p)!CountAfter(before.count, before.early)
      BY <2>1 DEF PC!CountAfter
    <3>8. Asks(before.early)' = Asks(before.early)
      BY <2>1 DEF Asks
    <3>. QED
      BY <2>1, <2>2, <3>5, <3>6, <3>7, <3>8 DEF ClockTaken
  <2>6. CASE wave # 1
    <3>1. "clock" \notin p.waves[wave]
      BY <1>1, <1>2, <1>3, <2>2, <2>6
    <3>2. a.clock = pin.clock
      BY <1>1, <2>3, <3>1
    <3>3. ~wire.clock => ~pin'.clock /\ ~action_taken'
      BY <2>4, <2>6, <3>2 DEF ClockTaken
    <3>4. ASSUME ~before.clock, wire.clock, Asks(before.early)
          PROVE  /\ register_value' = PC(p)!CountAfter(before.count, before.early)
                 /\ out' = register_value' /\ ~pin'.clock
      BY <2>4, <2>6, <3>2, <3>4 DEF ClockTaken
    <3>5. PC(p)!CountAfter(before.count, before.early)' = PC(p)!CountAfter(before.count, before.early)
      BY <2>1 DEF PC!CountAfter
    <3>6. Asks(before.early)' = Asks(before.early)
      BY <2>1 DEF Asks
    <3>. QED
      BY <2>1, <2>2, <3>3, <3>4, <3>5, <3>6 DEF ClockTaken
  <2>. QED
    BY <2>5, <2>6
<1>5. CASE CounterCall(p)
  <2>1. /\ Between /\ wave' = 1 /\ pin' = pin /\ register_value' = register_value
        /\ action_taken' = action_taken
        /\ before' = [clock |-> wire.clock, count |-> register_value, early |-> PC(p)!Early(wire')]
    BY <1>5 DEF CounterCall
  <2>2. \A s \in PCSignals :
          before'.early[s] = IF s \in p.waves[1] THEN wire'[s] ELSE wire[s]
    BY <2>1 DEF PC!Early, PC!Signals, PCSignals
  <2>3. \A s \in PCSignals \ p.waves[1] : s # "clock" => pin'[s] = before'.early[s]
    BY <2>1, <2>2 DEF ControlsSettled
  <2>4. ~wire.clock => ~pin.clock /\ ~action_taken
    BY <2>1 DEF ClockTaken
  <2>. QED
    BY <2>1, <2>2, <2>3, <2>4 DEF ClockTaken
<1>6. CASE UNCHANGED <<wire, pin, wave, register_value, action_taken, previous_state, out, incs, rearmed, before>>
  BY <1>6 DEF ClockTaken, PC!CountAfter, Asks
<1>. QED
  BY <1>4, <1>5, <1>6, CounterSteps

-----------------------------------------------------------------------------
(* The chips in ClockedChips. *)

LEMMA RegisterStarts ==
  ASSUME NEW p, p.waves \in Orders(RegisterSignals), Register(p)!Init
  PROVE  RegisterInv(p)
<1>1. Len(p.waves) \in Nat
  BY DEF Orders
<1>2. /\ DOMAIN pin = RegisterSignals /\ pin.clock = FALSE /\ pin.load = FALSE /\ wire.clock = FALSE
      /\ wave = 0 /\ written = 0 /\ stores = 0 /\ stored = FALSE
  BY DEF Register!Init, Register!AllOff, RegisterSignals
<1>3. RegisterTypes(p)
  <2>1. wave \in 0 .. Len(p.waves)
    BY <1>1, <1>2
  <2>. QED
    BY ONLY <1>2, <2>1, Zenon DEF RegisterTypes
<1>4. ClockFollowed(p)
  <2>1. wave # 1 /\ stores # 1 /\ stores \in {0, 1}
    BY <1>2
  <2>. QED
    BY ONLY <1>2, <2>1, Zenon DEF ClockFollowed
<1>5. LoadAwaited(p)
  BY <1>2 DEF LoadAwaited, Register!RisingEdgeStores, Register!RisingEdge
<1>. QED
  BY <1>3, <1>4, <1>5 DEF RegisterInv

LEMMA RegisterStep ==
  ASSUME NEW p, p.waves \in Orders(RegisterSignals), RegisterInv(p), [Register(p)!Next]_(Register(p)!vars)
  PROVE  RegisterInv(p)'
<1>1. First("clock", p.waves)' <=> First("clock", p.waves)
  BY DEF First
<1>2. Last("load", p.waves)' <=> Last("load", p.waves)
  BY DEF Last
<1>. QED
  BY <1>1, <1>2, RegisterTypesStep, ClockFollowedStep, LoadAwaitedStep DEF RegisterInv

LEMMA CounterStarts ==
  ASSUME NEW p, p.waves \in Orders(PCSignals), PC(p)!Init
  PROVE  CounterInv(p)
<1>1. Len(p.waves) \in Nat
  BY DEF Orders
<1>2. /\ DOMAIN pin = PCSignals /\ pin.clock = FALSE /\ wire.clock = FALSE
      /\ wave = 0 /\ action_taken = FALSE /\ incs = 0 /\ register_value = 0 /\ out = 0
      /\ pin = PC(p)!AllOff /\ previous_state = PC(p)!Control(PC(p)!AllOff) /\ before.count = 0
  BY DEF PC!Init, PC!AllOff, PCSignals
<1>3. CounterTypes(p)
  <2>1. wave \in 0 .. Len(p.waves)
    BY <1>1, <1>2
  <2>. QED
    BY ONLY <1>2, <2>1, Zenon DEF CounterTypes
<1>4. ClockAwaited(p)
  BY <1>2 DEF ClockAwaited, PC!RisingEdgeCounts
<1>5. CountedOnce(p)
  BY <1>2 DEF CountedOnce, PC!LowClockHolds
<1>6. ControlsSettled(p)
  <2>1. wire = pin
    BY <1>2 DEF PC!Init
  <2>. QED
    BY <2>1 DEF ControlsSettled
<1>7. CountedArmed(p)
  <2>1. rearmed = FALSE
    BY DEF PC!Init
  <2>2. incs \in 0 .. 2 /\ ~(incs > 0)
    BY <1>2
  <2>. QED
    BY ONLY <2>1, <2>2, Zenon DEF CountedArmed
<1>8. ClockTaken(p)
  BY <1>2 DEF ClockTaken
<1>. QED
  BY <1>3, <1>4, <1>5, <1>6, <1>7, <1>8 DEF CounterInv

LEMMA CounterStep ==
  ASSUME NEW p, p.waves \in Orders(PCSignals), CounterInv(p), [PC(p)!Next]_(PC(p)!vars)
  PROVE  CounterInv(p)'
<1>1. Last("clock", p.waves)' <=> Last("clock", p.waves)
  BY DEF Last
<1>2. AtOnce(p.waves)' <=> AtOnce(p.waves)
  BY DEF AtOnce
<1>3. ClockAhead(p.waves)' <=> ClockAhead(p.waves)
  BY DEF ClockAhead, First
<1>. QED
  BY <1>1, <1>2, <1>3, CounterTypesStep, ControlsSettledStep, CountedArmedStep, ClockTakenStep,
    ClockAwaitedStep, CountedOnceStep DEF CounterInv

RegistersInv == \A p \in Placements : IsRegister(p) => RegisterInv(p)
CountersInv == \A p \in Placements : IsPC(p) => CounterInv(p)

\* A step is one of the chip that was placed.
LEMMA PlacedSteps ==
  ASSUME [ChipsNext]_chips
  PROVE  /\ placement' = placement
         /\ \A p \in Placements : IsPC(p) => [PC(p)!Next]_(PC(p)!vars)
         /\ \A p \in Placements : IsRegister(p) => [Register(p)!Next]_(Register(p)!vars)
         /\ placement \in Placements /\ placement.chip = "ram" => [Next]_vars
         /\ placement \in Placements /\ placement.chip = "rom" => [Rom!Next]_(Rom!vars)
<1>1. CASE ChipsNext
  <2>1. PICK q \in Placements :
          /\ placement = q /\ UNCHANGED placement
          /\ \/ q.chip = "pc" /\ PC(q)!Next
             \/ q.chip = "register" /\ Register(q)!Next
             \/ q.chip = "ram" /\ Next
             \/ q.chip = "rom" /\ Rom!Next
    BY <1>1 DEF ChipsNext
  <2>2. ASSUME NEW p \in Placements, IsPC(p)
        PROVE  PC(p)!Next
    BY <2>1, <2>2 DEF IsPC
  <2>3. ASSUME NEW p \in Placements, IsRegister(p)
        PROVE  Register(p)!Next
    BY <2>1, <2>3 DEF IsRegister
  <2>. QED
    BY <2>1, <2>2, <2>3
<1>2. CASE UNCHANGED chips
  BY <1>2 DEF chips, vars, chip, counter, marks, PC!vars, PC!chip, Register!vars, Register!chip,
    Rom!vars, Rom!chip
<1>. QED
  BY <1>1, <1>2

LEMMA RegistersKept == ChipsSpec => []RegistersInv
<1>1. ChipsInit => RegistersInv
  <2> SUFFICES ASSUME ChipsInit, NEW p \in Placements, IsRegister(p)
               PROVE  RegisterInv(p)
    BY DEF RegistersInv
  <2>1. Register(p)!Init /\ p.waves \in Orders(RegisterSignals)
    BY PlacementsAssumption DEF ChipsInit, IsRegister
  <2>. QED
    BY <2>1, RegisterStarts
<1>2. RegistersInv /\ [ChipsNext]_chips => RegistersInv'
  <2> SUFFICES ASSUME RegistersInv, [ChipsNext]_chips, NEW p \in Placements, IsRegister(p)'
               PROVE  RegisterInv(p)'
    BY DEF RegistersInv
  <2>1. IsRegister(p)
    BY PlacedSteps DEF IsRegister
  <2>2. RegisterInv(p) /\ [Register(p)!Next]_(Register(p)!vars) /\ p.waves \in Orders(RegisterSignals)
    BY <2>1, PlacedSteps, PlacementsAssumption DEF RegistersInv, IsRegister
  <2>. QED
    BY <2>2, RegisterStep
<1>. QED
  BY <1>1, <1>2, PTL DEF ChipsSpec

LEMMA CountersKept == ChipsSpec => []CountersInv
<1>1. ChipsInit => CountersInv
  <2> SUFFICES ASSUME ChipsInit, NEW p \in Placements, IsPC(p)
               PROVE  CounterInv(p)
    BY DEF CountersInv
  <2>1. PC(p)!Init /\ p.waves \in Orders(PCSignals)
    BY PlacementsAssumption DEF ChipsInit, IsPC
  <2>. QED
    BY <2>1, CounterStarts
<1>2. CountersInv /\ [ChipsNext]_chips => CountersInv'
  <2> SUFFICES ASSUME CountersInv, [ChipsNext]_chips, NEW p \in Placements, IsPC(p)'
               PROVE  CounterInv(p)'
    BY DEF CountersInv
  <2>1. IsPC(p)
    BY PlacedSteps DEF IsPC
  <2>2. CounterInv(p) /\ [PC(p)!Next]_(PC(p)!vars) /\ p.waves \in Orders(PCSignals)
    BY <2>1, PlacedSteps, PlacementsAssumption DEF CountersInv, IsPC
  <2>. QED
    BY <2>2, CounterStep
<1>. QED
  BY <1>1, <1>2, PTL DEF ChipsSpec

\* For counters of any number of bits and every order in which the clock comes last: a call
\* that raises the clock does what the settled controls ask for and shows the result, whatever
\* glitched before; in every order in which the clock is ahead, what the controls ask for that are
\* there then; and when all comes at once, a call with the clock down does nothing
\* (PC::handle_pc_impl, PC::forwardable).
THEOREM CountsOnEdges == ChipsSpec => []RisingEdgeCounts
<1>1. CountersInv => RisingEdgeCounts
  <2> SUFFICES ASSUME CountersInv, NEW p \in Placements, IsPC(p)
               PROVE  /\ Last("clock", p.waves) => PC(p)!RisingEdgeCounts
                      /\ ClockAhead(p.waves) => PC(p)!EarlyEdgeCounts
                      /\ AtOnce(p.waves) => PC(p)!LowClockHolds
    BY DEF RisingEdgeCounts
  <2>1. CounterInv(p)
    BY DEF CountersInv
  <2>2. Last("clock", p.waves) => PC(p)!RisingEdgeCounts
    BY <2>1 DEF CounterInv, ClockAwaited
  <2>3. ASSUME ClockAhead(p.waves)
        PROVE  PC(p)!EarlyEdgeCounts
    <3>1. ClockTaken(p)
      BY <2>1, <2>3 DEF CounterInv
    <3>2. Between => wave # 1
      OBVIOUS
    <3>. QED
      BY <3>1, <3>2 DEF ClockTaken, Asks, PC!EarlyEdgeCounts, PC!Between
  <2>4. AtOnce(p.waves) => PC(p)!LowClockHolds
    BY <2>1 DEF CounterInv, CountedOnce
  <2>. QED
    BY <2>2, <2>3, <2>4
<1>. QED
  BY <1>1, CountersKept, PTL

\* In every order a counter advances at most once while the clock is up, in however many calls,
\* unless it was simulated with its clock pin down in between; at once, without exception
\* (PC::handle_pc_impl).
THEOREM CountsOnce == ChipsSpec => []IncrementsOnce
<1>1. CountersInv => IncrementsOnce
  <2> SUFFICES ASSUME CountersInv, NEW p \in Placements, IsPC(p)
               PROVE  /\ PC(p)!IncrementsAgainRearmed
                      /\ AtOnce(p.waves) => PC(p)!IncrementsOnce
    BY DEF IncrementsOnce
  <2>1. CounterInv(p)
    BY DEF CountersInv
  <2>2. PC(p)!IncrementsAgainRearmed
    BY <2>1 DEF CounterInv, CountedArmed, PC!IncrementsAgainRearmed
  <2>3. AtOnce(p.waves) => PC(p)!IncrementsOnce
    BY <2>1 DEF CounterInv, CountedOnce, PC!IncrementsOnce
  <2>. QED
    BY <2>2, <2>3
<1>. QED
  BY <1>1, CountersKept, PTL

\* For registers of any number of bits and every order in which the clock comes first and load
\* last: a call that raises the clock stores the settled input if load is up and nothing else
\* (Register::handle_register_impl).
THEOREM StoresOnEdges == ChipsSpec => []RisingEdgeStores
<1>1. RegistersInv => RisingEdgeStores
  BY DEF RegistersInv, RegisterInv, LoadAwaited, RisingEdgeStores
<1>. QED
  BY <1>1, RegistersKept, PTL

\* A register stores at most once while the clock, which reaches it first, is up, whenever
\* input and load come (Register::handle_register_impl).
THEOREM StoresAtMostOnce == ChipsSpec => []StoresOnce
<1>1. RegistersInv => StoresOnce
  BY DEF RegistersInv, RegisterInv, ClockFollowed, StoresOnce, Register!StoresOnce
<1>. QED
  BY <1>1, RegistersKept, PTL

\* In every order a register that has stored a word shows the word it holds
\* (Register::handle_register_impl).
THEOREM ShowsWhatItHolds == ChipsSpec => []ShowsData
<1>1. RegistersInv => ShowsData
  BY DEF RegistersInv, RegisterInv, RegisterTypes, ShowsData, Register!ShowsData
<1>. QED
  BY <1>1, RegistersKept, PTL
-----------------------------------------------------------------------------
(* The rom: it stores in every wave, always the same. *)

\* The words after a call with these levels.
Stored(l, d) == IF l.clock /\ l.load THEN [d EXCEPT ![l.write_address] = l.in] ELSE d

RomTypes ==
  /\ wave \in 0 .. Len(RomWaves)
  /\ wire \in Rom!Levels /\ pin \in Rom!Levels

\* From the first wave on the words are those the call ends with, and only the address that is
\* read may still change.
RomSettled ==
  /\ out = data[pin.read_address]
  /\ Between => pin = wire
  /\ ~Between =>
       /\ data = IF wave = 1 THEN before.data ELSE Stored(wire, before.data)
       /\ wave # 1 => \A s \in RomSignals \ {"read_address"} : pin[s] = wire[s]
       /\ Arrived("read_address", RomWaves) => pin.read_address = wire.read_address

LEMMA RomLevelsEqual ==
  ASSUME NEW a \in Rom!Levels, NEW l \in Rom!Levels, \A s \in RomSignals : a[s] = l[s]
  PROVE  a = l
BY DEF Rom!Levels, RomSignals

LEMMA StoredOnce ==
  ASSUME NEW l, NEW d
  PROVE  Stored(l, Stored(l, d)) = Stored(l, d)
<1>1. [[d EXCEPT ![l.write_address] = l.in] EXCEPT ![l.write_address] = l.in]
        = [d EXCEPT ![l.write_address] = l.in]
  OBVIOUS
<1>. QED
  BY <1>1 DEF Stored

\* A wave of a call, whether it simulates the chip or not.
RomWave(a) ==
  /\ ~Between /\ NextWave(RomWaves) /\ UNCHANGED <<wire, before>>
  /\ a \in ArrivalsOf(Rom!Levels, RomWaves)
  /\ pin' = a
  /\ \/ data' = Stored(a, data) /\ out' = data'[a.read_address]
     \/ a = pin /\ wave # 1 /\ UNCHANGED <<data, out>>

RomCall ==
  /\ Between /\ wave' = 1 /\ UNCHANGED <<pin, data, out>>
  /\ wire' \in Rom!Levels
  /\ before' = [wire |-> wire, data |-> data, out |-> out]

LEMMA RomSteps ==
  ASSUME [Rom!Next]_(Rom!vars)
  PROVE  \/ \E a : RomWave(a)
         \/ RomCall
         \/ UNCHANGED <<wire, pin, wave, data, out, before>>
<1>1. Rom!Arrivals = ArrivalsOf(Rom!Levels, RomWaves)
  BY DEF Rom!Arrivals, Rom!ArrivesAgain, ArrivalsOf
<1>2. CASE Rom!Simulate
  <2>1. PICK a \in Rom!Levels :
          Rom!Deliver(a) /\ (Rom!Write(a) \/ Rom!Keep(a)) /\ Rom!Synchronize(a) /\ UNCHANGED before
    BY <1>2 DEF Rom!Simulate
  <2>2. data' = Stored(a, data)
    BY <2>1 DEF Rom!Write, Rom!Keep, Stored
  <2>3. RomWave(a)
    BY <1>1, <2>1, <2>2 DEF RomWave, NextWave, Rom!Synchronize, Rom!Deliver, Rom!EndWave, Rom!Between
  <2>. QED
    BY <2>3
<1>3. CASE Rom!Evaluate
  <2>1. PICK w \in Rom!Levels :
          Rom!Call(w) /\ before' = [wire |-> wire, data |-> data, out |-> out] /\ UNCHANGED Rom!chip
    BY <1>3 DEF Rom!Evaluate
  <2>2. RomCall
    BY <2>1 DEF RomCall, Rom!Call, Rom!Between, Rom!chip
  <2>. QED
    BY <2>2
<1>4. CASE Rom!Quiet
  <2>1. PICK a \in Rom!Arrivals : ~Rom!Fires(a)
    BY <1>4 DEF Rom!Quiet, Rom!Pass
  <2>2. RomWave(a)
    BY <1>1, <1>4, <2>1 DEF RomWave, NextWave, Rom!Quiet, Rom!Pass,
      Rom!Fires, Rom!EndWave, Rom!Between, Rom!chip
  <2>. QED
    BY <2>2
<1>5. CASE UNCHANGED Rom!vars
  BY <1>5 DEF Rom!vars, Rom!chip
<1>. QED
  BY <1>2, <1>3, <1>4, <1>5 DEF Rom!Next

LEMMA RomTypesStep ==
  ASSUME RomTypes, [Rom!Next]_(Rom!vars)
  PROVE  RomTypes'
<1>1. RomWaves \in Orders(RomSignals) /\ Len(RomWaves) \in Nat \ {0}
  <2>1. RomWaves \in Orders(RomSignals) /\ "in" \in RomSignals
    BY PlacementsAssumption DEF RomSignals
  <2>. QED
    BY <2>1, OrderHasWaves
<1>2. ASSUME NEW a, RomWave(a)
      PROVE  RomTypes'
  <2>1. wave' \in 0 .. Len(RomWaves)
    BY <1>1, <1>2, NextWaveType DEF RomWave, RomTypes
  <2>2. a \in Rom!Levels
    BY <1>2 DEF RomWave, ArrivalsOf
  <2>. QED
    BY <1>2, <2>1, <2>2 DEF RomWave, RomTypes
<1>3. CASE RomCall
  BY <1>1, <1>3 DEF RomCall, RomTypes
<1>4. CASE UNCHANGED <<wire, pin, wave, data, out, before>>
  BY <1>4 DEF RomTypes
<1>. QED
  BY <1>2, <1>3, <1>4, RomSteps

\* After a wave of a call the words are those that the call ends with, and after the last one
\* the word shown is the one at the address it settles on.
LEMMA RomWaveSettles ==
  ASSUME RomTypes, OnlyReadLate, RomSettled, NEW a, RomWave(a)
  PROVE  /\ data' = Stored(wire, before.data) /\ out' = data'[pin'.read_address]
         /\ \A s \in RomSignals \ {"read_address"} : pin'[s] = wire[s]
         /\ (\A k \in DOMAIN RomWaves : "read_address" \in RomWaves[k] => k <= wave)
              => pin'.read_address = wire.read_address
         /\ wave = Len(RomWaves) => pin' = wire
<1>1. /\ RomWaves \in Orders(RomSignals) /\ Len(RomWaves) \in Nat \ {0}
      /\ DOMAIN RomWaves = 1 .. Len(RomWaves) /\ wave \in 1 .. Len(RomWaves)
      /\ "read_address" \in RomSignals
  <2>1. RomWaves \in Orders(RomSignals) /\ "read_address" \in RomSignals
    BY PlacementsAssumption DEF RomSignals
  <2>. QED
    BY <2>1, OrderHasWaves DEF RomTypes, RomWave
<1>2. /\ a \in ArrivalsOf(Rom!Levels, RomWaves) /\ a \in Rom!Levels /\ pin' = a /\ ~Between
      /\ DOMAIN pin = RomSignals
  BY DEF RomWave, RomTypes, ArrivalsOf, Rom!Levels, RomSignals
<1>3. \A s \in RomSignals :
        /\ s \notin RomWaves[wave] => a[s] = pin[s]
        /\ s \in RomWaves[wave] /\ (\A k \in DOMAIN RomWaves : s \in RomWaves[k] => k <= wave) => a[s] = wire[s]
  BY <1>1, <1>2, Delivered
<1>4. ASSUME NEW s \in RomSignals \ {"read_address"}
      PROVE  a[s] = wire[s]
  <2>1. First(s, RomWaves)
    BY DEF OnlyReadLate
  <2>2. CASE wave = 1
    BY <1>1, <1>3, <2>1, <2>2 DEF First
  <2>3. CASE wave # 1
    BY <1>1, <1>2, <1>3, <2>1, <2>3 DEF First, RomSettled
  <2>. QED
    BY <2>2, <2>3
<1>5. ASSUME \A k \in DOMAIN RomWaves : "read_address" \in RomWaves[k] => k <= wave
      PROVE  a.read_address = wire.read_address
  <2>1. CASE "read_address" \in RomWaves[wave]
    BY <1>1, <1>3, <1>5, <2>1
  <2>2. CASE "read_address" \notin RomWaves[wave]
    <3>1. Arrived("read_address", RomWaves)
      BY <1>1, <1>5, <2>2 DEF Arrived
    <3>. QED
      BY <1>1, <1>2, <1>3, <2>2, <3>1 DEF RomSettled
  <2>. QED
    BY <2>1, <2>2
<1>6. Stored(a, data) = Stored(wire, data)
  BY <1>4 DEF Stored, RomSignals
<1>7. Stored(wire, data) = Stored(wire, before.data)
  BY <1>2, StoredOnce DEF RomSettled
<1>8. data' = Stored(wire, before.data) /\ out' = data'[a.read_address]
  <2>1. CASE data' = Stored(a, data) /\ out' = data'[a.read_address]
    BY <1>6, <1>7, <2>1
  <2>2. CASE a = pin /\ wave # 1 /\ UNCHANGED <<data, out>>
    BY <1>2, <2>2 DEF RomSettled
  <2>. QED
    BY <2>1, <2>2 DEF RomWave
<1>9. ASSUME wave = Len(RomWaves)
      PROVE  a = wire
  <2>1. a.read_address = wire.read_address
    BY <1>1, <1>5, <1>9
  <2>2. \A s \in RomSignals : a[s] = wire[s]
    BY <1>4, <2>1
  <2>. QED
    BY <1>2, <2>2, RomLevelsEqual DEF RomTypes
<1>. QED
  BY <1>2, <1>4, <1>5, <1>8, <1>9

LEMMA RomSettledStep ==
  ASSUME RomTypes, OnlyReadLate, RomSettled, [Rom!Next]_(Rom!vars)
  PROVE  RomSettled'
<1>1. /\ RomWaves \in Orders(RomSignals) /\ Len(RomWaves) \in Nat \ {0}
      /\ DOMAIN RomWaves = 1 .. Len(RomWaves)
      /\ \E k \in DOMAIN RomWaves : "read_address" \in RomWaves[k]
  <2>1. RomWaves \in Orders(RomSignals) /\ "read_address" \in RomSignals
    BY PlacementsAssumption DEF RomSignals
  <2>. QED
    BY <2>1, OrderHasWaves
<1>2. ASSUME NEW a, RomWave(a)
      PROVE  RomSettled'
  <2>1. /\ ~Between /\ NextWave(RomWaves) /\ wire' = wire /\ before' = before
        /\ wave \in 1 .. Len(RomWaves)
    BY <1>2 DEF RomWave, RomTypes
  <2>2. /\ data' = Stored(wire, before.data) /\ out' = data'[pin'.read_address]
        /\ \A s \in RomSignals \ {"read_address"} : pin'[s] = wire[s]
        /\ (\A k \in DOMAIN RomWaves : "read_address" \in RomWaves[k] => k <= wave)
             => pin'.read_address = wire.read_address
        /\ wave = Len(RomWaves) => pin' = wire
    BY <1>2, RomWaveSettles
  <2>3. wave' # 1 /\ (wave = Len(RomWaves) <=> wave' = 0)
    BY <1>1, <2>1, NextWaveType
  <2>4. ASSUME ~Between', Arrived("read_address", RomWaves)'
        PROVE  pin'.read_address = wire.read_address
    <3>1. wave' = wave + 1
      BY <2>1, <2>4 DEF NextWave
    <3>2. \A k \in DOMAIN RomWaves : "read_address" \in RomWaves[k] => k <= wave
      BY <1>1, <2>1, <2>4, <3>1 DEF Arrived
    <3>. QED
      BY <2>2, <3>2
  <2>5. Stored(wire, before.data)' = Stored(wire, before.data)
    BY <2>1 DEF Stored
  <2>. QED
    BY <2>1, <2>2, <2>3, <2>4, <2>5 DEF RomSettled
<1>3. CASE RomCall
  <2>1. Between /\ wave' = 1 /\ pin' = pin /\ data' = data /\ out' = out /\ before'.data = data
    BY <1>3 DEF RomCall
  <2>2. ~Arrived("read_address", RomWaves)'
    BY <1>1, <2>1 DEF Arrived
  <2>. QED
    BY <2>1, <2>2 DEF RomSettled
<1>4. CASE UNCHANGED <<wire, pin, wave, data, out, before>>
  BY <1>4 DEF RomSettled, Arrived, Stored
<1>. QED
  BY <1>2, <1>3, <1>4, RomSteps

\* Of the steps of a call the last is the one a caller sees.
LEMMA RomMemoryStep ==
  ASSUME RomTypes, OnlyReadLate, RomSettled, [Rom!Next]_(Rom!vars)
  PROVE  Rom!Memory!Next \/ UNCHANGED Seen
<1>1. ASSUME NEW a, RomWave(a)
      PROVE  Rom!Memory!Next \/ UNCHANGED Seen
  <2>1. ~Between /\ NextWave(RomWaves) /\ wire' = wire /\ before' = before
    BY <1>1 DEF RomWave
  <2>2. CASE wave = Len(RomWaves)
    <3>1. Between' /\ pin' = wire /\ wire \in Rom!Levels
      BY <1>1, <2>1, <2>2, RomWaveSettles DEF NextWave, RomTypes
    <3>2. data' = Stored(wire, before.data) /\ out' = data'[wire.read_address]
      BY <1>1, <3>1, RomWaveSettles
    <3>3. Rom!Memory!Evaluate(wire)
      BY <2>1, <3>1, <3>2 DEF Rom!Memory!Evaluate, Stored, Rom!HighClock, Rom!WriteAddressOf,
        Rom!ReadAddressOf, Rom!Between
    <3>. QED
      BY <3>1, <3>3 DEF Rom!Memory!Next
  <2>3. CASE wave # Len(RomWaves)
    <3>1. ~Between'
      BY <2>1, <2>3 DEF NextWave, RomTypes
    <3>. QED
      BY <2>1, <3>1 DEF Seen
  <2>. QED
    BY <2>2, <2>3
<1>2. CASE RomCall
  BY <1>2 DEF RomCall, Seen
<1>3. CASE UNCHANGED <<wire, pin, wave, data, out, before>>
  BY <1>3 DEF Seen
<1>. QED
  BY <1>1, <1>2, <1>3, RomSteps
-----------------------------------------------------------------------------
(* The memories in ClockedChips. *)

MemoriesInv ==
  /\ placement \in Placements
  /\ placement.chip = "ram" => TypeOK /\ Protected /\ (ClockLast => Settling)
  /\ placement.chip = "rom" => RomTypes /\ (OnlyReadLate => RomSettled)

LEMMA RomStarts ==
  ASSUME Rom!Init
  PROVE  RomTypes /\ RomSettled /\ Rom!Memory!Init
<1>1. /\ wire = Rom!Blank /\ pin = Rom!Blank /\ wave = 0
      /\ data = [x \in Address |-> 0] /\ out = 0
  BY DEF Rom!Init
<1>2. Rom!Blank \in Rom!Levels /\ Rom!Blank.read_address = 0 /\ 0 \in Address
  BY RamAssumption DEF Rom!Blank, Rom!Levels
<1>3. Len(RomWaves) \in Nat
  BY PlacementsAssumption DEF Orders
<1>4. RomTypes
  BY <1>1, <1>2, <1>3 DEF RomTypes
<1>5. RomSettled
  BY <1>1, <1>2 DEF RomSettled
<1>6. Rom!Memory!Init
  BY <1>1 DEF Rom!Memory!Init, Rom!Between
<1>. QED
  BY <1>4, <1>5, <1>6

LEMMA MemoriesStep ==
  ASSUME MemoriesInv, [ChipsNext]_chips
  PROVE  MemoriesInv'
<1>1. placement' = placement /\ placement \in Placements
  BY PlacedSteps DEF MemoriesInv
<1>2. ASSUME placement.chip = "ram"
      PROVE  TypeOK' /\ Protected' /\ (ClockLast' => Settling')
  <2>1. [Next]_vars /\ TypeOK /\ Protected /\ (ClockLast => Settling)
    BY <1>1, <1>2, PlacedSteps DEF MemoriesInv
  <2>2. ClockLast' => ClockLast
    BY DEF ClockLast, Last
  <2>. QED
    BY <2>1, <2>2, TypeStep, ProtectedStep, SettlingStep
<1>3. ASSUME placement.chip = "rom"
      PROVE  RomTypes' /\ (OnlyReadLate' => RomSettled')
  <2>1. [Rom!Next]_(Rom!vars) /\ RomTypes /\ (OnlyReadLate => RomSettled)
    BY <1>1, <1>3, PlacedSteps DEF MemoriesInv
  <2>2. OnlyReadLate' => OnlyReadLate
    BY DEF OnlyReadLate, First
  <2>. QED
    BY <2>1, <2>2, RomTypesStep, RomSettledStep
<1>. QED
  BY <1>1, <1>2, <1>3 DEF MemoriesInv

\* To whoever simulates the circuit they are in, both memories are what AddressedMemory
\* says: the ram where the clock comes last, the rom where only the address that is read is
\* late, whatever else glitches (Ram16k::handle_ram_16k_impl, Rom32k::handle_rom_32k_impl).
THEOREM MemoriesImplement == ChipsSpec => ImplementMemories
<1> DEFINE RamStep == placement.chip = "ram" /\ Last("clock", Waves) => Memory!Next \/ UNCHANGED Seen
           RomStep == placement.chip = "rom" /\ OnlyReadLate => Rom!Memory!Next \/ UNCHANGED Seen
           Starts == /\ placement.chip = "ram" /\ Last("clock", Waves) => Memory!Init
                     /\ placement.chip = "rom" /\ OnlyReadLate => Rom!Memory!Init
<1>1. ChipsInit => MemoriesInv /\ Starts
  <2> SUFFICES ASSUME ChipsInit PROVE MemoriesInv /\ Starts
    OBVIOUS
  <2>1. /\ placement \in Placements
        /\ placement.chip = "ram" => Init
        /\ placement.chip = "rom" => Rom!Init
    BY DEF ChipsInit
  <2>. QED
    BY <2>1, RamStarts, RomStarts DEF MemoriesInv
<1>2. MemoriesInv /\ [ChipsNext]_chips => MemoriesInv'
  BY MemoriesStep
<1>3. MemoriesInv /\ [ChipsNext]_chips => RamStep /\ RomStep
  <2> SUFFICES ASSUME MemoriesInv, [ChipsNext]_chips PROVE RamStep /\ RomStep
    OBVIOUS
  <2>1. ASSUME placement.chip = "ram", Last("clock", Waves)
        PROVE  Memory!Next \/ UNCHANGED Seen
    <3>1. [Next]_vars /\ TypeOK /\ Protected /\ Settling /\ ClockLast
      BY <2>1, PlacedSteps DEF MemoriesInv, ClockLast
    <3>2. [Memory!Next]_<<IF Between THEN wire ELSE before.wire,
                          IF Between THEN data ELSE before.data,
                          IF Between THEN out ELSE before.out>>
      BY <3>1, MemoryStep
    <3>. QED
      BY <3>2 DEF Seen
  <2>2. ASSUME placement.chip = "rom", OnlyReadLate
        PROVE  Rom!Memory!Next \/ UNCHANGED Seen
    <3>1. [Rom!Next]_(Rom!vars) /\ RomTypes /\ RomSettled
      BY <2>2, PlacedSteps DEF MemoriesInv
    <3>. QED
      BY <2>2, <3>1, RomMemoryStep
  <2>. QED
    BY <2>1, <2>2
<1>. QED
  BY <1>1, <1>2, <1>3, PTL DEF ChipsSpec, ImplementMemories

-----------------------------------------------------------------------------
(* The board. *)

HIDE DEF Between

Lines == {"need", "create", "add", "wire", "precompute", "save"}
Frames == [chip : Chips, need : Nat \ {0}, line : Lines, again : BOOLEAN]

\* A call that has a need to be loaded: its chip is not on the board.
Waits(f) ==
  /\ f.line = "need"
  /\ f.need <= Len(Needs[f.chip])
  /\ ~found(f.chip)

\* The needs that a call has passed are on the board.
NeedsMet(f) ==
  /\ f.need <= Len(Needs[f.chip]) + 1
  /\ \A j \in 1 .. f.need - 1 : found(Needs[f.chip][j])

\* Past its needs a call has created its chip, and past the wires it has wired it.
Built(f) ==
  /\ f.line # "need" => found(f.chip) /\ f.need = Len(Needs[f.chip]) + 1
  /\ f.line \in {"precompute", "save"} => components[f.chip].wired

Images ==
  /\ DOMAIN components \subseteq Chips
  /\ \A c \in DOMAIN components :
       DOMAIN components[c] = {"image", "parts", "reads", "wired", "serialized"}

\* Everything a chip on the board needs, and every part it has, is on the board.
Closed ==
  \A c \in DOMAIN components : PartsOf(c) \cup components[c].parts \subseteq DOMAIN components

Called == \A k \in 1 .. Len(calls) : NeedsMet(calls[k]) /\ Built(calls[k])

\* Each call but the innermost waits for the chip that the next one loads.
Nested ==
  \A k \in 1 .. Len(calls) - 1 :
    Waits(calls[k]) /\ calls[k + 1].chip = Needs[calls[k].chip][calls[k].need]

\* An answer is for a call that waits; true means that the chip is on the board.
Answered ==
  calls # <<>> /\ returned # "none" => Waits(Top) /\ (returned = "true" => found(Needed))

Loading ==
  /\ Images
  /\ calls \in Seq(Frames)
  /\ Closed
  /\ Called
  /\ Nested
  /\ Answered
  /\ LoadedWired

IInv == Loading /\ walk \subseteq Chips

-----------------------------------------------------------------------------
(* The calls under way. *)

\* The innermost call, and what it needs.
LEMMA Innermost ==
  ASSUME calls \in Seq(Frames), calls # <<>>
  PROVE  /\ Len(calls) \in Nat \ {0}
         /\ Top = calls[Len(calls)]
         /\ Top \in Frames
         /\ Needs[Top.chip] \in Seq(Chips)
         /\ Top.need <= Len(Needs[Top.chip]) => Needed \in PartsOf(Top.chip)
<1>1. Len(calls) \in Nat \ {0} /\ Top \in Frames
  BY EmptySeq DEF Top
<1>2. Needs[Top.chip] \in Seq(Chips)
  BY <1>1, BoardAssumption DEF Frames
<1> QED
  BY <1>1, <1>2 DEF Top, Needed, PartsOf, Frames

\* Going on in the innermost call leaves the others.
LEMMA GoneOn ==
  ASSUME calls \in Seq(Frames), calls # <<>>, NEW f \in Frames
  PROVE  /\ SetTop(f) \in Seq(Frames)
         /\ SetTop(f) # <<>>
         /\ Len(SetTop(f)) = Len(calls)
         /\ SetTop(f)[Len(calls)] = f
         /\ \A k \in 1 .. Len(calls) - 1 : SetTop(f)[k] = calls[k]
BY Innermost DEF SetTop

\* A call of load_file leaves the others.
LEMMA Entered ==
  ASSUME NEW s \in Seq(Frames), NEW f \in Frames, NEW t, t = Append(s, f)
  PROVE  /\ t \in Seq(Frames)
         /\ t # <<>>
         /\ Len(t) = Len(s) + 1
         /\ t[Len(t)] = f
         /\ \A k \in 1 .. Len(s) : t[k] = s[k]
BY AppendProperties

\* So does a return.
LEMMA Returned ==
  ASSUME calls \in Seq(Frames), calls # <<>>, NEW s, s = Pop
  PROVE  /\ s \in Seq(Frames)
         /\ Len(s) = Len(calls) - 1
         /\ \A k \in 1 .. Len(calls) - 1 : s[k] = calls[k]
<1>1. PICK n \in Nat : Len(calls) = n + 1
  <2>1. Len(calls) - 1 \in Nat /\ Len(calls) = (Len(calls) - 1) + 1
    BY Innermost
  <2> QED
    BY <2>1
<1>2. \A k \in 1 .. n : calls[k] \in Frames
  BY <1>1
<1>3. /\ SubSeq(calls, 1, n) \in Seq(Frames)
      /\ Len(SubSeq(calls, 1, n)) = IF 1 <= n THEN n - 1 + 1 ELSE 0
      /\ \A k \in 1 .. n - 1 + 1 : SubSeq(calls, 1, n)[k] = calls[1 + k - 1]
  BY <1>2, SubSeqProperties
<1>4. Len(calls) - 1 = n /\ n - 1 + 1 = n /\ \A k \in 1 .. n : 1 + k - 1 = k
  BY <1>1
<1>5. Len(SubSeq(calls, 1, n)) = n
  BY <1>3
<1> QED
  BY <1>3, <1>4, <1>5 DEF Pop

\* What a call changes in its frame as it goes on.
LEMMA Changed ==
  ASSUME NEW f \in Frames
  PROVE  /\ \A m \in Nat \ {0}, b \in BOOLEAN :
              /\ [f EXCEPT !.need = m, !.again = b] \in Frames
              /\ [f EXCEPT !.need = m, !.again = b].chip = f.chip
              /\ [f EXCEPT !.need = m, !.again = b].line = f.line
              /\ [f EXCEPT !.need = m, !.again = b].need = m
         /\ \A b \in BOOLEAN :
              /\ [f EXCEPT !.again = b] \in Frames
              /\ [f EXCEPT !.again = b].chip = f.chip
              /\ [f EXCEPT !.again = b].line = f.line
              /\ [f EXCEPT !.again = b].need = f.need
         /\ \A l \in Lines :
              /\ [f EXCEPT !.line = l] \in Frames
              /\ [f EXCEPT !.line = l].chip = f.chip
              /\ [f EXCEPT !.line = l].line = l
              /\ [f EXCEPT !.line = l].need = f.need
BY DEF Frames

\* A call that has just begun has passed no need.
LEMMA Begun ==
  ASSUME NEW c \in Chips
  PROVE  /\ Frame(c) \in Frames
         /\ Frame(c).chip = c
         /\ NeedsMet(Frame(c)) /\ Built(Frame(c))
<1>1. Len(Needs[c]) \in Nat
  BY BoardAssumption
<1> QED
  BY <1>1 DEF Frame, Frames, Lines, NeedsMet, Built

-----------------------------------------------------------------------------
(* The steps. *)

LEMMA Initially == BoardInit => Loading
<1> SUFFICES ASSUME BoardInit PROVE Loading
  OBVIOUS
<1>1. DOMAIN components = {} /\ Len(calls) = 0 /\ calls \in Seq(Frames)
  BY DEF BoardInit
<1> QED
  BY <1>1 DEF BoardInit, Loading, Images, Closed, Called, Nested, Answered, LoadedWired

\* An outermost call begins, or finds no file.
LEMMA Outermost ==
  ASSUME Loading, calls = <<>>, NEW c \in Chips, load_file(c),
         UNCHANGED <<components, broken>>
  PROVE  Loading'
<1>1. CASE c \in gate
  <2>0. Frame(c) \in Frames /\ calls' = <<Frame(c)>> /\ returned' = "none"
    BY <1>1, Begun DEF load_file
  <2>1. calls' \in Seq(Frames) /\ Len(calls') = 1 /\ calls'[1] = Frame(c) /\ returned' = "none"
    BY <2>0
  <2>2. NeedsMet(Frame(c))' /\ Built(Frame(c))'
    BY Begun DEF NeedsMet, Built, found
  <2> QED
    BY <2>1, <2>2 DEF Loading, Images, Closed, Called, Nested, Answered, LoadedWired, found
<1>2. CASE c \notin gate
  <2>1. calls' \in Seq(Frames) /\ Len(calls') = 0 /\ calls' = <<>>
    BY <1>2 DEF load_file
  <2> QED
    BY <2>1 DEF Loading, Images, Closed, Called, Nested, Answered, LoadedWired, found
<1> QED
  BY <1>1, <1>2

LEMMA Compiled ==
  ASSUME Loading, NEW c \in Chips, compile(c)
  PROVE  Loading'
<1>1. /\ calls = <<>> /\ calls' \in Seq(Frames) /\ Len(calls') = 1 /\ calls'[1] = Frame(c)
      /\ returned' = "none"
  BY Begun DEF compile, Prompt, Ready
<1>2. components' = components /\ broken' = broken \ {c}
  BY DEF compile, WriteFiles
<1>3. NeedsMet(Frame(c))' /\ Built(Frame(c))'
  BY <1>2, Begun DEF NeedsMet, Built, found
<1>4. LoadedWired'
  BY <1>1, <1>2, Begun DEF LoadedWired, Loading
<1> QED
  BY <1>1, <1>2, <1>3, <1>4 DEF Loading, Images, Closed, Called, Nested, Answered, found

LEMMA Serialized ==
  ASSUME Loading, NEW c \in Chips, serialize(c)
  PROVE  Loading'
<1>1. calls = <<>> /\ calls' = calls /\ Len(calls) = 0
  BY DEF serialize, Prompt, Ready
<1>2. /\ DOMAIN components' = DOMAIN components
      /\ \A d \in DOMAIN components :
           /\ DOMAIN components'[d] = DOMAIN components[d]
           /\ components'[d].parts = components[d].parts
           /\ components'[d].wired = components[d].wired
  BY DEF serialize, Loading, Images
<1> QED
  BY <1>1, <1>2 DEF serialize, Loading, Images, Closed, Called, Nested, Answered, LoadedWired

\* The innermost call goes on: if it puts its chip on the board, no other call waits
\* with that chip.
LEMMA GoesOn ==
  ASSUME Loading, calls # <<>>, NEW f \in Frames, calls' = SetTop(f), f.chip = Top.chip,
         DOMAIN components \subseteq DOMAIN components',
         \A k \in 1 .. Len(calls) - 1 : calls[k].chip \notin DOMAIN components',
         NeedsMet(f)', Built(f)'
  PROVE  /\ calls' \in Seq(Frames) /\ calls' # <<>> /\ Len(calls') = Len(calls) /\ Top' = f
         /\ \A k \in 1 .. Len(calls) : calls'[k].chip = calls[k].chip
         /\ Called' /\ Nested'
<1> DEFINE n == Len(calls)
<1>1. n \in Nat \ {0} /\ Top = calls[n]
  BY Innermost DEF Loading
<1>2. /\ calls' \in Seq(Frames) /\ calls' # <<>> /\ Len(calls') = n /\ calls'[n] = f
      /\ \A k \in 1 .. n - 1 : calls'[k] = calls[k]
  <2>1. calls \in Seq(Frames)
    BY DEF Loading
  <2> QED
    BY <2>1, GoneOn
<1>3. \A k \in 1 .. n : calls'[k].chip = calls[k].chip
  BY <1>1, <1>2
<1>4. ASSUME NEW k \in 1 .. n - 1
      PROVE  NeedsMet(calls[k])' /\ Built(calls[k])' /\ Waits(calls[k])'
  <2>1. NeedsMet(calls[k]) /\ Built(calls[k]) /\ Waits(calls[k])
    BY <1>1 DEF Loading, Called, Nested
  <2> QED
    BY <1>1, <1>2, <2>1 DEF NeedsMet, Built, Waits, found
<1>5. NeedsMet(calls[n])' /\ Built(calls[n])'
  BY <1>1, <1>2 DEF NeedsMet, Built, found
<1>6. Called'
  <2>1. \A k \in 1 .. n : k \in 1 .. n - 1 \/ k = n
    BY <1>1
  <2> QED
    BY <1>2, <1>4, <1>5, <2>1 DEF Called
<1>7. Nested'
  BY <1>1, <1>2, <1>3, <1>4 DEF Loading, Nested, Waits, found
<1> QED
  BY <1>1, <1>2, <1>3, <1>6, <1>7 DEF Top

\* It goes on to its next need.
LEMMA NextNeeded ==
  ASSUME Loading, Needing, found(Needed), calls' = SetTop(NextNeed), returned' = "none",
         UNCHANGED <<components, broken>>
  PROVE  Loading'
<1>1. calls # <<>> /\ Top.line = "need" /\ Top.need <= Len(Needs[Top.chip])
  BY DEF Needing
<1>2. /\ Len(calls) \in Nat \ {0} /\ Top = calls[Len(calls)]
      /\ Len(Needs[Top.chip]) \in Nat
  BY <1>1, Innermost DEF Loading
<1>3. PICK t \in Frames : t = Top
  BY <1>1, Innermost DEF Loading
<1>4. PICK m \in Nat \ {0} : m = t.need + 1
  <2>1. t.need + 1 \in Nat \ {0}
    BY DEF Frames
  <2> QED
    BY <2>1
<1>5. PICK f : f = [t EXCEPT !.need = m, !.again = FALSE]
  OBVIOUS
<1>6. f \in Frames /\ f.chip = t.chip /\ f.line = t.line /\ f.need = m
  BY <1>5, Changed
<1>7. calls' = SetTop(f)
  BY <1>3, <1>4, <1>5 DEF NextNeed
<1>8. NeedsMet(t)
  BY <1>2, <1>3 DEF Loading, Called
<1>9. NeedsMet(f)
  <2>1. m - 1 = t.need /\ t.need \in Nat \ {0} /\ t.need <= Len(Needs[t.chip]) /\ Len(Needs[t.chip]) \in Nat
    BY <1>1, <1>2, <1>3, <1>4 DEF Frames
  <2>2. found(Needs[t.chip][t.need])
    BY <1>3 DEF Needed
  <2>3. \A i \in 1 .. m - 1 : i \in 1 .. t.need - 1 \/ i = t.need
    BY <2>1
  <2>4. \A i \in 1 .. t.need - 1 : found(Needs[t.chip][i])
    BY ONLY <1>8 DEF NeedsMet
  <2>5. \A i \in 1 .. m - 1 : found(Needs[t.chip][i])
    BY ONLY <2>2, <2>3, <2>4
  <2>6. m <= Len(Needs[t.chip]) + 1
    BY ONLY <1>4, <2>1, t \in Frames DEF Frames
  <2> QED
    BY ONLY <1>6, <2>5, <2>6 DEF NeedsMet
<1>10. NeedsMet(f)' /\ Built(f)'
  BY <1>1, <1>3, <1>6, <1>9 DEF NeedsMet, Built, found, Lines
<1>11. \A k \in 1 .. Len(calls) - 1 : calls[k].chip \notin DOMAIN components'
  BY DEF Loading, Nested, Waits, found
<1>12. /\ calls' \in Seq(Frames) /\ calls' # <<>> /\ Len(calls') = Len(calls)
       /\ \A k \in 1 .. Len(calls) : calls'[k].chip = calls[k].chip
       /\ Called' /\ Nested'
  BY <1>1, <1>3, <1>6, <1>7, <1>10, <1>11, GoesOn
<1> QED
  BY <1>12 DEF Loading, Images, Closed, Answered, LoadedWired

\* The innermost call waits for the chip it needs, which another call begins to load.
LEMMA Loads ==
  ASSUME Loading, calls # <<>>, Waits(Top), NEW s \in Seq(Frames), Len(s) = Len(calls),
         \A k \in 1 .. Len(calls) :
           s[k].chip = calls[k].chip /\ s[k].line = calls[k].line /\ s[k].need = calls[k].need,
         NEW c \in Chips, c = Needed, calls' = Append(s, Frame(c)), returned' = "none",
         components' = components, broken \ {c} \subseteq broken'
  PROVE  Loading'
<1>1. PICK n \in Nat \ {0} :
        n = Len(calls) /\ Top = calls[n] /\ Top.need <= Len(Needs[Top.chip])
  BY Innermost DEF Loading, Waits
<1>2. Frame(c) \in Frames /\ Frame(c).chip = c /\ NeedsMet(Frame(c)) /\ Built(Frame(c))
  BY Begun
<1>3. PICK t : t = Append(s, Frame(c))
  OBVIOUS
<1>4. t \in Seq(Frames) /\ t # <<>> /\ Len(t) = n + 1 /\ t[n + 1] = Frame(c)
  BY <1>1, <1>2, <1>3, Entered
<1>5. \A k \in 1 .. n : t[k] = s[k]
  BY <1>1, <1>2, <1>3, Entered
<1>6. \A k \in 1 .. n :
        t[k].chip = calls[k].chip /\ t[k].line = calls[k].line /\ t[k].need = calls[k].need
  BY <1>1, <1>5
<1>7. calls' = t
  BY <1>3
<1>8. ASSUME NEW k \in 1 .. n
      PROVE  /\ NeedsMet(calls[k])' /\ Built(calls[k])' /\ Waits(calls[k])'
             /\ calls'[k + 1].chip = Needs[calls'[k].chip][calls'[k].need]
  <2>1. NeedsMet(calls[k]) /\ Built(calls[k])
    BY <1>1 DEF Loading, Called
  <2>2. NeedsMet(calls[k])' /\ Built(calls[k])'
    BY <1>6, <1>7, <2>1 DEF NeedsMet, Built, found
  <2>3. Waits(calls[k]) /\ (k = n \/ (k \in 1 .. n - 1 /\ k + 1 \in 1 .. n))
    BY <1>1 DEF Loading, Nested
  <2>4. Waits(calls[k])'
    BY <1>6, <1>7, <2>3 DEF Waits, found
  <2>5. calls'[k + 1].chip = Needs[calls'[k].chip][calls'[k].need]
    <3>1. CASE k = n
      <4>1. calls'[n].chip = Top.chip /\ calls'[n].need = Top.need
        BY <1>1, <1>6, <1>7
      <4> QED
        BY <1>2, <1>4, <1>7, <3>1, <4>1 DEF Needed
    <3>2. CASE k \in 1 .. n - 1 /\ k + 1 \in 1 .. n
      <4>1. calls[k + 1].chip = Needs[calls[k].chip][calls[k].need]
        BY <1>1, <3>2 DEF Loading, Nested
      <4> QED
        BY <1>6, <1>7, <3>2, <4>1
    <3> QED
      BY <2>3, <3>1, <3>2
  <2> QED
    BY <2>2, <2>4, <2>5
<1>9. NeedsMet(calls[n + 1])' /\ Built(calls[n + 1])'
  BY <1>2, <1>4, <1>7 DEF NeedsMet, Built, found
<1>10. Called'
  <2>1. \A k \in 1 .. n + 1 : k \in 1 .. n \/ k = n + 1
    BY <1>1
  <2> QED
    BY <1>4, <1>7, <1>8, <1>9, <2>1 DEF Called
<1>11. Nested'
  <2>1. Len(calls') - 1 = n
    BY <1>1, <1>4, <1>7
  <2> QED
    BY <1>8, <2>1 DEF Nested
<1>12. LoadedWired'
  <2>1. \A k \in 1 .. n : k \in 1 .. Len(calls') /\ calls'[k].chip = calls[k].chip
    BY <1>1, <1>4, <1>6, <1>7
  <2>2. n + 1 \in 1 .. Len(calls') /\ calls'[n + 1].chip = c
    BY <1>1, <1>2, <1>4, <1>7
  <2>3. ASSUME NEW d \in DOMAIN components
        PROVE  components[d].wired \/ d \in broken' \/ \E k \in 1 .. Len(calls') : calls'[k].chip = d
    <3>1. components[d].wired \/ d \in broken \/ \E k \in 1 .. n : calls[k].chip = d
      BY <1>1 DEF Loading, LoadedWired
    <3> QED
      BY <2>1, <2>2, <3>1
  <2> QED
    BY <2>3 DEF LoadedWired
<1> QED
  BY <1>4, <1>7, <1>10, <1>11, <1>12 DEF Loading, Images, Closed, Answered

\* What the innermost call needs is a chip; if that is not on the board, the chip of
\* the call is not either.
LEMMA Missing ==
  ASSUME Loading, Needing
  PROVE  /\ calls # <<>> /\ Needed \in Chips
         /\ ~found(Needed) => Waits(Top)
<1>1. /\ calls # <<>> /\ Top.line = "need" /\ Top.need <= Len(Needs[Top.chip])
      /\ Top \in Frames /\ Needs[Top.chip] \in Seq(Chips) /\ Needed \in PartsOf(Top.chip)
  BY Innermost DEF Loading, Needing
<1>2. Needed \in Chips
  BY <1>1 DEF Needed, Frames
<1>3. ~found(Needed) => ~found(Top.chip)
  BY <1>1 DEF Loading, Closed, found
<1> QED
  BY <1>1, <1>2, <1>3 DEF Waits

LEMMA NeedLoads ==
  ASSUME Loading, NeedLoad
  PROVE  Loading'
<1>1. calls # <<>> /\ Waits(Top) /\ Needed \in Chips /\ components' = components /\ broken' = broken
  BY Missing DEF NeedLoad
<1>2. CASE Needed \in gate
  <2>1. calls' = Append(calls, Frame(Needed)) /\ returned' = "none"
    BY <1>2 DEF NeedLoad
  <2>2. PICK c \in Chips : c = Needed
    BY <1>1
  <2>3. calls \in Seq(Frames)
    BY DEF Loading
  <2>4. calls' = Append(calls, Frame(c))
    BY <2>1, <2>2 DEF Frame
  <2> QED
    BY <1>1, <2>1, <2>2, <2>3, <2>4, Loads
<1>3. CASE Needed \notin gate
  <2>1. calls' = calls /\ returned' = "false"
    BY <1>3 DEF NeedLoad
  <2> QED
    BY <1>1, <2>1 DEF Loading, Images, Closed, Called, Nested, Answered, LoadedWired,
                      NeedsMet, Built, Waits, found, Top
<1> QED
  BY <1>2, <1>3

LEMMA NeedCompiles ==
  ASSUME Loading, NeedCompile
  PROVE  Loading'
<1>1. calls # <<>> /\ Waits(Top) /\ Needed \in Chips
  BY Missing DEF NeedCompile, Loading, Answered
<1>2. /\ components' = components /\ broken' = broken \ {Needed} /\ returned' = "none"
      /\ calls' = Append(SetTop([Top EXCEPT !.again = TRUE]), Frame(Needed))
  BY DEF NeedCompile, WriteFiles
<1>3. PICK c \in Chips : c = Needed
  BY <1>1
<1>4. Len(calls) \in Nat \ {0} /\ Top = calls[Len(calls)] /\ calls \in Seq(Frames)
  BY <1>1, Innermost DEF Loading
<1>5. PICK t \in Frames : t = Top
  BY <1>1, <1>4, Innermost
<1>6. PICK f : f = [t EXCEPT !.again = TRUE]
  OBVIOUS
<1>7. f \in Frames /\ f.chip = t.chip /\ f.line = t.line /\ f.need = t.need
  BY <1>6, Changed
<1>8. PICK s : s = SetTop(f)
  OBVIOUS
<1>9. /\ s \in Seq(Frames) /\ Len(s) = Len(calls) /\ s[Len(calls)] = f
      /\ \A k \in 1 .. Len(calls) - 1 : s[k] = calls[k]
  BY <1>1, <1>4, <1>7, <1>8, GoneOn
<1>10. \A k \in 1 .. Len(calls) :
         s[k].chip = calls[k].chip /\ s[k].line = calls[k].line /\ s[k].need = calls[k].need
  <2>1. \A k \in 1 .. Len(calls) : k \in 1 .. Len(calls) - 1 \/ k = Len(calls)
    BY <1>4
  <2> QED
    BY <1>4, <1>5, <1>7, <1>9, <2>1
<1>11. calls' = Append(s, Frame(c))
  BY <1>2, <1>3, <1>5, <1>6, <1>8 DEF Frame
<1> QED
  BY <1>1, <1>2, <1>3, <1>9, <1>10, <1>11, Loads

\* The innermost call returns; its chip is wired, its file is broken, or it was not created.
LEMMA Returns ==
  ASSUME Loading, calls # <<>>, calls' = Pop, UNCHANGED <<components, broken>>,
         returned' = "true" => found(Top.chip),
         found(Top.chip) => components[Top.chip].wired \/ Top.chip \in broken
  PROVE  Loading'
<1>1. PICK n \in Nat \ {0} : n = Len(calls) /\ Top = calls[n]
  BY Innermost DEF Loading
<1>2. PICK s : s = Pop
  OBVIOUS
<1>3. s \in Seq(Frames) /\ Len(s) = n - 1 /\ \A k \in 1 .. n - 1 : s[k] = calls[k]
  BY <1>1, <1>2, Returned DEF Loading
<1>4. calls' = s
  BY <1>2
<1>5. ASSUME NEW k \in 1 .. n - 1
      PROVE  /\ NeedsMet(calls[k])' /\ Built(calls[k])' /\ Waits(calls[k])'
             /\ calls[k + 1].chip = Needs[calls[k].chip][calls[k].need]
  <2>1. /\ NeedsMet(calls[k]) /\ Built(calls[k]) /\ Waits(calls[k])
        /\ calls[k + 1].chip = Needs[calls[k].chip][calls[k].need]
    BY <1>1 DEF Loading, Called, Nested
  <2> QED
    BY <1>3, <1>4, <2>1 DEF NeedsMet, Built, Waits, found
<1>6. Called'
  BY <1>3, <1>4, <1>5 DEF Called
<1>7. Nested'
  <2>1. \A k \in 1 .. Len(calls') - 1 :
          k \in 1 .. n - 1 /\ calls'[k] = calls[k] /\ calls'[k + 1] = calls[k + 1]
    BY <1>1, <1>3, <1>4
  <2> QED
    BY <1>5, <2>1 DEF Nested
<1>8. Answered'
  <2>1. SUFFICES ASSUME s # <<>>
                 PROVE  Waits(Top)' /\ (returned' = "true" => found(Needed)')
    BY <1>4 DEF Answered
  <2>2. n - 1 \in 1 .. n - 1 /\ Top' = calls[n - 1] /\ calls'[n - 1] = calls[n - 1] /\ n - 1 + 1 = n
    BY <1>1, <1>3, <1>4, <2>1 DEF Top
  <2>3. Waits(Top)'
    BY <1>5, <2>2 DEF Waits, found
  <2>4. Needed' = Top.chip
    BY <1>1, <1>5, <2>2 DEF Needed
  <2> QED
    BY <2>3, <2>4 DEF found
<1>9. LoadedWired'
  <2>1. ASSUME NEW d \in DOMAIN components
        PROVE  components[d].wired \/ d \in broken \/ \E k \in 1 .. Len(calls') : calls'[k].chip = d
    <3>1. components[d].wired \/ d \in broken \/ \E k \in 1 .. n : calls[k].chip = d
      BY <1>1 DEF Loading, LoadedWired
    <3>2. \A k \in 1 .. n : calls[k].chip = Top.chip \/ (k \in 1 .. Len(calls') /\ calls'[k] = calls[k])
      BY <1>1, <1>3, <1>4
    <3>3. d = Top.chip => components[d].wired \/ d \in broken
      BY DEF found
    <3> QED
      BY <3>1, <3>2, <3>3
  <2> QED
    BY <2>1 DEF LoadedWired
<1> QED
  BY <1>3, <1>4, <1>6, <1>7, <1>8, <1>9 DEF Loading, Images, Closed

LEMMA NeedFailed ==
  ASSUME Loading, NeedFails
  PROVE  Loading'
<1>1. /\ calls # <<>> /\ returned = "false" /\ calls' = Pop
      /\ components' = components /\ broken' = broken /\ returned' = returned
  BY DEF NeedFails, Needing
<1>2. ~found(Top.chip)
  BY <1>1 DEF Loading, Answered, Waits
<1> QED
  BY <1>1, <1>2, Returns

\* Past its needs nothing is left for the innermost call to be told, and its own chip
\* is on the board.
LEMMA PastNeeds ==
  ASSUME Loading, NEW l \in Lines \ {"need"}, At(l)
  PROVE  /\ calls # <<>> /\ Top.line = l /\ returned = "none"
         /\ Top \in Frames /\ NeedsMet(Top) /\ Built(Top) /\ found(Top.chip)
         /\ PartsOf(Top.chip) \subseteq DOMAIN components
<1>1. calls # <<>> /\ Top.line = l /\ l # "need"
  BY DEF At
<1>2. Len(calls) \in Nat \ {0} /\ Top = calls[Len(calls)] /\ Top \in Frames
  BY <1>1, Innermost DEF Loading
<1>3. NeedsMet(Top) /\ Built(Top)
  BY <1>2 DEF Loading, Called
<1>4. found(Top.chip)
  BY <1>1, <1>3 DEF Built
<1>5. returned = "none"
  BY <1>1 DEF Loading, Answered, Waits
<1> QED
  BY <1>1, <1>2, <1>3, <1>4, <1>5 DEF Loading, Closed, found

LEMMA Saved ==
  ASSUME Loading, save
  PROVE  Loading'
<1>1. calls # <<>> /\ found(Top.chip) /\ components[Top.chip].wired
  BY PastNeeds DEF save, Lines, Built
<1> QED
  BY <1>1, Returns DEF save

\* The innermost call goes on past its needs with its chip on the board.
LEMMA Works ==
  ASSUME Loading, calls # <<>>, NEW l \in Lines \ {"need"}, Goto(l), returned = "none",
         UNCHANGED <<broken, returned>>, Images', Closed',
         DOMAIN components' = DOMAIN components \cup {Top.chip},
         \A c \in DOMAIN components : c # Top.chip => components'[c].wired = components[c].wired,
         l \in {"precompute", "save"} => components'[Top.chip].wired,
         NeedsMet(Top), Top.need = Len(Needs[Top.chip]) + 1,
         \A k \in 1 .. Len(calls) - 1 : calls[k].chip # Top.chip
  PROVE  Loading'
<1>1. PICK n \in Nat \ {0} : n = Len(calls) /\ Top = calls[n]
  BY Innermost DEF Loading
<1>2. PICK t \in Frames : t = Top
  BY Innermost DEF Loading
<1>3. PICK f : f = [t EXCEPT !.line = l]
  OBVIOUS
<1>4. f \in Frames /\ f.chip = t.chip /\ f.line = l /\ f.need = t.need
  BY <1>3, Changed
<1>5. calls' = SetTop(f)
  BY <1>2, <1>3 DEF Goto
<1>6. NeedsMet(f)' /\ Built(f)'
  BY <1>2, <1>4 DEF NeedsMet, Built, found
<1>7. \A k \in 1 .. Len(calls) - 1 : calls[k].chip \notin DOMAIN components'
  BY DEF Loading, Nested, Waits, found
<1>8. /\ calls' \in Seq(Frames) /\ calls' # <<>> /\ Len(calls') = Len(calls)
      /\ \A k \in 1 .. Len(calls) : calls'[k].chip = calls[k].chip
      /\ Called' /\ Nested'
  BY <1>2, <1>4, <1>5, <1>6, <1>7, GoesOn
<1>9. LoadedWired'
  <2>1. \E k \in 1 .. Len(calls') : calls'[k].chip = Top.chip
    BY <1>1, <1>8
  <2>2. ASSUME NEW d \in DOMAIN components', d # Top.chip
        PROVE  components'[d].wired \/ d \in broken \/ \E k \in 1 .. Len(calls') : calls'[k].chip = d
    BY <1>8, <2>2 DEF Loading, LoadedWired
  <2> QED
    BY <2>1, <2>2 DEF LoadedWired
<1> QED
  BY <1>8, <1>9 DEF Loading, Answered

\* No call that waits is one for the chip that the innermost call has on the board, or
\* puts there.
LEMMA Alone ==
  ASSUME Loading, calls # <<>>, NeedsMet(Top), Top.need > Len(Needs[Top.chip])
  PROVE  /\ PartsOf(Top.chip) \subseteq DOMAIN components
         /\ Top.need = Len(Needs[Top.chip]) + 1
         /\ \A k \in 1 .. Len(calls) - 1 : calls[k].chip # Top.chip
<1>1. PICK n \in Nat \ {0} : n = Len(calls) /\ Top = calls[n]
  BY Innermost DEF Loading
<1>2. Top \in Frames /\ Len(Needs[Top.chip]) \in Nat
  BY Innermost DEF Loading
<1>3. Top.need = Len(Needs[Top.chip]) + 1
  BY <1>2 DEF NeedsMet, Frames
<1>4. PartsOf(Top.chip) \subseteq DOMAIN components
  BY <1>2, <1>3 DEF NeedsMet, PartsOf, found
<1>5. ASSUME NEW k \in 1 .. n - 1, calls[k].chip = Top.chip
      PROVE  FALSE
  <2>1. Waits(calls[k]) /\ calls[k + 1].chip = Needs[Top.chip][calls[k].need]
    BY <1>1, <1>5 DEF Loading, Nested
  <2>2. calls[k] \in Frames
    BY <1>1 DEF Loading
  <2>3. calls[k].need \in 1 .. Len(Needs[Top.chip])
    BY <1>2, <1>5, <2>1, <2>2 DEF Waits, Frames
  <2>4. found(calls[k + 1].chip)
    BY <1>4, <2>1, <2>3 DEF PartsOf, found
  <2>5. CASE k + 1 \in 1 .. n - 1
    BY <1>1, <2>4, <2>5 DEF Loading, Nested, Waits
  <2>6. CASE k + 1 = n
    BY <1>1, <1>5, <2>1, <2>4, <2>6 DEF Waits
  <2> QED
    BY <1>1, <2>5, <2>6
<1> QED
  BY <1>1, <1>3, <1>4, <1>5

LEMMA Created ==
  ASSUME Loading, create_new
  PROVE  Loading'
<1> DEFINE c == Top.chip
<1>1. /\ calls # <<>> /\ Top.line = "need" /\ Top.need > Len(Needs[c])
      /\ Goto("add") /\ UNCHANGED <<broken, returned>>
  BY DEF create_new, At
<1>2. /\ Len(calls) \in Nat \ {0} /\ Top = calls[Len(calls)] /\ Top \in Frames
      /\ Len(Needs[c]) \in Nat /\ c \in Chips
  BY <1>1, Innermost DEF Loading, Frames
<1>3. NeedsMet(Top) /\ returned = "none"
  BY <1>1, <1>2 DEF Loading, Called, Answered, Waits, Frames
<1>4. /\ PartsOf(c) \subseteq DOMAIN components
      /\ Top.need = Len(Needs[c]) + 1
      /\ \A k \in 1 .. Len(calls) - 1 : calls[k].chip # c
  BY <1>1, <1>3, Alone
<1>5. /\ DOMAIN components' = DOMAIN components \cup {c}
      /\ \A d \in DOMAIN components : d # c => components'[d] = components[d]
      /\ components'[c] = [image |-> created[c] + 1, parts |-> {}, reads |-> {},
                           wired |-> FALSE, serialized |-> FALSE]
  BY DEF create_new
<1>6. Images'
  BY <1>2, <1>5 DEF Loading, Images
<1>7. Closed'
  BY <1>4, <1>5 DEF Loading, Closed
<1> QED
  BY <1>1, <1>3, <1>4, <1>5, <1>6, <1>7, Works DEF Lines

LEMMA Added ==
  ASSUME Loading, add_subgates
  PROVE  Loading'
<1> DEFINE c == Top.chip
<1>1. At("add") /\ UNCHANGED broken
  BY DEF add_subgates
<1>2. /\ calls # <<>> /\ Top.line = "add" /\ returned = "none"
      /\ NeedsMet(Top) /\ found(c) /\ Top.need = Len(Needs[c]) + 1
      /\ PartsOf(c) \subseteq DOMAIN components
  BY <1>1, PastNeeds DEF Lines, Built
<1>3. /\ components' = [components EXCEPT ![c].parts = PartsOf(c), ![c].reads = UNION {Reads(p) : p \in PartsOf(c)}]
      /\ Goto("wire") /\ returned' = returned
  BY <1>2 DEF add_subgates, found
<1>4. /\ DOMAIN components' = DOMAIN components
      /\ \A d \in DOMAIN components : d # c => components'[d] = components[d]
      /\ DOMAIN components'[c] = DOMAIN components[c]
      /\ components'[c].parts = PartsOf(c)
  <2>1. DOMAIN components[c] = {"image", "parts", "reads", "wired", "serialized"}
    BY <1>2 DEF Loading, Images, found
  <2> QED
    BY <1>2, <1>3, <2>1 DEF found
<1>5. Images'
  BY <1>2, <1>4 DEF Loading, Images, found
<1>6. Closed'
  BY <1>2, <1>4 DEF Loading, Closed, found
<1>7. \A k \in 1 .. Len(calls) - 1 : calls[k].chip # c
  BY <1>2 DEF Loading, Nested, Waits
<1>8. Goto("wire") /\ returned' = returned
  BY <1>3
<1>9. /\ DOMAIN components' = DOMAIN components \cup {c}
      /\ \A d \in DOMAIN components : d # c => components'[d].wired = components[d].wired
  BY <1>2, <1>4 DEF found
<1> QED
  BY <1>1, <1>2, <1>5, <1>6, <1>7, <1>8, <1>9, Works DEF Lines

LEMMA Wired ==
  ASSUME Loading, wire_pins
  PROVE  Loading'
<1> DEFINE c == Top.chip
<1>1. At("wire") /\ UNCHANGED broken
  BY DEF wire_pins
<1>2. /\ calls # <<>> /\ Top.line = "wire" /\ returned = "none"
      /\ NeedsMet(Top) /\ found(c) /\ Top.need = Len(Needs[c]) + 1
  BY <1>1, PastNeeds DEF Lines, Built
<1>3. CASE c \in broken
  <2>1. calls' = Pop /\ returned' = "false" /\ components' = components
    BY <1>3 DEF wire_pins
  <2> QED
    BY <1>1, <1>2, <1>3, <2>1, Returns
<1>4. CASE c \notin broken
  <2>1. PICK l \in {"precompute", "save"} : Goto(l)
    BY <1>4 DEF wire_pins
  <2>2. components' = [components EXCEPT ![c].wired = TRUE] /\ returned' = returned
    BY <1>4 DEF wire_pins
  <2>3. /\ DOMAIN components' = DOMAIN components
        /\ \A d \in DOMAIN components : d # c => components'[d] = components[d]
        /\ DOMAIN components'[c] = DOMAIN components[c]
        /\ components'[c].parts = components[c].parts
        /\ components'[c].wired
    <3>1. DOMAIN components[c] = {"image", "parts", "reads", "wired", "serialized"}
      BY <1>2 DEF Loading, Images, found
    <3> QED
      BY <1>2, <2>2, <3>1 DEF found
  <2>4. Images' /\ Closed'
    BY <1>2, <2>3 DEF Loading, Images, Closed, found
  <2>5. \A k \in 1 .. Len(calls) - 1 : calls[k].chip # c
    BY <1>2 DEF Loading, Nested, Waits
  <2> QED
    BY <1>1, <1>2, <2>1, <2>2, <2>3, <2>4, <2>5, Works DEF Lines, found
<1> QED
  BY <1>3, <1>4

LEMMA Tabulated ==
  ASSUME Loading, precompute
  PROVE  Loading'
<1> DEFINE c == Top.chip
<1>1. /\ calls # <<>> /\ Top.line = "precompute" /\ returned = "none"
      /\ NeedsMet(Top) /\ found(c) /\ Top.need = Len(Needs[c]) + 1 /\ components[c].wired
  BY PastNeeds DEF precompute, Lines, Built
<1>2. /\ components' = [components EXCEPT ![c].serialized = TRUE] /\ Goto("save")
      /\ UNCHANGED <<broken, returned>>
  BY DEF precompute
<1>3. /\ DOMAIN components' = DOMAIN components
      /\ \A d \in DOMAIN components : d # c => components'[d] = components[d]
      /\ DOMAIN components'[c] = DOMAIN components[c]
      /\ components'[c].parts = components[c].parts
      /\ components'[c].wired = components[c].wired
  <2>1. DOMAIN components[c] = {"image", "parts", "reads", "wired", "serialized"}
    BY <1>1 DEF Loading, Images, found
  <2> QED
    BY <1>1, <1>2, <2>1 DEF found
<1>4. Images' /\ Closed'
  BY <1>1, <1>3 DEF Loading, Images, Closed, found
<1>5. \A k \in 1 .. Len(calls) - 1 : calls[k].chip # c
  BY <1>1 DEF Loading, Nested, Waits
<1> QED
  BY <1>1, <1>2, <1>3, <1>4, <1>5, Works DEF Lines, found

LEMMA LoadingKept == IInv /\ [BoardNext]_board_vars => Loading'
<1> SUFFICES ASSUME IInv, [BoardNext]_board_vars PROVE Loading'
  OBVIOUS
<1>0. Loading /\ walk \subseteq Chips
  BY DEF IInv
<1>1. CASE init
  <2>1. PICK c \in walk : load_file(c)
    BY <1>1 DEF init
  <2>2. calls = <<>> /\ UNCHANGED <<components, broken>>
    BY <1>1 DEF init, Ready
  <2> QED
    BY <1>0, <2>1, <2>2, Outermost
<1>2. ASSUME NEW c \in Chips, load(c) PROVE Loading'
  BY <1>0, <1>2, Outermost DEF load, Prompt, Ready
<1>3. ASSUME NEW c \in Chips, compile(c) PROVE Loading'
  BY <1>0, <1>3, Compiled
<1>4. ASSUME NEW c \in Chips, serialize(c) PROVE Loading'
  BY <1>0, <1>4, Serialized
<1>5. CASE NeedFound
  BY <1>0, <1>5, NextNeeded DEF NeedFound
<1>6. CASE NeedLoad
  BY <1>0, <1>6, NeedLoads
<1>7. CASE NeedLoaded
  <2>1. found(Needed)
    BY <1>0, <1>7 DEF NeedLoaded, Needing, Loading, Answered
  <2> QED
    BY <1>0, <1>7, <2>1, NextNeeded DEF NeedLoaded
<1>8. CASE NeedCompile
  BY <1>0, <1>8, NeedCompiles
<1>9. CASE NeedFails
  BY <1>0, <1>9, NeedFailed
<1>10. CASE NeedExits \/ UNCHANGED board_vars
  <2>1. components' = components /\ broken' = broken /\ calls' = calls /\ returned' = returned
    BY <1>10 DEF NeedExits, board_vars
  <2>2. Images' /\ Closed' /\ LoadedWired'
    BY <1>0, <2>1 DEF Loading, Images, Closed, LoadedWired
  <2>3. Called'
    BY <1>0, <2>1 DEF Loading, Called, NeedsMet, Built, found
  <2>4. Nested' /\ Answered'
    BY <1>0, <2>1 DEF Loading, Nested, Answered, Waits, found, Top, Needed
  <2> QED
    BY <1>0, <2>1, <2>2, <2>3, <2>4 DEF Loading
<1>11. CASE create_new
  BY <1>0, <1>11, Created
<1>12. CASE add_subgates
  BY <1>0, <1>12, Added
<1>13. CASE wire_pins
  BY <1>0, <1>13, Wired
<1>14. CASE precompute
  BY <1>0, <1>14, Tabulated
<1>15. CASE save
  BY <1>0, <1>15, Saved
<1> QED
  BY <1>1, <1>2, <1>3, <1>4, <1>5, <1>6, <1>7, <1>8, <1>9, <1>10, <1>11, <1>12, <1>13, <1>14, <1>15
     DEF BoardNext, Step

LEMMA Inductive == IInv /\ [BoardNext]_board_vars => IInv'
<1> SUFFICES ASSUME IInv, [BoardNext]_board_vars PROVE walk' \subseteq Chips
  BY LoadingKept DEF IInv
<1>1. walk \subseteq Chips /\ Loading
  BY DEF IInv
<1>2. CASE NeedCompile
  <2>1. Needed \in Chips
    BY <1>1, <1>2, Missing DEF NeedCompile
  <2>2. walk' = walk \/ walk' = walk \cup {Needed}
    BY <1>2 DEF NeedCompile
  <2> QED
    BY <1>1, <2>1, <2>2
<1>3. CASE ~NeedCompile
  BY <1>1, <1>3 DEF BoardNext, Step, board_vars, init, load, compile, serialize, NeedFound, NeedLoad,
     NeedLoaded, NeedFails, NeedExits, create_new, add_subgates, wire_pins, precompute, save
<1> QED
  BY <1>2, <1>3

LEMMA Invariantly == BoardSpec => []IInv
<1>1. BoardInit => IInv
  BY Initially DEF BoardInit, IInv
<1> QED
  BY <1>1, Inductive, PTL DEF BoardSpec

-----------------------------------------------------------------------------
(* What a chip on the board is made of, and the tables it reads. *)

\* Among any chips on the board is one that needs none of them: no chip is made of itself.
WellMade == \A T \in SUBSET DOMAIN components : T # {} => \E c \in T : PartsOf(c) \cap T = {}

Made ==
  /\ \A c \in DOMAIN components : components[c].parts \subseteq PartsOf(c)
  /\ \A c \in DOMAIN components : components[c] \in Image

Kinds ==
  /\ created \in [Chips -> Nat]
  /\ hdl \subseteq Chips /\ meta \subseteq Chips /\ gate \subseteq Chips
  /\ broken \subseteq gate
  /\ returned \in {"none", "true", "false"}
  /\ stopped \in BOOLEAN

Tables == SUBSET (Chips \X Nat)

\* The tables of each chip, when those of its parts are f.
ReadsBy(f) ==
  [c \in Chips |->
     IF ~found(c) THEN {}
     ELSE IF components[c].serialized THEN {<<c, components[c].image>>}
     ELSE UNION {f[p] : p \in components[c].parts}]

Within(f, g) == \A c \in Chips : f[c] \subseteq g[c]

LEMMA PartsAreChips ==
  ASSUME NEW c \in Chips
  PROVE  PartsOf(c) \subseteq Chips
BY BoardAssumption DEF PartsOf

LEMMA ReadsTyped ==
  ASSUME Loading, Made, NEW f \in [Chips -> Tables]
  PROVE  ReadsBy(f) \in [Chips -> Tables]
<1> SUFFICES ASSUME NEW c \in Chips
             PROVE  ReadsBy(f)[c] \in Tables
  BY DEF ReadsBy
<1>1. CASE ~found(c)
  BY <1>1 DEF ReadsBy, Tables
<1>2. CASE found(c)
  <2>1. components[c].image \in Nat /\ components[c].parts \subseteq Chips
    BY <1>2 DEF Made, found, Image
  <2>2. CASE components[c].serialized
    BY <1>2, <2>1, <2>2 DEF ReadsBy, Tables
  <2>3. CASE ~components[c].serialized
    <3>1. ReadsBy(f)[c] = UNION {f[p] : p \in components[c].parts}
      BY <1>2, <2>3 DEF ReadsBy
    <3>2. \A p \in components[c].parts : f[p] \in Tables
      BY <2>1
    <3>. QED
      BY <3>1, <3>2 DEF Tables
  <2>. QED
    BY <2>2, <2>3
<1>. QED
  BY <1>1, <1>2

LEMMA ReadsGrow ==
  ASSUME Made, NEW f, NEW g, Within(f, g)
  PROVE  Within(ReadsBy(f), ReadsBy(g))
<1> SUFFICES ASSUME NEW c \in Chips, NEW r \in ReadsBy(f)[c]
             PROVE  r \in ReadsBy(g)[c]
  BY DEF Within
<1>1. CASE ~found(c) \/ components[c].serialized
  BY <1>1 DEF ReadsBy
<1>2. CASE found(c) /\ ~components[c].serialized
  <2>1. /\ ReadsBy(f)[c] = UNION {f[p] : p \in components[c].parts}
        /\ ReadsBy(g)[c] = UNION {g[p] : p \in components[c].parts}
    BY <1>2 DEF ReadsBy
  <2>2. components[c].parts \subseteq Chips
    BY <1>2 DEF Made, found, Image
  <2>. QED
    BY <2>1, <2>2 DEF Within
<1>. QED
  BY <1>1, <1>2

\* The least tables that are enough: what the definition of Reads asks for is there.
LEMMA ReadsExist ==
  ASSUME Loading, Made
  PROVE  \E f : f = ReadsBy(f)
<1> DEFINE Enough == {f \in [Chips -> Tables] : Within(ReadsBy(f), f)}
           least == [c \in Chips |-> {r \in Chips \X Nat : \A f \in Enough : r \in f[c]}]
<1>1. least \in [Chips -> Tables]
  BY DEF Tables
<1>2. \A f \in Enough : Within(least, f)
  BY DEF Within
<1>3. PICK l \in [Chips -> Tables] : l = least
  BY <1>1
<1>4. PICK m \in [Chips -> Tables] : m = ReadsBy(l)
  BY ReadsTyped
<1>5. Within(m, l)
  <2>1. ASSUME NEW f \in Enough
        PROVE  Within(m, f)
    <3>1. Within(m, ReadsBy(f))
      BY <1>2, <1>3, <1>4, ReadsGrow
    <3>2. Within(ReadsBy(f), f)
      OBVIOUS
    <3>. QED
      BY <3>1, <3>2 DEF Within
  <2>2. \A c \in Chips : m[c] \subseteq Chips \X Nat
    BY DEF Tables
  <2>3. \A c \in Chips : l[c] = {r \in Chips \X Nat : \A f \in Enough : r \in f[c]}
    BY <1>3
  <2> HIDE DEF Enough, least
  <2>. QED
    BY <2>1, <2>2, <2>3 DEF Within
<1>6. Within(ReadsBy(m), m)
  BY <1>4, <1>5, ReadsGrow
<1>7. Within(l, m)
  BY <1>2, <1>3, <1>6
<1>8. l = m
  <2>1. \A c \in Chips : l[c] = m[c]
    BY <1>5, <1>7 DEF Within
  <2>. QED
    BY ONLY <2>1, l \in [Chips -> Tables], m \in [Chips -> Tables]
<1>. QED
  BY <1>4, <1>8

LEMMA ReadsAre ==
  ASSUME Loading, Made, WellMade, NEW f, f = ReadsBy(f), NEW p \in Chips
  PROVE  f[p] \in Tables
<1> DEFINE T == {c \in DOMAIN components : f[c] \notin Tables}
<1>1. CASE T # {}
  <2>1. PICK c \in T : PartsOf(c) \cap T = {}
    BY <1>1 DEF WellMade
  <2>2. c \in Chips /\ found(c) /\ f[c] \notin Tables /\ components[c] \in Image
    BY DEF Made, found, Loading, Images
  <2>3. components[c].parts \subseteq DOMAIN components /\ components[c].parts \subseteq PartsOf(c)
    BY <2>2 DEF Loading, Closed, Made, found
  <2>4. \A q \in components[c].parts : f[q] \in Tables
    BY <2>1, <2>3
  <2>5. f[c] = ReadsBy(f)[c]
    OBVIOUS
  <2>6. f[c] = IF components[c].serialized THEN {<<c, components[c].image>>}
                                           ELSE UNION {f[q] : q \in components[c].parts}
    BY <2>2, <2>5 DEF ReadsBy
  <2>7. components[c].image \in Nat
    BY <2>2 DEF Image
  <2>. QED
    BY <2>2, <2>4, <2>6, <2>7 DEF Tables
<1>2. CASE T = {}
  <2>1. CASE found(p)
    BY <1>2, <2>1 DEF found
  <2>2. CASE ~found(p)
    <3>1. f[p] = ReadsBy(f)[p]
      OBVIOUS
    <3>. QED
      BY <2>2, <3>1 DEF ReadsBy, Tables
  <2>. QED
    BY <2>1, <2>2
<1>. QED
  BY <1>1, <1>2

LEMMA ReadsTables ==
  ASSUME Loading, Made, WellMade, NEW p \in Chips
  PROVE  Reads(p) \in Tables
<1> DEFINE Solves(f) == f = [c \in Chips |->
                               IF ~found(c) THEN {}
                               ELSE IF components[c].serialized THEN {<<c, components[c].image>>}
                               ELSE UNION {f[q] : q \in components[c].parts}]
<1>1. \A f : Solves(f) <=> f = ReadsBy(f)
  BY DEF ReadsBy
<1>2. PICK f : f = CHOOSE g : Solves(g)
  OBVIOUS
<1>3. Reads(p) = f[p]
  BY <1>2 DEF Reads
<1>4. \E g : Solves(g)
  BY <1>1, ReadsExist
<1> HIDE DEF Solves
<1>5. Solves(f)
  BY <1>2, <1>4
<1>. QED
  BY <1>1, <1>3, <1>5, ReadsAre

\* A chip that comes onto the board is needed by none that is there.
LEMMA WellMadeStays ==
  ASSUME Loading, WellMade, NEW c, PartsOf(c) \subseteq DOMAIN components,
         DOMAIN components' = DOMAIN components \cup {c}
  PROVE  WellMade'
<1>1. CASE c \in DOMAIN components
  BY <1>1 DEF WellMade
<1>2. CASE c \notin DOMAIN components
  <2> SUFFICES ASSUME NEW T \in SUBSET DOMAIN components', T # {}
               PROVE  \E d \in T : PartsOf(d) \cap T = {}
    BY DEF WellMade
  <2>1. CASE T \ {c} = {}
    <3>1. T = {c}
      BY <2>1
    <3>. QED
      BY <1>2, <3>1
  <2>2. CASE T \ {c} # {}
    <3>1. PICK d \in T \ {c} : PartsOf(d) \cap (T \ {c}) = {}
      BY <2>2 DEF WellMade
    <3>2. PartsOf(d) \subseteq DOMAIN components
      BY DEF Loading, Closed
    <3>. QED
      BY <1>2, <3>1, <3>2
  <2>. QED
    BY <2>1, <2>2
<1>. QED
  BY <1>1, <1>2

\* A field of an image is set.
LEMMA ImageSet ==
  ASSUME NEW i \in Image
  PROVE  /\ [i EXCEPT !.serialized = TRUE] \in Image /\ [i EXCEPT !.serialized = TRUE].parts = i.parts
         /\ [i EXCEPT !.wired = TRUE] \in Image /\ [i EXCEPT !.wired = TRUE].parts = i.parts
         /\ \A p \in SUBSET Chips, r \in Tables :
              /\ [i EXCEPT !.parts = p, !.reads = r] \in Image
              /\ [i EXCEPT !.parts = p, !.reads = r].parts = p
BY DEF Image, Tables

LEMMA MadeStays ==
  ASSUME Made, NEW c, NEW i \in Image, i.parts \subseteq PartsOf(c),
         DOMAIN components' = DOMAIN components \cup {c}, components'[c] = i,
         \A d \in DOMAIN components : d # c => components'[d] = components[d]
  PROVE  Made'
BY DEF Made, Image

LEMMA CreatedWell ==
  ASSUME Loading, Made, WellMade, Kinds, create_new
  PROVE  Made' /\ WellMade' /\ created' \in [Chips -> Nat]
<1>1. PICK c : c = Top.chip
  OBVIOUS
<1>2. /\ calls # <<>> /\ Top.line = "need" /\ Top.need > Len(Needs[c])
      /\ created' = [created EXCEPT ![c] = @ + 1]
  BY <1>1 DEF create_new, At
<1>3. /\ Len(calls) \in Nat \ {0} /\ Top = calls[Len(calls)] /\ c \in Chips
  BY <1>1, <1>2, Innermost DEF Loading, Frames
<1>4. PartsOf(c) \subseteq DOMAIN components
  <2>1. NeedsMet(Top)
    BY <1>3 DEF Loading, Called
  <2>. QED
    BY <1>1, <1>2, <2>1, Alone
<1>5. PICK n : n = created[c] + 1
  OBVIOUS
<1>6. n \in Nat /\ created \in [Chips -> Nat]
  BY <1>3, <1>5 DEF Kinds
<1>7. PICK i : i = [image |-> n, parts |-> {}, reads |-> {}, wired |-> FALSE, serialized |-> FALSE]
  OBVIOUS
<1>8. i \in Image /\ i.parts \subseteq PartsOf(c)
  BY <1>6, <1>7 DEF Image
<1>9. /\ DOMAIN components' = DOMAIN components \cup {c} /\ components'[c] = i
      /\ \A d \in DOMAIN components : d # c => components'[d] = components[d]
  BY <1>1, <1>5, <1>7 DEF create_new
<1>10. Made' /\ WellMade'
  BY <1>4, <1>8, <1>9, MadeStays, WellMadeStays
<1>11. created' \in [Chips -> Nat]
  BY <1>2, <1>3, <1>5, <1>6
<1>. QED
  BY <1>10, <1>11

LEMMA AddedWell ==
  ASSUME Loading, Made, WellMade, add_subgates
  PROVE  Made' /\ WellMade'
<1>1. PICK c : c = Top.chip
  OBVIOUS
<1>2. found(c) /\ PartsOf(c) \subseteq DOMAIN components /\ c \in Chips
  BY <1>1, PastNeeds DEF add_subgates, Lines, Frames
<1>3. PICK p, r : p = PartsOf(c) /\ r = UNION {Reads(q) : q \in PartsOf(c)}
  OBVIOUS
<1>4. p \in SUBSET Chips /\ r \in Tables
  <2>1. p \subseteq Chips
    BY <1>2, <1>3, PartsAreChips
  <2>2. \A q \in p : Reads(q) \in Tables
    BY <2>1, ReadsTables
  <2>. QED
    BY <1>3, <2>1, <2>2 DEF Tables
<1>5. components' = [components EXCEPT ![c].parts = p, ![c].reads = r]
  BY <1>1, <1>2, <1>3 DEF add_subgates, found
<1>6. PICK i : i = [components[c] EXCEPT !.parts = p, !.reads = r]
  OBVIOUS
<1>7. components[c] \in Image
  BY <1>2 DEF Made, found
<1>8. i \in Image /\ i.parts \subseteq PartsOf(c)
  BY <1>3, <1>4, <1>6, <1>7, ImageSet
<1>9. /\ DOMAIN components' = DOMAIN components \cup {c} /\ components'[c] = i
      /\ \A d \in DOMAIN components : d # c => components'[d] = components[d]
  BY <1>2, <1>5, <1>6 DEF found
<1>. QED
  BY <1>2, <1>8, <1>9, MadeStays, WellMadeStays

\* The chip c is wired, or gets a table.
LEMMA MarkedWell ==
  ASSUME Loading, Made, WellMade, NEW c, found(c),
         \/ components' = [components EXCEPT ![c].serialized = TRUE]
         \/ components' = [components EXCEPT ![c].wired = TRUE]
  PROVE  Made' /\ WellMade'
<1>1. components[c] \in Image /\ components[c].parts \subseteq PartsOf(c)
  BY DEF Made, found
<1>2. PICK i : i = components'[c]
  OBVIOUS
<1>3. i = [components[c] EXCEPT !.serialized = TRUE] \/ i = [components[c] EXCEPT !.wired = TRUE]
  BY <1>2 DEF found
<1>4. i \in Image /\ i.parts \subseteq PartsOf(c)
  BY <1>1, <1>3, ImageSet
<1>5. /\ DOMAIN components' = DOMAIN components \cup {c}
      /\ \A d \in DOMAIN components : d # c => components'[d] = components[d]
  BY DEF found
<1>6. PartsOf(c) \subseteq DOMAIN components
  BY DEF Loading, Closed, found
<1>. QED
  BY <1>2, <1>4, <1>5, <1>6, MadeStays, WellMadeStays

LEMMA MadeKept ==
  ASSUME IInv, Made, WellMade, Kinds, [BoardNext]_board_vars
  PROVE  Made' /\ WellMade' /\ created' \in [Chips -> Nat]
<1>0. Loading /\ created \in [Chips -> Nat]
  BY DEF IInv, Kinds
<1>1. CASE create_new
  BY <1>0, <1>1, CreatedWell
<1>2. CASE add_subgates
  BY <1>0, <1>2, AddedWell DEF add_subgates
<1>3. CASE precompute
  <2>1. found(Top.chip)
    BY <1>0, <1>3, PastNeeds DEF precompute, Lines
  <2>2. components' = [components EXCEPT ![Top.chip].serialized = TRUE] /\ created' = created
    BY <1>3 DEF precompute
  <2>. QED
    BY <1>0, <2>1, <2>2, MarkedWell
<1>4. ASSUME NEW c \in Chips, serialize(c)
      PROVE  Made' /\ WellMade' /\ created' \in [Chips -> Nat]
  BY <1>0, <1>4, MarkedWell DEF serialize
<1>5. CASE wire_pins /\ components' # components
  <2>1. found(Top.chip)
    BY <1>0, <1>5, PastNeeds DEF wire_pins, Lines
  <2>2. components' = [components EXCEPT ![Top.chip].wired = TRUE] /\ created' = created
    BY <1>5 DEF wire_pins
  <2>. QED
    BY <1>0, <2>1, <2>2, MarkedWell
<1>6. CASE components' = components /\ created' = created
  BY <1>0, <1>6 DEF Made, WellMade
<1>7. wire_pins => created' = created
  BY DEF wire_pins
<1>8. \/ \E c \in Chips : serialize(c)
      \/ create_new \/ add_subgates \/ wire_pins \/ precompute
      \/ components' = components /\ created' = created
  BY DEF BoardNext, Step, board_vars, init, load, compile, NeedFound, NeedLoad, NeedLoaded, NeedCompile,
     NeedFails, NeedExits, save
<1>. QED
  BY <1>1, <1>2, <1>3, <1>4, <1>5, <1>6, <1>7, <1>8

LEMMA FilesKept ==
  ASSUME IInv, Kinds, [BoardNext]_board_vars
  PROVE  /\ hdl' \subseteq Chips /\ meta' \subseteq Chips /\ gate' \subseteq Chips /\ broken' \subseteq gate'
         /\ returned' \in {"none", "true", "false"} /\ stopped' \in BOOLEAN
<1>1. ASSUME NEW c \in Chips, WriteFiles(c)
      PROVE  meta' \subseteq Chips /\ gate' \subseteq Chips /\ broken' \subseteq gate'
  BY <1>1 DEF WriteFiles, Kinds
<1>2. NeedCompile => Needed \in Chips
  BY Missing DEF NeedCompile, IInv
<1>3. \/ UNCHANGED <<gate, meta, broken>>
      \/ \E c \in Chips : WriteFiles(c)
  BY <1>2 DEF BoardNext, Step, board_vars, init, load, compile, serialize, NeedFound, NeedLoad, NeedLoaded,
     NeedCompile, NeedFails, NeedExits, create_new, add_subgates, wire_pins, precompute, save
<1>4. hdl' = hdl /\ (stopped' = stopped \/ stopped' = TRUE) /\ returned' \in {returned, "none", "true", "false"}
  BY DEF BoardNext, Step, board_vars, init, load, load_file, compile, serialize, NeedFound, NeedLoad,
     NeedLoaded, NeedCompile, NeedFails, NeedExits, create_new, add_subgates, wire_pins, precompute, save
<1>. QED
  BY <1>1, <1>3, <1>4 DEF Kinds

BoardInv == IInv /\ Made /\ WellMade /\ Kinds

LEMMA BoardInvariantly == BoardSpec => []BoardInv
<1>1. BoardInit => BoardInv
  <2> SUFFICES ASSUME BoardInit
               PROVE  BoardInv
    OBVIOUS
  <2>1. Loading /\ walk \subseteq Chips
    BY Initially DEF BoardInit
  <2>2. DOMAIN components = {}
    BY DEF BoardInit
  <2>3. Made /\ WellMade
    BY <2>2 DEF Made, WellMade
  <2>4. Kinds
    BY BoardAssumption DEF BoardInit, Kinds
  <2>. QED
    BY <2>1, <2>3, <2>4 DEF BoardInv, IInv
<1>2. BoardInv /\ [BoardNext]_board_vars => BoardInv'
  <2> SUFFICES ASSUME IInv, Made, WellMade, Kinds, [BoardNext]_board_vars
               PROVE  BoardInv'
    BY DEF BoardInv
  <2>1. IInv'
    BY Inductive
  <2>. QED
    BY <2>1, MadeKept, FilesKept DEF BoardInv, Kinds
<1>. QED
  BY <1>1, <1>2, PTL DEF BoardSpec

-----------------------------------------------------------------------------
(* What the program may rely on. *)

\* When a file has got past its needs, every chip it needs is on the board: whatever
\* files are missing or broken, and also when a needed chip could only be loaded after
\* it was compiled (load_file).
THEOREM AlwaysFound == BoardSpec => []NeedsFound
<1>1. IInv => NeedsFound
  <2> SUFFICES ASSUME Loading, At("add") PROVE PartsOf(Top.chip) \subseteq DOMAIN components
    BY DEF IInv, NeedsFound, found
  <2> QED
    BY PastNeeds DEF Lines
<1> QED
  BY <1>1, Invariantly, PTL

\* A chip on the board is wired, unless its file is broken or a call of load_file under
\* way is for it, in which case the call has yet to wire it (load_file).
THEOREM AlwaysWired == BoardSpec => []LoadedWired
<1>1. IInv => LoadedWired
  BY DEF IInv, Loading
<1> QED
  BY <1>1, Invariantly, PTL

\* Everything that a chip on the board is made of is on the board too, so that
\* duplicate, which looks up the parts of parts by their names, finds each of them
\* (create_new, Gate::duplicate).
THEOREM AlwaysClosed == BoardSpec => []Closed
<1>1. IInv => Closed
  BY DEF IInv, Loading
<1> QED
  BY <1>1, Invariantly, PTL

\* The failure of a need leaves no chip half made: a call that gives up while its needs
\* are loaded has not put its chip on the board, and no outer call has either.
THEOREM FailsBeforeCreate ==
  BoardSpec => [](Needing /\ returned = "false" => \A k \in 1 .. Len(calls) : ~found(calls[k].chip))
<1>1. ASSUME IInv, Needing, returned = "false", NEW k \in 1 .. Len(calls)
      PROVE  ~found(calls[k].chip)
  <2>1. Loading /\ calls # <<>> /\ Len(calls) \in Nat \ {0} /\ Top = calls[Len(calls)]
    BY <1>1, Innermost DEF IInv, Loading, Needing
  <2>2. Waits(Top)
    BY <1>1, <2>1 DEF Loading, Answered
  <2>3. k = Len(calls) \/ k \in 1 .. Len(calls) - 1
    BY <2>1
  <2> QED
    BY <2>1, <2>2, <2>3 DEF Loading, Nested, Waits
<1>2. IInv => (Needing /\ returned = "false" => \A k \in 1 .. Len(calls) : ~found(calls[k].chip))
  BY <1>1
<1> QED
  BY <1>2, Invariantly, PTL

\* No chip on the board is made of itself, through however many parts, though files may need
\* each other: so what goes down from a chip to its parts and their parts, as duplicate and
\* simulate do, comes to an end (load_file, Gate::duplicate).
THEOREM NeverWithinItself == BoardSpec => []WellMade
<1>1. BoardInv => WellMade
  BY DEF BoardInv
<1> QED
  BY <1>1, BoardInvariantly, PTL

\* Files, calls and images keep their types, and the tables that duplicates of a chip point
\* to are tables of images that were made (load_file, Gate::duplicate).
THEOREM BoardTyped == BoardSpec => []BoardTypeOK
<1>1. BoardInv => BoardTypeOK
  BY DEF BoardInv, IInv, Loading, Images, Made, Kinds, BoardTypeOK, Frames, Lines
<1> QED
  BY <1>1, BoardInvariantly, PTL

=============================================================================
