----------------------------- MODULE ProgramCounter -----------------------------
(***************************************************************************)
(* The builtin program counter: PC::handle_pc_impl.  The handler decides   *)
(* from its pins alone whether the clock has risen: it switches its own    *)
(* clock pin off after an operation, and remembers the control pins it saw *)
(* last and whether it has incremented.                                    *)
(***************************************************************************)
EXTENDS Integers, Sequences

CONSTANTS Width,  \* bits of a word
          Waves   \* the arrival order of the input signals (ChipInputs)

Number == 0 .. 2 ^ Width - 1

Levels == [in : Number, load : BOOLEAN, inc : BOOLEAN, reset : BOOLEAN, clock : BOOLEAN]

Signals == {"in", "load", "inc", "reset", "clock"}

VARIABLES
  wire, pin, wave,  \* see ChipInputs
  register_value,
  action_taken,
  previous_state,   \* the control pins at the end of the last simulation
  out,              \* the output pins
  incs,             \* history: increments since a call with the clock down
  rearmed,          \* history: simulated with its clock pin down since the first of them
  before            \* history: clock and count before the call, and what its first wave brings

INSTANCE ChipInputs

chip == <<register_value, action_taken, previous_state, out>>
vars == <<wire, pin, wave, chip, incs, rearmed, before>>

Control(p) == <<p.load, p.inc, p.reset, p.clock>>

TypeOK ==
  /\ wire \in Levels
  /\ pin \in Levels
  /\ wave \in 0 .. Len(Waves)
  /\ register_value \in Number
  /\ action_taken \in BOOLEAN
  /\ previous_state \in BOOLEAN \X BOOLEAN \X BOOLEAN \X BOOLEAN
  /\ out \in Number
  /\ incs \in 0 .. 2
  /\ rearmed \in BOOLEAN
  /\ before \in [clock : BOOLEAN, count : Number, early : Levels]

AllOff == [in |-> 0, load |-> FALSE, inc |-> FALSE, reset |-> FALSE, clock |-> FALSE]

Init ==
  /\ wire = AllOff /\ pin = AllOff /\ wave = 0
  /\ register_value = 0 /\ out = 0
  /\ action_taken = FALSE
  /\ previous_state = Control(AllOff)
  /\ incs = 0
  /\ rearmed = FALSE
  /\ before = [clock |-> FALSE, count |-> 0, early |-> AllOff]

-----------------------------------------------------------------------------
\* Simulating the chip with the clock pin down ends the cycle.
Taken(p) == action_taken /\ p.clock

Forwardable(p) == previous_state # Control(p) /\ p.clock

\* What every simulation ends with: q are the pins as the handler leaves them.
Finish(q) == pin' = q /\ previous_state' = Control(q)

ClockOff(p) == [p EXCEPT !.clock = FALSE]

Reset(p) ==
  /\ Forwardable(p) /\ ~Taken(p)
  /\ p.reset
  /\ register_value' = 0
  /\ out' = 0
  /\ action_taken' = FALSE
  /\ Finish(ClockOff(p))
  /\ UNCHANGED incs

Incremented == (register_value + 1) % 2 ^ Width

\* Mutant: the flag that blocks a second operation is not set.
IncrementForgets(p) ==
  /\ Forwardable(p) /\ ~Taken(p)
  /\ ~p.reset /\ p.inc
  /\ register_value' = Incremented
  /\ out' = Incremented
  /\ action_taken' = FALSE
  /\ Finish(ClockOff(p))
  /\ incs' = IF incs < 2 THEN incs + 1 ELSE incs

Increment(p) ==
  /\ Forwardable(p) /\ ~Taken(p)
  /\ ~p.reset /\ p.inc
  /\ register_value' = Incremented
  /\ out' = Incremented
  /\ action_taken' = TRUE
  /\ Finish(ClockOff(p))
  /\ incs' = IF incs < 2 THEN incs + 1 ELSE incs

\* Mutant: a load that precedes an increment wins over it.
LoadFirst(p) ==
  /\ Forwardable(p) /\ ~Taken(p)
  /\ ~p.reset /\ p.load
  /\ register_value' = p.in
  /\ out' = p.in
  /\ action_taken' = FALSE
  /\ Finish(ClockOff(p))
  /\ UNCHANGED incs

Load(p) ==
  /\ Forwardable(p) /\ ~Taken(p)
  /\ ~p.reset /\ ~p.inc /\ p.load
  /\ register_value' = p.in
  /\ out' = p.in
  /\ action_taken' = FALSE
  /\ Finish(ClockOff(p))
  /\ UNCHANGED incs

\* Nothing to do: only the output pins are synchronized.
Forward(p) ==
  /\ Forwardable(p)
  /\ Taken(p) \/ ~(p.reset \/ p.inc \/ p.load)
  /\ out' = register_value
  /\ action_taken' = Taken(p)
  /\ Finish(p)
  /\ UNCHANGED <<register_value, incs>>

Ignore(p) ==
  /\ ~Forwardable(p)
  /\ action_taken' = Taken(p)
  /\ Finish(p)
  /\ UNCHANGED <<register_value, out, incs>>

Simulate ==
  \E p \in Levels :
    /\ Deliver(p)
    /\ Reset(p) \/ Increment(p) \/ Load(p) \/ Forward(p) \/ Ignore(p)
    /\ rearmed' = (rearmed \/ (incs > 0 /\ ~p.clock))
    /\ UNCHANGED before

\* The levels w as the first wave brings them: what comes later is as it was.
Early(w) == [s \in Signals |-> IF s \in Waves[1] THEN w[s] ELSE wire[s]]

Evaluate ==
  \E w \in Levels :
    /\ Call(w)
    /\ before' = [clock |-> wire.clock, count |-> register_value, early |-> Early(w)]
    /\ incs' = IF w.clock THEN incs ELSE 0
    /\ rearmed' = (rearmed /\ w.clock)
    /\ UNCHANGED chip

Quiet == Pass /\ UNCHANGED <<chip, incs, rearmed, before>>

Next == Simulate \/ Evaluate \/ Quiet

Spec == Init /\ [][Next]_vars

-----------------------------------------------------------------------------
CountAfter(v, w) ==
  CASE w.reset -> 0
    [] ~w.reset /\ w.inc -> (v + 1) % 2 ^ Width
    [] ~w.reset /\ ~w.inc /\ w.load -> w.in
    [] OTHER -> v

\* A call that raises the clock performs exactly the operation the controls of
\* that call ask for and shows the result, although the handler sees neither
\* the edge nor the call but only pins (PC::handle_pc_impl, PC::forwardable).
RisingEdgeCounts ==
  Between /\ ~before.clock /\ wire.clock =>
    /\ register_value = CountAfter(before.count, wire)
    /\ out = register_value

\* A counter whose clock is ahead of its controls does, in a call that raises the clock,
\* what the controls ask for that are there in the first wave, if they ask for anything:
\* those of the call before, but for what comes with the clock.
EarlyEdgeCounts ==
  LET early == before.early
  IN  Between /\ ~before.clock /\ wire.clock /\ (early.reset \/ early.inc \/ early.load) =>
        /\ register_value = CountAfter(before.count, early)
        /\ out = register_value

\* A call that leaves the clock down does not move the counter, whatever
\* remains on its pins from the call before.
LowClockHolds ==
  Between /\ ~wire.clock => register_value = before.count /\ out = before.count

\* "Only forward once, when the signal turned from inactive to active": the
\* counter advances at most once while the clock stays up (pc.hpp:68-70).
IncrementsOnce == incs <= 1

\* In every order only a simulation that finds the clock pin down, which the counter itself
\* switches off when it counts, lets it count again while the clock stays up.
IncrementsAgainRearmed == incs <= 1 \/ rearmed
=============================================================================
