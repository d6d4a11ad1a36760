------------------------------- MODULE ChipInputs -------------------------------
(***************************************************************************)
(* How the input levels of a builtin chip change while the circuit it is a *)
(* part of is simulated.  One call of simulate() on the circuit brings the *)
(* chip's input pins to the levels of the wires that lead to them, but not *)
(* at once: in each wave of Gate::handle_custom_type some of the signals   *)
(* arrive, and the chip is simulated in the first wave and again in every  *)
(* later wave that changes a pin.  A signal that arrives in several waves  *)
(* is the output of a gate that is itself simulated several times, so all  *)
(* but its last arrival may carry any level.                               *)
(***************************************************************************)
EXTENDS Integers, Sequences

CONSTANTS
  Levels,  \* records: a level for every input signal of the chip
  Waves    \* the signals that arrive in each wave of a call

VARIABLES
  wire,  \* the levels the circuit settles on in this call
  pin,   \* the levels of the chip's input pins
  wave   \* the next wave of the call, 0 between calls

Between == wave = 0

\* The circuit is simulated with new levels.
Call(w) ==
  /\ Between
  /\ wire' = w
  /\ wave' = 1
  /\ UNCHANGED pin

ArrivesAgain(s) == \E k \in wave + 1 .. Len(Waves) : s \in Waves[k]

\* The input levels after the arrivals of this wave.
Arrivals ==
  {a \in Levels : \A s \in DOMAIN pin :
     IF s \notin Waves[wave] THEN a[s] = pin[s]
                             ELSE a[s] = wire[s] \/ ArrivesAgain(s)}

\* Mutant: the chip is simulated in the first wave only.
FiresOnce(a) == wave = 1

\* The chip is simulated: it is not visited yet, or a changed pin unmarks it.
Fires(a) == wave = 1 \/ a # pin

\* Mutant: the waves do not end.
EndWaveNever == wave' = wave + 1

EndWave == wave' = IF wave = Len(Waves) THEN 0 ELSE wave + 1

\* The chip is simulated with the arrived levels: its handler follows.
Deliver(a) == ~Between /\ a \in Arrivals /\ Fires(a) /\ EndWave /\ UNCHANGED wire

\* A wave that leaves the chip alone.
Pass ==
  /\ ~Between
  /\ \E a \in Arrivals : ~Fires(a)
  /\ EndWave
  /\ UNCHANGED <<wire, pin>>
=============================================================================
