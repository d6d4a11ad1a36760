----------------------------- MODULE MCClockedChips -----------------------------
(***************************************************************************)
(* The clocked chips in some of the orders the scripts give rise to, and in *)
(* orders in which the chips do all that is asked of them.                  *)
(***************************************************************************)
EXTENDS ClockedChips

\* The order the two forward chips of scripts/computer.hdl are there for: the clock of the ram
\* comes behind what the processor says at once; its address and load glitch.
ClockLast == <<{"in", "address", "load"}, {"address", "load"}, {"clock"}>>

\* Of the rom in scripts/computer.hdl the processor, simulated twice, gives the
\* read address.
ReadAddressLate == <<RomSignals, {"read_address"}, {"read_address"}>>

\* A counter behind glitching controls.
ClockBehind == <<PCSignals \ {"clock"}, {"load", "inc"}, {"clock"}>>

\* The counter of scripts/cpu.hdl: clock and reset are inputs of the processor, the data
\* input and the controls are behind gates of several depths.
ClockEarly == <<{"clock", "reset"}, {"in", "load"}, {"in", "inc"}, {"in", "inc"}>>

\* A register whose load comes behind a glitching input.
LoadLast == <<{"in", "clock"}, {"in"}, {"load"}>>

\* The registers of scripts/cpu.hdl: the load glitches too, and the input changes after it.
LoadBehindGates == <<{"clock"}, {"in"}, {"in", "load"}, {"in", "load"}, {"in"}>>

SomePlacements ==
  { [chip |-> "pc", width |-> 2, waves |-> <<PCSignals>>],
    [chip |-> "pc", width |-> 1, waves |-> ClockBehind],
    [chip |-> "pc", width |-> 1, waves |-> ClockEarly],
    [chip |-> "register", width |-> 2, waves |-> <<RegisterSignals>>],
    [chip |-> "register", width |-> 2, waves |-> LoadLast],
    [chip |-> "register", width |-> 1, waves |-> LoadBehindGates],
    [chip |-> "ram"], [chip |-> "rom"] }

\* A counter whose data input alone is behind a gate: a place where ForwardsOnce does not
\* hold, as little as it does with ClockEarly.
HeldPlacements == {[chip |-> "pc", width |-> 2, waves |-> <<PCSignals \ {"in"}, {"in"}>>]}
=============================================================================
