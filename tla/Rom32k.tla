--------------------------------- MODULE Rom32k ---------------------------------
(***************************************************************************)
(* The builtin instruction memory: Rom32k::handle_rom_32k_impl.  It has a  *)
(* second address to store at, for loading programs, and stores in every   *)
(* simulation that sees the clock and load up.                             *)
(***************************************************************************)
EXTENDS Integers, Sequences

CONSTANTS Word,     \* the values of a word
          Address,  \* the addresses of the words
          Waves     \* the arrival order of the input signals (ChipInputs)

Levels == [in : Word, read_address : Address, write_address : Address,
           load : BOOLEAN, clock : BOOLEAN]

Signals == {"in", "read_address", "write_address", "load", "clock"}

VARIABLES
  wire, pin, wave,  \* see ChipInputs
  data,
  out,
  before            \* history: what the caller saw before the call under way

INSTANCE ChipInputs

chip == <<data, out>>
vars == <<wire, pin, wave, chip, before>>

TypeOK ==
  /\ wire \in Levels
  /\ pin \in Levels
  /\ wave \in 0 .. Len(Waves)
  /\ data \in [Address -> Word]
  /\ out \in Word
  /\ before \in [wire : Levels, data : [Address -> Word], out : Word]

Blank == [in |-> 0, read_address |-> 0, write_address |-> 0,
          load |-> FALSE, clock |-> FALSE]

Init ==
  /\ wire = Blank /\ pin = Blank /\ wave = 0
  /\ data = [a \in Address |-> 0]
  /\ out = 0
  /\ before = [wire |-> Blank, data |-> data, out |-> 0]

-----------------------------------------------------------------------------
Write(p) ==
  /\ p.clock /\ p.load
  /\ data' = [data EXCEPT ![p.write_address] = p.in]

Keep(p) == ~(p.clock /\ p.load) /\ UNCHANGED data

\* Mutant: the word is shown before it is stored.
SynchronizeEarly(p) == out' = data[p.read_address] /\ pin' = p

Synchronize(p) == out' = data'[p.read_address] /\ pin' = p

Simulate ==
  \E p \in Levels :
    /\ Deliver(p)
    /\ Write(p) \/ Keep(p)
    /\ Synchronize(p)
    /\ UNCHANGED before

Evaluate ==
  \E w \in Levels :
    /\ Call(w)
    /\ before' = [wire |-> wire, data |-> data, out |-> out]
    /\ UNCHANGED chip

Quiet == Pass /\ UNCHANGED <<chip, before>>

Next == Simulate \/ Evaluate \/ Quiet

Spec == Init /\ [][Next]_vars

-----------------------------------------------------------------------------
HighClock(old, new) == new.clock /\ new.load
WriteAddressOf(l) == l.write_address
ReadAddressOf(l) == l.read_address

Memory == INSTANCE AddressedMemory
            WITH Stores <- HighClock,
                 WriteAddress <- WriteAddressOf, ReadAddress <- ReadAddressOf,
                 level <- IF Between THEN wire ELSE before.wire,
                 data  <- IF Between THEN data ELSE before.data,
                 out   <- IF Between THEN out ELSE before.out
=============================================================================
