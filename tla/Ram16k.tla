--------------------------------- MODULE Ram16k ---------------------------------
(***************************************************************************)
(* The builtin random access memory: Ram16k::handle_ram_16k_impl.  It      *)
(* stores in the simulation that first sees the clock up and is immutable  *)
(* until one sees it down; it reads in every simulation.                   *)
(***************************************************************************)
EXTENDS Integers, Sequences

CONSTANTS Word,     \* the values of a word
          Address,  \* the addresses of the words
          Waves     \* the arrival order of the input signals (ChipInputs)

Levels == [in : Word, address : Address, load : BOOLEAN, clock : BOOLEAN]

Signals == {"in", "address", "load", "clock"}

ASSUME RamAssumption ==
  /\ 0 \in Word
  /\ 0 \in Address
  /\ Waves \in Seq(SUBSET Signals)
  /\ Signals = UNION {Waves[k] : k \in DOMAIN Waves}

\* The clock comes from an input of the circuit: it does not glitch.
ASSUME ClockAssumption ==
  \A j, k \in DOMAIN Waves : "clock" \in Waves[j] \cap Waves[k] => j = k

VARIABLES
  wire, pin, wave,  \* see ChipInputs
  data,
  immutable,
  out,
  writes,           \* history: words stored since a call with the clock down
  before            \* history: what the caller saw before the call under way

INSTANCE ChipInputs

chip == <<data, immutable, out>>
vars == <<wire, pin, wave, chip, writes, before>>

TypeOK ==
  /\ wire \in Levels
  /\ pin \in Levels
  /\ wave \in 0 .. Len(Waves)
  /\ data \in [Address -> Word]
  /\ immutable \in BOOLEAN
  /\ out \in Word
  /\ writes \in 0 .. 2
  /\ before \in [wire : Levels, data : [Address -> Word], out : Word]

Blank == [in |-> 0, address |-> 0, load |-> FALSE, clock |-> FALSE]

Init ==
  /\ wire = Blank /\ pin = Blank /\ wave = 0
  /\ data = [a \in Address |-> 0]
  /\ immutable = FALSE
  /\ out = 0
  /\ writes = 0
  /\ before = [wire |-> Blank, data |-> data, out |-> 0]

-----------------------------------------------------------------------------
\* Mutant: a memory that is not protected once it has been written.
MutableStores(p) == p.clock /\ p.load

Storing(p) == ~immutable /\ p.clock /\ p.load

Write(p) ==
  /\ Storing(p)
  /\ data' = [data EXCEPT ![p.address] = p.in]
  /\ writes' = IF writes < 2 THEN writes + 1 ELSE writes

Keep(p) == ~Storing(p) /\ UNCHANGED <<data, writes>>

\* Mutant: only a write protects the memory until the clock falls.
SynchronizeWritten(p) ==
  /\ immutable' = (p.clock /\ (immutable \/ p.load))
  /\ out' = data'[p.address]
  /\ pin' = p

Synchronize(p) ==
  /\ immutable' = p.clock
  /\ out' = data'[p.address]
  /\ pin' = p

Simulate ==
  \E p \in Levels :
    /\ Deliver(p)
    /\ Write(p) \/ Keep(p)
    /\ Synchronize(p)
    /\ UNCHANGED before

Evaluate ==
  \E w \in Levels :
    /\ Call(w)
    /\ before' = [wire |-> wire, data |-> data, out |-> out]
    /\ writes' = IF w.clock THEN writes ELSE 0
    /\ UNCHANGED chip

Quiet == Pass /\ UNCHANGED <<chip, writes, before>>

Next == Simulate \/ Evaluate \/ Quiet

Spec == Init /\ [][Next]_vars

-----------------------------------------------------------------------------
\* "State can ONLY be written ONCE per clock cycle": however many waves simulate
\* the chip, and in however many calls, it stores once while the clock is up
\* (ram16k.hpp:80-86).
WrittenOnce == writes <= 1

RisingEdge(old, new) == ~old.clock /\ new.clock /\ new.load
AddressOf(l) == l.address

Memory == INSTANCE AddressedMemory
            WITH Stores <- RisingEdge, WriteAddress <- AddressOf, ReadAddress <- AddressOf,
                 level <- IF Between THEN wire ELSE before.wire,
                 data  <- IF Between THEN data ELSE before.data,
                 out   <- IF Between THEN out ELSE before.out
=============================================================================
