------------------------------ MODULE ClockedChips ------------------------------
(***************************************************************************)
(* The four clocked chips, each in circuits that deliver its inputs in some *)
(* order.  Which chip, of how many bits and in which order, is chosen at   *)
(* the start.  The chips share the variables of ChipInputs, the output,    *)
(* the words and the history of the last call; this module extends the     *)
(* ram's and instantiates the others.                                      *)
(***************************************************************************)
EXTENDS Ram16k

CONSTANTS Placements,  \* the chips; of counters and registers the bits and the order too
          RomWaves     \* the arrival order of the rom's signals

VARIABLES
  placement,
  register_value, action_taken, previous_state, incs, rearmed,  \* ProgramCounter
  written, stores, stored                              \* RegisterChip

counter == <<register_value, action_taken, previous_state, incs, rearmed>>
marks == <<written, stores, stored>>
flags == <<immutable, writes>>

PCSignals == {"in", "load", "inc", "reset", "clock"}
RegisterSignals == {"in", "load", "clock"}
RomSignals == {"in", "read_address", "write_address", "load", "clock"}

\* In an order each of the signals arrives once or more.
Orders(signals) ==
  {w \in Seq(SUBSET signals) : \A s \in signals : \E k \in DOMAIN w : s \in w[k]}

ASSUME PlacementsAssumption ==
  /\ \A p \in Placements : p.chip = "pc" => p.waves \in Orders(PCSignals)
  /\ \A p \in Placements : p.chip = "register" => p.waves \in Orders(RegisterSignals)
  /\ RomWaves \in Orders(RomSignals)

PC(p) == INSTANCE ProgramCounter WITH Width <- p.width, Waves <- p.waves
Register(p) == INSTANCE RegisterChip WITH Width <- p.width, Waves <- p.waves
Rom == INSTANCE Rom32k WITH Waves <- RomWaves

-----------------------------------------------------------------------------
NoCounter == register_value = 0 /\ action_taken = FALSE /\ previous_state = <<>> /\ incs = 0 /\ rearmed = FALSE
NoMarks == written = 0 /\ stores = 0 /\ stored = FALSE
NoFlags == immutable = FALSE /\ writes = 0

ChipsInit ==
  \E p \in Placements :
    /\ placement = p
    /\ \/ p.chip = "pc" /\ PC(p)!Init /\ data = 0 /\ NoMarks /\ NoFlags
       \/ p.chip = "register" /\ Register(p)!Init /\ NoCounter /\ NoFlags
       \/ p.chip = "ram" /\ Init /\ NoCounter /\ NoMarks
       \/ p.chip = "rom" /\ Rom!Init /\ NoCounter /\ NoMarks /\ NoFlags

ChipsNext ==
  \E p \in Placements :
    /\ placement = p /\ UNCHANGED placement
    /\ \/ p.chip = "pc" /\ PC(p)!Next /\ UNCHANGED <<data, marks, flags>>
       \/ p.chip = "register" /\ Register(p)!Next /\ UNCHANGED <<counter, flags>>
       \/ p.chip = "ram" /\ Next /\ UNCHANGED <<counter, marks>>
       \/ p.chip = "rom" /\ Rom!Next /\ UNCHANGED <<counter, marks, flags>>

chips == <<vars, placement, counter, marks>>

ChipsSpec == ChipsInit /\ [][ChipsNext]_chips

-----------------------------------------------------------------------------
\* A signal that comes once, first or last of all.
First(s, w) == \A k \in DOMAIN w : s \in w[k] <=> k = 1
Last(s, w) == \A k \in DOMAIN w : s \in w[k] <=> k = Len(w)

\* What comes in the first wave, the clock among it, comes only then.
ClockAhead(w) == "clock" \in w[1] /\ \A s \in w[1] : First(s, w)

\* All signals come straight from the inputs of the circuit.
AtOnce(w) == Len(w) = 1

IsPC(p) == placement = p /\ p.chip = "pc"
IsRegister(p) == placement = p /\ p.chip = "register"

\* A call that raises the clock makes the counter do what the controls of that call
\* ask for, whether they arrive with the clock or glitch before it; where the clock is ahead
\* of them, what those of the call before ask for, though later waves bring others and
\* glitches.  When all comes at once, a call that leaves the clock down does not move it,
\* whatever remains on its pins from the call before (PC::handle_pc_impl, PC::forwardable).
RisingEdgeCounts ==
  \A p \in Placements : IsPC(p) =>
    /\ Last("clock", p.waves) => PC(p)!RisingEdgeCounts
    /\ ClockAhead(p.waves) => PC(p)!EarlyEdgeCounts
    /\ AtOnce(p.waves) => PC(p)!LowClockHolds

\* While the clock stays up the counter advances at most once, though it switches its own
\* clock pin off and every call raises it again, unless it is simulated in between with that pin
\* down, which a signal that comes after the clock, or before it, does; with all its inputs straight
\* from those of the circuit that never happens (PC::handle_pc_impl).
IncrementsOnce ==
  \A p \in Placements : IsPC(p) =>
    /\ PC(p)!IncrementsAgainRearmed
    /\ AtOnce(p.waves) => PC(p)!IncrementsOnce

\* "Only forward once, when the signal turned from inactive to active", in whatever order
\* the inputs come (pc.hpp:68-70).
ForwardsOnce == \A p \in Placements : IsPC(p) => PC(p)!IncrementsOnce

\* A call that raises the clock with load up leaves the register with the input the
\* call settles on, and one with load down leaves it alone, when the clock comes first
\* and load last, or all at once, whatever glitches come by on its input
\* (Register::handle_register_impl, register.hpp:54-56).
RisingEdgeStores ==
  \A p \in Placements : IsRegister(p) /\ First("clock", p.waves) /\ Last("load", p.waves) =>
    Register(p)!RisingEdgeStores

\* The register changes at most once while the clock, which comes first, stays up.
StoresOnce ==
  \A p \in Placements : IsRegister(p) /\ First("clock", p.waves) => Register(p)!StoresOnce

\* Once it has stored a word the register shows the word it holds
\* (Register::handle_register_impl).
ShowsData == \A p \in Placements : IsRegister(p) => Register(p)!ShowsData

\* The rom may be read late, but gets all it needs to store at once.
OnlyReadLate == \A s \in RomSignals \ {"read_address"} : First(s, RomWaves)

\* What a caller sees of a memory: its levels and words at the last return.
Seen == IF Between THEN <<wire, data, out>> ELSE <<before.wire, before.data, before.out>>

\* Seen from one call to the next, the ram stores on the rising edge of the clock, at
\* the address and the word the circuit settles on, though glitches of both come by
\* before the clock does (Ram16k::handle_ram_16k_impl); the rom, with only its read
\* address late, stores in every call with clock and load up and shows the settled
\* read address, even when that word is the one just stored (Rom32k::handle_rom_32k_impl).
ImplementMemories ==
  /\ placement.chip = "ram" /\ Last("clock", Waves) => Memory!Init
  /\ placement.chip = "rom" /\ OnlyReadLate => Rom!Memory!Init
  /\ [][ /\ placement.chip = "ram" /\ Last("clock", Waves) => Memory!Next \/ UNCHANGED Seen
         /\ placement.chip = "rom" /\ OnlyReadLate => Rom!Memory!Next \/ UNCHANGED Seen]_chips
=============================================================================
