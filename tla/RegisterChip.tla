------------------------------ MODULE RegisterChip ------------------------------
(***************************************************************************)
(* The builtin register: Register::handle_register_impl.  It stores at     *)
(* most once between two simulations that see the clock down, only a word  *)
(* other than the one it holds, and shows a word only when it stores it.   *)
(* The word it holds is not initialized.                                   *)
(***************************************************************************)
EXTENDS Integers, Sequences

CONSTANTS Width,  \* bits of a word
          Waves   \* the arrival order of the input signals (ChipInputs)

Number == 0 .. 2 ^ Width - 1

Levels == [in : Number, load : BOOLEAN, clock : BOOLEAN]

Signals == {"in", "load", "clock"}

VARIABLES
  wire, pin, wave,  \* see ChipInputs
  data,
  written,
  out,
  stores,           \* history: words stored since a call with the clock down
  stored,           \* history: has a word ever been stored
  before            \* history: clock and data when the call under way began

INSTANCE ChipInputs

chip == <<data, written, out>>
vars == <<wire, pin, wave, chip, stores, stored, before>>

TypeOK ==
  /\ wire \in Levels
  /\ pin \in Levels
  /\ wave \in 0 .. Len(Waves)
  /\ data \in Number
  /\ written \in 0 .. 1
  /\ out \in Number
  /\ stores \in 0 .. 2
  /\ stored \in BOOLEAN
  /\ before \in [clock : BOOLEAN, data : Number]

AllOff == [in |-> 0, load |-> FALSE, clock |-> FALSE]

Init ==
  /\ wire = AllOff /\ pin = AllOff /\ wave = 0
  /\ data \in Number
  /\ written = 0
  /\ out = 0
  /\ stores = 0
  /\ stored = FALSE
  /\ before = [clock |-> FALSE, data |-> data]

-----------------------------------------------------------------------------
\* Mutant: a register that may be written at any time while the clock is up.
StoringAgain(p) == p.clock /\ p.load /\ p.in # data

Storing(p) == p.clock /\ p.load /\ p.in # data /\ written < 1

\* Mutant: the output pins are not set.
StoreUnseen(p) ==
  /\ Storing(p)
  /\ data' = p.in
  /\ written' = 1
  /\ pin' = p
  /\ stores' = IF stores < 2 THEN stores + 1 ELSE stores
  /\ stored' = TRUE
  /\ UNCHANGED out

Store(p) ==
  /\ Storing(p)
  /\ data' = p.in
  /\ out' = p.in
  /\ written' = 1
  /\ pin' = p
  /\ stores' = IF stores < 2 THEN stores + 1 ELSE stores
  /\ stored' = TRUE

Hold(p) ==
  /\ p.clock
  /\ ~Storing(p)
  /\ pin' = p
  /\ UNCHANGED <<chip, stores, stored>>

\* Mutant: the register stays written when the clock falls.
ReopenForgets(p) ==
  /\ ~p.clock
  /\ pin' = [p EXCEPT !.load = FALSE]
  /\ UNCHANGED <<data, written, out, stores, stored>>

\* Mutant: the load pin keeps its level when the clock falls.
ReopenKeepsLoad(p) ==
  /\ ~p.clock
  /\ written' = 0
  /\ pin' = p
  /\ UNCHANGED <<data, out, stores, stored>>

\* With the clock down the register may be written again, and switches its own
\* load pin off.
Reopen(p) ==
  /\ ~p.clock
  /\ written' = 0
  /\ pin' = [p EXCEPT !.load = FALSE]
  /\ UNCHANGED <<data, out, stores, stored>>

Simulate ==
  \E p \in Levels :
    /\ Deliver(p)
    /\ Store(p) \/ Hold(p) \/ Reopen(p)
    /\ UNCHANGED before

Evaluate ==
  \E w \in Levels :
    /\ Call(w)
    /\ before' = [clock |-> wire.clock, data |-> data]
    /\ stores' = IF w.clock THEN stores ELSE 0
    /\ UNCHANGED <<chip, stored>>

Quiet == Pass /\ UNCHANGED <<chip, stores, stored, before>>

Next == Simulate \/ Evaluate \/ Quiet

Spec == Init /\ [][Next]_vars

-----------------------------------------------------------------------------
RisingEdge == Between /\ ~before.clock /\ wire.clock

\* A call that raises the clock with load up leaves the register with the input
\* that call settles on, and one that raises it with load down leaves it alone,
\* though the handler cannot tell an old signal from a new one
\* (Register::handle_register_impl and its comment, register.hpp:54-56).
RisingEdgeStores == RisingEdge => data = IF wire.load THEN wire.in ELSE before.data

\* The register changes at most once while the clock stays up.
StoresOnce == stores <= 1

\* Once it has stored a word the register shows the word it holds.
ShowsData == stored => out = data
=============================================================================
