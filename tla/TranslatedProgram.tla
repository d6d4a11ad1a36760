---------------------------- MODULE TranslatedProgram ----------------------------
(***************************************************************************)
(* A VM program, translated by VMTranslator, assembled, and run by the     *)
(* Hack computer one instruction at a time.  What the program has reached  *)
(* is read off the memory whenever the computer is about to start the code *)
(* of a command.                                                           *)
(***************************************************************************)
EXTENDS HackComputer, VMTranslator

CONSTANTS Programs,
          Segments,   \* the addresses Computer::set_up_memory leaves in SP to THAT
          Heap        \* the addresses programs use through this and that

VARIABLES
  loaded,     \* the program, its instructions, and where they and the statics are
  shown       \* what the memory showed at the last start of a command

vars == <<computer, loaded, shown>>

program == loaded.program

Mark(c) == c.op \in {"label", "function"}

Commands(p) == {i \in DOMAIN p : ~Mark(p[i])}

StaticsOf(p) ==
  {p[i].index : i \in {j \in DOMAIN p : p[j].op \in {"push", "pop"} /\ p[j].segment = "static"}}

Loaded(p) ==
  [program |-> p,
   rom     |-> Assembled(p),
   command |-> [address \in {Start(p, i) : i \in Commands(p)} |->
                  CHOOSE i \in Commands(p) : Start(p, i) = address],
   static  |-> [i \in StaticsOf(p) |-> StaticAddress(Source(p), i)]]

-----------------------------------------------------------------------------
(* The memory, read as a stack machine. *)

Starting == m_pc \in DOMAIN loaded.command

TopLevel == Segments[LCL + 1]

\* The bases of the local segments, from the function under way outwards, and
\* those of their arguments.
LocalBase[k \in 0 .. RamSize] ==
  IF k = 0 THEN m_ram[LCL]
  ELSE LET inner == LocalBase[k - 1] IN IF inner = TopLevel THEN TopLevel ELSE m_ram[inner - 4]

ArgumentBase(k) == IF k = 0 THEN m_ram[ARG] ELSE m_ram[LocalBase[k - 1] - 3]

Depth == CHOOSE k \in 0 .. RamSize :
           LocalBase[k] = TopLevel /\ \A j \in 0 .. k - 1 : LocalBase[j] # TopLevel

Words(from, to) == [i \in 1 .. to - from |-> m_ram[from + i - 1]]

Locals(at) ==
  LET heads == {i \in 1 .. at : program[i].op = "function"}
  IN IF heads = {} THEN 0 ELSE program[CHOOSE i \in heads : \A j \in heads : j <= i].locals

\* The frame of a function that is to go on at an address, with its stack up to end.
Frame(address, local, argument, this, that, end) ==
  LET at == loaded.command[address]
      base == IF local = TopLevel THEN Segments[SP + 1] ELSE local + Locals(at)
  IN [at |-> at,
      stack |-> Words(base, end),
      local |-> IF local = TopLevel THEN <<>> ELSE Words(local, base),
      argument |-> IF local = TopLevel THEN <<>> ELSE Words(argument, local - 5),
      this |-> this,
      that |-> that]

CurrentFrame == Frame(m_pc, m_ram[LCL], m_ram[ARG], m_ram[THIS], m_ram[THAT], m_ram[SP])

WaitingFrame(k) ==
  LET base == LocalBase[k - 1]
  IN Frame(m_ram[base - 5], m_ram[base - 4], m_ram[base - 3], m_ram[base - 2], m_ram[base - 1],
           ArgumentBase(k - 1))

Reading ==
  [frame  |-> CurrentFrame,
   frames |-> [k \in 1 .. Depth |-> WaitingFrame(k)],
   temp   |-> [i \in 0 .. 7 |-> m_ram[i + 5]],
   static |-> [i \in DOMAIN loaded.static |-> m_ram[loaded.static[i]]],
   heap   |-> [a \in Heap |-> m_ram[a]]]

-----------------------------------------------------------------------------
Init ==
  /\ loaded \in {Loaded(p) : p \in Programs}
  /\ SetUpMemory(Segments)
  /\ shown = Reading

Next ==
  /\ process(loaded.rom)
  /\ UNCHANGED loaded
  /\ shown' = IF Starting' THEN Reading' ELSE shown

Spec == Init /\ [][Next]_vars

-----------------------------------------------------------------------------
Machine == INSTANCE StackMachine
  WITH Pointers <- [this |-> Segments[THIS + 1], that |-> Segments[THAT + 1]],
       frame <- shown.frame, frames <- shown.frames,
       temp <- shown.temp, static <- shown.static, heap <- shown.heap

TypeOK ==
  /\ program \in Programs
  /\ m_pc \in DOMAIN loaded.rom
  /\ m_A \in Word
  /\ m_D \in Word
  /\ m_ram \in [0 .. RamSize - 1 -> Word]

\* The code of a command does what the command says, to the whole machine: from
\* one command to the next the memory shows a step of the stack machine, in the
\* function under way, in the frames of those that wait, in the static and
\* temporary words and in the heap (VMTranslator, Computer::process).
ImplementsMachine == Machine!Spec
=============================================================================
