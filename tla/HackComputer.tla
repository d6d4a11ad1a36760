------------------------------ MODULE HackComputer ------------------------------
(***************************************************************************)
(* The emulated Hack computer, emulator::Computer of computer.hpp, and the *)
(* bits the assembler gives to the mnemonic of a computation.  One call of *)
(* process() is one step.                                                  *)
(***************************************************************************)
EXTENDS Integers, Sequences, TLC

CONSTANTS WordSize,   \* 2^16 in the code
          RamSize,    \* 24577 in the code
          And(_, _)   \* bitwise and of two words

ASSUME ComputerAssumption ==
  /\ WordSize \in Nat \ {0}
  /\ WordSize % 2 = 0
  /\ RamSize \in 1 .. WordSize

VARIABLES m_pc, m_A, m_D, m_ram

computer == <<m_pc, m_A, m_D, m_ram>>

Word == 0 .. WordSize - 1

-----------------------------------------------------------------------------
(* The control bits of a computation: a, zx, nx, zy, ny, f, no. *)

COMP ==
  "0"   :> <<0,1,0,1,0,1,0>> @@ "1"   :> <<0,1,1,1,1,1,1>> @@ "-1"  :> <<0,1,1,1,0,1,0>> @@
  "D"   :> <<0,0,0,1,1,0,0>> @@ "A"   :> <<0,1,1,0,0,0,0>> @@ "M"   :> <<1,1,1,0,0,0,0>> @@
  "!D"  :> <<0,0,0,1,1,0,1>> @@ "!A"  :> <<0,1,1,0,0,0,1>> @@ "!M"  :> <<1,1,1,0,0,0,1>> @@
  "-D"  :> <<0,0,0,1,1,1,1>> @@ "-A"  :> <<0,1,1,0,0,1,1>> @@ "-M"  :> <<1,1,1,0,0,1,1>> @@
  "D+1" :> <<0,0,1,1,1,1,1>> @@ "A+1" :> <<0,1,1,0,1,1,1>> @@ "M+1" :> <<1,1,1,0,1,1,1>> @@
  "D-1" :> <<0,0,0,1,1,1,0>> @@ "A-1" :> <<0,1,1,0,0,1,0>> @@ "M-1" :> <<1,1,1,0,0,1,0>> @@
  "D+A" :> <<0,0,0,0,0,1,0>> @@ "D+M" :> <<1,0,0,0,0,1,0>> @@
  "D-A" :> <<0,0,1,0,0,1,1>> @@ "D-M" :> <<1,0,1,0,0,1,1>> @@
  "A-D" :> <<0,0,0,0,1,1,1>> @@ "M-D" :> <<1,0,0,0,1,1,1>> @@
  "D&A" :> <<0,0,0,0,0,0,0>> @@ "D&M" :> <<1,0,0,0,0,0,0>> @@
  "D|A" :> <<0,0,1,0,1,0,1>> @@ "D|M" :> <<1,0,1,0,1,0,1>>

Not(x) == WordSize - 1 - x

Operand(x, zero, negate) ==
  LET z == IF zero = 1 THEN 0 ELSE x IN IF negate = 1 THEN Not(z) ELSE z

compute(x, y, bits) ==
  LET p == Operand(x, bits[2], bits[3])
      q == Operand(y, bits[4], bits[5])
      r == IF bits[6] = 1 THEN (p + q) % WordSize ELSE And(p, q)
  IN IF bits[7] = 1 THEN Not(r) ELSE r

Negative(x) == x >= WordSize \div 2

\* The three jump bits, on the output of the computation.
Jumps(condition, out) ==
  CASE condition = "null" -> FALSE
    [] condition = "JMP"  -> TRUE
    [] condition = "JEQ"  -> out = 0
    [] condition = "JNE"  -> out # 0
    [] condition = "JLT"  -> Negative(out)
    [] condition = "JGE"  -> ~Negative(out)
    [] condition = "JGT"  -> ~Negative(out) /\ out # 0
    [] condition = "JLE"  -> Negative(out) \/ out = 0

-----------------------------------------------------------------------------
\* The memory and registers of a computer whose segments begin at base.
SetUpMemory(base) ==
  /\ m_pc = 0 /\ m_A = 0 /\ m_D = 0
  /\ m_ram = [a \in 0 .. RamSize - 1 |-> IF a \in 0 .. 4 THEN base[a + 1] ELSE 0]

LoadAddress(instruction) ==
  /\ instruction.op = "A"
  /\ m_A' = instruction.value
  /\ m_pc' = (m_pc + 1) % WordSize
  /\ UNCHANGED <<m_D, m_ram>>

\* Memory is written at the old address, and the jump goes to the new one.
Compute(instruction) ==
  LET bits == COMP[instruction.comp]
      out == compute(m_D, IF bits[1] = 1 THEN m_ram[m_A] ELSE m_A, bits)
  IN /\ instruction.op = "C"
     /\ m_ram' = IF "M" \in instruction.dest THEN [m_ram EXCEPT ![m_A] = out] ELSE m_ram
     /\ m_A' = IF "A" \in instruction.dest THEN out ELSE m_A
     /\ m_D' = IF "D" \in instruction.dest THEN out ELSE m_D
     /\ m_pc' = IF Jumps(instruction.jump, out) THEN m_A' ELSE (m_pc + 1) % WordSize

process(rom) == LoadAddress(rom[m_pc]) \/ Compute(rom[m_pc])
=============================================================================
