------------------------------ MODULE StackMachine ------------------------------
(***************************************************************************)
(* The stack machine a VM program is written for: every function has a     *)
(* stack, local variables and arguments of its own, and a call and its     *)
(* return leave the rest of the caller's frame as it was.  This is what    *)
(* VMTranslator promises; nothing in it knows of addresses, except that    *)
(* the segments this and that are words of a heap.                         *)
(***************************************************************************)
EXTENDS Integers, Sequences, FiniteSets

CONSTANTS Programs,   \* programs: sequences of commands
          WordSize,
          And(_, _),
          Heap,       \* the addresses this and that may point at
          Pointers    \* what this and that point at when the machine starts

VARIABLES
  program,
  frame,    \* of the function under way: at, stack, local, argument, this, that
  frames,   \* of the functions that wait for it, the innermost first
  temp, static, heap

machine == <<program, frame, frames, temp, static, heap>>

Not(x) == WordSize - 1 - x
True == WordSize - 1
Truth(b) == IF b THEN True ELSE 0
Signed(x) == IF x >= WordSize \div 2 THEN x - WordSize ELSE x

\* Labels and function heads mark a place and are no commands of their own.
Mark(c) == c.op \in {"label", "function"}

\* The first command at i or behind it.
From(i) == CHOOSE j \in i .. Len(program) :
             ~Mark(program[j]) /\ \A k \in i .. j - 1 : Mark(program[k])

Marked(op, field, value) ==
  CHOOSE i \in DOMAIN program : program[i].op = op /\ program[i][field] = value

StaticsOf(p) ==
  {p[i].index : i \in {j \in DOMAIN p : p[j].op \in {"push", "pop"} /\ p[j].segment = "static"}}

Init ==
  /\ program \in Programs
  /\ frame = [at |-> From(1), stack |-> <<>>, local |-> <<>>, argument |-> <<>>,
              this |-> Pointers.this, that |-> Pointers.that]
  /\ frames = <<>>
  /\ temp = [i \in 0 .. 7 |-> 0]
  /\ static = [i \in StaticsOf(program) |-> 0]
  /\ heap = [a \in Heap |-> 0]

-----------------------------------------------------------------------------
command == program[frame.at]
depth == Len(frame.stack)
top == frame.stack[depth]
below == frame.stack[depth - 1]

\* The frame with its last n words replaced by those of values, at the next command.
Onward(n, values) ==
  [frame EXCEPT !.at = From(frame.at + 1),
                !.stack = SubSeq(frame.stack, 1, depth - n) \o values]

Value(c) ==
  CASE c.segment = "constant" -> c.index
    [] c.segment = "static"   -> static[c.index]
    [] c.segment = "temp"     -> temp[c.index]
    [] c.segment = "pointer"  -> IF c.index = 0 THEN frame.this ELSE frame.that
    [] c.segment = "local"    -> frame.local[c.index + 1]
    [] c.segment = "argument" -> frame.argument[c.index + 1]
    [] c.segment = "this"     -> heap[frame.this + c.index]
    [] c.segment = "that"     -> heap[frame.that + c.index]

Push ==
  /\ command.op = "push"
  /\ frame' = Onward(0, <<Value(command)>>)
  /\ UNCHANGED <<program, frames, temp, static, heap>>

PopShared ==
  /\ command.op = "pop"
  /\ command.segment \in {"static", "temp", "this", "that"}
  /\ frame' = Onward(1, <<>>)
  /\ static' = IF command.segment = "static" THEN [static EXCEPT ![command.index] = top] ELSE static
  /\ temp' = IF command.segment = "temp" THEN [temp EXCEPT ![command.index] = top] ELSE temp
  /\ heap' = CASE command.segment = "this" -> [heap EXCEPT ![frame.this + command.index] = top]
               [] command.segment = "that" -> [heap EXCEPT ![frame.that + command.index] = top]
               [] OTHER -> heap
  /\ UNCHANGED <<program, frames>>

PopOwn ==
  /\ command.op = "pop"
  /\ frame' = LET f == Onward(1, <<>>)
              IN CASE command.segment = "local"    -> [f EXCEPT !.local[command.index + 1] = top]
                   [] command.segment = "argument" -> [f EXCEPT !.argument[command.index + 1] = top]
                   [] command.segment = "pointer"  -> IF command.index = 0
                                                      THEN [f EXCEPT !.this = top]
                                                      ELSE [f EXCEPT !.that = top]
  /\ UNCHANGED <<program, frames, temp, static, heap>>

Pop == IF command.op = "pop" /\ command.segment \in {"static", "temp", "this", "that"}
       THEN PopShared ELSE PopOwn

Or(x, y) == Not(And(Not(x), Not(y)))

Result(op) ==
  CASE op = "add" -> (below + top) % WordSize
    [] op = "sub" -> (below - top) % WordSize
    [] op = "and" -> And(below, top)
    [] op = "or"  -> Or(below, top)
    [] op = "eq"  -> Truth(below = top)
    [] op = "gt"  -> Truth(Signed(below) > Signed(top))
    [] op = "lt"  -> Truth(Signed(below) < Signed(top))

Operate ==
  /\ \/ /\ command.op \in {"add", "sub", "and", "or", "eq", "gt", "lt"}
        /\ frame' = Onward(2, <<Result(command.op)>>)
     \/ /\ command.op = "neg"
        /\ frame' = Onward(1, <<-top % WordSize>>)
     \/ /\ command.op = "not"
        /\ frame' = Onward(1, <<Not(top)>>)
  /\ UNCHANGED <<program, frames, temp, static, heap>>

Goto ==
  /\ command.op = "goto"
  /\ frame' = [frame EXCEPT !.at = From(Marked("label", "label", command.label))]
  /\ UNCHANGED <<program, frames, temp, static, heap>>

\* Of the words that are neither true nor false only the negative ones jump.
IfGoto ==
  /\ command.op = "if"
  /\ frame' = IF Signed(top) < 0
              THEN [Onward(1, <<>>) EXCEPT !.at = From(Marked("label", "label", command.label))]
              ELSE Onward(1, <<>>)
  /\ UNCHANGED <<program, frames, temp, static, heap>>

Call ==
  /\ command.op = "call"
  /\ LET f == Marked("function", "name", command.name)
     IN frame' = [frame EXCEPT
          !.at = From(f),
          !.stack = <<>>,
          !.local = [i \in 1 .. program[f].locals |-> 0],
          !.argument = SubSeq(frame.stack, depth - command.args + 1, depth)]
  /\ frames' = <<Onward(command.args, <<>>)>> \o frames
  /\ UNCHANGED <<program, temp, static, heap>>

Return ==
  /\ command.op = "return"
  /\ frame' = [Head(frames) EXCEPT !.stack = Append(@, top)]
  /\ frames' = Tail(frames)
  /\ UNCHANGED <<program, temp, static, heap>>

Next == Push \/ Pop \/ Operate \/ Goto \/ IfGoto \/ Call \/ Return

Spec == Init /\ [][Next]_machine
=============================================================================
