------------------------------ MODULE VMTranslator ------------------------------
(***************************************************************************)
(* The code generator of class VMTranslator in vm.hpp: the lines of Hack   *)
(* assembly each command of the stack machine is translated to.  A command *)
(* is a record whose op names it; names the assembler resolves are pairs.  *)
(***************************************************************************)
EXTENDS Integers, Sequences, SequencesExt, FiniteSets

SP == 0
LCL == 1
ARG == 2
THIS == 3
THAT == 4
R13 == 13
R14 == 14

A(value) == [op |-> "A", value |-> value]
Name(symbol) == [op |-> "A", symbol |-> symbol]
Set(dest, comp) == [op |-> "C", dest |-> {dest}, comp |-> comp, jump |-> "null"]
SetBoth(comp) == [op |-> "C", dest |-> {"A", "M"}, comp |-> comp, jump |-> "null"]
Jump(comp, condition) == [op |-> "C", dest |-> {}, comp |-> comp, jump |-> condition]
Label(symbol) == [op |-> "label", symbol |-> symbol]

\* Writes D to the top of the stack.
PushD == <<A(SP), Set("A", "M"), Set("M", "D"), A(SP), Set("M", "M+1")>>

\* Takes the top of the stack to D.
PopD == <<A(SP), Set("M", "M-1"), Set("A", "M"), Set("D", "M")>>

push_constant(value) == <<A(value), Set("D", "A")>> \o PushD

push_memory(location) == <<location, Set("D", "M")>> \o PushD

pop_memory(location) == PopD \o <<location, Set("M", "D")>>

write_push_segment(segment, index) ==
  <<A(segment), Set("D", "M"), A(index), Set("A", "D+A"), Set("D", "M")>> \o PushD

\* The word popped is still in the word behind the top, so that the address can
\* be had by taking it away again from the sum of both.
write_pop_segment(segment, index) ==
  PopD \o <<A(segment), Set("D", "D+M"), A(index), Set("D", "D+A"),
            A(SP), Set("A", "M"), Set("A", "M"), Set("A", "D-A"), Set("M", "D-A")>>

\* Mutant: the index is left out of the address.
PopSegmentAtBase(segment, index) ==
  PopD \o <<A(segment), Set("D", "D+M"),
            A(SP), Set("A", "M"), Set("A", "M"), Set("A", "D-A"), Set("M", "D-A")>>

Base(segment) == [local |-> LCL, argument |-> ARG, this |-> THIS, that |-> THAT][segment]

Location(segment, index) ==
  CASE segment = "static"  -> Name(<<"static", index>>)
    [] segment = "temp"    -> A(index + 5)
    [] segment = "pointer" -> A(IF index = 1 THEN THAT ELSE THIS)

handle_push(c) ==
  CASE c.segment = "constant"                     -> push_constant(c.index)
    [] c.segment \in {"static", "temp", "pointer"} -> push_memory(Location(c.segment, c.index))
    [] OTHER                                      -> write_push_segment(Base(c.segment), c.index)

handle_pop(c) ==
  IF c.segment \in {"static", "temp", "pointer"}
  THEN pop_memory(Location(c.segment, c.index))
  ELSE write_pop_segment(Base(c.segment), c.index)

Binary(comp) ==
  <<A(SP), Set("A", "M"), Set("A", "A-1"), Set("A", "A-1"), Set("D", "M"), Set("A", "A+1"),
    Set("D", comp), A(SP), Set("M", "M-1"), Set("A", "M"), Set("A", "A-1"), Set("M", "D")>>

Unary(comp) == <<A(SP), Set("A", "M-1"), Set("M", comp)>>

\* The top is compared with the word below it, which becomes true or false.
Comparison(name, condition, count) ==
  <<A(SP), SetBoth("M-1"), Set("D", "M"), Set("A", "A-1"), Set("D", "D-M"), Set("M", "-1"),
    Name(<<name, count>>), Jump("D", condition),
    A(SP), Set("A", "M-1"), Set("M", "0"), Label(<<name, count>>)>>

goto_label(symbol) == <<Name(symbol), Jump("0", "JMP")>>

handle_if_goto(c) ==
  <<A(SP), SetBoth("M-1"), Set("D", "M"), Name(<<"label", c.label>>), Jump("D", "JLT")>>

push_label(symbol) == <<Name(symbol), Set("D", "A")>> \o PushD

Copy(from, to) == <<A(from), Set("D", "M"), A(to), Set("M", "D")>>

call(c, count) ==
     push_label(<<"return", count>>)
  \o push_memory(A(LCL)) \o push_memory(A(ARG)) \o push_memory(A(THIS)) \o push_memory(A(THAT))
  \o <<A(SP), Set("D", "M"), A(5), Set("D", "D-A"), A(c.args), Set("D", "D-A"),
       A(ARG), Set("M", "D")>>
  \o Copy(SP, LCL)
  \o goto_label(<<"function", c.name>>)
  \o <<Label(<<"return", count>>)>>

handle_function(c) ==
  <<Label(<<"function", c.name>>)>> \o FlattenSeq([i \in 1 .. c.locals |-> push_constant(0)])

\* Takes the next word of the frame, from its end, to a pointer.
Restore(pointer) == <<A(R13), SetBoth("M-1"), Set("D", "M"), A(pointer), Set("M", "D")>>

ReturnAddress == <<A(R13), Set("D", "M"), A(5), Set("A", "D-A"), Set("D", "M"), A(R14), Set("M", "D")>>

ReturnValue == <<A(SP), Set("A", "M-1"), Set("D", "M"), A(ARG), Set("A", "M"), Set("M", "D")>>

\* Mutant: the return value is stored before the return address is read.
ReturnValueFirst ==
     Copy(LCL, R13) \o ReturnValue \o ReturnAddress
  \o <<A(ARG), Set("D", "M+1"), A(SP), Set("M", "D")>>
  \o Restore(THAT) \o Restore(THIS) \o Restore(ARG) \o Restore(LCL)
  \o <<A(R14), Set("A", "M"), Jump("0", "JMP")>>

handle_return ==
     Copy(LCL, R13) \o ReturnAddress \o ReturnValue
  \o <<A(ARG), Set("D", "M+1"), A(SP), Set("M", "D")>>
  \o Restore(THAT) \o Restore(THIS) \o Restore(ARG) \o Restore(LCL)
  \o <<A(R14), Set("A", "M"), Jump("0", "JMP")>>

instruction(c, count) ==
  CASE c.op = "push"     -> handle_push(c)
    [] c.op = "pop"      -> handle_pop(c)
    [] c.op = "add"      -> Binary("D+M")
    [] c.op = "sub"      -> Binary("D-M")
    [] c.op = "and"      -> Binary("D&M")
    [] c.op = "or"       -> Binary("D|M")
    [] c.op = "neg"      -> Unary("-M")
    [] c.op = "not"      -> Unary("!M")
    [] c.op = "eq"       -> Comparison("EQ", "JEQ", count)
    [] c.op = "gt"       -> Comparison("GT", "JLT", count)
    [] c.op = "lt"       -> Comparison("LT", "JGT", count)
    [] c.op = "label"    -> <<Label(<<"label", c.label>>)>>
    [] c.op = "goto"     -> goto_label(<<"label", c.label>>)
    [] c.op = "if"       -> handle_if_goto(c)
    [] c.op = "call"     -> call(c, count)
    [] c.op = "function" -> handle_function(c)
    [] c.op = "return"   -> handle_return

-----------------------------------------------------------------------------
\* The comparisons and calls before a command number its labels.
Count(program, i) ==
  Cardinality({j \in 1 .. i - 1 : program[j].op \in {"eq", "gt", "lt", "call"}})

Lines(program, i) == instruction(program[i], Count(program, i))

Source(program) == FlattenSeq([i \in DOMAIN program |-> Lines(program, i)])

Instructions(lines) == SelectSeq(lines, LAMBDA line : line.op # "label")

\* The address of the first instruction of command i.
Start(program, i) == Len(Instructions(Source(SubSeq(program, 1, i - 1))))

\* The statics in the order in which the assembler meets them.
Statics(lines) ==
  LET named == SelectSeq(lines, LAMBDA line : "symbol" \in DOMAIN line /\ line.symbol[1] = "static")
  IN [k \in 1 .. Len(named) |-> named[k].symbol[2]]

StaticAddress(lines, index) ==
  LET statics == Statics(lines)
      first == CHOOSE k \in DOMAIN statics :
                 statics[k] = index /\ \A j \in 1 .. k - 1 : statics[j] # index
  IN 16 + Cardinality({statics[j] : j \in 1 .. first - 1})

LabelAddress(lines, symbol) ==
  LET at == CHOOSE k \in DOMAIN lines : lines[k] = Label(symbol)
  IN Len(Instructions(SubSeq(lines, 1, at)))

AddressOf(lines, symbol) ==
  IF symbol[1] = "static" THEN StaticAddress(lines, symbol[2]) ELSE LabelAddress(lines, symbol)

\* The program as it is loaded, by the two passes Assembler stands for.
Assembled(program) ==
  LET lines == Source(program)
      code == Instructions(lines)
  IN [address \in 0 .. Len(code) - 1 |->
        LET line == code[address + 1]
        IN IF "symbol" \in DOMAIN line THEN A(AddressOf(lines, line.symbol)) ELSE line]
=============================================================================
