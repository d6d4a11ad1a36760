--------------------------- MODULE MCTranslatedProgram ---------------------------
(***************************************************************************)
(* Small VM programs for a computer with words of eleven bits.  Every program *)
(* calls its main function from the top level, as the bootstrap of         *)
(* CompilationContext does, and ends in a loop.                            *)
(***************************************************************************)
EXTENDS TranslatedProgram

Bits == INSTANCE Bitwise

BitAnd(x, y) == Bits!&(x, y)

\* Static words from 16, the stack from 24, the top level's pointers behind it.
Layout == <<24, 70, 71, 72, 74>>

Push(segment, index) == [op |-> "push", segment |-> segment, index |-> index]
Pop(segment, index) == [op |-> "pop", segment |-> segment, index |-> index]
Do(op) == [op |-> op]
Place(label) == [op |-> "label", label |-> label]
Goto(label) == [op |-> "goto", label |-> label]
If(label) == [op |-> "if", label |-> label]
Invoke(name, args) == [op |-> "call", name |-> name, args |-> args]
Function(name, locals) == [op |-> "function", name |-> name, locals |-> locals]

Main(locals, body) ==
  <<Push("constant", 3), Invoke("Main", 0), Place("END"), Goto("END"), Function("Main", locals)>>
    \o body \o <<Push("constant", 0), Do("return")>>

\* The constants and their negatives, or their complements.
Operands(constants) ==
  {<<Push("constant", c)>> : c \in constants}
    \cup {<<Push("constant", c), Do(f)>> : c \in constants, f \in {"neg", "not"}}

\* Words up to the ends of the range wrap around; those compared lie close enough
\* for their difference not to.
Calculations ==
  {Main(0, x \o y \o <<Do(op)>>) :
     x \in Operands({0, 5, 1023}), y \in Operands({0, 1, 1023}), op \in {"add", "sub", "and", "or"}}
    \cup {Main(0, x \o y \o <<Do(op)>>) :
            x \in Operands({0, 7, 511}), y \in Operands({0, 1, 511}), op \in {"eq", "gt", "lt"}}

Places == {<<"static", 0>>, <<"static", 1>>, <<"temp", 0>>, <<"temp", 7>>,
           <<"local", 0>>, <<"local", 1>>, <<"this", 0>>, <<"this", 1>>, <<"that", 0>>, <<"that", 1>>}

\* One word popped, another popped behind it, and both pushed back.
Moves ==
  {Main(2, <<Push("constant", 9), Pop(p[1], p[2]), Push("constant", 31), Do("neg"), Pop(q[1], q[2]),
             Push(p[1], p[2]), Push(q[1], q[2])>>) : p \in Places, q \in Places}

\* A function of n arguments that moves its pointers, its arguments and its
\* locals, and a caller whose own are to be as they were.
Calls ==
  {Main(2,
        <<Push("constant", 8), Pop("local", 1), Push("constant", 6)>>
          \o [i \in 1 .. n |-> Push("constant", i)]
          \o <<Invoke("F", n), Do("add"), Push("local", 1), Push("pointer", 1)>>)
     \o <<Function("F", 1)>>
     \o (IF n = 0 THEN <<>> ELSE <<Push("constant", 4), Pop("argument", n - 1), Push("argument", 0)>>)
     \o <<Push("constant", 73), Pop("pointer", k), Push("constant", 5), Pop("local", 0),
          Push("constant", 7), Pop(IF k = 0 THEN "this" ELSE "that", 0)>>
     \o <<Push("local", 0), Push("static", 0), Do("add"), Do("return")>>
   : n \in 0 .. 2, k \in 0 .. 1}

\* A sum by recursion, which has several frames wait at once.
Recursions ==
  {Main(0, <<Push("constant", n), Invoke("Sum", 1), Pop("static", 1)>>)
     \o <<Function("Sum", 0), Push("argument", 0), Push("constant", 0), Do("gt"), If("MORE"),
          Push("constant", 0), Do("return"), Place("MORE"),
          Push("argument", 0), Push("argument", 0), Push("constant", 1), Do("sub"),
          Invoke("Sum", 1), Do("add"), Do("return")>>
   : n \in 0 .. 2}

\* A loop that counts down in a static word.
Loops ==
  {Main(0, <<Push("constant", n), Pop("static", 1), Place("AGAIN"),
             Push("static", 1), Push("constant", 1), Do("lt"), If("OUT"),
             Push("static", 1), Push("constant", 1), Do("sub"), Pop("static", 1),
             Goto("AGAIN"), Place("OUT")>>) : n \in 0 .. 2}

-----------------------------------------------------------------------------
\* The programs of Jack, compiled, and called as the bootstrap calls the library.
Jack == INSTANCE MCJackPrograms
Language == INSTANCE JackLanguage WITH Wide <- WordSize, Both <- BitAnd

Compiled(files) ==
  <<Push("constant", 3), Invoke("Main.main", 0), Place("END"), Goto("END")>> \o Jack!add_sources(files)

HeapAddresses == 72 .. 77

\* A compiled program, and what the statics and the heap are to be at its end.
Case(compiled, names, memory) ==
  [program |-> compiled, heap |-> memory.heap,
   static |-> [k \in 0 .. Len(names) - 1 |-> memory.static[names[k + 1]]]]

JackCases ==
  {Case(Compiled(files), Language!StaticNames(FlattenSeq(files)),
        Language!Outcome(FlattenSeq(files), HeapAddresses)) : files \in Jack!JackPrograms}

AllPrograms == Calculations \cup Moves \cup Calls \cup Recursions \cup Loops \cup {c.program : c \in JackCases}

\* The computer does not stop.
FairSpec == Spec /\ WF_vars(Next)

\* A program of Jack reaches its end, with the statics and the words of the heap that Jack's
\* statements give them (JackParser, CompilationContext::add_source, and all below).
JackRuns ==
  <>[](\A c \in JackCases :
         c.program = program =>
           /\ program[shown.frame.at].op = "goto" /\ shown.frames = <<>>
           /\ \A k \in DOMAIN shown.static : shown.static[k] = c.static[k]
           /\ shown.heap = c.heap)
=============================================================================
