------------------------------ MODULE MCJackPrograms ------------------------------
(***************************************************************************)
(* Programs of Jack as files of classes: the calculations of three terms,   *)
(* branches and loops in each other, objects, arrays and a recursion.       *)
(***************************************************************************)
EXTENDS JackCompiler

Number(n) == [is |-> "number", number |-> n]
Keyword(keyword) == [is |-> "keyword", keyword |-> keyword]
Variable(name) == [is |-> "variable", name |-> name]
Element(name, subscript) == [is |-> "array", name |-> name, subscript |-> subscript]
Prefix(op, term) == [is |-> "prefix", op |-> op, term |-> term]
CallOf(name, subroutine, arguments) ==
  [is |-> "call", name |-> name, subroutine |-> subroutine, arguments |-> arguments]

One(term) == [first |-> term, rest |-> <<>>]
Two(x, op, y) == [first |-> x, rest |-> <<[op |-> op, term |-> y]>>]
Three(x, op, y, and, z) == [first |-> x, rest |-> <<[op |-> op, term |-> y], [op |-> and, term |-> z]>>]
Grouped(expression) == [is |-> "expression", expression |-> expression]

Let(name, value) == [is |-> "let", name |-> name, subscript |-> <<>>, value |-> value]
LetElement(name, subscript, value) == [is |-> "let", name |-> name, subscript |-> <<subscript>>, value |-> value]
When(condition, body) == [is |-> "if", condition |-> condition, body |-> body, else |-> <<>>]
Either(condition, body, else) == [is |-> "if", condition |-> condition, body |-> body, else |-> <<else>>]
While(condition, body) == [is |-> "while", condition |-> condition, body |-> body]
Doing(term) == [is |-> "do", value |-> One(term)]
Return(expression) == [is |-> "return", value |-> <<expression>>]
ReturnVoid == [is |-> "return", value |-> <<>>]

Declared(is, names) == [is |-> is, type |-> "int", names |-> names]
Of(type, names) == [k \in DOMAIN names |-> [name |-> names[k], type |-> type]]
Subroutine(is, type, name, parameters, locals, body) ==
  [is |-> is, type |-> type, name |-> name, parameters |-> parameters, locals |-> locals, body |-> body]
Class(name, members) == [name |-> name, members |-> members]
MainClass(locals, body, others) ==
  Class("Main", <<Declared("static", <<"r", "s">>), Subroutine("function", "void", "main", <<>>, locals, body)>> \o others)

-----------------------------------------------------------------------------
(* As much of the library as the programs call: memory that is never free, and loops. *)

Memory ==
  Class("Memory", <<Declared("static", <<"free">>),
    Subroutine("function", "int", "alloc", Of("int", <<"size">>), <<>>,
      <<Let("free", Two(Variable("free"), "+", Variable("size"))),
        Return(Three(Number(72), "-", Variable("size"), "+", Variable("free")))>>)>>)

Math ==
  Class("Math", <<
    Subroutine("function", "int", "multiply", Of("int", <<"a", "b">>), Of("int", <<"sum">>),
      <<While(Two(Variable("b"), ">", Number(0)),
              <<Let("sum", Two(Variable("sum"), "+", Variable("a"))),
                Let("b", Two(Variable("b"), "-", Number(1)))>>),
        Return(One(Variable("sum")))>>),
    Subroutine("function", "int", "divide", Of("int", <<"a", "b">>), Of("int", <<"q">>),
      <<While(One(Prefix("~", Grouped(Two(Variable("a"), "<", Variable("b"))))),
              <<Let("a", Two(Variable("a"), "-", Variable("b"))),
                Let("q", Two(Variable("q"), "+", Number(1)))>>),
        Return(One(Variable("q")))>>)>>)

-----------------------------------------------------------------------------
Expressions ==
  {Three(Number(7), op, Number(2), and, Number(1)) :
     op \in {"-", "*", "&", ">"}, and \in {"+", "-", "*", "|", "<", "="}}
    \cup {Two(Prefix("-", Number(7)), op, Grouped(Two(Number(2), and, Prefix("~", Number(1))))) :
            op \in {"-", "&", "<"}, and \in {"+", "|"}}
    \cup {Three(Number(7), "/", Number(2), "*", Number(3))}

\* Only what calls the library is compiled with it.
Calls(e) == \E k \in DOMAIN e.rest : e.rest[k].op \in {"*", "/"}

Calculated == {(IF Calls(e) THEN << <<Math>> >> ELSE <<>>)
                 \o << <<MainClass(<<>>, <<Let("s", One(Number(9))), Let("r", e)>>, <<>>)>> >>
               : e \in Expressions}

\* Every way through two branches, one in a loop, and the loop in the other.
Branched ==
  {<< <<MainClass(Of("int", <<"i">>),
         <<Either(Two(Number(k), "=", Number(1)),
             <<While(Two(Variable("i"), "<", Number(n)),
                 <<When(Two(Variable("i"), "=", Number(1)), <<Let("s", Two(Variable("s"), "+", Number(3)))>>),
                   Either(One(Keyword(b)), <<Let("r", Two(Variable("r"), "+", Number(1)))>>,
                                           <<Let("r", Two(Variable("r"), "-", Number(1)))>>),
                   Let("i", Two(Variable("i"), "+", Number(1)))>>)>>,
             <<When(One(Keyword(b)), <<Let("r", One(Number(5))), ReturnVoid>>)>>),
           Let("s", Two(Variable("s"), "+", Number(8)))>>, <<>>)>> >>
     : k \in 0 .. 1, n \in {0, 2}, b \in {"true", "false"}}

\* Two objects of a class in a file of its own, with a static and a method that takes the
\* other object.
Pair ==
  Class("Pair", <<Declared("field", <<"a", "b">>), Declared("static", <<"made">>),
    Subroutine("constructor", "Pair", "new", Of("int", <<"x", "y">>), <<>>,
      <<Let("a", One(Variable("x"))), Let("b", One(Variable("y"))),
        Let("made", Two(Variable("made"), "+", Number(1))), Return(One(Keyword("this")))>>),
    Subroutine("method", "int", "get", <<>>, <<>>, <<Return(One(Variable("b")))>>),
    Subroutine("method", "void", "put", Of("int", <<"v">>), <<>>, <<Let("b", One(Variable("v")))>>),
    Subroutine("method", "void", "swap", Of("Pair", <<"other">>), Of("int", <<"t">>),
      <<Let("t", One(Variable("b"))),
        Let("b", One(CallOf("other", "get", <<>>))),
        Doing(CallOf("other", "put", <<One(Variable("t"))>>)),
        ReturnVoid>>)>>)

Objects ==
  {<< <<Memory>>, <<MainClass(Of("Pair", <<"p", "q">>),
        <<Let("p", One(CallOf("Pair", "new", <<One(Number(x)), One(Number(2))>>))),
          Let("q", One(CallOf("Pair", "new", <<One(Number(3)), Two(Number(4), "+", Number(x))>>))),
          Doing(CallOf("p", "swap", <<One(Variable(other))>>)),
          Let("r", One(CallOf("p", "get", <<>>))),
          Let("s", One(CallOf("q", "get", <<>>)))>>, <<>>)>>, <<Pair>> >>
     : x \in {6}, other \in {"p", "q"}}

\* Elements of an array as subscripts and values of each other, and a call between the address
\* of an element and its value that uses an array itself.
Arrays ==
  {<< <<Memory, MainClass(Of("Array", <<"v">>),
        <<Let("v", One(CallOf("Memory", "alloc", <<One(Number(4))>>))),
          LetElement("v", One(Number(0)), One(Number(i))),
          LetElement("v", One(Element("v", One(Number(0)))), Two(Element("v", One(Number(0))), "+", Number(1))),
          LetElement("v", Two(Number(j), "+", Number(1)),
                     Two(CallOf("Main", "touch", <<One(Variable("v"))>>), "+", Element("v", One(Number(j)))))>>,
        <<Subroutine("function", "int", "touch", Of("Array", <<"w">>), <<>>,
            <<LetElement("w", One(Number(3)), One(Keyword("true"))), Return(One(Element("w", One(Number(1)))))>>)>>)>> >>
     : i \in {0, 2}, j \in 0 .. 1}

Recursive ==
  {<< <<MainClass(<<>>, <<Let("r", One(CallOf("Main", "sum", <<One(Number(n))>>)))>>,
         <<Subroutine("function", "int", "sum", Of("int", <<"n">>), <<>>,
             <<When(Two(Variable("n"), "=", Number(0)), <<Return(One(Number(0)))>>),
               Let("s", Two(Variable("s"), "+", Number(1))),
               Return(Two(Variable("n"), "+", CallOf("Main", "sum", <<Two(Variable("n"), "-", Number(1))>>)))>>)>>)>> >>
     : n \in 0 .. 2}

JackPrograms == Calculated \cup Branched \cup Objects \cup Arrays \cup Recursive
=============================================================================
