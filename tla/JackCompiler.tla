------------------------------ MODULE JackCompiler ------------------------------
(***************************************************************************)
(* The compiler of class JackParser in jack.hpp: the VM commands a class of *)
(* Jack is compiled to.  The parser writes them while it reads; here it     *)
(* reads the class as a tree, which is what its syntax makes of it.  c is   *)
(* the parser, its tables and its counts; what it has counted and entered   *)
(* after a statement or a subroutine is the parser of the next.             *)
(***************************************************************************)
EXTENDS Integers, Sequences, SequencesExt, TLC

\* VMWriter.
write_push(segment, index) == [op |-> "push", segment |-> segment, index |-> index]
write_pop(segment, index) == [op |-> "pop", segment |-> segment, index |-> index]
write_arithmethic(op) == [op |-> op]
write_label(label) == [op |-> "label", label |-> label]
write_goto(label) == [op |-> "goto", label |-> label]
write_if(label) == [op |-> "if", label |-> label]
write_call(name, args) == [op |-> "call", name |-> name, args |-> args]
write_function(name, locals) == [op |-> "function", name |-> name, locals |-> locals]
write_return == [op |-> "return"]

-----------------------------------------------------------------------------
(* CompilerContext: the kinds of symbols are named as their segments. *)

Parser(static_count) ==
  [class_name |-> "", class_table |-> <<>>, method_table |-> <<>>,
   kind_count |-> [kind \in {"this", "static", "argument", "local"} |->
                     IF kind = "static" THEN static_count ELSE 0],
   label_count |-> [name \in {"EOI", "EOE", "wbl", "wel"} |-> 0]]

Entry(c, type, kind) == [type |-> type, kind |-> kind, index |-> c.kind_count[kind]]

add_class_variable(c, name, type, kind) ==
  [c EXCEPT !.class_table = (name :> Entry(c, type, kind)) @@ @, !.kind_count[kind] = @ + 1]

add_method_variable(c, name, type, kind) ==
  [c EXCEPT !.method_table = (name :> Entry(c, type, kind)) @@ @, !.kind_count[kind] = @ + 1]

clear_method_table(c) ==
  [c EXCEPT !.method_table = <<>>, !.kind_count["argument"] = 0, !.kind_count["local"] = 0]

new_method(c) == add_method_variable(clear_method_table(c), "this", c.class_name, "argument")

\* The class table keeps the variables of the classes before it in the file, and statics
\* go on being counted.
set_name(c, name) == [clear_method_table(c) EXCEPT !.class_name = name, !.kind_count["this"] = 0]

get_entry(c, name) ==
  IF name \in DOMAIN c.method_table THEN c.method_table[name] ELSE c.class_table[name]

push_variable(c, name) == <<write_push(get_entry(c, name).kind, get_entry(c, name).index)>>

create_label(c, name) == c.class_name \o "_" \o name \o "_" \o ToString(c.label_count[name])

Labelled(c, names) ==
  [c EXCEPT !.label_count = [name \in DOMAIN @ |-> @[name] + (IF name \in names THEN 1 ELSE 0)]]

\* The ifs or whiles in statements, and the parser after them.
RECURSIVE HowMany(_, _)
HowMany(is, statements) ==
  FoldLeft(LAMBDA n, s : n + (IF s.is = is THEN 1 ELSE 0)
                           + (IF s.is \in {"if", "while"} THEN HowMany(is, s.body) ELSE 0)
                           + (IF s.is = "if" /\ s.else # <<>> THEN HowMany(is, s.else[1]) ELSE 0),
           0, statements)

After(c, statements) ==
  [c EXCEPT !.label_count =
     [name \in DOMAIN @ |-> @[name] + HowMany(IF name \in {"EOI", "EOE"} THEN "if" ELSE "while", statements)]]

-----------------------------------------------------------------------------
(* Expressions, which change nothing in the parser: the commands written for them. *)

handle_op(op) ==
  CASE op = "*" -> <<write_call("Math.multiply", 2)>>
    [] op = "/" -> <<write_call("Math.divide", 2)>>
    [] OTHER    -> <<write_arithmethic(("+" :> "add" @@ "-" :> "sub" @@ "&" :> "and" @@ "|" :> "or" @@
                                        "<" :> "lt" @@ ">" :> "gt" @@ "=" :> "eq")[op])>>

handle_keyword_constant(keyword) ==
  CASE keyword = "true"             -> <<write_push("constant", 1), write_arithmethic("neg")>>
    [] keyword \in {"false", "null"} -> <<write_push("constant", 0)>>
    [] keyword = "this"             -> <<write_push("pointer", 0)>>

RECURSIVE compile_term(_, _)

\* Mutant: what follows an operator is read as an expression, so that it is written first.
compile_expression_right(c, expression) ==
  compile_term(c, expression.first)
    \o FlattenSeq([k \in DOMAIN expression.rest |-> compile_term(c, expression.rest[k].term)])
    \o FlattenSeq(Reverse([k \in DOMAIN expression.rest |-> handle_op(expression.rest[k].op)]))

compile_expression(c, expression) ==
  compile_term(c, expression.first)
    \o FlattenSeq([k \in DOMAIN expression.rest |->
                    compile_term(c, expression.rest[k].term) \o handle_op(expression.rest[k].op)])

compile_expression_list(c, list) == FlattenSeq([k \in DOMAIN list |-> compile_expression(c, list[k])])

handle_array_term(c, name, subscript) ==
  push_variable(c, name) \o compile_expression(c, subscript)
    \o <<write_arithmethic("add"), write_pop("pointer", 1), write_push("that", 0)>>

\* A variable of the subroutine is pushed as the object of its type's method; any other name
\* is that of a class, that of a field too.
compile_call(c, name, subroutine, arguments) ==
  LET object == name \in DOMAIN c.method_table
      class == IF object THEN get_entry(c, name).type ELSE name
  IN  (IF object THEN push_variable(c, name) ELSE <<>>)
        \o compile_expression_list(c, arguments)
        \o <<write_call(class \o "." \o subroutine, (IF object THEN 1 ELSE 0) + Len(arguments))>>

\* A string is not written, and of a call without a class only the arguments are.
compile_term(c, term) ==
  CASE term.is = "prefix"     -> compile_term(c, term.term)
                                   \o <<write_arithmethic(IF term.op = "-" THEN "neg" ELSE "not")>>
    [] term.is = "number"     -> <<write_push("constant", term.number)>>
    [] term.is = "string"     -> <<>>
    [] term.is = "array"      -> handle_array_term(c, term.name, term.subscript)
    [] term.is = "own call"   -> compile_expression_list(c, term.arguments)
    [] term.is = "call"       -> compile_call(c, term.name, term.subroutine, term.arguments)
    [] term.is = "variable"   -> push_variable(c, term.name)
    [] term.is = "keyword"    -> handle_keyword_constant(term.keyword)
    [] term.is = "expression" -> compile_expression(c, term.expression)

-----------------------------------------------------------------------------
(* Statements. *)

RECURSIVE compile_statements(_, _)

\* The value of an array's element is kept while the address below it is taken.
compile_let(c, s) ==
  LET entry == get_entry(c, s.name)
      value == compile_expression(c, s.value)
  IN  IF s.subscript = <<>> THEN value \o <<write_pop(entry.kind, entry.index)>>
      ELSE push_variable(c, s.name) \o compile_expression(c, s.subscript[1]) \o <<write_arithmethic("add")>>
             \o value
             \o <<write_pop("temp", 0), write_pop("pointer", 1), write_push("temp", 0), write_pop("that", 0)>>

compile_if(c, s) ==
  LET end_of_if == create_label(c, "EOI")
      end_of_else == create_label(c, "EOE")
      inner == Labelled(c, {"EOI", "EOE"})
  IN  compile_expression(c, s.condition) \o <<write_arithmethic("not"), write_if(end_of_if)>>
        \o compile_statements(inner, s.body)
        \o <<write_goto(end_of_else), write_label(end_of_if)>>
        \o (IF s.else = <<>> THEN <<write_push("constant", 0), write_pop("temp", 0)>>
            ELSE compile_statements(After(inner, s.body), s.else[1]))
        \o <<write_label(end_of_else)>>

compile_while(c, s) ==
  LET body_label == create_label(c, "wbl")
      exit_label == create_label(c, "wel")
  IN  <<write_label(body_label)>>
        \o compile_expression(c, s.condition) \o <<write_arithmethic("not"), write_if(exit_label)>>
        \o compile_statements(Labelled(c, {"wbl", "wel"}), s.body)
        \o <<write_goto(body_label), write_label(exit_label)>>

compile_do(c, s) == compile_expression(c, s.value) \o <<write_pop("temp", 0)>>

compile_return(c, s) ==
  (IF s.value = <<>> THEN <<write_push("constant", 0)>> ELSE compile_expression(c, s.value[1])) \o <<write_return>>

compile_statements(c, statements) ==
  FlattenSeq([k \in DOMAIN statements |->
    LET s == statements[k]
        d == After(c, SubSeq(statements, 1, k - 1))
    IN  CASE s.is = "let"    -> compile_let(d, s)
          [] s.is = "if"     -> compile_if(d, s)
          [] s.is = "while"  -> compile_while(d, s)
          [] s.is = "do"     -> compile_do(d, s)
          [] s.is = "return" -> compile_return(d, s)])

-----------------------------------------------------------------------------
(* Classes: their variables and subroutines in the order of the source. *)

compile_class_var_dec(c, declared) ==
  FoldLeft(LAMBDA d, name : add_class_variable(d, name, declared.type,
                                               IF declared.is = "static" THEN "static" ELSE "this"),
           c, declared.names)

compile_parameter_list(c, parameters) ==
  FoldLeft(LAMBDA d, p : add_method_variable(d, p.name, p.type, "argument"), c, parameters)

compile_var_dec(c, locals) == FoldLeft(LAMBDA d, v : add_method_variable(d, v.name, v.type, "local"), c, locals)

compile_subroutine_body(c, s) ==
  <<write_function(c.class_name \o "." \o s.name, Len(s.locals))>>
    \o (CASE s.is = "constructor" -> <<write_push("constant", c.kind_count["this"]),
                                       write_call("Memory.alloc", 1), write_pop("pointer", 0)>>
          [] s.is = "method" -> <<write_push("argument", 0), write_pop("pointer", 0)>>
          [] OTHER -> <<>>)
    \o compile_statements(c, s.body)

compile_subroutine_dec(c, s) ==
  LET new == IF s.is = "method" THEN new_method(c) ELSE clear_method_table(c)
  IN  compile_subroutine_body(compile_var_dec(compile_parameter_list(new, s.parameters), s.locals), s)
        \o (IF s.type = "void" THEN <<write_push("constant", 0), write_return>> ELSE <<>>)

\* The tables of the subroutine are cleared before the next.  The constructor that
\* allocates the fields counts on their number.
AfterSubroutine(c, s) ==
  [After(c, s.body) EXCEPT !.kind_count["this"] = IF s.is = "constructor" THEN @ + 1 ELSE @]

Declares(member) == member.is \in {"static", "field"}

\* The parser at member k of a class, or behind its last.
At(c, class, k) ==
  FoldLeft(LAMBDA d, member : IF Declares(member) THEN compile_class_var_dec(d, member)
                              ELSE AfterSubroutine(d, member),
           set_name(c, class.name), SubSeq(class.members, 1, k - 1))

compile_class(c, class) ==
  FlattenSeq([k \in DOMAIN class.members |->
                IF Declares(class.members[k]) THEN <<>>
                ELSE compile_subroutine_dec(At(c, class, k), class.members[k])])

\* The classes of the sources in order.  A parser reads a source; it counts the statics
\* on from those of the source before it (CompilationContext::add_source).

NextParser(c) == Parser(c.kind_count["static"])

AtClass(source, c, k) ==
  FoldLeft(LAMBDA d, class : At(d, class, Len(class.members) + 1), c, SubSeq(source, 1, k - 1))

AtSource(sources, k) ==
  FoldLeft(LAMBDA c, source : NextParser(AtClass(source, c, Len(source) + 1)), Parser(0), SubSeq(sources, 1, k - 1))

add_sources(sources) ==
  FlattenSeq([k \in DOMAIN sources |->
    FlattenSeq([j \in DOMAIN sources[k] |->
      compile_class(AtClass(sources[k], AtSource(sources, k), j), sources[k][j])])])
=============================================================================
