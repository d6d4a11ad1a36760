------------------------------ MODULE JackLanguage ------------------------------
(***************************************************************************)
(* What a program of Jack does: the values of its static variables and the *)
(* words of its objects and arrays when its main function returns.  Nothing *)
(* in it knows of stacks, segments or labels.  A program is the sequence of *)
(* its classes, and memory holds its statics by class and name.             *)
(***************************************************************************)
EXTENDS Integers, Sequences, SequencesExt, TLC

CONSTANTS Wide,       \* the number of words
          Both(_, _)  \* the bits of two words that are on in both

Named(class, is) ==
  FlattenSeq([k \in DOMAIN class.members |->
                IF class.members[k].is = is THEN class.members[k].names ELSE <<>>])

Class(P, name) == P[CHOOSE k \in DOMAIN P : P[k].name = name]

Subroutine(P, class, name) ==
  LET members == Class(P, class).members
      is(k) == "body" \in DOMAIN members[k] /\ members[k].name = name
  IN  members[CHOOSE k \in DOMAIN members : is(k)]

Field(P, class, name) == CHOOSE k \in 0 .. 9 : Named(Class(P, class), "field")[k + 1] = name

\* A frame: the class, the object this is, and the variables of the subroutine, each with its
\* type and value.
Lookup(P, frame, memory, name) ==
  CASE name \in DOMAIN frame.variables           -> frame.variables[name].value
    [] <<frame.class, name>> \in DOMAIN memory.static -> memory.static[<<frame.class, name>>]
    [] OTHER                          -> memory.heap[frame.this + Field(P, frame.class, name)]

Negative(x) == IF x >= Wide \div 2 THEN x - Wide ELSE x
TruthValue(b) == IF b THEN Wide - 1 ELSE 0

Apply(op, x, y) ==
  CASE op = "+" -> (x + y) % Wide
    [] op = "-" -> (x - y) % Wide
    [] op = "*" -> (x * y) % Wide
    [] op = "/" -> x \div y
    [] op = "&" -> Both(x, y)
    [] op = "|" -> x + y - Both(x, y)
    [] op = "=" -> TruthValue(x = y)
    [] op = "<" -> TruthValue(Negative(x) < Negative(y))
    [] op = ">" -> TruthValue(Negative(x) > Negative(y))

-----------------------------------------------------------------------------
\* An expression has a value and leaves a memory: [value, memory].
RECURSIVE TermValue(_, _, _, _), ExpressionValue(_, _, _, _), Call(_, _, _, _, _, _),
          Run(_, _, _), Let(_, _, _), Assign(_, _, _, _), If(_, _, _), While(_, _, _)

ExpressionValue(P, frame, memory, expression) ==
  FoldLeft(LAMBDA x, next : LET y == TermValue(P, frame, x.memory, next.term)
                            IN  [value |-> Apply(next.op, x.value, y.value), memory |-> y.memory],
           TermValue(P, frame, memory, expression.first), expression.rest)

Call(P, class, name, this, arguments, memory) ==
  LET s == Subroutine(P, class, name)
      given == [v \in {s.parameters[k].name : k \in DOMAIN s.parameters} |->
                  LET k == CHOOSE j \in DOMAIN s.parameters : s.parameters[j].name = v
                  IN  [type |-> s.parameters[k].type, value |-> arguments[k]]]
      local == [v \in {s.locals[k].name : k \in DOMAIN s.locals} |->
                  [type |-> (CHOOSE l \in Range(s.locals) : l.name = v).type, value |-> 0]]
      own == IF s.is # "constructor" THEN [value |-> this, memory |-> memory]
             ELSE TermValue(P, [class |-> class, this |-> this, variables |-> <<>>], memory,
                    [is |-> "call", name |-> "Memory", subroutine |-> "alloc",
                     arguments |-> << [first |-> [is |-> "number", number |-> Len(Named(Class(P, class), "field"))],
                                       rest |-> <<>>] >>])
  IN  Run(P, [frame |-> [class |-> class, this |-> own.value, variables |-> given @@ local],
              memory |-> own.memory, returned |-> FALSE, value |-> 0], s.body)

TermValue(P, frame, memory, term) ==
  LET is(value) == [value |-> value, memory |-> memory]
  IN  CASE term.is = "number"   -> is(term.number)
        [] term.is = "keyword"  -> is(CASE term.keyword = "true" -> Wide - 1
                                        [] term.keyword = "this" -> frame.this
                                        [] OTHER -> 0)
        [] term.is = "variable" -> is(Lookup(P, frame, memory, term.name))
        [] term.is = "expression" -> ExpressionValue(P, frame, memory, term.expression)
        [] term.is = "prefix"   -> LET x == TermValue(P, frame, memory, term.term)
                                   IN  [x EXCEPT !.value = IF term.op = "-" THEN -@ % Wide ELSE Wide - 1 - @]
        [] term.is = "array"    -> LET x == ExpressionValue(P, frame, memory, term.subscript)
                                   IN  [x EXCEPT !.value = x.memory.heap[Lookup(P, frame, memory, term.name) + @]]
        [] term.is = "call" ->
             LET object == term.name \in DOMAIN frame.variables
                 evaluated == FoldLeft(LAMBDA x, e : LET y == ExpressionValue(P, frame, x.memory, e)
                                                     IN  [values |-> Append(x.values, y.value), memory |-> y.memory],
                                       [values |-> <<>>, memory |-> memory], term.arguments)
                 done == Call(P, IF object THEN frame.variables[term.name].type ELSE term.name, term.subroutine,
                              IF object THEN frame.variables[term.name].value ELSE 0,
                              evaluated.values, evaluated.memory)
             IN  [value |-> done.value, memory |-> done.memory]

-----------------------------------------------------------------------------
\* Statements take a run from one state to the next: [frame, memory, returned, value].

Assign(P, r, name, x) ==
  LET frame == r.frame
  IN  CASE name \in DOMAIN frame.variables ->
             [r EXCEPT !.frame.variables[name].value = x.value, !.memory = x.memory]
        [] <<frame.class, name>> \in DOMAIN x.memory.static ->
             [r EXCEPT !.memory = [x.memory EXCEPT !.static[<<frame.class, name>>] = x.value]]
        [] OTHER ->
             [r EXCEPT !.memory = [x.memory EXCEPT !.heap[frame.this + Field(P, frame.class, name)] = x.value]]

Let(P, r, s) ==
  IF s.subscript = <<>> THEN Assign(P, r, s.name, ExpressionValue(P, r.frame, r.memory, s.value))
  ELSE LET place == ExpressionValue(P, r.frame, r.memory, s.subscript[1])
           array == Lookup(P, r.frame, r.memory, s.name)
           x == ExpressionValue(P, r.frame, place.memory, s.value)
       IN  [r EXCEPT !.memory = [x.memory EXCEPT !.heap[array + place.value] = x.value]]

If(P, r, s) ==
  LET condition == ExpressionValue(P, r.frame, r.memory, s.condition)
      decided == [r EXCEPT !.memory = condition.memory]
  IN  CASE condition.value # 0 -> Run(P, decided, s.body)
        [] s.else = <<>>       -> decided
        [] OTHER               -> Run(P, decided, s.else[1])

While(P, r, s) ==
  LET condition == ExpressionValue(P, r.frame, r.memory, s.condition)
      decided == [r EXCEPT !.memory = condition.memory]
  IN  IF condition.value = 0 \/ r.returned THEN decided ELSE While(P, Run(P, decided, s.body), s)

Run(P, run, statements) ==
  FoldLeft(LAMBDA r, s :
             IF r.returned THEN r
             ELSE CASE s.is = "let"   -> Let(P, r, s)
                    [] s.is = "if"    -> If(P, r, s)
                    [] s.is = "while" -> While(P, r, s)
                    [] s.is = "do"    -> [r EXCEPT !.memory = ExpressionValue(P, r.frame, r.memory, s.value).memory]
                    [] s.is = "return" ->
                         IF s.value = <<>> THEN [r EXCEPT !.returned = TRUE]
                         ELSE LET x == ExpressionValue(P, r.frame, r.memory, s.value[1])
                              IN  [r EXCEPT !.returned = TRUE, !.value = x.value, !.memory = x.memory],
           run, statements)

\* The statics of a program in the order of its source.
StaticNames(P) ==
  FlattenSeq([k \in DOMAIN P |-> LET names == Named(P[k], "static")
                                 IN  [j \in DOMAIN names |-> <<P[k].name, names[j]>>]])

\* The memory a program leaves.
Outcome(P, addresses) ==
  Call(P, "Main", "main", 0, <<>>,
       [static |-> [v \in Range(StaticNames(P)) |-> 0], heap |-> [a \in addresses |-> 0]]).memory
=============================================================================
