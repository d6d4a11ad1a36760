--------------------------------- MODULE TestFile ---------------------------------
(***************************************************************************)
(* Two interpreters: one reads a file of several tests, the other the same  *)
(* LOADs and only the test the first one is at.                             *)
(***************************************************************************)
EXTENDS Tester

CONSTANTS Types,       \* the chips a file may name
          Sets,        \* the SETs it may have: target, value, and whether it is broken
          Conditions,  \* the sequences of conditions it may require
          MaxTests, MaxStatements

\* A SET has a syntax error or none, and the numbers of a source have no sign.
ASSUME SetsAssumption ==
  \A s \in Sets : /\ s.broken \in BOOLEAN
                  /\ s.value.kind \in {"number", "member", "none"}
                  /\ s.value.kind = "number" => s.value.number \in Nat

VARIABLES alone_phase, alone_variables, alone_failed, alone_error, alone_verdict,
          erred,     \* whether an error was reported before the test
          tests, statements

alone_vars == <<alone_phase, alone_variables, alone_failed, alone_error, alone_verdict>>
file_vars == <<vars, alone_vars, erred, tests, statements>>

Alone == INSTANCE Tester WITH phase <- alone_phase, variables <- alone_variables,
           test_failed <- alone_failed, has_error <- alone_error, verdict <- alone_verdict

FileInit ==
  /\ Init
  /\ alone_phase = "file" /\ alone_variables = <<>>
  /\ alone_failed = FALSE /\ alone_error = FALSE /\ alone_verdict = "none"
  /\ erred = FALSE
  /\ tests = 0 /\ statements = 0

Load(chip, broken) ==
  /\ LOAD_impl(chip, broken)
  /\ tests < MaxTests
  /\ UNCHANGED <<alone_vars, erred, tests, statements>>

Test(broken) ==
  /\ tests < MaxTests
  /\ TEST_impl(broken)
  /\ alone_phase' = "test" /\ alone_variables' = <<>>
  /\ alone_failed' = FALSE /\ alone_error' = broken /\ alone_verdict' = "none"
  /\ erred' = has_error
  /\ tests' = tests + 1 /\ statements' = 0

Set(s) ==
  \/ SET_refused(s.target, s.value)
  \/ SET_aborts(s.target, s.value)
  \/ SET_overflow(s.target, s.value)
  \/ SET_impl(s.target, s.value, s.broken)

AloneSet(s) ==
  \/ Alone!SET_refused(s.target, s.value)
  \/ Alone!SET_aborts(s.target, s.value)
  \/ Alone!SET_overflow(s.target, s.value)
  \/ Alone!SET_impl(s.target, s.value, s.broken)

Require(c, broken) == REQUIRE_impl(c, broken) \/ REQUIRE_aborts(c, broken)

AloneRequire(c, broken) == Alone!REQUIRE_impl(c, broken) \/ Alone!REQUIRE_aborts(c, broken)

\* The other interpreter ended where an earlier error keeps this one from requiring anything.
AloneEnded ==
  /\ alone_phase # "test"
  /\ UNCHANGED alone_vars

\* The other interpreter reads the same statement, of chips that were made alike.
Statement ==
  /\ statements < MaxStatements
  /\ \/ \E v \in Variables, chip \in Types, hidden \in Hidden, broken \in BOOLEAN :
          /\ VAR_impl(v, chip, hidden, broken)
          /\ Alone!VAR_impl(v, chip, hidden, broken) \/ AloneEnded
     \/ \E broken \in BOOLEAN : EVAL_impl(broken) /\ (Alone!EVAL_impl(broken) \/ AloneEnded)
     \/ EVAL_loops /\ (Alone!EVAL_loops \/ AloneEnded)
     \/ \E s \in Sets : Set(s) /\ (AloneSet(s) \/ AloneEnded)
     \/ \E c \in Conditions, broken \in BOOLEAN :
          Require(c, broken) /\ (AloneRequire(c, broken) \/ AloneEnded)
  /\ statements' = statements + 1
  /\ UNCHANGED <<erred, tests>>

End ==
  /\ \/ TEST_end /\ (Alone!TEST_end \/ AloneEnded)
     \/ TEST_unterminated /\ (Alone!TEST_unterminated \/ AloneEnded)
     \/ phase = "test" /\ Loops /\ (Alone!Loops \/ AloneEnded)
     \/ phase = "file" /\ Loops /\ UNCHANGED alone_vars
     \/ parse_end /\ UNCHANGED alone_vars
  /\ UNCHANGED <<erred, tests, statements>>

FileNext ==
  \/ \E chip \in Types, broken \in BOOLEAN : Load(chip, broken)
  \/ \E broken \in BOOLEAN : Test(broken)
  \/ Statement
  \/ End

FileSpec == FileInit /\ [][FileNext]_file_vars

-----------------------------------------------------------------------------

\* A test has the verdict it would have in a file of its own: nothing an earlier test did to
\* its variables, chips or flags is seen in it, but for an error, which fails every test
\* after it (Tester::TEST_impl, Tester::TEST_statement).
VerdictsAlone ==
  phase \in {"file", "done"} =>
    \/ verdict = alone_verdict
    \/ erred /\ verdict = "failed"

\* A bus that is set without an error reads as the value, and no other member of any
\* variable changes (Tester::SET_impl, set_pinvec, pinvec_to_uint).
SetReads ==
  [][\A s \in Sets :
       (SET_impl(s.target, s.value, s.broken) /\ ~has_error' /\ phase' = "test"
          /\ get_bus(variables[s.target.variable].type, s.target.member) # {})
       => /\ get_value(s.target)' = get_value(s.value)
          /\ \A v \in DOMAIN variables : \A name \in values(variables[v].type) :
               (v # s.target.variable \/ name[1] # s.target.member[1]) =>
                 get_value(Member(v, name))' = get_value(Member(v, name))]_file_vars
=============================================================================
