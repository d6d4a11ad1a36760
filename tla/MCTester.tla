--------------------------------- MODULE MCTester ---------------------------------
(***************************************************************************)
(* Files of tests for a chip that stores a word of two places once, until   *)
(* its load is down again.  The word of two ones does not settle in it.     *)
(***************************************************************************)
EXTENDS TestFile, TLC

CONSTANTS in, load, out, a, b,  \* the chip's pins, and two variables
          latch, missing        \* its name, and that of a chip that cannot be loaded

MCChips == latch :> [inputs |-> << <<in, 2>>, <<load, 0>> >>, outputs |-> << <<out, 2>> >>]
\* The hidden part is whether a word was stored since load went up.
MCFresh == latch :> {FALSE}
MCEval ==
  latch :> [state \in {c \in ChipStates(latch) : ~(c.input_pins[1] /\ c.input_pins[2] /\ c.input_pins[3])} |->
              LET up == state.input_pins[3]
              IN  [state EXCEPT !.hidden = up,
                                !.output_pins = IF up /\ ~state.hidden THEN SubSeq(state.input_pins, 1, 2) ELSE @]]

FirstVariable == CHOOSE v \in Variables : TRUE

MCSets ==
  [target : {Member(v, <<in>>) : v \in Variables}, value : {Number(n) : n \in {1, 3, 4}}, broken : {FALSE}]
    \cup [target : {Member(v, <<load>>) : v \in Variables}, value : {Number(0), Number(1)}, broken : {FALSE}]
    \cup [target : {Member(v, <<in>>) : v \in Variables},
          value : {Member(v, <<out>>) : v \in Variables}, broken : {FALSE}]
    \cup [target : {Member(FirstVariable, <<in, 1>>), Member(FirstVariable, <<missing>>),
                    Member(FirstVariable, <<out>>), Number(1)},
          value : {Number(1)}, broken : {FALSE}]
    \cup [target : {Member(FirstVariable, <<in>>)}, value : {NoOperand, Number(MAX_INT + 1)}, broken : {FALSE}]
    \cup [target : {Member(FirstVariable, <<in>>)}, value : {Number(1)}, broken : {TRUE}]

MCConditions ==
  {<<[a |-> Member(FirstVariable, <<out>>), b |-> Number(0), type |-> "IS"],
     [a |-> Number(MAX_INT + 1), b |-> Number(1), type |-> "NOT"]>>}
    \cup {<<[a |-> Member(v, <<out>>), b |-> Number(1), type |-> "IS"]>> : v \in Variables}
    \cup {<<[a |-> Member(v, <<out>>), b |-> Number(0), type |-> "NOT"],
            [a |-> Member(w, <<out>>), b |-> Member(v, <<in>>), type |-> "IS"]>> : v, w \in Variables}
=============================================================================
