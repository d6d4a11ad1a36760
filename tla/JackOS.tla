--------------------------------- MODULE JackOS ---------------------------------
(***************************************************************************)
(* The classes of the Jack operating system that compute: a program that    *)
(* allocates and gives back blocks of the heap, or one that calls a         *)
(* function of Math. They share no state.                                   *)
(***************************************************************************)
EXTENDS JackHeap, Sequences

CONSTANTS Class,     \* "Memory" or "Math": the classes whose programs are followed
          WordBits,
          And(_, _)  \* bitwise and of two words

VARIABLES class, function, x, y, i, shifted_x, sum, calls, returned

mathVars == <<function, x, y, i, shifted_x, sum, calls, returned>>

Math == INSTANCE JackMath WITH Width <- WordBits

ASSUME MathAssumption == WordBits \in Nat /\ Math!BitsOfWords

OSInit ==
  /\ class \in Class
  /\ Init
  /\ \/ class = "Math" /\ Math!Init
     \/ /\ class = "Memory"
        /\ function = "none" /\ returned = "none"
        /\ x = 0 /\ y = 0 /\ i = 0 /\ shifted_x = 0 /\ sum = 0 /\ calls = <<>>

MemoryStep(step) == class = "Memory" /\ step /\ UNCHANGED <<class, mathVars>>

\* A program that has the result stops.
MathStep ==
  /\ class = "Math"
  /\ Math!Next \/ (function = "none" /\ UNCHANGED mathVars)
  /\ UNCHANGED <<class, vars>>

OSNext == MemoryStep(Next) \/ MathStep

OSSpec ==
  /\ OSInit /\ [][OSNext]_<<class, vars, mathVars>>
  /\ WF_vars(MemoryStep(Traverse)) /\ WF_vars(MemoryStep(OutOfMemory)) /\ WF_vars(MemoryStep(Split))

\* Products, quotients and roots are right to the last word, although sums, squares and the
\* doubled divisor wrap around on the way (Math.multiply, Math.divide, Math.sqrt).
Calculated == Math!Multiplied /\ Math!Divided /\ Math!Rooted

\* A division by a positive word ends, nested no deeper than a word has bits (Math.divide).
DivideEnds == Math!DivideEnds
=============================================================================
