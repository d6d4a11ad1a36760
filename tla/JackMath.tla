-------------------------------- MODULE JackMath --------------------------------
(***************************************************************************)
(* Class Math of the Jack operating system: multiplication by shifting and *)
(* adding, division by doubling the divisor, and the square root bit by    *)
(* bit, in words that wrap around and with the comparisons VMTranslator    *)
(* generates, which look at the sign of a difference that may have wrapped *)
(* around itself.                                                          *)
(***************************************************************************)
EXTENDS Integers, Sequences

CONSTANTS Width,     \* bits of a word, an even number; 16 in the code
          And(_, _)  \* bitwise and of two words

VARIABLES
  function,   \* the function under way, or "none"
  x, y,       \* its arguments
  i,          \* the loop variable i of multiply, j of sqrt
  shifted_x,
  sum,        \* sum of multiply, y of sqrt, q of divide
  calls,      \* the divisors of the calls of divide that wait for the one inside
  returned    \* the function that has returned, with sum its result

vars == <<function, x, y, i, shifted_x, sum, calls, returned>>

\* Set by init: one, and then each twice the one before, of which the last is negative. The one
\* behind the last, which init computes and does not store, is the number of words.
two_to_the[k \in 0 .. Width] == IF k = 0 THEN 1 ELSE two_to_the[k - 1] + two_to_the[k - 1]

Size == two_to_the[Width]
Word == 0 .. Size - 1
Signed(w) == IF w >= Size \div 2 THEN w - Size ELSE w

Gt(a, b) == Signed((b - a) % Size) < 0
Lt(a, b) == Signed((b - a) % Size) > 0

\* What And has to be: the bits of a word one by one, in words of an even number of bits.
BitsOfWords ==
  /\ \E half \in 1 .. Width : Width = half + half
  /\ \A w \in Word, k \in 0 .. Width - 1 :
       And(w, two_to_the[k]) = IF (w \div two_to_the[k]) % 2 = 1 THEN two_to_the[k] ELSE 0

\* The sign bit is greater than zero, because 0 minus it wraps around to itself.
bit(w, k) == Gt(And(w, two_to_the[k]), 0)

\* Products and sums within the functions below, in words.
Times(a, b) == (a * b) % Size
Plus(a, b) == (a + b) % Size
Minus(a, b) == (a - b) % Size

Functions == {"multiply", "divide", "sqrt"}

TypeOK ==
  /\ function \in Functions \cup {"dividing", "none"}
  /\ x \in Word
  /\ y \in Word
  /\ i \in -1 .. Width
  /\ shifted_x \in Word
  /\ sum \in Word
  /\ calls \in Seq(Word)
  /\ returned \in Functions \cup {"none"}

\* One call: the functions keep nothing but the powers of two between calls.
Init ==
  /\ function \in Functions
  /\ x \in Word
  /\ y \in IF function = "sqrt" THEN {0} ELSE Word
  /\ i = IF function = "sqrt" THEN Width \div 2 - 1 ELSE 0
  /\ shifted_x = x
  /\ sum = 0
  /\ calls = <<>>
  /\ returned = "none"

Return(f) ==
  /\ function' = "none"
  /\ returned' = f
  /\ UNCHANGED <<x, y, i, shifted_x, sum, calls>>

-----------------------------------------------------------------------------
Multiply ==
  /\ function = "multiply"
  /\ i < Width
  /\ sum' = IF bit(y, i) THEN Plus(sum, shifted_x) ELSE sum
  /\ shifted_x' = Plus(shifted_x, shifted_x)
  /\ i' = i + 1
  /\ UNCHANGED <<function, x, y, calls, returned>>

MultiplyReturn ==
  /\ function = "multiply"
  /\ i = Width
  /\ Return("multiply")

\* Mutant: the divisor grows by itself, not by its double.
DivideSlowly ==
  /\ function = "divide"
  /\ ~Gt(y, x)
  /\ calls' = Append(calls, y)
  /\ y' = y
  /\ UNCHANGED <<function, x, i, shifted_x, sum, returned>>

\* The call inside divides by twice the divisor.
Divide ==
  /\ function = "divide"
  /\ ~Gt(y, x)
  /\ calls' = Append(calls, y)
  /\ y' = Times(2, y)
  /\ UNCHANGED <<function, x, i, shifted_x, sum, returned>>

DivideNone ==
  /\ function = "divide"
  /\ Gt(y, x)
  /\ sum' = 0
  /\ function' = "dividing"
  /\ UNCHANGED <<x, y, i, shifted_x, calls, returned>>

\* Mutant: the quotient is never odd.
QuotientEven(divisor) == Times(2, sum)

Quotient(divisor) ==
  LET q == sum
  IN IF Lt(Minus(x, Times(Times(2, q), divisor)), divisor) THEN Times(2, q) ELSE Plus(Times(2, q), 1)

\* The innermost of the calls that wait goes on with the quotient it is given.
DivideBack ==
  /\ function = "dividing"
  /\ calls # <<>>
  /\ sum' = Quotient(calls[Len(calls)])
  /\ y' = calls[Len(calls)]
  /\ calls' = SubSeq(calls, 1, Len(calls) - 1)
  /\ UNCHANGED <<function, x, i, shifted_x, returned>>

DivideReturn ==
  /\ function = "dividing"
  /\ calls = <<>>
  /\ Return("divide")

Fits(square) == Lt(square, Plus(x, 1)) /\ Gt(square, 0)

Sqrt ==
  /\ function = "sqrt"
  /\ Gt(i % Size, Size - 1)
  /\ LET temp == Plus(sum, two_to_the[i])
     IN sum' = IF Fits(Times(temp, temp)) THEN temp ELSE sum
  /\ i' = i - 1
  /\ UNCHANGED <<function, x, y, shifted_x, calls, returned>>

SqrtReturn ==
  /\ function = "sqrt"
  /\ ~Gt(i % Size, Size - 1)
  /\ Return("sqrt")

Next == \/ Multiply \/ MultiplyReturn
        \/ Divide \/ DivideNone \/ DivideBack \/ DivideReturn
        \/ Sqrt \/ SqrtReturn

Spec == Init /\ [][Next]_vars

\* Bound: a division by zero, or by less, is not followed further than this.
Followed == Len(calls) <= Width + 1

-----------------------------------------------------------------------------
\* The product is right for all words, negative ones too, although the highest bit
\* of a factor is tested with a comparison of signed words (Math.multiply).
Multiplied ==
  returned = "multiply" => sum = (x * y) % Size

\* The quotient is right for every dividend that is not negative and every positive
\* divisor, up to the largest, where twice the divisor turns negative and the
\* comparison that stops the recursion wraps around (Math.divide).
Divided ==
  returned = "divide" /\ Signed(x) >= 0 /\ Signed(y) > 0
    => sum = x \div y

\* The root is right for every word that is not negative, up to the largest, where
\* x + 1 and the squares that are tried wrap around (Math.sqrt).
Rooted ==
  returned = "sqrt" /\ Signed(x) >= 0
    => /\ sum * sum <= x
       /\ (sum + 1) * (sum + 1) > x

\* A division by a positive word comes to an end: twice the divisor, which turns
\* negative, is found to be larger than the dividend before it becomes zero and the
\* calls go on for ever; they are never nested deeper than a word has bits (Math.divide).
DivideEnds == calls # <<>> /\ Signed(calls[1]) > 0 => Len(calls) <= Width
=============================================================================
