----------------------------- MODULE AssemblerProofs -----------------------------
(***************************************************************************)
(* For every set of names, every number of registers and every program:    *)
(* when its labels lie clear of the variables, the one pass of the         *)
(* assembler gives every name the address that two passes give it.         *)
(***************************************************************************)
EXTENDS Assembler, NatInduction, SequenceTheorems

(***************************************************************************)
(* The second half of Assembler, of any source s instead of the one read   *)
(* so far.                                                                 *)
(***************************************************************************)
Address(n) == [kind |-> "address", name |-> n]

Definition(n) == [kind |-> "label", name |-> n]

LabelsOf(s) == {n \in Symbols : \E k \in DOMAIN s : s[k] = Definition(n)}

UsedIn(s) == {n \in Symbols : \E k \in DOMAIN s : s[k] = Address(n)}

VariablesOf(s, k) == {n \in Symbols \ LabelsOf(s) : \E j \in 1 .. k : s[j] = Address(n)}

LineOf(s, n) == CHOOSE k \in DOMAIN s : s[k] = Definition(n)

Place(s, n) == Instructions(SubSeq(s, 1, LineOf(s, n)))

FirstLine(s, n) ==
  CHOOSE k \in DOMAIN s : s[k] = Address(n) /\ \A j \in 1 .. k - 1 : s[j] # s[k]

Rank(s, n) == RegisterCount + Cardinality(VariablesOf(s, FirstLine(s, n) - 1))

ApartIn(s) ==
  \A n \in LabelsOf(s) : Place(s, n) \notin RegisterCount .. RegisterCount + Cardinality(Symbols)

\* A program: lines of which no two define the same label.
Program(s) ==
  /\ s \in Seq(Lines)
  /\ \A n \in Symbols : \A j, k \in DOMAIN s : s[j] = Definition(n) /\ s[k] = Definition(n) => j = k

-----------------------------------------------------------------------------
(***************************************************************************)
(* What one more line changes.                                             *)
(***************************************************************************)
Grows(s, e, t) == Program(s) /\ e \in Lines /\ t = Append(s, e) /\ Program(t)

LEMMA AppendLine ==
  ASSUME NEW s, NEW e, NEW t, Grows(s, e, t)
  PROVE  /\ s \in Seq(Lines) /\ t \in Seq(Lines) /\ e \in Lines
         /\ DOMAIN s = 1 .. Len(s) /\ Len(s) \in Nat
         /\ DOMAIN t = 1 .. Len(s) + 1 /\ Len(t) = Len(s) + 1
         /\ \A k \in 1 .. Len(s) : t[k] = s[k]
         /\ t[Len(s) + 1] = e
BY DEF Grows, Program

LEMMA LineKinds ==
  ASSUME NEW n, NEW m
  PROVE  /\ Address(n) = Address(m) => n = m
         /\ Definition(n) = Definition(m) => n = m
         /\ Address(n) # Definition(m)
<1>1. /\ Address(n).name = n /\ Address(m).name = m /\ Address(n).kind = "address"
      /\ Definition(n).name = n /\ Definition(m).name = m /\ Definition(m).kind = "label"
  BY DEF Address, Definition
<1>. QED
  BY <1>1

LEMMA LineTypes ==
  ASSUME NEW n \in Symbols
  PROVE  /\ Address(n) \in Lines /\ Address(n).kind = "address"
         /\ Definition(n) \in Lines /\ Definition(n).kind = "label"
BY DEF Address, Definition, Lines

LEMMA PrefixSame ==
  ASSUME NEW s, NEW e, NEW t, Grows(s, e, t), NEW k \in 1 .. Len(s)
  PROVE  SubSeq(t, 1, k) = SubSeq(s, 1, k)
<1>1. /\ t \in Seq(Lines) /\ s \in Seq(Lines) /\ k \in 0 .. Len(t) /\ k \in 0 .. Len(s)
      /\ \A i \in 1 .. k : t[i] = s[i]
  BY AppendLine
<1>2. SubSeq(t, 1, k) = Restrict(t, 1 .. k) /\ SubSeq(s, 1, k) = Restrict(s, 1 .. k)
  BY <1>1, SubSeqRestrict
<1>3. Restrict(t, 1 .. k) = Restrict(s, 1 .. k)
  BY <1>1 DEF Restrict
<1>. QED
  BY <1>2, <1>3

LEMMA InstructionsAppend ==
  ASSUME NEW s, NEW e, NEW t, Grows(s, e, t)
  PROVE  /\ Instructions(s) \in Nat
         /\ Instructions(t) = Instructions(s) + IF e.kind = "label" THEN 0 ELSE 1
<1> DEFINE I == {k \in DOMAIN s : s[k].kind # "label"}
           J == {k \in DOMAIN t : t[k].kind # "label"}
<1>1. /\ DOMAIN s = 1 .. Len(s) /\ Len(s) \in Nat
      /\ DOMAIN t = 1 .. Len(s) + 1
      /\ \A k \in 1 .. Len(s) : t[k] = s[k]
      /\ t[Len(s) + 1] = e
  BY AppendLine
<1>2. IsFiniteSet(I) /\ Cardinality(I) \in Nat
  <2>1. IsFiniteSet(1 .. Len(s))
    BY <1>1, FS_Interval
  <2>2. I \in SUBSET (1 .. Len(s))
    BY <1>1
  <2> HIDE DEF I
  <2>. QED
    BY <2>1, <2>2, FS_Subset, FS_CardinalityType
<1>3. J = IF e.kind = "label" THEN I ELSE I \cup {Len(s) + 1}
  BY <1>1
<1>4. Len(s) + 1 \notin I
  BY <1>1
<1> HIDE DEF I, J
<1>5. Cardinality(J) = Cardinality(I) + IF e.kind = "label" THEN 0 ELSE 1
  <2>1. CASE e.kind = "label"
    BY <1>2, <1>3, <2>1
  <2>2. CASE e.kind # "label"
    BY <1>2, <1>3, <1>4, <2>2, FS_AddElement
  <2>. QED
    BY <2>1, <2>2
<1>. QED
  BY <1>2, <1>5 DEF Instructions, I, J

\* A program keeps its labels at their places as it grows.
LEMMA LabelsKept ==
  ASSUME NEW s, NEW e, NEW t, Grows(s, e, t)
  PROVE  /\ \A n \in LabelsOf(s) : n \in LabelsOf(t) /\ Place(t, n) = Place(s, n)
         /\ \A n \in LabelsOf(t) : n \in LabelsOf(s) \/ e = Definition(n)
         /\ ApartIn(t) => ApartIn(s)
<1>1. /\ s \in Seq(Lines)
      /\ DOMAIN s = 1 .. Len(s) /\ Len(s) \in Nat
      /\ DOMAIN t = 1 .. Len(s) + 1
      /\ \A k \in 1 .. Len(s) : t[k] = s[k]
      /\ t[Len(s) + 1] = e
  BY AppendLine
<1>2. ASSUME NEW n \in LabelsOf(s)
      PROVE  n \in LabelsOf(t) /\ Place(t, n) = Place(s, n)
  <2>1. PICK k \in 1 .. Len(s) : s[k] = Definition(n)
    BY <1>1 DEF LabelsOf
  <2>2. n \in Symbols /\ t[k] = Definition(n) /\ k \in DOMAIN t
    BY <1>1, <2>1 DEF LabelsOf
  <2>3. LineOf(s, n) = k
    BY <1>1, <2>1, <2>2 DEF LineOf, Program, Grows
  <2>4. LineOf(t, n) = k
    BY <1>1, <2>2 DEF LineOf, Program, Grows
  <2>5. SubSeq(t, 1, k) = SubSeq(s, 1, k)
    BY <1>1, PrefixSame
  <2>. QED
    BY <2>2, <2>3, <2>4, <2>5 DEF LabelsOf, Place
<1>3. \A n \in LabelsOf(t) : n \in LabelsOf(s) \/ e = Definition(n)
  BY <1>1 DEF LabelsOf
<1>. QED
  BY <1>2, <1>3 DEF ApartIn

LEMMA LabelPlaced ==
  ASSUME NEW s, NEW t, NEW n \in Symbols, Grows(s, Definition(n), t)
  PROVE  n \notin LabelsOf(s) /\ n \in LabelsOf(t) /\ Place(t, n) = Instructions(s)
<1>0. Definition(n) \in Lines /\ Definition(n).kind = "label"
  BY DEF Definition, Lines
<1>1. /\ s \in Seq(Lines) /\ t \in Seq(Lines)
      /\ DOMAIN s = 1 .. Len(s) /\ Len(s) \in Nat
      /\ DOMAIN t = 1 .. Len(s) + 1 /\ Len(t) = Len(s) + 1
      /\ \A k \in 1 .. Len(s) : t[k] = s[k]
      /\ t[Len(s) + 1] = Definition(n)
  BY <1>0, AppendLine
<1>2. LineOf(t, n) = Len(t)
  BY <1>1 DEF LineOf, Program, Grows
<1>3. SubSeq(t, 1, Len(t)) = t
  BY <1>1, SubSeqFull
<1>4. n \notin LabelsOf(s)
  <2> SUFFICES ASSUME NEW k \in 1 .. Len(s), s[k] = Definition(n)
               PROVE  FALSE
    BY <1>1 DEF LabelsOf
  <2>1. t[k] = Definition(n) /\ k \in DOMAIN t /\ Len(s) + 1 \in DOMAIN t /\ k # Len(s) + 1
    BY <1>1
  <2>. QED
    BY <1>1, <2>1 DEF Program, Grows
<1>5. n \in LabelsOf(t)
  BY <1>1 DEF LabelsOf
<1>6. Place(t, n) = Instructions(t)
  BY <1>2, <1>3 DEF Place
<1>7. Instructions(s) \in Nat /\ Instructions(t) = Instructions(s) + 0
  BY <1>0, <1>1, InstructionsAppend
<1>. QED
  BY <1>4, <1>5, <1>6, <1>7

-----------------------------------------------------------------------------
(***************************************************************************)
(* The lines that use a name first, and how many variables come before.    *)
(***************************************************************************)
LEMMA FirstUnique ==
  ASSUME NEW s \in Seq(Lines), NEW n, NEW k \in 1 .. Len(s), s[k] = Address(n),
         \A j \in 1 .. k - 1 : s[j] # Address(n)
  PROVE  FirstLine(s, n) = k
<1> DEFINE P(i) == s[i] = Address(n) /\ \A j \in 1 .. i - 1 : s[j] # s[i]
<1>1. DOMAIN s = 1 .. Len(s) /\ Len(s) \in Nat
  OBVIOUS
<1>2. k \in DOMAIN s /\ P(k)
  BY <1>1
<1>3. ASSUME NEW i \in DOMAIN s, P(i)
      PROVE  i = k
  <2>1. i \in Nat /\ k \in Nat /\ i >= 1 /\ k >= 1
    BY <1>1
  <2>2. ~(i < k) /\ ~(k < i)
    BY <1>3, <2>1
  <2>. QED
    BY <2>1, <2>2
<1> HIDE DEF P
<1>4. FirstLine(s, n) = CHOOSE i \in DOMAIN s : P(i)
  BY DEF FirstLine, P
<1>. QED
  BY <1>2, <1>3, <1>4

LEMMA FirstIs ==
  ASSUME NEW s \in Seq(Lines), NEW n \in UsedIn(s)
  PROVE  /\ FirstLine(s, n) \in 1 .. Len(s)
         /\ s[FirstLine(s, n)] = Address(n)
         /\ \A j \in 1 .. FirstLine(s, n) - 1 : s[j] # Address(n)
<1> DEFINE T == {k \in 1 .. Len(s) : s[k] = Address(n)}
<1>1. T \subseteq Nat /\ T # {}
  BY DEF UsedIn
<1>2. PICK k \in T : \A j \in T : k <= j
  <2> HIDE DEF T
  <2>. QED
    BY <1>1, LeastNumber
<1>3. /\ k \in 1 .. Len(s) /\ s[k] = Address(n)
      /\ \A j \in 1 .. k - 1 : s[j] # Address(n)
  BY <1>2
<1>. QED
  BY <1>3, FirstUnique

LEMMA VariablesFinite ==
  ASSUME NEW s, NEW k
  PROVE  /\ IsFiniteSet(VariablesOf(s, k)) /\ Cardinality(VariablesOf(s, k)) \in Nat
         /\ VariablesOf(s, k) \subseteq Symbols
         /\ Cardinality(VariablesOf(s, k)) <= Cardinality(Symbols)
         /\ Cardinality(Symbols) \in Nat
<1>1. VariablesOf(s, k) \in SUBSET Symbols /\ IsFiniteSet(Symbols)
  BY AssemblerAssumption DEF VariablesOf
<1>. QED
  BY <1>1, FS_Subset, FS_CardinalityType

\* The variables of a program.
All(s) == VariablesOf(s, Len(s))

\* The later a variable is used first, the higher it ranks.
LEMMA Ranks ==
  ASSUME NEW s \in Seq(Lines), NEW m \in All(s), NEW n \in All(s)
  PROVE  /\ FirstLine(s, m) \in 1 .. Len(s) /\ FirstLine(s, n) \in 1 .. Len(s)
         /\ Rank(s, n) \in RegisterCount .. RegisterCount + Cardinality(All(s)) - 1
         /\ FirstLine(s, n) < FirstLine(s, m) =>
              Rank(s, n) < Rank(s, m) /\ n \in VariablesOf(s, FirstLine(s, m) - 1)
         /\ FirstLine(s, m) = FirstLine(s, n) => m = n
         /\ n \notin VariablesOf(s, FirstLine(s, n) - 1)
         /\ FirstLine(s, m) < FirstLine(s, n) => n \notin VariablesOf(s, FirstLine(s, m) - 1)
<1>1. m \in UsedIn(s) /\ n \in UsedIn(s) /\ DOMAIN s = 1 .. Len(s) /\ Len(s) \in Nat
  BY DEF All, VariablesOf, UsedIn
<1> DEFINE f == FirstLine(s, m)
           g == FirstLine(s, n)
<1>2. /\ f \in 1 .. Len(s) /\ s[f] = Address(m) /\ \A j \in 1 .. f - 1 : s[j] # Address(m)
      /\ g \in 1 .. Len(s) /\ s[g] = Address(n) /\ \A j \in 1 .. g - 1 : s[j] # Address(n)
  BY <1>1, FirstIs
<1> HIDE DEF f, g
<1>3. n \notin VariablesOf(s, g - 1)
  BY <1>2 DEF VariablesOf
<1>4. ASSUME NEW k \in g .. Len(s)
      PROVE  /\ n \in VariablesOf(s, k)
             /\ VariablesOf(s, g - 1) \subseteq VariablesOf(s, k)
             /\ Cardinality(VariablesOf(s, g - 1)) < Cardinality(VariablesOf(s, k))
  <2>1. n \in VariablesOf(s, k)
    BY <1>2 DEF All, VariablesOf
  <2>2. VariablesOf(s, g - 1) \subseteq VariablesOf(s, k)
    <3>1. 1 .. g - 1 \subseteq 1 .. k
      BY <1>1, <1>2
    <3>. QED
      BY <3>1 DEF VariablesOf
  <2>3. Cardinality(VariablesOf(s, g - 1)) <= Cardinality(VariablesOf(s, k))
        /\ Cardinality(VariablesOf(s, g - 1)) # Cardinality(VariablesOf(s, k))
    BY <1>3, <2>1, <2>2, VariablesFinite, FS_Subset
  <2>. QED
    BY <2>1, <2>2, <2>3, VariablesFinite
<1>5. Rank(s, n) = RegisterCount + Cardinality(VariablesOf(s, g - 1))
      /\ Rank(s, m) = RegisterCount + Cardinality(VariablesOf(s, f - 1))
  BY DEF Rank, f, g
<1>6. Rank(s, n) \in RegisterCount .. RegisterCount + Cardinality(All(s)) - 1
  <2>1. Len(s) \in g .. Len(s)
    BY <1>1, <1>2
  <2>2. Cardinality(VariablesOf(s, g - 1)) < Cardinality(All(s))
    BY <1>4, <2>1 DEF All
  <2>. QED
    BY <1>5, <2>2, VariablesFinite, AssemblerAssumption DEF All
<1>7. ASSUME g < f
      PROVE  Rank(s, n) < Rank(s, m) /\ n \in VariablesOf(s, f - 1)
  <2>1. f - 1 \in g .. Len(s)
    BY <1>1, <1>2, <1>7
  <2>2. n \in VariablesOf(s, f - 1)
        /\ Cardinality(VariablesOf(s, g - 1)) < Cardinality(VariablesOf(s, f - 1))
    BY <1>4, <2>1
  <2>. QED
    BY <1>5, <2>2, VariablesFinite, AssemblerAssumption
<1>8. f = g => m = n
  BY <1>2, LineKinds
<1>9. f < g => n \notin VariablesOf(s, f - 1)
  <2> SUFFICES ASSUME f < g, NEW j \in 1 .. f - 1
               PROVE  s[j] # Address(n)
    BY DEF VariablesOf
  <2>1. j \in 1 .. g - 1
    BY <1>1, <1>2
  <2>. QED
    BY <1>2, <2>1
<1>. QED
  BY <1>2, <1>3, <1>6, <1>7, <1>8, <1>9 DEF f, g

LEMMA RankRange ==
  ASSUME NEW s \in Seq(Lines), NEW n \in All(s)
  PROVE  Rank(s, n) \in RegisterCount .. RegisterCount + Cardinality(All(s)) - 1
BY Ranks

LEMMA VariablesGrow ==
  ASSUME NEW s, NEW e, NEW t, Grows(s, e, t),
         LabelsOf(s) \subseteq LabelsOf(t), NEW k \in 0 .. Len(s)
  PROVE  VariablesOf(t, k) = VariablesOf(s, k) \ LabelsOf(t)
<1>1. \A j \in 1 .. k : t[j] = s[j]
  BY AppendLine
<1>. QED
  BY <1>1 DEF VariablesOf

LEMMA AllGrow ==
  ASSUME NEW s, NEW e, NEW t, Grows(s, e, t),
         LabelsOf(s) \subseteq LabelsOf(t)
  PROVE  \A n : n \in All(t) <=>
                /\ n \notin LabelsOf(t)
                /\ n \in All(s) \/ (n \in Symbols /\ e = Address(n))
<1>1. /\ Len(s) \in Nat /\ Len(t) = Len(s) + 1
      /\ \A k \in 1 .. Len(s) : t[k] = s[k]
      /\ t[Len(s) + 1] = e
  BY AppendLine
<1>2. \A n : (\E j \in 1 .. Len(t) : t[j] = Address(n)) <=>
             (\E j \in 1 .. Len(s) : s[j] = Address(n)) \/ e = Address(n)
  <2>1. \A j \in 1 .. Len(t) : j \in 1 .. Len(s) \/ j = Len(s) + 1
    BY <1>1
  <2>2. \A j \in 1 .. Len(s) : j \in 1 .. Len(t)
    BY <1>1
  <2>3. Len(s) + 1 \in 1 .. Len(t)
    BY <1>1
  <2>. QED
    BY <1>1, <2>1, <2>2, <2>3
<1>. QED
  BY <1>2 DEF All, VariablesOf

LEMMA UsedGrow ==
  ASSUME NEW s, NEW e, NEW t, Grows(s, e, t)
  PROVE  UsedIn(t) = UsedIn(s) \cup {n \in Symbols : e = Address(n)}
<1>1. /\ DOMAIN s = 1 .. Len(s) /\ Len(s) \in Nat
      /\ DOMAIN t = 1 .. Len(s) + 1
      /\ \A k \in 1 .. Len(s) : t[k] = s[k]
      /\ t[Len(s) + 1] = e
  BY AppendLine
<1>. QED
  BY <1>1 DEF UsedIn

LEMMA FirstKept ==
  ASSUME NEW s, NEW e, NEW t, Grows(s, e, t), NEW n \in UsedIn(s)
  PROVE  FirstLine(t, n) = FirstLine(s, n)
<1> DEFINE f == FirstLine(s, n)
<1>1. /\ s \in Seq(Lines) /\ t \in Seq(Lines) /\ Len(t) = Len(s) + 1 /\ Len(s) \in Nat
      /\ \A k \in 1 .. Len(s) : t[k] = s[k]
  BY AppendLine
<1>2. f \in 1 .. Len(s) /\ s[f] = Address(n) /\ \A j \in 1 .. f - 1 : s[j] # Address(n)
  BY <1>1, FirstIs
<1> HIDE DEF f
<1>3. f \in 1 .. Len(t) /\ t[f] = Address(n) /\ \A j \in 1 .. f - 1 : t[j] # Address(n)
  BY <1>1, <1>2
<1>4. FirstLine(t, n) = f
  BY <1>1, <1>3, FirstUnique
<1>. QED
  BY <1>4 DEF f

LEMMA AllFinite ==
  ASSUME NEW s
  PROVE  /\ IsFiniteSet(All(s)) /\ Cardinality(All(s)) \in Nat
         /\ Cardinality(All(s)) <= Cardinality(Symbols) /\ Cardinality(Symbols) \in Nat
BY VariablesFinite DEF All

\* A line that neither uses a new variable nor makes a label of one leaves the ranks.
LEMMA RanksKept ==
  ASSUME NEW s, NEW e, NEW t, Grows(s, e, t),
         LabelsOf(s) \subseteq LabelsOf(t), LabelsOf(t) \cap All(s) = {},
         NEW n \in All(s)
  PROVE  Rank(t, n) = Rank(s, n)
<1>1. FirstLine(s, n) \in 1 .. Len(s) /\ Len(s) \in Nat /\ n \in UsedIn(s)
  <2>1. n \in UsedIn(s) /\ s \in Seq(Lines) /\ Len(s) \in Nat
    BY AppendLine DEF All, VariablesOf, UsedIn
  <2>. QED
    BY <2>1, FirstIs
<1>2. FirstLine(s, n) - 1 \in 0 .. Len(s)
  BY <1>1
<1>3. FirstLine(t, n) = FirstLine(s, n)
  BY <1>1, FirstKept
<1>4. VariablesOf(t, FirstLine(s, n) - 1) = VariablesOf(s, FirstLine(s, n) - 1) \ LabelsOf(t)
  BY <1>2, VariablesGrow
<1>5. VariablesOf(s, FirstLine(s, n) - 1) \subseteq All(s)
  <2>1. 1 .. FirstLine(s, n) - 1 \subseteq 1 .. Len(s)
    BY <1>1
  <2>. QED
    BY <2>1 DEF VariablesOf, All
<1>6. VariablesOf(t, FirstLine(s, n) - 1) = VariablesOf(s, FirstLine(s, n) - 1)
  BY <1>4, <1>5
<1>. QED
  BY <1>3, <1>6 DEF Rank

-----------------------------------------------------------------------------
(***************************************************************************)
(* The inductive invariant, for programs whose labels are apart: what the  *)
(* maps hold when the lines s are read.  The place behind the last         *)
(* variable may still hold the mark of a label that was taken for one.     *)
(***************************************************************************)
Assigned(s, mapping, inverse, nextIndex) ==
  /\ nextIndex = RegisterCount + Cardinality(All(s))
  /\ \A n \in Symbols : n \in DOMAIN mapping <=> n \in All(s) \cup LabelsOf(s)
  /\ \A n \in LabelsOf(s) : mapping[n] = Place(s, n)
  /\ \A n \in All(s) : mapping[n] = Rank(s, n) /\ inverse[Rank(s, n)] = n
  /\ \A i \in RegisterCount .. nextIndex - 1 :
       i \in DOMAIN inverse /\ inverse[i] \in All(s) /\ Rank(s, inverse[i]) = i
  /\ \A i \in DOMAIN inverse : i \in 0 .. nextIndex \/ \E n \in LabelsOf(s) : i = Place(s, n)
  /\ nextIndex \in DOMAIN inverse => \E n \in LabelsOf(s) : inverse[nextIndex] = Removed(n)

LEMMA Disjointness ==
  ASSUME NEW s
  PROVE  All(s) \cap LabelsOf(s) = {} /\ All(s) \subseteq Symbols /\ LabelsOf(s) \subseteq Symbols
BY DEF All, VariablesOf, LabelsOf

\* Compute, and a use of a name that is known already.
LEMMA AssignedKept ==
  ASSUME NEW s, NEW e, NEW t, Grows(s, e, t),
         LabelsOf(t) = LabelsOf(s), All(t) = All(s),
         NEW mapping, NEW inverse, NEW nextIndex, Assigned(s, mapping, inverse, nextIndex)
  PROVE  Assigned(t, mapping, inverse, nextIndex)
<1>1. \A n \in LabelsOf(s) : Place(t, n) = Place(s, n)
  BY LabelsKept
<1>2. \A n \in All(s) : Rank(t, n) = Rank(s, n)
  BY RanksKept, Disjointness
<1>. QED
  BY <1>1, <1>2 DEF Assigned

\* A name that is new and taken for a variable.
LEMMA AssignedAllocate ==
  ASSUME NEW s, NEW t, NEW n \in Symbols, Grows(s, Address(n), t),
         ApartIn(t), n \notin All(s) \cup LabelsOf(s),
         NEW mapping, NEW inverse, NEW nextIndex, Assigned(s, mapping, inverse, nextIndex)
  PROVE  Assigned(t, Bind(mapping, n, nextIndex), Bind(inverse, nextIndex, n), nextIndex + 1)
<1> DEFINE b == Bind(mapping, n, nextIndex)
           v == Bind(inverse, nextIndex, n)
<1>1. /\ s \in Seq(Lines) /\ Address(n) \in Lines /\ Len(s) \in Nat
      /\ DOMAIN s = 1 .. Len(s) /\ DOMAIN t = 1 .. Len(s) + 1 /\ Len(t) = Len(s) + 1
      /\ t \in Seq(Lines) /\ t[Len(s) + 1] = Address(n)
      /\ \A k \in 1 .. Len(s) : t[k] = s[k]
      /\ \A l : Definition(l) # Address(n)
  BY LineKinds, LineTypes, AppendLine
<1>2. LabelsOf(t) = LabelsOf(s) /\ \A l \in LabelsOf(s) : Place(t, l) = Place(s, l)
  <2>1. \A l \in LabelsOf(s) : l \in LabelsOf(t) /\ Place(t, l) = Place(s, l)
    BY <1>1, LabelsKept
  <2>2. \A l \in LabelsOf(t) : l \in LabelsOf(s)
    BY <1>1, LabelsKept
  <2>. QED
    BY <2>1, <2>2
<1>3. All(t) = All(s) \cup {n}
  <2>1. \A l : l \in All(t) <=>
               /\ l \notin LabelsOf(t)
               /\ l \in All(s) \/ (l \in Symbols /\ Address(n) = Address(l))
    BY <1>1, <1>2, AllGrow
  <2>2. \A l : Address(n) = Address(l) => l = n
    BY LineKinds
  <2>. QED
    BY <1>2, <2>1, <2>2, Disjointness
<1>4. ASSUME NEW l \in All(s)
      PROVE  Rank(t, l) = Rank(s, l)
  <2>1. LabelsOf(s) \subseteq LabelsOf(t) /\ LabelsOf(t) \cap All(s) = {}
    BY <1>2, Disjointness
  <2>. QED
    BY <1>1, <2>1, RanksKept
<1>5. nextIndex = RegisterCount + Cardinality(All(s)) /\ nextIndex \in Nat
      /\ nextIndex + 1 = RegisterCount + Cardinality(All(t))
      /\ nextIndex + 1 <= RegisterCount + Cardinality(Symbols) /\ RegisterCount \in Nat
  <2>1. Cardinality(All(t)) = Cardinality(All(s)) + 1
    BY <1>3, AllFinite, FS_AddElement
  <2>2. nextIndex = RegisterCount + Cardinality(All(s))
    BY DEF Assigned
  <2>3. /\ Cardinality(All(s)) \in Nat /\ Cardinality(All(t)) <= Cardinality(Symbols)
        /\ Cardinality(Symbols) \in Nat
    BY AllFinite
  <2>. QED
    BY <2>1, <2>2, <2>3, AssemblerAssumption
<1>6. Rank(t, n) = nextIndex
  <2>1. \A k \in 1 .. Len(s) : t[k] # Address(n)
    BY <1>1 DEF All, VariablesOf
  <2>2. Len(s) + 1 \in 1 .. Len(t) /\ (Len(s) + 1) - 1 = Len(s)
    BY <1>1
  <2>3. FirstLine(t, n) = Len(s) + 1
    BY <1>1, <2>1, <2>2, FirstUnique
  <2>4. VariablesOf(t, Len(s)) = VariablesOf(s, Len(s)) \ LabelsOf(s)
    <3>1. Len(s) \in 0 .. Len(s) /\ LabelsOf(s) \subseteq LabelsOf(t)
      BY <1>1, <1>2
    <3>2. VariablesOf(t, Len(s)) = VariablesOf(s, Len(s)) \ LabelsOf(t)
      BY <1>1, <3>1, VariablesGrow
    <3>. QED
      BY <1>2, <3>2
  <2>5. (Len(s) + 1) - 1 = Len(s) /\ VariablesOf(t, Len(s)) = All(s)
    BY <1>1, <2>4, Disjointness DEF All
  <2>. QED
    BY <1>5, <2>3, <2>5 DEF Rank
<1>7. ASSUME NEW l \in All(s)
      PROVE  Rank(s, l) \in RegisterCount .. nextIndex - 1
  <2>1. Rank(s, l) \in RegisterCount .. RegisterCount + Cardinality(All(s)) - 1
    BY <1>1, RankRange
  <2>. QED
    BY <1>5, <2>1, AllFinite
<1>8. /\ \A l : l \in DOMAIN b <=> l \in DOMAIN mapping \/ l = n
      /\ b[n] = nextIndex
      /\ \A l \in DOMAIN mapping : l # n => b[l] = mapping[l]
      /\ \A i : i \in DOMAIN v <=> i \in DOMAIN inverse \/ i = nextIndex
      /\ v[nextIndex] = n
      /\ \A i \in DOMAIN inverse : i # nextIndex => v[i] = inverse[i]
  BY DEF Bind
<1> HIDE DEF b, v
<1>9. \A l \in Symbols : l \in DOMAIN b <=> l \in All(t) \cup LabelsOf(t)
  BY <1>2, <1>3, <1>8 DEF Assigned
<1>10. \A l \in LabelsOf(t) : b[l] = Place(t, l)
  BY <1>2, <1>8, Disjointness DEF Assigned
<1>11. \A l \in All(t) : b[l] = Rank(t, l) /\ v[Rank(t, l)] = l
  <2>1. \A l \in All(s) : /\ l \in DOMAIN mapping /\ l # n /\ mapping[l] = Rank(s, l)
                          /\ inverse[Rank(s, l)] = l /\ Rank(s, l) # nextIndex
                          /\ Rank(s, l) \in DOMAIN inverse
    BY <1>5, <1>7, Disjointness DEF Assigned
  <2>. QED
    BY <1>3, <1>4, <1>6, <1>8, <2>1
<1>12. ASSUME NEW i \in RegisterCount .. (nextIndex + 1) - 1
       PROVE  i \in DOMAIN v /\ v[i] \in All(t) /\ Rank(t, v[i]) = i
  <2>1. CASE i = nextIndex
    BY <1>3, <1>6, <1>8, <2>1
  <2>2. CASE i # nextIndex
    <3>1. i \in RegisterCount .. nextIndex - 1
      BY <1>5, <2>2
    <3>2. i \in DOMAIN inverse /\ inverse[i] \in All(s) /\ Rank(s, inverse[i]) = i
      BY <3>1 DEF Assigned
    <3>. QED
      BY <1>3, <1>4, <1>8, <2>2, <3>2
  <2>. QED
    BY <2>1, <2>2
<1>13. \A i \in DOMAIN v : i \in 0 .. nextIndex + 1 \/ \E l \in LabelsOf(t) : i = Place(t, l)
  <2>1. \A i \in DOMAIN inverse : i \in 0 .. nextIndex \/ \E l \in LabelsOf(s) : i = Place(s, l)
    BY DEF Assigned
  <2>2. \A i : i \in 0 .. nextIndex => i \in 0 .. nextIndex + 1
    BY <1>5
  <2>3. nextIndex \in 0 .. nextIndex + 1
    BY <1>5
  <2>. QED
    BY <1>2, <1>8, <2>1, <2>2, <2>3
<1>14. nextIndex + 1 \notin DOMAIN v
  <2>1. nextIndex + 1 \notin 0 .. nextIndex /\ nextIndex + 1 # nextIndex
    BY <1>5
  <2>2. ASSUME NEW l \in LabelsOf(s)
        PROVE  nextIndex + 1 # Place(s, l)
    <3>1. Place(t, l) \notin RegisterCount .. RegisterCount + Cardinality(Symbols)
      BY <1>2 DEF ApartIn
    <3>2. nextIndex + 1 \in RegisterCount .. RegisterCount + Cardinality(Symbols)
      BY <1>5, AllFinite
    <3>. QED
      BY <1>2, <3>1, <3>2
  <2>. QED
    BY <1>8, <2>1, <2>2 DEF Assigned
<1>15. Assigned(t, b, v, nextIndex + 1)
  BY <1>5, <1>9, <1>10, <1>11, <1>12, <1>13, <1>14 DEF Assigned
<1>. QED
  BY <1>15 DEF b, v

LEMMA LabelsGrow ==
  ASSUME NEW s, NEW t, NEW n \in Symbols, Grows(s, Definition(n), t)
  PROVE  /\ LabelsOf(t) = LabelsOf(s) \cup {n} /\ n \notin LabelsOf(s)
         /\ \A l \in LabelsOf(s) : Place(t, l) = Place(s, l)
         /\ All(t) = All(s) \ {n}
<1>1. n \notin LabelsOf(s) /\ n \in LabelsOf(t)
  BY LabelPlaced
<1>2. \A l \in LabelsOf(s) : l \in LabelsOf(t) /\ Place(t, l) = Place(s, l)
  BY LabelsKept
<1>3. \A l \in LabelsOf(t) : l \in LabelsOf(s) \/ Definition(n) = Definition(l)
  BY LabelsKept
<1>4. LabelsOf(t) = LabelsOf(s) \cup {n}
  BY <1>1, <1>2, <1>3, LineKinds
<1>5. \A l : l \in All(t) <=>
              /\ l \notin LabelsOf(t)
              /\ l \in All(s) \/ (l \in Symbols /\ Definition(n) = Address(l))
  BY <1>4, AllGrow
<1>6. All(t) = All(s) \ {n}
  BY <1>4, <1>5, LineKinds, Disjointness
<1>. QED
  BY <1>1, <1>2, <1>4, <1>6

\* When a variable turns out to be a label, the ones behind it move down by one.
LEMMA RanksShift ==
  ASSUME NEW s, NEW t, NEW n \in All(s), Grows(s, Definition(n), t), NEW m \in All(s), m # n
  PROVE  /\ Rank(s, n) \in Nat /\ Rank(s, m) \in Nat /\ Rank(s, n) # Rank(s, m)
         /\ Rank(t, m) = IF Rank(s, n) < Rank(s, m) THEN Rank(s, m) - 1 ELSE Rank(s, m)
<1> DEFINE f == FirstLine(s, m)
           X == VariablesOf(s, f - 1)
<1>1. /\ s \in Seq(Lines) /\ Len(s) \in Nat /\ n \in Symbols
      /\ m \in UsedIn(s) /\ m \in Symbols
  BY AppendLine DEF All, VariablesOf, UsedIn
<1>2. /\ f \in 1 .. Len(s) /\ FirstLine(s, n) \in 1 .. Len(s) /\ f # FirstLine(s, n)
      /\ FirstLine(s, n) < f => Rank(s, n) < Rank(s, m) /\ n \in X
      /\ f < FirstLine(s, n) => Rank(s, m) < Rank(s, n) /\ n \notin X
  BY <1>1, Ranks
<1>3. Rank(s, n) \in Nat /\ Rank(s, m) \in Nat
  BY <1>1, RankRange, AllFinite, AssemblerAssumption
<1>4. VariablesOf(t, f - 1) = X \ {n}
  <2>1. LabelsOf(s) \subseteq LabelsOf(t) /\ LabelsOf(t) = LabelsOf(s) \cup {n}
    BY <1>1, LabelsGrow
  <2>2. f - 1 \in 0 .. Len(s)
    BY <1>1, <1>2
  <2>3. VariablesOf(t, f - 1) = X \ LabelsOf(t)
    BY <2>1, <2>2, VariablesGrow
  <2>4. X \cap LabelsOf(s) = {}
    BY DEF VariablesOf
  <2>. QED
    BY <2>1, <2>3, <2>4
<1>5. FirstLine(t, m) = f
  BY <1>1, FirstKept
<1>6. /\ Rank(s, m) = RegisterCount + Cardinality(X)
      /\ Rank(t, m) = RegisterCount + Cardinality(X \ {n})
  BY <1>4, <1>5 DEF Rank
<1>7. /\ IsFiniteSet(X) /\ Cardinality(X) \in Nat
      /\ Cardinality(X \ {n}) = IF n \in X THEN Cardinality(X) - 1 ELSE Cardinality(X)
  BY VariablesFinite, FS_RemoveElement
<1> HIDE DEF f, X
<1>8. CASE FirstLine(s, n) < f
  BY <1>2, <1>3, <1>6, <1>7, <1>8, AssemblerAssumption
<1>9. CASE f < FirstLine(s, n)
  BY <1>2, <1>3, <1>6, <1>7, <1>9, AssemblerAssumption
<1>. QED
  BY <1>1, <1>2, <1>8, <1>9

\* A label no instruction has named yet.
LEMMA AssignedDefineNew ==
  ASSUME NEW s, NEW t, NEW n \in Symbols, Grows(s, Definition(n), t),
         ApartIn(t), n \notin All(s),
         NEW mapping, NEW inverse, NEW nextIndex, Assigned(s, mapping, inverse, nextIndex)
  PROVE  Assigned(t, Bind(mapping, n, Instructions(s)), Bind(inverse, Instructions(s), n), nextIndex)
<1> DEFINE l == Instructions(s)
           b == Bind(mapping, n, l)
           v == Bind(inverse, l, n)
<1>1. /\ LabelsOf(t) = LabelsOf(s) \cup {n} /\ n \notin LabelsOf(s)
      /\ \A x \in LabelsOf(s) : Place(t, x) = Place(s, x)
      /\ All(t) = All(s) /\ Place(t, n) = l
  BY LabelsGrow, LabelPlaced
<1>2. ASSUME NEW m \in All(s)
      PROVE  Rank(t, m) = Rank(s, m)
  <2>1. LabelsOf(s) \subseteq LabelsOf(t) /\ LabelsOf(t) \cap All(s) = {}
    BY <1>1, Disjointness
  <2>. QED
    BY <2>1, RanksKept
<1>3. nextIndex = RegisterCount + Cardinality(All(s)) /\ nextIndex \in Nat /\ RegisterCount \in Nat
      /\ nextIndex <= RegisterCount + Cardinality(Symbols)
  BY AllFinite, AssemblerAssumption DEF Assigned
<1>4. l \notin RegisterCount .. nextIndex
  <2>1. l \notin RegisterCount .. RegisterCount + Cardinality(Symbols)
    BY <1>1 DEF ApartIn
  <2>. QED
    BY <1>3, <2>1, AllFinite
<1>5. ASSUME NEW m \in All(s)
      PROVE  Rank(s, m) \in RegisterCount .. nextIndex - 1
  <2>1. Rank(s, m) \in RegisterCount .. RegisterCount + Cardinality(All(s)) - 1
    BY AppendLine, RankRange
  <2>. QED
    BY <1>3, <2>1, AllFinite
<1>6. /\ \A m : m \in DOMAIN b <=> m \in DOMAIN mapping \/ m = n
      /\ b[n] = l
      /\ \A m \in DOMAIN mapping : m # n => b[m] = mapping[m]
      /\ \A i : i \in DOMAIN v <=> i \in DOMAIN inverse \/ i = l
      /\ \A i \in DOMAIN inverse : i # l => v[i] = inverse[i]
  BY DEF Bind
<1> HIDE DEF b, v, l
<1>7. \A m \in Symbols : m \in DOMAIN b <=> m \in All(t) \cup LabelsOf(t)
  BY <1>1, <1>6 DEF Assigned
<1>8. \A m \in LabelsOf(t) : b[m] = Place(t, m)
  <2>1. \A m \in LabelsOf(s) : m \in DOMAIN mapping /\ m # n /\ mapping[m] = Place(s, m)
    BY <1>1, Disjointness DEF Assigned
  <2>. QED
    BY <1>1, <1>6, <2>1
<1>9. \A m \in All(t) : b[m] = Rank(t, m) /\ v[Rank(t, m)] = m
  <2>1. \A m \in All(s) : /\ m \in DOMAIN mapping /\ m # n /\ mapping[m] = Rank(s, m)
                          /\ inverse[Rank(s, m)] = m /\ Rank(s, m) # l
                          /\ Rank(s, m) \in DOMAIN inverse
    BY <1>3, <1>4, <1>5, Disjointness DEF Assigned
  <2>. QED
    BY <1>1, <1>2, <1>6, <2>1
<1>10. ASSUME NEW i \in RegisterCount .. nextIndex - 1
       PROVE  i \in DOMAIN v /\ v[i] \in All(t) /\ Rank(t, v[i]) = i
  <2>1. i \in DOMAIN inverse /\ inverse[i] \in All(s) /\ Rank(s, inverse[i]) = i
    BY DEF Assigned
  <2>2. i # l
    BY <1>3, <1>4
  <2>. QED
    BY <1>1, <1>2, <1>6, <2>1, <2>2
<1>11. \A i \in DOMAIN v : i \in 0 .. nextIndex \/ \E m \in LabelsOf(t) : i = Place(t, m)
  <2>1. \A i \in DOMAIN inverse : i \in 0 .. nextIndex \/ \E m \in LabelsOf(s) : i = Place(s, m)
    BY DEF Assigned
  <2>. QED
    BY <1>1, <1>6, <2>1
<1>12. nextIndex \in DOMAIN v => \E m \in LabelsOf(t) : v[nextIndex] = Removed(m)
  <2>1. nextIndex # l
    BY <1>3, <1>4, AllFinite
  <2>2. nextIndex \in DOMAIN inverse => \E m \in LabelsOf(s) : inverse[nextIndex] = Removed(m)
    BY DEF Assigned
  <2>. QED
    BY <1>1, <1>6, <2>1, <2>2
<1>13. Assigned(t, b, v, nextIndex)
  BY <1>1, <1>3, <1>7, <1>8, <1>9, <1>10, <1>11, <1>12 DEF Assigned
<1>. QED
  BY <1>13 DEF b, v, l

-----------------------------------------------------------------------------
(***************************************************************************)
(* A label that was taken for a variable: Without, of any two maps.        *)
(***************************************************************************)
Marked(mapping, inverse, n) == Bind(inverse, mapping[n], Removed(n))

Moved(marked, index, last) == {marked[i] : i \in index + 1 .. last}

MappingWithout(mapping, marked, index, last) ==
  [m \in DOMAIN mapping \cup Moved(marked, index, last) |->
     IF m \in Moved(marked, index, last) THEN MovedTo(marked, index, last - 1, m) ELSE mapping[m]]

InverseWithout(marked, index, last) ==
  [i \in DOMAIN marked \ {j \in {last} : j > index} |->
     IF i \in index .. last - 1 THEN marked[i + 1] ELSE marked[i]]

\* The run of addresses the label's own begins goes to the last variable, and one
\* further when the mark of an earlier label stands there.
LEMMA RunIs ==
  ASSUME NEW inverse, NEW index \in Nat, NEW last \in Nat, index <= last,
         index .. last \subseteq DOMAIN inverse, last + 1 \notin DOMAIN inverse,
         DOMAIN inverse \subseteq Int
  PROVE  RunEnd(inverse, index) = last
<1> DEFINE P(z) == index .. z \subseteq DOMAIN inverse /\ z >= index /\ z + 1 \notin DOMAIN inverse
<1>1. last \in DOMAIN inverse /\ P(last)
  OBVIOUS
<1>2. ASSUME NEW z \in DOMAIN inverse, P(z)
      PROVE  z = last
  <2>1. z \in Int
    BY <1>2
  <2>2. ~(z < last)
    <3>1. z < last => z + 1 \in index .. last
      BY <1>2, <2>1
    <3>. QED
      BY <1>2, <3>1
  <2>3. ~(last < z)
    <3>1. last < z => last + 1 \in index .. z
      BY <2>1
    <3>. QED
      BY <1>2, <3>1
  <2>. QED
    BY <2>1, <2>2, <2>3
<1> HIDE DEF P
<1>3. RunEnd(inverse, index) = CHOOSE z \in DOMAIN inverse : P(z)
  BY DEF RunEnd, P
<1>. QED
  BY <1>1, <1>2, <1>3

LEMMA MovedToIs ==
  ASSUME NEW marked, NEW first \in Nat, NEW last \in Nat, NEW n, NEW i \in first .. last,
         \A j \in first .. last : marked[j + 1] = n <=> j = i
  PROVE  MovedTo(marked, first, last, n) = i
<1> DEFINE P(z) == marked[z + 1] = n /\ \A j \in z + 1 .. last : marked[j + 1] # n
<1>1. P(i)
  OBVIOUS
<1>2. \A z \in first .. last : P(z) => z = i
  OBVIOUS
<1> HIDE DEF P
<1>3. MovedTo(marked, first, last, n) = CHOOSE z \in first .. last : P(z)
  BY DEF MovedTo, P
<1>. QED
  BY <1>1, <1>2, <1>3

\* What is known of the inverse once the label's address is marked: Last is the end
\* of the run.
Last(inverse, nextIndex) == IF nextIndex \in DOMAIN inverse THEN nextIndex ELSE nextIndex - 1

LEMMA MarkedIs ==
  ASSUME NEW s, NEW t, NEW n \in All(s), Grows(s, Definition(n), t), ApartIn(t),
         NEW mapping, NEW inverse, NEW nextIndex, Assigned(s, mapping, inverse, nextIndex)
  PROVE  LET marked == Marked(mapping, inverse, n)
             index == Rank(s, n)
             last == Last(inverse, nextIndex)
         IN /\ mapping[n] = index
            /\ nextIndex \in Nat /\ RegisterCount \in Nat /\ last \in Nat
            /\ index \in RegisterCount .. nextIndex - 1
            /\ last \in nextIndex - 1 .. nextIndex
            /\ DOMAIN marked = DOMAIN inverse
            /\ DOMAIN inverse \subseteq Int
            /\ marked[index] = Removed(n)
            /\ \A i \in DOMAIN inverse : i # index => marked[i] = inverse[i]
            /\ index .. last \subseteq DOMAIN inverse
            /\ last = nextIndex => \E x \in LabelsOf(s) : marked[last] = Removed(x)
            /\ RunEnd(marked, index) = last
<1> DEFINE marked == Marked(mapping, inverse, n)
           index == Rank(s, n)
           last == Last(inverse, nextIndex)
<1>1. /\ LabelsOf(t) = LabelsOf(s) \cup {n} /\ n \notin LabelsOf(s) /\ n \in Symbols
      /\ \A x \in LabelsOf(s) : Place(t, x) = Place(s, x)
  BY LabelsGrow, Disjointness
<1>2. /\ nextIndex = RegisterCount + Cardinality(All(s)) /\ nextIndex \in Nat /\ RegisterCount \in Nat
      /\ mapping[n] = index
  BY AllFinite, AssemblerAssumption DEF Assigned
<1>3. index \in RegisterCount .. nextIndex - 1
  <2>1. index \in RegisterCount .. RegisterCount + Cardinality(All(s)) - 1
    BY AppendLine, RankRange
  <2>. QED
    BY <1>2, <2>1, AllFinite
<1>4. last \in nextIndex - 1 .. nextIndex /\ last \in Nat /\ index <= last
  BY <1>2, <1>3 DEF Last
<1>5. \A x \in LabelsOf(s) : Place(s, x) \in Nat
  <2> SUFFICES ASSUME NEW x \in LabelsOf(s)
               PROVE  Instructions(SubSeq(s, 1, LineOf(s, x))) \in Nat
    BY DEF Place
  <2> DEFINE q == SubSeq(s, 1, LineOf(s, x))
             I == {k \in DOMAIN q : q[k].kind # "label"}
  <2>1. s \in Seq(Lines) /\ DOMAIN s = 1 .. Len(s) /\ Len(s) \in Nat
    BY AppendLine
  <2>2. LineOf(s, x) \in 1 .. Len(s)
    BY <2>1 DEF LabelsOf, LineOf
  <2>3. q \in Seq(Lines) /\ Len(q) \in Nat /\ DOMAIN q = 1 .. Len(q)
    <3>1. \A k \in 1 .. LineOf(s, x) : s[k] \in Lines
      BY <2>1, <2>2
    <3>2. q \in Seq(Lines)
      BY <2>2, <3>1, SubSeqProperties
    <3> HIDE DEF q
    <3>. QED
      BY <3>2
  <2> HIDE DEF q
  <2>4. IsFiniteSet(I)
    <3>1. I \in SUBSET (1 .. Len(q)) /\ IsFiniteSet(1 .. Len(q))
      BY <2>3, FS_Interval
    <3>. QED
      BY <3>1, FS_Subset
  <2>5. Cardinality(I) \in Nat
    BY <2>4, FS_CardinalityType
  <2>6. Instructions(q) = Cardinality(I)
    BY DEF Instructions
  <2>. QED
    BY <2>5, <2>6 DEF q
<1>6. DOMAIN inverse \subseteq Int /\ nextIndex + 1 \notin DOMAIN inverse
  <2>1. \A i \in DOMAIN inverse : i \in 0 .. nextIndex \/ \E x \in LabelsOf(s) : i = Place(s, x)
    BY DEF Assigned
  <2>2. ASSUME NEW x \in LabelsOf(s)
        PROVE  Place(s, x) # nextIndex + 1
    <3>1. Cardinality(All(s) \cup {x}) = Cardinality(All(s)) + 1
      BY AllFinite, Disjointness, FS_AddElement
    <3>2. All(s) \cup {x} \in SUBSET Symbols
      BY Disjointness
    <3>3. Cardinality(All(s) \cup {x}) <= Cardinality(Symbols)
      BY <3>2, AssemblerAssumption, FS_Subset
    <3>4. nextIndex + 1 \in RegisterCount .. RegisterCount + Cardinality(Symbols)
      BY <1>2, <3>1, <3>3, AllFinite
    <3>5. Place(t, x) \notin RegisterCount .. RegisterCount + Cardinality(Symbols)
      BY <1>1 DEF ApartIn
    <3>. QED
      BY <1>1, <3>4, <3>5
  <2>. QED
    BY <1>2, <1>5, <2>1, <2>2
<1>7. \A i \in RegisterCount .. nextIndex - 1 : i \in DOMAIN inverse
  BY DEF Assigned
<1>8. index .. last \subseteq DOMAIN inverse /\ last + 1 \notin DOMAIN inverse
  <2>1. CASE nextIndex \in DOMAIN inverse
    BY <1>2, <1>3, <1>6, <1>7, <2>1 DEF Last
  <2>2. CASE nextIndex \notin DOMAIN inverse
    BY <1>2, <1>3, <1>6, <1>7, <2>2 DEF Last
  <2>. QED
    BY <2>1, <2>2
<1>9. /\ DOMAIN marked = DOMAIN inverse /\ marked[index] = Removed(n)
      /\ \A i \in DOMAIN inverse : i # index => marked[i] = inverse[i]
  <2>1. index \in DOMAIN inverse
    BY <1>3, <1>7
  <2>. QED
    BY <1>2, <2>1 DEF Marked, Bind
<1>10. last = nextIndex => \E x \in LabelsOf(s) : marked[last] = Removed(x)
  <2> SUFFICES ASSUME last = nextIndex
               PROVE  \E x \in LabelsOf(s) : marked[last] = Removed(x)
    OBVIOUS
  <2>1. nextIndex \in DOMAIN inverse
    BY <1>2 DEF Last
  <2>2. nextIndex # index
    BY <1>2, <1>3
  <2>3. \E x \in LabelsOf(s) : inverse[nextIndex] = Removed(x)
    BY <2>1 DEF Assigned
  <2> HIDE DEF marked, last
  <2>. QED
    BY <1>9, <2>1, <2>2, <2>3
<1> HIDE DEF marked, index, last
<1>11. RunEnd(marked, index) = last
  <2>1. index \in Nat
    BY <1>2, <1>3
  <2>. QED
    BY <1>4, <1>6, <1>8, <1>9, <2>1, RunIs
<1>. QED
  BY <1>2, <1>3, <1>4, <1>6, <1>8, <1>9, <1>10, <1>11 DEF marked, index, last

LEMMA AssignedDefineForward ==
  ASSUME NEW s, NEW t, NEW n \in All(s), Grows(s, Definition(n), t), ApartIn(t),
         NEW mapping, NEW inverse, NEW nextIndex, Assigned(s, mapping, inverse, nextIndex),
         NEW marked, marked = Marked(mapping, inverse, n),
         NEW index, index = mapping[n],
         NEW last, last = RunEnd(marked, index)
  PROVE  Assigned(t, Bind(MappingWithout(mapping, marked, index, last), n, Instructions(s)),
                     Bind(InverseWithout(marked, index, last), Instructions(s), n),
                     nextIndex - 1)
<1> DEFINE l == Instructions(s)
           mw == MappingWithout(mapping, marked, index, last)
           iw == InverseWithout(marked, index, last)
           b == Bind(mw, n, l)
           v == Bind(iw, l, n)
<1>1. /\ index = Rank(s, n)
      /\ nextIndex \in Nat /\ RegisterCount \in Nat /\ last \in Nat
      /\ index \in RegisterCount .. nextIndex - 1
      /\ last \in nextIndex - 1 .. nextIndex
      /\ DOMAIN marked = DOMAIN inverse
      /\ DOMAIN inverse \subseteq Int
      /\ marked[index] = Removed(n)
      /\ \A i \in DOMAIN inverse : i # index => marked[i] = inverse[i]
      /\ index .. last \subseteq DOMAIN inverse
      /\ last = nextIndex => \E x \in LabelsOf(s) : marked[last] = Removed(x)
      /\ last = Last(inverse, nextIndex)
  BY MarkedIs DEF Assigned
<1>2. /\ LabelsOf(t) = LabelsOf(s) \cup {n} /\ n \notin LabelsOf(s) /\ n \in Symbols
      /\ \A x \in LabelsOf(s) : Place(t, x) = Place(s, x)
      /\ All(t) = All(s) \ {n} /\ Place(t, n) = l
  BY LabelsGrow, LabelPlaced, Disjointness
<1>3. /\ nextIndex = RegisterCount + Cardinality(All(s))
      /\ nextIndex - 1 = RegisterCount + Cardinality(All(t))
      /\ nextIndex <= RegisterCount + Cardinality(Symbols)
  <2>1. Cardinality(All(t)) = Cardinality(All(s)) - 1
    BY <1>2, AllFinite, FS_RemoveElement
  <2>2. nextIndex = RegisterCount + Cardinality(All(s))
    BY DEF Assigned
  <2>. QED
    BY <1>1, <2>1, <2>2, AllFinite
<1>4. l \notin RegisterCount .. nextIndex
  <2>1. l \notin RegisterCount .. RegisterCount + Cardinality(Symbols)
    BY <1>2 DEF ApartIn
  <2>. QED
    BY <1>1, <1>3, <2>1, AllFinite
<1>5. ASSUME NEW m \in All(s), m # n
      PROVE  /\ Rank(s, m) \in RegisterCount .. nextIndex - 1 /\ Rank(s, m) # index
             /\ inverse[Rank(s, m)] = m /\ mapping[m] = Rank(s, m) /\ m \in DOMAIN mapping
             /\ Rank(s, m) \in DOMAIN inverse /\ marked[Rank(s, m)] = m
             /\ Rank(t, m) = IF index < Rank(s, m) THEN Rank(s, m) - 1 ELSE Rank(s, m)
  <2>1. Rank(s, m) \in RegisterCount .. RegisterCount + Cardinality(All(s)) - 1
    BY AppendLine, RankRange
  <2>2. Rank(s, m) \in RegisterCount .. nextIndex - 1
    BY <1>1, <1>3, <2>1, AllFinite
  <2>3. /\ inverse[Rank(s, m)] = m /\ mapping[m] = Rank(s, m) /\ m \in DOMAIN mapping
        /\ Rank(s, m) \in DOMAIN inverse
    BY <2>2, Disjointness DEF Assigned
  <2>4. /\ Rank(s, m) # index
        /\ Rank(t, m) = IF index < Rank(s, m) THEN Rank(s, m) - 1 ELSE Rank(s, m)
    BY <1>1, <1>5, RanksShift
  <2>. QED
    BY <1>1, <2>2, <2>3, <2>4
<1>6. \A m \in Symbols : \A p \in index + 1 .. last :
        marked[p] = m <=> m \in All(s) /\ m # n /\ p = Rank(s, m)
  <2> SUFFICES ASSUME NEW m \in Symbols, NEW p \in index + 1 .. last
               PROVE  marked[p] = m <=> m \in All(s) /\ m # n /\ p = Rank(s, m)
    OBVIOUS
  <2>1. p \in DOMAIN inverse /\ p # index /\ marked[p] = inverse[p]
    BY <1>1
  <2>2. CASE p \in RegisterCount .. nextIndex - 1
    <3>1. inverse[p] \in All(s) /\ Rank(s, inverse[p]) = p
      BY <2>2 DEF Assigned
    <3>2. inverse[p] # n
      BY <1>1, <2>1, <3>1
    <3>. QED
      BY <1>5, <2>1, <3>1, <3>2
  <2>3. CASE p \notin RegisterCount .. nextIndex - 1
    <3>1. p = nextIndex /\ last = nextIndex
      BY <1>1, <2>3
    <3>2. PICK x \in LabelsOf(s) : marked[p] = Removed(x)
      BY <1>1, <3>1
    <3>3. Removed(x) \in Marks /\ Removed(x) \notin Symbols
      BY AssemblerAssumption, Disjointness DEF Marks
    <3>. QED
      BY <1>1, <1>5, <2>3, <3>2, <3>3
  <2>. QED
    BY <2>2, <2>3
<1>7. /\ DOMAIN mw = DOMAIN mapping \cup Moved(marked, index, last)
      /\ \A m \in DOMAIN mw :
           mw[m] = IF m \in Moved(marked, index, last) THEN MovedTo(marked, index, last - 1, m)
                   ELSE mapping[m]
      /\ DOMAIN iw = DOMAIN inverse \ {j \in {last} : j > index}
      /\ \A i \in DOMAIN iw : iw[i] = IF i \in index .. last - 1 THEN marked[i + 1] ELSE marked[i]
  BY <1>1 DEF MappingWithout, InverseWithout
<1>8. /\ DOMAIN b = DOMAIN mw \cup {n} /\ b[n] = l
      /\ \A m \in DOMAIN mw : m # n => b[m] = mw[m]
      /\ DOMAIN v = DOMAIN iw \cup {l}
      /\ \A i \in DOMAIN iw : i # l => v[i] = iw[i]
  BY DEF Bind
<1> HIDE DEF b, v, mw, iw, l
<1>9. \A m \in Symbols : m \in Moved(marked, index, last) <=>
                           m \in All(s) /\ m # n /\ index < Rank(s, m)
  <2> SUFFICES ASSUME NEW m \in Symbols
               PROVE  m \in Moved(marked, index, last) <=>
                        m \in All(s) /\ m # n /\ index < Rank(s, m)
    OBVIOUS
  <2>1. ASSUME m \in Moved(marked, index, last)
        PROVE  m \in All(s) /\ m # n /\ index < Rank(s, m)
    <3>1. PICK p \in index + 1 .. last : marked[p] = m
      BY <2>1 DEF Moved
    <3>. QED
      BY <1>1, <1>6, <3>1
  <2>2. ASSUME m \in All(s), m # n, index < Rank(s, m)
        PROVE  m \in Moved(marked, index, last)
    <3>1. Rank(s, m) \in index + 1 .. last /\ marked[Rank(s, m)] = m
      BY <1>1, <1>5, <2>2
    <3>. QED
      BY <3>1 DEF Moved
  <2>. QED
    BY <2>1, <2>2
<1>10. ASSUME NEW m \in All(s), m # n
       PROVE  m \in DOMAIN mw /\ mw[m] = Rank(t, m)
  <2>1. m \in DOMAIN mw /\ m \in Symbols
    BY <1>5, <1>7, <1>10, Disjointness
  <2>2. CASE index < Rank(s, m)
    <3>1. m \in Moved(marked, index, last)
      BY <1>9, <1>10, <2>1, <2>2
    <3>2. index \in Nat /\ last - 1 \in Nat /\ Rank(s, m) - 1 \in index .. last - 1
      BY <1>1, <1>5, <1>10, <2>2
    <3>3. \A j \in index .. last - 1 : marked[j + 1] = m <=> j = Rank(s, m) - 1
      <4> SUFFICES ASSUME NEW j \in index .. last - 1
                   PROVE  marked[j + 1] = m <=> j = Rank(s, m) - 1
        OBVIOUS
      <4>1. j + 1 \in index + 1 .. last /\ (j + 1 = Rank(s, m) <=> j = Rank(s, m) - 1)
        BY <1>1, <1>5, <1>10
      <4>. QED
        BY <1>6, <1>10, <2>1, <4>1
    <3>4. MovedTo(marked, index, last - 1, m) = Rank(s, m) - 1
      BY <3>2, <3>3, MovedToIs
    <3>. QED
      BY <1>5, <1>7, <1>10, <2>1, <2>2, <3>1, <3>4
  <2>3. CASE ~(index < Rank(s, m))
    <3>1. m \notin Moved(marked, index, last)
      BY <1>9, <2>1, <2>3
    <3>. QED
      BY <1>5, <1>7, <1>10, <2>1, <2>3, <3>1
  <2>. QED
    BY <2>2, <2>3
<1>11. \A m \in Symbols : m \in DOMAIN b <=> m \in All(t) \cup LabelsOf(t)
  <2>1. \A m \in Symbols : m \in DOMAIN mapping <=> m \in All(s) \cup LabelsOf(s)
    BY DEF Assigned
  <2>. QED
    BY <1>2, <1>7, <1>8, <1>9, <2>1
<1>12. \A m \in LabelsOf(t) : b[m] = Place(t, m)
  <2>1. ASSUME NEW m \in LabelsOf(s)
        PROVE  b[m] = Place(t, m)
    <3>1. m \in Symbols /\ m \notin All(s) /\ m # n /\ m \in DOMAIN mapping /\ mapping[m] = Place(s, m)
      BY <1>2, Disjointness DEF Assigned
    <3>. QED
      BY <1>2, <1>7, <1>8, <1>9, <3>1
  <2>. QED
    BY <1>2, <1>8, <2>1
<1>13. ASSUME NEW i \in RegisterCount .. nextIndex - 2
       PROVE  /\ i \in DOMAIN v
              /\ v[i] = IF index <= i THEN inverse[i + 1] ELSE inverse[i]
  <2>1. i \in RegisterCount .. nextIndex - 1 /\ i # last /\ i # l /\ i \in Int /\ index \in Int
    BY <1>1, <1>4
  <2>2. i \in DOMAIN inverse
    BY <2>1 DEF Assigned
  <2>3. i \in DOMAIN iw /\ i \in DOMAIN v /\ v[i] = iw[i]
    BY <1>7, <1>8, <2>1, <2>2
  <2>4. CASE index <= i
    <3>1. i \in index .. last - 1 /\ i + 1 \in index .. last /\ i + 1 # index
      BY <1>1, <2>1, <2>4
    <3>2. marked[i + 1] = inverse[i + 1]
      BY <1>1, <3>1
    <3>. QED
      BY <1>7, <2>3, <2>4, <3>1, <3>2
  <2>5. CASE ~(index <= i)
    <3>1. i \notin index .. last - 1 /\ i # index
      BY <1>1, <2>1, <2>5
    <3>. QED
      BY <1>1, <1>7, <2>2, <2>3, <2>5, <3>1
  <2>. QED
    BY <2>4, <2>5
<1>14. ASSUME NEW m \in All(t)
       PROVE  b[m] = Rank(t, m) /\ v[Rank(t, m)] = m
  <2>1. m \in All(s) /\ m # n
    BY <1>2
  <2>2. b[m] = Rank(t, m)
    BY <1>8, <1>10, <2>1
  <2>3. CASE index < Rank(s, m)
    <3>1. Rank(t, m) = Rank(s, m) - 1 /\ Rank(s, m) - 1 \in RegisterCount .. nextIndex - 2
      BY <1>1, <1>5, <2>1, <2>3
    <3>2. index <= Rank(s, m) - 1 /\ (Rank(s, m) - 1) + 1 = Rank(s, m)
      BY <1>1, <1>5, <2>1, <2>3
    <3>3. v[Rank(s, m) - 1] = inverse[Rank(s, m)]
      BY <1>13, <3>1, <3>2
    <3>. QED
      BY <1>5, <2>1, <2>2, <3>1, <3>3
  <2>4. CASE ~(index < Rank(s, m))
    <3>1. /\ Rank(t, m) = Rank(s, m) /\ Rank(s, m) \in RegisterCount .. nextIndex - 2
          /\ ~(index <= Rank(s, m))
      BY <1>1, <1>5, <2>1, <2>4
    <3>2. v[Rank(s, m)] = inverse[Rank(s, m)]
      BY <1>13, <3>1
    <3>. QED
      BY <1>5, <2>1, <2>2, <3>1, <3>2
  <2>. QED
    BY <2>3, <2>4
<1>15. ASSUME NEW i \in RegisterCount .. (nextIndex - 1) - 1
       PROVE  i \in DOMAIN v /\ v[i] \in All(t) /\ Rank(t, v[i]) = i
  <2>1. i \in RegisterCount .. nextIndex - 2 /\ i \in Int /\ index \in Int
    BY <1>1
  <2>2. CASE index <= i
    <3>1. i + 1 \in RegisterCount .. nextIndex - 1 /\ index < i + 1
      BY <1>1, <2>1, <2>2
    <3>2. inverse[i + 1] \in All(s) /\ Rank(s, inverse[i + 1]) = i + 1
      BY <3>1 DEF Assigned
    <3>3. inverse[i + 1] # n /\ v[i] = inverse[i + 1]
      BY <1>1, <1>13, <2>1, <2>2, <3>1, <3>2
    <3>4. Rank(t, v[i]) = (i + 1) - 1
      BY <1>5, <3>1, <3>2, <3>3
    <3>. QED
      BY <1>2, <1>13, <2>1, <3>2, <3>3, <3>4
  <2>3. CASE ~(index <= i)
    <3>1. i \in RegisterCount .. nextIndex - 1 /\ ~(index < i) /\ i # index
      BY <1>1, <2>1, <2>3
    <3>2. inverse[i] \in All(s) /\ Rank(s, inverse[i]) = i
      BY <3>1 DEF Assigned
    <3>3. inverse[i] # n /\ v[i] = inverse[i]
      BY <1>1, <1>13, <2>1, <2>3, <3>1, <3>2
    <3>4. Rank(t, v[i]) = i
      BY <1>5, <3>1, <3>2, <3>3
    <3>. QED
      BY <1>2, <1>13, <2>1, <3>2, <3>3, <3>4
  <2>. QED
    BY <2>2, <2>3
<1>16. \A i \in DOMAIN v : i \in 0 .. nextIndex - 1 \/ \E x \in LabelsOf(t) : i = Place(t, x)
  <2> SUFFICES ASSUME NEW i \in DOMAIN iw, i \notin 0 .. nextIndex - 1
               PROVE  \E x \in LabelsOf(t) : i = Place(t, x)
    BY <1>2, <1>8
  <2>1. i \in DOMAIN inverse /\ ~(i = last /\ last > index)
    BY <1>7
  <2>2. i # nextIndex
    <3> SUFFICES ASSUME i = nextIndex
                 PROVE  FALSE
      OBVIOUS
    <3>1. last = nextIndex
      BY <1>1, <2>1 DEF Last
    <3>. QED
      BY <1>1, <2>1, <3>1
  <2>3. i \notin 0 .. nextIndex
    BY <1>1, <2>2
  <2>. QED
    BY <1>2, <2>1, <2>3 DEF Assigned
<1>17. nextIndex - 1 \in DOMAIN v => \E x \in LabelsOf(t) : v[nextIndex - 1] = Removed(x)
  <2> SUFFICES ASSUME nextIndex - 1 \in DOMAIN v
               PROVE  \E x \in LabelsOf(t) : v[nextIndex - 1] = Removed(x)
    OBVIOUS
  <2>1. nextIndex - 1 # l /\ nextIndex - 1 \in Int /\ index \in Int
    BY <1>1, <1>4
  <2>2. nextIndex - 1 \in DOMAIN iw /\ v[nextIndex - 1] = iw[nextIndex - 1]
    BY <1>8, <2>1
  <2>3. CASE last = nextIndex
    <3>1. nextIndex - 1 \in index .. last - 1 /\ (nextIndex - 1) + 1 = last
      BY <1>1, <2>3
    <3>2. iw[nextIndex - 1] = marked[last]
      BY <1>7, <2>2, <3>1
    <3>. QED
      BY <1>1, <1>2, <2>2, <2>3, <3>2
  <2>4. CASE last = nextIndex - 1
    <3>1. ~(last > index)
      BY <1>7, <2>2, <2>4
    <3>2. index = last /\ nextIndex - 1 \notin index .. last - 1
      BY <1>1, <2>4, <3>1
    <3>3. iw[nextIndex - 1] = marked[index]
      BY <1>7, <2>2, <2>4, <3>2
    <3>. QED
      BY <1>1, <1>2, <2>2, <3>3
  <2>. QED
    BY <1>1, <2>3, <2>4
<1>18. Assigned(t, b, v, nextIndex - 1)
  BY <1>3, <1>11, <1>12, <1>14, <1>15, <1>16, <1>17 DEF Assigned
<1>. QED
  BY <1>18 DEF b, v, mw, iw, l

-----------------------------------------------------------------------------
(***************************************************************************)
(* The steps of the assembler.                                             *)
(***************************************************************************)
IInv ==
  /\ Program(source)
  /\ loc = Instructions(source)
  /\ a_instruction \in Seq([loc : Nat, name : Symbols])
  /\ \A i \in DOMAIN a_instruction : a_instruction[i].name \in UsedIn(source)
  /\ ApartIn(source) => Assigned(source, index_mapping, index_mapping_inverse, next_var_index)

LEMMA GrowsBy ==
  ASSUME NEW s, Program(s), NEW e \in Lines, \A n \in LabelsOf(s) : e # Definition(n)
  PROVE  Grows(s, e, Append(s, e))
<1> DEFINE t == Append(s, e)
<1>1. /\ s \in Seq(Lines) /\ t \in Seq(Lines) /\ Len(s) \in Nat
      /\ DOMAIN s = 1 .. Len(s) /\ DOMAIN t = 1 .. Len(s) + 1
      /\ \A k \in 1 .. Len(s) : t[k] = s[k]
      /\ t[Len(s) + 1] = e
  BY DEF Program
<1> HIDE DEF t
<1>2. ASSUME NEW n \in Symbols, NEW j \in DOMAIN t, NEW k \in DOMAIN t,
             t[j] = Definition(n), t[k] = Definition(n)
      PROVE  j = k
  <2>1. \A i \in DOMAIN t : i \in 1 .. Len(s) \/ i = Len(s) + 1
    BY <1>1
  <2>2. \A i \in 1 .. Len(s) : s[i] = Definition(n) => e # Definition(n)
    BY <1>1 DEF LabelsOf
  <2>3. j \in 1 .. Len(s) /\ k \in 1 .. Len(s) => j = k
    BY <1>1, <1>2 DEF Program
  <2>. QED
    BY <1>1, <1>2, <2>1, <2>2, <2>3
<1>. QED
  BY <1>1, <1>2 DEF Grows, Program, t

LEMMA InitInv == Init => IInv
<1> SUFFICES ASSUME Init
             PROVE  IInv
  OBVIOUS
<1>1. Program(source) /\ DOMAIN source = {} /\ Len(source) = 0
  BY DEF Init, Program
<1>2. LabelsOf(source) = {} /\ All(source) = {}
  BY <1>1 DEF LabelsOf, All, VariablesOf
<1>3. Instructions(source) = 0
  BY <1>1, FS_EmptySet DEF Instructions
<1>4. Cardinality(All(source)) = 0
  BY <1>2, FS_EmptySet
<1>5. RegisterCount \in Nat /\ next_var_index = RegisterCount
  BY AssemblerAssumption DEF Init
<1>6. /\ \A n \in Symbols : n \notin DOMAIN index_mapping
      /\ DOMAIN index_mapping_inverse = 0 .. RegisterCount - 1
  BY AssemblerAssumption DEF Init
<1>7. Assigned(source, index_mapping, index_mapping_inverse, next_var_index)
  BY <1>2, <1>4, <1>5, <1>6 DEF Assigned
<1>8. a_instruction = <<>> /\ loc = 0
  BY DEF Init
<1>. QED
  BY <1>1, <1>3, <1>7, <1>8 DEF IInv

\* A line that is read: what holds whatever the maps do.
LEMMA SourceGrows ==
  ASSUME IInv, NEW e \in Lines, Grows(source, e, source')
  PROVE  /\ Program(source')
         /\ Instructions(source') = loc + IF e.kind = "label" THEN 0 ELSE 1
         /\ \A i \in DOMAIN a_instruction : a_instruction[i].name \in UsedIn(source')
         /\ ApartIn(source') => Assigned(source, index_mapping, index_mapping_inverse, next_var_index)
<1>1. Program(source')
  BY DEF Grows
<1>2. Instructions(source') = loc + IF e.kind = "label" THEN 0 ELSE 1
  BY InstructionsAppend DEF IInv
<1>3. UsedIn(source) \subseteq UsedIn(source')
  BY UsedGrow
<1>4. ApartIn(source') => ApartIn(source)
  BY LabelsKept
<1>. QED
  BY <1>1, <1>2, <1>3, <1>4 DEF IInv

LEMMA VariableStep ==
  ASSUME IInv, Variable
  PROVE  IInv'
<1>1. PICK n \in Symbols : /\ source' = Append(source, Address(n))
                           /\ Allocate(n) \/ Known(n)
                           /\ a_instruction' = Append(a_instruction, [loc |-> loc, name |-> n])
                           /\ loc' = loc + 1
  BY DEF Variable, Read, Address
<1>2. Address(n) \in Lines /\ Address(n).kind = "address" /\ \A l : Address(n) # Definition(l)
  BY LineTypes, LineKinds
<1>3. Grows(source, Address(n), source')
  BY <1>1, <1>2, GrowsBy DEF IInv
<1>4. /\ Program(source')
      /\ Instructions(source') = loc + 1
      /\ \A i \in DOMAIN a_instruction : a_instruction[i].name \in UsedIn(source')
      /\ ApartIn(source') => Assigned(source, index_mapping, index_mapping_inverse, next_var_index)
  BY <1>2, <1>3, SourceGrows
<1>5. /\ a_instruction' \in Seq([loc : Nat, name : Symbols])
      /\ \A i \in DOMAIN a_instruction' : a_instruction'[i].name \in UsedIn(source')
  <2>1. n \in UsedIn(source')
    BY <1>3, UsedGrow
  <2>2. loc \in Nat /\ a_instruction \in Seq([loc : Nat, name : Symbols])
    BY <1>3, InstructionsAppend DEF IInv
  <2> DEFINE a == [loc |-> loc, name |-> n]
  <2>3. a \in [loc : Nat, name : Symbols] /\ a.name = n
    BY <2>2
  <2> HIDE DEF a
  <2>4. /\ a_instruction' = Append(a_instruction, a)
        /\ DOMAIN a_instruction' = 1 .. Len(a_instruction) + 1
        /\ DOMAIN a_instruction = 1 .. Len(a_instruction)
        /\ \A i \in 1 .. Len(a_instruction) : a_instruction'[i] = a_instruction[i]
        /\ a_instruction'[Len(a_instruction) + 1] = a
    <3>1. a_instruction' = Append(a_instruction, a)
      BY <1>1 DEF a
    <3>. QED
      BY <2>2, <2>3, <3>1
  <2>5. a_instruction' \in Seq([loc : Nat, name : Symbols])
    BY <2>2, <2>3, <2>4
  <2>. QED
    BY <1>4, <2>1, <2>2, <2>3, <2>4, <2>5
<1>6. ASSUME ApartIn(source')
      PROVE  Assigned(source', index_mapping', index_mapping_inverse', next_var_index')
  <2>1. Assigned(source, index_mapping, index_mapping_inverse, next_var_index)
    BY <1>4, <1>6
  <2>2. n \in DOMAIN index_mapping <=> n \in All(source) \cup LabelsOf(source)
    BY <2>1 DEF Assigned
  <2>3. CASE Allocate(n)
    BY <1>3, <1>6, <2>1, <2>2, <2>3, AssignedAllocate DEF Allocate
  <2>4. CASE Known(n)
    <3>1. n \in All(source) \cup LabelsOf(source)
      BY <2>2, <2>4 DEF Known
    <3>2. LabelsOf(source') = LabelsOf(source)
      <4>1. \A l \in LabelsOf(source) : l \in LabelsOf(source')
        BY <1>3, LabelsKept
      <4>2. \A l \in LabelsOf(source') : l \in LabelsOf(source) \/ Address(n) = Definition(l)
        BY <1>3, LabelsKept
      <4>. QED
        BY <1>2, <4>1, <4>2
    <3>3. All(source') = All(source)
      <4>1. \A l : l \in All(source') <=>
                   /\ l \notin LabelsOf(source')
                   /\ l \in All(source) \/ (l \in Symbols /\ Address(n) = Address(l))
        BY <1>3, <3>2, AllGrow
      <4>. QED
        BY <3>1, <3>2, <4>1, LineKinds, Disjointness
    <3>4. Assigned(source', index_mapping, index_mapping_inverse, next_var_index)
      BY <1>3, <2>1, <3>2, <3>3, AssignedKept
    <3>. QED
      BY <2>4, <3>4 DEF Known
  <2>. QED
    BY <1>1, <2>3, <2>4
<1>. QED
  BY <1>1, <1>4, <1>5, <1>6 DEF IInv

LEMMA ComputeStep ==
  ASSUME IInv, Compute
  PROVE  IInv'
<1> DEFINE e == [kind |-> "compute"]
<1>1. /\ source' = Append(source, e) /\ loc' = loc + 1 /\ a_instruction' = a_instruction
      /\ index_mapping' = index_mapping /\ index_mapping_inverse' = index_mapping_inverse
      /\ next_var_index' = next_var_index
  BY DEF Compute, Read
<1>2. e \in Lines /\ e.kind = "compute" /\ \A l : e # Definition(l) /\ e # Address(l)
  <2>1. \A l : Definition(l).kind = "label" /\ Address(l).kind = "address"
    BY DEF Definition, Address
  <2>2. e \in Lines /\ e.kind = "compute"
    BY DEF Lines
  <2> HIDE DEF e
  <2>. QED
    BY <2>1, <2>2
<1> HIDE DEF e
<1>3. Grows(source, e, source')
  BY <1>1, <1>2, GrowsBy DEF IInv
<1>4. /\ Program(source')
      /\ Instructions(source') = loc + 1
      /\ \A i \in DOMAIN a_instruction : a_instruction[i].name \in UsedIn(source')
      /\ ApartIn(source') => Assigned(source, index_mapping, index_mapping_inverse, next_var_index)
  BY <1>2, <1>3, SourceGrows
<1>5. LabelsOf(source') = LabelsOf(source)
  <2>1. \A l \in LabelsOf(source) : l \in LabelsOf(source')
    BY <1>3, LabelsKept
  <2>2. \A l \in LabelsOf(source') : l \in LabelsOf(source) \/ e = Definition(l)
    BY <1>3, LabelsKept
  <2>. QED
    BY <1>2, <2>1, <2>2
<1>6. All(source') = All(source)
  <2>1. \A l : l \in All(source') <=>
               /\ l \notin LabelsOf(source')
               /\ l \in All(source) \/ (l \in Symbols /\ e = Address(l))
    BY <1>3, <1>5, AllGrow
  <2>. QED
    BY <1>2, <1>5, <2>1, Disjointness
<1>7. ApartIn(source') => Assigned(source', index_mapping, index_mapping_inverse, next_var_index)
  BY <1>3, <1>4, <1>5, <1>6, AssignedKept
<1>. QED
  BY <1>1, <1>4, <1>7 DEF IInv

LEMMA LabelStep ==
  ASSUME IInv, Label
  PROVE  IInv'
<1>1. PICK n \in Symbols \ LabelsOf(source) :
         /\ source' = Append(source, Definition(n))
         /\ DefineNew(n) \/ DefineForward(n)
         /\ a_instruction' = a_instruction /\ loc' = loc
  BY DEF Label, Read, Definition, Labels, LabelsOf
<1>2. Definition(n) \in Lines /\ Definition(n).kind = "label"
      /\ \A l \in LabelsOf(source) : Definition(n) # Definition(l)
  BY LineTypes, LineKinds
<1>3. Grows(source, Definition(n), source')
  BY <1>1, <1>2, GrowsBy DEF IInv
<1>4. /\ Program(source')
      /\ Instructions(source') = loc + 0
      /\ \A i \in DOMAIN a_instruction : a_instruction[i].name \in UsedIn(source')
      /\ ApartIn(source') => Assigned(source, index_mapping, index_mapping_inverse, next_var_index)
  BY <1>2, <1>3, SourceGrows
<1>5. loc = Instructions(source) /\ loc \in Nat
  BY <1>3, InstructionsAppend DEF IInv
<1>6. ASSUME ApartIn(source')
      PROVE  Assigned(source', index_mapping', index_mapping_inverse', next_var_index')
  <2>1. Assigned(source, index_mapping, index_mapping_inverse, next_var_index)
    BY <1>4, <1>6
  <2>2. n \in DOMAIN index_mapping <=> n \in All(source)
    BY <2>1 DEF Assigned
  <2>3. CASE DefineNew(n)
    BY <1>3, <1>5, <1>6, <2>1, <2>2, <2>3, AssignedDefineNew DEF DefineNew
  <2>4. CASE DefineForward(n)
    <3> DEFINE marked == Marked(index_mapping, index_mapping_inverse, n)
               index == index_mapping[n]
               last == RunEnd(marked, index)
    <3>1. n \in All(source)
      BY <2>2, <2>4 DEF DefineForward
    <3>2. /\ Without(n).mapping = MappingWithout(index_mapping, marked, index, last)
          /\ Without(n).inverse = InverseWithout(marked, index, last)
      BY DEF Without, MappingWithout, InverseWithout, Moved, Marked
    <3> HIDE DEF marked, index, last
    <3>3. Assigned(source',
                   Bind(MappingWithout(index_mapping, marked, index, last), n, Instructions(source)),
                   Bind(InverseWithout(marked, index, last), Instructions(source), n),
                   next_var_index - 1)
      BY <1>3, <1>6, <2>1, <3>1, AssignedDefineForward DEF marked, index, last
    <3>. QED
      BY <1>5, <2>4, <3>2, <3>3 DEF DefineForward
  <2>. QED
    BY <1>1, <2>3, <2>4
<1>. QED
  BY <1>1, <1>4, <1>5, <1>6 DEF IInv

LEMMA InvStep == IInv /\ [Next]_vars => IInv'
<1> SUFFICES ASSUME IInv, [Next]_vars
             PROVE  IInv'
  OBVIOUS
<1>1. CASE EndOfFile
  BY <1>1 DEF EndOfFile, IInv
<1>2. CASE UNCHANGED vars
  BY <1>2 DEF vars, IInv
<1>. QED
  BY <1>1, <1>2, VariableStep, ComputeStep, LabelStep DEF Next

LEMMA Invariance == Spec => []IInv
BY InitInv, InvStep, PTL DEF Spec

\* What the properties speak of is what the lemmas speak of.
LEMMA SameMeaning ==
  /\ Labels = LabelsOf(source)
  /\ Variables(Len(source)) = All(source)
  /\ \A n : LabelAddress(n) = Place(source, n)
  /\ \A n : n \notin Labels => AddressOf(n) = Rank(source, n)
  /\ \A n \in Labels : AddressOf(n) = Place(source, n)
  /\ Apart <=> ApartIn(source)
<1>1. Labels = LabelsOf(source)
  BY DEF Labels, LabelsOf, Definition
<1>2. \A k : Variables(k) = VariablesOf(source, k)
  BY <1>1 DEF Variables, VariablesOf, Address
<1>3. \A n : FirstUse(n) = FirstLine(source, n)
  BY DEF FirstUse, FirstLine, Address
<1>4. \A n : LabelLine(n) = LineOf(source, n)
  BY DEF LabelLine, LineOf, Definition
<1>5. \A n : LabelAddress(n) = Place(source, n)
  BY <1>4 DEF LabelAddress, Place
<1>6. \A n : n \notin Labels => AddressOf(n) = Rank(source, n)
  BY <1>2, <1>3 DEF AddressOf, Rank
<1>. QED
  BY <1>1, <1>2, <1>5, <1>6 DEF All, AddressOf, Apart, ApartIn

-----------------------------------------------------------------------------
\* Every program whose labels lie clear of the variables gets from one pass the
\* addresses two passes give it, in whatever order its names are used and defined.
THEOREM AlwaysResolved == Spec => []ResolvedApart
<1>1. IInv => ResolvedApart
  <2> SUFFICES ASSUME IInv, Apart, NEW i \in DOMAIN a_instruction
               PROVE  to_instructions[i] = AddressOf(a_instruction[i].name)
    BY DEF ResolvedApart, Resolved
  <2> DEFINE n == a_instruction[i].name
  <2>1. Assigned(source, index_mapping, index_mapping_inverse, next_var_index)
    BY SameMeaning DEF IInv
  <2>2. to_instructions[i] = index_mapping[n]
    BY DEF to_instructions
  <2>3. n \in UsedIn(source) /\ source \in Seq(Lines)
    BY DEF IInv, Program
  <2> HIDE DEF n
  <2>4. n \in All(source) \/ n \in LabelsOf(source)
    BY <2>3 DEF UsedIn, All, VariablesOf
  <2>5. CASE n \in LabelsOf(source)
    BY <2>1, <2>2, <2>5, SameMeaning DEF Assigned, n
  <2>6. CASE n \in All(source) /\ n \notin LabelsOf(source)
    BY <2>1, <2>2, <2>6, SameMeaning DEF Assigned, n
  <2>. QED
    BY <2>4, <2>5, <2>6
<1>. QED
  BY <1>1, Invariance, PTL

\* No two variables of such a program share an address, and none of them is a register.
THEOREM AlwaysDistinct == Spec => []VariablesDistinct
<1>1. IInv => VariablesDistinct
  <2> SUFFICES ASSUME IInv, Apart, NEW m \in All(source), NEW n \in All(source)
               PROVE  /\ index_mapping[n] \in RegisterCount .. next_var_index - 1
                      /\ index_mapping[m] = index_mapping[n] => m = n
    BY SameMeaning DEF VariablesDistinct
  <2>1. Assigned(source, index_mapping, index_mapping_inverse, next_var_index)
    BY SameMeaning DEF IInv
  <2>2. Rank(source, n) \in RegisterCount .. RegisterCount + Cardinality(All(source)) - 1
    BY RankRange DEF IInv, Program
  <2>3. next_var_index = RegisterCount + Cardinality(All(source))
    BY <2>1 DEF Assigned
  <2>4. Rank(source, n) \in RegisterCount .. next_var_index - 1
    BY <2>2, <2>3, AllFinite, AssemblerAssumption
  <2>. QED
    BY <2>1, <2>4 DEF Assigned
<1>. QED
  BY <1>1, Invariance, PTL

\* A label of such a program keeps its address: what is moved when a label is taken out
\* of the variables are the variables behind it and nothing else (assembler.hpp:386-387).
THEOREM LabelsStayApart == Spec => [](Apart => LabelsStay)
<1>1. IInv => (Apart => LabelsStay)
  BY SameMeaning DEF IInv, Assigned, LabelsStay
<1>. QED
  BY <1>1, Invariance, PTL
=============================================================================
