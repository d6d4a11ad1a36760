--------------------------- MODULE HdlCompilerProofs ---------------------------
(***************************************************************************)
(* What is proved of the HDL parser, for every source and all chips it may *)
(* use. A source is in order while the chip is declared before its parts,  *)
(* has not too many inputs and gave no error. Then the parser counts pins  *)
(* as the gate will, a signal stands for the pin that mentioned it first,  *)
(* and whatever mentions it later is linked to that pin: so the wires join *)
(* what the source joins, and carry each signal from its driver.           *)
(***************************************************************************)
EXTENDS HdlCompiler, NatInduction

-----------------------------------------------------------------------------
(* The pins that numbers are, as the chip and its parts grow. *)

\* The pin that a number is, in a chip with a inputs, b outputs and those pins of parts.
Place(a, p, b, q, n) ==
  IF n < INPUT_PIN_LIMIT
  THEN IF n < a THEN <<0, "in", n>> ELSE IF n - a < Len(p) THEN p[n - a + 1] ELSE <<>>
  ELSE LET o == n - INPUT_PIN_LIMIT
       IN  IF o < b THEN <<0, "out", o>> ELSE IF o - b < Len(q) THEN q[o - b + 1] ELSE <<>>

\* One side grows by pins of parts, or by pins of the chip while there are no parts.
SideGrows(a, p, a2, p2) ==
  \/ a2 = a /\ Len(p) <= Len(p2) /\ \A k \in 1 .. Len(p) : p2[k] = p[k]
  \/ a <= a2 /\ Len(p) = 0

Sides(S, a, p, b, q) == a \in Nat /\ p \in Seq(S) /\ b \in Nat /\ q \in Seq(S)

LEMMA PlacesStay ==
  ASSUME NEW S, NEW a, NEW p, NEW b, NEW q, NEW a2, NEW p2, NEW b2, NEW q2,
         Sides(S, a, p, b, q), Sides(S, a2, p2, b2, q2),
         SideGrows(a, p, a2, p2), SideGrows(b, q, b2, q2)
  PROVE  \A n \in Nat : Place(a, p, b, q, n) # <<>> => Place(a2, p2, b2, q2, n) = Place(a, p, b, q, n)
<1> SUFFICES ASSUME NEW n \in Nat, Place(a, p, b, q, n) # <<>>
             PROVE  Place(a2, p2, b2, q2, n) = Place(a, p, b, q, n)
  OBVIOUS
<1>0. /\ a \in Nat /\ p \in Seq(S) /\ b \in Nat /\ q \in Seq(S)
      /\ a2 \in Nat /\ p2 \in Seq(S) /\ b2 \in Nat /\ q2 \in Seq(S)
  BY DEF Sides
<1>1. CASE n < INPUT_PIN_LIMIT
  <2>1. CASE n < a
    <3>1. n < a2
      BY <1>0, <2>1 DEF SideGrows
    <3>. QED
      BY <1>0, <1>1, <2>1, <3>1 DEF Place
  <2>2. CASE ~(n < a)
    <3>1. n - a < Len(p) /\ Place(a, p, b, q, n) = p[n - a + 1]
      BY <1>0, <1>1, <2>2 DEF Place
    <3>2. a2 = a /\ Len(p) <= Len(p2) /\ \A k \in 1 .. Len(p) : p2[k] = p[k]
      BY <1>0, <2>2, <3>1 DEF SideGrows
    <3>3. n - a + 1 \in 1 .. Len(p) /\ n - a < Len(p2)
      BY <1>0, <2>2, <3>1, <3>2
    <3>. QED
      BY <1>0, <1>1, <2>2, <3>1, <3>2, <3>3 DEF Place
  <2>. QED
    BY <2>1, <2>2
<1>2. CASE ~(n < INPUT_PIN_LIMIT)
  <2>0. PICK o \in Nat : o = n - INPUT_PIN_LIMIT
    BY <1>2, PinLimitAssumption
  <2>1. CASE o < b
    <3>1. o < b2
      BY <1>0, <2>1 DEF SideGrows
    <3>. QED
      BY <1>0, <1>2, <2>0, <2>1, <3>1 DEF Place
  <2>2. CASE ~(o < b)
    <3>1. o - b < Len(q) /\ Place(a, p, b, q, n) = q[o - b + 1]
      BY <1>0, <1>2, <2>0, <2>2 DEF Place
    <3>2. b2 = b /\ Len(q) <= Len(q2) /\ \A k \in 1 .. Len(q) : q2[k] = q[k]
      BY <1>0, <2>2, <3>1 DEF SideGrows
    <3>3. o - b + 1 \in 1 .. Len(q) /\ o - b < Len(q2)
      BY <1>0, <2>2, <3>1, <3>2
    <3>. QED
      BY <1>0, <1>2, <2>0, <2>2, <3>1, <3>2, <3>3 DEF Place
  <2>. QED
    BY <2>1, <2>2
<1>. QED
  BY <1>1, <1>2

-----------------------------------------------------------------------------
(* The mentions S of signals, their numbers N, the linkages L, and the pins P that numbers are. *)

\* A linkage is a mention by a part.
Leads(P, l, m) ==
  /\ l[1] = m.signal /\ P[l[2]] = m.pin
  /\ l[3] <=> m.pin[2] = "out"
  /\ m.pin[1] > 0

\* A known signal stands for a pin that mentions it.
KnownBy(S, N, P) ==
  /\ \A m \in DOMAIN S : S[m].signal \in DOMAIN N
  /\ \A s \in DOMAIN N : \E m \in DOMAIN S : S[m].signal = s /\ P[N[s]] = S[m].pin

LinkedBy(S, L, P) == \A k \in DOMAIN L : \E m \in DOMAIN S : Leads(P, L[k], S[m])

\* A signal stands for the pin that mentioned it first, to which all others are linked.
IsFirst(S, f) == \A n \in DOMAIN S : S[n].signal = S[f].signal => f <= n
NeverWhole(S, s) == \A m \in DOMAIN S : S[m].signal = s => ~S[m].whole

FirstOfAll(S, N, L, P, f) ==
  /\ P[N[S[f].signal]] = S[f].pin
  /\ \A m \in DOMAIN S : S[m].signal = S[f].signal /\ m # f => \E k \in DOMAIN L : Leads(P, L[k], S[m])

ToldBy(S, N, L, P) ==
  \A f \in DOMAIN S :
    IsFirst(S, f) /\ (S[f].whole \/ NeverWhole(S, S[f].signal)) => FirstOfAll(S, N, L, P, f)

Grows(A, B, p, q) ==
  /\ p \in Nat /\ q \in Nat /\ p <= q
  /\ DOMAIN A = 1 .. p /\ DOMAIN B = 1 .. q
  /\ \A m \in 1 .. p : B[m] = A[m]

\* The new mentions make their signals known, which nothing else mentioned, or never as a whole.
Fresh(S, S2, N, N2, P2, p, q) ==
  /\ DOMAIN N2 = DOMAIN N \cup {S2[m].signal : m \in p + 1 .. q}
  /\ \A m \in p + 1 .. q : P2[N2[S2[m].signal]] = S2[m].pin
  /\ \A s \in DOMAIN N : (\A m \in p + 1 .. q : S2[m].signal # s) => N2[s] = N[s]
  /\ \A m, n \in p + 1 .. q : S2[m].signal = S2[n].signal => m = n
  /\ \A m \in 1 .. p, n \in p + 1 .. q : S[m].signal = S2[n].signal => S2[n].whole /\ ~S[m].whole

\* The signals of the new mentions are known, and they are linked.
Later(S2, N, N2, L2, P2, p, q) ==
  /\ N2 = N
  /\ \A m \in p + 1 .. q : S2[m].signal \in DOMAIN N /\ \E k \in DOMAIN L2 : Leads(P2, L2[k], S2[m])

\* What is said of the names is said of them with the new mentions.
LEMMA NamesKept ==
  ASSUME NEW S, NEW S2, NEW N, NEW N2, NEW L, NEW L2, NEW P, NEW P2, NEW p, NEW q, NEW i, NEW j,
         Grows(S, S2, p, q), Grows(L, L2, i, j),
         \A m \in DOMAIN S : S[m].pin # <<>>,
         \A k \in DOMAIN L : L[k][2] \in Nat, 
         \A s \in DOMAIN N : N[s] \in Nat,
         \A n \in Nat : P[n] # <<>> => P2[n] = P[n],
         KnownBy(S, N, P), LinkedBy(S, L, P), ToldBy(S, N, L, P),
         \A k \in i + 1 .. j : \E m \in p + 1 .. q : Leads(P2, L2[k], S2[m]),
         Fresh(S, S2, N, N2, P2, p, q) \/ Later(S2, N, N2, L2, P2, p, q)
  PROVE  KnownBy(S2, N2, P2) /\ LinkedBy(S2, L2, P2) /\ ToldBy(S2, N2, L2, P2)
<1>1. /\ p \in Nat /\ q \in Nat /\ i \in Nat /\ j \in Nat /\ p <= q /\ i <= j
      /\ DOMAIN S = 1 .. p /\ DOMAIN S2 = 1 .. q /\ DOMAIN L = 1 .. i /\ DOMAIN L2 = 1 .. j
      /\ \A m \in 1 .. p : S2[m] = S[m]
      /\ \A k \in 1 .. i : L2[k] = L[k]
  BY DEF Grows
<1>2. \A m \in 1 .. p : m \in 1 .. q
  BY <1>1
<1>3. \A k \in 1 .. i : k \in 1 .. j
  BY <1>1
<1>4. \A m \in p + 1 .. q : m \in 1 .. q /\ m \notin 1 .. p /\ m \in Nat
  BY <1>1
<1>5. \A m \in 1 .. q : m \in 1 .. p \/ m \in p + 1 .. q
  BY <1>1
<1>6. \A k \in 1 .. j : k \in 1 .. i \/ k \in i + 1 .. j
  BY <1>1
<1>7. ASSUME NEW l, NEW m \in 1 .. p, l[2] \in Nat, Leads(P, l, S[m])
      PROVE  Leads(P2, l, S2[m])
  BY <1>1, <1>7 DEF Leads
<1>8. LinkedBy(S2, L2, P2)
  <2> SUFFICES ASSUME NEW k \in 1 .. j
               PROVE  \E m \in 1 .. q : Leads(P2, L2[k], S2[m])
    BY <1>1 DEF LinkedBy
  <2>1. CASE k \in 1 .. i
    <3>1. PICK m \in 1 .. p : Leads(P, L[k], S[m])
      BY <1>1, <2>1 DEF LinkedBy
    <3>2. L[k][2] \in Nat /\ L2[k] = L[k]
      BY <1>1, <2>1
    <3>3. Leads(P2, L2[k], S2[m])
      BY <1>7, <3>1, <3>2
    <3>. QED
      BY <1>2, <3>3
  <2>2. CASE k \in i + 1 .. j
    BY <1>4, <2>2
  <2>. QED
    BY <1>6, <2>1, <2>2
<1>9. \A s \in DOMAIN N : \E m \in 1 .. p : S[m].signal = s /\ P[N[s]] = S[m].pin /\ P2[N[s]] = S2[m].pin
  <2> SUFFICES ASSUME NEW s \in DOMAIN N
               PROVE  \E m \in 1 .. p : S[m].signal = s /\ P[N[s]] = S[m].pin /\ P2[N[s]] = S2[m].pin
    OBVIOUS
  <2>1. PICK m \in 1 .. p : S[m].signal = s /\ P[N[s]] = S[m].pin
    BY <1>1 DEF KnownBy
  <2>2. S[m].pin # <<>> /\ N[s] \in Nat /\ S2[m] = S[m]
    BY <1>1
  <2>. QED
    BY <2>1, <2>2
<1>10. KnownBy(S2, N2, P2)
  <2>1. CASE Fresh(S, S2, N, N2, P2, p, q)
    <3>1. ASSUME NEW m \in 1 .. q
          PROVE  S2[m].signal \in DOMAIN N2
      <4>1. CASE m \in 1 .. p
        BY <1>1, <2>1, <4>1 DEF Fresh, KnownBy
      <4>2. CASE m \in p + 1 .. q
        BY <2>1, <4>2 DEF Fresh
      <4>. QED
        BY <1>5, <4>1, <4>2
    <3>2. ASSUME NEW s \in DOMAIN N2
          PROVE  \E m \in 1 .. q : S2[m].signal = s /\ P2[N2[s]] = S2[m].pin
      <4>1. CASE \E m \in p + 1 .. q : S2[m].signal = s
        BY <1>4, <2>1, <4>1 DEF Fresh
      <4>2. CASE \A m \in p + 1 .. q : S2[m].signal # s
        <5>1. s \in DOMAIN N /\ N2[s] = N[s]
          BY <2>1, <4>2 DEF Fresh
        <5>. QED
          BY <1>1, <1>2, <1>9, <5>1
      <4>. QED
        BY <4>1, <4>2
    <3>. QED
      BY <1>1, <3>1, <3>2 DEF KnownBy
  <2>2. CASE Later(S2, N, N2, L2, P2, p, q)
    <3>1. ASSUME NEW m \in 1 .. q
          PROVE  S2[m].signal \in DOMAIN N
      <4>1. CASE m \in 1 .. p
        BY <1>1, <4>1 DEF KnownBy
      <4>2. CASE m \in p + 1 .. q
        BY <2>2, <4>2 DEF Later
      <4>. QED
        BY <1>5, <4>1, <4>2
    <3>2. ASSUME NEW s \in DOMAIN N
          PROVE  \E m \in 1 .. q : S2[m].signal = s /\ P2[N[s]] = S2[m].pin
      BY <1>1, <1>2, <1>9
    <3>3. N2 = N
      BY <2>2 DEF Later
    <3>4. \A m \in 1 .. q : S2[m].signal \in DOMAIN N2
      BY <3>1, <3>3
    <3>5. \A s \in DOMAIN N2 : \E m \in 1 .. q : S2[m].signal = s /\ P2[N2[s]] = S2[m].pin
      BY <3>2, <3>3
    <3>. QED
      BY ONLY <1>1, <3>4, <3>5 DEF KnownBy
  <2>. QED
    BY <2>1, <2>2
<1>11. ASSUME NEW f \in 1 .. q, IsFirst(S2, f), S2[f].whole \/ NeverWhole(S2, S2[f].signal)
       PROVE  FirstOfAll(S2, N2, L2, P2, f)
  <2>1. CASE f \in 1 .. p
    <3>1. S2[f] = S[f] /\ S[f].pin # <<>> /\ f \in 1 .. q
      BY <1>1, <1>2, <2>1
    <3>2. IsFirst(S, f)
      BY <1>1, <1>2, <1>11, <2>1 DEF IsFirst
    <3>3. S[f].whole \/ NeverWhole(S, S[f].signal)
      BY <1>1, <1>2, <1>11, <3>1 DEF NeverWhole
    <3>4. FirstOfAll(S, N, L, P, f)
      BY <1>1, <2>1, <3>2, <3>3 DEF ToldBy
    <3>5. S[f].signal \in DOMAIN N /\ N[S[f].signal] \in Nat
      BY <1>1, <2>1 DEF KnownBy
    <3>6. P2[N[S[f].signal]] = S[f].pin
      BY <3>1, <3>4, <3>5 DEF FirstOfAll
    <3>7. ASSUME NEW m \in 1 .. p, S[m].signal = S[f].signal, m # f
          PROVE  \E k \in 1 .. j : Leads(P2, L2[k], S2[m])
      <4>1. PICK k \in 1 .. i : Leads(P, L[k], S[m])
        BY <1>1, <3>4, <3>7 DEF FirstOfAll
      <4>2. L2[k] = L[k] /\ L[k][2] \in Nat
        BY <1>1
      <4>3. Leads(P2, L2[k], S2[m])
        BY <1>7, <4>1, <4>2
      <4>. QED
        BY <1>3, <4>3
    <3>8. CASE Later(S2, N, N2, L2, P2, p, q)
      <4>1. N2 = N
        BY <3>8 DEF Later
      <4>2. ASSUME NEW m \in 1 .. q, S2[m].signal = S2[f].signal, m # f
            PROVE  \E k \in 1 .. j : Leads(P2, L2[k], S2[m])
        <5>1. CASE m \in 1 .. p
          BY <1>1, <3>1, <3>7, <4>2, <5>1
        <5>2. CASE m \in p + 1 .. q
          BY <1>1, <3>8, <5>2 DEF Later
        <5>. QED
          BY <1>5, <5>1, <5>2
      <4>. QED
        BY <1>1, <3>1, <3>6, <4>1, <4>2 DEF FirstOfAll
    <3>9. CASE Fresh(S, S2, N, N2, P2, p, q)
      <4>1. ASSUME NEW m \in p + 1 .. q, S2[m].signal = S[f].signal
            PROVE  FALSE
        <5>1. S2[m].whole /\ ~S[f].whole
          BY <2>1, <3>9, <4>1 DEF Fresh
        <5>2. ~NeverWhole(S2, S2[f].signal)
          BY <1>1, <1>4, <3>1, <4>1, <5>1 DEF NeverWhole
        <5>. QED
          BY <1>11, <3>1, <5>1, <5>2
      <4>2. N2[S[f].signal] = N[S[f].signal]
        BY <3>5, <3>9, <4>1 DEF Fresh
      <4>3. ASSUME NEW m \in 1 .. q, S2[m].signal = S2[f].signal, m # f
            PROVE  \E k \in 1 .. j : Leads(P2, L2[k], S2[m])
        <5>1. CASE m \in 1 .. p
          BY <1>1, <3>1, <3>7, <4>3, <5>1
        <5>2. CASE m \in p + 1 .. q
          BY <3>1, <4>1, <4>3, <5>2
        <5>. QED
          BY <1>5, <5>1, <5>2
      <4>. QED
        BY <1>1, <3>1, <3>6, <4>2, <4>3 DEF FirstOfAll
    <3>. QED
      BY <3>8, <3>9
  <2>2. CASE f \in p + 1 .. q
    <3>1. \A n \in 1 .. p : S[n].signal # S2[f].signal
      <4> SUFFICES ASSUME NEW n \in 1 .. p, S[n].signal = S2[f].signal
                   PROVE  FALSE
        OBVIOUS
      <4>1. n \in 1 .. q /\ S2[n] = S[n] /\ n < f
        BY <1>1, <1>2, <2>2
      <4>2. f <= n
        BY <1>1, <1>11, <4>1 DEF IsFirst
      <4>. QED
        BY <1>1, <2>2, <4>1, <4>2
    <3>2. CASE Later(S2, N, N2, L2, P2, p, q)
      <4>1. S2[f].signal \in DOMAIN N
        BY <2>2, <3>2 DEF Later
      <4>. QED
        BY <1>9, <3>1, <4>1
    <3>3. CASE Fresh(S, S2, N, N2, P2, p, q)
      <4>1. P2[N2[S2[f].signal]] = S2[f].pin
        BY <2>2, <3>3 DEF Fresh
      <4>2. ASSUME NEW m \in 1 .. q, S2[m].signal = S2[f].signal, m # f
            PROVE  FALSE
        <5>1. CASE m \in 1 .. p
          BY <1>1, <3>1, <4>2, <5>1
        <5>2. CASE m \in p + 1 .. q
          BY <2>2, <3>3, <4>2, <5>2 DEF Fresh
        <5>. QED
          BY <1>5, <5>1, <5>2
      <4>. QED
        BY <1>1, <4>1, <4>2 DEF FirstOfAll
    <3>. QED
      BY <3>2, <3>3
  <2>. QED
    BY <1>5, <2>1, <2>2
<1>12. ToldBy(S2, N2, L2, P2)
  BY <1>1, <1>11 DEF ToldBy
<1>. QED
  BY <1>8, <1>10, <1>12

-----------------------------------------------------------------------------
(* The pins of the parts, one part after another. *)

\* The names of a side of a chip are a sequence.
Listed(names) == \A c \in DOMAIN Chips : Len(names[c]) \in Nat /\ DOMAIN names[c] = 1 .. Len(names[c])

PartPins(parts, side, names) == [n \in 1 .. Len(parts) |-> PinsOfPart(n, parts[n], side, names)]

\* The pins on one side of a part.
PartAt(pins, size, n, side) ==
  /\ pins \in Seq(Recipe!Pin) /\ Len(pins) = size
  /\ \A k \in 1 .. size : pins[k] = <<n, side, k - 1>>

LEMMA PinsOfChip ==
  ASSUME NEW n \in Nat, NEW chip \in DOMAIN Chips, NEW side \in {"in", "out"}, NEW names, Listed(names)
  PROVE  PartAt(PinsOfPart(n, chip, side, names), Len(names[chip]), n, side)
<1>1. PICK N, p, S : N = Len(names[chip]) /\ p = PinsOfPart(n, chip, side, names) /\ S = Recipe!Pin
  OBVIOUS
<1>2. N \in Nat /\ p = [k \in 1 .. N |-> <<n, side, k - 1>>]
  BY <1>1 DEF PinsOfPart, Listed
<1>3. \A k \in 1 .. N : <<n, side, k - 1>> \in S
  BY <1>1, <1>2 DEF Recipe!Pin
<1>4. p \in Seq(S) /\ Len(p) = N /\ \A k \in 1 .. N : p[k] = <<n, side, k - 1>>
  BY ONLY <1>2, <1>3
<1>. QED
  BY <1>1, <1>4 DEF PartAt

LEMMA PinsOfPartTyped ==
  ASSUME NEW n \in Nat, NEW part, NEW side \in {"in", "out"}, NEW names, Listed(names)
  PROVE  PinsOfPart(n, part, side, names) \in Seq(Recipe!Pin)
<1>1. CASE part \notin DOMAIN Chips
  BY <1>1 DEF PinsOfPart
<1>2. CASE part \in DOMAIN Chips
  BY <1>2, PinsOfChip DEF PartAt
<1>. QED
  BY <1>1, <1>2

LEMMA PinsJoined ==
  ASSUME NEW parts, Len(parts) \in Nat, NEW side \in {"in", "out"}, NEW names, Listed(names)
  PROVE  Joins(Recipe!Pin, Len(parts), PinsUpTo(parts, side, names), PartPins(parts, side, names))
<1>1. PICK N, whole, pins, S :
        /\ N = Len(parts) /\ whole = PinsUpTo(parts, side, names)
        /\ pins = PartPins(parts, side, names) /\ S = Recipe!Pin
  OBVIOUS
<1>2. N \in Nat
  BY <1>1
<1>3. ASSUME NEW n \in 1 .. N
      PROVE  pins[n] = PinsOfPart(n, parts[n], side, names) /\ pins[n] \in Seq(S)
  <2>1. pins[n] = PinsOfPart(n, parts[n], side, names)
    BY <1>1 DEF PartPins
  <2>2. n \in Nat
    BY <1>2
  <2>. QED
    BY <1>1, <2>1, <2>2, PinsOfPartTyped
<1> DEFINE Joined0(f) == f = [n \in 0 .. Len(parts) |->
                  IF n = 0 THEN <<>> ELSE f[n - 1] \o PinsOfPart(n, parts[n], side, names)]
<1>4. ASSUME NEW f
      PROVE  Joined0(f) <=> JoinsUpTo(f, N, pins)
  <2>1. ASSUME NEW n \in 0 .. N, n # 0
        PROVE  pins[n] = PinsOfPart(n, parts[n], side, names)
    <3>1. n \in 1 .. N
      BY <1>2, <2>1
    <3>. QED
      BY <1>3, <3>1
  <2>2. [n \in 0 .. N |-> IF n = 0 THEN <<>> ELSE f[n - 1] \o PinsOfPart(n, parts[n], side, names)]
          = [n \in 0 .. N |-> IF n = 0 THEN <<>> ELSE f[n - 1] \o pins[n]]
    BY <2>1
  <2>. QED
    BY <1>1, <2>2 DEF JoinsUpTo
<1>5. \A n \in 1 .. N : pins[n] \in Seq(S)
  BY <1>3
<1>6. (\E f : JoinsUpTo(f, N, pins)) /\ (\A f : JoinsUpTo(f, N, pins) => Joins(S, N, f, pins))
  BY ONLY <1>2, <1>5, JoinedUpTo
<1>7. \E f : Joined0(f)
  BY <1>4, <1>6
<1>8. whole = CHOOSE f : Joined0(f)
  BY <1>1 DEF PinsUpTo
<1> HIDE DEF Joined0
<1>9. Joined0(whole)
  BY <1>7, <1>8
<1>. QED
  BY <1>1, <1>4, <1>6, <1>9

PinsOf(parts, side, names) == PinsUpTo(parts, side, names)[Len(parts)]

\* A part that is added has its pins after those of the parts before it.
LEMMA PinsAdded ==
  ASSUME NEW S, NEW parts \in Seq(S), NEW part \in S, NEW side \in {"in", "out"}, NEW names, Listed(names)
  PROVE  /\ PinsOf(parts, side, names) \in Seq(Recipe!Pin)
         /\ PinsOf(Append(parts, part), side, names) \in Seq(Recipe!Pin)
         /\ PinsOf(Append(parts, part), side, names)
              = PinsOf(parts, side, names) \o PinsOfPart(Len(parts) + 1, part, side, names)
<1>1. PICK more : more = Append(parts, part)
  OBVIOUS
<1>2. PICK N : N = Len(parts)
  OBVIOUS
<1>3. /\ N \in Nat /\ Len(more) = N + 1 /\ more[N + 1] = part
      /\ \A n \in 1 .. N : more[n] = parts[n]
  BY <1>1, <1>2
<1>4. PICK P : P = Recipe!Pin
  OBVIOUS
<1>5. PICK f, g, a, b :
        /\ f = PinsUpTo(parts, side, names) /\ a = PartPins(parts, side, names)
        /\ g = PinsUpTo(more, side, names) /\ b = PartPins(more, side, names)
  OBVIOUS
<1>6. Joins(P, N, f, a)
  BY <1>2, <1>3, <1>4, <1>5, PinsJoined
<1>7. Joins(P, N + 1, g, b)
  BY <1>3, <1>4, <1>5, PinsJoined
<1>8. \A n \in 1 .. N : a[n] = b[n]
  <2>1. ASSUME NEW n \in 1 .. N
        PROVE  a[n] = b[n]
    <3>1. n \in 1 .. N + 1 /\ n \in 1 .. Len(parts) /\ n \in 1 .. Len(more)
      BY <1>2, <1>3
    <3>. QED
      BY <1>3, <1>5, <3>1 DEF PartPins
  <2>. QED
    BY <2>1
<1>9. b[N + 1] = PinsOfPart(N + 1, part, side, names)
  <2>1. N + 1 \in 1 .. Len(more)
    BY <1>3
  <2>. QED
    BY <1>3, <1>5, <2>1 DEF PartPins
<1>10. f[0] = g[0]
  BY <1>6, <1>7 DEF Joins
<1>11. ASSUME NEW n \in 0 .. N, n + 1 \in 0 .. N, f[n] = g[n]
       PROVE  f[n + 1] = g[n + 1]
  <2>1. n + 1 \in 1 .. N /\ n + 1 \in 1 .. N + 1 /\ (n + 1) - 1 = n
    BY <1>3, <1>11
  <2>2. f[n + 1] = f[(n + 1) - 1] \o a[n + 1] /\ g[n + 1] = g[(n + 1) - 1] \o b[n + 1]
    BY <1>6, <1>7, <2>1 DEF Joins
  <2>. QED
    BY <1>8, <1>11, <2>1, <2>2
<1>12. f[N] = g[N]
  <2>1. N \in Nat /\ \A n \in 0 .. N : n + 1 \in 0 .. N /\ f[n] = g[n] => f[n + 1] = g[n + 1]
    BY <1>3, <1>11
  <2>2. \A n \in 0 .. N : f[n] = g[n]
    BY ONLY <1>10, <2>1, SameRecursion
  <2>. QED
    BY <2>1, <2>2
<1>13. g[N + 1] = g[N] \o b[N + 1]
  <2>1. N + 1 \in 1 .. N + 1 /\ (N + 1) - 1 = N
    BY <1>3
  <2>2. g[N + 1] = g[(N + 1) - 1] \o b[N + 1]
    BY <1>7, <2>1 DEF Joins
  <2>. QED
    BY <2>1, <2>2
<1>14. f[N] \in Seq(P) /\ g[N + 1] \in Seq(P)
  <2>1. N \in 0 .. N /\ N + 1 \in 0 .. N + 1
    BY <1>3
  <2>. QED
    BY <1>6, <1>7, <2>1 DEF Joins
<1>. QED
  BY <1>1, <1>2, <1>3, <1>4, <1>5, <1>9, <1>12, <1>13, <1>14 DEF PinsOf

LEMMA NoPins ==
  ASSUME NEW parts, Len(parts) = 0, NEW side \in {"in", "out"}, NEW names, Listed(names)
  PROVE  PinsOf(parts, side, names) = <<>>
<1>1. Joins(Recipe!Pin, 0, PinsUpTo(parts, side, names), PartPins(parts, side, names))
  <2>1. Len(parts) \in Nat
    OBVIOUS
  <2>. QED
    BY <2>1, PinsJoined
<1>. QED
  BY <1>1 DEF Joins, PinsOf

Declarations(declared) ==
  /\ declared \in Seq(Range(declared))
  /\ \A k \in DOMAIN declared : declared[k][2] \in Nat
  /\ \A j, k \in DOMAIN declared : declared[j][1] = declared[k][1] => j = k

\* The names a declaration may give its pins.
NamesOf(id) == {<<id>>} \cup {<<id, k>> : k \in Nat}

LEMMA PlacesNamed ==
  ASSUME NEW id, NEW width \in Nat
  PROVE  /\ PinNames(id, width) \in Seq(NamesOf(id))
         /\ Len(PinNames(id, width)) = IF width = 0 THEN 1 ELSE width
         /\ width = 0 => PinNames(id, width)[1] = <<id>>
         /\ width > 0 => \A k \in 1 .. width : PinNames(id, width)[k] = <<id, width - k>>
         /\ \A k \in 1 .. Len(PinNames(id, width)) : PinNames(id, width)[k][1] = id
         /\ \A j, k \in 1 .. Len(PinNames(id, width)) :
              PinNames(id, width)[j] = PinNames(id, width)[k] => j = k
<1>1. CASE width = 0
  <2>1. PinNames(id, width) = << <<id>> >>
    BY <1>1 DEF PinNames
  <2>2. <<id>> \in NamesOf(id)
    BY DEF NamesOf
  <2>3. PICK e, S, p : e = <<id>> /\ S = NamesOf(id) /\ p = PinNames(id, width)
    OBVIOUS
  <2>4. e \in S /\ e[1] = id /\ p = <<e>>
    BY <2>1, <2>2, <2>3
  <2>5. p \in Seq(S) /\ Len(p) = 1 /\ p[1] = e
    BY ONLY <2>4
  <2>6. \A k \in 1 .. Len(p) : k = 1
    BY ONLY <2>5
  <2>7. \A k \in 1 .. Len(p) : p[k][1] = id
    BY ONLY <2>4, <2>5, <2>6
  <2>8. \A j, k \in 1 .. Len(p) : p[j] = p[k] => j = k
    BY ONLY <2>6
  <2>. QED
    BY ONLY <1>1, <2>3, <2>5, <2>7, <2>8
<1>2. CASE width # 0
  <2>1. PICK e, S : e = PinNames(id, width) /\ S = NamesOf(id)
    OBVIOUS
  <2>2. e = [k \in 1 .. width |-> <<id, width - k>>]
    BY <1>2, <2>1 DEF PinNames
  <2>3. \A k \in 1 .. width : <<id, width - k>> \in S
    BY <2>1 DEF NamesOf
  <2>4. e \in [1 .. width -> S]
    BY <2>2, <2>3
  <2>5. e \in Seq(S) /\ Len(e) = width
    BY <2>4
  <2>6. \A k \in 1 .. width : e[k] = <<id, width - k>>
    BY <2>2
  <2>7. \A k \in 1 .. width : e[k][1] = id /\ e[k][2] = width - k
    BY <2>6
  <2>8. \A j, k \in 1 .. width : e[j] = e[k] => j = k
    <3> SUFFICES ASSUME NEW j \in 1 .. width, NEW k \in 1 .. width, e[j] = e[k] PROVE j = k
      OBVIOUS
    <3>1. width - j = width - k
      BY <2>7
    <3>. QED
      BY <3>1
  <2>9. \A k \in 1 .. Len(e) : e[k][1] = id
    BY ONLY <2>5, <2>7
  <2>10. \A j, k \in 1 .. Len(e) : e[j] = e[k] => j = k
    BY ONLY <2>5, <2>8
  <2>. QED
    BY ONLY <1>2, <2>1, <2>5, <2>6, <2>9, <2>10, width \in Nat
<1>. QED
  BY <1>1, <1>2

\* The pins are named as they are declared, one declaration after the other.
PartsOf(declared) == [n \in 1 .. Len(declared) |-> PinNames(declared[n][1], declared[n][2])]

LEMMA NamesJoined ==
  ASSUME NEW declared, Declarations(declared)
  PROVE  /\ DOMAIN declared = 1 .. Len(declared)
         /\ \E S : Joins(S, Len(declared), NamesUpTo(declared), PartsOf(declared))
<1>1. PICK N, whole, parts :
        N = Len(declared) /\ whole = NamesUpTo(declared) /\ parts = PartsOf(declared)
  OBVIOUS
<1>2. N \in Nat /\ DOMAIN declared = 1 .. N
  BY <1>1 DEF Declarations
<1> DEFINE S == UNION {NamesOf(declared[n][1]) : n \in 1 .. N}
<1>3. ASSUME NEW n \in 1 .. N
      PROVE  parts[n] \in Seq(S)
  <2>1. parts[n] = PinNames(declared[n][1], declared[n][2])
    BY <1>1 DEF PartsOf
  <2>2. parts[n] \in Seq(NamesOf(declared[n][1]))
    BY <1>2, <2>1, PlacesNamed DEF Declarations
  <2>3. PICK p, R, W : p = parts[n] /\ R = NamesOf(declared[n][1]) /\ W = S
    OBVIOUS
  <2>4. p \in Seq(R) /\ R \subseteq W
    BY <2>2, <2>3
  <2>5. p \in Seq(W)
    BY ONLY <2>4
  <2>. QED
    BY <2>3, <2>5
<1>4. JoinsUpTo(whole, N, parts)
  <2> DEFINE Names(f) == f = [n \in 0 .. Len(declared) |->
                                IF n = 0 THEN <<>> ELSE f[n - 1] \o PinNames(declared[n][1], declared[n][2])]
  <2>1. ASSUME NEW f
        PROVE  Names(f) <=> JoinsUpTo(f, N, parts)
    <3>1. ASSUME NEW n \in 0 .. N, n # 0
          PROVE  parts[n] = PinNames(declared[n][1], declared[n][2])
      <4>1. n \in 1 .. N
        BY <1>2, <3>1
      <4>. QED
        BY <1>1, <4>1 DEF PartsOf
    <3>2. [n \in 0 .. N |-> IF n = 0 THEN <<>> ELSE f[n - 1] \o PinNames(declared[n][1], declared[n][2])]
            = [n \in 0 .. N |-> IF n = 0 THEN <<>> ELSE f[n - 1] \o parts[n]]
      BY <3>1
    <3>. QED
      BY <1>1, <3>2 DEF JoinsUpTo
  <2>2. \E f : JoinsUpTo(f, N, parts)
    BY <1>2, <1>3, JoinedUpTo
  <2>3. \E f : Names(f)
    BY <2>1, <2>2
  <2>4. whole = CHOOSE f : Names(f)
    BY <1>1 DEF NamesUpTo
  <2> HIDE DEF Names
  <2>5. Names(whole)
    BY <2>3, <2>4
  <2>. QED
    BY <2>1, <2>5
<1>5. \E V : Joins(V, N, whole, parts)
  <2>1. PICK V : V = S
    OBVIOUS
  <2>2. \A n \in 1 .. N : parts[n] \in Seq(V)
    BY <1>3, <2>1
  <2>3. Joins(V, N, whole, parts)
    BY ONLY <1>2, <1>4, <2>2, JoinedUpTo
  <2>. QED
    BY <2>3
<1>. QED
  BY <1>1, <1>2, <1>5

\* The pins of a bus are pins of the chip.
LEMMA BusWithin ==
  ASSUME NEW declared, Declarations(declared), NEW k \in DOMAIN declared, declared[k][2] > 0
  PROVE  /\ Len(NamesUpTo(declared)[k - 1]) \in Nat
         /\ Len(NamesUpTo(declared)[k - 1]) + declared[k][2] <= Len(AllNames(declared))
<1>1. PICK N, whole, parts :
        N = Len(declared) /\ whole = NamesUpTo(declared) /\ parts = PartsOf(declared)
  OBVIOUS
<1>2. PICK S : Joins(S, N, whole, parts)
  BY <1>1, NamesJoined
<1>3. N \in Nat /\ k \in 1 .. N /\ k - 1 \in 0 .. N /\ N \in 0 .. N
  BY <1>1, NamesJoined DEF Declarations
<1>4. PICK len \in [0 .. N -> Nat], size \in [1 .. N -> Nat] : JoinedAt(N, whole, parts, len, size)
  BY ONLY <1>2, PartsLie
<1>5. PICK w \in Nat : w = declared[k][2] /\ w > 0
  BY DEF Declarations
<1>6. size[k] = w
  <2>1. parts[k] = PinNames(declared[k][1], w)
    BY <1>1, <1>3, <1>5 DEF PartsOf
  <2>2. Len(parts[k]) = w
    BY <1>5, <2>1, PlacesNamed
  <2>. QED
    BY <1>3, <1>4, <2>2 DEF JoinedAt
<1>7. Lies(whole, parts, len, size, k, N)
  BY <1>3, <1>4 DEF JoinedAt
<1>8. len[k - 1] + w \in 1 .. len[N]
  BY <1>5, <1>6, <1>7 DEF Lies
<1>9. len[k - 1] = Len(whole[k - 1]) /\ len[N] = Len(whole[N])
  BY <1>3, <1>4 DEF JoinedAt
<1>. QED
  BY <1>1, <1>3, <1>4, <1>5, <1>8, <1>9 DEF AllNames

LEMMA NamesListed ==
  ASSUME NEW declared, Declarations(declared)
  PROVE  Len(AllNames(declared)) \in Nat /\ DOMAIN AllNames(declared) = 1 .. Len(AllNames(declared))
<1>1. PICK N, whole, parts, S :
        N = Len(declared) /\ whole = NamesUpTo(declared) /\ parts = PartsOf(declared) /\ Joins(S, N, whole, parts)
  BY NamesJoined
<1>2. whole[N] \in Seq(S)
  BY <1>1 DEF Joins
<1>3. AllNames(declared) = whole[N]
  BY <1>1 DEF AllNames
<1>. QED
  BY <1>2, <1>3

LEMMA ChipDeclares ==
  ASSUME NEW chip \in DOMAIN Chips
  PROVE  Declarations(Chips[chip].inputs) /\ Declarations(Chips[chip].outputs)
  BY ChipsAssumption DEF Declarations

LEMMA ChipListed == Listed(InputNames) /\ Listed(OutputNames)
<1> SUFFICES ASSUME NEW chip \in DOMAIN Chips
             PROVE  /\ Len(InputNames[chip]) \in Nat /\ DOMAIN InputNames[chip] = 1 .. Len(InputNames[chip])
                    /\ Len(OutputNames[chip]) \in Nat /\ DOMAIN OutputNames[chip] = 1 .. Len(OutputNames[chip])
  BY DEF Listed
<1>1. InputNames[chip] = AllNames(Chips[chip].inputs) /\ OutputNames[chip] = AllNames(Chips[chip].outputs)
  BY DEF InputNames, OutputNames
<1>. QED
  BY <1>1, ChipDeclares, NamesListed

\* A number that the meta data has for a pin of the chip.
PinNumber(chip, number) ==
  \/ number \in Nat /\ number < Len(InputNames[chip])
  \/ number \in Nat /\ number >= INPUT_PIN_LIMIT /\ number - INPUT_PIN_LIMIT < Len(OutputNames[chip])

\* All the numbers of a bus, or none, are inputs.
BusNumber(chip, start, size) ==
  /\ start \in Nat /\ size \in Nat /\ size > 0
  /\ \/ start + size <= Len(InputNames[chip])
     \/ start >= INPUT_PIN_LIMIT /\ start - INPUT_PIN_LIMIT + size <= Len(OutputNames[chip])

LEMMA PinsNumbered ==
  ASSUME NEW chip \in DOMAIN Chips, NEW name, NEW number \in get_pin(chip, name)
  PROVE  PinNumber(chip, number)
<1>1. PICK a, b \in Nat : /\ a = Len(InputNames[chip]) /\ DOMAIN InputNames[chip] = 1 .. a
                          /\ b = Len(OutputNames[chip]) /\ DOMAIN OutputNames[chip] = 1 .. b
  BY ChipListed DEF Listed
<1>2. \/ \E k \in 1 .. a : number = k - 1
      \/ \E k \in 1 .. b : number = INPUT_PIN_LIMIT + k - 1
  BY <1>1 DEF get_pin
<1>. QED
  BY <1>1, <1>2, PinLimitAssumption DEF PinNumber

LEMMA BusesNumbered ==
  ASSUME NEW chip \in DOMAIN Chips, NEW name, NEW entry \in get_bus(chip, name)
  PROVE  BusNumber(chip, entry.start, entry.size)
<1>1. PICK inputs, outputs : inputs = Chips[chip].inputs /\ outputs = Chips[chip].outputs
  OBVIOUS
<1>2. /\ Declarations(inputs) /\ Declarations(outputs)
      /\ InputNames[chip] = AllNames(inputs) /\ OutputNames[chip] = AllNames(outputs)
  BY <1>1, ChipDeclares DEF InputNames, OutputNames
<1>3. \/ \E k \in DOMAIN inputs : /\ inputs[k][2] > 0
                                  /\ entry = [start |-> 0 + Len(NamesUpTo(inputs)[k - 1]), size |-> inputs[k][2]]
      \/ \E k \in DOMAIN outputs : /\ outputs[k][2] > 0
                                   /\ entry = [start |-> INPUT_PIN_LIMIT + Len(NamesUpTo(outputs)[k - 1]),
                                               size |-> outputs[k][2]]
  BY <1>1 DEF get_bus
<1>4. CASE \E k \in DOMAIN inputs : /\ inputs[k][2] > 0
                                  /\ entry = [start |-> 0 + Len(NamesUpTo(inputs)[k - 1]), size |-> inputs[k][2]]
  <2>1. PICK k \in DOMAIN inputs : /\ inputs[k][2] > 0
                                  /\ entry = [start |-> 0 + Len(NamesUpTo(inputs)[k - 1]), size |-> inputs[k][2]]
    BY <1>4
  <2>2. PICK a, w, n : a = Len(NamesUpTo(inputs)[k - 1]) /\ w = inputs[k][2] /\ n = Len(AllNames(inputs))
    OBVIOUS
  <2>3. a \in Nat /\ w \in Nat /\ w > 0 /\ a + w <= n
    BY <1>2, <2>1, <2>2, BusWithin DEF Declarations
  <2>4. entry.start = a /\ entry.size = w
    BY <2>1, <2>2, <2>3
  <2>. QED
    BY <1>2, <2>2, <2>3, <2>4 DEF BusNumber
<1>5. CASE \E k \in DOMAIN outputs : /\ outputs[k][2] > 0
                                   /\ entry = [start |-> INPUT_PIN_LIMIT + Len(NamesUpTo(outputs)[k - 1]),
                                               size |-> outputs[k][2]]
  <2>1. PICK k \in DOMAIN outputs : /\ outputs[k][2] > 0
                                   /\ entry = [start |-> INPUT_PIN_LIMIT + Len(NamesUpTo(outputs)[k - 1]),
                                               size |-> outputs[k][2]]
    BY <1>5
  <2>2. PICK a, w, n : a = Len(NamesUpTo(outputs)[k - 1]) /\ w = outputs[k][2] /\ n = Len(AllNames(outputs))
    OBVIOUS
  <2>3. a \in Nat /\ w \in Nat /\ w > 0 /\ a + w <= n
    BY <1>2, <2>1, <2>2, BusWithin DEF Declarations
  <2>4. entry.start = INPUT_PIN_LIMIT + a /\ entry.size = w
    BY <2>1, <2>2, <2>3
  <2>5. n \in Nat /\ INPUT_PIN_LIMIT \in Nat
    BY <1>2, <2>2, NamesListed, PinLimitAssumption
  <2>6. Len(OutputNames[chip]) = n
    BY <1>2, <2>2
  <2>7. PICK s, z : s = INPUT_PIN_LIMIT + a /\ z = w
    OBVIOUS
  <2>8. s \in Nat /\ z \in Nat /\ z > 0 /\ s >= INPUT_PIN_LIMIT /\ s - INPUT_PIN_LIMIT + z <= n
    BY <2>3, <2>5, <2>7
  <2>. QED
    BY <2>4, <2>6, <2>7, <2>8 DEF BusNumber
<1>. QED
  BY <1>3, <1>4, <1>5

-----------------------------------------------------------------------------
(* What a step adds to the source. *)

MentionsOf(A) == [pin : Recipe!Pin, signal : A, whole : BOOLEAN]
Mentioned(S) == {S[m].signal : m \in DOMAIN S}
MentionsTyped(S) == S \in Seq(MentionsOf(Mentioned(S)))

LEMMA SeqGrows ==
  ASSUME NEW A, NEW B, A \subseteq B, NEW s \in Seq(A)
  PROVE  s \in Seq(B)
OBVIOUS

LEMMA JoinedGrows ==
  ASSUME NEW A, NEW S \in Seq(A), NEW M \in Seq(A)
  PROVE  /\ Grows(S, S \o M, Len(S), Len(S) + Len(M))
         /\ \A m \in Len(S) + 1 .. Len(S) + Len(M) :
              m - Len(S) \in 1 .. Len(M) /\ (S \o M)[m] = M[m - Len(S)]
         /\ \A k \in 1 .. Len(M) : (S \o M)[Len(S) + k] = M[k]
<1>1. PICK p, q \in Nat : p = Len(S) /\ q = Len(M)
  OBVIOUS
<1>2. PICK B : B = S \o M
  OBVIOUS
<1>3. /\ DOMAIN S = 1 .. p /\ DOMAIN B = 1 .. p + q
      /\ \A m \in 1 .. p : B[m] = S[m]
      /\ \A k \in 1 .. q : B[p + k] = M[k]
  BY <1>1, <1>2
<1>4. \A m \in p + 1 .. p + q : m - p \in 1 .. q /\ m = p + (m - p)
  BY <1>1
<1>5. \A m \in p + 1 .. p + q : m - p \in 1 .. q /\ B[m] = M[m - p]
  BY <1>3, <1>4
<1>6. p + q \in Nat /\ p <= p + q
  BY <1>1
<1>. QED
  BY ONLY <1>1, <1>2, <1>3, <1>5, <1>6 DEF Grows

\* New mentions of signals are mentions of the source's signals.
LEMMA MentionsAdded ==
  ASSUME NEW S, MentionsTyped(S), NEW A, NEW M \in Seq(MentionsOf(A)), Mentioned(M) = A
  PROVE  /\ Mentioned(S \o M) = Mentioned(S) \cup A
         /\ MentionsTyped(S \o M)
         /\ Grows(S, S \o M, Len(S), Len(S) + Len(M))
         /\ \A k \in 1 .. Len(M) : (S \o M)[Len(S) + k] = M[k]
<1>1. PICK B, C : B = Mentioned(S) \cup A /\ C = MentionsOf(B)
  OBVIOUS
<1>2. MentionsOf(Mentioned(S)) \subseteq C /\ MentionsOf(A) \subseteq C
  BY <1>1 DEF MentionsOf
<1>3. S \in Seq(C) /\ M \in Seq(C)
  BY <1>2, SeqGrows DEF MentionsTyped
<1>4. PICK p, q, T : p = Len(S) /\ q = Len(M) /\ T = S \o M
  OBVIOUS
<1>0. p \in Nat /\ q \in Nat
  BY <1>3, <1>4
<1>5. /\ Grows(S, T, p, p + q)
      /\ \A m \in p + 1 .. p + q : m - p \in 1 .. q /\ T[m] = M[m - p]
      /\ \A k \in 1 .. q : T[p + k] = M[k]
  BY <1>3, <1>4, JoinedGrows
<1>6. T \in Seq(C)
  BY <1>3, <1>4
<1>7. Mentioned(T) = Mentioned(S) \cup Mentioned(M)
  <2>1. DOMAIN M = 1 .. q /\ DOMAIN S = 1 .. p /\ DOMAIN T = 1 .. p + q
    BY <1>3, <1>4, <1>6
  <2>2. ASSUME NEW m \in 1 .. p
        PROVE  T[m] = S[m] /\ m \in 1 .. p + q
    BY <1>5 DEF Grows
  <2>3. ASSUME NEW k \in 1 .. q
        PROVE  T[p + k] = M[k] /\ p + k \in 1 .. p + q
    BY <1>0, <1>5
  <2>4. ASSUME NEW m \in 1 .. p + q
        PROVE  m \in 1 .. p \/ (m - p \in 1 .. q /\ T[m] = M[m - p])
    <3>1. m \in 1 .. p \/ m \in p + 1 .. p + q
      BY <1>0
    <3>. QED
      BY <1>5, <3>1
  <2>5. PICK X, Y, Z : /\ X = {S[m].signal : m \in 1 .. p} /\ Y = {M[k].signal : k \in 1 .. q}
                       /\ Z = {T[m].signal : m \in 1 .. p + q}
    OBVIOUS
  <2>6. X \subseteq Z
    BY <2>2, <2>5
  <2>7. Y \subseteq Z
    BY <2>3, <2>5
  <2>8. Z \subseteq X \cup Y
    BY <2>2, <2>4, <2>5
  <2>9. Z = X \cup Y
    BY ONLY <2>6, <2>7, <2>8
  <2>. QED
    BY <2>1, <2>5, <2>9 DEF Mentioned
<1>. QED
  BY ONLY <1>1, <1>4, <1>5, <1>6, <1>7, Mentioned(M) = A DEF MentionsTyped

\* Mentions of the names, by the pins, each as a whole or not.
Made(names, pins, whole) ==
  [k \in 1 .. Len(names) |-> [pin |-> pins[k], signal |-> names[k], whole |-> whole]]

\* The source S2 is S with these mentions after it.
Adds(S, S2, names, pins, whole) ==
  LET p == Len(S)
      n == Len(names)
  IN  /\ Grows(S, S2, p, p + n)
      /\ \A k \in 1 .. n : /\ p + k \in p + 1 .. p + n
                          /\ S2[p + k] = [pin |-> pins[k], signal |-> names[k], whole |-> whole]
      /\ \A m \in p + 1 .. p + n : m - p \in 1 .. n /\ m = p + (m - p)
      /\ Mentioned(S2) = Mentioned(S) \cup Range(names)
      /\ MentionsTyped(S2)

LEMMA SourceAdds ==
  ASSUME NEW S, MentionsTyped(S), NEW T, NEW names \in Seq(T), NEW pins,
         \A k \in 1 .. Len(names) : pins[k] \in Recipe!Pin,
         NEW whole \in BOOLEAN
  PROVE  Adds(S, S \o Made(names, pins, whole), names, pins, whole)
<1>1. PICK M, n, A, p : M = Made(names, pins, whole) /\ n = Len(names) /\ A = Range(names) /\ p = Len(S)
  OBVIOUS
<1>2. n \in Nat /\ p \in Nat /\ DOMAIN names = 1 .. n /\ \A k \in 1 .. n : names[k] \in A
  BY <1>1 DEF Range, MentionsTyped
<1>3. M = [k \in 1 .. n |-> [pin |-> pins[k], signal |-> names[k], whole |-> whole]]
  BY <1>1 DEF Made
<1>4. \A k \in 1 .. n : [pin |-> pins[k], signal |-> names[k], whole |-> whole] \in MentionsOf(A)
  BY <1>1, <1>2 DEF MentionsOf
<1>5. M \in Seq(MentionsOf(A)) /\ Len(M) = n /\ DOMAIN M = 1 .. n
  <2>1. PICK R : R = MentionsOf(A)
    OBVIOUS
  <2>2. M \in [1 .. n -> R]
    BY <1>3, <1>4, <2>1
  <2>. QED
    BY ONLY <1>2, <2>1, <2>2
<1>6. Mentioned(M) = A
  <2>1. Mentioned(M) = {M[k].signal : k \in 1 .. n}
    BY <1>5 DEF Mentioned
  <2>2. \A k \in 1 .. n : M[k].signal = names[k]
    BY <1>3
  <2>3. A = {names[k] : k \in 1 .. n}
    BY <1>1, <1>2 DEF Range
  <2>. QED
    BY <2>1, <2>2, <2>3
<1>7. PICK S2 : S2 = S \o M
  OBVIOUS
<1>8. /\ Mentioned(S2) = Mentioned(S) \cup A /\ MentionsTyped(S2)
      /\ Grows(S, S2, p, p + n)
      /\ \A k \in 1 .. n : S2[p + k] = M[k]
  <2>1. MentionsTyped(S) /\ M \in Seq(MentionsOf(A)) /\ Mentioned(M) = A
    BY <1>5, <1>6
  <2>2. /\ Mentioned(S \o M) = Mentioned(S) \cup A /\ MentionsTyped(S \o M)
        /\ Grows(S, S \o M, Len(S), Len(S) + Len(M))
        /\ \A k \in 1 .. Len(M) : (S \o M)[Len(S) + k] = M[k]
    BY ONLY <2>1, MentionsAdded
  <2>. QED
    BY ONLY <1>1, <1>5, <1>7, <2>2
<1>9. \A k \in 1 .. n : /\ p + k \in p + 1 .. p + n
                        /\ S2[p + k] = [pin |-> pins[k], signal |-> names[k], whole |-> whole]
  BY <1>2, <1>3, <1>8
<1>10. \A m \in p + 1 .. p + n : m - p \in 1 .. n /\ m = p + (m - p)
  BY <1>2
<1>. QED
  BY ONLY <1>1, <1>7, <1>8, <1>9, <1>10 DEF Adds

\* The names given numbers.
LEMMA NumbersGiven ==
  ASSUME NEW T, NEW names \in Seq(T), NEW from \in Nat, Range(pin_numbers) \subseteq Nat
  PROVE  LET given == Numbered(names, from)
         IN  /\ DOMAIN given = DOMAIN pin_numbers \cup Range(names)
             /\ Range(given) \subseteq Nat
             /\ \A s \in DOMAIN pin_numbers : s \notin Range(names) => given[s] = pin_numbers[s]
             /\ (\A j, k \in 1 .. Len(names) : names[j] = names[k] => j = k) =>
                  \A k \in 1 .. Len(names) : given[names[k]] = from + k - 1
<1>1. PICK given, n, A : given = Numbered(names, from) /\ n = Len(names) /\ A = Range(names)
  OBVIOUS
<1>2. n \in Nat /\ DOMAIN names = 1 .. n /\ A = {names[k] : k \in 1 .. n}
  BY <1>1 DEF Range
<1> DEFINE Place0(s) == CHOOSE k \in DOMAIN names : names[k] = s
<1>3. ASSUME NEW s \in A
      PROVE  Place0(s) \in 1 .. n /\ names[Place0(s)] = s
  BY <1>2
<1>4. given = [s \in DOMAIN pin_numbers \cup A |-> IF s \in A THEN from + Place0(s) - 1 ELSE pin_numbers[s]]
  BY <1>1 DEF Numbered
<1> HIDE DEF Place0
<1>5. DOMAIN given = DOMAIN pin_numbers \cup A
  BY <1>4
<1>6. \A s \in DOMAIN pin_numbers : s \notin A => given[s] = pin_numbers[s]
  BY <1>4
<1>7. \A s \in A : given[s] = from + Place0(s) - 1 /\ given[s] \in Nat
  BY <1>2, <1>3, <1>4
<1>8. Range(given) \subseteq Nat
  <2>1. \A s \in DOMAIN pin_numbers : pin_numbers[s] \in Nat
    BY DEF Range
  <2>2. \A s \in DOMAIN given : given[s] \in Nat
    BY <1>5, <1>6, <1>7, <2>1
  <2>. QED
    BY <2>2 DEF Range
<1>9. ASSUME \A j, k \in 1 .. n : names[j] = names[k] => j = k, NEW k \in 1 .. n
      PROVE  given[names[k]] = from + k - 1
  <2>1. names[k] \in A
    BY <1>2
  <2>2. Place0(names[k]) = k
    BY <1>3, <1>9, <2>1
  <2>. QED
    BY <1>7, <2>1, <2>2
<1>. QED
  BY <1>1, <1>5, <1>6, <1>8, <1>9

-----------------------------------------------------------------------------
(* Types. *)

SignalsTyped ==
  /\ DOMAIN pin_numbers \subseteq Signals /\ Range(pin_numbers) \subseteq Nat
  /\ linkages \in Seq(Signals \X Nat \X BOOLEAN)
  /\ MentionsTyped(source)

OwnPinsTyped ==
  /\ input_pins \in Seq(Signals) /\ output_pins \in Seq(Signals)
  /\ input_pin_offset \in Nat /\ output_pin_offset \in Nat

OthersTyped ==
  /\ phase \in {"chip", "parts", "PARTS", "PARTS,", "SUBGATE", "SUBGATE,", "done", "crashed",
                "looping", "unfinished"}
  /\ dependencies \in Seq(Parts)
  /\ wire_linkages \in Seq(Nat \X Nat)
  /\ \A b \in bus : b[2] \in Nat /\ b[3] \in Nat
  /\ Range(bus_numbers) \subseteq Nat \X Nat
  /\ context_gate_metadata \in DOMAIN Chips \cup {nullptr}
  /\ has_error \in BOOLEAN

LEMMA TypeParts ==
  /\ TypeOK <=> SignalsTyped /\ OwnPinsTyped /\ OthersTyped
  /\ TypeOK' <=> SignalsTyped' /\ OwnPinsTyped' /\ OthersTyped'
<1>1. Signals = Mentioned(source) /\ Signals' = Mentioned(source')
  BY DEF Signals, Mentioned
<1>2. /\ MentionsTyped(source) <=> source \in Seq([pin : Recipe!Pin, signal : Signals, whole : BOOLEAN])
      /\ MentionsTyped(source') <=> source' \in Seq([pin : Recipe!Pin, signal : Signals', whole : BOOLEAN])
  BY <1>1 DEF MentionsTyped, MentionsOf
<1>. QED
  BY <1>2 DEF TypeOK, SignalsTyped, OwnPinsTyped, OthersTyped

LEMMA BusGiven ==
  ASSUME Range(bus_numbers) \subseteq Nat \X Nat, NEW name, NEW entry \in Nat \X Nat
  PROVE  /\ Range(Bus(name, entry)) \subseteq Nat \X Nat
         /\ DOMAIN Bus(name, entry) = DOMAIN bus_numbers \cup {name}
         /\ Bus(name, entry)[name] = entry
         /\ \A x \in DOMAIN bus_numbers : x # name => Bus(name, entry)[x] = bus_numbers[x]
<1>1. PICK given : given = Bus(name, entry)
  OBVIOUS
<1>2. given = [n \in DOMAIN bus_numbers \cup {name} |-> IF n = name THEN entry ELSE bus_numbers[n]]
  BY <1>1 DEF Bus
<1>3. \A x \in DOMAIN bus_numbers : bus_numbers[x] \in Nat \X Nat
  BY DEF Range
<1>4. \A x \in DOMAIN given : given[x] \in Nat \X Nat
  BY <1>2, <1>3
<1>5. Range(given) \subseteq Nat \X Nat
  BY ONLY <1>4 DEF Range
<1>. QED
  BY <1>1, <1>2, <1>5

\* The signals of a longer source are typed as those before it.
LEMMA StillTyped ==
  ASSUME SignalsTyped, OwnPinsTyped, Signals \subseteq Signals'
  PROVE  /\ input_pins \in Seq(Signals') /\ output_pins \in Seq(Signals')
         /\ linkages \in Seq(Signals' \X Nat \X BOOLEAN)
<1>1. PICK A, B : A = Signals /\ B = Signals'
  OBVIOUS
<1>2. A \X Nat \X BOOLEAN \subseteq B \X Nat \X BOOLEAN
  BY <1>1
<1>. QED
  BY <1>1, <1>2, SeqGrows DEF SignalsTyped, OwnPinsTyped

\* What IN and OUT read is a sequence of names and adds that many mentions.
LEMMA NamesRead ==
  ASSUME NEW d \in Ins \cup Outs, SignalsTyped,
         NEW first \in Nat, NEW side \in {"in", "out"},
         source' = source \o OwnPins(side, first, PinNames(d[1], d[2]), d[2])
  PROVE  LET names == PinNames(d[1], d[2])
         IN  Adds(source, source', names, [k \in 1 .. Len(names) |-> <<0, side, first + k - 1>>], d[2] > 0)
<1>1. PICK names, w : names = PinNames(d[1], d[2]) /\ w = (d[2] > 0)
  OBVIOUS
<1>2. d[2] \in Nat /\ w \in BOOLEAN
  BY <1>1, SourceAssumption
<1>3. PICK T : names \in Seq(T)
  BY <1>1, <1>2, PlacesNamed
<1>4. PICK n, pins : n = Len(names) /\ pins = [k \in 1 .. n |-> <<0, side, first + k - 1>>]
  OBVIOUS
<1>5. n \in Nat /\ DOMAIN names = 1 .. n
  BY <1>3, <1>4
<1>6. \A k \in 1 .. n : pins[k] = <<0, side, first + k - 1>> /\ pins[k] \in Recipe!Pin
  BY <1>4, <1>5 DEF Recipe!Pin
<1>7. OwnPins(side, first, names, d[2]) = Made(names, pins, w)
  BY <1>1, <1>4, <1>5, <1>6 DEF OwnPins, Mention, Made
<1>8. MentionsTyped(source)
  BY DEF SignalsTyped
<1>9. Adds(source, source \o Made(names, pins, w), names, pins, w)
  BY <1>2, <1>3, <1>4, <1>6, <1>8, SourceAdds
<1>. QED
  BY <1>1, <1>4, <1>7, <1>9

LEMMA DeclaredTyped ==
  ASSUME TypeOK, NEW d \in Ins \cup Outs, NEW start \in Nat, NEW first \in Nat, NEW side \in {"in", "out"},
         Declared(d, start), source' = source \o OwnPins(side, first, PinNames(d[1], d[2]), d[2])
  PROVE  /\ SignalsTyped' /\ OthersTyped' /\ Signals \subseteq Signals'
         /\ PinNames(d[1], d[2]) \in Seq(Signals')
<1>0. SignalsTyped /\ OwnPinsTyped /\ OthersTyped
  BY TypeParts
<1>1. PICK names, pins, w, n : /\ names = PinNames(d[1], d[2]) /\ n = Len(names) /\ w = (d[2] > 0)
                               /\ pins = [k \in 1 .. n |-> <<0, side, first + k - 1>>]
  OBVIOUS
<1>2. d[2] \in Nat
  BY SourceAssumption
<1>3. PICK T : names \in Seq(T)
  BY <1>1, <1>2, PlacesNamed
<1>4. Adds(source, source', names, pins, w)
  BY <1>0, <1>1, NamesRead
<1>5. Signals' = Signals \cup Range(names) /\ MentionsTyped(source')
  BY <1>4 DEF Adds, Signals, Mentioned
<1>6. names \in Seq(Signals')
  <2>1. PICK B : B = Signals'
    OBVIOUS
  <2>2. Range(names) \subseteq B
    BY <1>5, <2>1
  <2>3. names \in Seq(Range(names))
    BY ONLY <1>3 DEF Range
  <2>4. names \in Seq(B)
    BY ONLY <2>2, <2>3
  <2>. QED
    BY <2>1, <2>4
<1>7. pin_numbers' = Numbered(names, start)
  BY <1>1 DEF Declared
<1>8. DOMAIN pin_numbers' \subseteq Signals' /\ Range(pin_numbers') \subseteq Nat
  <2>1. Range(pin_numbers) \subseteq Nat /\ DOMAIN pin_numbers \subseteq Signals
    BY <1>0 DEF SignalsTyped
  <2>2. /\ DOMAIN Numbered(names, start) = DOMAIN pin_numbers \cup Range(names)
        /\ Range(Numbered(names, start)) \subseteq Nat
    BY <1>3, <2>1, NumbersGiven
  <2>. QED
    BY <1>5, <1>7, <2>1, <2>2
<1>9. linkages' \in Seq(Signals' \X Nat \X BOOLEAN)
  BY <1>0, <1>5, StillTyped DEF Declared
<1>10. SignalsTyped'
  BY <1>5, <1>8, <1>9 DEF SignalsTyped
<1>11. Range(bus_numbers') \subseteq Nat \X Nat
  <2>1. Range(bus_numbers) \subseteq Nat \X Nat
    BY <1>0 DEF OthersTyped
  <2>2. <<start, d[2]>> \in Nat \X Nat
    BY <1>2
  <2>3. Range(Bus(<<d[1]>>, <<start, d[2]>>)) \subseteq Nat \X Nat
    BY <2>1, <2>2, BusGiven
  <2>. QED
    BY <2>1, <2>3 DEF Declared
<1>12. \A b \in bus' : b[2] \in Nat /\ b[3] \in Nat
  <2>1. \A b \in bus : b[2] \in Nat /\ b[3] \in Nat
    BY <1>0 DEF OthersTyped
  <2>2. bus' \subseteq bus \cup {<<d[1], start, d[2]>>}
    BY DEF Declared
  <2>. QED
    BY <1>2, <2>1, <2>2
<1>13. OthersTyped'
  BY <1>0, <1>11, <1>12 DEF OthersTyped, Declared
<1>. QED
  BY <1>1, <1>5, <1>6, <1>10, <1>13

LEMMA IN_typed ==
  ASSUME TypeOK, NEW d \in Ins, IN_statement(d)
  PROVE  TypeOK'
<1>0. SignalsTyped /\ OwnPinsTyped /\ OthersTyped
  BY TypeParts
<1>1. PICK names : names = PinNames(d[1], d[2])
  OBVIOUS
<1>2. /\ Declared(d, input_pin_offset)
      /\ source' = source \o OwnPins("in", Len(input_pins), PinNames(d[1], d[2]), d[2])
      /\ input_pins' = input_pins \o names
      /\ input_pin_offset' = input_pin_offset + Len(names)
      /\ UNCHANGED <<output_pins, output_pin_offset>>
  BY <1>1 DEF IN_statement
<1>3. input_pin_offset \in Nat /\ output_pin_offset \in Nat /\ Len(input_pins) \in Nat
  BY <1>0 DEF OwnPinsTyped
<1>4. SignalsTyped' /\ OthersTyped' /\ Signals \subseteq Signals' /\ names \in Seq(Signals')
  BY <1>1, <1>2, <1>3, DeclaredTyped
<1>5. input_pins \in Seq(Signals') /\ output_pins \in Seq(Signals')
  BY <1>0, <1>4, StillTyped
<1>6. input_pins' \in Seq(Signals') /\ Len(names) \in Nat
  <2>1. PICK a, B : a = input_pins /\ B = Signals'
    OBVIOUS
  <2>2. a \o names \in Seq(B) /\ Len(names) \in Nat
    BY <1>4, <1>5, <2>1
  <2>. QED
    BY <1>2, <2>1, <2>2
<1>7. OwnPinsTyped'
  BY <1>2, <1>3, <1>5, <1>6 DEF OwnPinsTyped
<1>. QED
  BY <1>4, <1>7, TypeParts

LEMMA OUT_typed ==
  ASSUME TypeOK, NEW d \in Outs, OUT_statement(d)
  PROVE  TypeOK'
<1>0. SignalsTyped /\ OwnPinsTyped /\ OthersTyped
  BY TypeParts
<1>1. PICK names : names = PinNames(d[1], d[2])
  OBVIOUS
<1>2. /\ Declared(d, INPUT_PIN_LIMIT + output_pin_offset)
      /\ source' = source \o OwnPins("out", Len(output_pins), PinNames(d[1], d[2]), d[2])
      /\ output_pins' = output_pins \o names
      /\ output_pin_offset' = output_pin_offset + Len(names)
      /\ UNCHANGED <<input_pins, input_pin_offset>>
  BY <1>1 DEF OUT_statement
<1>3. /\ input_pin_offset \in Nat /\ output_pin_offset \in Nat /\ Len(output_pins) \in Nat
      /\ INPUT_PIN_LIMIT + output_pin_offset \in Nat
  BY <1>0, PinLimitAssumption DEF OwnPinsTyped
<1>4. SignalsTyped' /\ OthersTyped' /\ Signals \subseteq Signals' /\ names \in Seq(Signals')
  BY <1>1, <1>2, <1>3, DeclaredTyped
<1>5. input_pins \in Seq(Signals') /\ output_pins \in Seq(Signals')
  BY <1>0, <1>4, StillTyped
<1>6. output_pins' \in Seq(Signals') /\ Len(names) \in Nat
  <2>1. PICK a, B : a = output_pins /\ B = Signals'
    OBVIOUS
  <2>2. a \o names \in Seq(B) /\ Len(names) \in Nat
    BY <1>4, <1>5, <2>1
  <2>. QED
    BY <1>2, <2>1, <2>2
<1>7. OwnPinsTyped'
  BY <1>2, <1>3, <1>5, <1>6 DEF OwnPinsTyped
<1>. QED
  BY <1>4, <1>7, TypeParts

LEMMA PartTyped ==
  ASSUME TypeOK, NEW name \in Parts, PARTS_statement(name) \/ SUBGATE_statement(name)
  PROVE  TypeOK'
<1>0. SignalsTyped /\ OwnPinsTyped /\ OthersTyped
  BY TypeParts
<1>1. add_subgate_metadata(name) /\ phase' \in {"PARTS", "SUBGATE"}
  BY DEF PARTS_statement, SUBGATE_statement
<1>2. UNCHANGED source
  BY <1>1 DEF add_subgate_metadata
<1>3. Signals' = Signals
  BY <1>2 DEF Signals
<1>4. SignalsTyped' /\ OwnPinsTyped'
  BY <1>0, <1>1, <1>3 DEF add_subgate_metadata, SignalsTyped, OwnPinsTyped
<1>5. OthersTyped'
  <2>1. dependencies' \in Seq(Parts)
    <3>1. PICK s : s = dependencies /\ s \in Seq(Parts)
      BY <1>0 DEF OthersTyped
    <3>2. Append(s, name) \in Seq(Parts)
      BY ONLY <3>1, name \in Parts
    <3>. QED
      BY <1>1, <3>1, <3>2 DEF add_subgate_metadata
  <2>2. context_gate_metadata' \in DOMAIN Chips \cup {nullptr}
    BY <1>0, <1>1 DEF OthersTyped, add_subgate_metadata
  <2>. QED
    BY <1>0, <1>1, <2>1, <2>2 DEF OthersTyped, add_subgate_metadata
<1>. QED
  BY <1>4, <1>5, TypeParts

BusNames(signal, size) == [k \in 1 .. size |-> Append(signal, size - k)]
BusPins(start, size) == [k \in 1 .. size |-> PartPin(start + k - 1)]

LEMMA NumbersTyped ==
  ASSUME OwnPinsTyped, OthersTyped, NEW number \in Nat
  PROVE  NumberInChip(number) \in Nat /\ PartPin(number) \in Recipe!Pin
<1>1. input_pin_offset \in Nat /\ output_pin_offset \in Nat /\ Len(dependencies) \in Nat
  <2>1. dependencies \in Seq(Parts)
    BY DEF OthersTyped
  <2>. QED
    BY <2>1 DEF OwnPinsTyped
<1>2. number >= INPUT_PIN_LIMIT => number - INPUT_PIN_LIMIT \in Nat
  BY PinLimitAssumption
<1>. QED
  BY <1>1, <1>2, PinLimitAssumption DEF NumberInChip, PartPin, Recipe!Pin

LEMMA BusRead ==
  ASSUME SignalsTyped, OwnPinsTyped, OthersTyped,
         NEW start \in Nat, NEW size \in Nat, NEW signal, link_bus(start, size, signal)
  PROVE  /\ Len(BusNames(signal, size)) = size /\ \E T : BusNames(signal, size) \in Seq(T)
         /\ Adds(source, source', BusNames(signal, size), BusPins(start, size), TRUE)
<1>1. PICK names, pins : names = BusNames(signal, size) /\ pins = BusPins(start, size)
  OBVIOUS
<1>2. names = [k \in 1 .. size |-> Append(signal, size - k)]
  BY <1>1 DEF BusNames
<1>3. names \in Seq(Range(names)) /\ Len(names) = size
  <2>1. \A k \in 1 .. size : names[k] \in Range(names)
    BY <1>2 DEF Range
  <2>2. PICK T : T = Range(names)
    OBVIOUS
  <2>3. names \in [1 .. size -> T]
    BY <1>2, <2>1, <2>2
  <2>. QED
    BY ONLY size \in Nat, <2>2, <2>3
<1>4. \A k \in 1 .. size : pins[k] = PartPin(start + k - 1) /\ pins[k] \in Recipe!Pin
  <2>1. \A k \in 1 .. size : start + k - 1 \in Nat
    OBVIOUS
  <2>. QED
    BY <1>1, <2>1, NumbersTyped DEF BusPins
<1>5. source' = source \o [k \in 1 .. size |-> Mention(PartPin(start + k - 1), names[k], TRUE)]
  BY <1>2 DEF link_bus
<1>6. [k \in 1 .. size |-> Mention(PartPin(start + k - 1), names[k], TRUE)] = Made(names, pins, TRUE)
  BY <1>3, <1>4 DEF Made, Mention
<1>7. Adds(source, source \o Made(names, pins, TRUE), names, pins, TRUE)
  <2>1. MentionsTyped(source)
    BY DEF SignalsTyped
  <2>2. \A k \in 1 .. Len(names) : pins[k] \in Recipe!Pin
    BY <1>3, <1>4
  <2>. QED
    BY ONLY <1>3, <2>1, <2>2, TRUE \in BOOLEAN, SourceAdds
<1>. QED
  BY <1>1, <1>3, <1>5, <1>6, <1>7

LEMMA BusTyped ==
  ASSUME SignalsTyped, OwnPinsTyped, OthersTyped,
         NEW start \in Nat, NEW size \in Nat, NEW signal, link_bus(start, size, signal)
  PROVE  SignalsTyped' /\ Signals \subseteq Signals' /\ has_error' \in BOOLEAN /\ Range(bus_numbers') \subseteq Nat \X Nat
<1>1. PICK names, first : names = BusNames(signal, size) /\ first = NumberInChip(start)
  OBVIOUS
<1>2. PICK T : /\ names \in Seq(T) /\ Len(names) = size
               /\ Adds(source, source', names, BusPins(start, size), TRUE)
  BY <1>1, BusRead
<1>3. names = [k \in 1 .. size |-> Append(signal, size - k)]
  BY <1>1 DEF BusNames
<1>4. Signals' = Signals \cup Range(names) /\ MentionsTyped(source')
  BY <1>2 DEF Adds, Signals, Mentioned
<1>5. first \in Nat
  BY <1>1, NumbersTyped
<1>6. /\ has_error' = (has_error \/ (signal \in DOMAIN bus_numbers /\ bus_numbers[signal][2] # size))
      /\ \/ /\ linkages' = linkages \o [k \in 1 .. size |-> <<names[k], first + k - 1, start >= INPUT_PIN_LIMIT>>]
            /\ UNCHANGED <<pin_numbers, bus_numbers>>
         \/ /\ pin_numbers' = Numbered(names, first)
            /\ bus_numbers' = Bus(signal, <<first, size>>)
            /\ UNCHANGED linkages
  BY <1>1, <1>3 DEF link_bus
<1>7. Range(pin_numbers) \subseteq Nat /\ DOMAIN pin_numbers \subseteq Signals
  BY DEF SignalsTyped
<1>8. DOMAIN pin_numbers' \subseteq Signals' /\ Range(pin_numbers') \subseteq Nat
  <2>1. /\ DOMAIN Numbered(names, first) = DOMAIN pin_numbers \cup Range(names)
        /\ Range(Numbered(names, first)) \subseteq Nat
    BY <1>2, <1>5, <1>7, NumbersGiven
  <2>. QED
    BY <1>4, <1>6, <1>7, <2>1
<1>9. linkages' \in Seq(Signals' \X Nat \X BOOLEAN)
  <2>1. linkages \in Seq(Signals' \X Nat \X BOOLEAN)
    BY <1>4, StillTyped
  <2>2. PICK B, l, m : /\ B = Signals' \X Nat \X BOOLEAN /\ l = linkages
                       /\ m = [k \in 1 .. size |-> <<names[k], first + k - 1, start >= INPUT_PIN_LIMIT>>]
    OBVIOUS
  <2>3. \A k \in 1 .. size : names[k] \in Signals' /\ first + k - 1 \in Nat /\ (start >= INPUT_PIN_LIMIT) \in BOOLEAN
    BY <1>2, <1>4, <1>5 DEF Range
  <2>4. m \in [1 .. size -> B]
    BY <2>2, <2>3
  <2>5. l \o m \in Seq(B)
    BY <2>1, <2>2, <2>4
  <2>. QED
    BY <1>6, <2>1, <2>2, <2>5
<1>10. Range(bus_numbers') \subseteq Nat \X Nat
  <2>1. Range(bus_numbers) \subseteq Nat \X Nat
    BY DEF OthersTyped
  <2>2. <<first, size>> \in Nat \X Nat
    BY <1>5
  <2>3. Range(Bus(signal, <<first, size>>)) \subseteq Nat \X Nat
    BY <2>1, <2>2, BusGiven
  <2>. QED
    BY <1>6, <2>1, <2>3
<1>11. SignalsTyped'
  BY <1>4, <1>8, <1>9 DEF SignalsTyped
<1>. QED
  BY <1>4, <1>6, <1>10, <1>11 DEF OthersTyped

LEMMA PinRead ==
  ASSUME SignalsTyped, OwnPinsTyped, OthersTyped, NEW number \in Nat, NEW signal, link_pin(number, signal)
  PROVE  Adds(source, source', <<signal>>, <<PartPin(number)>>, FALSE)
<1>1. PICK names, pins, p : names = <<signal>> /\ p = PartPin(number) /\ pins = <<p>>
  OBVIOUS
<1>2. names \in Seq({signal}) /\ Len(names) = 1 /\ names[1] = signal /\ pins[1] = p
  BY <1>1
<1>3. \A k \in 1 .. Len(names) : k = 1 /\ pins[k] \in Recipe!Pin
  BY <1>1, <1>2, NumbersTyped
<1>4. PICK e : e = [pin |-> p, signal |-> signal, whole |-> FALSE]
  OBVIOUS
<1>5. Made(names, pins, FALSE) = <<e>>
  <2>1. Made(names, pins, FALSE) = [k \in 1 .. 1 |-> [pin |-> pins[k], signal |-> names[k], whole |-> FALSE]]
    BY <1>2 DEF Made
  <2>2. \A k \in 1 .. 1 : [pin |-> pins[k], signal |-> names[k], whole |-> FALSE] = e
    <3>1. \A k \in 1 .. 1 : k = 1
      OBVIOUS
    <3>2. [pin |-> pins[1], signal |-> names[1], whole |-> FALSE] = e
      BY <1>2, <1>4
    <3>. QED
      BY ONLY <3>1, <3>2
  <2>3. Made(names, pins, FALSE) = [k \in 1 .. 1 |-> e]
    BY <2>1, <2>2
  <2>4. [k \in 1 .. 1 |-> e] = <<e>>
    OBVIOUS
  <2>. QED
    BY <2>3, <2>4
<1>6. MentionsTyped(source)
  BY DEF SignalsTyped
<1>7. source' = source \o <<e>>
  <2>1. PICK s, R : s = source /\ s \in Seq(R) /\ e \in R
    <3>1. source \in Seq(MentionsOf(Mentioned(source)) \cup {e})
      <4>1. PICK A, B, s : A = MentionsOf(Mentioned(source)) /\ B = A \cup {e} /\ s = source
        OBVIOUS
      <4>2. s \in Seq(A)
        BY <1>6, <4>1 DEF MentionsTyped
      <4>3. s \in Seq(B)
        BY ONLY <4>1, <4>2, SeqGrows
      <4>. QED
        BY <4>1, <4>3
    <3>. QED
      BY <3>1
  <2>2. source' = Append(s, e)
    BY <1>1, <1>4, <2>1 DEF link_pin, Mention
  <2>3. Append(s, e) = s \o <<e>>
    BY ONLY <2>1
  <2>. QED
    BY <2>1, <2>2, <2>3
<1>8. Adds(source, source \o Made(names, pins, FALSE), names, pins, FALSE)
  BY ONLY <1>2, <1>3, <1>6, FALSE \in BOOLEAN, SourceAdds
<1>. QED
  BY <1>1, <1>5, <1>7, <1>8

LEMMA PinTyped ==
  ASSUME SignalsTyped, OwnPinsTyped, OthersTyped, NEW number \in Nat, NEW signal, link_pin(number, signal)
  PROVE  SignalsTyped' /\ Signals \subseteq Signals' /\ UNCHANGED <<has_error, bus_numbers>>
<1>1. PICK names, first : names = <<signal>> /\ first = NumberInChip(number)
  OBVIOUS
<1>2. Adds(source, source', names, <<PartPin(number)>>, FALSE)
  BY <1>1, PinRead
<1>3. names \in Seq({signal}) /\ Range(names) = {signal}
  BY <1>1 DEF Range
<1>4. Signals' = Signals \cup {signal} /\ MentionsTyped(source')
  BY <1>2, <1>3 DEF Adds, Signals, Mentioned
<1>5. first \in Nat
  BY <1>1, NumbersTyped
<1>6. /\ pin_numbers' = pin_numbers \/ pin_numbers' = Numbered(names, first)
      /\ linkages' = linkages \/ linkages' = Append(linkages, <<signal, first, number >= INPUT_PIN_LIMIT>>)
      /\ UNCHANGED <<has_error, bus_numbers>>
  BY <1>1 DEF link_pin, Linkage
<1>7. Range(pin_numbers) \subseteq Nat /\ DOMAIN pin_numbers \subseteq Signals
  BY DEF SignalsTyped
<1>8. DOMAIN pin_numbers' \subseteq Signals' /\ Range(pin_numbers') \subseteq Nat
  <2>1. /\ DOMAIN Numbered(names, first) = DOMAIN pin_numbers \cup Range(names)
        /\ Range(Numbered(names, first)) \subseteq Nat
    BY <1>3, <1>5, <1>7, NumbersGiven
  <2>. QED
    BY <1>3, <1>4, <1>6, <1>7, <2>1
<1>9. linkages' \in Seq(Signals' \X Nat \X BOOLEAN)
  <2>1. linkages \in Seq(Signals' \X Nat \X BOOLEAN)
    BY <1>4, StillTyped
  <2>2. PICK B, l, e : /\ B = Signals' \X Nat \X BOOLEAN /\ l = linkages
                       /\ e = <<signal, first, number >= INPUT_PIN_LIMIT>>
    OBVIOUS
  <2>3. e \in B
    <3>1. signal \in Signals' /\ (number >= INPUT_PIN_LIMIT) \in BOOLEAN
      BY <1>4
    <3>. QED
      BY <1>5, <2>2, <3>1
  <2>4. Append(l, e) \in Seq(B)
    BY <2>1, <2>2, <2>3
  <2>. QED
    BY <1>6, <2>1, <2>2, <2>4
<1>10. SignalsTyped'
  BY <1>4, <1>8, <1>9 DEF SignalsTyped
<1>. QED
  BY <1>4, <1>6, <1>10

LEMMA LinkTyped ==
  ASSUME TypeOK, NEW chip, NEW pin, NEW signal, link(chip, pin, signal)
  PROVE  TypeOK'
<1>0. SignalsTyped /\ OwnPinsTyped /\ OthersTyped
  BY TypeParts
<1>1. SignalsTyped' /\ Signals \subseteq Signals' /\ has_error' \in BOOLEAN /\ Range(bus_numbers') \subseteq Nat \X Nat
  <2>0. has_error \in BOOLEAN /\ Range(bus_numbers) \subseteq Nat \X Nat
    BY <1>0 DEF OthersTyped
  <2>1. CASE UNCHANGED <<pin_numbers, bus_numbers, linkages, source>> /\ has_error' \in BOOLEAN
    <3>1. Signals' = Signals
      BY <2>1 DEF Signals
    <3>. QED
      BY <1>0, <2>0, <2>1, <3>1 DEF SignalsTyped
  <2>2. ASSUME subgate_added, NEW entry \in get_bus(subgate_name, pin), link_bus(entry.start, entry.size, signal)
        PROVE  /\ SignalsTyped' /\ Signals \subseteq Signals' /\ has_error' \in BOOLEAN
               /\ Range(bus_numbers') \subseteq Nat \X Nat
    <3>1. BusNumber(subgate_name, entry.start, entry.size)
      BY <2>2, BusesNumbered DEF subgate_added
    <3>2. PICK start, size : start = entry.start /\ size = entry.size
      OBVIOUS
    <3>3. start \in Nat /\ size \in Nat /\ link_bus(start, size, signal)
      BY <2>2, <3>1, <3>2 DEF BusNumber
    <3>. QED
      BY ONLY <1>0, <3>3, BusTyped
  <2>3. ASSUME subgate_added, NEW number \in get_pin(subgate_name, pin), link_pin(number, signal)
        PROVE  /\ SignalsTyped' /\ Signals \subseteq Signals' /\ UNCHANGED <<has_error, bus_numbers>>
    <3>1. number \in Nat
      BY <2>3, PinsNumbered DEF PinNumber, subgate_added
    <3>. QED
      BY ONLY <1>0, <2>3, <3>1, PinTyped
  <2>4. link_unknown => UNCHANGED <<pin_numbers, bus_numbers, linkages, source>> /\ has_error' \in BOOLEAN
    BY DEF link_unknown
  <2>. QED
    BY <2>0, <2>1, <2>2, <2>3, <2>4 DEF link
<1>2. OwnPinsTyped'
  <2>1. input_pins \in Seq(Signals') /\ output_pins \in Seq(Signals')
    BY <1>0, <1>1, StillTyped
  <2>. QED
    BY <1>0, <2>1 DEF link, OwnPinsTyped
<1>3. OthersTyped'
  BY <1>0, <1>1 DEF link, OthersTyped
<1>. QED
  BY <1>1, <1>2, <1>3, TypeParts

WireParts == [n \in 1 .. Len(linkages) |-> IF Resolved(linkages[n]) THEN <<wire_linkage(linkages[n])>> ELSE <<>>]

LEMMA WiresJoined ==
  ASSUME SignalsTyped
  PROVE  Joins(Nat \X Nat, Len(linkages), WiresUpTo, WireParts)
<1>1. PICK N, whole, parts, S :
        N = Len(linkages) /\ whole = WiresUpTo /\ parts = WireParts /\ S = Nat \X Nat
  OBVIOUS
<1>2. N \in Nat
  BY <1>1 DEF SignalsTyped
<1>3. ASSUME NEW n \in 1 .. N
      PROVE  /\ parts[n] = IF Resolved(linkages[n]) THEN <<wire_linkage(linkages[n])>> ELSE <<>>
             /\ parts[n] \in Seq(S)
  <2>1. parts[n] = IF Resolved(linkages[n]) THEN <<wire_linkage(linkages[n])>> ELSE <<>>
    BY <1>1 DEF WireParts
  <2>2. PICK l : l = linkages[n] /\ l[2] \in Nat
    BY <1>1 DEF SignalsTyped
  <2>3. CASE Resolved(l)
    <3>1. pin_numbers[l[1]] \in Nat
      BY <2>3 DEF Resolved, SignalsTyped, Range
    <3>2. wire_linkage(l) \in S
      BY <1>1, <2>2, <3>1 DEF wire_linkage
    <3>. QED
      BY <2>1, <2>2, <2>3, <3>2
  <2>4. CASE ~Resolved(l)
    BY <2>1, <2>2, <2>4
  <2>. QED
    BY <2>1, <2>3, <2>4
<1> DEFINE Wire(f) == f = [n \in 0 .. Len(linkages) |->
                  IF n = 0 THEN <<>>
                  ELSE f[n - 1] \o IF Resolved(linkages[n]) THEN <<wire_linkage(linkages[n])>> ELSE <<>>]
<1>4. ASSUME NEW f
      PROVE  Wire(f) <=> JoinsUpTo(f, N, parts)
  <2>1. ASSUME NEW n \in 0 .. N, n # 0
        PROVE  parts[n] = IF Resolved(linkages[n]) THEN <<wire_linkage(linkages[n])>> ELSE <<>>
    <3>1. n \in 1 .. N
      BY <1>2, <2>1
    <3>. QED
      BY <1>3, <3>1
  <2>2. [n \in 0 .. N |-> IF n = 0 THEN <<>> ELSE f[n - 1] \o
                             IF Resolved(linkages[n]) THEN <<wire_linkage(linkages[n])>> ELSE <<>>]
          = [n \in 0 .. N |-> IF n = 0 THEN <<>> ELSE f[n - 1] \o parts[n]]
    BY <2>1
  <2>. QED
    BY <1>1, <2>2 DEF JoinsUpTo
<1>5. \A n \in 1 .. N : parts[n] \in Seq(S)
  BY <1>3
<1>6. (\E f : JoinsUpTo(f, N, parts)) /\ (\A f : JoinsUpTo(f, N, parts) => Joins(S, N, f, parts))
  BY ONLY <1>2, <1>5, JoinedUpTo
<1>7. \E f : Wire(f)
  BY <1>4, <1>6
<1>8. whole = CHOOSE f : Wire(f)
  BY <1>1 DEF WiresUpTo
<1> HIDE DEF Wire
<1>9. Wire(whole)
  BY <1>7, <1>8
<1>. QED
  BY <1>1, <1>4, <1>6, <1>9

LEMMA WiresTyped ==
  ASSUME SignalsTyped
  PROVE  WiresUpTo[Len(linkages)] \in Seq(Nat \X Nat)
<1>1. Joins(Nat \X Nat, Len(linkages), WiresUpTo, WireParts)
  BY WiresJoined
<1>2. Len(linkages) \in 0 .. Len(linkages)
  BY DEF SignalsTyped
<1>. QED
  BY <1>1, <1>2 DEF Joins

\* When all linkages are resolved there is a wire for each.
LEMMA AllWired ==
  ASSUME SignalsTyped, \A k \in DOMAIN linkages : Resolved(linkages[k])
  PROVE  WiresUpTo[Len(linkages)] = [k \in 1 .. Len(linkages) |-> wire_linkage(linkages[k])]
<1>1. PICK N, whole, parts, S :
        N = Len(linkages) /\ whole = WiresUpTo /\ parts = WireParts /\ S = Nat \X Nat
  OBVIOUS
<1>2. Joins(S, N, whole, parts)
  BY <1>1, WiresJoined
<1>3. N \in Nat /\ DOMAIN linkages = 1 .. N
  BY <1>1 DEF SignalsTyped
<1>4. \A n \in 1 .. N : parts[n] = <<wire_linkage(linkages[n])>>
  BY <1>1, <1>3 DEF WireParts
<1> DEFINE First(n) == [k \in 1 .. n |-> wire_linkage(linkages[k])]
           Right == {n \in Nat : n <= N => whole[n] = First(n)}
<1>5. 0 \in Right
  <2>1. whole[0] = <<>>
    BY <1>2 DEF Joins
  <2>. QED
    BY <2>1
<1>6. ASSUME NEW n \in Nat, n \in Right
      PROVE  n + 1 \in Right
  <2> SUFFICES ASSUME n + 1 <= N
               PROVE  whole[n + 1] = First(n + 1)
    OBVIOUS
  <2>1. n + 1 \in 1 .. N /\ n \in 0 .. N /\ (n + 1) - 1 = n
    BY <1>3
  <2>2. PICK a, b, w : a = whole[n] /\ b = First(n + 1) /\ w = wire_linkage(linkages[n + 1])
    OBVIOUS
  <2>3. a \in Seq(S) /\ whole[n + 1] = a \o <<w>>
    BY <1>2, <1>4, <2>1, <2>2 DEF Joins
  <2>4. w \in S
    <3>1. parts[n + 1] \in Seq(S) /\ parts[n + 1] = <<w>>
      BY <1>2, <1>4, <2>1, <2>2 DEF Joins
    <3>2. <<w>>[1] \in S
      BY <3>1
    <3>. QED
      BY <3>2
  <2>5. a = First(n)
    BY <1>6, <2>1, <2>2
  <2>6. Len(a) = n /\ \A k \in 1 .. n : a[k] = wire_linkage(linkages[k])
    BY <2>3, <2>5
  <2>7. \A k \in 1 .. n + 1 : b[k] = IF k = n + 1 THEN w ELSE a[k]
    BY <2>2, <2>6
  <2>8. b = [k \in 1 .. n + 1 |-> IF k = n + 1 THEN w ELSE a[k]]
    BY <2>2, <2>6
  <2>9. a \o <<w>> = [k \in 1 .. n + 1 |-> IF k = n + 1 THEN w ELSE a[k]]
    BY ONLY <2>3, <2>4, <2>6, n \in Nat
  <2>. QED
    BY <2>2, <2>3, <2>8, <2>9
<1>7. Nat \subseteq Right
  <2> HIDE DEF Right
  <2>. QED
    BY <1>5, <1>6, SetInduction
<1>8. whole[N] = First(N)
  BY <1>3, <1>7
<1>. QED
  BY <1>1, <1>8

LEMMA EndTyped ==
  ASSUME TypeOK, end_part \/ end_part_unknown \/ CHIP_end \/ CHIP_broken
  PROVE  TypeOK'
<1>0. SignalsTyped /\ OwnPinsTyped /\ OthersTyped
  BY TypeParts
<1>1. UNCHANGED <<input_pins, output_pins, dependencies, bus, pin_numbers, bus_numbers, linkages,
                  context_gate_metadata, source>>
  BY DEF end_part, end_part_unknown, CHIP_end, CHIP_broken
<1>2. Signals' = Signals
  BY <1>1 DEF Signals
<1>3. SignalsTyped'
  BY <1>0, <1>1, <1>2 DEF SignalsTyped
<1>4. input_pin_offset' \in Nat /\ output_pin_offset' \in Nat
  <2>0. input_pin_offset \in Nat /\ output_pin_offset \in Nat
    BY <1>0 DEF OwnPinsTyped
  <2>1. CASE end_part
    <3>1. context_gate_metadata \in DOMAIN Chips
      BY <1>0, <2>1 DEF end_part, OthersTyped
    <3>2. Len(InputNames[context_gate_metadata]) \in Nat /\ Len(OutputNames[context_gate_metadata]) \in Nat
      BY <3>1, ChipListed DEF Listed
    <3>3. PICK a, b : a = Len(InputNames[context_gate_metadata]) /\ b = Len(OutputNames[context_gate_metadata])
      OBVIOUS
    <3>4. input_pin_offset' = input_pin_offset + a /\ output_pin_offset' = output_pin_offset + b
      BY <2>1, <3>3 DEF end_part
    <3>. QED
      BY ONLY <2>0, <3>2, <3>3, <3>4
  <2>2. CASE end_part_unknown \/ CHIP_end \/ CHIP_broken
    BY <2>0, <2>2 DEF end_part_unknown, CHIP_end, CHIP_broken
  <2>. QED
    BY <2>1, <2>2
<1>5. OwnPinsTyped'
  BY <1>0, <1>1, <1>2, <1>4 DEF OwnPinsTyped
<1>6. wire_linkages' \in Seq(Nat \X Nat)
  <2>1. wire_linkages \in Seq(Nat \X Nat)
    BY <1>0 DEF OthersTyped
  <2>. QED
    BY <1>0, <2>1, WiresTyped DEF end_part, end_part_unknown, CHIP_end, CHIP_broken
<1>7. has_error' \in BOOLEAN
  <2>1. has_error \in BOOLEAN
    BY <1>0 DEF OthersTyped
  <2>. QED
    BY <2>1 DEF end_part, end_part_unknown, CHIP_end, CHIP_broken
<1>8. phase' \in {"parts", "crashed", "done", "unfinished", "looping"}
  BY DEF end_part, end_part_unknown, CHIP_end, CHIP_broken
<1>9. OthersTyped'
  BY <1>0, <1>1, <1>6, <1>7, <1>8 DEF OthersTyped
<1>. QED
  BY <1>3, <1>5, <1>9, TypeParts

LEMMA TypeInit == Init => TypeOK
<1> SUFFICES ASSUME Init
             PROVE  TypeOK
  OBVIOUS
<1>1. Signals = {} /\ MentionsTyped(source)
  BY DEF Init, Signals, MentionsTyped
<1>2. DOMAIN pin_numbers = {} /\ DOMAIN bus_numbers = {}
  BY DEF Init
<1>3. Range(pin_numbers) = {} /\ Range(bus_numbers) = {}
  BY <1>2 DEF Range
<1>4. SignalsTyped
  BY <1>1, <1>2, <1>3 DEF Init, SignalsTyped
<1>5. <<>> \in Seq(Signals) /\ <<>> \in Seq(Parts) /\ <<>> \in Seq(Nat \X Nat)
  OBVIOUS
<1>6. OwnPinsTyped
  BY <1>5 DEF Init, OwnPinsTyped
<1>7. OthersTyped
  <2>1. Range(bus_numbers) \subseteq Nat \X Nat
    BY <1>3
  <2>2. \A b \in bus : b[2] \in Nat /\ b[3] \in Nat
    BY DEF Init
  <2>. QED
    BY <1>5, <2>1, <2>2 DEF Init, OthersTyped
<1>. QED
  BY <1>4, <1>6, <1>7, TypeParts

LEMMA TypeKept == TypeOK /\ [Next]_vars => TypeOK'
<1> SUFFICES ASSUME TypeOK, [Next]_vars
             PROVE  TypeOK'
  OBVIOUS
<1>1. CASE \E d \in Ins : IN_statement(d)
  BY <1>1, IN_typed
<1>2. CASE \E d \in Outs : OUT_statement(d)
  BY <1>2, OUT_typed
<1>3. CASE \E name \in Parts : PARTS_statement(name) \/ SUBGATE_statement(name)
  BY <1>3, PartTyped
<1>4. CASE \E l \in Links : link(l[1], l[2], l[3])
  BY <1>4, LinkTyped
<1>5. CASE end_part \/ end_part_unknown \/ CHIP_end \/ CHIP_broken
  BY <1>5, EndTyped
<1>6. CASE UNCHANGED vars
  BY <1>6 DEF vars, TypeOK, Signals
<1>. QED
  BY <1>1, <1>2, <1>3, <1>4, <1>5, <1>6 DEF Next

\* The pins, the signals and the numbers of a source stay what they are, whatever it says
\* (parser.hpp:100-812).
THEOREM HdlTyped == Spec => []TypeOK
  BY TypeInit, TypeKept, PTL DEF Spec

-----------------------------------------------------------------------------
(* The invariant, of sources that are in order so far. *)

Fine == Orderly /\ ~has_error

\* The pins of the last part are not counted yet, and never are after a crash.
InPart == phase \in {"PARTS", "PARTS,", "SUBGATE", "SUBGATE,", "crashed"}

\* The pins of one side that are counted, and those of the part that is being read, which are not.
SideCounted(own, pins, offset) == offset = own + Len(pins)

SideCounting(own, pins, offset, part, side, size) ==
  /\ offset >= own
  /\ offset + size = own + Len(pins)
  /\ \A k \in 1 .. size : pins[offset - own + k] = <<part, side, k - 1>>

PinsCounted ==
  IF InPart
  THEN /\ dependencies # <<>> /\ subgate_added /\ context_gate_metadata = subgate_name
       /\ SideCounting(Len(input_pins), PartInputs(dependencies), input_pin_offset,
                       Len(dependencies), "in", Len(InputNames[subgate_name]))
       /\ SideCounting(Len(output_pins), PartOutputs(dependencies), output_pin_offset,
                       Len(dependencies), "out", Len(OutputNames[subgate_name]))
  ELSE /\ SideCounted(Len(input_pins), PartInputs(dependencies), input_pin_offset)
       /\ SideCounted(Len(output_pins), PartOutputs(dependencies), output_pin_offset)

\* Before the first part only the chip's own pins are mentioned; a part that has been read has
\* been mentioned.
DeclaredFirst ==
  /\ dependencies = <<>> => \A m \in DOMAIN source : source[m].pin[1] = 0
  /\ dependencies # <<>> /\ phase \notin {"PARTS", "SUBGATE"} => \E m \in DOMAIN source : source[m].pin[1] > 0

OwnBy(pins, side, m) == \E k \in DOMAIN pins : m.signal = pins[k] /\ m.pin = <<0, side, k - 1>>

OwnMentions ==
  \A m \in DOMAIN source : source[m].pin[1] = 0 =>
    OwnBy(input_pins, "in", source[m]) \/ OwnBy(output_pins, "out", source[m])

\* The pins that the numbers are.
PinAt == [n \in Nat |-> PinOf(n)]

Named ==
  /\ KnownBy(source, pin_numbers, PinAt)
  /\ LinkedBy(source, linkages, PinAt)
  /\ ToldBy(source, pin_numbers, linkages, PinAt)

\* The places of a known bus are known, and what is mentioned as a part of a bus is one.
IsName(s) == Len(s) \in Nat /\ s = [k \in 1 .. Len(s) |-> s[k]]

PlaceOf(x, signal) == \E j \in Nat : signal = Append(x, j)

Buses ==
  /\ \A x \in DOMAIN bus_numbers :
       /\ IsName(x)
       /\ \A j \in 0 .. bus_numbers[x][2] - 1 : Append(x, j) \in DOMAIN pin_numbers
  /\ \A m \in DOMAIN source : source[m].whole => \E x \in DOMAIN bus_numbers : PlaceOf(x, source[m].signal)

\* What the meta file says of buses.
Distinct(names) == \A j, k \in DOMAIN names : names[j] = names[k] => j = k
Apart(names, others) == \A j \in DOMAIN names, k \in DOMAIN others : names[j] # others[k]

OwnNames == Distinct(input_pins) /\ Distinct(output_pins) /\ Apart(input_pins, output_pins)

BusAt(pins, first, b) == \A k \in 1 .. b[3] : first + k \in DOMAIN pins /\ pins[first + k] = <<b[1], b[3] - k>>

OwnBuses == \A b \in bus : BusAt(input_pins, b[2], b) \/ BusAt(output_pins, b[2] - INPUT_PIN_LIMIT, b)

\* At the end every linkage has become a wire.
Wired ==
  phase = "done" => wire_linkages = [k \in 1 .. Len(linkages) |-> wire_linkage(linkages[k])]

InOrder ==
  /\ PinsCounted /\ DeclaredFirst /\ OwnMentions
  /\ Named /\ Buses
  /\ OwnNames /\ OwnBuses /\ Wired

IInv == TypeOK /\ (Fine => InOrder)

-----------------------------------------------------------------------------
(* The pins that numbers are, before a step and after it. *)

PlaceMap(a, p, b, q) == [n \in Nat |-> Place(a, p, b, q, n)]

LEMMA PinsAre ==
  /\ PinAt = PlaceMap(Len(input_pins), PartInputs(dependencies), Len(output_pins), PartOutputs(dependencies))
  /\ PinAt' = PlaceMap(Len(input_pins'), PartInputs(dependencies'),
                       Len(output_pins'), PartOutputs(dependencies'))
<1>1. \A n \in Nat : PinOf(n) = Place(Len(input_pins), PartInputs(dependencies),
                                      Len(output_pins), PartOutputs(dependencies), n)
  BY DEF PinOf, Recipe!get_pin, Recipe!nullptr, Place
<1>2. \A n \in Nat : PinOf(n)' = Place(Len(input_pins'), PartInputs(dependencies'),
                                       Len(output_pins'), PartOutputs(dependencies'), n)
  BY DEF PinOf, Recipe!get_pin, Recipe!nullptr, Place, PartInputs, PartOutputs
<1>. QED
  BY <1>1, <1>2 DEF PinAt, PlaceMap

LEMMA SidesTyped ==
  ASSUME NEW parts \in Seq(Parts)
  PROVE  PartInputs(parts) \in Seq(Recipe!Pin) /\ PartOutputs(parts) \in Seq(Recipe!Pin)
<1>1. Len(parts) \in Nat /\ Len(parts) \in 0 .. Len(parts) /\ Listed(InputNames) /\ Listed(OutputNames)
  BY ChipListed
<1>2. /\ Joins(Recipe!Pin, Len(parts), PinsUpTo(parts, "in", InputNames), PartPins(parts, "in", InputNames))
      /\ Joins(Recipe!Pin, Len(parts), PinsUpTo(parts, "out", OutputNames), PartPins(parts, "out", OutputNames))
  BY ONLY <1>1, PinsJoined
<1>. QED
  BY ONLY <1>1, <1>2 DEF Joins, PartInputs, PartOutputs

LEMMA SidesEmpty == PartInputs(<<>>) = <<>> /\ PartOutputs(<<>>) = <<>>
<1>1. PICK parts : parts = <<>>
  OBVIOUS
<1>2. Len(parts) = 0
  BY <1>1
<1>3. PinsOf(parts, "in", InputNames) = <<>> /\ PinsOf(parts, "out", OutputNames) = <<>>
  BY <1>2, ChipListed, NoPins
<1>. QED
  BY <1>1, <1>3 DEF PartInputs, PartOutputs, PinsOf

LEMMA SidesAdded ==
  ASSUME NEW parts \in Seq(Parts), NEW part \in Parts
  PROVE  /\ PartInputs(Append(parts, part))
              = PartInputs(parts) \o PinsOfPart(Len(parts) + 1, part, "in", InputNames)
         /\ PartOutputs(Append(parts, part))
              = PartOutputs(parts) \o PinsOfPart(Len(parts) + 1, part, "out", OutputNames)
<1>1. /\ PinsOf(Append(parts, part), "in", InputNames)
           = PinsOf(parts, "in", InputNames) \o PinsOfPart(Len(parts) + 1, part, "in", InputNames)
      /\ PinsOf(Append(parts, part), "out", OutputNames)
           = PinsOf(parts, "out", OutputNames) \o PinsOfPart(Len(parts) + 1, part, "out", OutputNames)
  BY ChipListed, PinsAdded
<1>. QED
  BY <1>1 DEF PartInputs, PartOutputs, PinsOf

\* The sides of a chip grow by a step.
SidesGrow ==
  /\ SideGrows(Len(input_pins), PartInputs(dependencies), Len(input_pins'), PartInputs(dependencies'))
  /\ SideGrows(Len(output_pins), PartOutputs(dependencies), Len(output_pins'), PartOutputs(dependencies'))

LEMMA PinsStay ==
  ASSUME TypeOK, TypeOK', SidesGrow
  PROVE  \A n \in Nat : PinAt[n] # <<>> => PinAt'[n] = PinAt[n]
<1>1. PICK a, p, b, q : /\ a = Len(input_pins) /\ p = PartInputs(dependencies)
                        /\ b = Len(output_pins) /\ q = PartOutputs(dependencies)
  OBVIOUS
<1>2. PICK a2, p2, b2, q2 : /\ a2 = Len(input_pins') /\ p2 = PartInputs(dependencies')
                            /\ b2 = Len(output_pins') /\ q2 = PartOutputs(dependencies')
  OBVIOUS
<1>3. input_pins \in Seq(Signals) /\ output_pins \in Seq(Signals)
  BY DEF TypeOK
<1>4. input_pins' \in Seq(Signals') /\ output_pins' \in Seq(Signals')
  BY DEF TypeOK
<1>5. a \in Nat /\ b \in Nat /\ a2 \in Nat /\ b2 \in Nat
  BY <1>1, <1>2, <1>3, <1>4
<1>6. PICK S : S = Recipe!Pin
  OBVIOUS
<1>7. p \in Seq(S) /\ q \in Seq(S) /\ p2 \in Seq(S) /\ q2 \in Seq(S)
  <2>1. dependencies \in Seq(Parts) /\ dependencies' \in Seq(Parts)
    BY DEF TypeOK
  <2>. QED
    BY <1>1, <1>2, <1>6, <2>1, SidesTyped
<1>8. SideGrows(a, p, a2, p2) /\ SideGrows(b, q, b2, q2)
  BY <1>1, <1>2 DEF SidesGrow
<1>9. \A n \in Nat : Place(a, p, b, q, n) # <<>> => Place(a2, p2, b2, q2, n) = Place(a, p, b, q, n)
  <2>1. Sides(S, a, p, b, q) /\ Sides(S, a2, p2, b2, q2)
    BY <1>5, <1>7 DEF Sides
  <2>. QED
    BY ONLY <1>8, <2>1, PlacesStay
<1>10. PinAt = PlaceMap(a, p, b, q) /\ PinAt' = PlaceMap(a2, p2, b2, q2)
  BY <1>1, <1>2, PinsAre
<1>. QED
  BY ONLY <1>9, <1>10 DEF PlaceMap

LEMMA SidesSame ==
  ASSUME TypeOK, UNCHANGED <<input_pins, output_pins, dependencies>>
  PROVE  SidesGrow /\ PinAt' = PinAt
<1>1. SidesGrow
  <2>1. dependencies \in Seq(Parts)
    BY DEF TypeOK
  <2>2. Len(PartInputs(dependencies)) \in Nat /\ Len(PartOutputs(dependencies)) \in Nat
    BY <2>1, SidesTyped
  <2>. QED
    BY <2>2 DEF SidesGrow, SideGrows
<1>. QED
  BY <1>1, PinsAre

\* A source that is in order was so before.
LEMMA FineBefore ==
  ASSUME TypeOK, TypeOK', Fine', NEW q, Grows(source, source', Len(source), q), has_error => has_error',
         Len(input_pins) + Len(PartInputs(dependencies)) <= Len(input_pins') + Len(PartInputs(dependencies'))
  PROVE  Fine
<1>1. HeaderFirst
  <2>1. PICK p : p = Len(source)
    OBVIOUS
  <2>2. DOMAIN source = 1 .. p /\ DOMAIN source' = 1 .. q /\ p \in Nat /\ q \in Nat /\ p <= q
    BY <2>1 DEF Grows
  <2>3. \A m \in 1 .. p : m \in 1 .. q /\ source'[m] = source[m]
    BY <2>1, <2>2 DEF Grows
  <2>4. \A m, n \in 1 .. q : m < n /\ source'[n].pin[1] = 0 => source'[m].pin[1] = 0
    BY <2>2 DEF Fine, Orderly, HeaderFirst
  <2>5. \A m, n \in 1 .. p : m < n /\ source[n].pin[1] = 0 => source[m].pin[1] = 0
    BY <2>3, <2>4
  <2>. QED
    BY <2>2, <2>5 DEF HeaderFirst
<1>2. Addressable
  <2>1. PICK a, b, c, d : /\ a = Len(input_pins) /\ b = Len(PartInputs(dependencies))
                          /\ c = Len(input_pins') /\ d = Len(PartInputs(dependencies'))
    OBVIOUS
  <2>2. input_pins \in Seq(Signals) /\ dependencies \in Seq(Parts)
    BY DEF TypeOK
  <2>3. input_pins' \in Seq(Signals') /\ dependencies' \in Seq(Parts)
    BY DEF TypeOK
  <2>4. a \in Nat /\ b \in Nat /\ c \in Nat /\ d \in Nat
    BY <2>1, <2>2, <2>3, SidesTyped
  <2>5. c + d <= INPUT_PIN_LIMIT
    BY <2>1 DEF Fine, Orderly, Addressable, PartInputs
  <2>6. a + b <= INPUT_PIN_LIMIT
    BY <2>1, <2>4, <2>5, PinLimitAssumption
  <2>. QED
    BY <2>1, <2>6 DEF Addressable
<1>. QED
  BY <1>1, <1>2 DEF Fine, Orderly

-----------------------------------------------------------------------------
(* What the steps of the parser keep. *)

LEMMA MentionFields ==
  ASSUME NEW S, MentionsTyped(S)
  PROVE  /\ Len(S) \in Nat /\ DOMAIN S = 1 .. Len(S)
         /\ \A m \in DOMAIN S : /\ S[m].pin \in Recipe!Pin /\ S[m].pin # <<>>
                               /\ S[m].signal \in Mentioned(S) /\ S[m].whole \in BOOLEAN
<1>1. PICK A, R, P : A = Mentioned(S) /\ R = MentionsOf(A) /\ P = Recipe!Pin
  OBVIOUS
<1>2. S \in Seq(R)
  BY <1>1 DEF MentionsTyped
<1>3. Len(S) \in Nat /\ DOMAIN S = 1 .. Len(S) /\ \A m \in DOMAIN S : S[m] \in R
  BY ONLY <1>2
<1>4. \A e \in R : e.pin \in P /\ e.signal \in A /\ e.whole \in BOOLEAN
  BY <1>1 DEF MentionsOf
<1>5. ASSUME NEW pin \in P
      PROVE  pin # <<>>
  <2>1. PICK a, b, c : pin = <<a, b, c>>
    BY <1>1 DEF Recipe!Pin
  <2>2. Len(<<a, b, c>>) = 3 /\ Len(<<>>) = 0
    OBVIOUS
  <2>. QED
    BY <2>1, <2>2
<1>. QED
  BY <1>1, <1>3, <1>4, <1>5

LEMMA NamedKept ==
  ASSUME TypeOK, TypeOK', Named, SidesGrow, NEW q, NEW j,
         Grows(source, source', Len(source), q), Grows(linkages, linkages', Len(linkages), j),
         \A k \in Len(linkages) + 1 .. j :
           \E m \in Len(source) + 1 .. q : Leads(PinAt', linkages'[k], source'[m]),
         \/ Fresh(source, source', pin_numbers, pin_numbers', PinAt', Len(source), q)
         \/ Later(source', pin_numbers, pin_numbers', linkages', PinAt', Len(source), q)
  PROVE  Named'
<1>1. PICK S, S2, N, N2, L, L2, P, P2 :
        /\ S = source /\ S2 = source' /\ N = pin_numbers /\ N2 = pin_numbers'
        /\ L = linkages /\ L2 = linkages' /\ P = PinAt /\ P2 = PinAt'
  OBVIOUS
<1>2. PICK p, i : p = Len(source) /\ i = Len(linkages)
  OBVIOUS
<1>3. Grows(S, S2, p, q) /\ Grows(L, L2, i, j)
  BY <1>1, <1>2
<1>4. \A m \in DOMAIN S : S[m].pin # <<>>
  <2>1. MentionsTyped(source)
    BY TypeParts DEF SignalsTyped
  <2>. QED
    BY <1>1, <2>1, MentionFields
<1>5. \A k \in DOMAIN L : L[k][2] \in Nat
  <2>1. linkages \in Seq(Signals \X Nat \X BOOLEAN)
    BY DEF TypeOK
  <2>. QED
    BY <1>1, <2>1
<1>6. \A s \in DOMAIN N : N[s] \in Nat
  BY <1>1 DEF TypeOK, Range
<1>7. \A n \in Nat : P[n] # <<>> => P2[n] = P[n]
  BY <1>1, PinsStay
<1>8. KnownBy(S, N, P) /\ LinkedBy(S, L, P) /\ ToldBy(S, N, L, P)
  BY <1>1 DEF Named
<1>9. \A k \in i + 1 .. j : \E m \in p + 1 .. q : Leads(P2, L2[k], S2[m])
  BY <1>1, <1>2
<1>10. Fresh(S, S2, N, N2, P2, p, q) \/ Later(S2, N, N2, L2, P2, p, q)
  BY <1>1, <1>2
<1>11. KnownBy(S2, N2, P2) /\ LinkedBy(S2, L2, P2) /\ ToldBy(S2, N2, L2, P2)
  BY ONLY <1>3, <1>4, <1>5, <1>6, <1>7, <1>8, <1>9, <1>10, NamesKept
<1>. QED
  BY <1>1, <1>11 DEF Named

\* Nothing is mentioned or linked.
LEMMA NamedStays ==
  ASSUME TypeOK, TypeOK', Named, SidesGrow, UNCHANGED <<source, pin_numbers, linkages>>
  PROVE  Named'
<1>1. PICK p, j : p = Len(source) /\ j = Len(linkages)
  OBVIOUS
<1>2. p \in Nat /\ j \in Nat /\ DOMAIN source = 1 .. p /\ DOMAIN linkages = 1 .. j
  <2>1. source \in Seq([pin : Recipe!Pin, signal : Signals, whole : BOOLEAN])
    BY DEF TypeOK
  <2>2. linkages \in Seq(Signals \X Nat \X BOOLEAN)
    BY DEF TypeOK
  <2>. QED
    BY <1>1, <2>1, <2>2
<1>3. Grows(source, source', p, p) /\ Grows(linkages, linkages', j, j)
  BY <1>2 DEF Grows
<1>4. p + 1 .. p = {} /\ j + 1 .. j = {}
  BY <1>2
<1>5. Later(source', pin_numbers, pin_numbers', linkages', PinAt', p, p)
  BY <1>4 DEF Later
<1>. QED
  BY <1>1, <1>3, <1>4, <1>5, NamedKept

\* Different names have the numbers from the given one on.
NumberedFrom(given, before, names, from) ==
  /\ DOMAIN given = DOMAIN before \cup Range(names)
  /\ \A s \in DOMAIN before : s \notin Range(names) => given[s] = before[s]
  /\ \A k \in 1 .. Len(names) : given[names[k]] = from + k - 1

LEMMA NumbersOf ==
  ASSUME NEW T, NEW names \in Seq(T), Distinct(names), NEW from \in Nat, Range(pin_numbers) \subseteq Nat
  PROVE  NumberedFrom(Numbered(names, from), pin_numbers, names, from)
<1>1. /\ DOMAIN Numbered(names, from) = DOMAIN pin_numbers \cup Range(names)
      /\ \A s \in DOMAIN pin_numbers : s \notin Range(names) => Numbered(names, from)[s] = pin_numbers[s]
  BY NumbersGiven
<1>2. \A j, k \in 1 .. Len(names) : names[j] = names[k] => j = k
  <2>1. DOMAIN names = 1 .. Len(names)
    OBVIOUS
  <2>. QED
    BY <2>1 DEF Distinct
<1>3. \A k \in 1 .. Len(names) : Numbered(names, from)[names[k]] = from + k - 1
  BY <1>2, NumbersGiven
<1>. QED
  BY <1>1, <1>3 DEF NumberedFrom

\* New names get the numbers of the pins that mention them.
LEMMA FreshNames ==
  ASSUME TypeOK, NEW T, NEW names \in Seq(T), Distinct(names), NEW pins, NEW whole \in BOOLEAN,
         Adds(source, source', names, pins, whole),
         NEW from \in Nat, pin_numbers' = Numbered(names, from),
         NEW P, \A k \in 1 .. Len(names) : P[from + k - 1] = pins[k],
         \A m \in DOMAIN source, k \in 1 .. Len(names) :
           source[m].signal = names[k] => whole /\ ~source[m].whole
  PROVE  Fresh(source, source', pin_numbers, pin_numbers', P, Len(source), Len(source) + Len(names))
<1>1. PICK S, S2, N, N2, p, n :
        /\ S = source /\ S2 = source' /\ N = pin_numbers /\ N2 = pin_numbers'
        /\ p = Len(source) /\ n = Len(names)
  OBVIOUS
<1>2. n \in Nat /\ DOMAIN names = 1 .. n
  BY <1>1
<1>3. p \in Nat /\ DOMAIN S = 1 .. p
  <2>1. source \in Seq([pin : Recipe!Pin, signal : Signals, whole : BOOLEAN])
    BY DEF TypeOK
  <2>. QED
    BY <1>1, <2>1
<1>4. /\ \A k \in 1 .. n : /\ p + k \in p + 1 .. p + n
                          /\ S2[p + k] = [pin |-> pins[k], signal |-> names[k], whole |-> whole]
      /\ \A m \in p + 1 .. p + n : m - p \in 1 .. n /\ m = p + (m - p)
  BY <1>1 DEF Adds
<1>5. \A m \in p + 1 .. p + n : /\ m - p \in 1 .. n /\ S2[m].signal = names[m - p]
                                /\ S2[m].pin = pins[m - p] /\ S2[m].whole = whole
  <2>1. ASSUME NEW m \in p + 1 .. p + n
        PROVE  /\ m - p \in 1 .. n /\ S2[m].signal = names[m - p]
               /\ S2[m].pin = pins[m - p] /\ S2[m].whole = whole
    <3>1. PICK k \in 1 .. n : k = m - p /\ m = p + k
      BY <1>4
    <3>2. PICK e, a, b : e = S2[m] /\ a = pins[k] /\ b = names[k]
      OBVIOUS
    <3>3. e = [pin |-> a, signal |-> b, whole |-> whole]
      BY <1>4, <3>1, <3>2
    <3>4. e.pin = a /\ e.signal = b /\ e.whole = whole
      BY ONLY <3>3
    <3>. QED
      BY ONLY <3>1, <3>2, <3>4
  <2>. QED
    BY <2>1
<1>6. /\ DOMAIN N2 = DOMAIN N \cup Range(names)
      /\ \A s \in DOMAIN N : s \notin Range(names) => N2[s] = N[s]
      /\ \A k \in 1 .. n : N2[names[k]] = from + k - 1
  <2>1. Range(pin_numbers) \subseteq Nat
    BY DEF TypeOK
  <2>2. NumberedFrom(Numbered(names, from), pin_numbers, names, from)
    BY <2>1, NumbersOf
  <2>. QED
    BY <1>1, <2>2 DEF NumberedFrom
<1>7. Range(names) = {S2[m].signal : m \in p + 1 .. p + n}
  <2>1. ASSUME NEW k \in 1 .. n
        PROVE  names[k] \in {S2[m].signal : m \in p + 1 .. p + n}
    <3>1. PICK m : m = p + k
      OBVIOUS
    <3>2. m \in p + 1 .. p + n /\ S2[m] = [pin |-> pins[k], signal |-> names[k], whole |-> whole]
      BY <1>4, <3>1
    <3>3. S2[m].signal = names[k]
      BY <3>2
    <3>. QED
      BY <3>2, <3>3
  <2>2. \A m \in p + 1 .. p + n : S2[m].signal \in Range(names)
    BY <1>2, <1>5 DEF Range
  <2>. QED
    BY <1>2, <2>1, <2>2 DEF Range
<1>8. \A m \in p + 1 .. p + n : P[N2[S2[m].signal]] = S2[m].pin
  <2> SUFFICES ASSUME NEW m \in p + 1 .. p + n
               PROVE  P[N2[S2[m].signal]] = S2[m].pin
    OBVIOUS
  <2>1. PICK k \in 1 .. n : k = m - p /\ S2[m].signal = names[k] /\ S2[m].pin = pins[k]
    BY <1>5
  <2>. QED
    BY <1>1, <1>6, <2>1
<1>9. \A s \in DOMAIN N : (\A m \in p + 1 .. p + n : S2[m].signal # s) => N2[s] = N[s]
  BY <1>6, <1>7
<1>10. ASSUME NEW l \in p + 1 .. p + n, NEW m \in p + 1 .. p + n, S2[l].signal = S2[m].signal
       PROVE  l = m
  <2>1. l - p = m - p
    BY <1>2, <1>5, <1>10 DEF Distinct
  <2>. QED
    BY <1>2, <1>3, <2>1
<1>11. \A l \in 1 .. p, m \in p + 1 .. p + n : S[l].signal = S2[m].signal => S2[m].whole /\ ~S[l].whole
  <2> SUFFICES ASSUME NEW l \in 1 .. p, NEW m \in p + 1 .. p + n, S[l].signal = S2[m].signal
               PROVE  S2[m].whole /\ ~S[l].whole
    OBVIOUS
  <2>1. PICK k \in 1 .. n : S2[m].signal = names[k] /\ S2[m].whole = whole
    BY <1>5
  <2>2. l \in DOMAIN source /\ k \in 1 .. Len(names) /\ source[l].signal = names[k] /\ S[l] = source[l]
    BY <1>1, <1>3, <2>1
  <2>3. whole /\ ~source[l].whole
    BY <2>2
  <2>. QED
    BY <2>1, <2>2, <2>3
<1>12. Fresh(S, S2, N, N2, P, p, p + n)
  BY ONLY <1>6, <1>7, <1>8, <1>9, <1>10, <1>11 DEF Fresh
<1>. QED
  BY <1>1, <1>12

\* The places of a new bus are told apart.
LEMMA PlacesApart ==
  ASSUME NEW x, NEW y, IsName(x), IsName(y), NEW i, NEW j, Append(x, i) = Append(y, j)
  PROVE  x = y /\ i = j
<1>1. PICK S : S = Range(x) \cup Range(y) \cup {i, j}
  OBVIOUS
<1>2. x \in Seq(S) /\ y \in Seq(S) /\ i \in S /\ j \in S
  <2>1. x \in [1 .. Len(x) -> S] /\ y \in [1 .. Len(y) -> S]
    BY <1>1 DEF IsName, Range
  <2>. QED
    BY <1>1, <2>1 DEF IsName
<1>3. Len(Append(x, i)) = Len(x) + 1 /\ Len(Append(y, j)) = Len(y) + 1
  BY <1>2
<1>4. Len(x) = Len(y)
  BY <1>2, <1>3
<1>5. Append(x, i)[Len(x) + 1] = i /\ Append(y, j)[Len(y) + 1] = j
  BY <1>2
<1>6. i = j
  BY <1>4, <1>5
<1>7. \A k \in 1 .. Len(x) : x[k] = y[k]
  <2>1. \A k \in 1 .. Len(x) : Append(x, i)[k] = x[k]
    BY <1>2
  <2>2. \A k \in 1 .. Len(y) : Append(y, j)[k] = y[k]
    BY <1>2
  <2>. QED
    BY <1>4, <2>1, <2>2
<1>8. x = y
  BY <1>4, <1>7 DEF IsName
<1>. QED
  BY <1>6, <1>8

LEMMA BusNamesAre ==
  ASSUME NEW x, IsName(x), NEW size \in Nat
  PROVE  /\ \E T : BusNames(x, size) \in Seq(T)
         /\ Len(BusNames(x, size)) = size /\ DOMAIN BusNames(x, size) = 1 .. size
         /\ \A k \in 1 .. size : BusNames(x, size)[k] = Append(x, size - k)
         /\ Distinct(BusNames(x, size))
<1>1. PICK names : names = BusNames(x, size) /\ names = [k \in 1 .. size |-> Append(x, size - k)]
  BY DEF BusNames
<1>2. PICK T : T = {Append(x, size - k) : k \in 1 .. size}
  OBVIOUS
<1>3. names \in [1 .. size -> T]
  BY <1>1, <1>2
<1>4. names \in Seq(T) /\ Len(names) = size /\ DOMAIN names = 1 .. size
  BY ONLY <1>3, size \in Nat
<1>5. \A k \in 1 .. size : names[k] = Append(x, size - k)
  BY <1>1
<1>6. ASSUME NEW j \in 1 .. size, NEW k \in 1 .. size, names[j] = names[k]
      PROVE  j = k
  <2>1. size - j = size - k
    BY <1>5, <1>6, PlacesApart
  <2>. QED
    BY <2>1
<1>7. Distinct(names)
  BY <1>4, <1>6 DEF Distinct
<1>8. \E V : names \in Seq(V)
  BY <1>4
<1>. QED
  BY ONLY <1>1, <1>4, <1>5, <1>7, <1>8

LEMMA BusesStay ==
  ASSUME Buses, bus_numbers' = bus_numbers, DOMAIN pin_numbers \subseteq DOMAIN pin_numbers',
         NEW q, Grows(source, source', Len(source), q),
         \A m \in Len(source) + 1 .. q : source'[m].whole =>
           \E x \in DOMAIN bus_numbers : PlaceOf(x, source'[m].signal)
  PROVE  Buses'
<1>1. PICK p : p = Len(source)
  OBVIOUS
<1>2. /\ p \in Nat /\ q \in Nat /\ DOMAIN source = 1 .. p /\ DOMAIN source' = 1 .. q
      /\ \A m \in 1 .. p : source'[m] = source[m]
  BY <1>1 DEF Grows
<1>3. \A m \in 1 .. q : m \in 1 .. p \/ m \in p + 1 .. q
  BY <1>2
<1>4. \A m \in 1 .. p : source[m].whole => \E x \in DOMAIN bus_numbers : PlaceOf(x, source[m].signal)
  BY <1>2 DEF Buses
<1>5. \A m \in 1 .. q : source'[m].whole => \E x \in DOMAIN bus_numbers : PlaceOf(x, source'[m].signal)
  BY <1>1, <1>2, <1>3, <1>4
<1>6. \A x \in DOMAIN bus_numbers :
        IsName(x) /\ \A j \in 0 .. bus_numbers[x][2] - 1 : Append(x, j) \in DOMAIN pin_numbers'
  BY DEF Buses
<1>. QED
  BY <1>2, <1>5, <1>6 DEF Buses

LEMMA BusesGrow ==
  ASSUME TypeOK, Buses, NEW x, IsName(x), NEW first \in Nat, NEW size \in Nat, NEW pins,
         bus_numbers' = Bus(x, <<first, size>>),
         DOMAIN pin_numbers' = DOMAIN pin_numbers \cup Range(BusNames(x, size)),
         Adds(source, source', BusNames(x, size), pins, TRUE)
  PROVE  Buses'
<1>1. PICK names, p : names = BusNames(x, size) /\ p = Len(source)
  OBVIOUS
<1>2. /\ Len(names) = size /\ DOMAIN names = 1 .. size
      /\ \A k \in 1 .. size : names[k] = Append(x, size - k)
  BY <1>1, BusNamesAre
<1>3. /\ DOMAIN bus_numbers' = DOMAIN bus_numbers \cup {x}
      /\ bus_numbers'[x] = <<first, size>>
      /\ \A y \in DOMAIN bus_numbers : y # x => bus_numbers'[y] = bus_numbers[y]
  <2>1. PICK e : e = <<first, size>>
    OBVIOUS
  <2>2. Range(bus_numbers) \subseteq Nat \X Nat /\ e \in Nat \X Nat
    BY <2>1 DEF TypeOK
  <2>3. bus_numbers' = Bus(x, e)
    BY <2>1
  <2>. QED
    BY ONLY <2>1, <2>2, <2>3, BusGiven
<1>4. ASSUME NEW y \in DOMAIN bus_numbers'
      PROVE  IsName(y) /\ \A j \in 0 .. bus_numbers'[y][2] - 1 : Append(y, j) \in DOMAIN pin_numbers'
  <2>1. CASE y = x
    <3>1. bus_numbers'[y][2] = size
      BY <1>3, <2>1
    <3>2. ASSUME NEW j \in 0 .. size - 1
          PROVE  Append(x, j) \in DOMAIN pin_numbers'
      <4>1. size - j \in 1 .. size /\ size - (size - j) = j
        OBVIOUS
      <4>2. names[size - j] = Append(x, j)
        BY <1>2, <4>1
      <4>3. names[size - j] \in Range(names)
        BY <1>2, <4>1 DEF Range
      <4>. QED
        BY <1>1, <4>2, <4>3
    <3>. QED
      BY <2>1, <3>1, <3>2
  <2>2. CASE y # x
    <3>1. y \in DOMAIN bus_numbers /\ bus_numbers'[y] = bus_numbers[y]
      BY <1>3, <2>2
    <3>. QED
      BY <3>1 DEF Buses
  <2>. QED
    BY <2>1, <2>2
<1>5. /\ p \in Nat /\ DOMAIN source = 1 .. p /\ DOMAIN source' = 1 .. p + size
      /\ \A m \in 1 .. p : source'[m] = source[m]
      /\ \A k \in 1 .. size : source'[p + k].signal = names[k]
      /\ \A m \in p + 1 .. p + size : m - p \in 1 .. size /\ m = p + (m - p)
  <2>1. /\ Grows(source, source', p, p + size)
        /\ \A k \in 1 .. size : source'[p + k] = [pin |-> pins[k], signal |-> names[k], whole |-> TRUE]
        /\ \A m \in p + 1 .. p + size : m - p \in 1 .. size /\ m = p + (m - p)
    BY <1>1, <1>2 DEF Adds
  <2>2. ASSUME NEW k \in 1 .. size
        PROVE  source'[p + k].signal = names[k]
    <3>1. PICK e : e = source'[p + k]
      OBVIOUS
    <3>2. e = [pin |-> pins[k], signal |-> names[k], whole |-> TRUE]
      BY <2>1, <3>1
    <3>. QED
      BY <3>1, <3>2
  <2>. QED
    BY <2>1, <2>2 DEF Grows
<1>6. ASSUME NEW m \in 1 .. p + size, source'[m].whole
      PROVE  \E y \in DOMAIN bus_numbers' : PlaceOf(y, source'[m].signal)
  <2>1. CASE m \in 1 .. p
    <3>1. PICK y \in DOMAIN bus_numbers : PlaceOf(y, source[m].signal)
      BY <1>5, <1>6, <2>1 DEF Buses
    <3>. QED
      BY <1>3, <1>5, <2>1, <3>1
  <2>2. CASE m \in p + 1 .. p + size
    <3>1. PICK k \in 1 .. size : k = m - p /\ source'[m].signal = names[k]
      BY <1>5, <2>2
    <3>2. source'[m].signal = Append(x, size - k) /\ size - k \in Nat
      BY <1>2, <3>1
    <3>3. PlaceOf(x, source'[m].signal)
      BY <3>2 DEF PlaceOf
    <3>. QED
      BY <1>3, <3>3
  <2>3. m \in 1 .. p \/ m \in p + 1 .. p + size
    BY <1>5
  <2>. QED
    BY <2>1, <2>2, <2>3
<1>. QED
  BY <1>4, <1>5, <1>6 DEF Buses

-----------------------------------------------------------------------------
(* IN and OUT keep the invariant. *)

\* The chip's own pins on one side, before a declaration and after it.
LongerBy(pins, more, names) ==
  /\ Grows(pins, more, Len(pins), Len(pins) + Len(names))
  /\ Len(names) \in Nat /\ DOMAIN names = 1 .. Len(names)
  /\ \A k \in 1 .. Len(names) : more[Len(pins) + k] = names[k]
  /\ Len(more) = Len(pins) + Len(names)

LEMMA LongerPins ==
  ASSUME NEW A, NEW pins \in Seq(A), NEW names \in Seq(A)
  PROVE  LongerBy(pins, pins \o names, names)
<1>1. /\ Grows(pins, pins \o names, Len(pins), Len(pins) + Len(names))
      /\ \A k \in 1 .. Len(names) : (pins \o names)[Len(pins) + k] = names[k]
  BY JoinedGrows
<1>2. Len(names) \in Nat /\ DOMAIN names = 1 .. Len(names) /\ Len(pins \o names) = Len(pins) + Len(names)
  OBVIOUS
<1>. QED
  BY <1>1, <1>2 DEF LongerBy

\* Pins and names that are apart from each other are told apart together.
LEMMA LongerDistinct ==
  ASSUME NEW pins, NEW more, NEW names, LongerBy(pins, more, names), NEW others,
         Distinct(pins), Distinct(names), Apart(pins, names), Apart(pins, others), Apart(names, others)
  PROVE  Distinct(more) /\ Apart(more, others)
<1>1. PICK p, n : p = Len(pins) /\ n = Len(names)
  OBVIOUS
<1>2. /\ p \in Nat /\ n \in Nat /\ DOMAIN pins = 1 .. p /\ DOMAIN more = 1 .. p + n /\ DOMAIN names = 1 .. n
      /\ \A k \in 1 .. p : more[k] = pins[k]
      /\ \A k \in 1 .. n : more[p + k] = names[k]
  BY <1>1 DEF LongerBy, Grows
<1>3. \A k \in 1 .. p + n : \/ k \in 1 .. p /\ more[k] = pins[k]
                            \/ k \notin 1 .. p /\ k - p \in 1 .. n /\ more[k] = names[k - p]
  <2> SUFFICES ASSUME NEW k \in 1 .. p + n, k \notin 1 .. p
               PROVE  k - p \in 1 .. n /\ more[k] = names[k - p]
    BY <1>2
  <2>1. k - p \in 1 .. n /\ p + (k - p) = k
    BY <1>2
  <2>. QED
    BY <1>2, <2>1
<1>4. /\ \A j, k \in 1 .. p : pins[j] = pins[k] => j = k
      /\ \A j, k \in 1 .. n : names[j] = names[k] => j = k
      /\ \A j \in 1 .. p, k \in 1 .. n : pins[j] # names[k]
  BY <1>2 DEF Distinct, Apart
<1>5. ASSUME NEW j \in 1 .. p + n, NEW k \in 1 .. p + n, more[j] = more[k]
      PROVE  j = k
  <2>1. CASE j \in 1 .. p /\ k \in 1 .. p
    BY <1>3, <1>4, <1>5, <2>1
  <2>2. ASSUME j \notin 1 .. p, k \notin 1 .. p
        PROVE  j = k
    <3>1. PICK a, b \in 1 .. n : a = j - p /\ b = k - p /\ more[j] = names[a] /\ more[k] = names[b]
      BY <1>3, <2>2
    <3>2. a = b
      BY <1>4, <1>5, <3>1
    <3>. QED
      BY <1>2, <3>1, <3>2
  <2>3. ASSUME j \in 1 .. p, k \notin 1 .. p
        PROVE  FALSE
    <3>1. PICK b \in 1 .. n : more[k] = names[b]
      BY <1>3, <2>3
    <3>. QED
      BY <1>3, <1>4, <1>5, <2>3, <3>1
  <2>4. ASSUME j \notin 1 .. p, k \in 1 .. p
        PROVE  FALSE
    <3>1. PICK b \in 1 .. n : more[j] = names[b]
      BY <1>3, <2>4
    <3>. QED
      BY <1>3, <1>4, <1>5, <2>4, <3>1
  <2>. QED
    BY <2>1, <2>2, <2>3, <2>4
<1>6. Distinct(more)
  BY <1>2, <1>5 DEF Distinct
<1>7. ASSUME NEW j \in 1 .. p + n, NEW k \in DOMAIN others
      PROVE  more[j] # others[k]
  <2>1. (\E a \in 1 .. p : more[j] = pins[a]) \/ \E a \in 1 .. n : more[j] = names[a]
    BY <1>3
  <2>. QED
    BY <1>2, <2>1 DEF Apart
<1>8. Apart(more, others)
  BY <1>2, <1>7 DEF Apart
<1>. QED
  BY <1>6, <1>8

\* Names that a chip has not declared.
LEMMA UndeclaredNames ==
  ASSUME TypeOK, NEW id, Undeclared(id), NEW names, \A k \in DOMAIN names : names[k][1] = id
  PROVE  /\ Apart(input_pins, names) /\ Apart(names, input_pins)
         /\ Apart(output_pins, names) /\ Apart(names, output_pins)
<1>1. \A k \in DOMAIN input_pins : input_pins[k][1] # id
  BY DEF Undeclared, Range
<1>2. \A k \in DOMAIN output_pins : output_pins[k][1] # id
  BY DEF Undeclared, Range
<1>. QED
  BY <1>1, <1>2 DEF Apart

\* Before the parts a signal that is not declared is not mentioned.
LEMMA Unmentioned ==
  ASSUME TypeOK, DeclaredFirst, OwnMentions, dependencies = <<>>,
         NEW id, Undeclared(id), NEW names, \A k \in DOMAIN names : names[k][1] = id
  PROVE  \A m \in DOMAIN source, k \in DOMAIN names : source[m].signal # names[k]
<1> SUFFICES ASSUME NEW m \in DOMAIN source, NEW k \in DOMAIN names, source[m].signal = names[k]
             PROVE  FALSE
  OBVIOUS
<1>1. OwnBy(input_pins, "in", source[m]) \/ OwnBy(output_pins, "out", source[m])
  BY DEF DeclaredFirst, OwnMentions
<1>2. (\E j \in DOMAIN input_pins : names[k] = input_pins[j]) \/ \E j \in DOMAIN output_pins : names[k] = output_pins[j]
  BY <1>1 DEF OwnBy
<1>. QED
  BY <1>2, UndeclaredNames DEF Apart

\* A declaration: the places of its names are the pins of the chip that it adds.
Declaring(d, side, start, first) ==
  /\ d \in Ins \cup Outs /\ side \in {"in", "out"} /\ start \in Nat /\ first \in Nat
  /\ Undeclared(d[1]) /\ Declared(d, start)
  /\ source' = source \o OwnPins(side, first, PinNames(d[1], d[2]), d[2])

OwnPlaces(side, first, n) == [k \in 1 .. n |-> <<0, side, first + k - 1>>]

LEMMA DeclaredReads ==
  ASSUME TypeOK, NEW d, NEW side, NEW start, NEW first, Declaring(d, side, start, first)
  PROVE  \E T : LET names == PinNames(d[1], d[2])
                    n == Len(names)
                IN  /\ names \in Seq(T) /\ n \in Nat /\ n >= 1 /\ DOMAIN names = 1 .. n /\ Distinct(names)
                    /\ \A k \in DOMAIN names : names[k][1] = d[1]
                    /\ d[2] \in Nat /\ (d[2] > 0 => n = d[2] /\ names = BusNames(<<d[1]>>, d[2]))
                    /\ Adds(source, source', names, OwnPlaces(side, first, n), d[2] > 0)
                    /\ Range(pin_numbers) \subseteq Nat
                    /\ NumberedFrom(pin_numbers', pin_numbers, names, start)
<1>0. d \in Ins \cup Outs /\ side \in {"in", "out"} /\ start \in Nat /\ first \in Nat /\ d[2] \in Nat
  BY SourceAssumption DEF Declaring
<1>1. PICK names, n : names = PinNames(d[1], d[2]) /\ n = Len(names)
  OBVIOUS
<1>2. PICK T : names \in Seq(T)
  BY <1>0, <1>1, PlacesNamed
<1>3. n \in Nat /\ DOMAIN names = 1 .. n
  BY <1>1, <1>2
<1>4. /\ n = IF d[2] = 0 THEN 1 ELSE d[2]
      /\ \A k \in 1 .. n : names[k][1] = d[1]
      /\ \A j, k \in 1 .. n : names[j] = names[k] => j = k
      /\ d[2] > 0 => \A k \in 1 .. d[2] : names[k] = <<d[1], d[2] - k>>
  BY <1>0, <1>1, PlacesNamed
<1>5. Distinct(names) /\ n >= 1
  BY <1>0, <1>3, <1>4 DEF Distinct
<1>6. d[2] > 0 => n = d[2] /\ names = BusNames(<<d[1]>>, d[2])
  <2> SUFFICES ASSUME d[2] > 0
               PROVE  n = d[2] /\ names = BusNames(<<d[1]>>, d[2])
    OBVIOUS
  <2>1. n = d[2]
    BY <1>4
  <2>2. \A k \in 1 .. n : names[k] = Append(<<d[1]>>, n - k)
    BY <1>4, <2>1
  <2>3. names = [k \in 1 .. n |-> names[k]]
    BY ONLY <1>2, <1>3
  <2>4. names = [k \in 1 .. n |-> Append(<<d[1]>>, n - k)]
    BY ONLY <2>2, <2>3
  <2>. QED
    BY <2>1, <2>4 DEF BusNames
<1>7. Adds(source, source', names, OwnPlaces(side, first, n), d[2] > 0)
  <2>1. SignalsTyped
    BY TypeParts
  <2>. QED
    BY <1>0, <1>1, <2>1, NamesRead DEF Declaring, OwnPlaces
<1>8. Range(pin_numbers) \subseteq Nat
  BY DEF TypeOK
<1>9. NumberedFrom(pin_numbers', pin_numbers, names, start)
  <2>1. pin_numbers' = Numbered(names, start)
    BY <1>1 DEF Declaring, Declared
  <2>. QED
    BY <1>0, <1>2, <1>5, <1>8, <2>1, NumbersOf
<1>. QED
  BY <1>0, <1>1, <1>2, <1>3, <1>4, <1>5, <1>6, <1>7, <1>8, <1>9

LEMMA DeclaredNamed ==
  ASSUME TypeOK, TypeOK', InOrder, dependencies = <<>>, SidesGrow,
         NEW d, NEW side, NEW start, NEW first, Declaring(d, side, start, first),
         \A k \in 1 .. Len(PinNames(d[1], d[2])) : PinAt'[start + k - 1] = <<0, side, first + k - 1>>
  PROVE  Named'
<1>1. PICK names, n, pins, p, q : /\ names = PinNames(d[1], d[2]) /\ n = Len(names) /\ pins = OwnPlaces(side, first, n)
                                  /\ p = Len(source) /\ q = p + n
  OBVIOUS
<1>2. PICK T : /\ names \in Seq(T) /\ n \in Nat /\ DOMAIN names = 1 .. n /\ Distinct(names)
               /\ \A k \in DOMAIN names : names[k][1] = d[1]
               /\ Adds(source, source', names, pins, d[2] > 0)
  BY <1>1, DeclaredReads
<1>3. start \in Nat /\ first \in Nat /\ Undeclared(d[1]) /\ pin_numbers' = Numbered(names, start) /\ linkages' = linkages
  BY <1>1 DEF Declaring, Declared
<1>4. \A m \in DOMAIN source, k \in 1 .. Len(names) : source[m].signal # names[k]
  <2>1. DeclaredFirst /\ OwnMentions
    BY DEF InOrder
  <2>2. \A m \in DOMAIN source, k \in DOMAIN names : source[m].signal # names[k]
    BY ONLY TypeOK, dependencies = <<>>, <1>2, <1>3, <2>1, Unmentioned
  <2>. QED
    BY <1>1, <1>2, <2>2
<1>5. \A k \in 1 .. Len(names) : PinAt'[start + k - 1] = pins[k]
  BY <1>1, <1>2 DEF OwnPlaces
<1>6. Fresh(source, source', pin_numbers, pin_numbers', PinAt', p, q)
  <2>1. PICK w : w = (d[2] > 0)
    OBVIOUS
  <2>2. PICK P : P = PinAt'
    OBVIOUS
  <2>5. w \in BOOLEAN
    BY <1>2, <2>1
  <2>3. /\ Adds(source, source', names, pins, w)
        /\ \A k \in 1 .. Len(names) : P[start + k - 1] = pins[k]
        /\ \A m \in DOMAIN source, k \in 1 .. Len(names) : source[m].signal = names[k] => w /\ ~source[m].whole
    BY <1>2, <1>4, <1>5, <2>1, <2>2
  <2>4. Fresh(source, source', pin_numbers, pin_numbers', P, Len(source), Len(source) + Len(names))
    BY ONLY TypeOK, <1>2, <1>3, <2>3, <2>5, FreshNames
  <2>. QED
    BY <1>1, <2>2, <2>4
<1>7. Grows(source, source', Len(source), q)
  BY <1>1, <1>2 DEF Adds
<1>8. PICK j : j = Len(linkages)
  OBVIOUS
<1>9. j \in Nat /\ DOMAIN linkages = 1 .. j
  <2>1. linkages \in Seq(Signals \X Nat \X BOOLEAN)
    BY DEF TypeOK
  <2>. QED
    BY <1>8, <2>1
<1>10. Grows(linkages, linkages', Len(linkages), j) /\ Len(linkages) + 1 .. j = {}
  BY <1>3, <1>8, <1>9 DEF Grows
<1>. QED
  BY <1>1, <1>6, <1>7, <1>10, NamedKept DEF InOrder

LEMMA DeclaredBuses ==
  ASSUME TypeOK, Buses,
         NEW d, NEW side, NEW start, NEW first, Declaring(d, side, start, first)
  PROVE  Buses'
<1>1. PICK names, n, pins, p, q : /\ names = PinNames(d[1], d[2]) /\ n = Len(names) /\ pins = OwnPlaces(side, first, n)
                                  /\ p = Len(source) /\ q = p + n
  OBVIOUS
<1>2. PICK T : /\ names \in Seq(T) /\ n \in Nat /\ d[2] \in Nat
               /\ d[2] > 0 => n = d[2] /\ names = BusNames(<<d[1]>>, d[2])
               /\ Adds(source, source', names, pins, d[2] > 0)
               /\ NumberedFrom(pin_numbers', pin_numbers, names, start)
  BY <1>1, DeclaredReads
<1>3. DOMAIN pin_numbers' = DOMAIN pin_numbers \cup Range(names)
  BY <1>2 DEF NumberedFrom
<1>4. CASE d[2] = 0
  <2>1. bus_numbers' = bus_numbers
    BY <1>4 DEF Declaring, Declared
  <2>2. PICK w : w = (d[2] > 0)
    OBVIOUS
  <2>3. w \in BOOLEAN /\ ~w
    <3>1. (d[2] > 0) = FALSE
      BY <1>4
    <3>2. w = FALSE
      BY ONLY <2>2, <3>1
    <3>. QED
      BY ONLY <3>2
  <2>4. Adds(source, source', names, pins, w)
    BY <1>2, <2>2
  <2>5. /\ Grows(source, source', Len(source), q)
        /\ \A m \in p + 1 .. q : m - p \in 1 .. n /\ source'[m] = source'[p + (m - p)]
        /\ \A k \in 1 .. n : source'[p + k] = [pin |-> pins[k], signal |-> names[k], whole |-> w]
    BY <1>1, <2>4 DEF Adds
  <2>6. ASSUME NEW m \in p + 1 .. q
        PROVE  ~source'[m].whole
    <3>1. PICK k \in 1 .. n : source'[m] = source'[p + k]
      BY <2>5
    <3>2. PICK e, a, b : e = source'[m] /\ a = pins[k] /\ b = names[k]
      OBVIOUS
    <3>3. e = [pin |-> a, signal |-> b, whole |-> w]
      BY <2>5, <3>1, <3>2
    <3>4. e.whole = w
      BY ONLY <3>3
    <3>. QED
      BY <2>3, <3>2, <3>4
  <2>. QED
    BY <1>1, <1>3, <2>1, <2>5, <2>6, BusesStay
<1>5. CASE d[2] > 0
  <2>1. PICK x, size : x = <<d[1]>> /\ size = d[2]
    OBVIOUS
  <2>2. IsName(x)
    <3>1. x \in Seq({d[1]}) /\ Len(x) = 1
      BY <2>1
    <3>2. Len(x) \in Nat /\ x = [k \in 1 .. Len(x) |-> x[k]]
      BY ONLY <3>1
    <3>. QED
      BY <3>2 DEF IsName
  <2>3. bus_numbers' = Bus(x, <<start, size>>) /\ start \in Nat /\ size \in Nat
    BY <1>2, <1>5, <2>1 DEF Declaring, Declared
  <2>4. names = BusNames(x, size) /\ Adds(source, source', BusNames(x, size), pins, TRUE)
    BY <1>2, <1>5, <2>1
  <2>. QED
    BY <1>3, <2>2, <2>3, <2>4, BusesGrow
<1>. QED
  BY <1>2, <1>4, <1>5


\* The source is in order before a declaration, and no part has been read.
LEMMA DeclaredBefore ==
  ASSUME TypeOK, TypeOK', Fine => InOrder, Fine', InChip,
         NEW d, NEW side, NEW start, NEW first, Declaring(d, side, start, first),
         Len(input_pins) <= Len(input_pins')
  PROVE  InOrder /\ dependencies = <<>> /\ dependencies' = <<>>
<1>1. PICK names, n, pins, p, q : /\ names = PinNames(d[1], d[2]) /\ n = Len(names) /\ pins = OwnPlaces(side, first, n)
                                  /\ p = Len(source) /\ q = p + n
  OBVIOUS
<1>2. PICK T : n \in Nat /\ n >= 1 /\ Adds(source, source', names, pins, d[2] > 0)
  BY <1>1, DeclaredReads
<1>3. /\ Grows(source, source', p, q)
      /\ \A k \in 1 .. n : source'[p + k] = [pin |-> pins[k], signal |-> names[k], whole |-> d[2] > 0]
  BY <1>1, <1>2 DEF Adds
<1>4. dependencies' = dependencies /\ has_error' = has_error
  BY DEF Declaring, Declared
<1>5. Fine
  <2>1. Len(input_pins) + Len(PartInputs(dependencies)) <= Len(input_pins') + Len(PartInputs(dependencies'))
    <3>1. input_pins \in Seq(Signals) /\ input_pins' \in Seq(Signals') /\ dependencies \in Seq(Parts)
      BY DEF TypeOK
    <3>2. PICK a, b, c : a = Len(input_pins) /\ b = Len(input_pins') /\ c = Len(PartInputs(dependencies))
      OBVIOUS
    <3>3. a \in Nat /\ b \in Nat /\ c \in Nat /\ a <= b
      BY <3>1, <3>2, SidesTyped
    <3>4. a + c <= b + c
      BY ONLY <3>3
    <3>. QED
      BY <1>4, <3>2, <3>4
  <2>. QED
    BY <1>1, <1>3, <1>4, <2>1, FineBefore
<1>6. InOrder
  BY <1>5
<1>7. p + 1 \in 1 .. q /\ source'[p + 1].pin[1] = 0
  <2>1. p \in Nat /\ q \in Nat
    BY <1>3 DEF Grows
  <2>2. 1 \in 1 .. n /\ p + 1 \in 1 .. q
    BY <1>1, <1>2, <2>1
  <2>3. PICK e, a, b, w : e = source'[p + 1] /\ a = pins[1] /\ b = names[1] /\ w = (d[2] > 0)
    OBVIOUS
  <2>4. e = [pin |-> a, signal |-> b, whole |-> w]
    BY <1>3, <2>2, <2>3
  <2>5. e.pin = a
    BY ONLY <2>4
  <2>6. a = <<0, side, first + 1 - 1>>
    BY <1>1, <2>2, <2>3 DEF OwnPlaces
  <2>. QED
    BY <2>2, <2>3, <2>5, <2>6
<1>8. dependencies = <<>>
  <2> SUFFICES ASSUME dependencies # <<>>
               PROVE  FALSE
    OBVIOUS
  <2>1. phase \notin {"PARTS", "SUBGATE"}
    BY DEF InChip
  <2>2. PICK m \in DOMAIN source : source[m].pin[1] > 0
    BY <1>6, <2>1 DEF InOrder, DeclaredFirst
  <2>3. /\ p \in Nat /\ q \in Nat /\ m \in 1 .. p /\ DOMAIN source' = 1 .. q /\ source'[m] = source[m] /\ p <= q
    BY <1>3, <2>2 DEF Grows
  <2>4. m \in DOMAIN source' /\ p + 1 \in DOMAIN source' /\ m < p + 1
    BY <1>7, <2>3
  <2>5. source'[m].pin[1] = 0
    BY <1>7, <2>4 DEF Fine, Orderly, HeaderFirst
  <2>. QED
    BY <2>2, <2>3, <2>5
<1>. QED
  BY <1>4, <1>6, <1>8

\* A pin of the chip is still one when pins are added, and so are the added ones.
LEMMA OwnStays ==
  ASSUME NEW pins, NEW more, NEW names, LongerBy(pins, more, names), NEW side, NEW m, OwnBy(pins, side, m)
  PROVE  OwnBy(more, side, m)
<1>1. PICK p, n : p = Len(pins) /\ n = Len(names)
  OBVIOUS
<1>2. /\ p \in Nat /\ n \in Nat /\ DOMAIN pins = 1 .. p /\ DOMAIN more = 1 .. p + n
      /\ \A k \in 1 .. p : more[k] = pins[k]
  BY <1>1 DEF LongerBy, Grows
<1>3. PICK k \in 1 .. p : m.signal = pins[k] /\ m.pin = <<0, side, k - 1>>
  BY <1>2 DEF OwnBy
<1>4. k \in 1 .. p + n /\ m.signal = more[k]
  BY <1>2, <1>3
<1>. QED
  BY <1>2, <1>3, <1>4 DEF OwnBy

LEMMA OwnAdded ==
  ASSUME NEW pins, NEW more, NEW names, LongerBy(pins, more, names), NEW side, NEW m, NEW k \in 1 .. Len(names),
         m.signal = names[k], m.pin = <<0, side, Len(pins) + k - 1>>
  PROVE  OwnBy(more, side, m)
<1>1. PICK p, n : p = Len(pins) /\ n = Len(names)
  OBVIOUS
<1>2. /\ p \in Nat /\ n \in Nat /\ DOMAIN pins = 1 .. p /\ DOMAIN more = 1 .. p + n
      /\ \A j \in 1 .. n : more[p + j] = names[j]
  BY <1>1 DEF LongerBy, Grows
<1>3. p + k \in 1 .. p + n /\ m.signal = more[p + k] /\ m.pin = <<0, side, (p + k) - 1>>
  BY <1>1, <1>2
<1>. QED
  BY <1>2, <1>3 DEF OwnBy

\* So is a bus.
LEMMA BusAtStays ==
  ASSUME NEW pins, NEW more, NEW names, LongerBy(pins, more, names), NEW first \in Int, NEW b, BusAt(pins, first, b)
  PROVE  BusAt(more, first, b)
<1>1. PICK p, n : p = Len(pins) /\ n = Len(names)
  OBVIOUS
<1>2. /\ p \in Nat /\ n \in Nat /\ DOMAIN pins = 1 .. p /\ DOMAIN more = 1 .. p + n
      /\ \A k \in 1 .. p : more[k] = pins[k]
  BY <1>1 DEF LongerBy, Grows
<1>3. \A j \in 1 .. p : j \in 1 .. p + n
  BY <1>2
<1>4. ASSUME NEW k \in 1 .. b[3]
      PROVE  first + k \in DOMAIN more /\ more[first + k] = <<b[1], b[3] - k>>
  <2>1. first + k \in 1 .. p /\ pins[first + k] = <<b[1], b[3] - k>>
    BY <1>2 DEF BusAt
  <2>. QED
    BY <1>2, <1>3, <2>1
<1>. QED
  BY <1>4 DEF BusAt

LEMMA PlaceName ==
  ASSUME NEW id, NEW e
  PROVE  Append(<<id>>, e) = <<id, e>>
<1>1. PICK S, x, y : S = {id, e} /\ x = <<id>> /\ y = <<id, e>>
  OBVIOUS
<1>2. x \in Seq(S) /\ e \in S
  BY ONLY <1>1
<1>3. Append(x, e) \in Seq(S) /\ Len(Append(x, e)) = Len(x) + 1 /\ Append(x, e)[Len(x) + 1] = e
  BY ONLY <1>2
<1>4. \A k \in 1 .. Len(x) : Append(x, e)[k] = x[k]
  BY ONLY <1>2
<1>5. Len(x) = 1 /\ x[1] = id
  BY ONLY <1>1
<1>6. y \in Seq(S) /\ Len(y) = 2 /\ y[1] = id /\ y[2] = e
  BY ONLY <1>1
<1>7. PICK z, n : z = Append(x, e) /\ n = Len(x)
  OBVIOUS
<1>8. z \in Seq(S) /\ Len(z) = n + 1 /\ z[n + 1] = e /\ (\A k \in 1 .. n : z[k] = x[k]) /\ n = 1 /\ x[1] = id
  BY ONLY <1>3, <1>4, <1>5, <1>7
<1>9. z = y
  BY ONLY <1>6, <1>8
<1>. QED
  BY ONLY <1>1, <1>7, <1>9

LEMMA BusAtAdded ==
  ASSUME NEW pins, NEW more, NEW names, LongerBy(pins, more, names), NEW id, NEW start, NEW width \in Nat,
         width > 0, names = BusNames(<<id>>, width)
  PROVE  BusAt(more, Len(pins), <<id, start, width>>)
<1>1. PICK p, n : p = Len(pins) /\ n = Len(names)
  OBVIOUS
<1>2. /\ p \in Nat /\ n \in Nat /\ DOMAIN names = 1 .. n /\ DOMAIN more = 1 .. p + n
      /\ \A k \in 1 .. n : more[p + k] = names[k]
  BY <1>1 DEF LongerBy, Grows
<1>3. DOMAIN names = 1 .. width /\ \A k \in 1 .. width : names[k] = Append(<<id>>, width - k)
  BY DEF BusNames
<1>4. n = width
  BY <1>2, <1>3
<1>5. ASSUME NEW k \in 1 .. width
      PROVE  p + k \in DOMAIN more /\ more[p + k] = <<id, width - k>>
  <2>1. Append(<<id>>, width - k) = <<id, width - k>>
    BY PlaceName
  <2>2. k \in 1 .. n /\ names[k] = <<id, width - k>>
    BY <1>3, <1>4, <2>1
  <2>3. p + k \in 1 .. p + n
    BY <1>2, <2>2
  <2>. QED
    BY <1>2, <2>2, <2>3
<1>6. PICK b : b = <<id, start, width>>
  OBVIOUS
<1>7. b[1] = id /\ b[3] = width
  BY ONLY <1>6
<1>8. BusAt(more, p, b)
  BY <1>5, <1>7 DEF BusAt
<1>. QED
  BY <1>1, <1>6, <1>8


\* The mentions after a declaration.
LEMMA DeclaredMentions ==
  ASSUME TypeOK, NEW d, NEW side, NEW start, NEW first, Declaring(d, side, start, first)
  PROVE  \A m \in DOMAIN source' :
           \/ m \in DOMAIN source /\ source'[m] = source[m]
           \/ \E k \in 1 .. Len(PinNames(d[1], d[2])) :
                source'[m].signal = PinNames(d[1], d[2])[k] /\ source'[m].pin = <<0, side, first + k - 1>>
<1>1. PICK names, n, pins, p, q, w : /\ names = PinNames(d[1], d[2]) /\ n = Len(names) /\ pins = OwnPlaces(side, first, n)
                                     /\ p = Len(source) /\ q = p + n /\ w = (d[2] > 0)
  OBVIOUS
<1>2. n \in Nat /\ Adds(source, source', names, pins, w)
  BY <1>1, DeclaredReads
<1>3. /\ p \in Nat /\ q \in Nat /\ DOMAIN source = 1 .. p /\ DOMAIN source' = 1 .. q
      /\ \A m \in 1 .. p : source'[m] = source[m]
      /\ \A k \in 1 .. n : source'[p + k] = [pin |-> pins[k], signal |-> names[k], whole |-> w]
  BY <1>1, <1>2 DEF Adds, Grows
<1>4. ASSUME NEW m \in 1 .. q, m \notin 1 .. p
      PROVE  \E k \in 1 .. n : source'[m].signal = names[k] /\ source'[m].pin = <<0, side, first + k - 1>>
  <2>1. m - p \in 1 .. n /\ m = p + (m - p)
    BY <1>1, <1>2, <1>3, <1>4
  <2>2. PICK k \in 1 .. n : m = p + k
    BY <2>1
  <2>3. PICK e, a, b : e = source'[m] /\ a = pins[k] /\ b = names[k]
    OBVIOUS
  <2>4. e = [pin |-> a, signal |-> b, whole |-> w]
    BY <1>3, <2>2, <2>3
  <2>5. e.pin = a /\ e.signal = b
    BY ONLY <2>4
  <2>6. a = <<0, side, first + k - 1>>
    BY <1>1, <2>3 DEF OwnPlaces
  <2>. QED
    BY <2>3, <2>5, <2>6
<1>5. ASSUME NEW m \in DOMAIN source'
      PROVE  \/ m \in DOMAIN source /\ source'[m] = source[m]
             \/ \E k \in 1 .. n : source'[m].signal = names[k] /\ source'[m].pin = <<0, side, first + k - 1>>
  <2>1. CASE m \in 1 .. p
    BY <1>3, <2>1
  <2>2. CASE m \notin 1 .. p
    BY <1>3, <1>4, <2>2
  <2>. QED
    BY <2>1, <2>2
<1>. QED
  BY <1>1, <1>5

LEMMA DeclaredFirstKept ==
  ASSUME TypeOK, DeclaredFirst, dependencies = <<>>, dependencies' = <<>>,
         NEW d, NEW side, NEW start, NEW first, Declaring(d, side, start, first)
  PROVE  DeclaredFirst'
<1>1. \A m \in DOMAIN source : source[m].pin[1] = 0
  BY DEF DeclaredFirst
<1>2. ASSUME NEW m \in DOMAIN source'
      PROVE  source'[m].pin[1] = 0
  BY <1>1, DeclaredMentions
<1>. QED
  BY <1>2 DEF DeclaredFirst

LEMMA IN_kept ==
  ASSUME TypeOK, TypeOK', Fine => InOrder, Fine', NEW d \in Ins, IN_statement(d)
  PROVE  InOrder'
<1>1. PICK names, n, a, b : /\ names = PinNames(d[1], d[2]) /\ n = Len(names)
                            /\ a = Len(input_pins) /\ b = Len(output_pins)
  OBVIOUS
<1>2. /\ InChip /\ Undeclared(d[1]) /\ Declared(d, input_pin_offset)
      /\ source' = source \o OwnPins("in", Len(input_pins), names, d[2])
      /\ input_pins' = input_pins \o names
      /\ input_pin_offset' = input_pin_offset + Len(names)
      /\ UNCHANGED <<output_pins, output_pin_offset>>
  BY <1>1 DEF IN_statement
<1>3. input_pins \in Seq(Signals) /\ output_pins \in Seq(Signals) /\ input_pin_offset \in Nat
  BY DEF TypeOK
<1>4. a \in Nat /\ b \in Nat
  BY <1>1, <1>3
<1>5. Declaring(d, "in", input_pin_offset, Len(input_pins))
  BY <1>1, <1>2, <1>3, <1>4 DEF Declaring
<1>6. PICK T : /\ names \in Seq(T) /\ n \in Nat /\ n >= 1 /\ DOMAIN names = 1 .. n /\ Distinct(names)
               /\ \A k \in DOMAIN names : names[k][1] = d[1]
               /\ d[2] \in Nat /\ (d[2] > 0 => n = d[2] /\ names = BusNames(<<d[1]>>, d[2]))
  BY <1>1, <1>5, DeclaredReads
<1>7. LongerBy(input_pins, input_pins', names)
  <2>1. names \in Seq(Signals') /\ Signals \subseteq Signals'
    BY <1>1, <1>2, <1>3, <1>4, DeclaredTyped
  <2>2. input_pins \in Seq(Signals')
    BY <2>1, StillTyped, TypeParts
  <2>. QED
    BY <1>2, <2>1, <2>2, LongerPins
<1>8. Len(input_pins') = a + n
  BY <1>1, <1>7 DEF LongerBy
<1>9. InOrder /\ dependencies = <<>> /\ dependencies' = <<>>
  BY <1>1, <1>2, <1>4, <1>5, <1>6, <1>8, DeclaredBefore
<1>10. PartInputs(dependencies) = <<>> /\ PartOutputs(dependencies) = <<>>
  BY <1>9, SidesEmpty
<1>11. PartInputs(dependencies') = <<>> /\ PartOutputs(dependencies') = <<>>
  BY <1>9, SidesEmpty
<1>12. input_pin_offset = a /\ output_pin_offset = b
  <2>1. ~InPart
    BY <1>2 DEF InPart, InChip
  <2>. QED
    BY <1>1, <1>4, <1>9, <1>10, <2>1 DEF InOrder, PinsCounted, SideCounted
<1>13. PinsCounted'
  <2>1. ~InPart'
    BY <1>2 DEF InPart, Declared
  <2>2. Len(PartInputs(dependencies')) = 0 /\ Len(PartOutputs(dependencies')) = 0
    BY <1>11
  <2>3. SideCounted(Len(input_pins'), PartInputs(dependencies'), input_pin_offset')
    BY <1>1, <1>2, <1>4, <1>6, <1>8, <1>12, <2>2 DEF SideCounted
  <2>4. SideCounted(Len(output_pins'), PartOutputs(dependencies'), output_pin_offset')
    BY <1>1, <1>2, <1>4, <1>12, <2>2 DEF SideCounted
  <2>. QED
    BY <2>1, <2>3, <2>4 DEF PinsCounted
<1>14. SidesGrow
  BY <1>1, <1>2, <1>4, <1>6, <1>8, <1>9, <1>10, <1>11 DEF SidesGrow, SideGrows
<1>15. \A k \in 1 .. Len(names) : PinAt'[input_pin_offset + k - 1] = <<0, "in", Len(input_pins) + k - 1>>
  <2> SUFFICES ASSUME NEW k \in 1 .. n
               PROVE  PinAt'[a + k - 1] = <<0, "in", a + k - 1>>
    BY <1>1, <1>12
  <2>1. a + n <= INPUT_PIN_LIMIT
    <3>1. Len(input_pins') + Len(PartInputs(dependencies')) <= INPUT_PIN_LIMIT
      BY DEF Fine, Orderly, Addressable, PartInputs
    <3>2. Len(PartInputs(dependencies')) = 0
      BY <1>11
    <3>. QED
      BY <1>4, <1>6, <1>8, <3>1, <3>2, PinLimitAssumption
  <2>2. PICK m, a2, p2, b2, q2 : /\ m = a + k - 1 /\ a2 = Len(input_pins') /\ p2 = PartInputs(dependencies')
                                 /\ b2 = Len(output_pins') /\ q2 = PartOutputs(dependencies')
    OBVIOUS
  <2>3. m \in Nat /\ m < a2 /\ m < INPUT_PIN_LIMIT
    BY <1>4, <1>6, <1>8, <2>1, <2>2, PinLimitAssumption
  <2>4. Place(a2, p2, b2, q2, m) = <<0, "in", m>>
    BY ONLY <2>3 DEF Place
  <2>5. PinAt' = PlaceMap(a2, p2, b2, q2)
    BY <2>2, PinsAre
  <2>6. PinAt'[m] = <<0, "in", m>>
    BY ONLY <2>3, <2>4, <2>5 DEF PlaceMap
  <2>. QED
    BY <2>2, <2>6
<1>16. Named'
  BY <1>1, <1>5, <1>9, <1>14, <1>15, DeclaredNamed
<1>17. Buses'
  BY <1>5, <1>9, DeclaredBuses DEF InOrder
<1>18. DeclaredFirst'
  BY <1>5, <1>9, DeclaredFirstKept DEF InOrder
<1>19. OwnMentions'
  <2>1. ASSUME NEW m \in DOMAIN source', source'[m].pin[1] = 0
        PROVE  OwnBy(input_pins', "in", source'[m]) \/ OwnBy(output_pins', "out", source'[m])
    <3>1. CASE m \in DOMAIN source /\ source'[m] = source[m]
      <4>1. OwnBy(input_pins, "in", source'[m]) \/ OwnBy(output_pins, "out", source'[m])
        BY <1>9, <2>1, <3>1 DEF InOrder, OwnMentions
      <4>. QED
        BY <1>2, <1>7, <4>1, OwnStays
    <3>2. ASSUME NEW k \in 1 .. Len(names), source'[m].signal = names[k],
                 source'[m].pin = <<0, "in", Len(input_pins) + k - 1>>
          PROVE  OwnBy(input_pins', "in", source'[m])
      BY <1>7, <3>2, OwnAdded
    <3>. QED
      BY <1>1, <1>5, <3>1, <3>2, DeclaredMentions
  <2>. QED
    BY <2>1 DEF OwnMentions
<1>20. OwnNames'
  <2>1. Distinct(input_pins) /\ Distinct(output_pins) /\ Apart(input_pins, output_pins)
    BY <1>9 DEF InOrder, OwnNames
  <2>2. Apart(input_pins, names) /\ Apart(names, output_pins)
    BY <1>2, <1>6, UndeclaredNames
  <2>3. Distinct(input_pins') /\ Apart(input_pins', output_pins)
    BY <1>6, <1>7, <2>1, <2>2, LongerDistinct
  <2>. QED
    BY <1>2, <2>1, <2>3 DEF OwnNames
<1>21. OwnBuses'
  <2>1. \A c \in bus : c[2] \in Nat /\ c[3] \in Nat
    BY DEF TypeOK
  <2>2. ASSUME NEW c \in bus
        PROVE  BusAt(input_pins', c[2], c) \/ BusAt(output_pins', c[2] - INPUT_PIN_LIMIT, c)
    <3>1. BusAt(input_pins, c[2], c) \/ BusAt(output_pins, c[2] - INPUT_PIN_LIMIT, c)
      BY <1>9 DEF InOrder, OwnBuses
    <3>2. c[2] \in Int
      BY <2>1
    <3>. QED
      BY <1>2, <1>7, <3>1, <3>2, BusAtStays
  <2>3. ASSUME d[2] > 0
        PROVE  BusAt(input_pins', input_pin_offset, <<d[1], input_pin_offset, d[2]>>)
    BY <1>1, <1>6, <1>7, <1>12, <2>3, BusAtAdded
  <2>4. \A c \in bus' : c \in bus \/ (d[2] > 0 /\ c = <<d[1], input_pin_offset, d[2]>>)
    BY <1>2, <1>6 DEF Declared
  <2>5. ASSUME NEW c \in bus'
        PROVE  BusAt(input_pins', c[2], c) \/ BusAt(output_pins', c[2] - INPUT_PIN_LIMIT, c)
    <3>1. CASE c \in bus
      BY <2>2, <3>1
    <3>2. CASE d[2] > 0 /\ c = <<d[1], input_pin_offset, d[2]>>
      <4>1. c[2] = input_pin_offset
        BY <3>2
      <4>. QED
        BY <2>3, <3>2, <4>1
    <3>. QED
      BY <2>4, <3>1, <3>2
  <2>. QED
    BY <2>5 DEF OwnBuses
<1>22. Wired'
  BY <1>2 DEF Wired, Declared
<1>. QED
  BY <1>13, <1>16, <1>17, <1>18, <1>19, <1>20, <1>21, <1>22 DEF InOrder

LEMMA OUT_kept ==
  ASSUME TypeOK, TypeOK', Fine => InOrder, Fine', NEW d \in Outs, OUT_statement(d)
  PROVE  InOrder'
<1>1. PICK names, n, a, b : /\ names = PinNames(d[1], d[2]) /\ n = Len(names)
                            /\ a = Len(input_pins) /\ b = Len(output_pins)
  OBVIOUS
<1>2. /\ InChip /\ Undeclared(d[1]) /\ Declared(d, INPUT_PIN_LIMIT + output_pin_offset)
      /\ source' = source \o OwnPins("out", Len(output_pins), names, d[2])
      /\ output_pins' = output_pins \o names
      /\ output_pin_offset' = output_pin_offset + Len(names)
      /\ UNCHANGED <<input_pins, input_pin_offset>>
  BY <1>1 DEF OUT_statement
<1>3. input_pins \in Seq(Signals) /\ output_pins \in Seq(Signals) /\ INPUT_PIN_LIMIT + output_pin_offset \in Nat
  <2>1. input_pins \in Seq(Signals) /\ output_pins \in Seq(Signals) /\ output_pin_offset \in Nat
    BY DEF TypeOK
  <2>. QED
    BY <2>1, PinLimitAssumption
<1>4. a \in Nat /\ b \in Nat
  BY <1>1, <1>3
<1>5. Declaring(d, "out", INPUT_PIN_LIMIT + output_pin_offset, Len(output_pins))
  BY <1>1, <1>2, <1>3, <1>4 DEF Declaring
<1>6. PICK T : /\ names \in Seq(T) /\ n \in Nat /\ n >= 1 /\ DOMAIN names = 1 .. n /\ Distinct(names)
               /\ \A k \in DOMAIN names : names[k][1] = d[1]
               /\ d[2] \in Nat /\ (d[2] > 0 => n = d[2] /\ names = BusNames(<<d[1]>>, d[2]))
  BY <1>1, <1>5, DeclaredReads
<1>7. LongerBy(output_pins, output_pins', names)
  <2>1. names \in Seq(Signals') /\ Signals \subseteq Signals'
    BY <1>1, <1>2, <1>3, <1>4, DeclaredTyped
  <2>2. output_pins \in Seq(Signals')
    BY <2>1, StillTyped, TypeParts
  <2>. QED
    BY <1>2, <2>1, <2>2, LongerPins
<1>8. Len(output_pins') = b + n
  BY <1>1, <1>7 DEF LongerBy
<1>9. InOrder /\ dependencies = <<>> /\ dependencies' = <<>>
  BY <1>1, <1>2, <1>4, <1>5, <1>6, <1>8, DeclaredBefore
<1>10. PartInputs(dependencies) = <<>> /\ PartOutputs(dependencies) = <<>>
  BY <1>9, SidesEmpty
<1>11. PartInputs(dependencies') = <<>> /\ PartOutputs(dependencies') = <<>>
  BY <1>9, SidesEmpty
<1>12. input_pin_offset = a /\ output_pin_offset = b
  <2>1. ~InPart
    BY <1>2 DEF InPart, InChip
  <2>. QED
    BY <1>1, <1>4, <1>9, <1>10, <2>1 DEF InOrder, PinsCounted, SideCounted
<1>13. PinsCounted'
  <2>1. ~InPart'
    BY <1>2 DEF InPart, Declared
  <2>2. Len(PartInputs(dependencies')) = 0 /\ Len(PartOutputs(dependencies')) = 0
    BY <1>11
  <2>3. SideCounted(Len(input_pins'), PartInputs(dependencies'), input_pin_offset')
    BY <1>1, <1>2, <1>4, <1>12, <2>2 DEF SideCounted
  <2>4. SideCounted(Len(output_pins'), PartOutputs(dependencies'), output_pin_offset')
    BY <1>1, <1>2, <1>4, <1>6, <1>8, <1>12, <2>2 DEF SideCounted
  <2>. QED
    BY <2>1, <2>3, <2>4 DEF PinsCounted
<1>14. SidesGrow
  BY <1>1, <1>2, <1>4, <1>6, <1>8, <1>9, <1>10, <1>11 DEF SidesGrow, SideGrows
<1>15. \A k \in 1 .. Len(names) :
         PinAt'[INPUT_PIN_LIMIT + output_pin_offset + k - 1] = <<0, "out", Len(output_pins) + k - 1>>
  <2> SUFFICES ASSUME NEW k \in 1 .. n
               PROVE  PinAt'[INPUT_PIN_LIMIT + b + k - 1] = <<0, "out", b + k - 1>>
    BY <1>1, <1>12
  <2>1. PICK m, o, a2, p2, b2, q2 : /\ m = INPUT_PIN_LIMIT + b + k - 1 /\ o = b + k - 1
                                    /\ a2 = Len(input_pins') /\ p2 = PartInputs(dependencies')
                                    /\ b2 = Len(output_pins') /\ q2 = PartOutputs(dependencies')
    OBVIOUS
  <2>2. m \in Nat /\ ~(m < INPUT_PIN_LIMIT) /\ m - INPUT_PIN_LIMIT = o /\ o < b2
    BY <1>4, <1>6, <1>8, <2>1, PinLimitAssumption
  <2>3. Place(a2, p2, b2, q2, m) = <<0, "out", o>>
    BY ONLY <2>2 DEF Place
  <2>4. PinAt' = PlaceMap(a2, p2, b2, q2)
    BY <2>1, PinsAre
  <2>5. PinAt'[m] = <<0, "out", o>>
    BY ONLY <2>2, <2>3, <2>4 DEF PlaceMap
  <2>. QED
    BY <2>1, <2>5
<1>16. Named'
  BY <1>1, <1>5, <1>9, <1>14, <1>15, DeclaredNamed
<1>17. Buses'
  BY <1>5, <1>9, DeclaredBuses DEF InOrder
<1>18. DeclaredFirst'
  BY <1>5, <1>9, DeclaredFirstKept DEF InOrder
<1>19. OwnMentions'
  <2>1. ASSUME NEW m \in DOMAIN source', source'[m].pin[1] = 0
        PROVE  OwnBy(input_pins', "in", source'[m]) \/ OwnBy(output_pins', "out", source'[m])
    <3>1. CASE m \in DOMAIN source /\ source'[m] = source[m]
      <4>1. OwnBy(input_pins, "in", source'[m]) \/ OwnBy(output_pins, "out", source'[m])
        BY <1>9, <2>1, <3>1 DEF InOrder, OwnMentions
      <4>. QED
        BY <1>2, <1>7, <4>1, OwnStays
    <3>2. ASSUME NEW k \in 1 .. Len(names), source'[m].signal = names[k],
                 source'[m].pin = <<0, "out", Len(output_pins) + k - 1>>
          PROVE  OwnBy(output_pins', "out", source'[m])
      BY <1>7, <3>2, OwnAdded
    <3>. QED
      BY <1>1, <1>5, <3>1, <3>2, DeclaredMentions
  <2>. QED
    BY <2>1 DEF OwnMentions
<1>20. OwnNames'
  <2>1. Distinct(input_pins) /\ Distinct(output_pins) /\ Apart(input_pins, output_pins)
    BY <1>9 DEF InOrder, OwnNames
  <2>2. Apart(output_pins, names) /\ Apart(names, input_pins)
    BY <1>2, <1>6, UndeclaredNames
  <2>5. Apart(output_pins, input_pins)
    BY <2>1 DEF Apart
  <2>3. Distinct(output_pins') /\ Apart(output_pins', input_pins)
    BY <1>6, <1>7, <2>1, <2>2, <2>5, LongerDistinct
  <2>4. Apart(input_pins, output_pins')
    BY <2>3 DEF Apart
  <2>. QED
    BY <1>2, <2>1, <2>3, <2>4 DEF OwnNames
<1>21. OwnBuses'
  <2>1. \A c \in bus : c[2] \in Nat /\ c[3] \in Nat
    BY DEF TypeOK
  <2>2. ASSUME NEW c \in bus
        PROVE  BusAt(input_pins', c[2], c) \/ BusAt(output_pins', c[2] - INPUT_PIN_LIMIT, c)
    <3>1. BusAt(input_pins, c[2], c) \/ BusAt(output_pins, c[2] - INPUT_PIN_LIMIT, c)
      BY <1>9 DEF InOrder, OwnBuses
    <3>2. c[2] - INPUT_PIN_LIMIT \in Int
      BY <2>1, PinLimitAssumption
    <3>. QED
      BY <1>2, <1>7, <3>1, <3>2, BusAtStays
  <2>3. PICK s : s = INPUT_PIN_LIMIT + output_pin_offset
    OBVIOUS
  <2>4. s - INPUT_PIN_LIMIT = Len(output_pins)
    BY <1>1, <1>4, <1>12, <2>3, PinLimitAssumption
  <2>5. ASSUME d[2] > 0
        PROVE  BusAt(output_pins', Len(output_pins), <<d[1], s, d[2]>>)
    BY <1>1, <1>6, <1>7, <2>5, BusAtAdded
  <2>6. \A c \in bus' : c \in bus \/ (d[2] > 0 /\ c = <<d[1], s, d[2]>>)
    BY <1>2, <1>6, <2>3 DEF Declared
  <2>7. ASSUME NEW c \in bus'
        PROVE  BusAt(input_pins', c[2], c) \/ BusAt(output_pins', c[2] - INPUT_PIN_LIMIT, c)
    <3>1. CASE c \in bus
      BY <2>2, <3>1
    <3>2. CASE d[2] > 0 /\ c = <<d[1], s, d[2]>>
      <4>1. c[2] = s
        BY <3>2
      <4>. QED
        BY <2>4, <2>5, <3>2, <4>1
    <3>. QED
      BY <2>6, <3>1, <3>2
  <2>. QED
    BY <2>7 DEF OwnBuses
<1>22. Wired'
  BY <1>2 DEF Wired, Declared
<1>. QED
  BY <1>13, <1>16, <1>17, <1>18, <1>19, <1>20, <1>21, <1>22 DEF InOrder

-----------------------------------------------------------------------------
(* PARTS and SUBGATE keep the invariant. *)

\* The pins of a part that is added are not counted yet.
LEMMA SideOfPart ==
  ASSUME NEW S, NEW pins \in Seq(S), NEW more \in Seq(S), NEW own \in Nat, NEW offset, SideCounted(own, pins, offset),
         NEW part, NEW side, NEW size, Len(more) = size, \A k \in 1 .. size : more[k] = <<part, side, k - 1>>
  PROVE  /\ SideCounting(own, pins \o more, offset, part, side, size)
         /\ SideGrows(own, pins, own, pins \o more)
<1>1. PICK p, all : p = Len(pins) /\ all = pins \o more
  OBVIOUS
<1>2. p \in Nat /\ size \in Nat /\ offset = own + p
  BY <1>1 DEF SideCounted
<1>3. /\ Grows(pins, all, p, p + size)
      /\ \A k \in 1 .. size : all[p + k] = more[k]
  <2>1. /\ Grows(pins, pins \o more, Len(pins), Len(pins) + Len(more))
        /\ \A k \in 1 .. Len(more) : (pins \o more)[Len(pins) + k] = more[k]
    BY JoinedGrows
  <2>. QED
    BY <1>1, <2>1
<1>4. Len(all) = p + size
  <2>1. Len(pins \o more) = Len(pins) + Len(more)
    BY ONLY pins \in Seq(S), more \in Seq(S)
  <2>. QED
    BY <1>1, <2>1
<1>5. offset >= own /\ offset + size = own + Len(all)
  BY <1>2, <1>4
<1>6. \A k \in 1 .. size : all[offset - own + k] = <<part, side, k - 1>>
  <2>1. offset - own = p
    BY <1>2
  <2>. QED
    BY <1>3, <2>1
<1>7. SideCounting(own, all, offset, part, side, size)
  BY <1>5, <1>6 DEF SideCounting
<1>8. SideGrows(own, pins, own, all)
  BY <1>1, <1>2, <1>3, <1>4 DEF SideGrows, Grows
<1>. QED
  BY <1>1, <1>7, <1>8

LEMMA PART_kept ==
  ASSUME TypeOK, TypeOK', Fine => InOrder, Fine',
         NEW name \in Parts, PARTS_statement(name) \/ SUBGATE_statement(name)
  PROVE  InOrder'
<1>1. /\ phase' \in {"PARTS", "SUBGATE"} /\ ~InPart /\ add_subgate_metadata(name)
      /\ UNCHANGED <<input_pins, output_pins, wire_linkages, bus, input_pin_offset, output_pin_offset,
                     pin_numbers, bus_numbers, linkages, source>>
      /\ dependencies' = Append(dependencies, name)
  BY DEF PARTS_statement, SUBGATE_statement, InChip, InPart, add_subgate_metadata
<1>2. name \in DOMAIN Chips /\ ~has_error /\ context_gate_metadata' = name
  BY <1>1 DEF add_subgate_metadata, Fine
<1>3. PICK n, P, Q, A, B : /\ n = Len(dependencies) + 1 /\ P = PartInputs(dependencies) /\ Q = PartOutputs(dependencies)
                           /\ A = PinsOfPart(n, name, "in", InputNames) /\ B = PinsOfPart(n, name, "out", OutputNames)
  OBVIOUS
<1>4. dependencies \in Seq(Parts) /\ Len(dependencies) \in Nat /\ n \in Nat
  <2>1. dependencies \in Seq(Parts)
    BY DEF TypeOK
  <2>. QED
    BY <1>3, <2>1
<1>5. PartInputs(dependencies') = P \o A /\ PartOutputs(dependencies') = Q \o B
  BY <1>1, <1>3, <1>4, SidesAdded
<1>6. /\ A \in Seq(Recipe!Pin) /\ Len(A) = Len(InputNames[name])
      /\ \A k \in 1 .. Len(InputNames[name]) : A[k] = <<n, "in", k - 1>>
  <2>1. Listed(InputNames)
    BY ChipListed
  <2>2. PartAt(A, Len(InputNames[name]), n, "in")
    BY <1>2, <1>3, <1>4, <2>1, PinsOfChip
  <2>. QED
    BY <2>2 DEF PartAt
<1>7. /\ B \in Seq(Recipe!Pin) /\ Len(B) = Len(OutputNames[name])
      /\ \A k \in 1 .. Len(OutputNames[name]) : B[k] = <<n, "out", k - 1>>
  <2>1. Listed(OutputNames)
    BY ChipListed
  <2>2. PartAt(B, Len(OutputNames[name]), n, "out")
    BY <1>2, <1>3, <1>4, <2>1, PinsOfChip
  <2>. QED
    BY <2>2 DEF PartAt
<1>8. P \in Seq(Recipe!Pin) /\ Q \in Seq(Recipe!Pin)
  BY <1>3, <1>4, SidesTyped
<1>9. Len(input_pins) \in Nat /\ Len(output_pins) \in Nat
  <2>1. input_pins \in Seq(Signals) /\ output_pins \in Seq(Signals)
    BY DEF TypeOK
  <2>. QED
    BY <2>1
<1>10. Fine
  <2>1. Grows(source, source', Len(source), Len(source))
    <3>1. source \in Seq([pin : Recipe!Pin, signal : Signals, whole : BOOLEAN])
      BY DEF TypeOK
    <3>. QED
      BY <1>1, <3>1 DEF Grows
  <2>2. Len(input_pins) + Len(PartInputs(dependencies)) <= Len(input_pins') + Len(PartInputs(dependencies'))
    <3>1. PICK S : S = Recipe!Pin
      OBVIOUS
    <3>2. P \in Seq(S) /\ A \in Seq(S)
      BY <1>6, <1>8, <3>1
    <3>3. Len(P \o A) = Len(P) + Len(A) /\ Len(P) \in Nat /\ Len(A) \in Nat
      BY ONLY <3>2
    <3>4. PICK a, b, c : a = Len(input_pins) /\ b = Len(P) /\ c = Len(P \o A)
      OBVIOUS
    <3>5. a + b <= a + c
      BY <1>9, <3>3, <3>4
    <3>. QED
      BY <1>1, <1>3, <1>5, <3>4, <3>5
  <2>. QED
    BY <1>2, <2>1, <2>2, FineBefore
<1>11. InOrder
  BY <1>10
<1>12. SideCounted(Len(input_pins), P, input_pin_offset) /\ SideCounted(Len(output_pins), Q, output_pin_offset)
  BY <1>1, <1>3, <1>11 DEF InOrder, PinsCounted
<1>13. /\ SideCounting(Len(input_pins), P \o A, input_pin_offset, n, "in", Len(InputNames[name]))
       /\ SideGrows(Len(input_pins), P, Len(input_pins), P \o A)
  <2>1. PICK S, own, size : S = Recipe!Pin /\ own = Len(input_pins) /\ size = Len(InputNames[name])
    OBVIOUS
  <2>2. /\ P \in Seq(S) /\ A \in Seq(S) /\ own \in Nat /\ SideCounted(own, P, input_pin_offset)
        /\ Len(A) = size /\ \A k \in 1 .. size : A[k] = <<n, "in", k - 1>>
    BY <1>6, <1>8, <1>9, <1>12, <2>1
  <2>3. SideCounting(own, P \o A, input_pin_offset, n, "in", size) /\ SideGrows(own, P, own, P \o A)
    BY ONLY <2>2, SideOfPart
  <2>. QED
    BY <2>1, <2>3
<1>14. /\ SideCounting(Len(output_pins), Q \o B, output_pin_offset, n, "out", Len(OutputNames[name]))
       /\ SideGrows(Len(output_pins), Q, Len(output_pins), Q \o B)
  <2>1. PICK S, own, size : S = Recipe!Pin /\ own = Len(output_pins) /\ size = Len(OutputNames[name])
    OBVIOUS
  <2>2. /\ Q \in Seq(S) /\ B \in Seq(S) /\ own \in Nat /\ SideCounted(own, Q, output_pin_offset)
        /\ Len(B) = size /\ \A k \in 1 .. size : B[k] = <<n, "out", k - 1>>
    BY <1>7, <1>8, <1>9, <1>12, <2>1
  <2>3. SideCounting(own, Q \o B, output_pin_offset, n, "out", size) /\ SideGrows(own, Q, own, Q \o B)
    BY ONLY <2>2, SideOfPart
  <2>. QED
    BY <2>1, <2>3
<1>15. dependencies' # <<>> /\ Len(dependencies') = n /\ subgate_name' = name
  <2>1. PICK e : e = dependencies'
    OBVIOUS
  <2>2. Len(e) = n /\ e[n] = name
    BY <1>1, <1>3, <1>4, <2>1
  <2>3. e # <<>>
    BY <1>3, <1>4, <2>2
  <2>. QED
    BY <2>1, <2>2, <2>3 DEF subgate_name, Last
<1>16. PinsCounted'
  <2>1. InPart' /\ subgate_added'
    BY <1>1, <1>2, <1>15 DEF InPart, subgate_added
  <2>2. SideCounting(Len(input_pins'), PartInputs(dependencies'), input_pin_offset', Len(dependencies'), "in",
                     Len(InputNames[subgate_name']))
    BY <1>1, <1>5, <1>13, <1>15
  <2>3. SideCounting(Len(output_pins'), PartOutputs(dependencies'), output_pin_offset', Len(dependencies'), "out",
                     Len(OutputNames[subgate_name']))
    BY <1>1, <1>5, <1>14, <1>15
  <2>. QED
    BY <1>2, <1>15, <2>1, <2>2, <2>3 DEF PinsCounted
<1>17. DeclaredFirst'
  BY <1>1, <1>15 DEF DeclaredFirst
<1>18. SidesGrow
  BY <1>1, <1>3, <1>5, <1>13, <1>14 DEF SidesGrow
<1>19. Named'
  BY <1>1, <1>11, <1>18, NamedStays DEF InOrder
<1>20. Buses' /\ OwnMentions' /\ OwnNames' /\ OwnBuses' /\ Wired'
  BY <1>1, <1>11 DEF InOrder, Buses, OwnMentions, OwnNames, OwnBuses, Wired
<1>. QED
  BY <1>16, <1>17, <1>19, <1>20 DEF InOrder

-----------------------------------------------------------------------------
(* Linkages keep the invariant. *)

AtSide(own, pins, m, pin) == own <= m /\ m < own + Len(pins) /\ pins[m - own + 1] = pin

Measured(own, pins, offset, size) == own \in Nat /\ Len(pins) \in Nat /\ offset \in Nat /\ size \in Nat

LEMMA SideFound ==
  ASSUME NEW own, NEW pins, NEW offset, NEW part, NEW side, NEW size, Measured(own, pins, offset, size),
         SideCounting(own, pins, offset, part, side, size), NEW number \in Nat, number < size
  PROVE  AtSide(own, pins, number + offset, <<part, side, number>>)
<1>0. own \in Nat /\ Len(pins) \in Nat /\ offset \in Nat /\ size \in Nat
  BY DEF Measured
<1>1. /\ offset >= own /\ offset + size = own + Len(pins)
      /\ \A k \in 1 .. size : pins[offset - own + k] = <<part, side, k - 1>>
  BY DEF SideCounting
<1>2. PICK k \in 1 .. size : k = number + 1 /\ k - 1 = number
  BY <1>0
<1>3. pins[offset - own + k] = <<part, side, number>>
  BY <1>1, <1>2
<1>4. offset - own + k = (number + offset) - own + 1
  BY <1>0, <1>2
<1>5. own <= number + offset /\ number + offset < own + Len(pins)
  BY <1>0, <1>1
<1>. QED
  BY <1>3, <1>4, <1>5 DEF AtSide

\* The parser counts the pins of the part as the gate that loads the recipe does.
Found(number) ==
  /\ number \in Nat /\ NumberInChip(number) \in Nat
  /\ PinAt[NumberInChip(number)] = PartPin(number)
  /\ number >= INPUT_PIN_LIMIT <=> PartPin(number)[2] = "out"
  /\ PartPin(number)[1] > 0

LEMMA PinsFound ==
  ASSUME TypeOK, Addressable, PinsCounted, InPart, NEW number \in Nat, PinNumber(subgate_name, number)
  PROVE  Found(number)
<1>1. PICK a, p, b, q, n, s, t, f, g, L :
        /\ a = Len(input_pins) /\ p = PartInputs(dependencies)
        /\ b = Len(output_pins) /\ q = PartOutputs(dependencies)
        /\ n = Len(dependencies) /\ s = Len(InputNames[subgate_name]) /\ t = Len(OutputNames[subgate_name])
        /\ f = input_pin_offset /\ g = output_pin_offset /\ L = INPUT_PIN_LIMIT
  OBVIOUS
<1>2. dependencies \in Seq(Parts) /\ input_pins \in Seq(Signals) /\ output_pins \in Seq(Signals) /\ f \in Nat /\ g \in Nat
  BY <1>1 DEF TypeOK
<1>3. /\ dependencies # <<>> /\ subgate_name \in DOMAIN Chips
      /\ SideCounting(a, p, f, n, "in", s) /\ SideCounting(b, q, g, n, "out", t)
  BY <1>1 DEF PinsCounted, subgate_added
<1>4. n \in Nat /\ n > 0
  BY <1>1, <1>2, <1>3
<1>5. a \in Nat /\ b \in Nat
  BY <1>1, <1>2
<1>6. Len(p) \in Nat /\ Len(q) \in Nat
  <2>1. p \in Seq(Recipe!Pin) /\ q \in Seq(Recipe!Pin)
    BY <1>1, <1>2, SidesTyped
  <2>2. PICK S : S = Recipe!Pin
    OBVIOUS
  <2>. QED
    BY ONLY <2>1, <2>2
<1>7. s \in Nat /\ t \in Nat
  BY <1>1, <1>3, ChipListed DEF Listed
<1>8. a + Len(p) <= L /\ L \in Nat
  BY <1>1, PinLimitAssumption DEF Addressable
<1>9. s <= L /\ f + s = a + Len(p) /\ f >= a
  BY <1>2, <1>3, <1>5, <1>6, <1>7, <1>8 DEF SideCounting
<1>10. PinAt = PlaceMap(a, p, b, q)
  BY <1>1, PinsAre
<1>11. CASE number < s
  <2>1. number < L
    BY <1>7, <1>8, <1>9, <1>11
  <2>2. PICK m : m = number + f
    OBVIOUS
  <2>3. NumberInChip(number) = m /\ PartPin(number) = <<n, "in", number>>
    BY <1>1, <1>8, <2>1, <2>2 DEF NumberInChip, PartPin
  <2>4. m \in Nat /\ a <= m /\ m < a + Len(p) /\ p[m - a + 1] = <<n, "in", number>>
    <3>1. Measured(a, p, f, s)
      BY <1>2, <1>5, <1>6, <1>7 DEF Measured
    <3>2. AtSide(a, p, number + f, <<n, "in", number>>)
      BY <1>3, <1>11, <3>1, SideFound
    <3>3. AtSide(a, p, m, <<n, "in", number>>)
      BY <2>2, <3>2
    <3>. QED
      BY <1>2, <2>2, <3>3 DEF AtSide
  <2>5. m < L /\ ~(m < a) /\ m - a < Len(p)
    BY <1>5, <1>6, <1>8, <2>4
  <2>6. Place(a, p, b, q, m) = <<n, "in", number>>
    BY ONLY <1>1, <2>4, <2>5 DEF Place
  <2>7. PinAt[m] = <<n, "in", number>>
    BY ONLY <1>10, <2>4, <2>6 DEF PlaceMap
  <2>8. <<n, "in", number>>[1] = n /\ <<n, "in", number>>[2] = "in"
    OBVIOUS
  <2>. QED
    BY <1>1, <1>4, <1>8, <2>1, <2>3, <2>4, <2>7, <2>8 DEF Found
<1>12. CASE number >= L /\ number - L < t
  <2>1. PICK m, o, i : m = number + g /\ o = m - L /\ i = number - L
    OBVIOUS
  <2>2. i \in Nat /\ i < t /\ o = i + g /\ m \in Nat /\ ~(m < L)
    BY <1>2, <1>8, <1>12, <2>1
  <2>3. NumberInChip(number) = m /\ PartPin(number) = <<n, "out", i>>
    BY <1>1, <1>8, <1>12, <2>1 DEF NumberInChip, PartPin
  <2>4. o \in Nat /\ b <= o /\ o < b + Len(q) /\ q[o - b + 1] = <<n, "out", i>>
    <3>1. Measured(b, q, g, t)
      BY <1>2, <1>5, <1>6, <1>7 DEF Measured
    <3>2. AtSide(b, q, i + g, <<n, "out", i>>)
      BY <1>3, <2>2, <3>1, SideFound
    <3>3. AtSide(b, q, o, <<n, "out", i>>)
      BY <2>2, <3>2
    <3>. QED
      BY <1>2, <2>2, <3>3 DEF AtSide
  <2>5. ~(o < b) /\ o - b < Len(q)
    BY <1>5, <1>6, <2>4
  <2>6. Place(a, p, b, q, m) = <<n, "out", i>>
    BY ONLY <1>1, <2>1, <2>2, <2>4, <2>5 DEF Place
  <2>7. PinAt[m] = <<n, "out", i>>
    BY ONLY <1>10, <2>2, <2>6 DEF PlaceMap
  <2>8. <<n, "out", i>>[1] = n /\ <<n, "out", i>>[2] = "out"
    OBVIOUS
  <2>. QED
    BY <1>1, <1>4, <1>12, <2>2, <2>3, <2>7, <2>8 DEF Found
<1>. QED
  BY <1>1, <1>11, <1>12 DEF PinNumber

\* So it is with the pins of a bus.
BusFoundAt(start, size) ==
  \A k \in 1 .. size :
    /\ Found(start + k - 1) /\ NumberInChip(start + k - 1) = NumberInChip(start) + k - 1
    /\ start + k - 1 >= INPUT_PIN_LIMIT <=> start >= INPUT_PIN_LIMIT

LEMMA BusFound ==
  ASSUME TypeOK, Addressable, PinsCounted, InPart, NEW start, NEW size, BusNumber(subgate_name, start, size)
  PROVE  BusFoundAt(start, size)
<1>1. PICK s, t, L : s = Len(InputNames[subgate_name]) /\ t = Len(OutputNames[subgate_name]) /\ L = INPUT_PIN_LIMIT
  OBVIOUS
<1>2. start \in Nat /\ size \in Nat /\ (start + size <= s \/ (start >= L /\ start - L + size <= t))
  BY <1>1 DEF BusNumber
<1>3. subgate_name \in DOMAIN Chips
  BY DEF PinsCounted, subgate_added
<1>4. s \in Nat /\ t \in Nat /\ L \in Nat
  BY <1>1, <1>3, ChipListed, PinLimitAssumption DEF Listed
<1>5. s <= L
  <2>1. SideCounting(Len(input_pins), PartInputs(dependencies), input_pin_offset, Len(dependencies), "in", s)
    BY <1>1 DEF PinsCounted
  <2>2. PICK a, b, f : a = Len(input_pins) /\ b = Len(PartInputs(dependencies)) /\ f = input_pin_offset
    OBVIOUS
  <2>3. f >= a /\ f + s = a + b /\ a + b <= L
    BY <1>1, <2>1, <2>2 DEF SideCounting, Addressable
  <2>4. a \in Nat /\ b \in Nat /\ f \in Nat
    <3>1. dependencies \in Seq(Parts) /\ input_pins \in Seq(Signals) /\ f \in Nat
      BY <2>2 DEF TypeOK
    <3>2. PartInputs(dependencies) \in Seq(Recipe!Pin)
      BY <3>1, SidesTyped
    <3>3. PICK S : S = Recipe!Pin
      OBVIOUS
    <3>4. b \in Nat
      BY ONLY <2>2, <3>2, <3>3
    <3>. QED
      BY <2>2, <3>1, <3>4
  <2>. QED
    BY <1>4, <2>3, <2>4
<1>6. ASSUME NEW k \in 1 .. size
      PROVE  /\ Found(start + k - 1) /\ NumberInChip(start + k - 1) = NumberInChip(start) + k - 1
             /\ start + k - 1 >= INPUT_PIN_LIMIT <=> start >= INPUT_PIN_LIMIT
  <2>1. PICK m : m = start + k - 1
    OBVIOUS
  <2>2. m \in Nat /\ (m < s \/ (m >= L /\ m - L < t))
    BY <1>2, <1>4, <2>1
  <2>3. m >= L <=> start >= L
    BY <1>2, <1>4, <1>5, <2>1
  <2>4. Found(m)
    BY <1>1, <2>2, PinsFound DEF PinNumber
  <2>5. NumberInChip(m) = NumberInChip(start) + k - 1
    <3>1. input_pin_offset \in Nat /\ output_pin_offset \in Nat
      BY DEF TypeOK
    <3>. QED
      BY <1>1, <1>2, <2>1, <2>2, <2>3, <3>1 DEF NumberInChip
  <2>. QED
    BY <1>1, <2>1, <2>3, <2>4, <2>5
<1>. QED
  BY <1>6 DEF BusFoundAt


\* The mentions that a linkage adds.
Added(S, S2, names, pins, whole) ==
  LET p == Len(S)
      n == Len(names)
  IN  /\ p \in Nat /\ n \in Nat /\ Grows(S, S2, p, p + n)
      /\ \A k \in 1 .. n : /\ p + k \in p + 1 .. p + n
                          /\ S2[p + k].signal = names[k] /\ S2[p + k].pin = pins[k] /\ S2[p + k].whole = whole
      /\ \A m \in p + 1 .. p + n : \E k \in 1 .. n : m = p + k

LEMMA AddsMentions ==
  ASSUME NEW S, NEW S2, NEW names, NEW pins, NEW whole, Len(names) \in Nat, Adds(S, S2, names, pins, whole)
  PROVE  Added(S, S2, names, pins, whole)
<1>1. PICK p, n : p = Len(S) /\ n = Len(names)
  OBVIOUS
<1>2. /\ Grows(S, S2, p, p + n)
      /\ \A k \in 1 .. n : /\ p + k \in p + 1 .. p + n
                          /\ S2[p + k] = [pin |-> pins[k], signal |-> names[k], whole |-> whole]
      /\ \A m \in p + 1 .. p + n : m - p \in 1 .. n /\ m = p + (m - p)
  BY <1>1 DEF Adds
<1>3. ASSUME NEW k \in 1 .. n
      PROVE  S2[p + k].signal = names[k] /\ S2[p + k].pin = pins[k] /\ S2[p + k].whole = whole
  <2>1. PICK e, a, b : e = S2[p + k] /\ a = pins[k] /\ b = names[k]
    OBVIOUS
  <2>2. e = [pin |-> a, signal |-> b, whole |-> whole]
    BY <1>2, <2>1
  <2>3. e.signal = b /\ e.pin = a /\ e.whole = whole
    BY ONLY <2>2
  <2>. QED
    BY ONLY <2>1, <2>3
<1>4. p \in Nat /\ n \in Nat
  BY <1>1, <1>2 DEF Grows
<1>5. \A m \in p + 1 .. p + n : \E k \in 1 .. n : m = p + k
  BY <1>2
<1>. QED
  BY ONLY <1>1, <1>2, <1>3, <1>4, <1>5 DEF Added

LEMMA LinksAdded ==
  ASSUME NEW A, NEW L \in Seq(A), NEW B, NEW M \in Seq(B)
  PROVE  LongerBy(L, L \o M, M)
<1>1. PICK C : C = A \cup B
  OBVIOUS
<1>2. L \in Seq(C) /\ M \in Seq(C)
  BY <1>1, SeqGrows
<1>. QED
  BY <1>2, LongerPins

\* Linkages that lead to the new mentions.
LinkedTo(S, S2, L, L2, P, n) ==
  LET p == Len(S)
      i == Len(L)
  IN  \/ L2 = L
      \/ /\ Grows(L, L2, i, i + n)
         /\ \A k \in 1 .. n : Leads(P, L2[i + k], S2[p + k])

\* New signals are known by the pins of the part, or known ones are linked.
LEMMA LinkNamed ==
  ASSUME TypeOK, TypeOK', Named, SidesGrow, NEW names, NEW pins, NEW whole,
         Added(source, source', names, pins, whole),
         LinkedTo(source, source', linkages, linkages', PinAt', Len(names)),
         \/ Fresh(source, source', pin_numbers, pin_numbers', PinAt', Len(source), Len(source) + Len(names))
         \/ /\ linkages' # linkages
            /\ pin_numbers' = pin_numbers
            /\ \A k \in 1 .. Len(names) : names[k] \in DOMAIN pin_numbers
  PROVE  Named'
<1>1. PICK p, n, q, i : p = Len(source) /\ n = Len(names) /\ q = p + n /\ i = Len(linkages)
  OBVIOUS
<1>2. /\ p \in Nat /\ n \in Nat /\ Grows(source, source', p, q)
      /\ \A k \in 1 .. n : p + k \in p + 1 .. q /\ source'[p + k].signal = names[k]
      /\ \A m \in p + 1 .. q : \E k \in 1 .. n : m = p + k
  BY <1>1 DEF Added
<1>3. i \in Nat /\ DOMAIN linkages = 1 .. i
  <2>1. linkages \in Seq(Signals \X Nat \X BOOLEAN)
    BY DEF TypeOK
  <2>. QED
    BY <1>1, <2>1
<1>4. CASE linkages' = linkages
  <2>1. Grows(linkages, linkages', i, i) /\ i + 1 .. i = {}
    BY <1>3, <1>4 DEF Grows
  <2>2. Fresh(source, source', pin_numbers, pin_numbers', PinAt', p, q)
    BY <1>1, <1>4
  <2>. QED
    BY <1>1, <1>2, <2>1, <2>2, NamedKept
<1>5. CASE linkages' # linkages
  <2>1. /\ Grows(linkages, linkages', i, i + n)
        /\ \A k \in 1 .. n : Leads(PinAt', linkages'[i + k], source'[p + k])
    BY <1>1, <1>5 DEF LinkedTo
  <2>2. \A k \in i + 1 .. i + n : \E m \in p + 1 .. q : Leads(PinAt', linkages'[k], source'[m])
    <3> SUFFICES ASSUME NEW k \in i + 1 .. i + n
                 PROVE  \E m \in p + 1 .. q : Leads(PinAt', linkages'[k], source'[m])
      OBVIOUS
    <3>1. k - i \in 1 .. n /\ i + (k - i) = k
      BY <1>2, <1>3
    <3>2. PICK j \in 1 .. n : k = i + j
      BY <3>1
    <3>. QED
      BY <1>2, <2>1, <3>2
  <2>3. \/ Fresh(source, source', pin_numbers, pin_numbers', PinAt', p, q)
        \/ Later(source', pin_numbers, pin_numbers', linkages', PinAt', p, q)
    <3> SUFFICES ASSUME pin_numbers' = pin_numbers, \A k \in 1 .. n : names[k] \in DOMAIN pin_numbers
                 PROVE  Later(source', pin_numbers, pin_numbers', linkages', PinAt', p, q)
      BY <1>1
    <3>1. ASSUME NEW m \in p + 1 .. q
          PROVE  /\ source'[m].signal \in DOMAIN pin_numbers
                 /\ \E k \in DOMAIN linkages' : Leads(PinAt', linkages'[k], source'[m])
      <4>1. PICK k \in 1 .. n : m = p + k
        BY <1>2
      <4>2. i + k \in 1 .. i + n /\ DOMAIN linkages' = 1 .. i + n
        BY <1>2, <1>3, <2>1 DEF Grows
      <4>. QED
        BY <1>2, <2>1, <4>1, <4>2
    <3>. QED
      BY <3>1 DEF Later
  <2>. QED
    BY <1>1, <1>2, <2>1, <2>2, <2>3, NamedKept
<1>. QED
  BY <1>4, <1>5


\* What a linkage keeps: a pin of a part is mentioned.
LinkKept ==
  /\ Named' /\ Buses'
  /\ \A m \in DOMAIN source' : m \notin DOMAIN source => source'[m].pin[1] > 0
  /\ \E m \in DOMAIN source' : source'[m].pin[1] > 0

LEMMA PartMentions ==
  ASSUME NEW names, NEW pins, NEW whole, Added(source, source', names, pins, whole), Len(names) > 0,
         \A k \in 1 .. Len(names) : pins[k][1] > 0
  PROVE  /\ \A m \in DOMAIN source' : m \notin DOMAIN source => source'[m].pin[1] > 0
         /\ \E m \in DOMAIN source' : source'[m].pin[1] > 0
<1>1. PICK p, n, q : p = Len(source) /\ n = Len(names) /\ q = p + n
  OBVIOUS
<1>2. /\ p \in Nat /\ n \in Nat /\ DOMAIN source = 1 .. p /\ DOMAIN source' = 1 .. q
      /\ \A k \in 1 .. n : source'[p + k].pin = pins[k]
      /\ \A m \in p + 1 .. q : \E k \in 1 .. n : m = p + k
  BY <1>1 DEF Added, Grows
<1>3. \A m \in 1 .. q : m \notin 1 .. p => m \in p + 1 .. q
  BY <1>1, <1>2
<1>4. ASSUME NEW m \in p + 1 .. q
      PROVE  source'[m].pin[1] > 0
  <2>1. PICK k \in 1 .. n : m = p + k
    BY <1>2
  <2>2. source'[m].pin = pins[k] /\ pins[k][1] > 0
    BY <1>1, <1>2, <2>1
  <2>. QED
    BY <2>2
<1>5. p + 1 \in p + 1 .. q /\ p + 1 \in 1 .. q
  BY <1>1, <1>2
<1>. QED
  BY <1>2, <1>3, <1>4, <1>5

LEMMA BusKept ==
  ASSUME TypeOK, TypeOK', InOrder, InPart, Addressable, SidesGrow, PinAt' = PinAt, ~has_error',
         NEW start, NEW size, BusNumber(subgate_name, start, size),
         NEW signal, IsName(signal), link_bus(start, size, signal)
  PROVE  LinkKept
<1>1. PICK names, pins, first, out : /\ names = BusNames(signal, size) /\ pins = BusPins(start, size)
                                     /\ first = NumberInChip(start) /\ out = (start >= INPUT_PIN_LIMIT)
  OBVIOUS
<1>2. start \in Nat /\ size \in Nat /\ size > 0
  BY DEF BusNumber
<1>3. SignalsTyped /\ OwnPinsTyped /\ OthersTyped
  BY TypeParts
<1>4. first \in Nat
  BY <1>1, <1>2, <1>3, NumbersTyped
<1>5. PICK T : /\ names \in Seq(T) /\ Len(names) = size /\ DOMAIN names = 1 .. size
               /\ \A k \in 1 .. size : names[k] = Append(signal, size - k)
               /\ Distinct(names)
  BY <1>1, <1>2, BusNamesAre
<1>6. Adds(source, source', names, pins, TRUE)
  BY <1>1, <1>2, <1>3, BusRead
<1>7. Added(source, source', names, pins, TRUE)
  BY <1>2, <1>5, <1>6, AddsMentions
<1>8. \A k \in 1 .. size : /\ PinAt'[first + k - 1] = pins[k] /\ pins[k][1] > 0
                           /\ out <=> pins[k][2] = "out"
  <2>1. BusFoundAt(start, size)
    BY BusFound DEF InOrder
  <2> SUFFICES ASSUME NEW k \in 1 .. size
               PROVE  PinAt'[first + k - 1] = pins[k] /\ pins[k][1] > 0 /\ (out <=> pins[k][2] = "out")
    OBVIOUS
  <2>2. pins[k] = PartPin(start + k - 1)
    BY <1>1 DEF BusPins
  <2>3. /\ Found(start + k - 1) /\ NumberInChip(start + k - 1) = first + k - 1
        /\ start + k - 1 >= INPUT_PIN_LIMIT <=> start >= INPUT_PIN_LIMIT
    BY <1>1, <2>1 DEF BusFoundAt
  <2>. QED
    BY <1>1, <2>2, <2>3 DEF Found
<1>9. /\ \A m \in DOMAIN source' : m \notin DOMAIN source => source'[m].pin[1] > 0
      /\ \E m \in DOMAIN source' : source'[m].pin[1] > 0
  BY <1>2, <1>5, <1>7, <1>8, PartMentions
<1>10. CASE signal \notin DOMAIN bus_numbers
  <2>1. pin_numbers' = Numbered(names, first) /\ bus_numbers' = Bus(signal, <<first, size>>) /\ linkages' = linkages
    BY <1>1, <1>10 DEF link_bus, BusNames
  <2>2. ASSUME NEW m \in DOMAIN source, NEW k \in 1 .. Len(names), source[m].signal = names[k], source[m].whole
        PROVE  FALSE
    <3>1. PICK x \in DOMAIN bus_numbers : IsName(x) /\ PlaceOf(x, names[k])
      BY <2>2 DEF InOrder, Buses
    <3>2. PICK j \in Nat : names[k] = Append(x, j)
      BY <3>1 DEF PlaceOf
    <3>3. Append(signal, size - k) = Append(x, j)
      BY <1>5, <2>2, <3>2
    <3>4. signal = x
      BY <3>1, <3>3, PlacesApart
    <3>. QED
      BY <1>10, <3>1, <3>4
  <2>3. Fresh(source, source', pin_numbers, pin_numbers', PinAt', Len(source), Len(source) + Len(names))
    <3>1. PICK P, whole : P = PinAt' /\ whole = TRUE
      OBVIOUS
    <3>5. whole \in BOOLEAN
      BY <3>1
    <3>2. /\ \A k \in 1 .. Len(names) : P[first + k - 1] = pins[k]
          /\ \A m \in DOMAIN source, k \in 1 .. Len(names) : source[m].signal = names[k] => whole /\ ~source[m].whole
      BY <1>5, <1>8, <2>2, <3>1
    <3>3. Adds(source, source', names, pins, whole) /\ pin_numbers' = Numbered(names, first)
      BY <1>6, <2>1, <3>1
    <3>4. Fresh(source, source', pin_numbers, pin_numbers', P, Len(source), Len(source) + Len(names))
      BY ONLY TypeOK, <1>4, <1>5, <3>2, <3>3, <3>5, FreshNames
    <3>. QED
      BY <3>1, <3>4
  <2>4. Named'
    BY <1>7, <2>1, <2>3, LinkNamed DEF InOrder, LinkedTo
  <2>5. Buses'
    <3>1. Range(pin_numbers) \subseteq Nat
      BY <1>3 DEF SignalsTyped
    <3>2. NumberedFrom(pin_numbers', pin_numbers, names, first)
      BY <1>4, <1>5, <2>1, <3>1, NumbersOf
    <3>3. DOMAIN pin_numbers' = DOMAIN pin_numbers \cup Range(BusNames(signal, size))
      BY <1>1, <3>2 DEF NumberedFrom
    <3>4. Adds(source, source', BusNames(signal, size), pins, TRUE)
      BY <1>1, <1>6
    <3>5. Buses /\ bus_numbers' = Bus(signal, <<first, size>>)
      BY <2>1 DEF InOrder
    <3>. QED
      BY ONLY TypeOK, IsName(signal), <1>2, <1>4, <3>3, <3>4, <3>5, BusesGrow
  <2>. QED
    BY <1>9, <2>4, <2>5 DEF LinkKept
<1>11. CASE signal \in DOMAIN bus_numbers
  <2>1. /\ linkages' = linkages \o [k \in 1 .. size |-> <<names[k], first + k - 1, out>>]
        /\ pin_numbers' = pin_numbers /\ bus_numbers' = bus_numbers /\ bus_numbers[signal][2] = size
    BY <1>1, <1>5, <1>11 DEF link_bus, BusNames
  <2>2. \A k \in 1 .. size : names[k] \in DOMAIN pin_numbers
    <3> SUFFICES ASSUME NEW k \in 1 .. size
                 PROVE  names[k] \in DOMAIN pin_numbers
      OBVIOUS
    <3>1. size - k \in 0 .. size - 1
      BY <1>2
    <3>. QED
      BY <1>5, <1>11, <2>1, <3>1 DEF InOrder, Buses
  <2>3. PICK M, p, i : M = [k \in 1 .. size |-> <<names[k], first + k - 1, out>>] /\ p = Len(source) /\ i = Len(linkages)
    OBVIOUS
  <2>4. LongerBy(linkages, linkages', M) /\ Len(M) = size /\ \A k \in 1 .. size : M[k] = <<names[k], first + k - 1, out>>
    <3>1. PICK B : B = {<<names[k], first + k - 1, out>> : k \in 1 .. size}
      OBVIOUS
    <3>2. M \in [1 .. size -> B]
      BY ONLY <2>3, <3>1
    <3>3. M \in Seq(B) /\ Len(M) = size
      BY ONLY <1>2, <3>2
    <3>4. linkages \in Seq(Signals \X Nat \X BOOLEAN)
      BY DEF TypeOK
    <3>5. LongerBy(linkages, linkages \o M, M)
      BY <3>3, <3>4, LinksAdded
    <3>6. \A k \in 1 .. size : M[k] = <<names[k], first + k - 1, out>>
      BY ONLY <2>3
    <3>. QED
      BY <2>1, <2>3, <3>3, <3>5, <3>6
  <2>5. Grows(linkages, linkages', i, i + size) /\ \A k \in 1 .. size : linkages'[i + k] = <<names[k], first + k - 1, out>>
    BY <2>3, <2>4 DEF LongerBy
  <2>6. \A k \in 1 .. size : Leads(PinAt', linkages'[i + k], source'[p + k])
    <3> SUFFICES ASSUME NEW k \in 1 .. size
                 PROVE  Leads(PinAt', linkages'[i + k], source'[p + k])
      OBVIOUS
    <3>1. PICK l, m, a, f : l = linkages'[i + k] /\ m = source'[p + k] /\ a = names[k] /\ f = first + k - 1
      OBVIOUS
    <3>2. l = <<a, f, out>>
      BY <2>5, <3>1
    <3>3. l[1] = a /\ l[2] = f /\ l[3] = out
      BY ONLY <3>2
    <3>4. m.signal = a /\ m.pin = pins[k]
      BY <1>5, <1>7, <2>3, <3>1 DEF Added
    <3>5. PinAt'[f] = pins[k] /\ pins[k][1] > 0 /\ (out <=> pins[k][2] = "out")
      BY <1>8, <3>1
    <3>6. Leads(PinAt', l, m)
      BY <3>3, <3>4, <3>5 DEF Leads
    <3>. QED
      BY <3>1, <3>6
  <2>7. linkages' # linkages
    <3>1. linkages \in Seq(Signals \X Nat \X BOOLEAN)
      BY DEF TypeOK
    <3>2. i \in Nat /\ DOMAIN linkages = 1 .. i /\ DOMAIN linkages' = 1 .. i + size
      BY <2>3, <2>5, <3>1 DEF Grows
    <3>3. i + 1 \in 1 .. i + size /\ i + 1 \notin 1 .. i
      BY <1>2, <3>2
    <3>. QED
      BY <3>2, <3>3
  <2>8. LinkedTo(source, source', linkages, linkages', PinAt', Len(names))
    BY <1>5, <2>3, <2>5, <2>6 DEF LinkedTo
  <2>9. Named'
    BY <1>5, <1>7, <2>1, <2>2, <2>7, <2>8, LinkNamed DEF InOrder
  <2>10. Buses'
    <3>1. PICK q : q = p + size
      OBVIOUS
    <3>2. /\ Grows(source, source', p, q) /\ \A k \in 1 .. size : source'[p + k].signal = names[k]
          /\ \A m \in p + 1 .. q : \E k \in 1 .. size : m = p + k
      BY <1>5, <1>7, <2>3, <3>1 DEF Added
    <3>3. ASSUME NEW m \in p + 1 .. q
          PROVE  \E x \in DOMAIN bus_numbers : PlaceOf(x, source'[m].signal)
      <4>1. PICK k \in 1 .. size : m = p + k
        BY <3>2
      <4>2. source'[m].signal = Append(signal, size - k) /\ size - k \in Nat
        BY <1>2, <1>5, <3>2, <4>1
      <4>3. PlaceOf(signal, source'[m].signal)
        BY <4>2 DEF PlaceOf
      <4>. QED
        BY <1>11, <4>3
    <3>. QED
      BY <2>1, <2>3, <3>2, <3>3, BusesStay DEF InOrder
  <2>. QED
    BY <1>9, <2>9, <2>10 DEF LinkKept
<1>. QED
  BY <1>10, <1>11


LEMMA PinKept ==
  ASSUME TypeOK, TypeOK', InOrder, InPart, Addressable, SidesGrow, PinAt' = PinAt,
         NEW number \in Nat, PinNumber(subgate_name, number), NEW signal, link_pin(number, signal)
  PROVE  LinkKept
<1>1. PICK names, pins, pin, first, out : /\ names = <<signal>> /\ pin = PartPin(number) /\ pins = <<pin>>
                                          /\ first = NumberInChip(number) /\ out = (number >= INPUT_PIN_LIMIT)
  OBVIOUS
<1>2. SignalsTyped /\ OwnPinsTyped /\ OthersTyped
  BY TypeParts
<1>3. /\ first \in Nat /\ PinAt'[first] = pin /\ pin[1] > 0
      /\ out <=> pin[2] = "out"
  BY <1>1, PinsFound DEF InOrder, Found
<1>4. /\ names \in Seq({signal}) /\ Len(names) = 1 /\ DOMAIN names = 1 .. 1 /\ names[1] = signal /\ pins[1] = pin
      /\ Distinct(names)
  BY <1>1 DEF Distinct
<1>5. Adds(source, source', names, pins, FALSE)
  BY <1>1, <1>2, PinRead
<1>6. Added(source, source', names, pins, FALSE)
  <2>1. Len(names) \in Nat
    BY <1>4
  <2>. QED
    BY <1>5, <2>1, AddsMentions
<1>7. /\ \A m \in DOMAIN source' : m \notin DOMAIN source => source'[m].pin[1] > 0
      /\ \E m \in DOMAIN source' : source'[m].pin[1] > 0
  <2>1. Len(names) > 0 /\ \A k \in 1 .. Len(names) : pins[k][1] > 0
    BY <1>3, <1>4
  <2>. QED
    BY <1>6, <2>1, PartMentions
<1>8. linkages' = linkages \/ linkages' = Append(linkages, <<signal, first, out>>)
  BY <1>1 DEF link_pin, Linkage
<1>9. PICK p, i : p = Len(source) /\ i = Len(linkages)
  OBVIOUS
<1>10. i \in Nat /\ DOMAIN linkages = 1 .. i
  <2>1. linkages \in Seq(Signals \X Nat \X BOOLEAN)
    BY DEF TypeOK
  <2>. QED
    BY <1>9, <2>1
<1>11. ASSUME linkages' = Append(linkages, <<signal, first, out>>)
       PROVE  /\ Grows(linkages, linkages', i, i + 1) /\ linkages' # linkages
              /\ \A k \in 1 .. 1 : Leads(PinAt', linkages'[i + k], source'[p + k])
  <2>1. PICK l, A, B : l = <<signal, first, out>> /\ A = Signals \X Nat \X BOOLEAN /\ B = A \cup {l}
    OBVIOUS
  <2>2. linkages \in Seq(B) /\ l \in B
    <3>1. linkages \in Seq(A)
      BY <2>1 DEF TypeOK
    <3>2. A \subseteq B
      BY <2>1
    <3>. QED
      BY <2>1, <3>1, <3>2, SeqGrows
  <2>3. PICK L, L2 : L = linkages /\ L2 = linkages'
    OBVIOUS
  <2>4. L \in Seq(B) /\ L2 = Append(L, l) /\ i = Len(L)
    BY <1>9, <1>11, <2>1, <2>2, <2>3
  <2>5. DOMAIN L = 1 .. i /\ DOMAIN L2 = 1 .. i + 1 /\ L2[i + 1] = l /\ \A k \in 1 .. i : L2[k] = L[k]
    BY ONLY <2>2, <2>4
  <2>6. Grows(linkages, linkages', i, i + 1)
    BY <1>10, <2>3, <2>5 DEF Grows
  <2>7. L2 # L
    BY <1>10, <2>5
  <2>8. PICK m : m = source'[p + 1]
    OBVIOUS
  <2>9. m.signal = signal /\ m.pin = pin
    BY <1>4, <1>6, <1>9, <2>8 DEF Added
  <2>10. l[1] = signal /\ l[2] = first /\ l[3] = out
    BY ONLY <2>1
  <2>11. Leads(PinAt', l, m)
    BY <1>3, <2>9, <2>10 DEF Leads
  <2>. QED
    BY <2>3, <2>5, <2>6, <2>7, <2>8, <2>11
<1>12. LinkedTo(source, source', linkages, linkages', PinAt', Len(names))
  BY <1>4, <1>8, <1>9, <1>11 DEF LinkedTo
<1>13. Named' /\ DOMAIN pin_numbers \subseteq DOMAIN pin_numbers'
  <2>1. CASE signal \in DOMAIN pin_numbers
    <3>1. pin_numbers' = pin_numbers /\ linkages' = Append(linkages, <<signal, first, out>>)
      BY <1>1, <2>1 DEF link_pin, Linkage
    <3>2. \A k \in 1 .. Len(names) : names[k] \in DOMAIN pin_numbers
      BY <1>4, <2>1
    <3>3. linkages' # linkages
      BY <1>11, <3>1
    <3>4. Named'
      BY <1>6, <1>12, <3>1, <3>2, <3>3, LinkNamed DEF InOrder
    <3>. QED
      BY <3>1, <3>4
  <2>2. CASE signal \notin DOMAIN pin_numbers
    <3>1. pin_numbers' = Numbered(names, first)
      BY <1>1, <2>2 DEF link_pin
    <3>2. \A m \in DOMAIN source : source[m].signal \in DOMAIN pin_numbers
      BY DEF InOrder, Named, KnownBy
    <3>3. Fresh(source, source', pin_numbers, pin_numbers', PinAt', Len(source), Len(source) + Len(names))
      <4>1. PICK P, whole : P = PinAt' /\ whole = FALSE
        OBVIOUS
      <4>2. whole \in BOOLEAN
        BY <4>1
      <4>3. /\ \A k \in 1 .. Len(names) : P[first + k - 1] = pins[k]
            /\ \A m \in DOMAIN source, k \in 1 .. Len(names) : source[m].signal = names[k] => whole /\ ~source[m].whole
        BY <1>3, <1>4, <2>2, <3>2, <4>1
      <4>4. Adds(source, source', names, pins, whole)
        BY <1>5, <4>1
      <4>5. Fresh(source, source', pin_numbers, pin_numbers', P, Len(source), Len(source) + Len(names))
        BY ONLY TypeOK, <1>3, <1>4, <3>1, <4>2, <4>3, <4>4, FreshNames
      <4>. QED
        BY <4>1, <4>5
    <3>4. Named'
      BY <1>6, <1>12, <3>3, LinkNamed DEF InOrder
    <3>5. NumberedFrom(pin_numbers', pin_numbers, names, first)
      <4>1. Range(pin_numbers) \subseteq Nat
        BY <1>2 DEF SignalsTyped
      <4>. QED
        BY <1>3, <1>4, <3>1, <4>1, NumbersOf
    <3>. QED
      BY <3>4, <3>5 DEF NumberedFrom
  <2>. QED
    BY <2>1, <2>2
<1>14. Buses'
  <2>1. bus_numbers' = bus_numbers
    BY DEF link_pin
  <2>2. /\ Grows(source, source', p, p + 1)
        /\ \A m \in p + 1 .. p + 1 : ~source'[m].whole
    <3>1. /\ p \in Nat /\ Grows(source, source', p, p + 1)
          /\ \A k \in 1 .. 1 : source'[p + k].whole = FALSE
          /\ \A m \in p + 1 .. p + 1 : \E k \in 1 .. 1 : m = p + k
      BY <1>4, <1>6, <1>9 DEF Added
    <3>. QED
      BY <3>1
  <2>. QED
    BY <1>9, <1>13, <2>1, <2>2, BusesStay DEF InOrder
<1>. QED
  BY <1>7, <1>13, <1>14 DEF LinkKept

LEMMA SourceSame ==
  ASSUME TypeOK, UNCHANGED source
  PROVE  Grows(source, source', Len(source), Len(source))
<1>1. PICK p : p = Len(source)
  OBVIOUS
<1>2. source \in Seq([pin : Recipe!Pin, signal : Signals, whole : BOOLEAN])
  BY DEF TypeOK
<1>3. p \in Nat /\ DOMAIN source = 1 .. p
  BY <1>1, <1>2
<1>. QED
  BY <1>1, <1>3 DEF Grows

LEMMA LINK_kept ==
  ASSUME TypeOK, TypeOK', Fine => InOrder, Fine', NEW l \in Links, link(l[1], l[2], l[3])
  PROVE  InOrder'
<1>1. PICK chip, pin, signal : chip = l[1] /\ pin = l[2] /\ signal = l[3]
  OBVIOUS
<1>2. IsName(signal)
  BY <1>1, SourceAssumption DEF IsName
<1>3. /\ InPart /\ InPart' /\ phase' \notin {"PARTS", "SUBGATE", "done"}
      /\ UNCHANGED <<input_pins, output_pins, dependencies, wire_linkages, bus, input_pin_offset,
                     output_pin_offset, context_gate_metadata>>
  BY DEF link, InPart
<1>4. \/ has_error /\ UNCHANGED has_error
      \/ subgate_added /\ \E entry \in get_bus(subgate_name, pin) : link_bus(entry.start, entry.size, signal)
      \/ subgate_added /\ \E number \in get_pin(subgate_name, pin) : link_pin(number, signal)
      \/ link_unknown
  BY <1>1 DEF link
<1>5. ~has_error' /\ Addressable'
  BY DEF Fine, Orderly
<1>6. SidesGrow /\ PinAt' = PinAt
  BY <1>3, SidesSame
<1>7. SignalsTyped /\ OwnPinsTyped /\ OthersTyped
  BY TypeParts
<1>8. (\E q : Grows(source, source', Len(source), q)) /\ (has_error => has_error')
  <2>1. ASSUME subgate_added, NEW entry \in get_bus(subgate_name, pin), link_bus(entry.start, entry.size, signal)
        PROVE  (\E q : Grows(source, source', Len(source), q)) /\ (has_error => has_error')
    <3>1. PICK start, size : start = entry.start /\ size = entry.size
      OBVIOUS
    <3>2. BusNumber(subgate_name, start, size) /\ link_bus(start, size, signal)
      BY <2>1, <3>1, BusesNumbered DEF subgate_added
    <3>3. Adds(source, source', BusNames(signal, size), BusPins(start, size), TRUE)
      BY <1>7, <3>2, BusRead DEF BusNumber
    <3>. QED
      BY <3>2, <3>3 DEF Adds, link_bus
  <2>2. ASSUME subgate_added, NEW number \in get_pin(subgate_name, pin), link_pin(number, signal)
        PROVE  (\E q : Grows(source, source', Len(source), q)) /\ (has_error => has_error')
    <3>1. number \in Nat
      BY <2>2, PinsNumbered DEF PinNumber, subgate_added
    <3>2. Adds(source, source', <<signal>>, <<PartPin(number)>>, FALSE)
      BY <1>7, <2>2, <3>1, PinRead
    <3>. QED
      BY <2>2, <3>2 DEF Adds, link_pin
  <2>3. CASE link_unknown
    <3>1. UNCHANGED source
      BY <2>3 DEF link_unknown
    <3>2. Grows(source, source', Len(source), Len(source))
      BY <3>1, SourceSame
    <3>. QED
      BY <2>3, <3>2 DEF link_unknown
  <2>. QED
    BY <1>4, <1>5, <2>1, <2>2, <2>3
<1>9. Fine
  <2>1. PICK q : Grows(source, source', Len(source), q)
    BY <1>8
  <2>2. Len(input_pins) + Len(PartInputs(dependencies)) <= Len(input_pins') + Len(PartInputs(dependencies'))
    <3>1. PICK a, b : a = Len(input_pins) /\ b = Len(PartInputs(dependencies))
      OBVIOUS
    <3>2. a + b <= a + b
      <4>1. input_pins \in Seq(Signals) /\ dependencies \in Seq(Parts)
        BY DEF TypeOK
      <4>2. a \in Nat
        BY <3>1, <4>1
      <4>3. b \in Nat
        BY <3>1, <4>1, SidesTyped
      <4>. QED
        BY ONLY <4>2, <4>3
    <3>. QED
      BY <1>3, <3>1, <3>2
  <2>. QED
    BY <1>8, <2>1, <2>2, FineBefore
<1>10. InOrder /\ Addressable
  BY <1>9 DEF Fine, Orderly
<1>11. LinkKept
  <2>1. ASSUME subgate_added, NEW entry \in get_bus(subgate_name, pin), link_bus(entry.start, entry.size, signal)
        PROVE  LinkKept
    <3>1. PICK start, size : start = entry.start /\ size = entry.size
      OBVIOUS
    <3>2. BusNumber(subgate_name, start, size) /\ link_bus(start, size, signal)
      BY <2>1, <3>1, BusesNumbered DEF subgate_added
    <3>. QED
      BY <1>2, <1>3, <1>5, <1>6, <1>10, <3>2, BusKept
  <2>2. ASSUME subgate_added, NEW number \in get_pin(subgate_name, pin), link_pin(number, signal)
        PROVE  LinkKept
    <3>1. PinNumber(subgate_name, number)
      BY <2>2, PinsNumbered DEF subgate_added
    <3>2. number \in Nat
      BY <3>1 DEF PinNumber
    <3>. QED
      BY <1>3, <1>6, <1>10, <2>2, <3>1, <3>2, PinKept
  <2>3. CASE link_unknown
    <3>1. UNCHANGED <<pin_numbers, bus_numbers, linkages, source>> /\ phase = "PARTS,"
      BY <1>5, <2>3 DEF link_unknown
    <3>2. Named'
      BY <1>6, <1>10, <3>1, NamedStays DEF InOrder
    <3>3. Buses'
      BY <1>10, <3>1 DEF InOrder, Buses
    <3>4. \E m \in DOMAIN source : source[m].pin[1] > 0
      BY <1>3, <1>10, <3>1 DEF InOrder, DeclaredFirst, PinsCounted
    <3>. QED
      BY <3>1, <3>2, <3>3, <3>4 DEF LinkKept
  <2>. QED
    BY <1>4, <1>5, <1>9, <2>1, <2>2, <2>3 DEF Fine
<1>12. PinsCounted'
  <2>1. subgate_name' = subgate_name
    BY <1>3 DEF subgate_name
  <2>. QED
    BY <1>3, <1>10, <2>1 DEF InOrder, PinsCounted, subgate_added
<1>13. dependencies # <<>>
  BY <1>3, <1>10 DEF InOrder, PinsCounted
<1>14. DeclaredFirst'
  BY <1>3, <1>11, <1>13 DEF DeclaredFirst, LinkKept
<1>15. OwnMentions'
  <2>1. PICK q : Grows(source, source', Len(source), q)
    BY <1>8
  <2>2. \A m \in DOMAIN source : source'[m] = source[m]
    BY <2>1 DEF Grows
  <2>3. ASSUME NEW m \in DOMAIN source', source'[m].pin[1] = 0
        PROVE  OwnBy(input_pins, "in", source'[m]) \/ OwnBy(output_pins, "out", source'[m])
    <3>1. m \in DOMAIN source
      BY <1>11, <2>3 DEF LinkKept
    <3>. QED
      BY <1>10, <2>2, <2>3, <3>1 DEF InOrder, OwnMentions
  <2>. QED
    BY <1>3, <2>3 DEF OwnMentions
<1>16. OwnNames' /\ OwnBuses' /\ Wired'
  BY <1>3, <1>10 DEF InOrder, OwnNames, OwnBuses, Wired
<1>. QED
  BY <1>11, <1>12, <1>14, <1>15, <1>16 DEF InOrder, LinkKept

-----------------------------------------------------------------------------
(* The end of a part and of the chip keep the invariant. *)

LEMMA SameKept ==
  ASSUME TypeOK, TypeOK', Fine => InOrder, Fine', has_error => has_error',
         UNCHANGED <<input_pins, output_pins, dependencies, bus, pin_numbers, bus_numbers, linkages, source>>
  PROVE  InOrder /\ Named' /\ Buses' /\ OwnMentions' /\ OwnNames' /\ OwnBuses'
<1>1. Fine
  <2>1. Grows(source, source', Len(source), Len(source))
    BY SourceSame
  <2>2. Len(input_pins) + Len(PartInputs(dependencies)) <= Len(input_pins') + Len(PartInputs(dependencies'))
    <3>1. PICK a, b : a = Len(input_pins) /\ b = Len(PartInputs(dependencies))
      OBVIOUS
    <3>2. a + b <= a + b
      <4>1. input_pins \in Seq(Signals) /\ dependencies \in Seq(Parts)
        BY DEF TypeOK
      <4>2. a \in Nat
        BY <3>1, <4>1
      <4>3. b \in Nat
        BY <3>1, <4>1, SidesTyped
      <4>. QED
        BY ONLY <4>2, <4>3
    <3>. QED
      BY <3>1, <3>2
  <2>. QED
    BY <2>1, <2>2, FineBefore
<1>2. InOrder
  BY <1>1
<1>3. SidesGrow
  BY SidesSame
<1>4. Named'
  BY <1>2, <1>3, NamedStays DEF InOrder
<1>5. Buses' /\ OwnMentions' /\ OwnNames' /\ OwnBuses'
  BY <1>2 DEF InOrder, Buses, OwnMentions, OwnNames, OwnBuses
<1>. QED
  BY <1>2, <1>4, <1>5

LEMMA PART_end_kept ==
  ASSUME TypeOK, TypeOK', Fine => InOrder, Fine', end_part
  PROVE  InOrder'
<1>1. /\ phase \in {"PARTS,", "SUBGATE,"} /\ phase' = "parts"
      /\ input_pin_offset' = input_pin_offset + Len(InputNames[context_gate_metadata])
      /\ output_pin_offset' = output_pin_offset + Len(OutputNames[context_gate_metadata])
      /\ UNCHANGED <<input_pins, output_pins, dependencies, wire_linkages, bus, pin_numbers, bus_numbers,
                     linkages, context_gate_metadata, has_error, source>>
  BY DEF end_part
<1>2. InOrder /\ Named' /\ Buses' /\ OwnMentions' /\ OwnNames' /\ OwnBuses'
  BY <1>1, SameKept
<1>3. InPart /\ ~InPart'
  BY <1>1 DEF InPart
<1>4. /\ dependencies # <<>> /\ context_gate_metadata = subgate_name
      /\ SideCounting(Len(input_pins), PartInputs(dependencies), input_pin_offset, Len(dependencies), "in",
                      Len(InputNames[subgate_name]))
      /\ SideCounting(Len(output_pins), PartOutputs(dependencies), output_pin_offset, Len(dependencies), "out",
                      Len(OutputNames[subgate_name]))
  BY <1>2, <1>3 DEF InOrder, PinsCounted
<1>5. PinsCounted'
  <2>1. SideCounted(Len(input_pins'), PartInputs(dependencies'), input_pin_offset')
    BY <1>1, <1>4 DEF SideCounted, SideCounting
  <2>2. SideCounted(Len(output_pins'), PartOutputs(dependencies'), output_pin_offset')
    BY <1>1, <1>4 DEF SideCounted, SideCounting
  <2>. QED
    BY <1>3, <2>1, <2>2 DEF PinsCounted
<1>6. DeclaredFirst'
  BY <1>1, <1>2, <1>4 DEF InOrder, DeclaredFirst
<1>7. Wired'
  BY <1>1 DEF Wired
<1>. QED
  BY <1>2, <1>5, <1>6, <1>7 DEF InOrder

LEMMA PART_crash_kept ==
  ASSUME TypeOK, TypeOK', Fine => InOrder, Fine', end_part_unknown
  PROVE  InOrder'
<1>1. /\ phase \in {"PARTS,", "SUBGATE,"} /\ phase' = "crashed"
      /\ UNCHANGED <<input_pins, output_pins, dependencies, wire_linkages, bus, input_pin_offset,
                     output_pin_offset, pin_numbers, bus_numbers, linkages, context_gate_metadata,
                     has_error, source>>
  BY DEF end_part_unknown
<1>2. InOrder /\ Named' /\ Buses' /\ OwnMentions' /\ OwnNames' /\ OwnBuses'
  BY <1>1, SameKept
<1>3. InPart /\ InPart'
  BY <1>1 DEF InPart
<1>4. PinsCounted' /\ DeclaredFirst' /\ Wired'
  BY <1>1, <1>2, <1>3 DEF InOrder, PinsCounted, DeclaredFirst, Wired, subgate_name, subgate_added
<1>. QED
  BY <1>2, <1>4 DEF InOrder

WiresOf(numbers, links) ==
  [k \in 1 .. Len(links) |-> IF links[k][3] THEN <<links[k][2], numbers[links[k][1]]>>
                                            ELSE <<numbers[links[k][1]], links[k][2]>>]

LEMMA WiredAs ==
  /\ [k \in 1 .. Len(linkages) |-> wire_linkage(linkages[k])] = WiresOf(pin_numbers, linkages)
  /\ Wired <=> (phase = "done" => wire_linkages = WiresOf(pin_numbers, linkages))
  /\ Wired' <=> (phase' = "done" => wire_linkages' = WiresOf(pin_numbers', linkages'))
<1>1. [k \in 1 .. Len(linkages) |-> wire_linkage(linkages[k])] = WiresOf(pin_numbers, linkages)
  BY DEF wire_linkage, WiresOf
<1>2. Wired <=> (phase = "done" => wire_linkages = WiresOf(pin_numbers, linkages))
  BY DEF Wired, wire_linkage, WiresOf
<1>3. Wired' <=> (phase' = "done" => wire_linkages' = WiresOf(pin_numbers', linkages'))
  BY DEF Wired, wire_linkage, WiresOf
<1>. QED
  BY <1>1, <1>2, <1>3

LEMMA CHIP_end_kept ==
  ASSUME TypeOK, TypeOK', Fine => InOrder, Fine', CHIP_end \/ CHIP_broken
  PROVE  InOrder'
<1>1. /\ phase \in {"chip", "parts"} /\ phase' \in {"done", "looping", "unfinished"} /\ (has_error => has_error')
      /\ UNCHANGED <<input_pins, output_pins, dependencies, bus, input_pin_offset, output_pin_offset,
                     pin_numbers, bus_numbers, linkages, context_gate_metadata, source>>
  <2>1. CASE CHIP_end
    BY <2>1 DEF CHIP_end, InChip
  <2>2. CASE CHIP_broken
    BY <2>2 DEF CHIP_broken, InChip
  <2>. QED
    BY <2>1, <2>2
<1>2. InOrder /\ Named' /\ Buses' /\ OwnMentions' /\ OwnNames' /\ OwnBuses'
  BY <1>1, SameKept
<1>3. ~InPart /\ ~InPart'
  BY <1>1 DEF InPart
<1>4. PinsCounted' /\ DeclaredFirst'
  BY <1>1, <1>2, <1>3 DEF InOrder, PinsCounted, DeclaredFirst
<1>5. Wired'
  <2>1. CASE CHIP_end
    <3>1. /\ wire_linkages' = WiresUpTo[Len(linkages)]
          /\ has_error' = (has_error \/ \E k \in DOMAIN linkages : ~Resolved(linkages[k]))
      BY <2>1 DEF CHIP_end
    <3>2. \A k \in DOMAIN linkages : Resolved(linkages[k])
      BY <3>1 DEF Fine
    <3>3. wire_linkages' = WiresOf(pin_numbers, linkages)
      BY <3>1, <3>2, AllWired, TypeParts, WiredAs
    <3>. QED
      BY <1>1, <3>3, WiredAs
  <2>2. CASE CHIP_broken
    BY <2>2 DEF CHIP_broken, Wired
  <2>. QED
    BY <2>1, <2>2
<1>. QED
  BY <1>2, <1>4, <1>5 DEF InOrder

LEMMA InitInOrder == Init => InOrder
<1> SUFFICES ASSUME Init
             PROVE  InOrder
  OBVIOUS
<1>1. PICK e : e = <<>> /\ Len(e) = 0 /\ DOMAIN e = {}
  OBVIOUS
<1>2. /\ input_pins = e /\ output_pins = e /\ dependencies = e /\ bus = {} /\ input_pin_offset = 0
      /\ output_pin_offset = 0 /\ pin_numbers = e /\ bus_numbers = e /\ linkages = e /\ source = e /\ phase = "chip"
  BY <1>1 DEF Init
<1>3. PartInputs(dependencies) = e /\ PartOutputs(dependencies) = e
  BY <1>1, <1>2, SidesEmpty
<1>4. PinsCounted
  BY <1>1, <1>2, <1>3 DEF PinsCounted, InPart, SideCounted
<1>5. DeclaredFirst /\ OwnMentions
  BY <1>1, <1>2 DEF DeclaredFirst, OwnMentions
<1>6. Named
  BY <1>1, <1>2 DEF Named, KnownBy, LinkedBy, ToldBy
<1>7. Buses
  BY <1>1, <1>2 DEF Buses
<1>8. OwnNames /\ OwnBuses /\ Wired
  BY <1>1, <1>2 DEF OwnNames, OwnBuses, Wired, Distinct, Apart
<1>. QED
  BY <1>4, <1>5, <1>6, <1>7, <1>8 DEF InOrder

LEMMA InOrderKept == IInv /\ [Next]_vars => IInv'
<1> SUFFICES ASSUME TypeOK, Fine => InOrder, [Next]_vars
             PROVE  IInv'
  BY DEF IInv
<1>1. TypeOK'
  BY TypeKept
<1> SUFFICES ASSUME Fine'
             PROVE  InOrder'
  BY <1>1 DEF IInv
<1>2. ASSUME NEW d \in Ins, IN_statement(d)
      PROVE  InOrder'
  BY <1>1, <1>2, IN_kept
<1>3. ASSUME NEW d \in Outs, OUT_statement(d)
      PROVE  InOrder'
  BY <1>1, <1>3, OUT_kept
<1>4. ASSUME NEW name \in Parts, PARTS_statement(name) \/ SUBGATE_statement(name)
      PROVE  InOrder'
  BY <1>1, <1>4, PART_kept
<1>5. ASSUME NEW l \in Links, link(l[1], l[2], l[3])
      PROVE  InOrder'
  BY <1>1, <1>5, LINK_kept
<1>6. CASE end_part
  BY <1>1, <1>6, PART_end_kept
<1>7. CASE end_part_unknown
  BY <1>1, <1>7, PART_crash_kept
<1>8. CASE CHIP_end \/ CHIP_broken
  BY <1>1, <1>8, CHIP_end_kept
<1>9. CASE UNCHANGED vars
  <2>1. /\ phase' = phase
        /\ UNCHANGED <<input_pins, output_pins, dependencies, wire_linkages, bus, input_pin_offset,
                       output_pin_offset, pin_numbers, bus_numbers, linkages, context_gate_metadata,
                       has_error, source>>
    BY <1>9 DEF vars
  <2>2. InOrder /\ Named' /\ Buses' /\ OwnMentions' /\ OwnNames' /\ OwnBuses'
    BY <1>1, <2>1, SameKept
  <2>3. PinsCounted' /\ DeclaredFirst' /\ Wired'
    BY <2>1, <2>2 DEF InOrder, PinsCounted, DeclaredFirst, Wired, InPart, subgate_name, subgate_added, wire_linkage
  <2>. QED
    BY <2>2, <2>3 DEF InOrder
<1>. QED
  BY <1>2, <1>3, <1>4, <1>5, <1>6, <1>7, <1>8, <1>9 DEF Next

\* As long as the source declares the chip before its parts and nothing was reported, the offsets
\* count the pins of the parts and every mention is known or linked (parser.hpp:294-383, 678-683).
THEOREM AlwaysInOrder == Spec => []IInv
<1>1. Init => IInv
  BY TypeInit, InitInOrder DEF IInv
<1>. QED
  BY <1>1, InOrderKept, PTL DEF Spec

-----------------------------------------------------------------------------
(* What follows from the invariant. *)

LEMMA KnownPins ==
  ASSUME IInv, Orderly, ~has_error
  PROVE  NumberedAsBuilt
<1>1. KnownBy(source, pin_numbers, PinAt)
  BY DEF IInv, Fine, InOrder, Named
<1>2. \A s \in DOMAIN pin_numbers : pin_numbers[s] \in Nat
  BY DEF IInv, TypeOK, Range
<1>3. ASSUME NEW s \in DOMAIN pin_numbers
      PROVE  PinOf(pin_numbers[s]) \in {source[m].pin : m \in Mentions(s)}
  <2>1. PICK m \in DOMAIN source : source[m].signal = s /\ PinAt[pin_numbers[s]] = source[m].pin
    BY <1>1 DEF KnownBy
  <2>2. PinAt[pin_numbers[s]] = PinOf(pin_numbers[s])
    BY <1>2 DEF PinAt
  <2>. QED
    BY <2>1, <2>2 DEF Mentions
<1>. QED
  BY <1>3 DEF NumberedAsBuilt

\* The wire of a linkage.
LEMMA WireOf ==
  ASSUME IInv, Fine, phase = "done"
  PROVE  /\ \A w \in Wires : \E k \in DOMAIN linkages :
              LET l == linkages[k]
                  known == PinAt[pin_numbers[l[1]]]
              IN  w = IF l[3] THEN <<PinAt[l[2]], known>> ELSE <<known, PinAt[l[2]]>>
         /\ \A k \in DOMAIN linkages :
              LET l == linkages[k]
                  known == PinAt[pin_numbers[l[1]]]
              IN  (IF l[3] THEN <<PinAt[l[2]], known>> ELSE <<known, PinAt[l[2]]>>) \in Wires
<1>1. wire_linkages = WiresOf(pin_numbers, linkages) /\ Named
  BY WiredAs DEF IInv, InOrder
<1>2. PICK L, N, i : L = linkages /\ N = pin_numbers /\ i = Len(linkages)
  OBVIOUS
<1>3. i \in Nat /\ DOMAIN L = 1 .. i /\ \A k \in 1 .. i : L[k][2] \in Nat /\ L[k][3] \in BOOLEAN
  <2>1. PICK A : A = Signals
    OBVIOUS
  <2>2. L \in Seq(A \X Nat \X BOOLEAN)
    BY <1>2, <2>1 DEF IInv, TypeOK
  <2>3. i \in Nat /\ DOMAIN L = 1 .. i /\ \A k \in 1 .. i : L[k] \in A \X Nat \X BOOLEAN
    BY <1>2, <2>2
  <2>. QED
    BY ONLY <2>3
<1>4. \A k \in 1 .. i : L[k][1] \in DOMAIN N /\ N[L[k][1]] \in Nat
  <2>1. \A k \in DOMAIN linkages : linkages[k][1] \in DOMAIN pin_numbers
    BY <1>1 DEF Named, LinkedBy, KnownBy, Leads
  <2>2. \A s \in DOMAIN pin_numbers : pin_numbers[s] \in Nat
    BY DEF IInv, TypeOK, Range
  <2>. QED
    BY <1>2, <1>3, <2>1, <2>2
<1>5. wire_linkages = [k \in 1 .. i |-> IF L[k][3] THEN <<L[k][2], N[L[k][1]]>> ELSE <<N[L[k][1]], L[k][2]>>]
  BY <1>1, <1>2 DEF WiresOf
<1>6. \A n \in Nat : PinOf(n) = PinAt[n]
  BY DEF PinAt
<1> DEFINE Joint(k) == IF L[k][3] THEN <<PinAt[L[k][2]], PinAt[N[L[k][1]]]>> ELSE <<PinAt[N[L[k][1]]], PinAt[L[k][2]]>>
<1>7. \A k \in 1 .. i : <<PinOf(wire_linkages[k][1]), PinOf(wire_linkages[k][2])>> = Joint(k)
  <2> SUFFICES ASSUME NEW k \in 1 .. i
               PROVE  <<PinOf(wire_linkages[k][1]), PinOf(wire_linkages[k][2])>> = Joint(k)
    OBVIOUS
  <2>1. PICK a, b, w : a = L[k][2] /\ b = N[L[k][1]] /\ w = wire_linkages[k]
    OBVIOUS
  <2>2. a \in Nat /\ b \in Nat /\ w = IF L[k][3] THEN <<a, b>> ELSE <<b, a>>
    BY <1>3, <1>4, <1>5, <2>1
  <2>3. CASE L[k][3]
    <3>1. w[1] = a /\ w[2] = b
      BY <2>2, <2>3
    <3>. QED
      BY <1>6, <2>1, <2>2, <2>3, <3>1
  <2>4. CASE ~L[k][3]
    <3>1. w[1] = b /\ w[2] = a
      BY <2>2, <2>4
    <3>. QED
      BY <1>6, <2>1, <2>2, <2>4, <3>1
  <2>. QED
    BY <2>3, <2>4
<1>8. Wires = {Joint(k) : k \in 1 .. i}
  <2>1. Range(wire_linkages) = {wire_linkages[k] : k \in 1 .. i}
    BY <1>5 DEF Range
  <2>2. Wires = {<<PinOf(w[1]), PinOf(w[2])>> : w \in Range(wire_linkages)}
    BY DEF Wires
  <2> DEFINE Wire(w) == <<PinOf(w[1]), PinOf(w[2])>>
  <2>3. \A k \in 1 .. i : Wire(wire_linkages[k]) = Joint(k)
    BY <1>7
  <2>4. Wires = {Wire(w) : w \in Range(wire_linkages)}
    BY <2>2
  <2> HIDE DEF Joint, Wire
  <2>. QED
    BY ONLY <2>1, <2>3, <2>4
<1>. QED
  BY <1>2, <1>3, <1>8

LEMMA WiresJoin ==
  ASSUME IInv, Complete, Orderly, NEW w \in Wires
  PROVE  Joined(w[1], w[2])
<1>0. Fine /\ phase = "done" /\ Named
  BY DEF Complete, Fine, IInv, InOrder
<1>1. PICK k \in DOMAIN linkages :
        LET l == linkages[k]
            known == PinAt[pin_numbers[l[1]]]
        IN  w = IF l[3] THEN <<PinAt[l[2]], known>> ELSE <<known, PinAt[l[2]]>>
  BY <1>0, WireOf
<1>2. PICK l, known, end : l = linkages[k] /\ known = PinAt[pin_numbers[l[1]]] /\ end = PinAt[l[2]]
  OBVIOUS
<1>3. PICK m \in DOMAIN source : l[1] = source[m].signal /\ end = source[m].pin
  BY <1>0, <1>2 DEF Named, LinkedBy, Leads
<1>4. l[1] \in DOMAIN pin_numbers
  BY <1>0, <1>3 DEF Named, KnownBy
<1>5. PICK n \in DOMAIN source : source[n].signal = l[1] /\ known = source[n].pin
  BY <1>0, <1>2, <1>4 DEF Named, KnownBy
<1>6. \/ w[1] = end /\ w[2] = known
      \/ w[1] = known /\ w[2] = end
  BY <1>1, <1>2
<1>. QED
  BY <1>3, <1>5, <1>6 DEF Joined

\* A name among the pins of one side has one place there.
LEMMA OnePlace ==
  ASSUME NEW pins, Distinct(pins), NEW j \in DOMAIN pins
  PROVE  {i \in DOMAIN pins : pins[i] = pins[j]} = {j}
BY DEF Distinct

LEMMA BusNumbered ==
  ASSUME IInv, Fine, NEW b \in bus, NEW k \in 1 .. b[3]
  PROVE  MetaNumber(<<b[1], b[3] - k>>) = {b[2] + k - 1}
<1>1. PICK A, B, l, s, u : /\ A = input_pins /\ B = output_pins /\ l = INPUT_PIN_LIMIT
                           /\ s = b[2] /\ u = <<b[1], b[3] - k>>
  OBVIOUS
<1>2. Distinct(A) /\ Distinct(B) /\ Apart(A, B)
  BY <1>1 DEF IInv, InOrder, OwnNames
<1>3. s \in Nat /\ l \in Nat /\ k \in Int
  <2>1. b[2] \in Nat /\ b[3] \in Nat
    BY DEF IInv, TypeOK
  <2>. QED
    BY <1>1, <2>1, PinLimitAssumption
<1>4. DOMAIN A = 1 .. Len(A) /\ DOMAIN B = 1 .. Len(B)
  <2>1. input_pins \in Seq(Signals) /\ output_pins \in Seq(Signals)
    BY DEF IInv, TypeOK
  <2>. QED
    BY <1>1, <2>1
<1>5. MetaNumber(u) = {i - 1 : i \in {j \in DOMAIN A : A[j] = u}} \cup {l + i - 1 : i \in {j \in DOMAIN B : B[j] = u}}
  BY <1>1 DEF MetaNumber
<1>6. BusAt(A, s, b) \/ BusAt(B, s - l, b)
  BY <1>1 DEF IInv, InOrder, OwnBuses
<1>7. CASE BusAt(A, s, b)
  <2>1. s + k \in DOMAIN A /\ A[s + k] = u
    BY <1>1, <1>7 DEF BusAt
  <2>2. {j \in DOMAIN A : A[j] = u} = {s + k}
    BY <1>2, <2>1, OnePlace
  <2>3. {j \in DOMAIN B : B[j] = u} = {}
    BY <1>2, <2>1 DEF Apart
  <2>4. PICK p : p = s + k
    OBVIOUS
  <2>5. MetaNumber(u) = {p - 1}
    BY ONLY <1>5, <2>2, <2>3, <2>4
  <2>6. p - 1 = s + k - 1
    BY <1>3, <2>4
  <2>. QED
    BY <1>1, <2>5, <2>6
<1>8. CASE BusAt(B, s - l, b)
  <2>1. s - l + k \in DOMAIN B /\ B[s - l + k] = u
    BY <1>1, <1>8 DEF BusAt
  <2>2. {j \in DOMAIN B : B[j] = u} = {s - l + k}
    BY <1>2, <2>1, OnePlace
  <2>3. {j \in DOMAIN A : A[j] = u} = {}
    BY <1>2, <2>1 DEF Apart
  <2>4. PICK p : p = s - l + k
    OBVIOUS
  <2>5. MetaNumber(u) = {l + p - 1}
    BY ONLY <1>5, <2>2, <2>3, <2>4
  <2>6. l + p - 1 = s + k - 1
    BY <1>3, <2>4
  <2>. QED
    BY <1>1, <2>5, <2>6
<1>. QED
  BY <1>1, <1>6, <1>7, <1>8

-----------------------------------------------------------------------------
(* How a level comes from the driver of a signal to its readers. *)

LEMMA FirstMention ==
  ASSUME IInv, NEW s \in Signals
  PROVE  \E f \in Mentions(s) : \A n \in Mentions(s) : f <= n
<1>1. DOMAIN source \subseteq Nat
  <2>1. source \in Seq([pin : Recipe!Pin, signal : Signals, whole : BOOLEAN])
    BY DEF IInv, TypeOK
  <2>. QED
    BY <2>1
<1>2. Mentions(s) \subseteq Nat
  BY <1>1 DEF Mentions
<1>3. Mentions(s) # {}
  BY DEF Mentions, Signals
<1>. QED
  BY <1>2, <1>3, LeastNumber

LEMMA DrivenBy ==
  ASSUME NEW s, NEW m \in Mentions(s)
  PROVE  /\ m \in Drivers(s) <=> ~(source[m].pin[1] = 0 <=> source[m].pin[2] = "out")
         /\ m \in Readers(s) <=> m \notin Drivers(s)
BY DEF Drivers, Readers

\* Every other mention of a signal is wired to the first, one way or the other.
LEMMA WiredToFirst ==
  ASSUME IInv, Complete, Orderly,
         NEW f \in DOMAIN source, IsFirst(source, f),
         source[f].whole \/ NeverWhole(source, source[f].signal),
         NEW m \in DOMAIN source, source[m].signal = source[f].signal, m # f
  PROVE  /\ source[m].pin[1] > 0
         /\ source[m].pin[2] = "out" => <<source[m].pin, source[f].pin>> \in Wires
         /\ source[m].pin[2] # "out" => <<source[f].pin, source[m].pin>> \in Wires
<1>0. Fine /\ phase = "done" /\ Named
  BY DEF Complete, Fine, IInv, InOrder
<1>1. FirstOfAll(source, pin_numbers, linkages, PinAt, f)
  BY <1>0 DEF Named, ToldBy
<1>2. PICK k \in DOMAIN linkages : Leads(PinAt, linkages[k], source[m])
  BY <1>1 DEF FirstOfAll
<1>3. PICK l, known, end : l = linkages[k] /\ known = PinAt[pin_numbers[l[1]]] /\ end = PinAt[l[2]]
  OBVIOUS
<1>4. /\ l[1] = source[f].signal /\ end = source[m].pin /\ source[m].pin[1] > 0
      /\ l[3] <=> source[m].pin[2] = "out"
  BY <1>2, <1>3 DEF Leads
<1>5. known = source[f].pin
  BY <1>1, <1>3, <1>4 DEF FirstOfAll
<1>6. (IF l[3] THEN <<end, known>> ELSE <<known, end>>) \in Wires
  BY <1>0, <1>3, WireOf
<1>. QED
  BY <1>4, <1>5, <1>6

\* What mentions a signal first and does not drive it, when something else does, is an
\* output of the chip, or the only reader.
LEMMA OutputMention ==
  ASSUME IInv, Complete, Orderly, NEW f \in DOMAIN source,
         source[f].pin[1] = 0, source[f].pin[2] = "out"
  PROVE  \E k \in 1 .. Len(output_pins) : source[f].pin = <<0, "out", k - 1>>
<1>1. OwnMentions
  BY DEF Complete, Fine, IInv, InOrder
<1>2. OwnBy(input_pins, "in", source[f]) \/ OwnBy(output_pins, "out", source[f])
  BY <1>1 DEF OwnMentions
<1>3. ~OwnBy(input_pins, "in", source[f])
  <2> SUFFICES ASSUME NEW k \in DOMAIN input_pins, source[f].pin = <<0, "in", k - 1>>
               PROVE  FALSE
    BY DEF OwnBy
  <2>1. PICK pin, j : pin = source[f].pin /\ j = k - 1
    OBVIOUS
  <2>2. pin = <<0, "in", j>>
    BY <2>1
  <2>3. pin[2] = "in"
    BY ONLY <2>2
  <2>. QED
    BY <2>1, <2>3
<1>4. PICK k \in DOMAIN output_pins : source[f].pin = <<0, "out", k - 1>>
  BY <1>2, <1>3 DEF OwnBy
<1>5. DOMAIN output_pins = 1 .. Len(output_pins)
  <2>1. output_pins \in Seq(Signals)
    BY DEF IInv, TypeOK
  <2>. QED
    BY <2>1
<1>. QED
  BY <1>4, <1>5

LEMMA OnlyOne ==
  ASSUME IInv, NEW T, T \subseteq DOMAIN source, Cardinality(T) = 1, NEW x \in T, NEW y \in T
  PROVE  x = y
<1>1. DOMAIN source = 1 .. Len(source) /\ Len(source) \in Nat
  <2>1. source \in Seq([pin : Recipe!Pin, signal : Signals, whole : BOOLEAN])
    BY DEF IInv, TypeOK
  <2>. QED
    BY <2>1
<1>2. IsFiniteSet(1 .. Len(source))
  BY <1>1, FS_Interval
<1>3. IsFiniteSet(T)
  BY <1>1, <1>2, FS_Subset
<1>4. \E z : T = {z}
  BY <1>3, FS_Singleton
<1>. QED
  BY <1>4

LEMMA CarriedToReaders ==
  ASSUME IInv, Complete, Orderly, NEW s \in Signals, Plain(s), NEW d \in Drivers(s), NEW r \in Readers(s)
  PROVE  Carried(source[d].pin, source[r].pin)
<1>1. PICK f : f = CHOOSE m \in Mentions(s) : \A n \in Mentions(s) : m <= n
  OBVIOUS
<1>2. f \in Mentions(s) /\ \A n \in Mentions(s) : f <= n
  BY <1>1, FirstMention
<1>3. /\ Cardinality(Drivers(s)) = 1
      /\ f \in Drivers(s) \/ source[f].pin[1] = 0 \/ Cardinality(Readers(s)) = 1
      /\ source[f].whole \/ \A m \in Mentions(s) : ~source[m].whole
  BY <1>1 DEF Plain
<1>4. \A m : m \in Mentions(s) <=> m \in DOMAIN source /\ source[m].signal = s
  BY DEF Mentions
<1>5. Drivers(s) \subseteq Mentions(s) /\ Readers(s) \subseteq Mentions(s) /\ Mentions(s) \subseteq DOMAIN source
  BY <1>4 DEF Drivers, Readers
<1>6. d \in Mentions(s) /\ r \in Mentions(s) /\ d # r /\ r \notin Drivers(s)
  BY <1>5, DrivenBy
<1>7. IsFirst(source, f) /\ (source[f].whole \/ NeverWhole(source, source[f].signal))
  BY <1>2, <1>3, <1>4 DEF IsFirst, NeverWhole
<1>8. ASSUME NEW m \in Mentions(s), m # f
      PROVE  /\ m \in Drivers(s) => <<source[m].pin, source[f].pin>> \in Wires
             /\ m \notin Drivers(s) => <<source[f].pin, source[m].pin>> \in Wires
  <2>1. PICK a, b : a = source[m].pin[1] /\ b = source[m].pin[2]
    OBVIOUS
  <2>2. /\ a > 0
        /\ b = "out" => <<source[m].pin, source[f].pin>> \in Wires
        /\ b # "out" => <<source[f].pin, source[m].pin>> \in Wires
    BY <1>2, <1>4, <1>7, <1>8, <2>1, WiredToFirst
  <2>3. a # 0
    BY <2>2
  <2>4. m \in Drivers(s) <=> b = "out"
    BY <2>1, <2>3, DrivenBy
  <2>. QED
    BY <2>2, <2>4
<1>9. CASE f = d
  <2>1. <<source[d].pin, source[r].pin>> \in Wires
    BY <1>6, <1>8, <1>9
  <2>. QED
    BY <2>1 DEF Carried
<1>10. CASE f # d /\ f = r
  <2>1. <<source[d].pin, source[r].pin>> \in Wires
    BY <1>6, <1>8, <1>10
  <2>. QED
    BY <2>1 DEF Carried
<1>11. CASE f # d /\ f # r
  <2>1. <<source[d].pin, source[f].pin>> \in Wires /\ <<source[f].pin, source[r].pin>> \in Wires
    BY <1>6, <1>8, <1>11
  <2>2. f \notin Drivers(s)
    BY <1>3, <1>5, <1>11, OnlyOne
  <2>3. f \in Readers(s)
    BY <1>2, <2>2, DrivenBy
  <2>4. source[f].pin[1] = 0
    BY <1>3, <1>5, <1>11, <2>2, <2>3, OnlyOne
  <2>5. source[f].pin[2] = "out"
    BY <1>2, <2>2, <2>4, DrivenBy
  <2>6. \E k \in 1 .. Len(output_pins) : source[f].pin = <<0, "out", k - 1>>
    BY <1>2, <1>4, <2>4, <2>5, OutputMention
  <2>. QED
    BY <2>1, <2>6 DEF Carried
<1>. QED
  BY <1>9, <1>10, <1>11

-----------------------------------------------------------------------------
(* What every source of every size gets from the parser. *)

\* While the source is read, every signal the parser knows has the number of a pin that the
\* source joins to it, as Gate::get_pin counts the pins of the parts (parser.hpp:327, 678-683).
THEOREM HdlNumbers == Spec => []NumberedAsBuilt
<1>1. IInv => NumberedAsBuilt
  BY KnownPins DEF NumberedAsBuilt
<1>. QED
  BY <1>1, AlwaysInOrder, PTL

\* No wire of a recipe joins pins the source does not link to one signal, however many signals,
\* parts and buses there are (parser.hpp:727-753).
THEOREM HdlNoShorts == Spec => []NoShorts
<1>1. IInv => NoShorts
  BY WiresJoin DEF NoShorts
<1>. QED
  BY <1>1, AlwaysInOrder, PTL

\* A recipe wires the driver of a plain signal to each of its readers, in whatever order the
\* source mentions them (parser.hpp:294-383, 732-741).
THEOREM HdlDelivers == Spec => []Delivered
<1>1. IInv => Delivered
  BY CarriedToReaders DEF Delivered
<1>. QED
  BY <1>1, AlwaysInOrder, PTL

\* A bus of the chip has the numbers in its meta file that its pins have there
\* (meta.hpp:113-139, parser.hpp:124-271).
THEOREM HdlMetaNumbers == Spec => []MetaNumbers
<1>1. IInv => MetaNumbers
  <2> SUFFICES ASSUME IInv, Complete, Orderly, NEW b \in bus, NEW k \in 1 .. b[3]
               PROVE  MetaNumber(<<b[1], b[3] - k>>) = {b[2] + k - 1}
    BY DEF MetaNumbers
  <2>. QED
    BY BusNumbered DEF Fine, Complete
<1>. QED
  BY <1>1, AlwaysInOrder, PTL

=============================================================================
