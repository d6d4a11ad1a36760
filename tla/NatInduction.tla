------------------------------ MODULE NatInduction ------------------------------
(***************************************************************************)
(* Induction over the natural numbers, stated of sets: the proofs about    *)
(* functions that are defined one index after the other (the free list of  *)
(* the heap, the offsets of the boards on a board) need it, and a set can  *)
(* be given to a lemma where a predicate cannot.                           *)
(***************************************************************************)
EXTENDS Integers, Sequences, FiniteSetTheorems, WellFoundedInduction, TLAPS

\* A set of natural numbers that is not empty has a least element: of the
\* intervals from 0 to its elements one contains no other.
LEMMA LeastNumber ==
  ASSUME NEW T, T \subseteq Nat, T # {}
  PROVE  \E n \in T : \A m \in T : n <= m
<1> DEFINE Below == StrictSubsetOrdering(Nat)
           Initial == {0 .. n : n \in T}
<1>1. IsWellFoundedOn(Below, FiniteSubsetsOf(Nat))
  BY FS_StrictSubsetOrderingWellFounded
<1>2. Initial \subseteq FiniteSubsetsOf(Nat)
  <2>1. \A n \in T : IsFiniteSet(0 .. n) /\ 0 .. n \subseteq Nat
    BY FS_Interval
  <2>. QED
    BY <2>1 DEF FiniteSubsetsOf
<1>3. Initial # {}
  OBVIOUS
<1> HIDE DEF Below, Initial
<1>4. PICK x \in Initial : \A y \in Initial : ~(<<y, x>> \in Below)
  BY <1>1, <1>2, <1>3, WFMin
<1>5. PICK n \in T : x = 0 .. n
  BY <1>4 DEF Initial
<1>6. ASSUME NEW m \in T, m < n
      PROVE  FALSE
  <2>1. 0 .. m \in Initial /\ 0 .. m \subseteq 0 .. n /\ n \in 0 .. n /\ n \notin 0 .. m
    BY <1>6 DEF Initial
  <2>2. 0 .. m \in SUBSET Nat /\ 0 .. n \in SUBSET Nat /\ 0 .. m # 0 .. n
    BY <2>1
  <2>3. <<0 .. m, 0 .. n>> \in Below
    BY <2>1, <2>2 DEF Below, StrictSubsetOrdering
  <2>. QED
    BY <2>1, <2>3, <1>4, <1>5
<1>. QED
  BY <1>5, <1>6

\* A set that has 0 and with every number its successor has all of them.
LEMMA SetInduction ==
  ASSUME NEW S, 0 \in S, \A n \in Nat : n \in S => n + 1 \in S
  PROVE  Nat \subseteq S
<1> DEFINE T == {n \in Nat : n \notin S}
<1> SUFFICES ASSUME T # {}
             PROVE  FALSE
  OBVIOUS
<1>1. PICK n \in T : \A m \in T : n <= m
  <2>1. T \subseteq Nat
    OBVIOUS
  <2> HIDE DEF T
  <2>. QED
    BY <2>1, LeastNumber
<1>2. n # 0 /\ n \in Nat
  OBVIOUS
<1>3. n - 1 \in Nat /\ n - 1 \notin T
  BY <1>1, <1>2
<1>4. n - 1 \in S
  BY <1>3
<1>. QED
  BY <1>2, <1>3, <1>4

\* Two functions whose values at n + 1 are the same function of the value at n, and
\* that begin alike, are the same: a recursive function is what its equation says.
LEMMA SameRecursion ==
  ASSUME NEW N \in Nat, NEW f, NEW g,
         f[0] = g[0],
         \A n \in 0 .. N : n + 1 \in 0 .. N /\ f[n] = g[n] => f[n + 1] = g[n + 1]
  PROVE  \A n \in 0 .. N : f[n] = g[n]
<1> DEFINE S == {n \in Nat : n \in 0 .. N => f[n] = g[n]}
<1>1. 0 \in S
  OBVIOUS
<1>2. ASSUME NEW n \in Nat, n \in S
      PROVE  n + 1 \in S
  BY <1>2
<1>3. Nat \subseteq S
  <2> HIDE DEF S
  <2>. QED
    BY <1>1, <1>2, SetInduction
<1>. QED
  BY <1>3

\* f begins with a value and goes on from the value before.
Recurs(f, V, first, step) ==
  /\ f \in [Nat -> V]
  /\ f[0] = first
  /\ \A n \in Nat : f[n + 1] = step[n][f[n]]

\* There is a function with any first value whose value at n + 1 is given by n and the
\* value at n: the functions that are right up to n agree, and their values at n make it.
LEMMA Recursion ==
  ASSUME NEW V, NEW first \in V, NEW step \in [Nat -> [V -> V]]
  PROVE  \E f : Recurs(f, V, first, step)
<1> DEFINE Upto(f, n) == /\ f \in [Nat -> V]
                         /\ f[0] = first
                         /\ \A m \in 0 .. n : m < n => f[m + 1] = step[m][f[m]]
           S == {n \in Nat : \E f : Upto(f, n)}
<1>1. 0 \in S
  <2>1. Upto([m \in Nat |-> first], 0)
    OBVIOUS
  <2>. QED
    BY <2>1
<1>2. ASSUME NEW n \in Nat, n \in S
      PROVE  n + 1 \in S
  <2>1. PICK f : Upto(f, n)
    BY <1>2
  <2> DEFINE g == [f EXCEPT ![n + 1] = step[n][f[n]]]
  <2>2. step[n][f[n]] \in V /\ n + 1 \in Nat
    BY <2>1
  <2>3. /\ g \in [Nat -> V]
        /\ g[n + 1] = step[n][f[n]]
        /\ \A m \in Nat : m # n + 1 => g[m] = f[m]
    BY <2>1, <2>2
  <2> HIDE DEF g
  <2>4. ASSUME NEW m \in 0 .. n + 1, m < n + 1
        PROVE  g[m + 1] = step[m][g[m]]
    <3>1. m \in Nat /\ m # n + 1 /\ (m # n => m + 1 # n + 1 /\ m < n /\ m \in 0 .. n /\ m + 1 \in Nat)
      BY <2>4
    <3>2. g[m] = f[m]
      BY <2>3, <3>1
    <3>3. CASE m = n
      BY <2>3, <3>2, <3>3
    <3>4. CASE m # n
      BY <2>1, <2>3, <3>1, <3>2, <3>4
    <3>. QED
      BY <3>3, <3>4
  <2>5. g[0] = first
    BY <2>1, <2>3
  <2>6. Upto(g, n + 1)
    BY <2>3, <2>4, <2>5
  <2> HIDE DEF Upto
  <2>. QED
    BY <2>2, <2>6
<1>3. \A n \in Nat : \E f : Upto(f, n)
  <2>1. Nat \subseteq S
    <3> HIDE DEF S
    <3>. QED
      BY <1>1, <1>2, SetInduction
  <2>. QED
    BY <2>1
<1> DEFINE Right(n) == CHOOSE f : Upto(f, n)
           all == [n \in Nat |-> Right(n)[n]]
<1>4. \A n \in Nat : Upto(Right(n), n)
  <2> HIDE DEF Upto
  <2>. QED
    BY <1>3
<1> HIDE DEF Right
<1>5. all \in [Nat -> V]
  BY <1>4
<1>6. all[0] = first
  BY <1>4
<1>7. ASSUME NEW n \in Nat
      PROVE  all[n + 1] = step[n][all[n]]
  <2>1. PICK f, g : f = Right(n) /\ g = Right(n + 1)
    OBVIOUS
  <2>2. Upto(f, n) /\ Upto(g, n + 1)
    BY <1>4, <2>1
  <2>3. f[0] = g[0]
    BY <2>2
  <2>4. ASSUME NEW m \in 0 .. n, m + 1 \in 0 .. n, f[m] = g[m]
        PROVE  f[m + 1] = g[m + 1]
    <3>1. m < n /\ m < n + 1 /\ m \in 0 .. n + 1
      BY <2>4
    <3>. QED
      BY <2>2, <2>4, <3>1
  <2>5. \A m \in 0 .. n : f[m] = g[m]
    BY <2>3, <2>4, SameRecursion
  <2>6. f[n] = g[n]
    BY <2>5
  <2>7. g[n + 1] = step[n][g[n]]
    BY <2>2
  <2>. QED
    BY <2>1, <2>6, <2>7
<1> HIDE DEF all
<1>. QED
  BY <1>5, <1>6, <1>7 DEF Recurs
-----------------------------------------------------------------------------
(* Recursive functions over the first numbers. *)

RecursUpTo(f, N, first, step) == f = [n \in 0 .. N |-> IF n = 0 THEN first ELSE step[n - 1][f[n - 1]]]

LEMMA RecursionUpTo ==
  ASSUME NEW N \in Nat, NEW V, NEW first \in V, NEW step \in [Nat -> [V -> V]]
  PROVE  \E f \in [0 .. N -> V] : RecursUpTo(f, N, first, step)
<1>1. PICK g : Recurs(g, V, first, step)
  BY Recursion
<1> DEFINE f == [n \in 0 .. N |-> g[n]]
<1>2. f \in [0 .. N -> V] /\ \A n \in 0 .. N : f[n] = g[n]
  BY <1>1 DEF Recurs
<1>3. ASSUME NEW n \in 0 .. N
      PROVE  f[n] = IF n = 0 THEN first ELSE step[n - 1][f[n - 1]]
  <2>1. CASE n = 0
    BY <1>1, <1>2, <2>1 DEF Recurs
  <2>2. CASE n # 0
    <3>1. n - 1 \in Nat /\ n - 1 \in 0 .. N /\ (n - 1) + 1 = n
      BY <2>2
    <3>2. g[n] = step[n - 1][g[n - 1]]
      BY <1>1, <3>1 DEF Recurs
    <3>. QED
      BY <1>2, <2>2, <3>1, <3>2
  <2>. QED
    BY <2>1, <2>2
<1>. QED
  BY <1>2, <1>3 DEF RecursUpTo

-----------------------------------------------------------------------------
(* Sequences made of parts. *)

\* Functions that go on where the one before ends: where the parts lie in the whole.
Appended(whole, part, len, size, n) ==
  /\ len[n] = len[n - 1] + size[n]
  /\ \A j \in 1 .. len[n - 1] : whole[n][j] = whole[n - 1][j]
  /\ \A k \in 1 .. size[n] : whole[n][len[n - 1] + k] = part[n][k]

Lies(whole, part, len, size, n, N) ==
  \A k \in 1 .. size[n] : len[n - 1] + k \in 1 .. len[N] /\ whole[N][len[n - 1] + k] = part[n][k]

Placed(j, len, size, N) == \E n \in 1 .. N : \E k \in 1 .. size[n] : j = len[n - 1] + k

LEMMA Laid ==
  ASSUME NEW N \in Nat, NEW whole, NEW part, NEW len \in [0 .. N -> Nat], NEW size \in [1 .. N -> Nat],
         len[0] = 0,
         \A n \in 1 .. N : Appended(whole, part, len, size, n)
  PROVE  /\ \A n \in 1 .. N : Lies(whole, part, len, size, n, N)
         /\ \A j \in 1 .. len[N] : Placed(j, len, size, N)
<1> DEFINE Grown(m, n) == len[m] <= len[n] /\ \A j \in 1 .. len[m] : whole[n][j] = whole[m][j]
           Within(m) == {n \in Nat : m + n <= N => Grown(m, m + n)}
<1> HIDE DEF Grown
<1>1. ASSUME NEW m \in 0 .. N
      PROVE  Nat \subseteq Within(m)
  <2>1. 0 \in Within(m)
    <3>1. m + 0 = m /\ Grown(m, m)
      BY DEF Grown
    <3>. QED
      BY <3>1
  <2>2. ASSUME NEW n \in Nat, n \in Within(m)
        PROVE  n + 1 \in Within(m)
    <3> SUFFICES ASSUME m + (n + 1) <= N
                 PROVE  Grown(m, m + (n + 1))
      OBVIOUS
    <3>1. PICK h \in 1 .. N : h = m + (n + 1) /\ h - 1 = m + n /\ m + n <= N /\ h - 1 \in 0 .. N /\ h \in 0 .. N
      OBVIOUS
    <3>2. Grown(m, h - 1)
      BY <2>2, <3>1
    <3>3. /\ len[h] = len[h - 1] + size[h] /\ len[h - 1] \in Nat /\ size[h] \in Nat /\ len[m] \in Nat
          /\ \A j \in 1 .. len[h - 1] : whole[h][j] = whole[h - 1][j]
      BY <3>1 DEF Appended
    <3>4. len[m] <= len[h] /\ \A j \in 1 .. len[m] : j \in 1 .. len[h - 1]
      <4>1. PICK a, b, c, d \in Nat : a = len[m] /\ b = len[h - 1] /\ c = len[h] /\ d = size[h]
        BY <3>1, <3>3
      <4>2. a <= b /\ c = b + d
        BY <3>2, <3>3, <4>1 DEF Grown
      <4>3. a <= c /\ \A j \in 1 .. a : j \in 1 .. b
        BY ONLY <4>2, a \in Nat, b \in Nat, c \in Nat, d \in Nat
      <4>. QED
        BY ONLY <4>1, <4>3
    <3>5. Grown(m, h)
      BY <3>2, <3>3, <3>4 DEF Grown
    <3>. QED
      BY <3>1, <3>5
  <2> HIDE DEF Within
  <2>. QED
    BY <2>1, <2>2, SetInduction
<1>2. ASSUME NEW n \in 1 .. N, NEW k \in 1 .. size[n]
      PROVE  len[n - 1] + k \in 1 .. len[N] /\ whole[N][len[n - 1] + k] = part[n][k]
  <2>1. n \in 0 .. N /\ N - n \in Nat /\ n + (N - n) = N /\ n - 1 \in 0 .. N /\ N \in 0 .. N
    OBVIOUS
  <2>2. N - n \in Within(n)
    BY <1>1, <2>1
  <2>3. Grown(n, N)
    BY <2>1, <2>2
  <2>4. PICK l, p, t \in Nat : l = len[n - 1] /\ p = size[n] /\ t = len[N] /\ len[n] = l + p
    BY <2>1 DEF Appended
  <2>5. k \in 1 .. p /\ l + k \in 1 .. l + p
    BY <2>4
  <2>6. l + p <= t
    BY <2>3, <2>4 DEF Grown
  <2>7. l + k \in 1 .. t
    BY ONLY <2>5, <2>6, l \in Nat, p \in Nat, t \in Nat
  <2>8. whole[n][l + k] = part[n][k]
    BY <2>4 DEF Appended
  <2>9. whole[N][l + k] = whole[n][l + k]
    BY <2>3, <2>4, <2>5 DEF Grown
  <2>. QED
    BY <2>4, <2>7, <2>8, <2>9
<1> DEFINE Covered == {n \in Nat : n <= N => \A j \in 1 .. len[n] : Placed(j, len, size, N)}
<1>3. Nat \subseteq Covered
  <2>1. 0 \in Covered
    OBVIOUS
  <2>2. ASSUME NEW n \in Nat, n \in Covered
        PROVE  n + 1 \in Covered
    <3> SUFFICES ASSUME n + 1 <= N, NEW j \in 1 .. len[n + 1]
                 PROVE  Placed(j, len, size, N)
      OBVIOUS
    <3>1. PICK h \in 1 .. N : h = n + 1 /\ h - 1 = n /\ n <= N /\ n \in 0 .. N
      OBVIOUS
    <3>2. PICK l, p \in Nat : l = len[h - 1] /\ p = size[h] /\ len[h] = l + p
      BY <3>1 DEF Appended
    <3>3. j \in 1 .. l + p
      BY <3>1, <3>2
    <3>4. CASE j <= l
      <4>1. j \in 1 .. len[n]
        BY <3>1, <3>2, <3>3, <3>4
      <4>. QED
        BY <2>2, <3>1, <4>1
    <3>5. CASE ~(j <= l)
      <4>1. j - l \in 1 .. p /\ j = l + (j - l)
        BY ONLY <3>3, <3>5, l \in Nat, p \in Nat
      <4>. QED
        BY <3>2, <4>1 DEF Placed
    <3>. QED
      BY <3>4, <3>5
  <2> HIDE DEF Covered
  <2>. QED
    BY <2>1, <2>2, SetInduction
<1>4. \A j \in 1 .. len[N] : Placed(j, len, size, N)
  <2>1. N \in Covered
    BY <1>3
  <2>. QED
    BY <2>1
<1>5. \A n \in 1 .. N : Lies(whole, part, len, size, n, N)
  BY <1>2 DEF Lies
<1>. QED
  BY <1>4, <1>5

\* Sequences joined one after the other.
Joins(S, N, whole, part) ==
  /\ N \in Nat
  /\ whole[0] = <<>>
  /\ \A n \in 0 .. N : whole[n] \in Seq(S)
  /\ \A n \in 1 .. N : part[n] \in Seq(S) /\ whole[n] = whole[n - 1] \o part[n]

JoinedAt(N, whole, part, len, size) ==
  /\ \A n \in 0 .. N : len[n] = Len(whole[n])
  /\ \A n \in 1 .. N : size[n] = Len(part[n])
  /\ \A n \in 1 .. N : Lies(whole, part, len, size, n, N)
  /\ \A j \in 1 .. len[N] : Placed(j, len, size, N)

LEMMA PartsLie ==
  ASSUME NEW S, NEW N, NEW whole, NEW part, Joins(S, N, whole, part)
  PROVE  \E len \in [0 .. N -> Nat], size \in [1 .. N -> Nat] : JoinedAt(N, whole, part, len, size)
<1>0. /\ N \in Nat /\ whole[0] = <<>> /\ \A n \in 0 .. N : whole[n] \in Seq(S)
      /\ \A n \in 1 .. N : part[n] \in Seq(S) /\ whole[n] = whole[n - 1] \o part[n]
  BY DEF Joins
<1>1. PICK len, size : len = [n \in 0 .. N |-> Len(whole[n])] /\ size = [n \in 1 .. N |-> Len(part[n])]
  OBVIOUS
<1>2. len \in [0 .. N -> Nat] /\ size \in [1 .. N -> Nat]
  <2>1. (\A n \in 0 .. N : Len(whole[n]) \in Nat) /\ (\A n \in 1 .. N : Len(part[n]) \in Nat)
    BY ONLY <1>0
  <2>. QED
    BY <1>1, <2>1
<1>3. (\A n \in 0 .. N : len[n] = Len(whole[n])) /\ (\A n \in 1 .. N : size[n] = Len(part[n]))
  BY <1>1
<1>4. len[0] = 0
  BY <1>0, <1>3
<1>5. ASSUME NEW n \in 1 .. N
      PROVE  Appended(whole, part, len, size, n)
  <2>1. n - 1 \in 0 .. N /\ n \in 0 .. N
    BY <1>0
  <2>2. PICK a, b \in Seq(S) : a = whole[n - 1] /\ b = part[n]
    BY <1>0, <2>1
  <2>3. /\ Len(a \o b) = Len(a) + Len(b) /\ Len(a) \in Nat /\ Len(b) \in Nat
        /\ \A j \in 1 .. Len(a) : (a \o b)[j] = a[j]
        /\ \A k \in 1 .. Len(b) : (a \o b)[Len(a) + k] = b[k]
    BY ONLY a \in Seq(S), b \in Seq(S)
  <2>4. whole[n] = a \o b /\ len[n - 1] = Len(a) /\ size[n] = Len(b) /\ len[n] = Len(a \o b)
    BY <1>0, <1>3, <2>1, <2>2
  <2>. QED
    BY ONLY <2>2, <2>3, <2>4 DEF Appended
<1>6. /\ \A n \in 1 .. N : Lies(whole, part, len, size, n, N)
      /\ \A j \in 1 .. len[N] : Placed(j, len, size, N)
  BY ONLY <1>0, <1>2, <1>4, <1>5, Laid
<1>. QED
  BY <1>2, <1>3, <1>6 DEF JoinedAt

\* The function that joins parts: none at 0, one more at each number.
JoinsUpTo(f, N, part) == f = [n \in 0 .. N |-> IF n = 0 THEN <<>> ELSE f[n - 1] \o part[n]]

\* There is such a function, and it joins them.
LEMMA JoinedUpTo ==
  ASSUME NEW N \in Nat, NEW S, NEW part, \A n \in 1 .. N : part[n] \in Seq(S)
  PROVE  /\ \E f : JoinsUpTo(f, N, part)
         /\ \A f : JoinsUpTo(f, N, part) => Joins(S, N, f, part)
<1> DEFINE step == [n \in Nat |-> [s \in Seq(S) |-> IF n + 1 <= N THEN s \o part[n + 1] ELSE s]]
<1>1. step \in [Nat -> [Seq(S) -> Seq(S)]]
  <2>1. ASSUME NEW n \in Nat, NEW s \in Seq(S)
        PROVE  (IF n + 1 <= N THEN s \o part[n + 1] ELSE s) \in Seq(S)
    <3>1. CASE n + 1 <= N
      <4>1. n + 1 \in 1 .. N
        BY <3>1
      <4>2. PICK p : p = part[n + 1] /\ p \in Seq(S)
        BY <4>1
      <4>. QED
        BY <3>1, <4>2
    <3>. QED
      BY <3>1
  <2>. QED
    BY <2>1
<1>2. <<>> \in Seq(S)
  OBVIOUS
<1>3. PICK f \in [0 .. N -> Seq(S)] :
        f = [n \in 0 .. N |-> IF n = 0 THEN <<>> ELSE step[n - 1][f[n - 1]]]
  <2>1. PICK V, e, s : V = Seq(S) /\ e = <<>> /\ s = step
    OBVIOUS
  <2> HIDE DEF step
  <2>2. e \in V /\ s \in [Nat -> [V -> V]]
    BY <1>1, <1>2, <2>1
  <2>3. \E f \in [0 .. N -> V] : RecursUpTo(f, N, e, s)
    BY ONLY <2>2, N \in Nat, RecursionUpTo
  <2>. QED
    BY <2>1, <2>3 DEF RecursUpTo
<1>4. JoinsUpTo(f, N, part)
  <2>1. ASSUME NEW n \in 0 .. N, n # 0
        PROVE  step[n - 1][f[n - 1]] = f[n - 1] \o part[n]
    <3>1. n - 1 \in Nat /\ n - 1 \in 0 .. N /\ (n - 1) + 1 = n /\ (n - 1) + 1 <= N
      BY <2>1
    <3>2. f[n - 1] \in Seq(S)
      BY <1>3, <3>1
    <3>. QED
      BY <3>1, <3>2
  <2>. QED
    BY <1>3, <2>1 DEF JoinsUpTo
<1>5. ASSUME NEW whole, JoinsUpTo(whole, N, part)
      PROVE  Joins(S, N, whole, part)
  <2>1. whole[0] = <<>> /\ \A n \in 1 .. N : whole[n] = whole[n - 1] \o part[n]
    <3>1. 0 \in 0 .. N /\ \A n \in 1 .. N : n \in 0 .. N /\ n # 0
      OBVIOUS
    <3>. QED
      BY <1>5, <3>1 DEF JoinsUpTo
  <2>2. \A n \in 0 .. N : whole[n] \in Seq(S)
    <3> DEFINE T == {n \in Nat : n <= N => whole[n] \in Seq(S)}
    <3>1. 0 \in T
      BY <1>2, <2>1
    <3>2. ASSUME NEW n \in Nat, n \in T
          PROVE  n + 1 \in T
      <4> SUFFICES ASSUME n + 1 <= N PROVE whole[n + 1] \in Seq(S)
        OBVIOUS
      <4>1. n + 1 \in 1 .. N /\ (n + 1) - 1 = n /\ n <= N
        OBVIOUS
      <4>2. PICK w, p : w = whole[n] /\ p = part[n + 1] /\ w \in Seq(S) /\ p \in Seq(S) /\ whole[n + 1] = w \o p
        BY <2>1, <3>2, <4>1
      <4>3. w \o p \in Seq(S)
        BY ONLY <4>2
      <4>. QED
        BY <4>2, <4>3
    <3>3. Nat \subseteq T
      <4> HIDE DEF T
      <4>. QED
        BY <3>1, <3>2, SetInduction
    <3>. QED
      BY <3>3
  <2>. QED
    BY <2>1, <2>2 DEF Joins
<1>. QED
  BY <1>4, <1>5
=============================================================================
