------------------------------ MODULE TesterProofs ------------------------------
(***************************************************************************)
(* The interpreters of TestFile: what is proved of what they read and set. *)
(* The names of the pins are the names of the declarations, one after the  *)
(* other, so a bus, its places and every other member have numbers that    *)
(* tell them apart; a bus reads as the number its places make, and what is *)
(* set reads back; and a test does in a file what it does alone.           *)
(***************************************************************************)
EXTENDS TestFile, NatInduction

-----------------------------------------------------------------------------
(* The names of a chip's pins, and the numbers they have. *)

Declarations(declared) ==
  /\ declared \in Seq(Range(declared))
  /\ \A k \in DOMAIN declared : declared[k][2] \in Nat
  /\ \A j, k \in DOMAIN declared : declared[j][1] = declared[k][1] => j = k

\* The names a declaration may give its pins.
NamesOf(id) == {<<id>>} \cup {<<id, k>> : k \in Nat}

LEMMA PlacesNamed ==
  ASSUME NEW id, NEW width \in Nat
  PROVE  /\ PinNames(id, width) \in Seq(NamesOf(id))
         /\ Len(PinNames(id, width)) = IF width = 0 THEN 1 ELSE width
         /\ width = 0 => PinNames(id, width)[1] = <<id>>
         /\ width > 0 => \A k \in 1 .. width : PinNames(id, width)[k] = <<id, width - k>>
         /\ \A k \in 1 .. Len(PinNames(id, width)) : PinNames(id, width)[k][1] = id
         /\ \A j, k \in 1 .. Len(PinNames(id, width)) :
              PinNames(id, width)[j] = PinNames(id, width)[k] => j = k
<1>1. CASE width = 0
  <2>1. PinNames(id, width) = << <<id>> >>
    BY <1>1 DEF PinNames
  <2>2. <<id>> \in NamesOf(id)
    BY DEF NamesOf
  <2>3. PICK e, S, p : e = <<id>> /\ S = NamesOf(id) /\ p = PinNames(id, width)
    OBVIOUS
  <2>4. e \in S /\ e[1] = id /\ p = <<e>>
    BY <2>1, <2>2, <2>3
  <2>5. p \in Seq(S) /\ Len(p) = 1 /\ p[1] = e
    BY ONLY <2>4
  <2>6. \A k \in 1 .. Len(p) : k = 1
    BY ONLY <2>5
  <2>7. \A k \in 1 .. Len(p) : p[k][1] = id
    BY ONLY <2>4, <2>5, <2>6
  <2>8. \A j, k \in 1 .. Len(p) : p[j] = p[k] => j = k
    BY ONLY <2>6
  <2>. QED
    BY ONLY <1>1, <2>3, <2>5, <2>7, <2>8
<1>2. CASE width # 0
  <2>1. PICK e, S : e = PinNames(id, width) /\ S = NamesOf(id)
    OBVIOUS
  <2>2. e = [k \in 1 .. width |-> <<id, width - k>>]
    BY <1>2, <2>1 DEF PinNames
  <2>3. \A k \in 1 .. width : <<id, width - k>> \in S
    BY <2>1 DEF NamesOf
  <2>4. e \in [1 .. width -> S]
    BY <2>2, <2>3
  <2>5. e \in Seq(S) /\ Len(e) = width
    BY <2>4
  <2>6. \A k \in 1 .. width : e[k] = <<id, width - k>>
    BY <2>2
  <2>7. \A k \in 1 .. width : e[k][1] = id /\ e[k][2] = width - k
    BY <2>6
  <2>8. \A j, k \in 1 .. width : e[j] = e[k] => j = k
    <3> SUFFICES ASSUME NEW j \in 1 .. width, NEW k \in 1 .. width, e[j] = e[k] PROVE j = k
      OBVIOUS
    <3>1. width - j = width - k
      BY <2>7
    <3>. QED
      BY <3>1
  <2>9. \A k \in 1 .. Len(e) : e[k][1] = id
    BY ONLY <2>5, <2>7
  <2>10. \A j, k \in 1 .. Len(e) : e[j] = e[k] => j = k
    BY ONLY <2>5, <2>8
  <2>. QED
    BY ONLY <1>2, <2>1, <2>5, <2>6, <2>9, <2>10, width \in Nat
<1>. QED
  BY <1>1, <1>2

\* The pins are named as they are declared, one declaration after the other.
PartsOf(declared) == [n \in 1 .. Len(declared) |-> PinNames(declared[n][1], declared[n][2])]

LEMMA NamesJoined ==
  ASSUME NEW declared, Declarations(declared)
  PROVE  /\ DOMAIN declared = 1 .. Len(declared)
         /\ \E S : Joins(S, Len(declared), NamesUpTo(declared), PartsOf(declared))
<1>1. PICK N, whole, parts :
        N = Len(declared) /\ whole = NamesUpTo(declared) /\ parts = PartsOf(declared)
  OBVIOUS
<1>2. N \in Nat /\ DOMAIN declared = 1 .. N
  BY <1>1 DEF Declarations
<1> DEFINE S == UNION {NamesOf(declared[n][1]) : n \in 1 .. N}
<1>3. ASSUME NEW n \in 1 .. N
      PROVE  parts[n] \in Seq(S)
  <2>1. parts[n] = PinNames(declared[n][1], declared[n][2])
    BY <1>1 DEF PartsOf
  <2>2. parts[n] \in Seq(NamesOf(declared[n][1]))
    BY <1>2, <2>1, PlacesNamed DEF Declarations
  <2>3. PICK p, R, W : p = parts[n] /\ R = NamesOf(declared[n][1]) /\ W = S
    OBVIOUS
  <2>4. p \in Seq(R) /\ R \subseteq W
    BY <2>2, <2>3
  <2>5. p \in Seq(W)
    BY ONLY <2>4
  <2>. QED
    BY <2>3, <2>5
<1>4. JoinsUpTo(whole, N, parts)
  <2> DEFINE Names(f) == f = [n \in 0 .. Len(declared) |->
                                IF n = 0 THEN <<>> ELSE f[n - 1] \o PinNames(declared[n][1], declared[n][2])]
  <2>1. ASSUME NEW f
        PROVE  Names(f) <=> JoinsUpTo(f, N, parts)
    <3>1. ASSUME NEW n \in 0 .. N, n # 0
          PROVE  parts[n] = PinNames(declared[n][1], declared[n][2])
      <4>1. n \in 1 .. N
        BY <1>2, <3>1
      <4>. QED
        BY <1>1, <4>1 DEF PartsOf
    <3>2. [n \in 0 .. N |-> IF n = 0 THEN <<>> ELSE f[n - 1] \o PinNames(declared[n][1], declared[n][2])]
            = [n \in 0 .. N |-> IF n = 0 THEN <<>> ELSE f[n - 1] \o parts[n]]
      BY <3>1
    <3>. QED
      BY <1>1, <3>2 DEF JoinsUpTo
  <2>2. \E f : JoinsUpTo(f, N, parts)
    BY <1>2, <1>3, JoinedUpTo
  <2>3. \E f : Names(f)
    BY <2>1, <2>2
  <2>4. whole = CHOOSE f : Names(f)
    BY <1>1 DEF NamesUpTo
  <2> HIDE DEF Names
  <2>5. Names(whole)
    BY <2>3, <2>4
  <2>. QED
    BY <2>1, <2>5
<1>5. \E V : Joins(V, N, whole, parts)
  <2>1. PICK V : V = S
    OBVIOUS
  <2>2. \A n \in 1 .. N : parts[n] \in Seq(V)
    BY <1>3, <2>1
  <2>3. Joins(V, N, whole, parts)
    BY ONLY <1>2, <1>4, <2>2, JoinedUpTo
  <2>. QED
    BY <2>3
<1>. QED
  BY <1>1, <1>2, <1>5

\* The names of the pins of a chip, with those of each declaration where they lie.
LaidOut(declared, len, size) ==
  LET N == Len(declared)
  IN  /\ N \in Nat /\ DOMAIN declared = 1 .. N /\ DOMAIN AllNames(declared) = 1 .. len[N]
      /\ \A m \in 1 .. N : /\ len[m - 1] = Len(NamesUpTo(declared)[m - 1])
                           /\ size[m] = Len(PinNames(declared[m][1], declared[m][2]))
                           /\ declared[m][2] \in Nat
      /\ \A m \in 1 .. N : \A k \in 1 .. size[m] :
           /\ len[m - 1] + k \in 1 .. len[N]
           /\ AllNames(declared)[len[m - 1] + k] = PinNames(declared[m][1], declared[m][2])[k]
           /\ PinNames(declared[m][1], declared[m][2])[k][1] = declared[m][1]
      /\ \A j \in 1 .. len[N] : Placed(j, len, size, N)

LEMMA NamesLaid ==
  ASSUME NEW declared, Declarations(declared)
  PROVE  /\ \E S : AllNames(declared) \in Seq(S)
         /\ \E len \in [0 .. Len(declared) -> Nat], size \in [1 .. Len(declared) -> Nat] :
              LaidOut(declared, len, size)
<1>1. PICK N, whole, part :
        N = Len(declared) /\ whole = NamesUpTo(declared) /\ part = PartsOf(declared)
  OBVIOUS
<1>2. PICK S : Joins(S, N, whole, part) /\ DOMAIN declared = 1 .. N
  BY <1>1, NamesJoined
<1>3. PICK len \in [0 .. N -> Nat], size \in [1 .. N -> Nat] : JoinedAt(N, whole, part, len, size)
  BY ONLY <1>2, PartsLie
<1>4. /\ N \in Nat /\ \A m \in 0 .. N : whole[m] \in Seq(S)
      /\ \A m \in 0 .. N : len[m] = Len(whole[m])
      /\ \A m \in 1 .. N : size[m] = Len(part[m])
  BY <1>2, <1>3 DEF Joins, JoinedAt
<1>5. /\ \A m \in 1 .. N : Lies(whole, part, len, size, m, N)
      /\ \A j \in 1 .. len[N] : Placed(j, len, size, N)
  BY <1>3 DEF JoinedAt
<1>6. \A m \in 1 .. N : part[m] = PinNames(declared[m][1], declared[m][2]) /\ declared[m][2] \in Nat
  BY <1>1, <1>2 DEF PartsOf, Declarations
<1>7. ASSUME NEW m \in 1 .. N, NEW k \in 1 .. size[m]
      PROVE  /\ len[m - 1] + k \in 1 .. len[N] /\ whole[N][len[m - 1] + k] = part[m][k]
             /\ part[m][k][1] = declared[m][1]
  <2>1. part[m] = PinNames(declared[m][1], declared[m][2]) /\ declared[m][2] \in Nat
    BY <1>6
  <2>2. k \in 1 .. Len(PinNames(declared[m][1], declared[m][2]))
    BY <1>4, <2>1
  <2>3. PinNames(declared[m][1], declared[m][2])[k][1] = declared[m][1]
    BY <2>1, <2>2, PlacesNamed
  <2>. QED
    BY <1>5, <2>1, <2>3 DEF Lies
<1>8. AllNames(declared) = whole[N] /\ whole[N] \in Seq(S) /\ len[N] = Len(whole[N])
  BY <1>1, <1>4 DEF AllNames
<1>9. AllNames(declared) \in Seq(S) /\ DOMAIN AllNames(declared) = 1 .. len[N]
  BY <1>8
<1>10. \A m \in 1 .. N : /\ len[m - 1] = Len(NamesUpTo(declared)[m - 1])
                         /\ size[m] = Len(PinNames(declared[m][1], declared[m][2]))
                         /\ declared[m][2] \in Nat
  <2>1. \A m \in 1 .. N : m - 1 \in 0 .. N
    BY <1>4
  <2>. QED
    BY <1>1, <1>4, <1>6, <2>1
<1>11. \A m \in 1 .. N : \A k \in 1 .. size[m] :
         /\ len[m - 1] + k \in 1 .. len[N]
         /\ AllNames(declared)[len[m - 1] + k] = PinNames(declared[m][1], declared[m][2])[k]
         /\ PinNames(declared[m][1], declared[m][2])[k][1] = declared[m][1]
  BY <1>6, <1>7, <1>8
<1>12. LaidOut(declared, len, size)
  BY ONLY <1>1, <1>2, <1>4, <1>5, <1>9, <1>10, <1>11 DEF LaidOut
<1>. QED
  BY <1>1, <1>9, <1>12

\* What is declared n-th lies after what is declared before it, and nowhere else.
LEMMA Numbered ==
  ASSUME NEW declared, Declarations(declared), NEW n \in DOMAIN declared, declared[n][2] > 0
  PROVE  LET names == AllNames(declared)
             start == Len(NamesUpTo(declared)[n - 1])
             id == declared[n][1]
             width == declared[n][2]
         IN  /\ start \in Nat /\ width \in Nat
             /\ \A p \in 0 .. width - 1 :
                  /\ start + width - p \in DOMAIN names
                  /\ names[start + width - p] = <<id, p>>
                  /\ \A j \in DOMAIN names : names[j] = <<id, p>> => j = start + width - p
<1>1. PICK N, len, size :
        /\ N = Len(declared) /\ len \in [0 .. N -> Nat] /\ size \in [1 .. N -> Nat]
        /\ LaidOut(declared, len, size)
  BY NamesLaid
<1>2. PICK names, start, id, width, first :
        /\ names = AllNames(declared) /\ start = Len(NamesUpTo(declared)[n - 1])
        /\ id = declared[n][1] /\ width = declared[n][2] /\ first = PinNames(declared[n][1], declared[n][2])
  OBVIOUS
<1>3. \A m \in 1 .. N : \A k \in 1 .. size[m] :
        /\ len[m - 1] + k \in 1 .. len[N]
        /\ names[len[m - 1] + k] = PinNames(declared[m][1], declared[m][2])[k]
        /\ PinNames(declared[m][1], declared[m][2])[k][1] = declared[m][1]
  BY <1>1, <1>2 DEF LaidOut
<1>4. \A j \in 1 .. len[N] : Placed(j, len, size, N)
  BY <1>1 DEF LaidOut
<1>5. /\ N \in Nat /\ n \in 1 .. N /\ DOMAIN declared = 1 .. N /\ DOMAIN names = 1 .. len[N]
      /\ width \in Nat /\ width > 0 /\ size[n] = Len(first)
      /\ start = len[n - 1] /\ start \in Nat
  BY <1>1, <1>2 DEF LaidOut
<1>6. size[n] = width /\ \A k \in 1 .. width : first[k] = <<id, width - k>>
  <2>1. width \in Nat /\ width > 0 /\ width # 0 /\ first = PinNames(id, width)
    BY <1>2, <1>5
  <2>2. Len(PinNames(id, width)) = IF width = 0 THEN 1 ELSE width
    BY <2>1, PlacesNamed
  <2>3. \A k \in 1 .. width : PinNames(id, width)[k] = <<id, width - k>>
    BY <2>1, PlacesNamed
  <2>. QED
    BY <1>5, <2>1, <2>2, <2>3
<1>7. ASSUME NEW m \in 1 .. N, NEW k \in 1 .. size[m]
      PROVE  /\ names[len[m - 1] + k][1] = declared[m][1]
             /\ m = n => names[len[m - 1] + k] = <<id, width - k>>
  BY <1>2, <1>3, <1>6
<1>8. ASSUME NEW p \in 0 .. width - 1
      PROVE  /\ start + width - p \in DOMAIN names
             /\ names[start + width - p] = <<id, p>>
             /\ \A j \in DOMAIN names : names[j] = <<id, p>> => j = start + width - p
  <2>1. PICK k : k = width - p /\ k \in 1 .. width /\ width - k = p /\ start + k = start + width - p
    BY ONLY <1>5, p \in 0 .. width - 1
  <2>2. /\ start + k \in 1 .. len[N] /\ names[start + k] = first[k]
    BY <1>2, <1>3, <1>5, <1>6, <2>1
  <2>3. first[k] = <<id, p>>
    BY <1>6, <2>1
  <2>4. ASSUME NEW j \in 1 .. len[N], names[j] = <<id, p>>
        PROVE  j = start + k
    <3>1. PICK m \in 1 .. N : \E h \in 1 .. size[m] : j = len[m - 1] + h
      BY <1>4, <2>4 DEF Placed
    <3>2. PICK h \in 1 .. size[m] : j = len[m - 1] + h
      BY <3>1
    <3>3. names[j] = <<id, p>> /\ names[j][1] = declared[m][1]
      BY <1>7, <2>4, <3>2
    <3>4. declared[m][1] = declared[n][1]
      BY <1>2, <3>3
    <3>5. m = n
      BY <1>5, <3>4 DEF Declarations
    <3>6. h \in 1 .. width /\ names[j] = <<id, width - h>>
      BY <1>6, <1>7, <3>2, <3>5
    <3>7. width - h = p
      <4>1. PICK a, b : a = <<id, p>> /\ b = <<id, width - h>> /\ a = b
        BY <3>3, <3>6
      <4>2. a[2] = p /\ b[2] = width - h
        BY <4>1
      <4>. QED
        BY <4>1, <4>2
    <3>8. h = k
      BY ONLY <2>1, <3>6, <3>7, <1>5, p \in 0 .. width - 1
    <3>. QED
      BY <1>5, <3>2, <3>5, <3>8
  <2>. QED
    BY <1>5, <2>1, <2>2, <2>3, <2>4
<1>. QED
  BY <1>2, <1>5, <1>8

\* A pin has the name of something that is declared.
LEMMA NamesDeclared ==
  ASSUME NEW declared, Declarations(declared)
  PROVE  /\ \E S : AllNames(declared) \in Seq(S)
         /\ \A j \in DOMAIN AllNames(declared) :
              \E n \in DOMAIN declared : AllNames(declared)[j][1] = declared[n][1]
<1>1. PICK N, len, size :
        /\ N = Len(declared) /\ len \in [0 .. N -> Nat] /\ size \in [1 .. N -> Nat]
        /\ LaidOut(declared, len, size)
  BY NamesLaid
<1>2. ASSUME NEW j \in DOMAIN AllNames(declared)
      PROVE  \E n \in DOMAIN declared : AllNames(declared)[j][1] = declared[n][1]
  <2>1. j \in 1 .. len[N] /\ Placed(j, len, size, N)
    BY <1>1 DEF LaidOut
  <2>2. PICK m \in 1 .. N : \E k \in 1 .. size[m] : j = len[m - 1] + k
    BY <2>1 DEF Placed
  <2>3. PICK k \in 1 .. size[m] : j = len[m - 1] + k
    BY <2>2
  <2>4. /\ m \in DOMAIN declared
        /\ AllNames(declared)[len[m - 1] + k] = PinNames(declared[m][1], declared[m][2])[k]
        /\ PinNames(declared[m][1], declared[m][2])[k][1] = declared[m][1]
    <3>1. DOMAIN declared = 1 .. N
      BY <1>1 DEF LaidOut
    <3>. QED
      BY <1>1, <2>3, <3>1 DEF LaidOut
  <2>5. AllNames(declared)[j][1] = declared[m][1]
    BY <2>3, <2>4
  <2>. QED
    BY <2>4, <2>5
<1>. QED
  BY <1>2, NamesLaid

-----------------------------------------------------------------------------
(* A bus of a chip, and its places. *)

PinsAt(declared, base, name) ==
  {base + k - 1 : k \in {i \in DOMAIN AllNames(declared) : AllNames(declared)[i] = name}}

BusesAt(declared, base, name) ==
  {[start |-> base + Len(NamesUpTo(declared)[k - 1]), size |-> declared[k][2]] :
     k \in {j \in DOMAIN declared : declared[j][2] > 0 /\ <<declared[j][1]>> = name}}

\* A bus is found by its name alone, and each of its places as a pin.
BusAt(declared, base, id, start, width) ==
  /\ BusesAt(declared, base, <<id>>) = {[start |-> base + start, size |-> width]}
  /\ \A p \in 0 .. width - 1 : /\ BusesAt(declared, base, <<id, p>>) = {}
                               /\ PinsAt(declared, base, <<id, p>>) = {base + start + width - p - 1}
                               /\ <<id, p>> \in Range(AllNames(declared))

NoneAt(declared, base, id) ==
  /\ BusesAt(declared, base, <<id>>) = {}
  /\ \A p : BusesAt(declared, base, <<id, p>>) = {} /\ PinsAt(declared, base, <<id, p>>) = {}

LEMMA NamesDiffer ==
  ASSUME NEW a, NEW b, NEW c
  PROVE  <<a>> # <<b, c>> /\ (<<a>> = <<b>> => a = b) /\ <<b, c>>[1] = b
<1>1. PICK x, y, z : x = <<a>> /\ y = <<b>> /\ z = <<b, c>>
  OBVIOUS
<1>2. Len(x) = 1 /\ Len(z) = 2 /\ x[1] = a /\ y[1] = b /\ z[1] = b
  BY <1>1
<1>. QED
  BY <1>1, <1>2

LEMMA FoundHere ==
  ASSUME NEW declared, Declarations(declared), NEW n \in DOMAIN declared, declared[n][2] > 0,
         NEW base \in Nat
  PROVE  /\ declared[n][2] \in Nat
         /\ \E start \in Nat : BusAt(declared, base, declared[n][1], start, declared[n][2])
<1>1. PICK names, start, id, width :
        /\ names = AllNames(declared) /\ start = Len(NamesUpTo(declared)[n - 1])
        /\ id = declared[n][1] /\ width = declared[n][2]
  OBVIOUS
<1>2. /\ start \in Nat /\ width \in Nat
      /\ \A p \in 0 .. width - 1 :
           /\ start + width - p \in DOMAIN names
           /\ names[start + width - p] = <<id, p>>
           /\ \A j \in DOMAIN names : names[j] = <<id, p>> => j = start + width - p
  BY <1>1, Numbered
<1>3. BusesAt(declared, base, <<id>>) = {[start |-> base + start, size |-> width]}
  <2>1. {j \in DOMAIN declared : declared[j][2] > 0 /\ <<declared[j][1]>> = <<id>>} = {n}
    <3>1. \A j \in DOMAIN declared : <<declared[j][1]>> = <<id>> => j = n
      BY <1>1, NamesDiffer DEF Declarations
    <3>. QED
      BY <1>1, <3>1
  <2>. QED
    BY <1>1, <2>1 DEF BusesAt
<1>4. ASSUME NEW p \in 0 .. width - 1
      PROVE  /\ BusesAt(declared, base, <<id, p>>) = {}
             /\ PinsAt(declared, base, <<id, p>>) = {base + start + width - p - 1}
             /\ <<id, p>> \in Range(names)
  <2>1. BusesAt(declared, base, <<id, p>>) = {}
    BY NamesDiffer DEF BusesAt
  <2>2. {j \in DOMAIN names : names[j] = <<id, p>>} = {start + width - p}
    BY <1>2
  <2>3. PinsAt(declared, base, <<id, p>>) = {base + (start + width - p) - 1}
    BY <1>1, <2>2 DEF PinsAt
  <2>4. base + (start + width - p) - 1 = base + start + width - p - 1
    BY <1>2
  <2>5. <<id, p>> \in Range(names)
    BY <1>2 DEF Range
  <2>. QED
    BY <2>1, <2>3, <2>4, <2>5
<1>. QED
  BY <1>1, <1>2, <1>3, <1>4 DEF BusAt

LEMMA FoundElsewhere ==
  ASSUME NEW declared, Declarations(declared), NEW base, NEW id,
         \A k \in DOMAIN declared : declared[k][1] # id
  PROVE  NoneAt(declared, base, id)
<1>1. BusesAt(declared, base, <<id>>) = {}
  BY NamesDiffer DEF BusesAt
<1>2. ASSUME NEW p
      PROVE  BusesAt(declared, base, <<id, p>>) = {} /\ PinsAt(declared, base, <<id, p>>) = {}
  <2>1. BusesAt(declared, base, <<id, p>>) = {}
    BY NamesDiffer DEF BusesAt
  <2>2. \A j \in DOMAIN AllNames(declared) : AllNames(declared)[j] # <<id, p>>
    BY NamesDeclared, NamesDiffer
  <2>. QED
    BY <2>1, <2>2 DEF PinsAt
<1>. QED
  BY <1>1, <1>2 DEF NoneAt

LEMMA ChipDeclares ==
  ASSUME NEW chip \in DOMAIN Chips
  PROVE  LET inputs == Chips[chip].inputs
             outputs == Chips[chip].outputs
         IN  /\ Declarations(inputs) /\ Declarations(outputs)
             /\ \A j \in DOMAIN inputs, k \in DOMAIN outputs : inputs[j][1] # outputs[k][1]
             /\ \A name : get_bus(chip, name) = BusesAt(inputs, 0, name) \cup BusesAt(outputs, INPUT_PIN_LIMIT, name)
             /\ \A name : get_pin(chip, name) = PinsAt(inputs, 0, name) \cup PinsAt(outputs, INPUT_PIN_LIMIT, name)
<1>1. /\ Declarations(Chips[chip].inputs) /\ Declarations(Chips[chip].outputs)
      /\ \A j \in DOMAIN Chips[chip].inputs, k \in DOMAIN Chips[chip].outputs :
           Chips[chip].inputs[j][1] # Chips[chip].outputs[k][1]
  BY ChipsAssumption DEF Declarations
<1>2. \A name : get_bus(chip, name) = BusesAt(Chips[chip].inputs, 0, name) \cup BusesAt(Chips[chip].outputs, INPUT_PIN_LIMIT, name)
  BY DEF get_bus, BusesAt
<1>3. ASSUME NEW name
      PROVE  get_pin(chip, name) = PinsAt(Chips[chip].inputs, 0, name) \cup PinsAt(Chips[chip].outputs, INPUT_PIN_LIMIT, name)
  <2>1. PICK names : names = AllNames(Chips[chip].inputs)
    OBVIOUS
  <2>2. PICK S : names \in Seq(S)
    BY <1>1, <2>1, NamesDeclared
  <2>3. \A k \in DOMAIN names : k - 1 = 0 + k - 1
    BY <2>2
  <2>4. {k - 1 : k \in {i \in DOMAIN names : names[i] = name}} = {0 + k - 1 : k \in {i \in DOMAIN names : names[i] = name}}
    BY <2>3
  <2>5. PinsAt(Chips[chip].inputs, 0, name) = {k - 1 : k \in {i \in DOMAIN names : names[i] = name}}
    BY <2>1, <2>4 DEF PinsAt
  <2>6. InputNames[chip] = names /\ OutputNames[chip] = AllNames(Chips[chip].outputs)
    BY <2>1 DEF InputNames, OutputNames
  <2>. QED
    BY ONLY <2>5, <2>6 DEF get_pin, PinsAt
<1>. QED
  BY <1>1, <1>2, <1>3

\* The pins of a bus follow each other, the last place first.
BusPins(chip, d, first) ==
  /\ get_bus(chip, <<d[1]>>) = {[start |-> first, size |-> d[2]]}
  /\ NumbersOf(chip, <<d[1]>>) = [k \in 1 .. d[2] |-> first + k - 1]
  /\ \A p \in 0 .. d[2] - 1 : /\ <<d[1], p>> \in values(chip)
                             /\ get_pin(chip, <<d[1], p>>) = {first + d[2] - p - 1}
                             /\ NumbersOf(chip, <<d[1], p>>) = <<first + d[2] - p - 1>>

LEMMA BusNumbered ==
  ASSUME NEW chip \in DOMAIN Chips,
         NEW d \in Range(Chips[chip].inputs) \cup Range(Chips[chip].outputs), d[2] > 0
  PROVE  /\ d[2] \in Nat
         /\ <<d[1]>> \in values(chip)
         /\ \E first \in Nat : BusPins(chip, d, first)
<1>1. PICK inputs, outputs, id, width :
        /\ inputs = Chips[chip].inputs /\ outputs = Chips[chip].outputs
        /\ id = d[1] /\ width = d[2]
  OBVIOUS
<1>2. /\ Declarations(inputs) /\ Declarations(outputs)
      /\ \A j \in DOMAIN inputs, k \in DOMAIN outputs : inputs[j][1] # outputs[k][1]
      /\ \A name : get_bus(chip, name) = BusesAt(inputs, 0, name) \cup BusesAt(outputs, INPUT_PIN_LIMIT, name)
      /\ \A name : get_pin(chip, name) = PinsAt(inputs, 0, name) \cup PinsAt(outputs, INPUT_PIN_LIMIT, name)
  BY <1>1, ChipDeclares
<1>3. /\ <<id>> \in values(chip)
      /\ \A p : <<id, p>> \in Range(AllNames(inputs)) \cup Range(AllNames(outputs)) => <<id, p>> \in values(chip)
  BY <1>1 DEF values, InputNames, OutputNames
<1>4. INPUT_PIN_LIMIT \in Nat
  BY PinLimitAssumption
<1>5. width \in Nat /\ \E first \in Nat :
        /\ get_bus(chip, <<id>>) = {[start |-> first, size |-> width]}
        /\ \A p \in 0 .. width - 1 : /\ get_bus(chip, <<id, p>>) = {}
                                     /\ get_pin(chip, <<id, p>>) = {first + width - p - 1}
                                     /\ <<id, p>> \in Range(AllNames(inputs)) \cup Range(AllNames(outputs))
  <2>1. CASE d \in Range(inputs)
    <3>1. PICK n \in DOMAIN inputs : inputs[n] = d
      BY <2>1 DEF Range
    <3>2. width \in Nat /\ \E start \in Nat : BusAt(inputs, 0, id, start, width)
      BY <1>1, <1>2, <3>1, FoundHere
    <3>3. PICK start \in Nat : BusAt(inputs, 0, id, start, width)
      BY <3>2
    <3>4. NoneAt(outputs, INPUT_PIN_LIMIT, id)
      BY <1>1, <1>2, <3>1, FoundElsewhere
    <3>5. 0 + start \in Nat
      OBVIOUS
    <3>. QED
      BY <1>2, <3>2, <3>3, <3>4, <3>5 DEF BusAt, NoneAt
  <2>2. CASE d \in Range(outputs)
    <3>1. PICK n \in DOMAIN outputs : outputs[n] = d
      BY <2>2 DEF Range
    <3>2. width \in Nat /\ \E start \in Nat : BusAt(outputs, INPUT_PIN_LIMIT, id, start, width)
      BY <1>1, <1>2, <1>4, <3>1, FoundHere
    <3>3. PICK start \in Nat : BusAt(outputs, INPUT_PIN_LIMIT, id, start, width)
      BY <3>2
    <3>4. NoneAt(inputs, 0, id)
      BY <1>1, <1>2, <3>1, FoundElsewhere
    <3>5. INPUT_PIN_LIMIT + start \in Nat
      BY <1>4
    <3>. QED
      BY <1>2, <3>2, <3>3, <3>4, <3>5 DEF BusAt, NoneAt
  <2>. QED
    BY <1>1, <2>1, <2>2
<1>6. PICK first \in Nat :
        /\ get_bus(chip, <<id>>) = {[start |-> first, size |-> width]}
        /\ \A p \in 0 .. width - 1 : /\ get_bus(chip, <<id, p>>) = {}
                                     /\ get_pin(chip, <<id, p>>) = {first + width - p - 1}
                                     /\ <<id, p>> \in Range(AllNames(inputs)) \cup Range(AllNames(outputs))
  BY <1>5
<1>7. NumbersOf(chip, <<id>>) = [k \in 1 .. width |-> first + k - 1]
  <2>1. PICK bus : bus = [start |-> first, size |-> width]
    OBVIOUS
  <2>2. get_bus(chip, <<id>>) = {bus} /\ bus.start = first /\ bus.size = width
    BY <1>6, <2>1
  <2>3. (CHOOSE b \in {bus} : TRUE) = bus /\ {bus} # {}
    OBVIOUS
  <2>. QED
    BY ONLY <2>2, <2>3 DEF NumbersOf
<1>8. ASSUME NEW p \in 0 .. width - 1
      PROVE  NumbersOf(chip, <<id, p>>) = <<first + width - p - 1>>
  <2>1. PICK m : m = first + width - p - 1
    OBVIOUS
  <2>2. get_bus(chip, <<id, p>>) = {} /\ get_pin(chip, <<id, p>>) = {m}
    BY <1>6, <2>1
  <2>3. (CHOOSE n \in {m} : TRUE) = m
    OBVIOUS
  <2>4. NumbersOf(chip, <<id, p>>) = <<m>>
    BY ONLY <2>2, <2>3 DEF NumbersOf
  <2>. QED
    BY <2>1, <2>4
<1>9. BusPins(chip, d, first)
  BY <1>1, <1>3, <1>6, <1>7, <1>8 DEF BusPins
<1>. QED
  BY <1>1, <1>3, <1>5, <1>9

-----------------------------------------------------------------------------
(* The number the pins of a bus make. *)

Bit(on) == IF on THEN 1 ELSE 0

LEMMA Powers ==
  /\ two_to_the \in [Nat -> Nat \ {0}]
  /\ two_to_the[0] = 1
  /\ \A n \in Nat : two_to_the[n + 1] = 2 * two_to_the[n]
<1> DEFINE double == [n \in Nat |-> [t \in Nat \ {0} |-> 2 * t]]
<1>1. PICK f : Recurs(f, Nat \ {0}, 1, double)
  <2>1. PICK V, e, step : V = Nat \ {0} /\ e = 1 /\ step = double
    OBVIOUS
  <2>2. e \in V /\ step \in [Nat -> [V -> V]]
    BY <2>1
  <2>3. \E f : Recurs(f, V, e, step)
    BY ONLY <2>2, Recursion
  <2>. QED
    BY <2>1, <2>3
<1>2. /\ f \in [Nat -> Nat \ {0}] /\ f[0] = 1
      /\ \A n \in Nat : f[n + 1] = 2 * f[n]
  BY <1>1 DEF Recurs
<1> DEFINE Powering(g) == g = [n \in Nat |-> IF n = 0 THEN 1 ELSE 2 * g[n - 1]]
<1>3. Powering(f)
  <2>1. ASSUME NEW n \in Nat
        PROVE  f[n] = IF n = 0 THEN 1 ELSE 2 * f[n - 1]
    <3>1. CASE n = 0
      BY <1>2, <3>1
    <3>2. CASE n # 0
      <4>1. n - 1 \in Nat /\ (n - 1) + 1 = n
        BY <3>2
      <4>2. f[(n - 1) + 1] = 2 * f[n - 1]
        BY <1>2, <4>1
      <4>. QED
        BY <3>2, <4>1, <4>2
    <3>. QED
      BY <3>1, <3>2
  <2>. QED
    BY <1>2, <2>1
<1>4. two_to_the = CHOOSE g : Powering(g)
  BY DEF two_to_the
<1>5. Powering(CHOOSE g : Powering(g))
  <2> HIDE DEF Powering
  <2>. QED
    BY <1>3
<1>6. PICK g : g = two_to_the /\ g = [n \in Nat |-> IF n = 0 THEN 1 ELSE 2 * g[n - 1]]
  BY <1>4, <1>5
<1>7. g[0] = 1 /\ \A n \in Nat : g[n + 1] = 2 * g[n]
  <2>1. \A n \in Nat : n + 1 \in Nat /\ n + 1 # 0 /\ (n + 1) - 1 = n
    OBVIOUS
  <2>. QED
    BY <1>6, <2>1
<1>8. g \in [Nat -> Nat \ {0}]
  <2> DEFINE S == {n \in Nat : g[n] \in Nat \ {0}}
  <2>1. 0 \in S
    BY <1>7
  <2>2. ASSUME NEW n \in Nat, n \in S
        PROVE  n + 1 \in S
    <3>1. g[n] \in Nat \ {0} /\ g[n + 1] = 2 * g[n]
      BY <1>7, <2>2
    <3>. QED
      BY <3>1
  <2>3. Nat \subseteq S
    <3> HIDE DEF S
    <3>. QED
      BY <2>1, <2>2, SetInduction
  <2>. QED
    BY <1>6, <2>3
<1>. QED
  BY <1>6, <1>7, <1>8

\* The highest bit first: every pin doubles what is before it.
Doubling(val, N, pins) ==
  /\ val \in [0 .. N -> Int]
  /\ val[0] = 0
  /\ \A n \in 1 .. N : val[n] = 2 * val[n - 1] + Bit(pins[n])

LEMMA PinsRead ==
  ASSUME NEW N \in Nat, NEW pins, Len(pins) = N
  PROVE  \E val : Doubling(val, N, pins) /\ pinvec_to_uint(pins) = val[N]
<1> DEFINE step == [n \in Nat |-> [m \in Int |-> 2 * m + Bit(pins[n + 1])]]
<1>1. PICK f \in [0 .. N -> Int] : f = [n \in 0 .. N |-> IF n = 0 THEN 0 ELSE step[n - 1][f[n - 1]]]
  <2>1. PICK V, e, s : V = Int /\ e = 0 /\ s = step
    OBVIOUS
  <2>2. e \in V /\ s \in [Nat -> [V -> V]]
    BY <2>1 DEF Bit
  <2>3. \E f \in [0 .. N -> V] : RecursUpTo(f, N, e, s)
    BY <2>2, RecursionUpTo
  <2> HIDE DEF step
  <2>. QED
    BY <2>1, <2>3 DEF RecursUpTo
<1> DEFINE Reads(g) == g = [n \in 0 .. N |-> IF n = 0 THEN 0 ELSE 2 * g[n - 1] + (IF pins[n] THEN 1 ELSE 0)]
<1>2. Reads(f)
  <2>1. ASSUME NEW n \in 0 .. N, n # 0
        PROVE  step[n - 1][f[n - 1]] = 2 * f[n - 1] + (IF pins[n] THEN 1 ELSE 0)
    <3>1. n - 1 \in Nat /\ n - 1 \in 0 .. N /\ (n - 1) + 1 = n
      BY <2>1
    <3>2. f[n - 1] \in Int
      BY <1>1, <3>1
    <3>. QED
      BY <3>1, <3>2 DEF Bit
  <2>. QED
    BY <1>1, <2>1
<1>3. pinvec_to_uint(pins) = (CHOOSE g : Reads(g))[N]
  BY DEF pinvec_to_uint
<1>4. Reads(CHOOSE g : Reads(g))
  <2> HIDE DEF Reads
  <2>. QED
    BY <1>2
<1>5. PICK val : pinvec_to_uint(pins) = val[N] /\ Reads(val)
  BY <1>3, <1>4
<1>6. val[0] = 0 /\ \A n \in 1 .. N : val[n] = 2 * val[n - 1] + Bit(pins[n])
  <2>1. 0 \in 0 .. N /\ \A n \in 1 .. N : n \in 0 .. N /\ n # 0
    OBVIOUS
  <2>. QED
    BY <1>5, <2>1 DEF Bit
<1>7. val \in [0 .. N -> Int]
  <2>1. f[0] = 0 /\ \A n \in 1 .. N : f[n] = 2 * f[n - 1] + Bit(pins[n])
    <3>1. 0 \in 0 .. N /\ \A n \in 1 .. N : n \in 0 .. N /\ n # 0
      OBVIOUS
    <3>. QED
      BY <1>2, <3>1 DEF Bit
  <2>2. val[0] = f[0]
    BY <1>6, <2>1
  <2>3. ASSUME NEW n \in 0 .. N, n + 1 \in 0 .. N, val[n] = f[n]
        PROVE  val[n + 1] = f[n + 1]
    <3>1. n + 1 \in 1 .. N /\ (n + 1) - 1 = n
      BY <2>3
    <3>. QED
      BY <1>6, <2>1, <2>3, <3>1
  <2>4. \A n \in 0 .. N : val[n] = f[n]
    BY ONLY <2>2, <2>3, N \in Nat, SameRecursion
  <2>. QED
    BY <1>1, <1>5, <2>4
<1>. QED
  BY <1>5, <1>6, <1>7 DEF Doubling

\* The lowest bit first: every place has twice the weight of the one before it.
Weighing(sum, N, bits) ==
  /\ sum[0] = 0
  /\ \A n \in 1 .. N : sum[n] = sum[n - 1] + two_to_the[n - 1] * bits[n - 1]

LEMMA BothOrders ==
  ASSUME NEW N \in Nat, NEW pins, NEW val, Doubling(val, N, pins),
         NEW bits, \A p \in 0 .. N - 1 : bits[p] = Bit(pins[N - p]),
         NEW sum, Weighing(sum, N, bits)
  PROVE  val[N] = sum[N]
<1> DEFINE Agree(m) == sum[m] \in Int /\ val[N] = val[N - m] * two_to_the[m] + sum[m]
           S == {m \in Nat : m <= N => Agree(m)}
<1>1. 0 \in S
  <2>1. val[N] \in Int /\ N - 0 = N /\ sum[0] = 0 /\ two_to_the[0] = 1
    BY Powers DEF Doubling, Weighing
  <2>. QED
    BY <2>1
<1>2. ASSUME NEW m \in Nat, m \in S
      PROVE  m + 1 \in S
  <2> SUFFICES ASSUME m + 1 <= N
               PROVE  Agree(m + 1)
    OBVIOUS
  <2>1. /\ N - m \in 1 .. N /\ (N - m) - 1 = N - (m + 1) /\ (N - m) - 1 \in 0 .. N
        /\ m + 1 \in 1 .. N /\ (m + 1) - 1 = m /\ m \in 0 .. N - 1 /\ m <= N
    OBVIOUS
  <2>2. PICK a \in Int, b \in 0 .. 1, t \in Nat :
          a = val[N - (m + 1)] /\ b = Bit(pins[N - m]) /\ t = two_to_the[m]
    <3>1. val[N - (m + 1)] \in Int
      BY <2>1 DEF Doubling
    <3>2. Bit(pins[N - m]) \in 0 .. 1
      BY DEF Bit
    <3>3. two_to_the[m] \in Nat
      BY Powers
    <3>. QED
      BY <3>1, <3>2, <3>3
  <2>3. val[N - m] = 2 * a + b
    BY <2>1, <2>2 DEF Doubling
  <2>4. two_to_the[m + 1] = 2 * t
    BY <2>2, Powers
  <2>5. PICK s \in Int : s = sum[m] /\ val[N] = (2 * a + b) * t + s
    BY <1>2, <2>1, <2>2, <2>3
  <2>6. sum[m + 1] = s + t * b
    BY <2>1, <2>2, <2>5 DEF Weighing
  <2>7. (2 * a + b) * t + s = a * (2 * t) + (s + t * b)
    <3>1. CASE b = 0
      BY <3>1
    <3>2. CASE b = 1
      BY <3>2
    <3>. QED
      BY <3>1, <3>2
  <2>8. s + t * b \in Int
    OBVIOUS
  <2>. QED
    BY ONLY <2>2, <2>4, <2>5, <2>6, <2>7, <2>8
<1>3. Nat \subseteq S
  <2> HIDE DEF S
  <2>. QED
    BY <1>1, <1>2, SetInduction
<1>4. Agree(N)
  BY <1>3
<1>5. N - N = 0 /\ val[0] = 0 /\ two_to_the[N] \in Nat
  BY Powers DEF Doubling
<1>. QED
  BY <1>4, <1>5

LEMMA PlacesWeighed ==
  ASSUME NEW N \in Nat, NEW bits \in [0 .. N - 1 -> 0 .. 1]
  PROVE  \E sum : sum = [n \in 0 .. N |-> IF n = 0 THEN 0 ELSE sum[n - 1] + two_to_the[n - 1] * bits[n - 1]]
<1> DEFINE step == [n \in Nat |-> [m \in Int |-> IF n < N THEN m + two_to_the[n] * bits[n] ELSE m]]
<1>1. step \in [Nat -> [Int -> Int]]
  <2>1. ASSUME NEW n \in Nat, NEW m \in Int
        PROVE  (IF n < N THEN m + two_to_the[n] * bits[n] ELSE m) \in Int
    <3>1. CASE n < N
      <4>1. n \in 0 .. N - 1
        BY <3>1
      <4>2. bits[n] \in 0 .. 1 /\ two_to_the[n] \in Nat
        BY <4>1, Powers
      <4>3. PICK b \in 0 .. 1, t \in Nat : b = bits[n] /\ t = two_to_the[n]
        BY <4>2
      <4>4. m + t * b \in Int
        OBVIOUS
      <4>. QED
        BY <3>1, <4>3, <4>4
    <3>. QED
      BY <3>1
  <2>. QED
    BY <2>1
<1>2. PICK f \in [0 .. N -> Int] : f = [n \in 0 .. N |-> IF n = 0 THEN 0 ELSE step[n - 1][f[n - 1]]]
  <2>1. PICK V, e, s : V = Int /\ e = 0 /\ s = step
    OBVIOUS
  <2> HIDE DEF step
  <2>2. e \in V /\ s \in [Nat -> [V -> V]]
    BY <1>1, <2>1
  <2>3. \E f \in [0 .. N -> V] : RecursUpTo(f, N, e, s)
    BY <2>2, RecursionUpTo
  <2>. QED
    BY <2>1, <2>3 DEF RecursUpTo
<1>3. ASSUME NEW n \in 0 .. N, n # 0
      PROVE  step[n - 1][f[n - 1]] = f[n - 1] + two_to_the[n - 1] * bits[n - 1]
  <2>1. n - 1 \in Nat /\ n - 1 \in 0 .. N /\ n - 1 < N
    BY <1>3
  <2>2. f[n - 1] \in Int
    BY <1>2, <2>1
  <2>. QED
    BY <2>1, <2>2
<1>4. f = [n \in 0 .. N |-> IF n = 0 THEN 0 ELSE f[n - 1] + two_to_the[n - 1] * bits[n - 1]]
  BY <1>2, <1>3
<1>. QED
  BY <1>4

LEMMA PlacesSummed ==
  ASSUME NEW N \in Nat, NEW v, NEW id, NEW bits \in [0 .. N - 1 -> 0 .. 1],
         \A p \in 0 .. N - 1 : get_value(Member(v, <<id, p>>)) = bits[p]
  PROVE  \E sum : Weighing(sum, N, bits) /\ NumberOfPlaces(v, id, N) = sum[N]
<1> DEFINE Sums(g) == g = [n \in 0 .. N |-> IF n = 0 THEN 0
                            ELSE g[n - 1] + two_to_the[n - 1] * get_value(Member(v, <<id, n - 1>>))]
<1>1. PICK f : f = [n \in 0 .. N |-> IF n = 0 THEN 0 ELSE f[n - 1] + two_to_the[n - 1] * bits[n - 1]]
  BY PlacesWeighed
<1>2. \A n \in 0 .. N : n # 0 => get_value(Member(v, <<id, n - 1>>)) = bits[n - 1]
  <2>1. \A n \in 0 .. N : n # 0 => n - 1 \in 0 .. N - 1
    OBVIOUS
  <2>. QED
    BY <2>1
<1>3. Sums(f)
  BY <1>1, <1>2
<1>4. NumberOfPlaces(v, id, N) = (CHOOSE g : Sums(g))[N]
  BY DEF NumberOfPlaces
<1>5. Sums(CHOOSE g : Sums(g))
  <2> HIDE DEF Sums
  <2>. QED
    BY <1>3
<1>6. PICK sum : NumberOfPlaces(v, id, N) = sum[N] /\ Sums(sum)
  BY <1>4, <1>5
<1>7. Weighing(sum, N, bits)
  <2>1. 0 \in 0 .. N /\ \A n \in 1 .. N : n \in 0 .. N /\ n # 0
    OBVIOUS
  <2>2. \A n \in 0 .. N : sum[n] = IF n = 0 THEN 0
                            ELSE sum[n - 1] + two_to_the[n - 1] * get_value(Member(v, <<id, n - 1>>))
    BY <1>6
  <2>. QED
    BY <1>2, <2>1, <2>2 DEF Weighing
<1>. QED
  BY <1>6, <1>7

\* A member that is found reads as the number its pins make.
MemberPins(v, numbers) == [k \in DOMAIN numbers |-> PinOf(variables[v], numbers[k])]

NumbersFound(v, name, numbers, N) ==
  /\ v \in DOMAIN variables /\ name \in values(variables[v].type)
  /\ numbers = NumbersOf(variables[v].type, name) /\ N \in Nat /\ DOMAIN numbers = 1 .. N

LEMMA MemberRead ==
  ASSUME NEW v, NEW name, NEW numbers, NEW N, NumbersFound(v, name, numbers, N)
  PROVE  \E val : /\ Doubling(val, N, MemberPins(v, numbers))
                  /\ get_value(Member(v, name)) = val[N]
<1>0. /\ v \in DOMAIN variables /\ name \in values(variables[v].type)
      /\ numbers = NumbersOf(variables[v].type, name) /\ N \in Nat /\ DOMAIN numbers = 1 .. N
  BY DEF NumbersFound
<1>1. PICK pins : pins = MemberPins(v, numbers)
  OBVIOUS
<1>2. Len(pins) = N
  BY <1>0, <1>1 DEF MemberPins
<1>3. get_value(Member(v, name)) = pinvec_to_uint(pins)
  <2>1. PICK operand : operand = Member(v, name)
    OBVIOUS
  <2>2. operand.kind = "member" /\ operand.variable = v /\ operand.member = name
    BY <2>1 DEF Member
  <2>3. Found(operand) /\ operand.kind # "number"
    BY <1>0, <2>2 DEF Found
  <2>4. get_value(operand) = pinvec_to_uint([k \in DOMAIN numbers |-> PinOf(variables[v], numbers[k])])
    BY <1>0, <2>2, <2>3 DEF get_value
  <2>. QED
    BY <1>1, <2>1, <2>4 DEF MemberPins
<1>4. PICK val : Doubling(val, N, pins) /\ pinvec_to_uint(pins) = val[N]
  BY <1>0, <1>2, PinsRead
<1>. QED
  BY <1>1, <1>3, <1>4

LEMMA ReadsItsPlaces ==
  ASSUME NEW v \in DOMAIN variables, variables[v].type \in DOMAIN Chips,
         NEW d \in Range(Chips[variables[v].type].inputs) \cup Range(Chips[variables[v].type].outputs),
         d[2] > 0
  PROVE  get_value(Member(v, <<d[1]>>)) = NumberOfPlaces(v, d[1], d[2])
<1>1. PICK chip, id, width : chip = variables[v].type /\ id = d[1] /\ width = d[2]
  OBVIOUS
<1>2. width \in Nat /\ <<id>> \in values(chip)
  BY <1>1, BusNumbered
<1>3. PICK first \in Nat :
        /\ NumbersOf(chip, <<id>>) = [k \in 1 .. width |-> first + k - 1]
        /\ \A p \in 0 .. width - 1 : /\ <<id, p>> \in values(chip)
                                     /\ NumbersOf(chip, <<id, p>>) = <<first + width - p - 1>>
  <2>1. PICK f \in Nat : BusPins(chip, d, f)
    BY <1>1, BusNumbered
  <2>. QED
    BY <1>1, <2>1 DEF BusPins
<1>4. PICK numbers : numbers = [k \in 1 .. width |-> first + k - 1] /\ numbers = NumbersOf(chip, <<id>>)
  BY <1>3
<1>5. PICK pins, val : /\ pins = MemberPins(v, numbers) /\ DOMAIN numbers = 1 .. width
                       /\ Doubling(val, width, pins)
                       /\ get_value(Member(v, <<id>>)) = val[width]
  <2>1. DOMAIN numbers = 1 .. width
    BY <1>2, <1>4
  <2>2. PICK name : name = <<id>>
    OBVIOUS
  <2>3. NumbersFound(v, name, numbers, width)
    BY <1>1, <1>2, <1>4, <2>1, <2>2 DEF NumbersFound
  <2>4. \E r : Doubling(r, width, MemberPins(v, numbers)) /\ get_value(Member(v, name)) = r[width]
    BY ONLY <2>3, MemberRead
  <2>. QED
    BY <2>1, <2>2, <2>4
<1>6. PICK bits : bits = [p \in 0 .. width - 1 |-> Bit(pins[width - p])]
  OBVIOUS
<1>7. bits \in [0 .. width - 1 -> 0 .. 1] /\ \A p \in 0 .. width - 1 : bits[p] = Bit(pins[width - p])
  BY <1>6 DEF Bit
<1>8. ASSUME NEW p \in 0 .. width - 1
      PROVE  get_value(Member(v, <<id, p>>)) = bits[p]
  <2>1. PICK name, m, single : name = <<id, p>> /\ m = first + width - p - 1 /\ single = <<m>>
    OBVIOUS
  <2>2. name \in values(chip) /\ single = NumbersOf(chip, name)
    BY <1>3, <2>1
  <2>3. DOMAIN single = 1 .. 1 /\ single[1] = m
    BY <2>1
  <2>4. PICK one, read : /\ one = MemberPins(v, single)
                         /\ Doubling(read, 1, one)
                         /\ get_value(Member(v, name)) = read[1]
    <3>1. NumbersFound(v, name, single, 1)
      BY <1>1, <2>2, <2>3 DEF NumbersFound
    <3>2. \E r : Doubling(r, 1, MemberPins(v, single)) /\ get_value(Member(v, name)) = r[1]
      BY ONLY <3>1, MemberRead
    <3>. QED
      BY <3>2
  <2>5. one[1] = PinOf(variables[v], m)
    BY <2>3, <2>4 DEF MemberPins
  <2>6. read[1] = 2 * read[0] + Bit(one[1]) /\ read[0] = 0
    BY <2>4 DEF Doubling
  <2>7. read[1] = Bit(one[1])
    BY <2>6 DEF Bit
  <2>8. width - p \in 1 .. width /\ numbers[width - p] = first + (width - p) - 1
    BY <1>2, <1>4
  <2>9. first + (width - p) - 1 = m
    BY <1>2, <2>1
  <2>10. pins[width - p] = PinOf(variables[v], m)
    BY <1>5, <2>8, <2>9 DEF MemberPins
  <2>. QED
    BY <1>7, <2>1, <2>4, <2>5, <2>7, <2>10
<1>9. PICK sum : Weighing(sum, width, bits) /\ NumberOfPlaces(v, id, width) = sum[width]
  BY <1>2, <1>7, <1>8, PlacesSummed
<1>10. val[width] = sum[width]
  BY <1>2, <1>5, <1>7, <1>9, BothOrders
<1>. QED
  BY <1>1, <1>5, <1>9, <1>10

-----------------------------------------------------------------------------
(* The variables are chips that are loaded. *)

LEMMA ChipSized ==
  ASSUME NEW chip \in DOMAIN Chips
  PROVE  /\ Len(InputNames[chip]) \in Nat /\ DOMAIN InputNames[chip] = 1 .. Len(InputNames[chip])
         /\ Len(OutputNames[chip]) \in Nat /\ DOMAIN OutputNames[chip] = 1 .. Len(OutputNames[chip])
<1>1. /\ InputNames[chip] = AllNames(Chips[chip].inputs)
      /\ OutputNames[chip] = AllNames(Chips[chip].outputs)
  BY DEF InputNames, OutputNames
<1>2. ASSUME NEW declared, Declarations(declared)
      PROVE  Len(AllNames(declared)) \in Nat /\ DOMAIN AllNames(declared) = 1 .. Len(AllNames(declared))
  <2>1. PICK S : AllNames(declared) \in Seq(S)
    BY <1>2, NamesDeclared
  <2>. QED
    BY <2>1
<1>3. Declarations(Chips[chip].inputs) /\ Declarations(Chips[chip].outputs)
  BY ChipDeclares
<1>. QED
  BY <1>1, <1>2, <1>3

\* The numbers of any member are a sequence.
LEMMA NumbersCounted ==
  ASSUME NEW chip \in DOMAIN Chips, NEW name
  PROVE  \E N \in Nat : DOMAIN NumbersOf(chip, name) = 1 .. N /\ Len(NumbersOf(chip, name)) = N
<1>1. PICK numbers : numbers = NumbersOf(chip, name)
  OBVIOUS
<1>2. CASE get_bus(chip, name) = {}
  <2>1. PICK m : m = CHOOSE q \in get_pin(chip, name) : TRUE
    OBVIOUS
  <2>2. numbers = <<m>>
    BY <1>1, <1>2, <2>1 DEF NumbersOf
  <2>3. DOMAIN numbers = 1 .. 1 /\ Len(numbers) = 1
    BY <2>2
  <2>. QED
    BY <1>1, <2>3
<1>3. CASE get_bus(chip, name) # {}
  <2>1. PICK bus \in get_bus(chip, name) : numbers = [k \in 1 .. bus.size |-> bus.start + k - 1]
    BY <1>1, <1>3 DEF NumbersOf
  <2>2. bus.size \in Nat
    <3>1. /\ Declarations(Chips[chip].inputs) /\ Declarations(Chips[chip].outputs)
          /\ bus \in BusesAt(Chips[chip].inputs, 0, name) \cup BusesAt(Chips[chip].outputs, INPUT_PIN_LIMIT, name)
      BY ChipDeclares
    <3>2. ASSUME NEW declared, Declarations(declared), NEW base, bus \in BusesAt(declared, base, name)
          PROVE  bus.size \in Nat
      BY <3>2 DEF BusesAt, Declarations
    <3>. QED
      BY <3>1, <3>2
  <2>3. DOMAIN numbers = 1 .. bus.size /\ Len(numbers) = bus.size
    BY <2>1, <2>2
  <2>. QED
    BY <1>1, <2>2, <2>3
<1>. QED
  BY <1>2, <1>3

\* Every pin of a member gets a state.
Given(chip, name, n, numbers, states) ==
  /\ numbers = NumbersOf(chip, name)
  /\ states = IF get_bus(chip, name) = {} THEN <<n = 1>> ELSE set_pinvec(n, Len(numbers))

LEMMA StatesGiven ==
  ASSUME NEW chip \in DOMAIN Chips, NEW name, NEW n, NEW numbers, NEW states,
         Given(chip, name, n, numbers, states)
  PROVE  \A k \in DOMAIN numbers : states[k] \in BOOLEAN
<1>0. /\ numbers = NumbersOf(chip, name)
      /\ states = IF get_bus(chip, name) = {} THEN <<n = 1>> ELSE set_pinvec(n, Len(numbers))
  BY DEF Given
<1>1. CASE get_bus(chip, name) = {}
  <2>1. PICK m : m = CHOOSE q \in get_pin(chip, name) : TRUE
    OBVIOUS
  <2>2. numbers = <<m>>
    BY <1>0, <1>1, <2>1 DEF NumbersOf
  <2>3. PICK b \in BOOLEAN : b = (n = 1)
    OBVIOUS
  <2>4. states = <<b>>
    BY <1>0, <1>1, <2>3
  <2>5. states[1] = b /\ DOMAIN numbers = {1}
    BY <2>2, <2>4
  <2>. QED
    BY <2>5
<1>2. CASE get_bus(chip, name) # {}
  <2>1. PICK N \in Nat : DOMAIN numbers = 1 .. N /\ Len(numbers) = N
    BY <1>0, NumbersCounted
  <2>2. states = [k \in 1 .. N |-> (n \div two_to_the[N - k]) % 2 = 1]
    BY <1>0, <1>2, <2>1 DEF set_pinvec
  <2>. QED
    BY <2>1, <2>2
<1>. QED
  BY <1>1, <1>2

\* The pins of a variable with the states a SET gives them.
PinsSet(old, v, numbers, states) ==
  [old EXCEPT ![v].input_pins = [i \in DOMAIN @ |->
     IF \E k \in DOMAIN numbers : numbers[k] = i - 1
     THEN states[CHOOSE k \in DOMAIN numbers : numbers[k] = i - 1]
     ELSE @[i]]]

Outside(numbers) == \E n \in Range(numbers) : n >= INPUT_PIN_LIMIT

VariablesTyped ==
  /\ chip_images \subseteq Loadable \cap DOMAIN Chips
  /\ DOMAIN variables \subseteq Variables
  /\ \A v \in DOMAIN variables : \E chip \in chip_images : variables[v] \in ChipStates(chip)

LEMMA SetTyped ==
  ASSUME VariablesTyped, NEW target, NEW value, NEW broken, SET_impl(target, value, broken)
  PROVE  VariablesTyped' /\ phase' \in {"test", "undefined"}
<1>1. PICK v, name, n, numbers, states :
        /\ v = target.variable /\ name = target.member /\ n = get_value(value)
        /\ numbers = NumbersOf(variables[v].type, name)
        /\ states = IF get_bus(variables[v].type, name) = {} THEN <<n = 1>> ELSE set_pinvec(n, Len(numbers))
  OBVIOUS
<1>2. v \in DOMAIN variables /\ phase = "test"
  BY <1>1 DEF SET_impl, Found
<1>3. PICK chip \in chip_images : variables[v] \in ChipStates(chip) /\ chip \in DOMAIN Chips
  BY <1>2 DEF VariablesTyped
<1>4. variables[v].type = chip
  BY <1>3 DEF ChipStates
<1>5. \A k \in DOMAIN numbers : states[k] \in BOOLEAN
  <2>1. Given(chip, name, n, numbers, states)
    BY <1>1, <1>4 DEF Given
  <2>. QED
    BY ONLY <1>3, <2>1, StatesGiven
<1>6. \/ phase' = "undefined" /\ variables' = variables
      \/ phase' = phase /\ variables' = PinsSet(variables, v, numbers, states)
  BY <1>1 DEF SET_impl, PinsSet
<1>7. PinsSet(variables, v, numbers, states)[v] \in ChipStates(chip)
  <2>1. PICK pins : pins = [i \in DOMAIN variables[v].input_pins |->
                              IF \E k \in DOMAIN numbers : numbers[k] = i - 1
                              THEN states[CHOOSE k \in DOMAIN numbers : numbers[k] = i - 1]
                              ELSE variables[v].input_pins[i]]
    OBVIOUS
  <2>2. PinsSet(variables, v, numbers, states)[v] = [variables[v] EXCEPT !.input_pins = pins]
    BY <1>2, <2>1 DEF PinsSet
  <2>3. variables[v].input_pins \in Pins(Len(InputNames[chip]))
    BY <1>3 DEF ChipStates
  <2>4. pins \in Pins(Len(InputNames[chip]))
    BY <1>5, <2>1, <2>3 DEF Pins
  <2>. QED
    BY <1>3, <2>2, <2>4 DEF ChipStates
<1>8. /\ DOMAIN PinsSet(variables, v, numbers, states) = DOMAIN variables
      /\ \A w \in DOMAIN variables : w # v => PinsSet(variables, v, numbers, states)[w] = variables[w]
  BY <1>2 DEF PinsSet
<1>9. chip_images' = chip_images
  BY DEF SET_impl
<1>. QED
  BY <1>2, <1>3, <1>6, <1>7, <1>8, <1>9 DEF VariablesTyped

LEMMA VarTyped ==
  ASSUME VariablesTyped, NEW v \in Variables, NEW type, NEW hidden, NEW broken,
         VAR_impl(v, type, hidden, broken)
  PROVE  VariablesTyped'
<1>1. chip_images' = chip_images
  BY DEF VAR_impl
<1>2. CASE type \in chip_images
  <2>1. PICK made : made = [type |-> type, input_pins |-> [k \in DOMAIN InputNames[type] |-> FALSE],
                            output_pins |-> [k \in DOMAIN OutputNames[type] |-> FALSE], hidden |-> hidden]
    OBVIOUS
  <2>2. variables' = [w \in DOMAIN variables \cup {v} |-> IF w # v THEN variables[w] ELSE made]
    BY <1>2, <2>1 DEF VAR_impl
  <2>3. made \in ChipStates(type)
    <3>1. type \in Loadable \cap DOMAIN Chips
      BY <1>2 DEF VariablesTyped
    <3>2. hidden \in Hidden
      BY <1>2, <3>1, EvalAssumption DEF VAR_impl
    <3>. QED
      BY <2>1, <3>1, <3>2, ChipSized DEF ChipStates, Pins
  <2>. QED
    BY <1>1, <1>2, <2>2, <2>3 DEF VariablesTyped
<1>3. CASE type \notin chip_images
  BY <1>1, <1>3 DEF VAR_impl, VariablesTyped
<1>. QED
  BY <1>2, <1>3

LEMMA EvalTyped ==
  ASSUME VariablesTyped, NEW broken, EVAL_impl(broken)
  PROVE  VariablesTyped'
<1>1. chip_images' = chip_images
  BY DEF EVAL_impl
<1>2. DOMAIN variables' = DOMAIN variables
  BY DEF EVAL_impl
<1>3. ASSUME NEW v \in DOMAIN variables
      PROVE  \E chip \in chip_images : variables'[v] \in ChipStates(chip)
  <2>1. PICK chip \in chip_images : variables[v] \in ChipStates(chip) /\ chip \in Loadable \cap DOMAIN Chips
    BY DEF VariablesTyped
  <2>2. variables[v].type = chip
    BY <2>1 DEF ChipStates
  <2>3. variables[v] \in DOMAIN Eval[chip] /\ variables'[v] = Eval[chip][variables[v]]
    BY <2>2 DEF EVAL_impl, Returns
  <2>4. variables'[v] \in ChipStates(chip)
    BY <2>1, <2>3, EvalAssumption
  <2>. QED
    BY <2>1, <2>4
<1>. QED
  BY <1>1, <1>2, <1>3 DEF VariablesTyped

LEMMA StatementTyped ==
  ASSUME TypeOK, Statement
  PROVE  TypeOK'
<1>1. VariablesTyped
  BY DEF TypeOK, VariablesTyped
<1>2. CASE \E v \in Variables, chip \in Types, hidden \in Hidden, broken \in BOOLEAN :
             VAR_impl(v, chip, hidden, broken)
  <2>1. PICK v \in Variables, chip \in Types, hidden \in Hidden, broken \in BOOLEAN :
          VAR_impl(v, chip, hidden, broken)
    BY <1>2
  <2>2. VariablesTyped'
    BY <1>1, <2>1, VarTyped
  <2>. QED
    BY <2>1, <2>2 DEF VAR_impl, TypeOK, VariablesTyped
<1>3. CASE \E broken \in BOOLEAN : EVAL_impl(broken)
  <2>1. PICK broken \in BOOLEAN : EVAL_impl(broken)
    BY <1>3
  <2>2. VariablesTyped'
    BY <1>1, <2>1, EvalTyped
  <2>. QED
    BY <2>1, <2>2 DEF EVAL_impl, TypeOK, VariablesTyped
<1>4. CASE \E s \in Sets : Set(s)
  <2>1. PICK s \in Sets : Set(s)
    BY <1>4
  <2>2. CASE SET_impl(s.target, s.value, s.broken)
    <3>1. VariablesTyped' /\ phase' \in {"test", "undefined"}
      BY <1>1, <2>2, SetTyped
    <3>2. test_failed' = test_failed /\ verdict' = verdict /\ has_error' \in BOOLEAN
      BY <2>2 DEF SET_impl
    <3>. QED
      BY <3>1, <3>2 DEF TypeOK, VariablesTyped
  <2>3. CASE SET_refused(s.target, s.value) \/ SET_aborts(s.target, s.value) \/ SET_overflow(s.target, s.value)
    BY <2>3 DEF SET_refused, SET_aborts, SET_overflow, TypeOK
  <2>. QED
    BY <2>1, <2>2, <2>3 DEF Set
<1>5. CASE \E c \in Conditions, broken \in BOOLEAN : Require(c, broken)
  <2>1. PICK c \in Conditions, broken \in BOOLEAN : Require(c, broken)
    BY <1>5
  <2>2. CASE REQUIRE_impl(c, broken)
    <3>1. test_failed' \in BOOLEAN /\ has_error' \in BOOLEAN
      BY <2>2 DEF REQUIRE_impl, TypeOK
    <3>2. UNCHANGED <<phase, chip_images, variables, verdict>>
      BY <2>2 DEF REQUIRE_impl
    <3>. QED
      BY <3>1, <3>2 DEF TypeOK
  <2>3. CASE REQUIRE_aborts(c, broken)
    BY <2>3 DEF REQUIRE_aborts, TypeOK
  <2>. QED
    BY <2>1, <2>2, <2>3 DEF Require
<1>6. CASE EVAL_loops
  BY <1>6 DEF EVAL_loops, TypeOK
<1>. QED
  BY <1>2, <1>3, <1>4, <1>5, <1>6 DEF Statement

\* Every variable of a test is a chip that is loaded, with a state for each of its pins
\* (Tester::VAR_statement, SET_impl, EVAL_impl).
THEOREM AlwaysTyped == FileSpec => []TypeOK
<1>0. ASSUME NEW none, none = <<>>
      PROVE  DOMAIN none = {}
  BY <1>0
<1>1. FileInit => TypeOK
  <2> SUFFICES ASSUME FileInit
               PROVE  TypeOK
    OBVIOUS
  <2>1. DOMAIN variables = {}
    BY <1>0 DEF FileInit, Init
  <2>. QED
    BY <2>1 DEF FileInit, Init, TypeOK
<1>2. TypeOK /\ [FileNext]_file_vars => TypeOK'
  <2> SUFFICES ASSUME TypeOK, [FileNext]_file_vars
               PROVE  TypeOK'
    OBVIOUS
  <2>1. ASSUME NEW chip \in Types, NEW broken \in BOOLEAN, Load(chip, broken)
        PROVE  TypeOK'
    BY <2>1 DEF Load, LOAD_impl, TypeOK
  <2>2. ASSUME NEW broken \in BOOLEAN, Test(broken)
        PROVE  TypeOK'
    <3>1. DOMAIN variables' = {}
      BY <1>0, <2>2 DEF Test, TEST_impl
    <3>2. /\ phase' = "test" /\ test_failed' = FALSE /\ has_error' \in BOOLEAN
          /\ chip_images' = chip_images /\ verdict' = verdict
      BY <2>2 DEF Test, TEST_impl
    <3>. QED
      BY <3>1, <3>2 DEF TypeOK
  <2>3. CASE Statement
    BY <2>3, StatementTyped
  <2>4. CASE End
    BY <2>4 DEF End, TEST_end, TEST_unterminated, Loops, parse_end, Verdict, TypeOK
  <2>5. CASE UNCHANGED file_vars
    BY <2>5 DEF file_vars, vars, TypeOK
  <2>. QED
    BY <2>1, <2>2, <2>3, <2>4, <2>5 DEF FileNext
<1>. QED
  BY <1>1, <1>2, PTL DEF FileSpec

\* A bus reads as the number its places make, each read by its own name
\* (Meta::add_input_bus, Tester::get_value, pinvec_to_uint).
THEOREM AlwaysReadsPlaces == FileSpec => []BusReadsItsPlaces
<1>1. TypeOK => BusReadsItsPlaces
  <2> SUFFICES ASSUME TypeOK, NEW v \in DOMAIN variables,
                      NEW d \in Range(Chips[variables[v].type].inputs) \cup Range(Chips[variables[v].type].outputs),
                      d[2] > 0
               PROVE  get_value(Member(v, <<d[1]>>)) = NumberOfPlaces(v, d[1], d[2])
    BY DEF BusReadsItsPlaces
  <2>1. variables[v].type \in DOMAIN Chips
    BY DEF TypeOK, ChipStates
  <2>. QED
    BY <2>1, ReadsItsPlaces
<1>. QED
  BY <1>1, AlwaysTyped, PTL

-----------------------------------------------------------------------------
(* Two interpreters. *)

LEMMA SameOperators ==
  /\ Alone!two_to_the = two_to_the
  /\ Alone!InputNames = InputNames /\ Alone!OutputNames = OutputNames
  /\ \A chip, name : Alone!get_pin(chip, name) = get_pin(chip, name)
  /\ \A chip, name : Alone!get_bus(chip, name) = get_bus(chip, name)
  /\ \A chip : Alone!values(chip) = values(chip)
  /\ \A pins : Alone!pinvec_to_uint(pins) = pinvec_to_uint(pins)
  /\ \A value, size : Alone!set_pinvec(value, size) = set_pinvec(value, size)
<1>1. Alone!two_to_the = two_to_the
  BY DEF two_to_the, Alone!two_to_the
<1>2. \A declared : Alone!NamesUpTo(declared) = NamesUpTo(declared)
  BY DEF Alone!NamesUpTo, NamesUpTo, Alone!PinNames, PinNames
<1>3. Alone!InputNames = InputNames /\ Alone!OutputNames = OutputNames
  BY <1>2 DEF Alone!InputNames, InputNames, Alone!OutputNames, OutputNames, Alone!AllNames, AllNames
<1>4. \A chip, name : Alone!get_pin(chip, name) = get_pin(chip, name)
  BY <1>3 DEF Alone!get_pin, get_pin
<1>5. \A chip, name : Alone!get_bus(chip, name) = get_bus(chip, name)
  BY <1>2 DEF Alone!get_bus, get_bus
<1>6. \A chip : Alone!values(chip) = values(chip)
  BY <1>3 DEF Alone!values, values, Alone!Range, Range
<1>7. \A pins : Alone!pinvec_to_uint(pins) = pinvec_to_uint(pins)
  BY DEF Alone!pinvec_to_uint, pinvec_to_uint
<1>8. \A value, size : Alone!set_pinvec(value, size) = set_pinvec(value, size)
  BY <1>1 DEF Alone!set_pinvec, set_pinvec
<1>. QED
  BY <1>1, <1>3, <1>4, <1>5, <1>6, <1>7, <1>8

LEMMA SameReading ==
  ASSUME alone_variables = variables
  PROVE  /\ \A operand : Alone!Found(operand) = Found(operand)
         /\ \A operand : Alone!get_value(operand) = get_value(operand)
         /\ \A chip, name : Alone!NumbersOf(chip, name) = NumbersOf(chip, name)
         /\ \A target, value : Alone!Overflows(target, value) = Overflows(target, value)
         /\ \A conditions : /\ Alone!Failing(conditions) = Failing(conditions)
                            /\ Alone!Looked(conditions) = Looked(conditions)
                            /\ Alone!NotInts(conditions) = NotInts(conditions)
<1>1. \A operand : Alone!Found(operand) = Found(operand)
  BY SameOperators DEF Alone!Found, Found
<1>2. ASSUME NEW chip, NEW name
      PROVE  Alone!NumbersOf(chip, name) = NumbersOf(chip, name)
  <2>1. Alone!get_pin(chip, name) = get_pin(chip, name)
    BY SameOperators
  <2>2. Alone!get_bus(chip, name) = get_bus(chip, name)
    BY SameOperators
  <2>. QED
    BY ONLY <2>1, <2>2 DEF Alone!NumbersOf, NumbersOf
<1>3. \A state, n : Alone!PinOf(state, n) = PinOf(state, n)
  BY DEF Alone!PinOf, PinOf
<1>4. \A operand : Alone!get_value(operand) = get_value(operand)
  BY <1>1, <1>2, <1>3, SameOperators DEF Alone!get_value, get_value
<1>5. \A cond : Alone!Holds(cond) = Holds(cond)
  BY <1>4 DEF Alone!Holds, Holds
<1>6. \A target, value : Alone!Overflows(target, value) = Overflows(target, value)
  BY <1>4, SameOperators DEF Alone!Overflows, Overflows
<1>7. ASSUME NEW conditions
      PROVE  /\ Alone!Failing(conditions) = Failing(conditions)
             /\ Alone!Looked(conditions) = Looked(conditions)
             /\ Alone!NotInts(conditions) = NotInts(conditions)
  <2>1. Alone!Failing(conditions) = Failing(conditions)
    BY <1>5 DEF Alone!Failing, Failing
  <2>2. Alone!Looked(conditions) = Looked(conditions)
    BY <2>1 DEF Alone!Looked, Looked
  <2>3. Alone!NotInts(conditions) = NotInts(conditions)
    BY <2>2 DEF Alone!NotInts, NotInts, Alone!NoInt, NoInt
  <2>. QED
    BY <2>1, <2>2, <2>3
<1>. QED
  BY <1>1, <1>2, <1>4, <1>6, <1>7

\* In a test the two have the same variables and flags, unless an error came before.
Following ==
  phase = "test" =>
    /\ erred => has_error
    /\ ~erred => /\ alone_phase = "test" /\ alone_variables = variables
                 /\ alone_failed = test_failed /\ alone_error = has_error

Lockstep ==
  /\ has_error \in BOOLEAN
  /\ Following
  /\ VerdictsAlone

LEMMA LockstepInit == FileInit => Lockstep
BY DEF FileInit, Init, Lockstep, Following, VerdictsAlone

LEMMA LoadKeeps ==
  ASSUME Lockstep, NEW chip, NEW broken, Load(chip, broken)
  PROVE  Lockstep'
BY DEF Load, LOAD_impl, Lockstep, Following, VerdictsAlone, alone_vars

LEMMA TestKeeps ==
  ASSUME Lockstep, NEW broken \in BOOLEAN, Test(broken)
  PROVE  Lockstep'
BY DEF Test, TEST_impl, Lockstep, Following, VerdictsAlone

\* What a statement leaves where no error came before.
Together ==
  /\ phase' = "test" => alone_phase' = "test" /\ alone_variables' = variables'
  /\ alone_failed' = test_failed' /\ alone_error' = has_error'

LEMMA VarTogether ==
  ASSUME Lockstep, phase = "test", ~erred, NEW v, NEW chip, NEW hidden, NEW broken \in BOOLEAN,
         VAR_impl(v, chip, hidden, broken), Alone!VAR_impl(v, chip, hidden, broken)
  PROVE  Together
<1>0. alone_variables = variables
  BY DEF Lockstep, Following
<1>1. alone_variables' = variables'
  <2>1. CASE chip \in chip_images
    <3>1. PICK inputs, outputs : inputs = InputNames[chip] /\ outputs = OutputNames[chip]
      OBVIOUS
    <3> DEFINE made == [type |-> chip, input_pins |-> [k \in DOMAIN inputs |-> FALSE],
                        output_pins |-> [k \in DOMAIN outputs |-> FALSE], hidden |-> hidden]
               with(old) == [w \in DOMAIN old \cup {v} |-> IF w # v THEN old[w] ELSE made]
    <3>2. variables' = with(variables)
      BY <2>1, <3>1 DEF VAR_impl
    <3>3. alone_variables' = with(alone_variables)
      BY <2>1, <3>1, SameOperators DEF Alone!VAR_impl
    <3>. QED
      BY <1>0, <3>2, <3>3
  <2>2. CASE chip \notin chip_images
    BY <1>0, <2>2 DEF VAR_impl, Alone!VAR_impl
  <2>. QED
    BY <2>1, <2>2
<1>2. /\ phase' = "test" /\ alone_phase' = "test"
      /\ has_error' = (has_error \/ broken \/ chip \notin chip_images)
      /\ alone_error' = (alone_error \/ broken \/ chip \notin chip_images)
      /\ test_failed' = test_failed /\ alone_failed' = alone_failed
  BY DEF VAR_impl, Alone!VAR_impl, Lockstep, Following
<1>. QED
  BY <1>1, <1>2 DEF Lockstep, Following, Together

LEMMA EvalTogether ==
  ASSUME Lockstep, phase = "test", ~erred, NEW broken \in BOOLEAN,
         EVAL_impl(broken), Alone!EVAL_impl(broken)
  PROVE  Together
<1>1. alone_variables' = variables'
  BY DEF EVAL_impl, Alone!EVAL_impl, Lockstep, Following
<1>2. /\ phase' = "test" /\ alone_phase' = "test"
      /\ has_error' = (has_error \/ broken) /\ alone_error' = (alone_error \/ broken)
      /\ test_failed' = test_failed /\ alone_failed' = alone_failed
  BY DEF EVAL_impl, Alone!EVAL_impl, Lockstep, Following
<1>. QED
  BY <1>1, <1>2 DEF Lockstep, Following, Together

LEMMA LoopsTogether ==
  ASSUME Lockstep, phase = "test", ~erred, EVAL_loops, Alone!EVAL_loops
  PROVE  Together
BY DEF EVAL_loops, Alone!EVAL_loops, Lockstep, Following, Together

LEMMA SetTogether ==
  ASSUME Lockstep, phase = "test", ~erred, NEW s, s.broken \in BOOLEAN, Set(s), AloneSet(s)
  PROVE  Together
<1>1. alone_variables = variables /\ alone_phase = "test"
  BY DEF Lockstep, Following
<1> DEFINE t == s.target
           x == s.value
<1>2. /\ Alone!Found(t) = Found(t) /\ Alone!Found(x) = Found(x)
      /\ Alone!Overflows(t, x) = Overflows(t, x) /\ Alone!get_value(x) = get_value(x)
      /\ \A chip, name : Alone!NumbersOf(chip, name) = NumbersOf(chip, name)
  BY <1>1, SameReading
<1>2a. Alone!NoInt(x) = NoInt(x)
  BY DEF Alone!NoInt, NoInt
<1>3. CASE SET_refused(t, x)
  <2>1. Alone!SET_refused(t, x)
    BY <1>2, <1>2a, <1>3 DEF AloneSet, SET_refused, Alone!SET_aborts, Alone!SET_overflow, Alone!SET_impl
  <2>. QED
    BY <1>1, <1>3, <2>1 DEF SET_refused, Alone!SET_refused, Lockstep, Following, Together
<1>4. CASE SET_aborts(t, x)
  <2>1. Alone!SET_aborts(t, x)
    BY <1>2, <1>2a, <1>4 DEF AloneSet, SET_aborts, Alone!SET_refused, Alone!SET_overflow, Alone!SET_impl
  <2>. QED
    BY <1>1, <1>4, <2>1 DEF SET_aborts, Alone!SET_aborts, Lockstep, Following, Together
<1>5. CASE SET_overflow(t, x)
  <2>1. Alone!SET_overflow(t, x)
    BY <1>2, <1>2a, <1>5 DEF AloneSet, SET_overflow, Alone!SET_aborts, Alone!SET_refused, Alone!SET_impl
  <2>. QED
    BY <1>1, <1>5, <2>1 DEF SET_overflow, Alone!SET_overflow, Lockstep, Following, Together
<1>6. CASE SET_impl(t, x, s.broken)
  <2>1. Alone!SET_impl(t, x, s.broken)
    BY <1>2, <1>2a, <1>6 DEF AloneSet, SET_impl, Alone!SET_aborts, Alone!SET_refused, Alone!SET_overflow
  <2>2. /\ has_error' = (has_error \/ s.broken \/ ~Found(x))
        /\ alone_error' = (alone_error \/ s.broken \/ ~Found(x))
        /\ test_failed' = test_failed /\ alone_failed' = alone_failed
    BY <1>2, <1>6, <2>1 DEF SET_impl, Alone!SET_impl
  <2> DEFINE numbers == NumbersOf(variables[t.variable].type, t.member)
             single == get_bus(variables[t.variable].type, t.member) = {}
             states == IF single THEN <<get_value(x) = 1>>
                       ELSE set_pinvec(get_value(x), Len(numbers))
             AloneNumbers == Alone!NumbersOf(alone_variables[t.variable].type, t.member)
             AloneSingle == Alone!get_bus(alone_variables[t.variable].type, t.member) = {}
             AloneStates == IF AloneSingle THEN <<Alone!get_value(x) = 1>>
                            ELSE Alone!set_pinvec(Alone!get_value(x), Len(AloneNumbers))
  <2>3. /\ Outside(numbers) => phase' = "undefined" /\ variables' = variables
        /\ ~Outside(numbers) => phase' = phase /\ variables' = PinsSet(variables, t.variable, numbers, states)
    BY ONLY <1>6 DEF SET_impl, Outside, PinsSet, Range
  <2>4. /\ Outside(AloneNumbers) => alone_phase' = "undefined" /\ alone_variables' = alone_variables
        /\ ~Outside(AloneNumbers) =>
             alone_phase' = alone_phase /\ alone_variables' = PinsSet(alone_variables, t.variable, AloneNumbers, AloneStates)
    BY ONLY <2>1 DEF Alone!SET_impl, Outside, PinsSet, Alone!Range, Range
  <2>5. AloneNumbers = numbers
    BY <1>1, <1>2
  <2>6. AloneSingle = single
    BY <1>1, SameOperators
  <2>7. AloneStates = states
    <3>1. \A value, size : Alone!set_pinvec(value, size) = set_pinvec(value, size)
      BY SameOperators
    <3> HIDE DEF AloneNumbers, AloneSingle, numbers, single
    <3>. QED
      BY <1>2, <2>5, <2>6, <3>1
  <2> HIDE DEF numbers, AloneNumbers, states, AloneStates
  <2>9. alone_variables' = variables' /\ alone_phase' = phase' /\ phase' \in {"test", "undefined"}
    BY <1>1, <2>3, <2>4, <2>5, <2>7
  <2>. QED
    BY <2>2, <2>9 DEF Lockstep, Following, Together
<1>. QED
  BY <1>3, <1>4, <1>5, <1>6 DEF Set

LEMMA RequireTogether ==
  ASSUME Lockstep, phase = "test", ~erred, NEW c, NEW broken \in BOOLEAN,
         Require(c, broken), AloneRequire(c, broken)
  PROVE  Together
<1>1. /\ alone_variables = variables /\ alone_phase = "test"
      /\ alone_failed = test_failed /\ alone_error = has_error
  BY DEF Lockstep, Following
<1>2. /\ Alone!Failing(c) = Failing(c) /\ Alone!Looked(c) = Looked(c)
      /\ Alone!NotInts(c) = NotInts(c)
      /\ \A operand : Alone!Found(operand) = Found(operand)
  BY <1>1, SameReading
<1>3. CASE REQUIRE_aborts(c, broken)
  <2>1. Alone!REQUIRE_aborts(c, broken)
    BY <1>1, <1>2, <1>3 DEF REQUIRE_aborts, AloneRequire, Alone!REQUIRE_impl
  <2>. QED
    BY <1>1, <1>3, <2>1 DEF REQUIRE_aborts, Alone!REQUIRE_aborts, Together
<1>4. CASE REQUIRE_impl(c, broken)
  <2>1. Alone!REQUIRE_impl(c, broken)
    BY <1>1, <1>2, <1>4 DEF REQUIRE_impl, AloneRequire, Alone!REQUIRE_aborts
  <2>2. (\E k \in Alone!Looked(c) : ~Alone!Found(c[k].a) \/ ~Alone!Found(c[k].b))
          = (\E k \in Looked(c) : ~Found(c[k].a) \/ ~Found(c[k].b))
    BY <1>2
  <2>3. UNCHANGED <<phase, variables>> /\ UNCHANGED <<alone_phase, alone_variables>>
    BY <1>4, <2>1 DEF REQUIRE_impl, Alone!REQUIRE_impl
  <2>4. alone_failed' = test_failed' /\ alone_error' = has_error'
    <3>1. CASE has_error \/ broken
      BY <1>1, <1>4, <2>1, <3>1 DEF REQUIRE_impl, Alone!REQUIRE_impl
    <3>2. CASE ~(has_error \/ broken)
      <4>1. /\ test_failed' = (test_failed \/ Failing(c) # {})
            /\ has_error' = \E k \in Looked(c) : ~Found(c[k].a) \/ ~Found(c[k].b)
        BY ONLY <1>4, <3>2 DEF REQUIRE_impl
      <4>2. /\ alone_failed' = (alone_failed \/ Alone!Failing(c) # {})
            /\ alone_error' = \E k \in Alone!Looked(c) : ~Alone!Found(c[k].a) \/ ~Alone!Found(c[k].b)
        BY ONLY <1>1, <2>1, <3>2 DEF Alone!REQUIRE_impl
      <4>. QED
        BY ONLY <1>1, <1>2, <2>2, <4>1, <4>2
    <3>. QED
      BY <3>1, <3>2
  <2>. QED
    BY <1>1, <2>3, <2>4 DEF Together
<1>. QED
  BY <1>3, <1>4 DEF Require

LEMMA StatementKeeps ==
  ASSUME Lockstep, Statement, \A s \in Sets : s.broken \in BOOLEAN
  PROVE  Lockstep'
<1>1. phase = "test"
  BY DEF Statement, VAR_impl, EVAL_impl, EVAL_loops, Require, REQUIRE_impl, REQUIRE_aborts,
         Set, SET_refused, SET_aborts, SET_overflow, SET_impl
<1>2. erred' = erred
  BY DEF Statement
<1>3. /\ phase' \notin {"file", "done"} /\ has_error' \in BOOLEAN
      /\ has_error => has_error'
  <2>1. ASSUME NEW c, NEW broken \in BOOLEAN, REQUIRE_impl(c, broken)
        PROVE  /\ phase' \notin {"file", "done"} /\ has_error' \in BOOLEAN
               /\ has_error => has_error'
    BY <1>1, <2>1 DEF REQUIRE_impl, Lockstep
  <2>2. ASSUME NEW s \in Sets, Set(s)
        PROVE  /\ phase' \notin {"file", "done"} /\ has_error' \in BOOLEAN
               /\ has_error => has_error'
    <3>1. CASE SET_refused(s.target, s.value) \/ SET_aborts(s.target, s.value) \/ SET_overflow(s.target, s.value)
      BY <1>1, <3>1 DEF SET_refused, SET_aborts, SET_overflow, Lockstep
    <3>2. CASE SET_impl(s.target, s.value, s.broken)
      <4>1. has_error' = (has_error \/ s.broken \/ ~Found(s.value))
        BY <3>2 DEF SET_impl
      <4>2. phase' = "undefined" \/ phase' = phase
        BY <3>2 DEF SET_impl
      <4>. QED
        BY <1>1, <4>1, <4>2 DEF Lockstep
    <3>. QED
      BY <2>2, <3>1, <3>2 DEF Set
  <2>3. ASSUME NEW v, NEW chip, NEW hidden, NEW broken \in BOOLEAN, VAR_impl(v, chip, hidden, broken)
        PROVE  /\ phase' \notin {"file", "done"} /\ has_error' \in BOOLEAN
               /\ has_error => has_error'
    BY <1>1, <2>3 DEF VAR_impl, Lockstep
  <2>4. ASSUME NEW broken \in BOOLEAN, EVAL_impl(broken)
        PROVE  /\ phase' \notin {"file", "done"} /\ has_error' \in BOOLEAN
               /\ has_error => has_error'
    BY <1>1, <2>4 DEF EVAL_impl, Lockstep
  <2>5. ASSUME NEW c, NEW broken, REQUIRE_aborts(c, broken)
        PROVE  /\ phase' \notin {"file", "done"} /\ has_error' \in BOOLEAN
               /\ has_error => has_error'
    BY <2>5 DEF REQUIRE_aborts, Lockstep
  <2>6. CASE EVAL_loops
    BY <2>6 DEF EVAL_loops, Lockstep
  <2>. QED
    BY <2>1, <2>2, <2>3, <2>4, <2>5, <2>6 DEF Statement, Require
<1>4. CASE erred
  BY <1>1, <1>2, <1>3, <1>4 DEF Lockstep, Following, VerdictsAlone
<1>5. CASE ~erred
  <2>1. ~AloneEnded
    BY <1>1, <1>5 DEF AloneEnded, Lockstep, Following
  <2>2. Together
    BY <1>1, <1>5, <2>1, VarTogether, EvalTogether, LoopsTogether, SetTogether, RequireTogether DEF Statement
  <2>. QED
    BY <1>2, <1>3, <1>5, <2>2 DEF Lockstep, Following, VerdictsAlone, Together
<1>. QED
  BY <1>4, <1>5

LEMMA EndKeeps ==
  ASSUME Lockstep, End
  PROVE  Lockstep'
<1>1. CASE TEST_end /\ (Alone!TEST_end \/ AloneEnded)
  <2>1. Alone!Verdict(alone_failed, alone_error) = Verdict(alone_failed, alone_error)
    BY DEF Verdict, Alone!Verdict
  <2>2. /\ phase = "test" /\ phase' = "file" /\ verdict' = Verdict(test_failed, has_error)
        /\ has_error' = has_error /\ erred' = erred
    BY <1>1 DEF TEST_end, End
  <2>3. CASE erred
    BY <2>2, <2>3 DEF Verdict, Lockstep, Following, VerdictsAlone
  <2>4. CASE ~erred
    <3>1. alone_verdict' = Verdict(test_failed, has_error)
      BY <1>1, <2>1, <2>2, <2>4 DEF Alone!TEST_end, AloneEnded, Lockstep, Following
    <3>. QED
      BY <2>2, <3>1 DEF Lockstep, Following, VerdictsAlone
  <2>. QED
    BY <2>3, <2>4
<1>2. CASE TEST_unterminated /\ (Alone!TEST_unterminated \/ AloneEnded)
  BY <1>2 DEF End, TEST_unterminated, Alone!TEST_unterminated, AloneEnded, Lockstep, Following, VerdictsAlone
<1>3. CASE Loops
  BY <1>3 DEF End, Loops, TEST_end, TEST_unterminated, parse_end, Lockstep, Following, VerdictsAlone
<1>4. CASE parse_end /\ UNCHANGED alone_vars
  BY <1>4 DEF End, parse_end, Lockstep, Following, VerdictsAlone, alone_vars
<1>. QED
  BY <1>1, <1>2, <1>3, <1>4 DEF End

\* The verdict of a test is the one it has in a file of its own, unless an error before it
\* has failed it (Tester::TEST_impl, Tester::TEST_statement).
THEOREM TestsAlone == FileSpec => []VerdictsAlone
<1>1. FileInit => Lockstep
  BY LockstepInit
<1>2. Lockstep /\ [FileNext]_file_vars => Lockstep'
  <2> SUFFICES ASSUME Lockstep, [FileNext]_file_vars
               PROVE  Lockstep'
    OBVIOUS
  <2>1. ASSUME NEW chip \in Types, NEW broken \in BOOLEAN, Load(chip, broken)
        PROVE  Lockstep'
    BY <2>1, LoadKeeps
  <2>2. ASSUME NEW broken \in BOOLEAN, Test(broken)
        PROVE  Lockstep'
    BY <2>2, TestKeeps
  <2>3. CASE Statement
    BY <2>3, StatementKeeps, SetsAssumption
  <2>4. CASE End
    BY <2>4, EndKeeps
  <2>5. CASE UNCHANGED file_vars
    BY <2>5 DEF file_vars, vars, alone_vars, Lockstep, Following, VerdictsAlone
  <2>. QED
    BY <2>1, <2>2, <2>3, <2>4, <2>5 DEF FileNext
<1>3. Lockstep => VerdictsAlone
  BY DEF Lockstep
<1>. QED
  BY <1>1, <1>2, <1>3, PTL DEF FileSpec

-----------------------------------------------------------------------------
(* A bus that is set. *)

LEMMA Halved ==
  ASSUME NEW n \in Nat, NEW t \in Nat \ {0}
  PROVE  n \div t = 2 * (n \div (2 * t)) + ((n \div t) % 2)
<1>1. PICK q \in Int, r \in 0 .. t - 1 : q = n \div t /\ n = q * t + r
  OBVIOUS
<1>2. PICK h \in Int, b \in 0 .. 1 : q = 2 * h + b /\ b = q % 2
  <2>1. q % 2 \in 0 .. 1 /\ q = 2 * (q \div 2) + (q % 2) /\ q \div 2 \in Int
    OBVIOUS
  <2>. QED
    BY <2>1
<1>3. n = h * (2 * t) + (b * t + r)
  <2>1. PICK u \in Int : u = h * t
    OBVIOUS
  <2>2. h * (2 * t) = 2 * u
    BY <2>1
  <2>3. q * t = 2 * u + b * t
    <3>1. CASE b = 0
      <4>1. q = 2 * h /\ b * t = 0
        BY <1>2, <3>1
      <4>2. (2 * h) * t = 2 * (h * t)
        OBVIOUS
      <4>. QED
        BY <2>1, <4>1, <4>2
    <3>2. CASE b = 1
      <4>1. q = 2 * h + 1 /\ b * t = t
        BY <1>2, <3>2
      <4>2. (2 * h + 1) * t = 2 * (h * t) + t
        OBVIOUS
      <4>. QED
        BY <2>1, <4>1, <4>2
    <3>. QED
      BY <3>1, <3>2
  <2>4. PICK w, z \in Int : w = b * t /\ z = q * t
    OBVIOUS
  <2>. QED
    BY <1>1, <2>2, <2>3, <2>4
<1>4. b * t + r \in 0 .. 2 * t - 1
  <2>1. CASE b = 0
    BY <2>1
  <2>2. CASE b = 1
    BY <2>2
  <2>. QED
    BY <2>1, <2>2
<1>5. n \div (2 * t) = h
  <2>1. PICK d, e : d = 2 * t /\ e = b * t + r /\ d \in Nat \ {0} /\ e \in 0 .. d - 1
    BY <1>4
  <2>2. (h * d + e) \div d = h
    BY ONLY <2>1, h \in Int
  <2>. QED
    BY <1>3, <2>1, <2>2
<1>. QED
  BY <1>1, <1>2, <1>5

\* The bits of a number that fits read as the number.
LEMMA BitsRead ==
  ASSUME NEW N \in Nat, NEW n \in Nat, n \div two_to_the[N] = 0,
         NEW pins, \A k \in 1 .. N : pins[k] <=> (n \div two_to_the[N - k]) % 2 = 1,
         NEW val, Doubling(val, N, pins)
  PROVE  val[N] = n
<1> DEFINE S == {k \in Nat : k <= N => val[k] = n \div two_to_the[N - k]}
<1>1. 0 \in S
  BY DEF Doubling
<1>2. ASSUME NEW k \in Nat, k \in S
      PROVE  k + 1 \in S
  <2> SUFFICES ASSUME k + 1 <= N
               PROVE  val[k + 1] = n \div two_to_the[N - (k + 1)]
    OBVIOUS
  <2>1. PICK m \in Nat : m = N - (k + 1) /\ m + 1 = N - k /\ k + 1 \in 1 .. N /\ (k + 1) - 1 = k /\ k <= N
    OBVIOUS
  <2>2. PICK t \in Nat \ {0} : t = two_to_the[m] /\ two_to_the[N - k] = 2 * t
    BY <2>1, Powers
  <2>3. val[k] = n \div (2 * t)
    BY <1>2, <2>1, <2>2
  <2>4. pins[k + 1] <=> (n \div t) % 2 = 1
    BY <2>1, <2>2
  <2>5. (n \div t) % 2 \in 0 .. 1
    OBVIOUS
  <2>6. Bit(pins[k + 1]) = (n \div t) % 2
    <3>1. CASE pins[k + 1]
      BY <2>4, <3>1 DEF Bit
    <3>2. CASE ~pins[k + 1]
      BY <2>4, <2>5, <3>2 DEF Bit
    <3>. QED
      BY <3>1, <3>2
  <2>7. val[k + 1] = 2 * val[k] + Bit(pins[k + 1])
    BY <2>1 DEF Doubling
  <2>8. n \div t = 2 * (n \div (2 * t)) + ((n \div t) % 2)
    BY Halved
  <2>. QED
    BY <2>1, <2>2, <2>3, <2>6, <2>7, <2>8
<1>3. Nat \subseteq S
  <2> HIDE DEF S
  <2>. QED
    BY <1>1, <1>2, SetInduction
<1>4. val[N] = n \div two_to_the[0] /\ two_to_the[0] = 1
  BY <1>3, Powers
<1>5. n \div 1 = n
  OBVIOUS
<1>. QED
  BY <1>4, <1>5

LEMMA NoSign ==
  ASSUME NEW N \in Nat, NEW pins, NEW val, Doubling(val, N, pins)
  PROVE  val[N] \in Nat
<1> DEFINE S == {k \in Nat : k <= N => val[k] \in Nat}
<1>1. 0 \in S
  BY DEF Doubling
<1>2. ASSUME NEW k \in Nat, k \in S
      PROVE  k + 1 \in S
  <2> SUFFICES ASSUME k + 1 <= N
               PROVE  val[k + 1] \in Nat
    OBVIOUS
  <2>1. k + 1 \in 1 .. N /\ (k + 1) - 1 = k /\ k <= N
    OBVIOUS
  <2>2. val[k] \in Nat /\ Bit(pins[k + 1]) \in 0 .. 1 /\ val[k + 1] = 2 * val[k] + Bit(pins[k + 1])
    BY <1>2, <2>1 DEF Doubling, Bit
  <2>. QED
    BY <2>2
<1>3. Nat \subseteq S
  <2> HIDE DEF S
  <2>. QED
    BY <1>1, <1>2, SetInduction
<1>. QED
  BY <1>3

\* What a member of a chip in that state reads as.
Reading(state, name) ==
  pinvec_to_uint([k \in DOMAIN NumbersOf(state.type, name) |-> PinOf(state, NumbersOf(state.type, name)[k])])

LEMMA OperandRead ==
  ASSUME NEW operand, operand.kind = "member", Found(operand)
  PROVE  get_value(operand) = Reading(variables[operand.variable], operand.member)
<1>1. operand.kind # "number"
  OBVIOUS
<1>. QED
  BY <1>1 DEF get_value, Reading

LEMMA OperandReadNext ==
  ASSUME NEW operand, operand.kind = "member", operand.variable \in DOMAIN variables',
         operand.member \in values(variables'[operand.variable].type)
  PROVE  get_value(operand)' = Reading(variables'[operand.variable], operand.member)
<1>1. operand.kind # "number"
  OBVIOUS
<1>. QED
  BY <1>1 DEF get_value, Found, Reading

LEMMA ReadingCounts ==
  ASSUME NEW state, state.type \in DOMAIN Chips, NEW name
  PROVE  Reading(state, name) \in Nat
<1>1. PICK N \in Nat : DOMAIN NumbersOf(state.type, name) = 1 .. N
  BY NumbersCounted
<1>2. PICK pins : pins = [k \in DOMAIN NumbersOf(state.type, name) |-> PinOf(state, NumbersOf(state.type, name)[k])]
  OBVIOUS
<1>3. Len(pins) = N /\ Reading(state, name) = pinvec_to_uint(pins)
  BY <1>1, <1>2 DEF Reading
<1>4. PICK val : Doubling(val, N, pins) /\ pinvec_to_uint(pins) = val[N]
  BY <1>3, PinsRead
<1>. QED
  BY <1>3, <1>4, NoSign

\* A pin that is declared alone has the name it is declared with.
LEMMA SingleNamed ==
  ASSUME NEW declared, Declarations(declared), NEW n \in DOMAIN declared, declared[n][2] = 0
  PROVE  <<declared[n][1]>> \in Range(AllNames(declared))
<1>1. PICK N, len, size :
        /\ N = Len(declared) /\ len \in [0 .. N -> Nat] /\ size \in [1 .. N -> Nat]
        /\ LaidOut(declared, len, size)
  BY NamesLaid
<1>2. PICK id, e : id = declared[n][1] /\ e = <<id>>
  OBVIOUS
<1>3. n \in 1 .. N /\ Len(PinNames(id, 0)) = 1 /\ PinNames(id, 0)[1] = e
  BY <1>1, <1>2, PlacesNamed DEF LaidOut
<1>4. size[n] = 1 /\ 1 \in 1 .. size[n]
  <2>1. size[n] = Len(PinNames(declared[n][1], declared[n][2]))
    BY <1>1, <1>3 DEF LaidOut
  <2>2. size[n] = 1
    BY <1>2, <1>3, <2>1
  <2>. QED
    BY <2>2
<1>5. /\ len[n - 1] + 1 \in 1 .. len[N] /\ DOMAIN AllNames(declared) = 1 .. len[N]
      /\ AllNames(declared)[len[n - 1] + 1] = PinNames(id, 0)[1]
  BY <1>1, <1>2, <1>3, <1>4 DEF LaidOut
<1>. QED
  BY <1>2, <1>3, <1>5 DEF Range

\* The numbers of a pin's name are its places among the inputs, or those of outputs.
LEMMA PinFound ==
  ASSUME NEW chip \in DOMAIN Chips, NEW name, NEW m \in get_pin(chip, name)
  PROVE  /\ m \in Nat
         /\ m < INPUT_PIN_LIMIT => m + 1 \in DOMAIN InputNames[chip] /\ InputNames[chip][m + 1] = name
<1>1. /\ Len(InputNames[chip]) \in Nat /\ DOMAIN InputNames[chip] = 1 .. Len(InputNames[chip])
      /\ Len(OutputNames[chip]) \in Nat /\ DOMAIN OutputNames[chip] = 1 .. Len(OutputNames[chip])
      /\ INPUT_PIN_LIMIT \in Nat
  BY ChipSized, PinLimitAssumption
<1>2. CASE \E k \in DOMAIN InputNames[chip] : InputNames[chip][k] = name /\ m = k - 1
  <2>1. PICK k \in DOMAIN InputNames[chip] : InputNames[chip][k] = name /\ m = k - 1
    BY <1>2
  <2>2. m + 1 = k /\ m \in Nat
    BY <1>1, <2>1
  <2>. QED
    BY <2>1, <2>2
<1>3. CASE \E k \in DOMAIN OutputNames[chip] : m = INPUT_PIN_LIMIT + k - 1
  BY <1>1, <1>3
<1>. QED
  BY <1>2, <1>3 DEF get_pin

\* The numbers of a member are those of pins its own declaration has named.
LEMMA NumbersNamed ==
  ASSUME NEW chip \in DOMAIN Chips, NEW name \in values(chip), NEW k \in DOMAIN NumbersOf(chip, name),
         NEW m, m = NumbersOf(chip, name)[k]
  PROVE  /\ m \in Nat
         /\ m < INPUT_PIN_LIMIT => m + 1 \in DOMAIN InputNames[chip] /\ InputNames[chip][m + 1][1] = name[1]
<1>1. CASE \E d \in Range(Chips[chip].inputs) \cup Range(Chips[chip].outputs) : d[2] > 0 /\ name = <<d[1]>>
  <2>1. PICK d \in Range(Chips[chip].inputs) \cup Range(Chips[chip].outputs) : d[2] > 0 /\ name = <<d[1]>>
    BY <1>1
  <2>2. PICK id, width : id = d[1] /\ width = d[2] /\ name = <<id>>
    BY <2>1
  <2>3. width \in Nat
    BY <2>1, <2>2, BusNumbered
  <2>4. PICK first \in Nat :
          /\ NumbersOf(chip, name) = [j \in 1 .. width |-> first + j - 1]
          /\ \A p \in 0 .. width - 1 : get_pin(chip, <<id, p>>) = {first + width - p - 1}
    <3>1. PICK f \in Nat : BusPins(chip, d, f)
      BY <2>1, BusNumbered
    <3>2. NumbersOf(chip, name) = [j \in 1 .. width |-> f + j - 1]
      BY <2>2, <3>1 DEF BusPins
    <3>3. \A p \in 0 .. width - 1 : get_pin(chip, <<id, p>>) = {f + width - p - 1}
      BY <2>2, <3>1 DEF BusPins
    <3>. QED
      BY <3>2, <3>3
  <2>5. k \in 1 .. width /\ m = first + k - 1
    BY <2>4
  <2>6. PICK p \in 0 .. width - 1 : p = width - k /\ first + width - p - 1 = m
    BY <2>3, <2>5
  <2>7. PICK place : place = <<id, p>> /\ place[1] = id /\ name[1] = id
    <3>1. PICK e : e = <<id, p>>
      OBVIOUS
    <3>2. e[1] = id /\ name[1] = id
      BY <2>2, <3>1
    <3>. QED
      BY <3>1, <3>2
  <2>8. m \in get_pin(chip, place)
    BY <2>4, <2>6, <2>7
  <2>. QED
    BY <2>7, <2>8, PinFound
<1>2. CASE ~\E d \in Range(Chips[chip].inputs) \cup Range(Chips[chip].outputs) : d[2] > 0 /\ name = <<d[1]>>
  <2>1. Declarations(Chips[chip].inputs) /\ Declarations(Chips[chip].outputs)
    BY ChipDeclares
  <2>2. get_bus(chip, name) = {}
    <3>1. ASSUME NEW declared \in {Chips[chip].inputs, Chips[chip].outputs}, NEW base
          PROVE  BusesAt(declared, base, name) = {}
      BY <1>2 DEF BusesAt, Range
    <3>. QED
      BY <3>1, ChipDeclares
  <2>3. name \in Range(InputNames[chip]) \cup Range(OutputNames[chip])
    <3>1. CASE \E d \in Range(Chips[chip].inputs) \cup Range(Chips[chip].outputs) : name = <<d[1]>>
      <4>1. PICK declared \in {Chips[chip].inputs, Chips[chip].outputs} : \E n \in DOMAIN declared : name = <<declared[n][1]>>
        BY <3>1 DEF Range
      <4>2. PICK n \in DOMAIN declared : name = <<declared[n][1]>>
        BY <4>1
      <4>3. declared[n][2] \in Nat /\ ~(declared[n][2] > 0) /\ Declarations(declared)
        <5>1. PICK d : d = declared[n]
          OBVIOUS
        <5>2. d \in Range(Chips[chip].inputs) \cup Range(Chips[chip].outputs)
          BY <4>1, <4>2, <5>1 DEF Range
        <5>3. ~(d[2] > 0) /\ Declarations(declared)
          BY <1>2, <2>1, <4>1, <4>2, <5>1, <5>2
        <5>. QED
          BY <5>1, <5>3 DEF Declarations
      <4>4. declared[n][2] = 0
        BY <4>3
      <4>5. name \in Range(AllNames(declared))
        BY <4>2, <4>3, <4>4, SingleNamed
      <4>. QED
        BY <4>1, <4>5 DEF InputNames, OutputNames
    <3>2. CASE ~\E d \in Range(Chips[chip].inputs) \cup Range(Chips[chip].outputs) : name = <<d[1]>>
      BY <3>2 DEF values
    <3>. QED
      BY <3>1, <3>2
  <2>4. get_pin(chip, name) # {}
    BY <2>3 DEF get_pin, Range
  <2>5. PICK q \in get_pin(chip, name) : q = CHOOSE n \in get_pin(chip, name) : TRUE
    BY <2>4
  <2>6. NumbersOf(chip, name) = <<q>>
    BY <2>2, <2>5 DEF NumbersOf
  <2>7. m = q
    BY <2>6
  <2>. QED
    BY <2>5, <2>7, PinFound
<1>. QED
  BY <1>1, <1>2

\* A bus that can be set is one of the inputs.
InputBus(chip, name, start, size) ==
  /\ get_bus(chip, name) = {[start |-> start, size |-> size]}
  /\ NumbersOf(chip, name) = [k \in 1 .. size |-> start + k - 1]
  /\ name \in values(chip)
  /\ \A k \in 1 .. size : /\ start + k - 1 < INPUT_PIN_LIMIT
                          /\ start + k \in DOMAIN InputNames[chip]
                          /\ InputNames[chip][start + k][1] = name[1]

LEMMA BusOfInputs ==
  ASSUME NEW chip \in DOMAIN Chips, NEW name, get_bus(chip, name) # {}, ~Outside(NumbersOf(chip, name))
  PROVE  \E start \in Nat, size \in Nat : InputBus(chip, name, start, size)
<1>1. PICK d \in Range(Chips[chip].inputs) \cup Range(Chips[chip].outputs) : d[2] > 0 /\ name = <<d[1]>>
  <2>1. ASSUME NEW declared, NEW base, BusesAt(declared, base, name) # {}
        PROVE  \E d \in Range(declared) : d[2] > 0 /\ name = <<d[1]>>
    BY <2>1 DEF BusesAt, Range
  <2>2. \/ BusesAt(Chips[chip].inputs, 0, name) # {}
        \/ BusesAt(Chips[chip].outputs, INPUT_PIN_LIMIT, name) # {}
    BY ChipDeclares
  <2>. QED
    BY <2>1, <2>2
<1>2. d[2] \in Nat /\ name \in values(chip)
  BY <1>1, BusNumbered
<1>3. PICK start \in Nat : BusPins(chip, d, start)
  BY <1>1, BusNumbered
<1>4. PICK size \in Nat : size = d[2]
  BY <1>2
<1>5. /\ get_bus(chip, name) = {[start |-> start, size |-> size]}
      /\ NumbersOf(chip, name) = [k \in 1 .. size |-> start + k - 1]
  BY <1>1, <1>3, <1>4 DEF BusPins
<1>6. ASSUME NEW k \in 1 .. size
      PROVE  /\ start + k - 1 < INPUT_PIN_LIMIT
             /\ start + k \in DOMAIN InputNames[chip]
             /\ InputNames[chip][start + k][1] = name[1]
  <2>1. PICK m : m = NumbersOf(chip, name)[k] /\ k \in DOMAIN NumbersOf(chip, name)
    BY <1>5
  <2>2. m = start + k - 1 /\ m + 1 = start + k
    BY <1>5, <2>1
  <2>3. m < INPUT_PIN_LIMIT
    <3>1. INPUT_PIN_LIMIT \in Nat /\ m \in Int
      BY <2>2, PinLimitAssumption
    <3>2. m \in Range(NumbersOf(chip, name))
      BY <2>1 DEF Range
    <3>3. ~(m >= INPUT_PIN_LIMIT)
      BY <3>2 DEF Outside
    <3>. QED
      BY <3>1, <3>3
  <2>4. m + 1 \in DOMAIN InputNames[chip] /\ InputNames[chip][m + 1][1] = name[1]
    BY <1>2, <2>1, <2>3, NumbersNamed
  <2>. QED
    BY <2>2, <2>3, <2>4
<1>7. InputBus(chip, name, start, size)
  BY <1>2, <1>5, <1>6 DEF InputBus
<1>. QED
  BY <1>7

LEMMA SetReadsBack ==
  ASSUME TypeOK, NEW target, NEW value, NEW broken,
         value.kind \in {"number", "member", "none"},
         value.kind = "number" => value.number \in Nat,
         SET_impl(target, value, broken), ~has_error', phase' = "test",
         get_bus(variables[target.variable].type, target.member) # {}
  PROVE  /\ get_value(target)' = get_value(value)
         /\ \A v \in DOMAIN variables : \A name \in values(variables[v].type) :
              (v # target.variable \/ name[1] # target.member[1]) =>
                get_value(Member(v, name))' = get_value(Member(v, name))
<1>1. PICK v, member, n, chip, numbers, states :
        /\ v = target.variable /\ member = target.member /\ n = get_value(value)
        /\ chip = variables[v].type /\ numbers = NumbersOf(chip, member)
        /\ states = set_pinvec(n, Len(numbers))
  OBVIOUS
<1>2. /\ target.kind = "member" /\ v \in DOMAIN variables /\ member \in values(chip)
      /\ value.kind # "none" /\ ~Overflows(target, value) /\ Found(value)
      /\ get_bus(chip, member) # {}
  BY <1>1 DEF SET_impl, Found, NoInt
<1>3. chip \in DOMAIN Chips /\ variables[v] \in ChipStates(chip)
  BY <1>1, <1>2 DEF TypeOK, ChipStates
<1>4. ~Outside(numbers) /\ variables' = PinsSet(variables, v, numbers, states)
  <2>1. LET all == NumbersOf(variables[target.variable].type, target.member)
        IN  /\ ~Outside(all)
            /\ variables' = PinsSet(variables, target.variable, all,
                              IF get_bus(variables[target.variable].type, target.member) = {}
                              THEN <<get_value(value) = 1>> ELSE set_pinvec(get_value(value), Len(all)))
    BY ONLY SET_impl(target, value, broken), phase' = "test" DEF SET_impl, Outside, PinsSet, Range
  <2>. QED
    BY <1>1, <1>2, <2>1
<1>5. PICK start \in Nat, size \in Nat : InputBus(chip, member, start, size)
  BY <1>1, <1>2, <1>3, <1>4, BusOfInputs
<1>6. /\ numbers = [k \in 1 .. size |-> start + k - 1] /\ Len(numbers) = size
      /\ \A k \in 1 .. size : /\ start + k - 1 < INPUT_PIN_LIMIT
                              /\ start + k \in DOMAIN InputNames[chip]
                              /\ InputNames[chip][start + k][1] = member[1]
  BY <1>1, <1>5 DEF InputBus
<1>7. n \in Nat
  <2>1. CASE value.kind = "number"
    BY <1>1, <2>1 DEF get_value
  <2>2. CASE value.kind = "member"
    <3>1. variables[value.variable].type \in DOMAIN Chips
      BY <1>2, <2>2 DEF Found, TypeOK, ChipStates
    <3>. QED
      BY <1>1, <1>2, <2>2, <3>1, OperandRead, ReadingCounts
  <2>. QED
    BY <1>2, <2>1, <2>2
<1>8. n \div two_to_the[size] = 0
  <2>0. PICK bus : bus = [start |-> start, size |-> size]
    OBVIOUS
  <2>1. bus \in get_bus(chip, member) /\ bus.size = size
    BY <1>5, <2>0 DEF InputBus
  <2>2. ~(n \div two_to_the[size] > 0)
    BY <1>1, <1>2, <2>1 DEF Overflows
  <2>3. n \div two_to_the[size] \in Nat
    <3>1. PICK t \in Nat \ {0} : t = two_to_the[size]
      BY Powers
    <3>2. n \div t \in Nat
      BY <1>7
    <3>. QED
      BY <3>1, <3>2
  <2>. QED
    BY <2>2, <2>3
<1>9. states = [k \in 1 .. size |-> (n \div two_to_the[size - k]) % 2 = 1]
  BY <1>1, <1>6 DEF set_pinvec
<1>10. /\ DOMAIN variables[v].input_pins = DOMAIN InputNames[chip]
       /\ DOMAIN variables' = DOMAIN variables
       /\ \A w \in DOMAIN variables : w # v => variables'[w] = variables[w]
       /\ variables'[v] = [variables[v] EXCEPT !.input_pins = [i \in DOMAIN @ |->
                             IF \E k \in DOMAIN numbers : numbers[k] = i - 1
                             THEN states[CHOOSE k \in DOMAIN numbers : numbers[k] = i - 1]
                             ELSE @[i]]]
  <2>1. DOMAIN variables[v].input_pins = DOMAIN InputNames[chip]
    BY <1>3, ChipSized DEF ChipStates, Pins
  <2>. QED
    BY <1>2, <1>4, <2>1 DEF PinsSet
<1>11. PICK pins : pins = [i \in DOMAIN variables[v].input_pins |->
                             IF \E k \in DOMAIN numbers : numbers[k] = i - 1
                             THEN states[CHOOSE k \in DOMAIN numbers : numbers[k] = i - 1]
                             ELSE variables[v].input_pins[i]]
  OBVIOUS
<1>12. /\ variables'[v].type = chip /\ variables'[v].input_pins = pins
       /\ variables'[v].output_pins = variables[v].output_pins
  <2>1. variables'[v] = [variables[v] EXCEPT !.input_pins = pins]
    BY <1>10, <1>11
  <2>. QED
    BY <1>1, <1>3, <2>1 DEF ChipStates
<1>13. \A k \in 1 .. size : pins[start + k] = states[k]
  <2>1. TAKE k \in 1 .. size
  <2>2. k \in DOMAIN numbers /\ numbers[k] = (start + k) - 1 /\ start + k \in DOMAIN variables[v].input_pins
    BY <1>6, <1>10
  <2>3. (CHOOSE j \in DOMAIN numbers : numbers[j] = (start + k) - 1) = k
    BY <1>6
  <2>. QED
    BY <1>11, <2>2, <2>3
<1>14. get_value(target)' = n
  <2>1. PICK read : read = [k \in DOMAIN numbers |-> PinOf(variables'[v], numbers[k])]
    OBVIOUS
  <2>2. get_value(target)' = pinvec_to_uint(read)
    <3>1. get_value(target)' = Reading(variables'[v], member)
      BY <1>1, <1>2, <1>10, <1>12, OperandReadNext
    <3>2. PICK state : state = variables'[v]
      OBVIOUS
    <3>3. NumbersOf(state.type, member) = numbers
      BY <1>1, <1>12, <3>2
    <3>4. Reading(state, member) = pinvec_to_uint([k \in DOMAIN numbers |-> PinOf(state, numbers[k])])
      BY ONLY <3>3 DEF Reading
    <3>. QED
      BY <2>1, <3>1, <3>2, <3>4
  <2>3. Len(read) = size
    BY <1>6, <2>1
  <2>4. ASSUME NEW k \in 1 .. size
        PROVE  read[k] = states[k]
    <3>1. k \in DOMAIN numbers /\ numbers[k] = start + k - 1 /\ numbers[k] < INPUT_PIN_LIMIT /\ numbers[k] + 1 = start + k
      BY <1>6
    <3>2. read[k] = pins[numbers[k] + 1]
      BY <1>12, <2>1, <3>1 DEF PinOf
    <3>. QED
      BY <1>13, <3>1, <3>2
  <2>5. \A k \in 1 .. size : read[k] <=> (n \div two_to_the[size - k]) % 2 = 1
    BY <1>9, <2>4
  <2>6. PICK val : Doubling(val, size, read) /\ pinvec_to_uint(read) = val[size]
    BY <2>3, PinsRead
  <2>7. val[size] = n
    BY <1>7, <1>8, <2>5, <2>6, BitsRead
  <2>. QED
    BY <2>2, <2>6, <2>7
<1>15. ASSUME NEW w \in DOMAIN variables, NEW name \in values(variables[w].type),
              w # v \/ name[1] # member[1]
       PROVE  get_value(Member(w, name))' = get_value(Member(w, name))
  <2>0. PICK operand : operand = Member(w, name)
    OBVIOUS
  <2>1. operand.kind = "member" /\ operand.variable = w /\ operand.member = name
    BY <2>0 DEF Member
  <2>2. variables'[w].type = variables[w].type /\ w \in DOMAIN variables'
    BY <1>1, <1>10, <1>12
  <2>3. get_value(operand) = Reading(variables[w], name)
    BY <2>1, OperandRead DEF Found
  <2>4. get_value(operand)' = Reading(variables'[w], name)
    BY <2>1, <2>2, OperandReadNext
  <2>5. Reading(variables'[w], name) = Reading(variables[w], name)
    <3>1. CASE w # v
      BY <1>10, <3>1
    <3>2. CASE w = v
      <4>1. name[1] # member[1] /\ variables[w].type = chip /\ variables'[w].type = chip /\ name \in values(chip)
        BY <1>1, <1>12, <1>15, <3>2
      <4>2. ASSUME NEW k \in DOMAIN NumbersOf(chip, name)
            PROVE  PinOf(variables'[v], NumbersOf(chip, name)[k]) = PinOf(variables[v], NumbersOf(chip, name)[k])
        <5>1. PICK m : m = NumbersOf(chip, name)[k]
          OBVIOUS
        <5>2. /\ m \in Nat
              /\ m < INPUT_PIN_LIMIT => m + 1 \in DOMAIN InputNames[chip] /\ InputNames[chip][m + 1][1] = name[1]
          BY <1>3, <4>1, <5>1, NumbersNamed
        <5>3. CASE m < INPUT_PIN_LIMIT
          <6>1. m + 1 \in DOMAIN variables[v].input_pins /\ (m + 1) - 1 = m
            BY <1>10, <5>2, <5>3
          <6>2. ~\E j \in DOMAIN numbers : numbers[j] = (m + 1) - 1
            <7>1. SUFFICES ASSUME NEW j \in DOMAIN numbers, numbers[j] = (m + 1) - 1
                           PROVE  FALSE
              OBVIOUS
            <7>2. j \in 1 .. size /\ start + j = m + 1
              BY <1>6, <5>2, <7>1
            <7>3. InputNames[chip][start + j][1] = member[1]
              BY <1>6, <7>2
            <7>. QED
              BY <4>1, <5>2, <5>3, <7>2, <7>3
          <6>3. pins[m + 1] = variables[v].input_pins[m + 1]
            BY <1>11, <6>1, <6>2
          <6>. QED
            BY <1>12, <5>1, <5>3, <6>3 DEF PinOf
        <5>4. CASE ~(m < INPUT_PIN_LIMIT)
          BY <1>12, <5>1, <5>4 DEF PinOf
        <5>. QED
          BY <5>3, <5>4
      <4>. QED
        BY <3>2, <4>1, <4>2 DEF Reading
    <3>. QED
      BY <3>1, <3>2
  <2>. QED
    BY <2>0, <2>3, <2>4, <2>5
<1>. QED
  BY <1>1, <1>14, <1>15

\* A bus that is set without an error reads as the value, and no other member of a variable
\* changes (Tester::SET_impl, set_pinvec, pinvec_to_uint).
THEOREM SetAlwaysReads == FileSpec => SetReads
<1>1. TypeOK /\ [FileNext]_file_vars =>
        [\A s \in Sets :
           (SET_impl(s.target, s.value, s.broken) /\ ~has_error' /\ phase' = "test"
              /\ get_bus(variables[s.target.variable].type, s.target.member) # {})
           => /\ get_value(s.target)' = get_value(s.value)
              /\ \A v \in DOMAIN variables : \A name \in values(variables[v].type) :
                   (v # s.target.variable \/ name[1] # s.target.member[1]) =>
                     get_value(Member(v, name))' = get_value(Member(v, name))]_file_vars
  BY SetsAssumption, SetReadsBack
<1>. QED
  BY <1>1, AlwaysTyped, PTL DEF FileSpec, SetReads
===============================================================================
