------------------------------ MODULE JackOSProofs ------------------------------
(***************************************************************************)
(* Memory, for every heap and every size a program may ask for: as long as *)
(* no block was split that has no room for a second header, the free       *)
(* blocks and the blocks in use tile the heap, and a block in use has the  *)
(* length it was allocated with.  Math, for words of every even number of  *)
(* bits: products, quotients and roots are right, and divisions end.       *)
(***************************************************************************)
EXTENDS JackOS, NatInduction

Heap == HeapBase .. HeapBase + 1 + HeapLength

Starts == HeapBase .. HeapBase + HeapLength

-----------------------------------------------------------------------------
(***************************************************************************)
(* The inductive invariant.  c is the free list, block after block, and n  *)
(* the index of its last block.                                            *)
(***************************************************************************)
InList(c) == {c[k] : k \in DOMAIN c}

Held == {b.at : b \in live}

Linked(c, n) ==
  /\ c[0] = free_blocks
  /\ \A k \in 0 .. n : mem[c[k] + next] = IF k < n THEN c[k + 1] ELSE null
  /\ \A j, k \in 0 .. n : c[j] = c[k] => j = k

\* The blocks that start at T and have the lengths m cover the heap and do not overlap.
Tiled(T, m) ==
  /\ T \subseteq Starts
  /\ \A s \in T : m[s] \in Nat /\ s + 1 + m[s] <= HeapBase + 1 + HeapLength
  /\ \A s, t \in T : s < t => s + 1 + m[s] < t
  /\ \A a \in Heap : \E s \in T : s <= a /\ a <= s + 1 + m[s]

\* A search stands at a block of the list and remembers the one before it.
Searched(c, n) ==
  call = "alloc" =>
    /\ size \in Nat
    /\ \E k \in 0 .. n : block = c[k] /\ prev_block = IF k = 0 THEN null ELSE c[k - 1]

Kept ==
  /\ mem \in [Addresses -> Int]
  /\ call \in {"none", "alloc"}
  /\ live \subseteq [at : Starts, size : Nat]
  /\ \A b \in live : mem[b.at + length] = b.size

Ordered(c, n) ==
  /\ Kept
  /\ Linked(c, n)
  /\ Searched(c, n)
  /\ InList(c) \cap Held = {}
  /\ Tiled(InList(c) \cup Held, mem)

IInv == ~tight => \E n \in Nat : \E c \in [0 .. n -> Starts] : Ordered(c, n)

-----------------------------------------------------------------------------
\* A block is divided into two where there is room for the header of the second.
LEMMA SplitTiles ==
  ASSUME NEW T, NEW m, Tiled(T, m), NEW b \in T, NEW s \in Nat, m[b] >= s + 2,
         NEW w, w[b] = s, w[b + 2 + s] = m[b] - s - 2,
         \A t \in T : t # b => w[t] = m[t]
  PROVE  /\ b + 2 + s \in Starts
         /\ b + 2 + s \notin T
         /\ Tiled(T \cup {b + 2 + s}, w)
<1> DEFINE d == b + 2 + s
<1>1. /\ b \in Int /\ m[b] \in Nat /\ T \subseteq Int /\ d \in Int
      /\ \A t \in T : t \in Int /\ m[t] \in Nat
  BY HeapAssumption DEF Tiled, Starts
<1>2. d \in Starts
  BY <1>1, HeapAssumption DEF Tiled, Starts
<1>3. \A t \in T : t # b => t < b \/ d + 1 + w[d] < t
  BY <1>1 DEF Tiled
<1>4. d \notin T
  BY <1>1, <1>3
<1>5. \A t \in T \cup {d} : w[t] \in Nat /\ t + 1 + w[t] <= HeapBase + 1 + HeapLength
  <2>1. \A t \in T : t # b => w[t] \in Nat /\ t + 1 + w[t] <= HeapBase + 1 + HeapLength
    BY <1>1 DEF Tiled
  <2>2. b + 1 + m[b] <= HeapBase + 1 + HeapLength
    BY DEF Tiled
  <2>3. w[b] \in Nat /\ b + 1 + w[b] <= HeapBase + 1 + HeapLength
    BY <1>1, <2>2, HeapAssumption
  <2>4. w[d] \in Nat /\ d + 1 + w[d] <= HeapBase + 1 + HeapLength
    BY <1>1, <2>2, HeapAssumption
  <2>. QED
    BY <2>1, <2>3, <2>4
<1>6. ASSUME NEW t \in T \cup {d}, NEW u \in T \cup {d}, t < u
      PROVE  t + 1 + w[t] < u
  <2>1. CASE t = d
    BY <2>1, <1>6, <1>1, <1>3
  <2>2. CASE t = b
    BY <2>2, <1>6, <1>1, <1>3
  <2>3. CASE t # d /\ t # b /\ u # d
    BY <2>3, <1>6, <1>1 DEF Tiled
  <2>4. CASE t # d /\ t # b /\ u = d
    <3>1. t < b /\ w[t] = m[t] /\ t \in T
      BY <2>4, <1>6, <1>1, <1>3, <1>5
    <3>2. t + 1 + m[t] < b
      BY <3>1 DEF Tiled
    <3>. QED
      BY <3>1, <3>2, <2>4, <1>1
  <2>. QED
    BY <2>1, <2>2, <2>3, <2>4
<1>7. ASSUME NEW a \in Heap
      PROVE  \E t \in T \cup {d} : t <= a /\ a <= t + 1 + w[t]
  <2>1. PICK t \in T : t <= a /\ a <= t + 1 + m[t]
    BY DEF Tiled
  <2>2. a \in Int
    BY HeapAssumption DEF Heap
  <2>3. CASE t # b
    BY <2>1, <2>3
  <2>4. CASE t = b /\ a < d
    BY <2>1, <2>2, <2>4, <1>1
  <2>5. CASE t = b /\ ~(a < d)
    BY <2>1, <2>2, <2>5, <1>1
  <2>. QED
    BY <2>3, <2>4, <2>5
<1>. QED
  <2>1. T \cup {d} \subseteq Starts
    BY <1>2 DEF Tiled
  <2>. QED
    BY <1>2, <1>4, <1>5, <1>6, <1>7, <2>1 DEF Tiled

\* The lengths are all that the blocks depend on.
LEMMA SameTiles ==
  ASSUME NEW T, NEW m, Tiled(T, m), NEW w, \A t \in T : w[t] = m[t]
  PROVE  Tiled(T, w)
BY DEF Tiled

\* The header of a block is in no other block.
LEMMA HeadersApart ==
  ASSUME NEW T, NEW m, Tiled(T, m), NEW s \in T, NEW t \in T, s # t
  PROVE  /\ s \in Int /\ t \in Int /\ m[s] \in Nat /\ m[t] \in Nat
         /\ \A d \in 0 .. m[s] + 1 : t # s + d /\ t + 1 # s + d
<1>1. s \in Int /\ t \in Int /\ m[s] \in Nat /\ m[t] \in Nat
  BY HeapAssumption DEF Tiled, Starts
<1>2. s + 1 + m[s] < t \/ t + 1 + m[t] < s
  BY <1>1 DEF Tiled
<1>. QED
  BY <1>1, <1>2

-----------------------------------------------------------------------------
(***************************************************************************)
(* The steps.                                                              *)
(***************************************************************************)
LEMMA InitOrdered == Init => IInv
<1> SUFFICES ASSUME Init
             PROVE  IInv
  OBVIOUS
<1> DEFINE c == [k \in 0 .. 0 |-> HeapBase]
<1>1. c \in [0 .. 0 -> Starts] /\ c[0] = HeapBase /\ InList(c) = {HeapBase}
  BY HeapAssumption DEF Starts, InList
<1>2. /\ HeapBase \in Addresses /\ HeapBase + 1 \in Addresses
      /\ mem[HeapBase] = HeapLength /\ mem[HeapBase + 1] = null
  BY HeapAssumption DEF Init, Addresses, LastAddress, length
<1>3. Kept /\ Held = {}
  BY HeapAssumption DEF Init, Kept, Held, null
<1>4. Linked(c, 0)
  BY <1>1, <1>2 DEF Linked, Init, next
<1>5. Searched(c, 0)
  BY DEF Init, Searched
<1>6. Tiled({HeapBase}, mem)
  <2>1. \A a \in Heap : HeapBase <= a /\ a <= HeapBase + 1 + mem[HeapBase]
    BY <1>2, HeapAssumption DEF Heap
  <2>. QED
    BY <1>2, <2>1, HeapAssumption DEF Tiled, Starts
<1>7. Ordered(c, 0)
  BY <1>1, <1>3, <1>4, <1>5, <1>6 DEF Ordered
<1>. QED
  BY <1>1, <1>7 DEF IInv

\* The blocks of the list are addresses of the heap, none of them null.
LEMMA ListType ==
  ASSUME NEW n \in Nat, NEW c \in [0 .. n -> Starts]
  PROVE  /\ \A k \in 0 .. n : /\ c[k] \in Starts /\ c[k] \in Nat /\ c[k] # null
                              /\ c[k] \in Addresses /\ c[k] + 1 \in Addresses
         /\ \A k \in 0 .. n : c[k] \in InList(c)
         /\ InList(c) \subseteq Starts
BY HeapAssumption DEF Starts, InList, null, Addresses, LastAddress

\* Alloc, Traverse and OutOfMemory move along the list and write nothing.
LEMMA SearchStep ==
  ASSUME NEW n \in Nat, NEW c \in [0 .. n -> Starts], Ordered(c, n),
         Alloc \/ Traverse \/ OutOfMemory
  PROVE  Ordered(c, n)'
<1>1. mem' = mem /\ free_blocks' = free_blocks /\ live' = live
  BY DEF Alloc, Traverse, OutOfMemory
<1>2. call' \in {"none", "alloc"} /\ Searched(c, n)'
  <2>1. CASE Alloc
    <3>1. PICK s \in Sizes : /\ call' = "alloc" /\ size' = s
                             /\ prev_block' = null /\ block' = free_blocks
      BY <2>1 DEF Alloc
    <3>2. s \in Nat /\ 0 \in 0 .. n /\ block' = c[0]
      BY <3>1, HeapAssumption DEF Ordered, Linked
    <3>. QED
      BY <3>1, <3>2 DEF Searched
  <2>2. CASE Traverse
    <3>1. /\ call = "alloc" /\ call' = "alloc" /\ size' = size
          /\ mem[block + next] # null
          /\ prev_block' = block /\ block' = mem[block + next]
      BY <2>2 DEF Traverse
    <3>2. PICK k \in 0 .. n : block = c[k]
      BY <3>1 DEF Ordered, Searched
    <3>3. k < n /\ mem[block + next] = c[k + 1]
      BY <3>1, <3>2 DEF Ordered, Linked
    <3>4. /\ k + 1 \in 0 .. n /\ k + 1 # 0 /\ (k + 1) - 1 = k
          /\ block' = c[k + 1] /\ prev_block' = c[k]
      BY <3>1, <3>2, <3>3
    <3>5. size' \in Nat
      BY <3>1 DEF Ordered, Searched
    <3>. QED
      BY <3>1, <3>4, <3>5 DEF Searched
  <2>3. CASE OutOfMemory
    BY <2>3 DEF OutOfMemory, Return, Searched
  <2>. QED
    BY <2>1, <2>2, <2>3
<1>. QED
  <2>1. Kept'
    BY <1>1, <1>2 DEF Ordered, Kept
  <2>2. Linked(c, n)' /\ Held' = Held
    BY <1>1 DEF Ordered, Linked, Held
  <2>. QED
    BY <1>1, <1>2, <2>1, <2>2 DEF Ordered

\* The words Split writes: two headers, and the link of the block before.
LEMMA SplitWrites ==
  ASSUME mem \in [Addresses -> Int], block \in Addresses, block + 1 \in Addresses,
         next_block \in Addresses, next_block + 1 \in Addresses, size \in Nat,
         block \in Nat, Relink,
         prev_block # null => /\ prev_block + 1 \in Addresses
                              /\ prev_block + 1 \notin block .. next_block + 1
                              /\ prev_block \in Nat
  PROVE  /\ mem' \in [Addresses -> Int]
         /\ mem'[block] = size
         /\ mem'[block + 1] = null
         /\ mem'[next_block] = mem[block] - size - 2
         /\ mem'[next_block + 1] = mem[block + 1]
         /\ prev_block # null => mem'[prev_block + 1] = next_block
         /\ \A a \in Addresses :
              /\ a \notin {block, block + 1, next_block, next_block + 1}
              /\ prev_block # null => a # prev_block + 1
              => mem'[a] = mem[a]
<1>1. /\ Headers \in [Addresses -> Int]
      /\ Headers[block] = size
      /\ Headers[block + 1] = null
      /\ Headers[next_block] = mem[block] - size - 2
      /\ Headers[next_block + 1] = mem[block + 1]
      /\ \A a \in Addresses :
           a \notin {block, block + 1, next_block, next_block + 1} => Headers[a] = mem[a]
  BY DEF Headers, next_block, length, next, null
<1>2. CASE prev_block = null
  BY <1>1, <1>2 DEF Relink
<1>3. CASE prev_block # null
  <2>1. mem' = [Headers EXCEPT ![prev_block + 1] = next_block] /\ next_block \in Int
    BY <1>3 DEF Relink, next, next_block
  <2>2. prev_block + 1 \notin {block, block + 1, next_block, next_block + 1}
    BY <1>3 DEF next_block
  <2> HIDE DEF Headers
  <2>. QED
    BY <1>1, <1>3, <2>1, <2>2
<1>. QED
  BY <1>2, <1>3

\* Split puts the second half where the block was in the list.
LEMMA SplitStep ==
  ASSUME NEW n \in Nat, NEW c \in [0 .. n -> Starts], Ordered(c, n), Split, ~tight'
  PROVE  \E d \in [0 .. n -> Starts] : Ordered(d, n)'
<1> DEFINE T == InList(c) \cup Held
<1>1. /\ call = "alloc" /\ mem[block] >= size /\ Relink
      /\ live' = live \cup {[at |-> block, size |-> size]}
      /\ mem[block] >= size + 2 /\ call' = "none"
  <2>1. call = "alloc" /\ size \in Nat
    BY DEF Split, Ordered, Searched
  <2>2. PICK k \in 0 .. n : block = c[k]
    BY <2>1 DEF Ordered, Searched
  <2>3. block \in Addresses /\ mem[block] \in Int /\ block + 0 = block
    BY <2>2, ListType DEF Ordered, Kept
  <2>4. ~(mem[block] < size) /\ ~(mem[block] < size + 2)
    BY <2>3 DEF Split, TooShort, length
  <2>. QED
    BY <2>1, <2>3, <2>4 DEF Split, Return
<1>2. PICK k \in 0 .. n : block = c[k] /\ prev_block = IF k = 0 THEN null ELSE c[k - 1]
  BY <1>1 DEF Ordered, Searched
<1>3. size \in Nat /\ Tiled(T, mem) /\ Linked(c, n) /\ Kept /\ InList(c) \cap Held = {}
  BY <1>1 DEF Ordered, Searched
<1>4. /\ block \in T /\ block \in InList(c) /\ block \in Starts /\ block \in Nat
      /\ block \in Addresses /\ block + 1 \in Addresses
  BY <1>2, ListType
<1> HIDE DEF T
<1>5. next_block \in Starts /\ next_block \notin T
  <2>1. mem[block] \in Int /\ next_block = block + 2 + size
    BY <1>3, <1>4 DEF Kept, next_block
  <2>2. block + 1 + mem[block] <= HeapBase + 1 + HeapLength
    BY <1>3, <1>4 DEF Tiled
  <2>3. next_block \in Starts
    BY <1>1, <1>3, <1>4, <2>1, <2>2, HeapAssumption DEF Starts
  <2>4. next_block \notin T
    <3> SUFFICES ASSUME next_block \in T
                 PROVE  FALSE
      OBVIOUS
    <3>1. /\ size + 2 \in 0 .. mem[block] + 1 /\ next_block = block + (size + 2)
          /\ next_block # block
      BY <1>1, <1>3, <1>4, <2>1
    <3>2. \A d \in 0 .. mem[block] + 1 : next_block # block + d
      BY <1>3, <1>4, <3>1, HeadersApart
    <3>. QED
      BY <3>1, <3>2
  <2>. QED
    BY <2>3, <2>4
<1>6. next_block \in Nat /\ next_block \in Addresses /\ next_block + 1 \in Addresses
  BY <1>5, HeapAssumption DEF Starts, Addresses, LastAddress
<1>7. prev_block # null =>
         /\ k > 0 /\ prev_block = c[k - 1] /\ prev_block \in Nat /\ prev_block + 1 \in Addresses
         /\ prev_block + 1 \notin block .. next_block + 1
  <2> SUFFICES ASSUME prev_block # null
               PROVE  /\ k > 0 /\ prev_block = c[k - 1] /\ prev_block \in Nat
                      /\ prev_block + 1 \in Addresses
                      /\ prev_block + 1 \notin block .. next_block + 1
    OBVIOUS
  <2>1. k > 0 /\ prev_block = c[k - 1] /\ k - 1 \in 0 .. n
    BY <1>2
  <2>2. prev_block \in T /\ prev_block # block /\ prev_block \in Nat /\ prev_block + 1 \in Addresses
    BY <1>2, <1>3, <2>1, ListType DEF Linked, T
  <2>3. \A d \in 0 .. mem[block] + 1 : prev_block + 1 # block + d
    BY <1>3, <1>4, <2>2, HeadersApart
  <2>4. ASSUME prev_block + 1 \in block .. next_block + 1
        PROVE  FALSE
    <3>1. mem[block] \in Int
      BY <1>3, <1>4 DEF Kept
    <3>2. (prev_block + 1) - block \in 0 .. mem[block] + 1
      BY <1>1, <1>3, <1>4, <1>6, <2>2, <2>4, <3>1 DEF next_block
    <3>3. prev_block + 1 # block + ((prev_block + 1) - block)
      BY <2>3, <3>2
    <3>. QED
      BY <1>4, <2>2, <3>3
  <2>. QED
    BY <2>1, <2>2, <2>4
<1>8. /\ mem' \in [Addresses -> Int]
      /\ mem'[block] = size
      /\ mem'[next_block] = mem[block] - size - 2
      /\ mem'[next_block + 1] = mem[block + 1]
      /\ prev_block # null => mem'[prev_block + 1] = next_block
      /\ \A a \in Addresses :
           /\ a \notin {block, block + 1, next_block, next_block + 1}
           /\ prev_block # null => a # prev_block + 1
           => mem'[a] = mem[a]
  BY <1>1, <1>3, <1>4, <1>6, <1>7, SplitWrites DEF Kept
<1>9. \A t \in T : t # block =>
        /\ t \in Nat /\ t \in Addresses /\ t + 1 \in Addresses
        /\ t \notin block .. next_block + 1 /\ t + 1 \notin block .. next_block + 1
  <2> SUFFICES ASSUME NEW t \in T, t # block
               PROVE  /\ t \in Nat /\ t \in Addresses /\ t + 1 \in Addresses
                      /\ t \notin block .. next_block + 1 /\ t + 1 \notin block .. next_block + 1
    OBVIOUS
  <2>1. t \in Nat /\ t \in Addresses /\ t + 1 \in Addresses
    BY <1>3, HeapAssumption DEF Tiled, Starts, Addresses, LastAddress
  <2>2. mem[block] \in Nat /\ \A d \in 0 .. mem[block] + 1 : t # block + d /\ t + 1 # block + d
    BY <1>3, <1>4, HeadersApart
  <2>3. \A a \in block .. next_block + 1 : a - block \in 0 .. mem[block] + 1 /\ a = block + (a - block)
    BY <1>1, <1>3, <1>4, <2>2 DEF next_block
  <2>. QED
    BY <2>1, <2>2, <2>3
<1>10. {block, block + 1, next_block, next_block + 1} \subseteq block .. next_block + 1
  BY <1>3, <1>4 DEF next_block
<1>11. \A t \in T : t # block => mem'[t] = mem[t]
  <2> SUFFICES ASSUME NEW t \in T, t # block
               PROVE  mem'[t] = mem[t]
    OBVIOUS
  <2>1. t \in Addresses /\ t \notin {block, block + 1, next_block, next_block + 1}
    BY <1>9, <1>10
  <2>2. prev_block # null => t # prev_block + 1
    <3> SUFFICES ASSUME prev_block # null
                 PROVE  t # prev_block + 1
      OBVIOUS
    <3>1. prev_block \in T /\ prev_block \in Nat
      <4>1. k - 1 \in 0 .. n /\ prev_block = c[k - 1]
        BY <1>7
      <4>. QED
        BY <4>1, ListType DEF T
    <3>2. CASE prev_block = t
      BY <3>1, <3>2
    <3>3. CASE prev_block # t
      <4>1. mem[prev_block] \in Nat /\ \A d \in 0 .. mem[prev_block] + 1 : t # prev_block + d
        BY <1>3, <3>1, <3>3, HeadersApart
      <4>2. 1 \in 0 .. mem[prev_block] + 1
        BY <4>1
      <4>. QED
        BY <4>1, <4>2
    <3>. QED
      BY <3>2, <3>3
  <2>. QED
    BY <1>8, <2>1, <2>2
<1>12. PICK d \in [0 .. n -> Starts] : /\ d[k] = next_block
                                      /\ \A j \in 0 .. n : j # k => d[j] = c[j]
  <2> DEFINE e == [c EXCEPT ![k] = next_block]
  <2>1. /\ e \in [0 .. n -> Starts] /\ e[k] = next_block
        /\ \A j \in 0 .. n : j # k => e[j] = c[j]
    BY <1>5
  <2> HIDE DEF e
  <2>. QED
    BY <2>1
<1>13. Linked(d, n)'
  <2>1. d[0] = free_blocks'
    <3>1. CASE k = 0
      BY <1>1, <1>2, <1>12, <3>1 DEF Relink
    <3>2. CASE k # 0
      <4>1. prev_block # null
        BY <1>2, <3>2, ListType
      <4>. QED
        BY <1>1, <1>3, <1>12, <3>2, <4>1 DEF Relink, Linked
    <3>. QED
      BY <3>1, <3>2
  <2>2. ASSUME NEW j \in 0 .. n
        PROVE  mem'[d[j] + 1] = IF j < n THEN d[j + 1] ELSE null
    <3>1. mem[c[j] + 1] = IF j < n THEN c[j + 1] ELSE null
      BY <1>3 DEF Linked, next
    <3>2. CASE j = k
      <4>1. mem'[d[j] + 1] = mem[c[j] + 1]
        BY <1>2, <1>8, <1>12, <3>2
      <4>2. j < n => d[j + 1] = c[j + 1]
        BY <1>12, <3>2
      <4>. QED
        BY <3>1, <4>1, <4>2
    <3>3. CASE j # k /\ j + 1 = k
      <4>1. prev_block = c[j] /\ prev_block # null /\ j < n
        BY <1>2, <3>3, ListType
      <4>. QED
        BY <1>8, <1>12, <3>3, <4>1
    <3>4. CASE j # k /\ j + 1 # k
      <4>1. c[j] \in T /\ c[j] # block /\ c[j] \in Nat
        BY <1>2, <1>3, <3>4, ListType DEF Linked, T
      <4>2. c[j] + 1 \in Addresses /\ c[j] + 1 \notin {block, block + 1, next_block, next_block + 1}
        BY <1>9, <1>10, <4>1
      <4>3. prev_block # null => c[j] + 1 # prev_block + 1
        BY <1>3, <1>7, <3>4, <4>1 DEF Linked
      <4>4. mem'[c[j] + 1] = mem[c[j] + 1]
        BY <1>8, <4>2, <4>3
      <4>5. j < n => d[j + 1] = c[j + 1]
        BY <1>12, <3>4
      <4>. QED
        BY <1>12, <3>1, <3>4, <4>4, <4>5
    <3>. QED
      BY <3>2, <3>3, <3>4
  <2>3. ASSUME NEW g \in 0 .. n, NEW j \in 0 .. n, d[g] = d[j]
        PROVE  g = j
    <3>1. c[g] = c[j] => g = j
      BY <1>3 DEF Linked
    <3>2. c[g] # next_block /\ c[j] # next_block
      BY <1>5, ListType DEF T
    <3>. QED
      BY <1>12, <2>3, <3>1, <3>2
  <2>. QED
    BY <2>1, <2>2, <2>3 DEF Linked, next
<1>14. Held' = Held \cup {block}
  <2> DEFINE b == [at |-> block, size |-> size]
  <2>1. live' = live \cup {b} /\ b.at = block
    BY <1>1
  <2> HIDE DEF b
  <2>. QED
    BY <2>1 DEF Held
<1>15. InList(d) = (InList(c) \ {block}) \cup {next_block}
  <2>1. ASSUME NEW j \in 0 .. n
        PROVE  d[j] \in (InList(c) \ {block}) \cup {next_block}
    BY <1>2, <1>3, <1>12, ListType DEF Linked
  <2>2. ASSUME NEW j \in 0 .. n, c[j] # block
        PROVE  c[j] = d[j]
    BY <1>2, <1>12, <2>2
  <2>3. DOMAIN c = 0 .. n /\ DOMAIN d = 0 .. n
    BY <1>12
  <2>. QED
    BY <1>12, <2>1, <2>2, <2>3 DEF InList
<1>16. InList(d) \cap Held' = {}
  BY <1>3, <1>4, <1>5, <1>14, <1>15 DEF T
<1>17. Tiled(InList(d) \cup Held', mem')
  <2>1. InList(d) \cup Held' = T \cup {next_block}
    BY <1>4, <1>14, <1>15 DEF T
  <2>2. next_block = block + 2 + size
    BY DEF next_block
  <2>3. Tiled(T \cup {block + 2 + size}, mem')
    BY <1>1, <1>3, <1>4, <1>8, <1>11, <2>2, SplitTiles
  <2>. QED
    BY <2>1, <2>2, <2>3
<1>18. Kept'
  <2>1. live' \subseteq [at : Starts, size : Nat]
    BY <1>1, <1>3, <1>4 DEF Kept
  <2>2. \A b \in live : b.at \in T /\ b.at # block /\ mem[b.at] = b.size
    <3> SUFFICES ASSUME NEW b \in live
                 PROVE  b.at \in T /\ b.at # block /\ mem[b.at] = b.size
      OBVIOUS
    <3>1. b.at \in Held /\ b.at \in Starts /\ b.at + 0 = b.at /\ mem[b.at + 0] = b.size
      BY <1>3, HeapAssumption DEF Kept, Held, length, Starts
    <3>. QED
      BY <1>3, <1>4, <3>1 DEF T
  <2>3. \A b \in live' : mem'[b.at] = b.size
    BY <1>1, <1>8, <1>11, <2>2
  <2>. QED
    <3>1. \A b \in live' : b.at + 0 = b.at
      BY <2>1, HeapAssumption DEF Starts
    <3>. QED
      BY <1>1, <1>8, <2>1, <2>3, <3>1 DEF Kept, length
<1>19. Searched(d, n)'
  BY <1>1 DEF Searched
<1>20. Ordered(d, n)'
  BY <1>13, <1>16, <1>17, <1>18, <1>19 DEF Ordered
<1>. QED
  BY <1>12, <1>20

\* Dealloc puts the block before the list.
LEMMA DeallocStep ==
  ASSUME NEW n \in Nat, NEW c \in [0 .. n -> Starts], Ordered(c, n), Dealloc
  PROVE  \E d \in [0 .. n + 1 -> Starts] : Ordered(d, n + 1)'
<1> DEFINE T == InList(c) \cup Held
<1>1. PICK b \in live : /\ call = "none" /\ call' = call /\ mem' = Freed(b.at)
                        /\ free_blocks' = b.at /\ live' = live \ {b}
  BY DEF Dealloc
<1>2. Tiled(T, mem) /\ Linked(c, n) /\ Kept /\ InList(c) \cap Held = {}
  BY DEF Ordered
<1>3. /\ b.at \in Starts /\ b.at \in Nat /\ b.at + 1 \in Addresses
      /\ b.at \in Held /\ b.at \in T /\ b.at \notin InList(c)
  BY <1>2, HeapAssumption DEF Kept, Held, Starts, Addresses, LastAddress
<1>4. c[0] = free_blocks /\ c[0] \in Starts /\ c[0] \in Int
  BY <1>2, HeapAssumption DEF Linked, Starts
<1>5. /\ mem' \in [Addresses -> Int] /\ mem'[b.at + 1] = c[0]
      /\ \A a \in Addresses : a # b.at + 1 => mem'[a] = mem[a]
  BY <1>1, <1>2, <1>3, <1>4 DEF Freed, Kept, next
<1> HIDE DEF T
<1>6. \A t \in T : t \in Addresses /\ mem'[t] = mem[t]
  <2> SUFFICES ASSUME NEW t \in T
               PROVE  t \in Addresses /\ mem'[t] = mem[t]
    OBVIOUS
  <2>1. t \in Addresses /\ t \in Int
    BY <1>2, HeapAssumption DEF Tiled, Starts, Addresses, LastAddress
  <2>2. t # b.at + 1
    <3>1. CASE t = b.at
      BY <1>3, <3>1
    <3>2. CASE t # b.at
      <4>1. mem[b.at] \in Nat /\ \A d \in 0 .. mem[b.at] + 1 : t # b.at + d
        BY <1>2, <1>3, <3>2, HeadersApart
      <4>2. 1 \in 0 .. mem[b.at] + 1
        BY <4>1
      <4>. QED
        BY <4>1, <4>2
    <3>. QED
      BY <3>1, <3>2
  <2>. QED
    BY <1>5, <2>1, <2>2
<1>7. PICK d \in [0 .. n + 1 -> Starts] : \A j \in 0 .. n + 1 : d[j] = IF j = 0 THEN b.at ELSE c[j - 1]
  <2> DEFINE e == [j \in 0 .. n + 1 |-> IF j = 0 THEN b.at ELSE c[j - 1]]
  <2>1. e \in [0 .. n + 1 -> Starts]
    BY <1>3
  <2>. QED
    BY <2>1
<1>8. Linked(d, n + 1)'
  <2>1. d[0] = free_blocks'
    BY <1>1, <1>7
  <2>2. ASSUME NEW j \in 0 .. n + 1
        PROVE  mem'[d[j] + 1] = IF j < n + 1 THEN d[j + 1] ELSE null
    <3>1. CASE j = 0
      BY <1>5, <1>7, <3>1
    <3>2. CASE j # 0
      <4>1. j - 1 \in 0 .. n /\ d[j] = c[j - 1] /\ (j < n + 1 <=> j - 1 < n)
        BY <1>7, <3>2
      <4>2. mem[c[j - 1] + 1] = IF j - 1 < n THEN c[(j - 1) + 1] ELSE null
        BY <1>2, <4>1 DEF Linked, next
      <4>3. c[j - 1] \in Starts /\ c[j - 1] \in Int /\ c[j - 1] # b.at /\ c[j - 1] + 1 \in Addresses
        BY <1>3, <4>1, ListType
      <4>4. mem'[d[j] + 1] = mem[c[j - 1] + 1]
        BY <1>3, <1>5, <4>1, <4>3
      <4>5. j < n + 1 => d[j + 1] = c[(j - 1) + 1]
        BY <1>7, <3>2
      <4>. QED
        BY <4>1, <4>2, <4>4, <4>5
    <3>. QED
      BY <3>1, <3>2
  <2>3. ASSUME NEW k \in 0 .. n + 1, NEW j \in 0 .. n + 1, d[k] = d[j]
        PROVE  k = j
    <3>1. \A h \in 1 .. n + 1 : h - 1 \in 0 .. n /\ d[h] = c[h - 1] /\ d[h] # d[0]
      BY <1>3, <1>7, ListType
    <3>2. CASE k = 0 \/ j = 0
      BY <2>3, <3>1, <3>2
    <3>3. CASE k # 0 /\ j # 0
      <4>1. k - 1 \in 0 .. n /\ j - 1 \in 0 .. n /\ c[k - 1] = c[j - 1]
        BY <2>3, <3>1, <3>3
      <4>2. k - 1 = j - 1
        BY <1>2, <4>1 DEF Linked
      <4>. QED
        BY <4>2
    <3>. QED
      BY <3>2, <3>3
  <2>. QED
    BY <2>1, <2>2, <2>3 DEF Linked, next
<1>9. InList(d) = InList(c) \cup {b.at}
  <2>1. \A j \in 0 .. n : j + 1 \in 0 .. n + 1 /\ d[j + 1] = c[j]
    BY <1>7
  <2>2. \A j \in 0 .. n + 1 : j = 0 \/ (j - 1 \in 0 .. n /\ d[j] = c[j - 1])
    BY <1>7
  <2>3. DOMAIN c = 0 .. n /\ DOMAIN d = 0 .. n + 1 /\ 0 \in 0 .. n + 1 /\ d[0] = b.at
    BY <1>7
  <2>4. InList(c) \subseteq InList(d)
    BY <2>1, <2>3 DEF InList
  <2>5. InList(d) \subseteq InList(c) \cup {b.at}
    BY <2>2, <2>3 DEF InList
  <2>. QED
    BY <2>3, <2>4, <2>5 DEF InList
<1>10. Held' = Held \ {b.at}
  <2> SUFFICES ASSUME NEW e \in live, e.at = b.at
               PROVE  e = b
    BY <1>1 DEF Held
  <2>1. /\ e \in [at : Starts, size : Nat] /\ b \in [at : Starts, size : Nat]
        /\ e.size = mem[e.at + length] /\ b.size = mem[b.at + length]
    BY <1>2 DEF Kept
  <2>2. e.size = b.size
    BY <2>1
  <2>. QED
    BY <2>1, <2>2
<1>11. InList(d) \cap Held' = {} /\ InList(d) \cup Held' = T
  BY <1>2, <1>3, <1>9, <1>10 DEF T
<1>12. Tiled(T, mem')
  BY <1>2, <1>6, SameTiles
<1>13. Kept'
  <2>1. \A e \in live : e.at \in T /\ e.at + length = e.at
    BY <1>2, HeapAssumption DEF T, Held, Kept, length, Starts
  <2>2. \A e \in live' : mem'[e.at + length] = e.size
    BY <1>1, <1>2, <1>6, <2>1 DEF Kept
  <2>. QED
    BY <1>1, <1>2, <1>5, <2>2 DEF Kept
<1>14. Searched(d, n + 1)'
  BY <1>1 DEF Searched
<1>15. Ordered(d, n + 1)'
  BY <1>8, <1>11, <1>12, <1>13, <1>14 DEF Ordered
<1>. QED
  BY <1>7, <1>15

LEMMA InvStep == IInv /\ [Next]_vars => IInv'
<1> SUFFICES ASSUME IInv, [Next]_vars, ~tight'
             PROVE  \E n \in Nat : \E c \in [0 .. n -> Starts] : Ordered(c, n)'
  BY DEF IInv
<1>1. ~tight
  BY DEF Next, Alloc, Traverse, OutOfMemory, Split, Dealloc, vars
<1>2. PICK n \in Nat : \E c \in [0 .. n -> Starts] : Ordered(c, n)
  BY <1>1 DEF IInv
<1>3. PICK c \in [0 .. n -> Starts] : Ordered(c, n)
  BY <1>2
<1>4. CASE Alloc \/ Traverse \/ OutOfMemory
  BY <1>3, <1>4, SearchStep
<1>5. CASE Split
  BY <1>3, <1>5, SplitStep
<1>6. CASE Dealloc
  <2>1. \E d \in [0 .. n + 1 -> Starts] : Ordered(d, n + 1)'
    BY <1>3, <1>6, DeallocStep
  <2>2. n + 1 \in Nat
    OBVIOUS
  <2>. QED
    BY <2>1, <2>2
<1>7. CASE UNCHANGED vars
  <2>1. Ordered(c, n)'
    BY <1>3, <1>7 DEF vars, Ordered, Kept, Linked, Searched, Held
  <2>. QED
    BY <2>1
<1>. QED
  BY <1>4, <1>5, <1>6, <1>7 DEF Next

\* A step of Math leaves the heap alone.
LEMMA StepOfHeap == [OSNext]_<<class, vars, mathVars>> => [Next]_vars
BY DEF OSNext, MemoryStep, MathStep, vars

LEMMA Invariance == OSSpec => []IInv
<1>1. OSInit => IInv
  BY InitOrdered DEF OSInit
<1>. QED
  BY <1>1, StepOfHeap, InvStep, PTL DEF OSSpec

-----------------------------------------------------------------------------
(***************************************************************************)
(* The list that the invariant speaks of is the one JackHeap follows.      *)
(***************************************************************************)

\* Every block but the last takes two words, so the list has no more blocks than
\* Chain has places.
LEMMA ListFits ==
  ASSUME NEW n \in Nat, NEW c \in [0 .. n -> Starts],
         \A j, k \in 0 .. n : c[j] = c[k] => j = k
  PROVE  n <= HeapLength
<1> SUFFICES ASSUME ~(n <= HeapLength)
             PROVE  FALSE
  OBVIOUS
<1>1. /\ IsFiniteSet(Starts) /\ Cardinality(Starts) = HeapLength + 1
      /\ IsFiniteSet(0 .. n) /\ Cardinality(0 .. n) = n + 1
  BY HeapAssumption, FS_Interval DEF Starts
<1>2. Cardinality(Starts) < Cardinality(0 .. n)
  BY <1>1, HeapAssumption
<1>. QED
  BY <1>1, <1>2, FS_PigeonHole

LEMMA FreeIsList ==
  ASSUME NEW n \in Nat, NEW c \in [0 .. n -> Starts], Ordered(c, n)
  PROVE  FreeBlocks = InList(c)
<1>1. Linked(c, n) /\ n <= HeapLength /\ HeapLength \in Nat
  BY ListFits, HeapAssumption DEF Ordered, Linked
<1> DEFINE g == [k \in 0 .. HeapLength |-> IF k <= n THEN c[k] ELSE null]
           Follow(f) == [k \in 0 .. HeapLength |->
                           IF k = 0 THEN free_blocks
                           ELSE LET b == f[k - 1] IN IF b = null THEN null ELSE mem[b + next]]
<1>2. g = Follow(g)
  <2>1. \A k \in 0 .. HeapLength : k # 0 => k - 1 \in 0 .. HeapLength
    BY <1>1
  <2>2. g[0] = free_blocks
    BY <1>1 DEF Linked
  <2>3. ASSUME NEW k \in 0 .. HeapLength, k # 0
        PROVE  g[k] = LET b == g[k - 1] IN IF b = null THEN null ELSE mem[b + next]
    <3>1. k - 1 \in 0 .. HeapLength /\ g[k - 1] = IF k - 1 <= n THEN c[k - 1] ELSE null
      BY <1>1, <2>3
    <3>2. CASE k - 1 <= n
      <4>1. k - 1 \in 0 .. n /\ c[k - 1] # null
        BY <2>3, <3>2, ListType
      <4>2. mem[c[k - 1] + next] = IF k - 1 < n THEN c[(k - 1) + 1] ELSE null
        BY <1>1, <4>1 DEF Linked
      <4>3. (k - 1) + 1 = k /\ (k - 1 < n <=> k <= n)
        BY <2>3
      <4>. QED
        BY <3>1, <3>2, <4>1, <4>2, <4>3
    <3>3. CASE ~(k - 1 <= n)
      BY <2>3, <3>1, <3>3
    <3>. QED
      BY <3>2, <3>3
  <2>. QED
    BY <2>2, <2>3
<1>3. Chain = Follow(Chain)
  BY <1>2 DEF Chain
<1>4. \A k \in 0 .. HeapLength : Chain[k] = g[k]
  <2> HIDE DEF g
  <2>1. Chain[0] = g[0]
    <3>1. 0 \in 0 .. HeapLength
      BY <1>1
    <3>2. Chain[0] = free_blocks
      BY <1>3, <3>1
    <3>3. g[0] = free_blocks
      BY <1>2, <3>1
    <3>. QED
      BY <3>2, <3>3
  <2>2. ASSUME NEW k \in 0 .. HeapLength, k + 1 \in 0 .. HeapLength, Chain[k] = g[k]
        PROVE  Chain[k + 1] = g[k + 1]
    <3>1. k + 1 # 0 /\ (k + 1) - 1 = k
      OBVIOUS
    <3>2. Chain[k + 1] = IF Chain[k] = null THEN null ELSE mem[Chain[k] + next]
      BY <1>3, <2>2, <3>1
    <3>3. g[k + 1] = IF g[k] = null THEN null ELSE mem[g[k] + next]
      BY <1>2, <2>2, <3>1
    <3>. QED
      BY <2>2, <3>2, <3>3
  <2>. QED
    BY <1>1, <2>1, <2>2, SameRecursion
<1>5. \A k \in 0 .. HeapLength : Chain[k] = IF k <= n THEN c[k] ELSE null
  BY <1>4
<1>6. FreeBlocks \subseteq InList(c)
  <2>1. \A k \in 0 .. HeapLength : k <= n => k \in 0 .. n
    OBVIOUS
  <2>. QED
    BY <1>5, <2>1, ListType DEF FreeBlocks
<1>7. InList(c) \subseteq FreeBlocks
  <2> SUFFICES ASSUME NEW k \in 0 .. n
               PROVE  c[k] \in FreeBlocks
    BY DEF InList
  <2>1. k \in 0 .. HeapLength /\ Chain[k] = c[k] /\ c[k] # null
    BY <1>1, <1>5, ListType
  <2>. QED
    BY <2>1 DEF FreeBlocks
<1>. QED
  BY <1>6, <1>7

LEMMA InvPartitioned == IInv => Partitioned
<1> SUFFICES ASSUME IInv, ~tight, NEW a \in Heap
             PROVE  Cardinality({b \in FreeBlocks : a \in Extent(b, mem[b + length])})
                      + Cardinality({b \in live : a \in Extent(b.at, b.size)}) = 1
  BY DEF Partitioned, Heap
<1>1. PICK n \in Nat : \E c \in [0 .. n -> Starts] : Ordered(c, n)
  BY DEF IInv
<1>2. PICK c \in [0 .. n -> Starts] : Ordered(c, n)
  BY <1>1
<1> DEFINE F == {b \in FreeBlocks : a \in Extent(b, mem[b + length])}
           L == {b \in live : a \in Extent(b.at, b.size)}
           T == InList(c) \cup Held
<1>3. Tiled(T, mem) /\ Kept /\ FreeBlocks = InList(c) /\ InList(c) \cap Held = {}
  BY <1>2, FreeIsList DEF Ordered
<1>4. PICK s \in T : s <= a /\ a <= s + 1 + mem[s]
  BY <1>3 DEF Tiled
<1>5. ASSUME NEW t \in T, t <= a, a <= t + 1 + mem[t]
      PROVE  t = s
  <2>1. s \in Int /\ t \in Int /\ mem[s] \in Nat /\ mem[t] \in Nat /\ a \in Int
    BY <1>3, HeapAssumption DEF Tiled, Starts, Heap
  <2>2. (s < t => s + 1 + mem[s] < t) /\ (t < s => t + 1 + mem[t] < s)
    BY <1>3 DEF Tiled
  <2>. QED
    BY <1>4, <1>5, <2>1, <2>2
<1>6. \A b \in FreeBlocks : a \in Extent(b, mem[b + length]) <=> b = s
  <2> SUFFICES ASSUME NEW b \in FreeBlocks
               PROVE  a \in b .. b + 1 + mem[b] <=> b = s
    <3>1. \A d \in FreeBlocks : d + length = d
      BY <1>3, HeapAssumption DEF Tiled, Starts, length
    <3>. QED
      BY <3>1 DEF Extent
  <2>1. b \in T /\ b \in Int /\ mem[b] \in Nat /\ a \in Int /\ s \in Int /\ mem[s] \in Nat
    BY <1>3, HeapAssumption DEF Tiled, Starts, Heap
  <2>. QED
    BY <1>4, <1>5, <2>1
<1>7. \A b \in live : a \in Extent(b.at, b.size) <=> b.at = s
  <2> SUFFICES ASSUME NEW b \in live
               PROVE  a \in b.at .. b.at + 1 + b.size <=> b.at = s
    BY DEF Extent
  <2>1. b.at \in T /\ b.at \in Int /\ mem[b.at] = b.size
    BY <1>3, HeapAssumption DEF Kept, Starts, Held, length
  <2>2. mem[b.at] \in Nat /\ a \in Int /\ s \in Int /\ mem[s] \in Nat
    BY <1>3, <2>1, HeapAssumption DEF Tiled, Starts, Heap
  <2>. QED
    BY <1>4, <1>5, <2>1, <2>2
<1>8. CASE s \in InList(c)
  <2>1. F = {s}
    BY <1>3, <1>6, <1>8
  <2>2. L = {}
    BY <1>3, <1>7, <1>8 DEF Held
  <2>3. Cardinality(F) = 1 /\ Cardinality(L) = 0
    BY <2>1, <2>2, FS_EmptySet, FS_Singleton
  <2>. QED
    BY <2>3
<1>9. CASE s \in Held
  <2>1. PICK b \in live : b.at = s
    BY <1>9 DEF Held
  <2>2. \A d \in live : d.at = s => d = b
    <3> SUFFICES ASSUME NEW d \in live, d.at = s
                 PROVE  d = b
      OBVIOUS
    <3>1. /\ d \in [at : Starts, size : Nat] /\ b \in [at : Starts, size : Nat]
          /\ d.size = mem[d.at + length] /\ b.size = mem[b.at + length]
      BY <1>3 DEF Kept
    <3>2. d.size = b.size
      BY <2>1, <3>1
    <3>. QED
      BY <2>1, <3>1, <3>2
  <2>3. L = {b}
    BY <1>7, <2>1, <2>2
  <2>4. F = {}
    BY <1>3, <1>6, <1>9
  <2>5. Cardinality(F) = 0 /\ Cardinality(L) = 1
    BY <2>3, <2>4, FS_EmptySet, FS_Singleton
  <2>. QED
    BY <2>5
<1>. QED
  BY <1>8, <1>9

-----------------------------------------------------------------------------
\* As long as no block was split that has no room for a second header, every word of
\* the heap, headers included, is in exactly one block, free or in use: alloc and
\* dealloc lose nothing and hand nothing out twice.
THEOREM AlwaysPartitioned == OSSpec => []Partitioned
BY Invariance, InvPartitioned, PTL

\* As long as no such block was split, the length word of a block in use is the size
\* it was asked for with, whatever is allocated and given back around it.
THEOREM LengthsAlwaysKept == OSSpec => []LengthsKept
<1>1. IInv => LengthsKept
  BY DEF IInv, Ordered, Kept, LengthsKept
<1>. QED
  BY <1>1, Invariance, PTL

\* As long as no such block was split, the blocks in use do not overlap: what
\* Memory.alloc says of itself (memory.jack:62-63) fails by the tight split alone.
THEOREM OverlapOnlyWhenTight == OSSpec => [](~tight => Disjoint)
<1>1. IInv => (~tight => Disjoint)
  <2> SUFFICES ASSUME IInv, ~tight, NEW b \in live, NEW d \in live, b # d
               PROVE  Extent(b.at, b.size) \cap Extent(d.at, d.size) = {}
    BY DEF Disjoint
  <2>1. PICK n \in Nat : \E c \in [0 .. n -> Starts] : Ordered(c, n)
    BY DEF IInv
  <2>2. PICK c \in [0 .. n -> Starts] : Ordered(c, n)
    BY <2>1
  <2>3. Kept /\ Tiled(InList(c) \cup Held, mem)
    BY <2>2 DEF Ordered
  <2>4. /\ b \in [at : Starts, size : Nat] /\ d \in [at : Starts, size : Nat]
        /\ b.size = mem[b.at] /\ d.size = mem[d.at]
        /\ b.at \in Int /\ d.at \in Int
    BY <2>3, HeapAssumption DEF Kept, Starts, length
  <2>5. b.at # d.at
    <3>1. b.at = d.at => b.size = d.size
      BY <2>4
    <3>. QED
      BY <2>4, <3>1
  <2>6. b.at + 1 + b.size < d.at \/ d.at + 1 + d.size < b.at
    <3>1. b.at \in InList(c) \cup Held /\ d.at \in InList(c) \cup Held
      BY DEF Held
    <3>2. /\ b.at < d.at => b.at + 1 + mem[b.at] < d.at
          /\ d.at < b.at => d.at + 1 + mem[d.at] < b.at
      BY <2>3, <3>1 DEF Tiled
    <3>. QED
      BY <2>4, <2>5, <3>2
  <2>. QED
    BY <2>4, <2>6 DEF Extent
<1>. QED
  BY <1>1, Invariance, PTL

-----------------------------------------------------------------------------
(* Remainders and quotients. *)

LEMMA Division ==
  ASSUME NEW a \in Int, NEW n \in Nat \ {0}
  PROVE  /\ a \div n \in Int
         /\ a % n \in 0 .. n - 1
         /\ a = (a \div n) * n + (a % n)
OBVIOUS

LEMMA Remainder ==
  ASSUME NEW n \in Nat \ {0}, NEW q \in Int, NEW r \in 0 .. n - 1
  PROVE  (q * n + r) % n = r
OBVIOUS

LEMMA QuotientIs ==
  ASSUME NEW n \in Nat \ {0}, NEW q \in Int, NEW r \in 0 .. n - 1
  PROVE  (q * n + r) \div n = q
OBVIOUS

LEMMA SmallRemainder ==
  ASSUME NEW n \in Nat \ {0}, NEW r \in 0 .. n - 1
  PROVE  r % n = r /\ (r - n) % n = r
<1>1. 0 * n + r = r /\ -1 * n + r = r - n
  OBVIOUS
<1>. QED
  BY <1>1, Remainder

LEMMA NoRemainder ==
  ASSUME NEW n \in Nat \ {0}, NEW q \in Int
  PROVE  (q * n) % n = 0
<1>1. 0 \in 0 .. n - 1 /\ q * n + 0 = q * n
  OBVIOUS
<1>2. (q * n + 0) % n = 0
  BY <1>1, Remainder
<1>. QED
  BY <1>1, <1>2

LEMMA RemainderPlus ==
  ASSUME NEW a \in Int, NEW b \in Int, NEW n \in Nat \ {0}
  PROVE  ((a % n) + (b % n)) % n = (a + b) % n
<1>1. PICK p \in Int, s \in 0 .. n - 1 : a = p * n + s /\ a % n = s
  BY Division
<1>2. PICK q \in Int, t \in 0 .. n - 1 : b = q * n + t /\ b % n = t
  BY Division
<1>3. PICK d \in Int, r \in 0 .. n - 1 : s + t = d * n + r /\ (s + t) % n = r
  <2>1. s + t \in Int
    OBVIOUS
  <2>. QED
    BY <2>1, Division
<1>4. PICK u, v, w \in Int : u = p * n /\ v = q * n /\ w = d * n
  OBVIOUS
<1>5. PICK z \in Int : z = (p + q + d) * n
  OBVIOUS
<1>6. z = u + v + w
  BY <1>4, <1>5
<1>7. a = u + s /\ b = v + t /\ s + t = w + r
  BY <1>1, <1>2, <1>3, <1>4
<1>8. a + b = z + r
  BY ONLY <1>6, <1>7, a \in Int, b \in Int, s \in Int, t \in Int, r \in Int,
          u \in Int, v \in Int, w \in Int, z \in Int
<1>9. (z + r) % n = r
  <2>1. p + q + d \in Int
    OBVIOUS
  <2>. QED
    BY <1>5, <2>1, Remainder
<1>. QED
  BY <1>1, <1>2, <1>3, <1>8, <1>9

-----------------------------------------------------------------------------
(* Powers of two. *)

Doubles(p, N) == p[0] = 1 /\ \A k \in 0 .. N - 1 : p[k + 1] = p[k] + p[k]

LEMMA DoublesAbove ==
  ASSUME NEW N \in Nat, NEW p, Doubles(p, N)
  PROVE  \A k \in 0 .. N : p[k] \in Nat /\ p[k] > k
<1> DEFINE S == {k \in Nat : k \in 0 .. N => p[k] \in Nat /\ p[k] > k}
<1>1. 0 \in S
  BY DEF Doubles
<1>2. ASSUME NEW k \in Nat, k \in S
      PROVE  k + 1 \in S
  BY <1>2 DEF Doubles
<1>3. Nat \subseteq S
  <2> HIDE DEF S
  <2>. QED
    BY <1>1, <1>2, SetInduction
<1>. QED
  BY <1>3

LEMMA DoublesAdd ==
  ASSUME NEW N \in Nat, NEW p, Doubles(p, N), NEW j \in 0 .. N
  PROVE  \A k \in 0 .. N : j + k <= N => p[j + k] = p[j] * p[k]
<1> DEFINE S == {k \in Nat : k \in 0 .. N /\ j + k <= N => p[j + k] = p[j] * p[k]}
<1>0. \A k \in 0 .. N : p[k] \in Nat
  BY DoublesAbove
<1>1. 0 \in S
  BY <1>0 DEF Doubles
<1>2. ASSUME NEW k \in Nat, k \in S
      PROVE  k + 1 \in S
  <2> SUFFICES ASSUME k + 1 \in 0 .. N, j + (k + 1) <= N
               PROVE  p[j + (k + 1)] = p[j] * p[k + 1]
    OBVIOUS
  <2>1. p[j + k] = p[j] * p[k]
    BY <1>2
  <2>2. p[j + (k + 1)] = p[j + k] + p[j + k]
    <3>1. j + k \in 0 .. N - 1 /\ j + (k + 1) = (j + k) + 1
      OBVIOUS
    <3>. QED
      BY <3>1 DEF Doubles
  <2>3. p[k + 1] = p[k] + p[k]
    BY DEF Doubles
  <2>4. p[j] \in Nat /\ p[k] \in Nat
    BY <1>0
  <2>. QED
    BY <2>1, <2>2, <2>3, <2>4
<1>3. Nat \subseteq S
  <2> HIDE DEF S
  <2>. QED
    BY <1>1, <1>2, SetInduction
<1>. QED
  BY <1>3

\* The smaller of two powers has the smaller exponent.
LEMMA DoublesUp ==
  ASSUME NEW N \in Nat, NEW p, Doubles(p, N), NEW j \in 0 .. N, NEW k \in 0 .. N, j <= k
  PROVE  p[j] <= p[k]
<1>1. k - j \in 0 .. N /\ j + (k - j) = k
  OBVIOUS
<1>2. p[k] = p[j] * p[k - j]
  BY <1>1, DoublesAdd
<1>3. p[j] \in Nat /\ p[k - j] \in Nat \ {0}
  BY <1>1, DoublesAbove
<1>. QED
  BY <1>2, <1>3

LEMMA PowersDouble == Doubles(Math!two_to_the, WordBits)
<1> DEFINE step == [n \in Nat |-> [v \in Nat |-> v + v]]
           double(f) == [k \in 0 .. WordBits |-> IF k = 0 THEN 1 ELSE f[k - 1] + f[k - 1]]
<1>0. WordBits \in Nat
  BY MathAssumption
<1>1. PICK g : Recurs(g, Nat, 1, step)
  <2>1. step \in [Nat -> [Nat -> Nat]]
    OBVIOUS
  <2>. QED
    BY <2>1, Recursion
<1>2. g[0] = 1 /\ \A n \in Nat : g[n] \in Nat /\ g[n + 1] = g[n] + g[n]
  BY <1>1 DEF Recurs
<1> DEFINE f == [k \in 0 .. WordBits |-> g[k]]
<1>3. f = double(f)
  <2>1. ASSUME NEW k \in 0 .. WordBits, k # 0
        PROVE  g[k] = f[k - 1] + f[k - 1]
    <3>1. k - 1 \in Nat /\ k - 1 \in 0 .. WordBits /\ (k - 1) + 1 = k
      BY <1>0, <2>1
    <3>. QED
      BY <1>2, <3>1
  <2>. QED
    BY <1>2, <2>1
<1> HIDE DEF f
<1>4. Math!two_to_the = double(Math!two_to_the)
  BY <1>3 DEF Math!two_to_the
<1>. QED
  BY <1>0, <1>4 DEF Doubles

-----------------------------------------------------------------------------
(* Words, and how they are compared. *)

Half == Math!two_to_the[WordBits - 1]

LEMMA WordSizes ==
  /\ WordBits \in Nat /\ WordBits >= 2
  /\ Half \in Nat \ {0} /\ Math!Size \in Nat \ {0} /\ Math!Size = Half + Half
  /\ Math!Word = 0 .. Math!Size - 1
  /\ \A w \in Math!Word : Math!Signed(w) = IF w >= Half THEN w - Math!Size ELSE w
<1>1. WordBits \in Nat /\ WordBits >= 2
  BY MathAssumption DEF Math!BitsOfWords
<1>2. WordBits - 1 \in 0 .. WordBits - 1 /\ (WordBits - 1) + 1 = WordBits
  BY <1>1
<1>3. Math!Size = Half + Half
  BY <1>2, PowersDouble DEF Doubles, Half, Math!Size
<1>4. Half \in Nat \ {0}
  BY <1>1, PowersDouble, DoublesAbove DEF Half
<1>5. Math!Size \div 2 = Half
  BY <1>3, <1>4
<1>6. Math!Word = 0 .. Math!Size - 1
  BY DEF Math!Word
<1>7. \A w \in Math!Word : Math!Signed(w) = IF w >= Half THEN w - Math!Size ELSE w
  BY <1>5 DEF Math!Signed
<1>. QED
  BY <1>1, <1>3, <1>4, <1>6, <1>7

\* The difference of two words, wrapped around, has the sign of the difference when that is
\* no more than half the words.
LEMMA SignOfDifference ==
  ASSUME NEW d \in Int, -Half <= d, d < Half
  PROVE  Math!Signed(d % Math!Size) = d
<1> DEFINE n == Math!Size
<1>1. Half \in Nat \ {0} /\ n \in Nat \ {0} /\ n = Half + Half /\ Math!Word = 0 .. n - 1
  BY WordSizes
<1>2. CASE d >= 0
  <2>1. d \in 0 .. n - 1
    BY <1>1, <1>2
  <2>2. d % n = d
    BY <1>1, <2>1, SmallRemainder
  <2>. QED
    BY <1>1, <2>1, <2>2, WordSizes
<1>3. CASE d < 0
  <2>1. d + n \in 0 .. n - 1 /\ (d + n) - n = d /\ d + n >= Half
    BY <1>1, <1>3
  <2>2. d % n = d + n
    BY <1>1, <2>1, SmallRemainder
  <2>. QED
    BY <1>1, <2>1, <2>2, WordSizes
<1>. QED
  BY <1>2, <1>3

LEMMA GtMeans ==
  ASSUME NEW a \in Int, NEW b \in Int, -Half <= b - a, b - a < Half
  PROVE  Math!Gt(a, b) <=> a > b
<1>1. Math!Signed((b - a) % Math!Size) = b - a
  BY SignOfDifference
<1>. QED
  BY <1>1 DEF Math!Gt

LEMMA LtMeans ==
  ASSUME NEW a \in Int, NEW b \in Int, -Half <= b - a, b - a < Half
  PROVE  Math!Lt(a, b) <=> a < b
<1>1. Math!Signed((b - a) % Math!Size) = b - a
  BY SignOfDifference
<1>. QED
  BY <1>1 DEF Math!Lt

\* A word compared with zero: of the negative ones the smallest is greater than zero.
LEMMA GtZero ==
  ASSUME NEW w \in Math!Word
  PROVE  Math!Gt(w, 0) <=> w > 0 /\ w <= Half
<1>1. Half \in Nat \ {0} /\ Math!Size = Half + Half /\ w \in Nat /\ w < Math!Size
  BY WordSizes
<1>2. CASE w <= Half
  BY <1>1, <1>2, GtMeans
<1>3. CASE w > Half
  <2>1. Math!Size - w \in 0 .. Math!Size - 1 /\ (Math!Size - w) - Math!Size = 0 - w
    BY <1>1, <1>3
  <2>2. (0 - w) % Math!Size = Math!Size - w
    BY <2>1, SmallRemainder, WordSizes
  <2>3. Math!Signed(Math!Size - w) = Math!Size - w
    BY <1>1, <1>3, <2>1, WordSizes
  <2>. QED
    BY <1>1, <1>3, <2>2, <2>3 DEF Math!Gt
<1>. QED
  BY <1>1, <1>2, <1>3

LEMMA PowersOfWords ==
  ASSUME NEW k \in 0 .. WordBits - 1
  PROVE  /\ Math!two_to_the[k] \in Math!Word /\ Math!two_to_the[k] > 0
         /\ Math!two_to_the[k] <= Half
         /\ Math!two_to_the[k + 1] = Math!two_to_the[k] + Math!two_to_the[k]
<1>1. WordBits \in Nat /\ k \in 0 .. WordBits /\ WordBits - 1 \in 0 .. WordBits /\ k <= WordBits - 1
  BY WordSizes
<1>2. Math!two_to_the[k] \in Nat /\ Math!two_to_the[k] > k
  BY <1>1, PowersDouble, DoublesAbove
<1>3. Math!two_to_the[k] <= Half
  BY <1>1, PowersDouble, DoublesUp DEF Half
<1>4. Math!two_to_the[k + 1] = Math!two_to_the[k] + Math!two_to_the[k]
  BY PowersDouble DEF Doubles
<1>. QED
  BY <1>2, <1>3, <1>4, WordSizes

\* Math.bit finds every bit, the sign included.
LEMMA BitMeans ==
  ASSUME NEW w \in Math!Word, NEW k \in 0 .. WordBits - 1
  PROVE  Math!bit(w, k) <=> (w \div Math!two_to_the[k]) % 2 = 1
<1>1. And(w, Math!two_to_the[k]) = IF (w \div Math!two_to_the[k]) % 2 = 1 THEN Math!two_to_the[k] ELSE 0
  BY MathAssumption DEF Math!BitsOfWords
<1>2. 0 \in Math!Word
  BY WordSizes
<1>. QED
  BY <1>1, <1>2, GtZero, PowersOfWords DEF Math!bit

-----------------------------------------------------------------------------
(* The inductive invariant. *)

Power(k) == Math!two_to_the[k]

MathTypes ==
  /\ function \in {"multiply", "divide", "sqrt", "dividing", "none"}
  /\ x \in Math!Word /\ y \in Math!Word /\ shifted_x \in Math!Word /\ sum \in Math!Word
  /\ i \in -1 .. WordBits
  /\ calls \in Seq(Math!Word)
  /\ function # "none" => returned = "none"
  /\ function \notin {"divide", "dividing"} => calls = <<>>

\* The product of x and the bits of y that were looked at.
Multiplying ==
  function = "multiply" =>
    /\ i \in 0 .. WordBits
    /\ shifted_x = (x * Power(i)) % Math!Size
    /\ sum = (x * (y % Power(i))) % Math!Size

\* The divisor of the outermost call.
Divisor == IF calls = <<>> THEN y ELSE calls[1]

\* The calls that wait have the doubles of a divisor; and while the dividend is not negative,
\* none of them is larger than the dividend.
Dividing ==
  function \in {"divide", "dividing"} /\ 0 < Divisor /\ Divisor < Half =>
    /\ Len(calls) <= WordBits
    /\ y = (Divisor * Power(Len(calls))) % Math!Size
    /\ \A k \in 1 .. Len(calls) : calls[k] = (Divisor * Power(k - 1)) % Math!Size
    /\ x < Half =>
         /\ \A k \in 1 .. Len(calls) : Divisor * Power(k - 1) <= x
         /\ function = "dividing" => sum = x \div y

\* The root lies between what was found and that with all bits that are left.
Rooting ==
  function = "sqrt" /\ x < Half =>
    \A half \in 1 .. WordBits : WordBits = half + half =>
      /\ i < half
      /\ sum + Power(i + 1) <= Power(half)
      /\ sum * sum <= x /\ x < (sum + Power(i + 1)) * (sum + Power(i + 1))

MathInv ==
  /\ MathTypes
  /\ Multiplying /\ Math!Multiplied
  /\ Dividing /\ Math!Divided
  /\ Rooting /\ Math!Rooted

-----------------------------------------------------------------------------
(* Math.multiply *)

LEMMA OneBitMore ==
  ASSUME NEW b \in Nat, NEW p \in Nat \ {0}
  PROVE  b % (p + p) = IF (b \div p) % 2 = 1 THEN (b % p) + p ELSE b % p
<1> DEFINE q == b \div p
           r == b % p
           h == q \div 2
           t == q % 2
<1>1. q \in Int /\ r \in 0 .. p - 1 /\ b = q * p + r
  BY Division
<1>2. h \in Int /\ t \in 0 .. 1 /\ q = h * 2 + t
  BY <1>1
<1> HIDE DEF q, r, h, t
<1>3. PICK u \in Int : u = h * (p + p)
  BY <1>2
<1>4. q * p = u + t * p
  <2>1. CASE t = 0
    <3>1. (h * 2) * p = h * (p + p)
      BY <1>2
    <3>. QED
      BY <1>2, <1>3, <2>1, <3>1
  <2>2. CASE t = 1
    <3>1. (h * 2 + 1) * p = h * (p + p) + p
      BY <1>2
    <3>. QED
      BY <1>2, <1>3, <2>2, <3>1
  <2>. QED
    BY <1>2, <2>1, <2>2
<1>5. CASE t = 1
  <2>1. b = u + (r + p) /\ r + p \in 0 .. (p + p) - 1
    BY <1>1, <1>4, <1>5
  <2>2. p + p \in Nat \ {0}
    OBVIOUS
  <2>3. (h * (p + p) + (r + p)) % (p + p) = r + p
    BY <1>2, <2>1, <2>2, Remainder
  <2>4. b % (p + p) = r + p
    BY <1>3, <2>1, <2>3
  <2>. QED
    BY <1>5, <2>4 DEF r, t, q
<1>6. CASE t = 0
  <2>1. b = u + r /\ r \in 0 .. (p + p) - 1
    BY <1>1, <1>4, <1>6
  <2>2. b % (p + p) = r
    BY <1>2, <1>3, <2>1, Remainder
  <2>. QED
    BY <1>6, <2>2 DEF r, t, q
<1>. QED
  BY <1>2, <1>5, <1>6

\* Adding up what was shifted, in words that wrap around.
LEMMA MultiplyStep ==
  ASSUME MathTypes, Multiplying, Math!Multiply
  PROVE  Multiplying'
<1> DEFINE n == Math!Size
           p == Power(i)
<1>1. /\ function = "multiply" /\ i \in 0 .. WordBits - 1
      /\ i' = i + 1 /\ x' = x /\ y' = y
      /\ shifted_x' = (shifted_x + shifted_x) % n
      /\ sum' = IF Math!bit(y, i) THEN (sum + shifted_x) % n ELSE sum
      /\ shifted_x = (x * p) % n
      /\ sum = (x * (y % p)) % n
  BY WordSizes DEF MathTypes, Multiplying, Math!Multiply, Math!Plus
<1>2. x \in Nat /\ y \in Nat /\ y \in Int /\ y \in Math!Word /\ n \in Nat \ {0} /\ p \in Nat \ {0}
      /\ Power(i + 1) = p + p
  BY <1>1, WordSizes, PowersOfWords DEF MathTypes, Power
<1> HIDE DEF n, p
<1>3. i + 1 \in 0 .. WordBits
  BY <1>1, WordSizes
<1>4. y % p \in Nat /\ x * p \in Int /\ x * (y % p) \in Int
  <2>1. y % p \in 0 .. p - 1
    BY <1>2, Division
  <2>. QED
    BY <1>2, <2>1
<1>5. shifted_x' = (x * (p + p)) % n
  <2>1. (x * p) + (x * p) = x * (p + p)
    BY <1>2
  <2>2. (shifted_x + shifted_x) % n = ((x * p) + (x * p)) % n
    BY <1>1, <1>2, <1>4, RemainderPlus
  <2>. QED
    BY <1>1, <2>1, <2>2
<1>6. sum' = (x * (y % (p + p))) % n
  <2>1. CASE Math!bit(y, i)
    <3>1. y % (p + p) = (y % p) + p
      BY <1>1, <1>2, <2>1, BitMeans, OneBitMore DEF p, Power
    <3>2. (x * (y % p)) + (x * p) = x * ((y % p) + p)
      BY <1>2, <1>4
    <3>3. (sum + shifted_x) % n = ((x * (y % p)) + (x * p)) % n
      BY <1>1, <1>2, <1>4, RemainderPlus
    <3>. QED
      BY <1>1, <2>1, <3>1, <3>2, <3>3
  <2>2. CASE ~Math!bit(y, i)
    <3>1. y % (p + p) = y % p
      BY <1>1, <1>2, <2>2, BitMeans, OneBitMore DEF p, Power
    <3>. QED
      BY <1>1, <2>2, <3>1
  <2>. QED
    BY <2>1, <2>2
<1>7. Power(i') = p + p
  BY <1>1, <1>2
<1>. QED
  BY <1>1, <1>3, <1>5, <1>6, <1>7 DEF Multiplying, n, Power

-----------------------------------------------------------------------------
(* Math.divide *)

\* Halves of a quotient: a divided by twice d, and by d.
LEMMA QuotientDoubled ==
  ASSUME NEW a \in Nat, NEW d \in Nat \ {0}, NEW q, q = a \div (d + d), NEW r, r = a - 2 * q * d
  PROVE  /\ q \in Nat /\ r \in 0 .. (d + d) - 1
         /\ 2 * q * d \in Nat /\ 2 * q * d <= a
         /\ r < d => a \div d = 2 * q
         /\ ~(r < d) => a \div d = 2 * q + 1 /\ 2 * q + 1 <= a
         /\ 2 * q <= a
<1>1. d + d \in Nat \ {0}
  OBVIOUS
<1>2. q \in Int /\ a % (d + d) \in 0 .. (d + d) - 1 /\ a = q * (d + d) + (a % (d + d))
  <2>1. PICK e \in Nat \ {0} : e = d + d
    BY <1>1
  <2>2. a \div e \in Int /\ a % e \in 0 .. e - 1 /\ a = (a \div e) * e + (a % e)
    BY ONLY a \in Nat, e \in Nat \ {0}, Division
  <2>. QED
    BY ONLY <2>1, <2>2, q = a \div (d + d)
<1>3. q * (d + d) = 2 * q * d /\ 2 * q * d \in Int
  <2>1. q \in Int
    BY <1>2
  <2>. QED
    BY ONLY <2>1, d \in Nat
<1>4. r = a % (d + d) /\ r \in 0 .. (d + d) - 1 /\ 2 * q * d <= a /\ a = 2 * q * d + r
  BY <1>2, <1>3
<1>5. q >= 0
  <2> SUFFICES ASSUME q <= -1 PROVE FALSE
    BY <1>2
  <2>1. q * (d + d) <= -1 * (d + d)
    BY <1>2
  <2>. QED
    BY <1>2, <2>1
<1>6. 2 * q <= 2 * q * d
  BY <1>2, <1>5
<1>7. r < d => a \div d = 2 * q
  <2> SUFFICES ASSUME r < d PROVE a \div d = 2 * q
    OBVIOUS
  <2>1. r \in 0 .. d - 1 /\ 2 * q \in Int
    BY <1>2, <1>4
  <2>2. ((2 * q) * d + r) \div d = 2 * q
    BY <2>1, QuotientIs
  <2>. QED
    BY <1>4, <2>2
<1>8. ~(r < d) => a \div d = 2 * q + 1 /\ 2 * q + 1 <= a
  <2> SUFFICES ASSUME ~(r < d) PROVE a \div d = 2 * q + 1 /\ 2 * q + 1 <= a
    OBVIOUS
  <2>1. r - d \in 0 .. d - 1 /\ 2 * q + 1 \in Int
    BY <1>2, <1>4
  <2>2. ((2 * q + 1) * d + (r - d)) \div d = 2 * q + 1
    BY <2>1, QuotientIs
  <2>3. (2 * q + 1) * d = 2 * q * d + d
    BY <1>2
  <2>4. (2 * q + 1) * d + (r - d) = a
    BY <1>3, <1>4, <2>3
  <2>5. 2 * q + 1 <= a
    BY <1>2, <1>3, <1>4, <1>5, <1>6
  <2>. QED
    BY <2>2, <2>4, <2>5
<1>9. 2 * q <= a
  BY <1>2, <1>3, <1>4, <1>6
<1>. QED
  BY <1>2, <1>3, <1>4, <1>5, <1>7, <1>8, <1>9

\* Below the largest words nothing wraps around: the divisor in use is the outermost one
\* doubled, and it can be compared with the dividend.
LEMMA NoneWrapped ==
  ASSUME MathTypes, Dividing, function \in {"divide", "dividing"}, 0 < Divisor, Divisor < Half, x < Half
  PROVE  /\ Len(calls) <= WordBits - 1
         /\ y = Divisor * Power(Len(calls))
         /\ y > 0
         /\ Math!Gt(y, x) <=> y > x
         /\ \A k \in 1 .. Len(calls) : calls[k] = Divisor * Power(k - 1) /\ calls[k] > 0
<1> DEFINE m == Len(calls)
           n == Math!Size
<1>1. /\ m \in 0 .. WordBits /\ WordBits \in Nat /\ WordBits >= 2
      /\ y = (Divisor * Power(m)) % n
      /\ \A k \in 1 .. m : calls[k] = (Divisor * Power(k - 1)) % n /\ Divisor * Power(k - 1) <= x
  BY WordSizes DEF MathTypes, Dividing
<1>2. Half \in Nat \ {0} /\ n \in Nat \ {0} /\ n = Half + Half
  BY WordSizes
<1>3. Divisor \in Nat \ {0} /\ x \in Nat
  <2>1. calls # <<>> => calls[1] \in Math!Word
    BY DEF MathTypes
  <2>. QED
    BY <2>1, WordSizes DEF MathTypes, Divisor
<1>4. \A k \in 0 .. WordBits : Power(k) \in Nat \ {0}
  BY <1>1, PowersDouble, DoublesAbove DEF Power
<1> HIDE DEF m, n
<1>5. \A k \in 1 .. m : calls[k] = Divisor * Power(k - 1) /\ calls[k] > 0
  <2> SUFFICES ASSUME NEW k \in 1 .. m PROVE calls[k] = Divisor * Power(k - 1) /\ calls[k] > 0
    OBVIOUS
  <2>1. Power(k - 1) \in Nat \ {0}
    BY <1>1, <1>4
  <2>2. Divisor * Power(k - 1) \in Nat \ {0}
    BY <1>3, <2>1
  <2>3. Divisor * Power(k - 1) \in 0 .. n - 1
    BY <1>1, <1>2, <1>3, <2>2
  <2>. QED
    BY <1>1, <1>2, <2>2, <2>3, SmallRemainder
<1>6. /\ m <= WordBits - 1
      /\ Divisor * Power(m) \in Nat \ {0}
      /\ Divisor * Power(m) <= x + x \/ Divisor * Power(m) < Half
  <2>1. CASE m = 0
    <3>1. Power(0) = 1
      BY PowersDouble DEF Power, Doubles
    <3>2. Divisor * Power(m) = Divisor
      BY <1>3, <2>1, <3>1
    <3>. QED
      BY <1>1, <1>3, <2>1, <3>2
  <2>2. CASE m # 0
    <3>1. m \in 1 .. m /\ m - 1 \in 0 .. WordBits - 1 /\ (m - 1) + 1 = m /\ m - 1 \in 0 .. WordBits
      BY <1>1, <2>2
    <3>2. PICK p \in Nat \ {0} : p = Power(m - 1)
      BY <1>4, <3>1
    <3>3. Divisor * p <= x
      BY <1>1, <3>1, <3>2
    <3>4. Power(m) = p + p
      BY <3>1, <3>2, PowersDouble DEF Doubles, Power
    <3>5. Divisor * (p + p) = Divisor * p + Divisor * p /\ Divisor * p \in Nat \ {0} /\ p <= Divisor * p
      BY <1>3
    <3>6. p < Half
      BY <1>2, <1>3, <3>3, <3>5
    <3>7. m <= WordBits - 1
      <4> SUFFICES ASSUME m = WordBits PROVE FALSE
        BY <1>1
      <4>. QED
        BY <1>2, <3>2, <3>6 DEF Half, Power
    <3>. QED
      BY <1>3, <3>3, <3>4, <3>5, <3>7
  <2>. QED
    BY <2>1, <2>2
<1>7. y = Divisor * Power(m)
  <2>1. PICK e \in Nat \ {0} : e = Divisor * Power(m)
    BY <1>6
  <2>2. e \in 0 .. n - 1
    BY <1>2, <1>3, <1>6, <2>1
  <2>. QED
    BY <1>1, <1>2, <2>1, <2>2, SmallRemainder
<1>8. Math!Gt(y, x) <=> y > x
  <2>1. y \in Nat /\ (y <= x + x \/ y < Half)
    BY <1>6, <1>7
  <2>2. x - y < Half /\ -Half <= x - y
    BY <1>2, <1>3, <2>1
  <2>. QED
    BY <1>3, <2>1, <2>2, GtMeans
<1>. QED
  BY <1>5, <1>6, <1>7, <1>8 DEF m

\* A call inside: twice the divisor of the one that waits for it.
LEMMA DivideCalls ==
  ASSUME MathTypes, Dividing, Math!Divide
  PROVE  Dividing'
<1> DEFINE m == Len(calls)
           n == Math!Size
<1>1. /\ function = "divide" /\ function' = "divide" /\ ~Math!Gt(y, x)
      /\ calls' = Append(calls, y) /\ y' = (2 * y) % n /\ x' = x /\ sum' = sum
  BY DEF Math!Divide, Math!Times
<1>2. /\ calls \in Seq(Math!Word) /\ x \in Math!Word /\ y \in Math!Word /\ y \in Nat /\ x \in Nat
      /\ n \in Nat \ {0} /\ n = Half + Half /\ Half \in Nat /\ WordBits \in Nat
  BY WordSizes DEF MathTypes
<1>3. /\ m \in Nat /\ Len(calls') = m + 1 /\ calls'[m + 1] = y
      /\ \A k \in 1 .. m : calls'[k] = calls[k]
      /\ Divisor' = Divisor
  <2>1. /\ m \in Nat /\ Len(calls') = m + 1 /\ calls'[m + 1] = y
        /\ \A k \in 1 .. m : calls'[k] = calls[k]
    BY <1>1, <1>2
  <2>2. calls' # <<>>
    BY <1>1, <1>2
  <2>3. calls'[1] = Divisor
    <3>1. CASE calls = <<>>
      BY <2>1, <3>1 DEF Divisor
    <3>2. CASE calls # <<>>
      BY <1>2, <2>1, <3>2 DEF Divisor
    <3>. QED
      BY <3>1, <3>2
  <2>. QED
    BY <2>1, <2>2, <2>3 DEF Divisor
<1> SUFFICES ASSUME 0 < Divisor, Divisor < Half
             PROVE  /\ m + 1 <= WordBits
                    /\ (2 * y) % n = (Divisor * Power(m + 1)) % n
                    /\ y = (Divisor * Power(m)) % n
                    /\ \A k \in 1 .. m : calls[k] = (Divisor * Power(k - 1)) % n
                    /\ x < Half => /\ Divisor * Power(m) <= x
                                   /\ \A k \in 1 .. m : Divisor * Power(k - 1) <= x
  <2>1. SUFFICES ASSUME 0 < Divisor, Divisor < Half
                 PROVE  /\ m + 1 <= WordBits
                        /\ y' = (Divisor * Power(m + 1)) % n
                        /\ \A k \in 1 .. m + 1 : calls'[k] = (Divisor * Power(k - 1)) % n
                        /\ x < Half => \A k \in 1 .. m + 1 : Divisor * Power(k - 1) <= x
    BY <1>1, <1>3 DEF Dividing, Power
  <2>2. \A k \in 1 .. m + 1 : k \in 1 .. m \/ (k = m + 1 /\ k - 1 = m)
    BY <1>3
  <2>. QED
    BY <1>1, <1>3, <2>1, <2>2
<1>4. /\ m <= WordBits
      /\ y = (Divisor * Power(m)) % n
      /\ \A k \in 1 .. m : calls[k] = (Divisor * Power(k - 1)) % n
      /\ x < Half => \A k \in 1 .. m : Divisor * Power(k - 1) <= x
  BY <1>1 DEF Dividing
<1>5. x < Half => m + 1 <= WordBits /\ Divisor * Power(m) <= x
  <2> SUFFICES ASSUME x < Half PROVE m + 1 <= WordBits /\ Divisor * Power(m) <= x
    OBVIOUS
  <2>1. m <= WordBits - 1 /\ y = Divisor * Power(m) /\ (Math!Gt(y, x) <=> y > x)
    BY <1>1, NoneWrapped
  <2>. QED
    BY <1>1, <1>2, <1>3, <2>1
<1>6. Divisor \in Nat
  <2>1. calls # <<>> => calls[1] \in Math!Word
    BY <1>2
  <2>. QED
    BY <1>2, <2>1, WordSizes DEF Divisor
<1>7. m + 1 <= WordBits
  <2> SUFFICES ASSUME ~(x < Half), m = WordBits PROVE FALSE
    BY <1>2, <1>3, <1>4, <1>5
  <2>1. Power(m) = n
    BY DEF Math!Size, Power
  <2>2. y = 0
    <3>1. PICK d \in Int, e \in Nat \ {0} : d = Divisor /\ e = n
      BY <1>2, <1>6
    <3>2. (d * e) % e = 0
      BY NoRemainder
    <3>. QED
      BY <1>4, <2>1, <3>1, <3>2
  <2>3. x \in 0 .. n - 1 /\ x - 0 = x
    BY <1>2, WordSizes
  <2>4. x % n = x
    BY <1>2, <2>3, SmallRemainder
  <2>5. Math!Signed(x) = x - n /\ x - n < 0
    BY <1>2, <2>3, WordSizes
  <2>. QED
    BY <1>1, <2>2, <2>3, <2>4, <2>5 DEF Math!Gt
<1>8. (2 * y) % n = (Divisor * Power(m + 1)) % n
  <2>1. m \in 0 .. WordBits - 1
    BY <1>2, <1>3, <1>7
  <2>2. PICK p \in Nat : p = Power(m) /\ Power(m + 1) = p + p
    BY <2>1, PowersOfWords, WordSizes DEF Power
  <2>3. Divisor * p \in Int /\ Divisor * (p + p) = Divisor * p + Divisor * p
    BY <1>6
  <2>4. (y + y) % n = (Divisor * p + Divisor * p) % n
    <3>1. y = (Divisor * p) % n
      BY <1>4, <2>2
    <3>. QED
      BY <1>2, <2>3, <3>1, RemainderPlus
  <2>5. 2 * y = y + y
    BY <1>2
  <2>. QED
    BY <2>2, <2>3, <2>4, <2>5
<1>. QED
  BY <1>4, <1>5, <1>7, <1>8

\* The innermost call, whose divisor is larger than the dividend.
LEMMA DivideNoneGives ==
  ASSUME MathTypes, Dividing, Math!DivideNone
  PROVE  Dividing'
<1>1. /\ function = "divide" /\ function' = "dividing" /\ Math!Gt(y, x) /\ sum' = 0
      /\ calls' = calls /\ y' = y /\ x' = x
  BY DEF Math!DivideNone
<1>2. Divisor' = Divisor
  BY <1>1 DEF Divisor
<1>3. ASSUME 0 < Divisor, Divisor < Half, x < Half
      PROVE  x \div y = 0
  <2>1. y > x
    BY <1>1, <1>3, NoneWrapped
  <2>2. y \in Nat \ {0} /\ x \in 0 .. y - 1 /\ 0 * y + x = x
    BY <2>1, WordSizes DEF MathTypes
  <2>. QED
    BY <2>2, QuotientIs
<1>. QED
  BY <1>1, <1>2, <1>3 DEF Dividing, Power

\* A call that waits goes on: twice the quotient by twice its divisor, or one more.
LEMMA QuotientMeans ==
  ASSUME x \in Math!Word, x < Half, NEW d \in Math!Word, d > 0, d <= x, sum = x \div (d + d)
  PROVE  Math!Quotient(d) = x \div d
<1> DEFINE n == Math!Size
           r == x - 2 * sum * d
<1>1. /\ x \in Nat /\ d \in Nat \ {0} /\ n \in Nat \ {0} /\ n = Half + Half /\ Half \in Nat
  BY WordSizes
<1> HIDE DEF n
<1>2. /\ sum \in Nat /\ r \in 0 .. (d + d) - 1
      /\ 2 * sum * d \in Nat /\ 2 * sum * d <= x
      /\ r < d => x \div d = 2 * sum
      /\ ~(r < d) => x \div d = 2 * sum + 1 /\ 2 * sum + 1 <= x
      /\ 2 * sum <= x
  <2>1. PICK a, q, t : a = x /\ q = sum /\ t = r
    OBVIOUS
  <2>2. a \in Nat /\ q = a \div (d + d) /\ t = a - 2 * q * d
    BY <1>1, <2>1
  <2>4. PICK e \in Nat \ {0} : e = d
    BY <1>1
  <2>5. q = a \div (e + e) /\ t = a - 2 * q * e
    BY <2>2, <2>4
  <2>3. /\ q \in Nat /\ t \in 0 .. (e + e) - 1
        /\ 2 * q * e \in Nat /\ 2 * q * e <= a
        /\ t < e => a \div e = 2 * q
        /\ ~(t < e) => a \div e = 2 * q + 1 /\ 2 * q + 1 <= a
        /\ 2 * q <= a
    BY ONLY <2>2, <2>5, e \in Nat \ {0}, QuotientDoubled
  <2>. QED
    BY ONLY <2>1, <2>3, <2>4
<1>3. Math!Times(2, sum) = 2 * sum
  <2>1. 2 * sum \in 0 .. n - 1
    BY <1>1, <1>2
  <2>. QED
    BY <1>1, <2>1, SmallRemainder DEF Math!Times, n
<1>4. Math!Times(2 * sum, d) = 2 * sum * d
  <2>1. 2 * sum * d \in 0 .. n - 1
    BY <1>1, <1>2
  <2>. QED
    BY <1>1, <2>1, SmallRemainder DEF Math!Times, n
<1>5. r <= x /\ r \in 0 .. n - 1
  BY <1>1, <1>2
<1>6. Math!Minus(x, 2 * sum * d) = r
  BY <1>1, <1>5, SmallRemainder DEF Math!Minus, n
<1>7. Math!Lt(r, d) <=> r < d
  <2>1. -Half <= d - r /\ d - r < Half /\ r \in Int /\ d \in Int
    BY <1>1, <1>2, <1>5
  <2>. QED
    BY <2>1, LtMeans
<1>8. ~(r < d) => Math!Plus(2 * sum, 1) = 2 * sum + 1
  <2> SUFFICES ASSUME ~(r < d) PROVE Math!Plus(2 * sum, 1) = 2 * sum + 1
    OBVIOUS
  <2>1. 2 * sum + 1 \in 0 .. n - 1
    BY <1>1, <1>2
  <2>. QED
    BY <1>1, <2>1, SmallRemainder DEF Math!Plus, n
<1>9. Math!Quotient(d) = IF Math!Lt(r, d) THEN 2 * sum ELSE Math!Plus(2 * sum, 1)
  BY <1>3, <1>4, <1>6 DEF Math!Quotient
<1>. QED
  BY <1>2, <1>7, <1>8, <1>9

LEMMA DivideGoesOn ==
  ASSUME MathTypes, Dividing, Math!DivideBack
  PROVE  Dividing' /\ sum' \in Math!Word
<1> DEFINE m == Len(calls)
           n == Math!Size
<1>1. /\ function = "dividing" /\ function' = "dividing" /\ calls # <<>>
      /\ sum' = Math!Quotient(calls[m]) /\ y' = calls[m] /\ x' = x
      /\ calls' = SubSeq(calls, 1, m - 1)
  BY DEF Math!DivideBack
<1>2. /\ calls \in Seq(Math!Word) /\ x \in Math!Word /\ WordBits \in Nat
      /\ n \in Nat \ {0} /\ Math!Word = 0 .. n - 1 /\ Half \in Nat /\ n = Half + Half
  BY WordSizes DEF MathTypes
<1>3. /\ m \in Nat \ {0} /\ Len(calls') = m - 1 /\ m - 1 \in Nat
      /\ \A k \in 1 .. m - 1 : calls'[k] = calls[k]
  <2>1. m \in Nat \ {0} /\ m - 1 \in 0 .. m
    BY <1>1, <1>2
  <2>2. PICK c \in Seq(Math!Word) : c = calls
    BY <1>2
  <2>3. PICK l \in 0 .. Len(c) : l = m - 1 /\ l \in Nat
    BY <2>1, <2>2
  <2>4. Len(SubSeq(c, 1, l)) = l /\ \A k \in 1 .. l : SubSeq(c, 1, l)[k] = c[k]
    BY ONLY <2>2, <2>3, c \in Seq(Math!Word), l \in 0 .. Len(c)
  <2>. QED
    BY <1>1, <2>1, <2>2, <2>3, <2>4
<1>4. Divisor = calls[1]
  BY <1>1 DEF Divisor
<1>5. Divisor' = Divisor
  <2>1. CASE m = 1
    <3>1. calls' = <<>>
      BY <1>1, <1>2, <2>1
    <3>. QED
      BY <1>1, <1>4, <2>1, <3>1 DEF Divisor
  <2>2. CASE m # 1
    <3>1. 1 \in 1 .. m - 1 /\ calls' # <<>>
      BY <1>2, <1>3, <2>2
    <3>. QED
      BY <1>3, <1>4, <3>1 DEF Divisor
  <2>. QED
    BY <2>1, <2>2
<1>6. sum' \in Math!Word
  <2>1. \A a \in Int : a % n \in Math!Word
    BY <1>2, Division
  <2>2. Math!Times(2, sum) \in Math!Word /\ Math!Times(2, sum) \in Int
    <3>1. 2 * sum \in Int
      BY <1>2 DEF MathTypes
    <3>2. (2 * sum) % n \in Math!Word
      BY <2>1, <3>1
    <3>3. (2 * sum) % n \in Int
      BY <1>2, <3>2
    <3>. QED
      BY <3>2, <3>3 DEF Math!Times
  <2>3. Math!Plus(Math!Times(2, sum), 1) \in Math!Word
    BY <2>1, <2>2 DEF Math!Plus
  <2>. QED
    BY <1>1, <2>2, <2>3 DEF Math!Quotient
<1>7. ASSUME 0 < Divisor, Divisor < Half
      PROVE  /\ m - 1 <= WordBits
             /\ calls[m] = (Divisor * Power(m - 1)) % n
             /\ \A k \in 1 .. m - 1 : calls[k] = (Divisor * Power(k - 1)) % n
             /\ x < Half =>
                  /\ \A k \in 1 .. m - 1 : Divisor * Power(k - 1) <= x
                  /\ Math!Quotient(calls[m]) = x \div calls[m]
  <2>1. /\ m <= WordBits /\ m \in 1 .. m
        /\ \A k \in 1 .. m : calls[k] = (Divisor * Power(k - 1)) % n
        /\ x < Half => /\ \A k \in 1 .. m : Divisor * Power(k - 1) <= x
                       /\ sum = x \div y
    BY <1>1, <1>3, <1>7 DEF Dividing
  <2>2. ASSUME x < Half
        PROVE  Math!Quotient(calls[m]) = x \div calls[m]
    <3>1. /\ y = Divisor * Power(m)
          /\ calls[m] = Divisor * Power(m - 1) /\ calls[m] > 0
      BY <1>1, <1>7, <2>1, <2>2, NoneWrapped
    <3>2. m - 1 \in 0 .. WordBits - 1 /\ (m - 1) + 1 = m
      BY <1>2, <1>3, <2>1
    <3>3. PICK p \in Nat : p = Power(m - 1) /\ Power(m) = p + p
      <4>1. PICK k \in 0 .. WordBits - 1 : k = m - 1 /\ k + 1 = m
        BY <3>2
      <4>2. Power(k) \in Nat /\ Power(k + 1) = Power(k) + Power(k)
        BY PowersOfWords, WordSizes DEF Power
      <4>. QED
        BY <4>1, <4>2
    <3>4. Divisor \in Nat /\ Divisor * (p + p) = Divisor * p + Divisor * p
      <4>1. Divisor \in Nat
        BY <1>2, <1>3, <1>4
      <4>. QED
        BY <4>1
    <3>5. y = calls[m] + calls[m]
      BY <3>1, <3>3, <3>4
    <3>6. calls[m] \in Math!Word /\ calls[m] <= x
      BY <1>2, <2>1, <2>2, <3>1
    <3>. QED
      BY <1>2, <2>1, <2>2, <3>1, <3>5, <3>6, QuotientMeans
  <2>3. m - 1 <= WordBits /\ \A k \in 1 .. m - 1 : k \in 1 .. m
    BY <1>2, <1>3, <2>1
  <2>. QED
    BY <2>1, <2>2, <2>3
<1>8. Dividing'
  <2> SUFFICES ASSUME 0 < Divisor, Divisor < Half
               PROVE  /\ m - 1 <= WordBits
                      /\ y' = (Divisor * Power(m - 1)) % n
                      /\ \A k \in 1 .. m - 1 : calls'[k] = (Divisor * Power(k - 1)) % n
                      /\ x < Half =>
                           /\ \A k \in 1 .. m - 1 : Divisor * Power(k - 1) <= x
                           /\ sum' = x \div y'
    BY <1>1, <1>3, <1>5 DEF Dividing, Power
  <2>. QED
    BY <1>1, <1>3, <1>7
<1>. QED
  BY <1>6, <1>8

LEMMA DivideReturns ==
  ASSUME MathTypes, Dividing, Math!DivideReturn
  PROVE  Math!Divided'
<1>1. /\ function = "dividing" /\ calls = <<>> /\ UNCHANGED <<x, y, sum>>
  BY DEF Math!DivideReturn, Math!Return
<1>2. Divisor = y
  BY <1>1 DEF Divisor
<1>3. 0 < y /\ y < Half /\ x < Half => sum = x \div y
  BY <1>1, <1>2 DEF Dividing
<1>4. /\ Math!Signed(x) >= 0 => x < Half
      /\ Math!Signed(y) > 0 => 0 < y /\ y < Half
  BY WordSizes DEF MathTypes
<1>. QED
  BY <1>1, <1>3, <1>4 DEF Math!Divided, Math!Signed, Math!Size

\* Every function but divide leaves the calls alone.
LEMMA MathTyped ==
  ASSUME MathTypes, Dividing, Math!Next
  PROVE  MathTypes'
<1> DEFINE n == Math!Size
<1>1. /\ x \in Math!Word /\ y \in Math!Word /\ shifted_x \in Math!Word /\ sum \in Math!Word
      /\ n \in Nat \ {0} /\ Math!Word = 0 .. n - 1 /\ 0 \in Math!Word /\ WordBits \in Nat
      /\ i \in -1 .. WordBits /\ calls \in Seq(Math!Word)
  BY WordSizes DEF MathTypes
<1>2. \A a \in Int : a % n \in Math!Word
  BY <1>1, Division
<1> HIDE DEF n
<1>3. CASE Math!Multiply
  <2>1. shifted_x + shifted_x \in Int /\ sum + shifted_x \in Int
    BY <1>1
  <2>2. (shifted_x + shifted_x) % n \in Math!Word /\ (sum + shifted_x) % n \in Math!Word
    BY <1>2, <2>1
  <2>3. shifted_x' \in Math!Word /\ sum' \in Math!Word
    BY <1>1, <1>3, <2>2 DEF Math!Multiply, Math!Plus, n
  <2>4. i' \in -1 .. WordBits
    BY <1>1, <1>3 DEF Math!Multiply
  <2>. QED
    BY <1>3, <2>3, <2>4 DEF MathTypes, Math!Multiply
<1>4. CASE Math!Divide
  <2>1. (2 * y) % n \in Math!Word
    <3>1. 2 * y \in Int
      BY <1>1
    <3>. QED
      BY <1>2, <3>1
  <2>2. calls' \in Seq(Math!Word)
    BY <1>1, <1>4 DEF Math!Divide
  <2>. QED
    BY <1>4, <2>1, <2>2 DEF MathTypes, Math!Divide, Math!Times, n
<1>5. CASE Math!DivideNone
  BY <1>1, <1>5 DEF MathTypes, Math!DivideNone
<1>6. CASE Math!DivideBack
  <2>1. sum' \in Math!Word
    BY <1>6, DivideGoesOn
  <2>2. calls' \in Seq(Math!Word) /\ y' \in Math!Word
    <3>1. PICK c \in Seq(Math!Word) : c = calls /\ Len(c) \in 1 .. Len(c) /\ Len(c) - 1 \in 0 .. Len(c)
      BY <1>1, <1>6 DEF Math!DivideBack
    <3>2. c[Len(c)] \in Math!Word /\ SubSeq(c, 1, Len(c) - 1) \in Seq(Math!Word)
      BY <3>1
    <3>. QED
      BY <1>6, <3>1, <3>2 DEF Math!DivideBack
  <2>. QED
    BY <1>6, <2>1, <2>2 DEF MathTypes, Math!DivideBack
<1>7. CASE Math!Sqrt
  <2>1. i \in 0 .. WordBits
    <3>1. (-1) % n = n - 1
      <4>1. n - 1 \in 0 .. n - 1 /\ (n - 1) - n = -1
        BY <1>1
      <4>. QED
        BY <1>1, <4>1, SmallRemainder
    <3>2. ~Math!Gt(n - 1, n - 1)
      BY <1>1, WordSizes, GtMeans DEF n
    <3>3. i # -1
      BY <1>7, <3>1, <3>2 DEF Math!Sqrt, n
    <3>. QED
      BY <1>1, <3>3
  <2>2. Power(i) \in Nat
    BY <1>1, <2>1, PowersDouble, DoublesAbove DEF Power
  <2>3. (sum + Power(i)) % n \in Math!Word
    <3>1. sum + Power(i) \in Int
      BY <1>1, <2>2
    <3>. QED
      BY <1>2, <3>1
  <2>4. sum' \in Math!Word /\ i' \in -1 .. WordBits
    BY <1>1, <1>7, <2>1, <2>3 DEF Math!Sqrt, Math!Plus, Power, n
  <2>. QED
    BY <1>7, <2>4 DEF MathTypes, Math!Sqrt
<1>8. CASE Math!MultiplyReturn \/ Math!DivideReturn \/ Math!SqrtReturn
  BY <1>8 DEF MathTypes, Math!MultiplyReturn, Math!DivideReturn, Math!SqrtReturn, Math!Return
<1>. QED
  BY <1>3, <1>4, <1>5, <1>6, <1>7, <1>8 DEF Math!Next

LEMMA MultiplyReturns ==
  ASSUME MathTypes, Multiplying, Math!MultiplyReturn
  PROVE  Math!Multiplied'
<1>1. function = "multiply" /\ i = WordBits /\ UNCHANGED <<x, y, sum>>
  BY DEF Math!MultiplyReturn, Math!Return
<1>2. Power(i) = Math!Size
  BY <1>1 DEF Power, Math!Size
<1>3. y % Math!Size = y
  BY WordSizes, SmallRemainder DEF MathTypes
<1>4. sum = (x * y) % Math!Size
  BY <1>1, <1>2, <1>3 DEF Multiplying
<1>. QED
  BY <1>1, <1>4 DEF Math!Multiplied, Math!Size

-----------------------------------------------------------------------------
(* Math.sqrt *)

\* The squares that are tried do not wrap around further than the sign, and those that have it
\* are refused.
LEMMA FitsMeans ==
  ASSUME NEW s \in Math!Word, x \in Math!Word, x < Half, s > 0
  PROVE  Math!Fits(s) <=> s <= x
<1>1. /\ Half \in Nat \ {0} /\ Math!Size \in Nat \ {0} /\ Math!Size = Half + Half
      /\ s \in Nat /\ x \in Nat
  BY WordSizes
<1>2. Math!Plus(x, 1) = x + 1
  <2>1. x + 1 \in 0 .. Math!Size - 1
    BY <1>1
  <2>. QED
    BY <1>1, <2>1, SmallRemainder DEF Math!Plus
<1>3. Math!Gt(s, 0) <=> s <= Half
  BY GtZero
<1>4. CASE s <= Half
  <2>1. -Half <= (x + 1) - s /\ (x + 1) - s < Half
    BY <1>1, <1>4
  <2>2. Math!Lt(s, x + 1) <=> s < x + 1
    BY <1>1, <2>1, LtMeans
  <2>. QED
    BY <1>1, <1>2, <1>3, <1>4, <2>2 DEF Math!Fits
<1>5. CASE ~(s <= Half)
  BY <1>1, <1>3, <1>5 DEF Math!Fits
<1>. QED
  BY <1>4, <1>5

\* The loop goes on until the bit with number 0 was tried, and -1 is found to be less than 0.
LEMMA LoopEnds ==
  ASSUME i \in -1 .. WordBits - 1
  PROVE  Math!Gt(i % Math!Size, Math!Size - 1) <=> i >= 0
<1> DEFINE n == Math!Size
<1>1. /\ Half \in Nat \ {0} /\ n \in Nat \ {0} /\ n = Half + Half /\ WordBits \in Nat
      /\ Math!Word = 0 .. n - 1 /\ WordBits - 1 \in 0 .. WordBits
  BY WordSizes
<1>2. Half > WordBits - 1
  BY <1>1, PowersDouble, DoublesAbove DEF Half
<1> HIDE DEF n
<1>3. CASE i >= 0
  <2>1. i \in 0 .. n - 1 /\ (n - 1) - i \in 0 .. n - 1 /\ (n - 1) - i >= Half
    BY <1>1, <1>2, <1>3
  <2>2. i % n = i /\ ((n - 1) - i) % n = (n - 1) - i
    BY <1>1, <2>1, SmallRemainder
  <2>3. Math!Signed((n - 1) - i) = ((n - 1) - i) - n
    BY <1>1, <2>1, WordSizes DEF n
  <2>. QED
    BY <1>1, <1>3, <2>1, <2>2, <2>3 DEF Math!Gt, n
<1>4. CASE i = -1
  <2>1. n - 1 \in 0 .. n - 1 /\ (n - 1) - n = -1
    BY <1>1
  <2>2. i % n = n - 1
    BY <1>1, <1>4, <2>1, SmallRemainder
  <2>3. ~Math!Gt(n - 1, n - 1)
    BY <1>1, WordSizes, GtMeans DEF n
  <2>. QED
    BY <1>4, <2>2, <2>3 DEF n
<1>. QED
  BY <1>3, <1>4

\* One bit of the root.
LEMMA SqrtStep ==
  ASSUME MathTypes, Rooting, Math!Sqrt
  PROVE  Rooting'
<1> SUFFICES ASSUME x < Half, NEW half \in 1 .. WordBits, WordBits = half + half
             PROVE  /\ i' < half
                    /\ sum' + Power(i' + 1) <= Power(half)
                    /\ sum' * sum' <= x /\ x < (sum' + Power(i' + 1)) * (sum' + Power(i' + 1))
  BY DEF Rooting, Math!Sqrt, Power
<1>1. /\ function = "sqrt" /\ Math!Gt(i % Math!Size, Math!Size - 1)
      /\ sum' = IF Math!Fits(Math!Times(Math!Plus(sum, Power(i)), Math!Plus(sum, Power(i))))
                THEN Math!Plus(sum, Power(i)) ELSE sum
      /\ i' = i - 1
  BY DEF Math!Sqrt, Power
<1>2. /\ WordBits \in Nat /\ half \in Nat /\ half >= 1 /\ half <= WordBits - 1
      /\ x \in Math!Word /\ x \in Nat /\ sum \in Nat
      /\ Math!Size \in Nat \ {0} /\ Math!Word = 0 .. Math!Size - 1
  BY WordSizes DEF MathTypes
<1>3. /\ i < half
      /\ sum + Power(i + 1) <= Power(half)
      /\ sum * sum <= x /\ x < (sum + Power(i + 1)) * (sum + Power(i + 1))
  BY <1>1 DEF Rooting
<1>4. i \in 0 .. WordBits - 1
  <2>1. i \in -1 .. WordBits - 1
    BY <1>2, <1>3 DEF MathTypes
  <2>. QED
    BY <1>1, <2>1, LoopEnds
<1>5. PICK p \in Nat \ {0} : p = Power(i) /\ Power(i + 1) = p + p
  BY <1>4, PowersOfWords, WordSizes DEF Power
<1>6. PICK h \in Nat \ {0} : h = Power(half) /\ h * h = Math!Size
  <2>1. half \in 0 .. WordBits
    BY <1>2
  <2>2. Power(half) \in Nat \ {0}
    BY <1>2, <2>1, PowersDouble, DoublesAbove DEF Power
  <2>3. Power(half + half) = Power(half) * Power(half)
    BY <1>2, <2>1, PowersDouble, DoublesAdd DEF Power
  <2>. QED
    BY <2>2, <2>3 DEF Power, Math!Size
<1>7. PICK t \in Nat : t = sum + p
  BY <1>2, <1>5
<1>8. /\ t + p <= h /\ t < h /\ t > 0 /\ t + p = sum + (p + p)
      /\ x < (t + p) * (t + p)
  <2>1. sum + (p + p) <= h /\ x < (sum + (p + p)) * (sum + (p + p))
    BY <1>3, <1>5, <1>6
  <2>2. t + p = sum + (p + p)
    BY <1>2, <1>5, <1>7
  <2>3. x < (t + p) * (t + p)
    BY <2>1, <2>2
  <2>4. t + p <= h /\ t > 0
    BY <1>2, <1>7, <2>1, <2>2
  <2>5. t < h
    BY ONLY <2>4, t \in Nat, p \in Nat \ {0}, h \in Nat
  <2>. QED
    BY <2>2, <2>3, <2>4, <2>5
<1>9. PICK s \in Nat \ {0} : s = t * t /\ s < h * h
  <2>1. t * t \in Nat \ {0} /\ t * t < h * h
    BY <1>8
  <2>. QED
    BY <2>1
<1>10. t < Math!Size
  <2>1. h <= h * h
    BY <1>6
  <2>. QED
    BY <1>2, <1>6, <1>8, <2>1
<1>11. Math!Plus(sum, Power(i)) = t
  <2>1. t \in 0 .. Math!Size - 1
    BY <1>2, <1>10
  <2>. QED
    BY <1>2, <1>5, <1>7, <2>1, SmallRemainder DEF Math!Plus
<1>12. Math!Times(t, t) = s /\ s \in Math!Word
  <2>1. s \in 0 .. Math!Size - 1
    BY <1>2, <1>6, <1>9
  <2>. QED
    BY <1>2, <1>9, <2>1, SmallRemainder DEF Math!Times
<1>13. sum' = IF s <= x THEN t ELSE sum
  BY <1>1, <1>2, <1>9, <1>11, <1>12, FitsMeans
<1>14. Power(i' + 1) = p /\ i' < half
  <2>1. i' + 1 = i /\ i' < half
    BY <1>1, <1>2, <1>3, <1>4
  <2>. QED
    BY <1>5, <2>1
<1>15. /\ sum' + p <= h
       /\ sum' * sum' <= x /\ x < (sum' + p) * (sum' + p)
  <2>1. CASE s <= x
    BY <1>8, <1>9, <1>13, <2>1
  <2>2. CASE ~(s <= x)
    BY <1>2, <1>3, <1>7, <1>8, <1>9, <1>13, <2>2
  <2>. QED
    BY <2>1, <2>2
<1>. QED
  BY <1>6, <1>14, <1>15

LEMMA SqrtReturns ==
  ASSUME MathTypes, Rooting, Math!SqrtReturn
  PROVE  Math!Rooted'
<1>1. function = "sqrt" /\ ~Math!Gt(i % Math!Size, Math!Size - 1) /\ UNCHANGED <<x, sum>>
  BY DEF Math!SqrtReturn, Math!Return
<1>2. x \in Nat /\ sum \in Nat /\ WordBits \in Nat /\ (Math!Signed(x) >= 0 => x < Half)
  BY WordSizes DEF MathTypes
<1>3. ASSUME x < Half
      PROVE  sum * sum <= x /\ (sum + 1) * (sum + 1) > x
  <2>1. PICK half \in 1 .. WordBits : WordBits = half + half
    BY MathAssumption DEF Math!BitsOfWords
  <2>2. /\ i < half
        /\ sum * sum <= x /\ x < (sum + Power(i + 1)) * (sum + Power(i + 1))
    BY <1>1, <1>3, <2>1 DEF Rooting
  <2>3. i \in -1 .. WordBits - 1
    BY <1>2, <2>1, <2>2 DEF MathTypes
  <2>4. i + 1 = 0
    BY <1>1, <2>3, LoopEnds
  <2>5. Power(i + 1) = 1
    BY <2>4, PowersDouble DEF Power, Doubles
  <2>6. x < (sum + 1) * (sum + 1)
    BY <2>2, <2>5
  <2>. QED
    BY <1>2, <2>2, <2>6
<1>. QED
  BY <1>1, <1>2, <1>3 DEF Math!Rooted, Math!Signed, Math!Size

-----------------------------------------------------------------------------
(* The functions together. *)

LEMMA MathStarts == OSInit => MathInv
<1> SUFFICES ASSUME OSInit PROVE MathInv
  OBVIOUS
<1>1. /\ WordBits \in Nat /\ WordBits >= 2 /\ Math!Size \in Nat \ {0}
      /\ Math!Word = 0 .. Math!Size - 1 /\ 0 \in Math!Word
  BY WordSizes
<1>2. /\ x \in Math!Word /\ y \in Math!Word /\ (shifted_x = x \/ function = "none")
      /\ x \in Math!Word /\ y \in Math!Word /\ shifted_x \in Math!Word
      /\ sum = 0 /\ calls = <<>> /\ returned = "none"
      /\ function \in {"multiply", "divide", "sqrt", "none"}
  BY <1>1 DEF OSInit, Math!Init, Math!Functions
<1>3. /\ function # "none" => shifted_x = x
      /\ function \in {"multiply", "divide"} => i = 0
      /\ function = "sqrt" => i = WordBits \div 2 - 1
      /\ function = "none" => i = 0
  BY DEF OSInit, Math!Init
<1>4. MathTypes
  <2>1. i \in -1 .. WordBits
    BY <1>1, <1>2, <1>3
  <2>. QED
    BY <1>1, <1>2, <2>1 DEF MathTypes
<1>5. Power(0) = 1 /\ \A w \in Math!Word : w % Math!Size = w
  <2>1. \A w \in Math!Word : w % Math!Size = w
    BY <1>1, SmallRemainder
  <2>. QED
    BY <2>1, PowersDouble DEF Power, Doubles
<1>6. Multiplying
  <2> SUFFICES ASSUME function = "multiply"
               PROVE  /\ i \in 0 .. WordBits
                      /\ shifted_x = (x * Power(i)) % Math!Size
                      /\ sum = (x * (y % Power(i))) % Math!Size
    BY DEF Multiplying
  <2>1. x \in Nat /\ y \in Nat /\ i = 0 /\ shifted_x = x
    BY <1>1, <1>2, <1>3
  <2>2. x * Power(i) = x /\ y % Power(i) = 0
    BY <1>5, <2>1
  <2>3. x * 0 = 0
    BY <2>1
  <2>. QED
    BY <1>1, <1>2, <1>5, <2>1, <2>2, <2>3
<1>7. Dividing
  <2>1. y * Power(0) = y
    BY <1>1, <1>2, <1>5
  <2>. QED
    BY <1>1, <1>2, <1>5, <2>1 DEF Dividing, Divisor
<1>8. Rooting
  <2> SUFFICES ASSUME function = "sqrt", x < Half, NEW half \in 1 .. WordBits, WordBits = half + half
               PROVE  /\ i < half
                      /\ sum + Power(i + 1) <= Power(half)
                      /\ sum * sum <= x /\ x < (sum + Power(i + 1)) * (sum + Power(i + 1))
    BY DEF Rooting
  <2>1. i + 1 = half /\ i < half /\ half \in 0 .. WordBits
    BY <1>1, <1>3
  <2>2. Power(half) \in Nat \ {0} /\ Power(half) * Power(half) = Math!Size
    <3>1. Power(half) \in Nat \ {0}
      BY <1>1, <2>1, PowersDouble, DoublesAbove DEF Power
    <3>2. Power(half + half) = Power(half) * Power(half)
      BY <1>1, <2>1, PowersDouble, DoublesAdd DEF Power
    <3>. QED
      BY <3>1, <3>2 DEF Power, Math!Size
  <2>3. sum + Power(i + 1) = Power(half) /\ sum * sum = 0
    BY <1>2, <2>1, <2>2
  <2>. QED
    BY <1>1, <1>2, <2>1, <2>2, <2>3
<1>. QED
  BY <1>2, <1>4, <1>6, <1>7, <1>8 DEF MathInv, Math!Multiplied, Math!Divided, Math!Rooted

LEMMA MathSteps == MathInv /\ [OSNext]_<<class, vars, mathVars>> => MathInv'
<1> SUFFICES ASSUME MathInv, [OSNext]_<<class, vars, mathVars>> PROVE MathInv'
  OBVIOUS
<1>1. CASE Math!Next
  <2>1. MathTypes'
    BY <1>1, MathTyped DEF MathInv
  <2>2. CASE Math!Multiply
    <3>1. Multiplying'
      BY <2>2, MultiplyStep DEF MathInv
    <3>2. function' = "multiply" /\ returned' = "none"
      BY <2>2 DEF Math!Multiply, MathInv, MathTypes
    <3>. QED
      BY <2>1, <3>1, <3>2 DEF MathInv, Dividing, Rooting, Math!Multiplied, Math!Divided, Math!Rooted
  <2>3. CASE Math!Divide \/ Math!DivideNone \/ Math!DivideBack
    <3>1. Dividing'
      BY <2>3, DivideCalls, DivideNoneGives, DivideGoesOn DEF MathInv
    <3>2. function' \in {"divide", "dividing"} /\ returned' = "none"
      BY <2>3 DEF Math!Divide, Math!DivideNone, Math!DivideBack, MathInv, MathTypes
    <3>. QED
      BY <2>1, <3>1, <3>2 DEF MathInv, Multiplying, Rooting, Math!Multiplied, Math!Divided, Math!Rooted
  <2>4. CASE Math!Sqrt
    <3>1. Rooting'
      BY <2>4, SqrtStep DEF MathInv
    <3>2. function' = "sqrt" /\ returned' = "none"
      BY <2>4 DEF Math!Sqrt, MathInv, MathTypes
    <3>. QED
      BY <2>1, <3>1, <3>2 DEF MathInv, Multiplying, Dividing, Math!Multiplied, Math!Divided, Math!Rooted
  <2>5. CASE Math!MultiplyReturn
    <3>1. Math!Multiplied'
      BY <2>5, MultiplyReturns DEF MathInv
    <3>2. function' = "none" /\ returned' = "multiply"
      BY <2>5 DEF Math!MultiplyReturn, Math!Return
    <3>. QED
      BY <2>1, <3>1, <3>2 DEF MathInv, Multiplying, Dividing, Rooting, Math!Divided, Math!Rooted
  <2>6. CASE Math!DivideReturn
    <3>1. Math!Divided'
      BY <2>6, DivideReturns DEF MathInv
    <3>2. function' = "none" /\ returned' = "divide"
      BY <2>6 DEF Math!DivideReturn, Math!Return
    <3>. QED
      BY <2>1, <3>1, <3>2 DEF MathInv, Multiplying, Dividing, Rooting, Math!Multiplied, Math!Rooted
  <2>7. CASE Math!SqrtReturn
    <3>1. Math!Rooted'
      BY <2>7, SqrtReturns DEF MathInv
    <3>2. function' = "none" /\ returned' = "sqrt"
      BY <2>7 DEF Math!SqrtReturn, Math!Return
    <3>. QED
      BY <2>1, <3>1, <3>2 DEF MathInv, Multiplying, Dividing, Rooting, Math!Multiplied, Math!Divided
  <2>. QED
    BY <1>1, <2>2, <2>3, <2>4, <2>5, <2>6, <2>7 DEF Math!Next
<1>2. CASE UNCHANGED mathVars
  <2>1. UNCHANGED <<function, x, y, i, shifted_x, sum, calls, returned>>
    BY <1>2 DEF mathVars
  <2>2. MathTypes' /\ Multiplying' /\ Rooting'
    BY <2>1 DEF MathInv, MathTypes, Multiplying, Rooting, Power
  <2>3. Dividing'
    BY <2>1 DEF MathInv, Dividing, Divisor, Power
  <2>. QED
    BY <2>1, <2>2, <2>3 DEF MathInv, Math!Multiplied, Math!Divided, Math!Rooted
<1>. QED
  BY <1>1, <1>2 DEF OSNext, MemoryStep, MathStep

LEMMA MathInvariant == OSSpec => []MathInv
<1>. QED
  BY MathStarts, MathSteps, PTL DEF OSSpec

\* Products, quotients and roots are right for words of any even number of bits, although sums,
\* squares and the doubled divisor wrap around on the way (Math.multiply, Math.divide, Math.sqrt).
THEOREM AlwaysCalculated == OSSpec => []Calculated
<1>1. MathInv => Calculated
  BY DEF MathInv, Calculated
<1>. QED
  BY <1>1, MathInvariant, PTL

\* A division by a positive word is never nested deeper than a word has bits, so that twice the
\* divisor is not zero when it is used again (Math.divide).
THEOREM DivisionEnds == OSSpec => []DivideEnds
<1>1. MathInv => DivideEnds
  <2> SUFFICES ASSUME MathInv, calls # <<>>, Math!Signed(calls[1]) > 0
               PROVE  Len(calls) <= WordBits
    BY DEF DivideEnds, Math!DivideEnds, Math!Signed, Math!Size
  <2>1. function \in {"divide", "dividing"} /\ calls[1] \in Math!Word
    BY DEF MathInv, MathTypes
  <2>2. Divisor = calls[1]
    BY DEF Divisor
  <2>3. 0 < Divisor /\ Divisor < Half
    BY <2>1, <2>2, WordSizes
  <2>. QED
    BY <2>1, <2>3 DEF MathInv, Dividing
<1>. QED
  BY <1>1, MathInvariant, PTL
===============================================================================
