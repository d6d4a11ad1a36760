-------------------------------- MODULE JackHeap --------------------------------
(***************************************************************************)
(* The heap of the Jack operating system, class Memory of memory.jack: a   *)
(* list of free blocks threaded through the heap itself.  A block is a     *)
(* word for its length, a word for the address of the next free block, and *)
(* length words the program may use.  alloc takes the first block that is  *)
(* long enough and splits it; dealloc puts a block back at the head.       *)
(***************************************************************************)
EXTENDS Integers, FiniteSets

CONSTANTS HeapBase,    \* 2048 in the code
          HeapLength,  \* 14335 in the code: the length of the one block init makes
          Sizes        \* the sizes programs ask for

ASSUME HeapAssumption ==
  /\ HeapBase \in Nat \ {0}
  /\ HeapLength \in Nat
  /\ Sizes \subseteq Nat

VARIABLES
  mem,         \* the words of the heap and those the last split can reach behind it
  free_blocks,
  call,        \* the call under way
  size,
  prev_block,
  block,
  live,        \* history: the blocks the program holds, with the size it asked for
  tight        \* history: was a block split that has no room for a second header?

vars == <<mem, free_blocks, call, size, prev_block, block, live, tight>>

null == 0
length == 0
next == 1

LastAddress == HeapBase + HeapLength + 3

Addresses == HeapBase .. LastAddress

TypeOK ==
  /\ mem \in [Addresses -> Int]
  /\ free_blocks \in Addresses
  /\ call \in {"none", "alloc"}
  /\ size \in Sizes \cup {0}
  /\ prev_block \in Addresses \cup {null}
  /\ block \in Addresses \cup {null}
  /\ live \subseteq [at : Addresses, size : Sizes]
  /\ tight \in BOOLEAN

Init ==
  /\ mem = [a \in Addresses |-> IF a = HeapBase + length THEN HeapLength ELSE null]
  /\ free_blocks = HeapBase
  /\ call = "none"
  /\ size = 0 /\ prev_block = null /\ block = null
  /\ live = {}
  /\ tight = FALSE

-----------------------------------------------------------------------------
Alloc ==
  \E s \in Sizes :
    /\ call = "none"
    /\ call' = "alloc"
    /\ size' = s
    /\ prev_block' = null
    /\ block' = free_blocks
    /\ UNCHANGED <<mem, free_blocks, live, tight>>

TooShort == mem[block + length] < size

Return ==
  /\ call' = "none"
  /\ size' = 0 /\ prev_block' = null /\ block' = null

\* Mutant: the search starts over at the head of the list.
TraverseAgain ==
  /\ call = "alloc"
  /\ TooShort
  /\ mem[block + next] # null
  /\ block' = free_blocks
  /\ UNCHANGED <<mem, free_blocks, call, size, prev_block, live, tight>>

Traverse ==
  /\ call = "alloc"
  /\ TooShort
  /\ mem[block + next] # null
  /\ prev_block' = block
  /\ block' = mem[block + next]
  /\ UNCHANGED <<mem, free_blocks, call, size, live, tight>>

OutOfMemory ==
  /\ call = "alloc"
  /\ TooShort
  /\ mem[block + next] = null
  /\ Return
  /\ UNCHANGED <<mem, free_blocks, live, tight>>

next_block == block + 2 + size

\* Mutant: the remainder keeps the words of its header.
HeadersCounted ==
  [[[[mem EXCEPT ![next_block + length] = mem[block + length] - size]
          EXCEPT ![next_block + next] = mem[block + next]]
          EXCEPT ![block + length] = size]
          EXCEPT ![block + next] = null]

\* Mutant: the block keeps the length it had.
LengthUnset ==
  [[[mem EXCEPT ![next_block + length] = mem[block + length] - size - 2]
         EXCEPT ![next_block + next] = mem[block + next]]
         EXCEPT ![block + next] = null]

\* The headers of the two halves, written in the order of the code.
Headers ==
  [[[[mem EXCEPT ![next_block + length] = mem[block + length] - size - 2]
          EXCEPT ![next_block + next] = mem[block + next]]
          EXCEPT ![block + length] = size]
          EXCEPT ![block + next] = null]

Relink ==
  IF prev_block = null
  THEN /\ free_blocks' = next_block
       /\ mem' = Headers
  ELSE /\ mem' = [Headers EXCEPT ![prev_block + next] = next_block]
       /\ UNCHANGED free_blocks

Split ==
  /\ call = "alloc"
  /\ ~TooShort
  /\ Relink
  /\ live' = live \cup {[at |-> block, size |-> size]}
  /\ tight' = (tight \/ mem[block + length] < size + 2)
  /\ Return

Freed(b) == [mem EXCEPT ![b + next] = free_blocks]

Dealloc ==
  \E b \in live :
    /\ call = "none"
    /\ mem' = Freed(b.at)
    /\ free_blocks' = b.at
    /\ live' = live \ {b}
    /\ UNCHANGED <<call, size, prev_block, block, tight>>

Next == Alloc \/ Traverse \/ OutOfMemory \/ Split \/ Dealloc

Spec == Init /\ [][Next]_vars /\ WF_vars(Traverse) /\ WF_vars(OutOfMemory) /\ WF_vars(Split)

-----------------------------------------------------------------------------
\* The free list, followed for as many steps as there are addresses.
Chain[n \in 0 .. HeapLength] ==
  IF n = 0 THEN free_blocks
  ELSE LET b == Chain[n - 1] IN IF b = null THEN null ELSE mem[b + next]

FreeBlocks == {Chain[n] : n \in 0 .. HeapLength} \ {null}

Extent(b, words) == b .. b + 1 + words

\* Every word of the heap belongs to exactly one block, free or in use, headers
\* included, as long as no block was split that had no room for a second header:
\* nothing leaks and nothing is handed out twice (Memory.alloc, Memory.dealloc).
Partitioned ==
  ~tight =>
    \A a \in HeapBase .. HeapBase + 1 + HeapLength :
      Cardinality({b \in FreeBlocks : a \in Extent(b, mem[b + length])})
        + Cardinality({b \in live : a \in Extent(b.at, b.size)}) = 1

\* A block in use keeps the length it was allocated with, so that giving it back
\* returns all of it (Memory.dealloc reads no size).
LengthsKept == ~tight => \A b \in live : mem[b.at + length] = b.size

\* The free list ends, and so does every search of it (memory.jack:37-44).
AllocReturns == []~tight => (call = "alloc" ~> call = "none")

\* "Return the free memory": what alloc returns overlaps no other block in use,
\* header or words (memory.jack:62-63).
Disjoint ==
  \A b, c \in live :
    b # c => Extent(b.at, b.size) \cap Extent(c.at, c.size) = {}

\* "Keep traversing to find a block we can use": the search comes to an end
\* (memory.jack:35).
SearchEnds == call = "alloc" ~> call = "none"
=============================================================================
