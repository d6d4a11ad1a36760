-------------------------------- MODULE Assembler --------------------------------
(***************************************************************************)
(* The assembler of the Hack machine, class Assembler: one pass over the   *)
(* source that gives a name it does not know the next free address, as if  *)
(* it were a variable, and takes the address back when the name turns out  *)
(* to be a label.                                                          *)
(***************************************************************************)
EXTENDS Integers, Sequences, FiniteSets

CONSTANTS Symbols,        \* the names a program may use
          RegisterCount,  \* variables live from this address on; 16 in the code
          MaxLines        \* bound on the length of a program

Register(i) == <<"R", i>>
Removed(n) == <<"~", n>>

Marks == {Removed(n) : n \in Symbols}

\* A program uses finitely many names; the names of the registers are in the map from
\* the start, and "~name--" is no name the language has.
ASSUME AssemblerAssumption ==
  /\ RegisterCount \in Nat
  /\ MaxLines \in Nat
  /\ IsFiniteSet(Symbols)
  /\ Symbols \cap ({Register(i) : i \in 0 .. RegisterCount - 1} \cup Marks) = {}

VARIABLES
  index_mapping,          \* the address of a name
  index_mapping_inverse,  \* the name of an address
  next_var_index,
  loc,                    \* the position of the next instruction
  a_instruction,          \* the instructions that load an address, in order
  source,                 \* history: the lines read so far
  done                    \* has the end of the file been reached?

vars == <<index_mapping, index_mapping_inverse, next_var_index, loc, a_instruction, source, done>>

Names == Symbols \cup {Register(i) : i \in 0 .. RegisterCount - 1}
                 \cup Marks

Lines == [kind : {"address", "label"}, name : Symbols] \cup [kind : {"compute"}]

Labels == {n \in Symbols : \E k \in DOMAIN source : source[k] = [kind |-> "label", name |-> n]}

TypeOK ==
  /\ DOMAIN index_mapping \subseteq Names
  /\ \A n \in DOMAIN index_mapping : index_mapping[n] \in Nat
  /\ DOMAIN index_mapping_inverse \subseteq Nat
  /\ \A i \in DOMAIN index_mapping_inverse : index_mapping_inverse[i] \in Names
  /\ next_var_index \in Nat
  /\ loc \in 0 .. MaxLines
  /\ a_instruction \in Seq([loc : Nat, name : Symbols])
  /\ source \in Seq(Lines)
  /\ Len(source) <= MaxLines
  /\ done \in BOOLEAN

Init ==
  /\ index_mapping = [n \in {Register(i) : i \in 0 .. RegisterCount - 1} |-> n[2]]
  /\ index_mapping_inverse = [i \in 0 .. RegisterCount - 1 |-> Register(i)]
  /\ next_var_index = RegisterCount
  /\ loc = 0
  /\ a_instruction = <<>>
  /\ source = <<>>
  /\ done = FALSE

Bind(f, x, v) == [y \in DOMAIN f \cup {x} |-> IF y = x THEN v ELSE f[y]]

Read(line) ==
  /\ ~done
  /\ Len(source) < MaxLines
  /\ source' = Append(source, line)
  /\ UNCHANGED done

-----------------------------------------------------------------------------
\* Mutant: the next free address is not advanced.
AllocateFixed(n) ==
  /\ n \notin DOMAIN index_mapping
  /\ index_mapping' = Bind(index_mapping, n, next_var_index)
  /\ index_mapping_inverse' = Bind(index_mapping_inverse, next_var_index, n)
  /\ UNCHANGED next_var_index

Allocate(n) ==
  /\ n \notin DOMAIN index_mapping
  /\ index_mapping' = Bind(index_mapping, n, next_var_index)
  /\ index_mapping_inverse' = Bind(index_mapping_inverse, next_var_index, n)
  /\ next_var_index' = next_var_index + 1

Known(n) ==
  /\ n \in DOMAIN index_mapping
  /\ UNCHANGED <<index_mapping, index_mapping_inverse, next_var_index>>

Variable ==
  \E n \in Symbols :
    /\ Read([kind |-> "address", name |-> n])
    /\ Allocate(n) \/ Known(n)
    /\ a_instruction' = Append(a_instruction, [loc |-> loc, name |-> n])
    /\ loc' = loc + 1

Compute ==
  /\ Read([kind |-> "compute"])
  /\ loc' = loc + 1
  /\ UNCHANGED <<index_mapping, index_mapping_inverse, next_var_index, a_instruction>>

-----------------------------------------------------------------------------
\* The last address of the unbroken run of named addresses that starts at index.
RunEnd(inverse, index) ==
  CHOOSE last \in DOMAIN inverse :
    index .. last \subseteq DOMAIN inverse /\ last >= index /\ last + 1 \notin DOMAIN inverse

MovedTo(inverse, first, last, n) ==
  CHOOSE i \in first .. last : inverse[i + 1] = n /\ \A j \in i + 1 .. last : inverse[j + 1] # n

\* Mutant: the label is dropped but the variables behind it stay.
WithoutShift(n) ==
  [mapping |-> index_mapping, inverse |-> index_mapping_inverse]

\* The maps once a name that was given an address is taken out again and every
\* name behind it has moved down by one.
Without(n) ==
  LET index == index_mapping[n]
      marked == Bind(index_mapping_inverse, index, Removed(n))
      last == RunEnd(marked, index)
      moved == {marked[i] : i \in index + 1 .. last}
  IN [mapping |->
        [m \in DOMAIN index_mapping \cup moved |->
           IF m \in moved THEN MovedTo(marked, index, last - 1, m) ELSE index_mapping[m]],
      inverse |->
        [i \in DOMAIN marked \ {j \in {last} : j > index} |->
           IF i \in index .. last - 1 THEN marked[i + 1] ELSE marked[i]]]

\* A label no instruction has named yet.
DefineNew(n) ==
  /\ n \notin DOMAIN index_mapping
  /\ index_mapping' = Bind(index_mapping, n, loc)
  /\ index_mapping_inverse' = Bind(index_mapping_inverse, loc, n)
  /\ UNCHANGED next_var_index

\* A label that was taken for a variable.
DefineForward(n) ==
  /\ n \in DOMAIN index_mapping
  /\ index_mapping' = Bind(Without(n).mapping, n, loc)
  /\ index_mapping_inverse' = Bind(Without(n).inverse, loc, n)
  /\ next_var_index' = next_var_index - 1

\* No program defines a label twice.
Label ==
  \E n \in Symbols \ Labels :
    /\ Read([kind |-> "label", name |-> n])
    /\ DefineNew(n) \/ DefineForward(n)
    /\ UNCHANGED <<loc, a_instruction>>

EndOfFile ==
  /\ ~done
  /\ done' = TRUE
  /\ UNCHANGED <<index_mapping, index_mapping_inverse, next_var_index, loc, a_instruction, source>>

\* The addresses the instructions load, looked up when the whole source is read.
to_instructions == [i \in DOMAIN a_instruction |-> index_mapping[a_instruction[i].name]]

Next == Variable \/ Compute \/ Label \/ EndOfFile

Spec == Init /\ [][Next]_vars

-----------------------------------------------------------------------------
(* What two passes over the source make of the names. *)

Instructions(lines) == Cardinality({k \in DOMAIN lines : lines[k].kind # "label"})

LabelLine(n) == CHOOSE k \in DOMAIN source : source[k] = [kind |-> "label", name |-> n]

LabelAddress(n) == Instructions(SubSeq(source, 1, LabelLine(n)))

\* The names that are variables by the end of the first pass, over lines 1 .. k.
Variables(k) ==
  {n \in Symbols \ Labels : \E j \in 1 .. k : source[j] = [kind |-> "address", name |-> n]}

FirstUse(n) ==
  CHOOSE k \in DOMAIN source :
    /\ source[k] = [kind |-> "address", name |-> n]
    /\ \A j \in 1 .. k - 1 : source[j] # source[k]

AddressOf(n) ==
  IF n \in Labels THEN LabelAddress(n)
  ELSE RegisterCount + Cardinality(Variables(FirstUse(n) - 1))

Resolved == \A i \in DOMAIN a_instruction : to_instructions[i] = AddressOf(a_instruction[i].name)

\* The labels lie clear of every address a variable may ever have had.
Apart ==
  \A n \in Labels :
    LabelAddress(n) \notin RegisterCount .. RegisterCount + Cardinality(Symbols)

\* When the labels of a program lie clear of the variables, one pass gives every
\* name the address two passes give it, in whatever order names are used before
\* they are defined: a label its position, the variables the addresses from 16
\* on in the order of first use (Assembler::instruction, assembler.hpp:384-402).
ResolvedApart == done /\ Apart => Resolved

\* No two names that an instruction loads share the address of a variable, and
\* no variable reaches into the registers.
VariablesDistinct ==
  done /\ Apart =>
    \A m, n \in Variables(Len(source)) :
      /\ index_mapping[n] \in RegisterCount .. next_var_index - 1
      /\ index_mapping[m] = index_mapping[n] => m = n

\* "We have to actually remove it and decrement the index of all variables whose
\* index is greater than the label's initial index": of all variables, and of
\* nothing else (assembler.hpp:386-387).
LabelsStay == \A n \in Labels : index_mapping[n] = LabelAddress(n)
=============================================================================
