--------------------------------- MODULE Board ---------------------------------
(***************************************************************************)
(* The board of loaded chips and the loading of gate files onto it. A file  *)
(* names the chips it needs, which are loaded first, from their own files   *)
(* or compiled from their HDL; then it creates its chip, adds duplicates of *)
(* the chips it needs, wires them and, if the chip is to be precomputed,    *)
(* simulates it for every input into a table. Duplicates of a precomputed   *)
(* chip do not copy the table but point to it.                              *)
(*                                                                          *)
(* Files are as the HDL compiler writes them: needs first, then one chip.   *)
(* Builtin chips are always there and left out.                             *)
(***************************************************************************)
EXTENDS Integers, Sequences, FiniteSets

CONSTANTS
  Chips,        \* names as the scripts have them, in lower case: create_new puts a chip under
                \* its name in lower case, and it is looked for by its name as written
  Needs,        \* the chips each gate file needs, in order: [Chips -> Seq(Chips)]
  Precomputed,  \* the chips whose files say precompute
  Breakable     \* those whose gate file may have a wire between pins that are not there

ASSUME BoardAssumption ==
  /\ Needs \in [Chips -> Seq(Chips)]
  /\ Precomputed \subseteq Chips
  /\ Breakable \subseteq Chips

VARIABLES
  components,  \* the chips on the board: the latest image of each
  created,     \* how often each chip has been created
  hdl, meta,   \* the chips that have an HDL file, and a meta file
  gate,        \* the chips that have a gate file
  broken,      \* of these, those with a wire between pins that are not there
  walk,        \* the gate files start-up has not come to yet
  calls,       \* the calls of load_file under way, the innermost last
  returned,    \* what the last of them returned: "true", "false" or "none"
  stopped      \* whether the program has called exit

board_vars == <<components, created, hdl, meta, gate, broken, walk, calls, returned, stopped>>

PartsOf(c) == {Needs[c][k] : k \in 1 .. Len(Needs[c])}

\* An image: which one it is, the chips it is made of, the tables its parts point to
\* (<<chip, image>>), whether all its wires are made and whether it has a table itself.
Image == [image : Nat, parts : SUBSET Chips, reads : SUBSET (Chips \X Nat), wired : BOOLEAN, serialized : BOOLEAN]

found(c) == c \in DOMAIN components

BoardTypeOK ==
  /\ DOMAIN components \subseteq Chips
  /\ \A c \in DOMAIN components : components[c] \in Image
  /\ created \in [Chips -> Nat]
  /\ hdl \subseteq Chips
  /\ meta \subseteq Chips
  /\ gate \subseteq Chips
  /\ broken \subseteq gate
  /\ walk \subseteq Chips
  /\ calls \in Seq([chip : Chips, need : Nat \ {0}, line : {"need", "create", "add", "wire", "precompute", "save"}, again : BOOLEAN])
  /\ returned \in {"none", "true", "false"}
  /\ stopped \in BOOLEAN

BoardInit ==
  /\ components = <<>>
  /\ created = [c \in Chips |-> 0]
  /\ hdl \in SUBSET Chips
  /\ gate \in SUBSET Chips
  /\ broken \in SUBSET (gate \cap Breakable)
  /\ meta = gate
  /\ walk = gate
  /\ calls = <<>>
  /\ returned = "none"
  /\ stopped = FALSE

-----------------------------------------------------------------------------
Top == calls[Len(calls)]
SetTop(frame) == [calls EXCEPT ![Len(calls)] = frame]
Pop == SubSeq(calls, 1, Len(calls) - 1)
Frame(c) == [chip |-> c, need |-> 1, line |-> "need", again |-> FALSE]

\* load_file(c) from an outermost command: without a file it returns false at once.
load_file(c) ==
  IF c \in gate
  THEN calls' = <<Frame(c)>> /\ returned' = "none"
  ELSE calls' = <<>> /\ returned' = "false"

\* What the command line waits for.
Ready == calls = <<>> /\ ~stopped

\* Start-up loads every file it finds, in the order of the directory, and ignores
\* what load_file returns.
init ==
  /\ Ready
  /\ \E c \in walk :
       /\ load_file(c)
       /\ walk' = walk \ {c}
  /\ UNCHANGED <<components, created, hdl, gate, meta, broken, stopped>>

\* The commands wait until start-up is over.
Prompt == Ready /\ walk = {}

load(c) ==
  /\ Prompt
  /\ ~found(c)
  /\ load_file(c)
  /\ UNCHANGED <<components, created, hdl, gate, meta, broken, walk, stopped>>

\* The HDL of a chip can be parsed if there are meta files of the chips it is made of.
Parses(c) == c \in hdl /\ PartsOf(c) \subseteq meta

WriteFiles(c) ==
  /\ gate' = gate \cup {c}
  /\ broken' = broken \ {c}
  /\ meta' = meta \cup {c}

compile(c) ==
  /\ Prompt
  /\ Parses(c)
  /\ WriteFiles(c)
  /\ calls' = <<Frame(c)>>
  /\ returned' = "none"
  /\ UNCHANGED <<components, created, hdl, walk, stopped>>

serialize(c) ==
  /\ Prompt
  /\ found(c)
  /\ components' = [components EXCEPT ![c].serialized = TRUE]
  /\ UNCHANGED <<created, hdl, gate, meta, broken, walk, calls, returned, stopped>>

-----------------------------------------------------------------------------
\* The need line the innermost call has come to.
Needing == calls # <<>> /\ ~stopped /\ Top.line = "need" /\ Top.need <= Len(Needs[Top.chip])
Needed == Needs[Top.chip][Top.need]
NextNeed == [Top EXCEPT !.need = @ + 1, !.again = FALSE]

NeedFound ==
  /\ Needing
  /\ returned = "none"
  /\ found(Needed)
  /\ calls' = SetTop(NextNeed)
  /\ UNCHANGED <<components, created, hdl, gate, meta, broken, walk, returned, stopped>>

NeedLoad ==
  /\ Needing
  /\ returned = "none"
  /\ ~found(Needed)
  /\ IF Needed \in gate
     THEN calls' = Append(calls, Frame(Needed)) /\ UNCHANGED returned
     ELSE returned' = "false" /\ UNCHANGED calls
  /\ UNCHANGED <<components, created, hdl, gate, meta, broken, walk, stopped>>

NeedLoaded ==
  /\ Needing
  /\ returned = "true"
  /\ calls' = SetTop(NextNeed)
  /\ returned' = "none"
  /\ UNCHANGED <<components, created, hdl, gate, meta, broken, walk, stopped>>

\* What could not be loaded is compiled and loaded again. A file that appears while
\* start-up walks the directory may be found there or not.
NeedCompile ==
  /\ Needing
  /\ returned = "false"
  /\ ~Top.again
  /\ Parses(Needed)
  /\ WriteFiles(Needed)
  /\ calls' = Append(SetTop([Top EXCEPT !.again = TRUE]), Frame(Needed))
  /\ returned' = "none"
  /\ walk' \in IF walk = {} \/ Needed \in gate THEN {walk} ELSE {walk, walk \cup {Needed}}
  /\ UNCHANGED <<components, created, hdl, stopped>>

\* Mutant: without an HDL file, load_file is called again.
NeedFailsAgain ==
  /\ Needing
  /\ returned = "false"
  /\ ~Top.again
  /\ Needed \notin hdl
  /\ returned' = "none"
  /\ UNCHANGED <<components, created, hdl, gate, meta, broken, walk, calls, stopped>>

\* Mutant: the failure of a need is not passed on.
NeedFailsNot ==
  /\ Needing
  /\ returned = "false"
  /\ ~Top.again
  /\ Needed \notin hdl
  /\ calls' = SetTop(NextNeed)
  /\ returned' = "none"
  /\ UNCHANGED <<components, created, hdl, gate, meta, broken, walk, stopped>>

\* Without an HDL file load_file returns false; the caller finds returned as it is.
NeedFails ==
  /\ Needing
  /\ returned = "false"
  /\ ~Top.again
  /\ Needed \notin hdl
  /\ calls' = Pop
  /\ UNCHANGED <<components, created, hdl, gate, meta, broken, walk, returned, stopped>>

\* HDL that does not parse, or whose gate file does not load, ends the program.
NeedExits ==
  /\ Needing
  /\ returned = "false"
  /\ Top.again \/ (Needed \in hdl /\ ~Parses(Needed))
  /\ stopped' = TRUE
  /\ UNCHANGED <<components, created, hdl, gate, meta, broken, walk, calls, returned>>

-----------------------------------------------------------------------------
At(line) == calls # <<>> /\ ~stopped /\ Top.line = line
Goto(line) == calls' = SetTop([Top EXCEPT !.line = line])

\* The image a chip had is destroyed, and its table with it.
create_new ==
  /\ At("need")
  /\ Top.need > Len(Needs[Top.chip])
  /\ LET new == [image |-> created[Top.chip] + 1, parts |-> {}, reads |-> {}, wired |-> FALSE, serialized |-> FALSE]
     IN components' = [c \in DOMAIN components \cup {Top.chip} |-> IF c = Top.chip THEN new ELSE components[c]]
  /\ created' = [created EXCEPT ![Top.chip] = @ + 1]
  /\ Goto("add")
  /\ UNCHANGED <<hdl, gate, meta, broken, walk, returned, stopped>>

\* The tables a duplicate of a chip points to: duplicate looks up by name the chips
\* that a chip without a table is made of.
Reads(part) ==
  LET reads[c \in Chips] ==
        IF ~found(c) THEN {}
        ELSE IF components[c].serialized THEN {<<c, components[c].image>>}
        ELSE UNION {reads[p] : p \in components[c].parts}
  IN reads[part]

\* The add lines: a chip that is not on the board ends the file. The chip of the file
\* itself may be on the board only in the image just created.
add_subgates ==
  /\ At("add")
  /\ IF \A p \in PartsOf(Top.chip) : found(p)
     THEN /\ components' = [components EXCEPT ![Top.chip].parts = PartsOf(Top.chip),
                                              ![Top.chip].reads = UNION {Reads(p) : p \in PartsOf(Top.chip)}]
          /\ Goto("wire")
          /\ UNCHANGED returned
     ELSE /\ calls' = Pop
          /\ returned' = "false"
          /\ UNCHANGED components
  /\ UNCHANGED <<created, hdl, gate, meta, broken, walk, stopped>>

\* Mutant: a chip that will have a table is left without wires.
wire_pins_plain ==
  /\ At("wire")
  /\ IF Top.chip \in broken
     THEN calls' = Pop /\ returned' = "false" /\ UNCHANGED components
     ELSE /\ components' = [components EXCEPT ![Top.chip].wired = Top.chip \notin Precomputed]
          /\ Goto(IF Top.chip \in Precomputed THEN "precompute" ELSE "save")
          /\ UNCHANGED returned
  /\ UNCHANGED <<created, hdl, gate, meta, broken, walk, stopped>>

wire_pins ==
  /\ At("wire")
  /\ IF Top.chip \in broken
     THEN calls' = Pop /\ returned' = "false" /\ UNCHANGED components
     ELSE /\ components' = [components EXCEPT ![Top.chip].wired = TRUE]
          /\ Goto(IF Top.chip \in Precomputed THEN "precompute" ELSE "save")
          /\ UNCHANGED returned
  /\ UNCHANGED <<created, hdl, gate, meta, broken, walk, stopped>>

precompute ==
  /\ At("precompute")
  /\ components' = [components EXCEPT ![Top.chip].serialized = TRUE]
  /\ Goto("save")
  /\ UNCHANGED <<created, hdl, gate, meta, broken, walk, returned, stopped>>

save ==
  /\ At("save")
  /\ calls' = Pop
  /\ returned' = "true"
  /\ UNCHANGED <<components, created, hdl, gate, meta, broken, walk, stopped>>

Step ==
  \/ NeedFound \/ NeedLoad \/ NeedLoaded \/ NeedCompile \/ NeedFails \/ NeedExits
  \/ create_new \/ add_subgates \/ wire_pins \/ precompute \/ save

BoardNext == init \/ (\E c \in Chips : load(c) \/ compile(c) \/ serialize(c)) \/ Step

\* load_file runs on until it returns; the user need not enter a command.
BoardSpec == BoardInit /\ [][BoardNext]_board_vars /\ WF_board_vars(Step)

-----------------------------------------------------------------------------
\* A chip that is simulated through its parts finds the table of every precomputed part
\* where it was when the part was added: no image is destroyed while another chip's
\* parts point to its table (serialize, simulate_serialized).
TablesAlive ==
  \A c \in DOMAIN components :
    components[c].serialized \/
      \A r \in components[c].reads : found(r[1]) /\ components[r[1]].image = r[2]

\* When a file has got past its needs, every chip it needs is on the board, so that
\* add, and later duplicate, which look it up by name, have something to duplicate
\* (load_file, Gate::duplicate).
NeedsFound ==
  At("add") => \A p \in PartsOf(Top.chip) : found(p)

\* A chip that is on the board is wired, unless its file is broken or still being
\* loaded (load_file).
LoadedWired ==
  \A c \in DOMAIN components :
    components[c].wired \/ c \in broken \/ \E k \in 1 .. Len(calls) : calls[k].chip = c

\* When a file has got past its needs, every chip it needs is loaded, with all its wires.
NeedsLoaded ==
  At("add") => \A p \in PartsOf(Top.chip) : found(p) /\ components[p].wired

\* Loading ends, whatever files are missing or broken (load_file).
LoadEnds == calls # <<>> ~> calls = <<>> \/ stopped
=============================================================================
