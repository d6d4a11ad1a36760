-------------------------------- MODULE BoardGui --------------------------------
(***************************************************************************)
(* The window in which a circuit is drawn. Clicks and keys change what is   *)
(* on the screen and, in the same handler, the gate it stands for, the      *)
(* sketch (GateWiring). The window counts the pins it shows to find the     *)
(* number by which the sketch knows them.                                   *)
(*                                                                         *)
(* A click goes to the text box of the name, the toolbox and the components *)
(* first, and then to the port or the wire that the mode says. Signals and  *)
(* the points of a wire are left out.                                       *)
(***************************************************************************)
EXTENDS GateWiring

VARIABLES
  edit_mode,                      \* "IDLE", "WIRING" or "TEXT"
  m_name_edit, m_search_edit,     \* the text box that is being typed in
  m_entries,                      \* the search has found something
  m_active_component,             \* the shape of the component at the mouse, or nullptr
  event,                          \* where the click under way is, or nullptr
  m_input_pin_port, m_output_pin_port, \* how many pins the ports of the sketch show
  m_components,                   \* how many <<input, output>> pins each component shows
  m_wires,                        \* the wires drawn, in order
  active_wire,                    \* which of them is being drawn, or 0
  slips,                          \* history: what the user did that the window takes amiss
  by                              \* a gate is made by "commands" or in the "window"

toolbox == <<m_name_edit, m_search_edit, m_entries, m_active_component>>
shown == <<m_input_pin_port, m_output_pin_port, m_components>>
drawing == <<m_wires, active_wire>>
guiVars == <<edit_mode, toolbox, event, shown, drawing, slips>>

GuiInit ==
  /\ edit_mode = "IDLE"
  /\ m_name_edit = FALSE
  /\ m_search_edit = FALSE
  /\ m_entries = FALSE
  /\ m_active_component = nullptr
  /\ event = nullptr
  /\ m_input_pin_port = 0
  /\ m_output_pin_port = 0
  /\ m_components = <<>>
  /\ m_wires = <<>>
  /\ active_wire = 0
  /\ slips = {}

-----------------------------------------------------------------------------
Sides == {"in", "out"}
PortSize(gate, side) ==
  CASE gate = 0 /\ side = "in" -> m_input_pin_port
    [] gate = 0 /\ side = "out" -> m_output_pin_port
    [] OTHER -> m_components[gate][IF side = "in" THEN 1 ELSE 2]

\* Pins have the names GateWiring gives them; the pin of a place in a port is the same.
PortPins(gate, side) == {<<gate, side, k>> : k \in 0 .. PortSize(gate, side) - 1}

ShownPins == UNION {PortPins(gate, side) : gate \in 0 .. Len(m_components), side \in Sides}

\* Bound: a click on a port finds the numbers of inputs below the limit, after what it places.
Room == Addressable(input_pins + 1 + IF m_active_component = nullptr THEN 0 ELSE m_active_component[1])

\* Where one can click: texts, entries of the search, ports beside their pins, pins, or none of these.
Places ==
  {<<"name">>, <<"search">>, <<"board">>}
    \cup (IF m_entries THEN {<<"entry">>} ELSE {})
    \cup {<<"port", gate, side>> : gate \in IF Room THEN 0 .. Len(m_components) ELSE {}, side \in Sides}
    \cup {<<"pin">> \o pin : pin \in ShownPins}

\* How many pins of a side are shown by the sketch's port and the components before this one.
Before(gate, side) ==
  LET acc[g \in 0 .. gate] == IF g = 0 THEN 0 ELSE acc[g - 1] + PortSize(g - 1, side)
  IN acc[gate]

\* Mutant: the pins of the sketch's own port are not counted for the outputs of components.
get_pid_uncounted(pin) ==
  LET numbered == pin[3] + Before(pin[1], pin[2])
  IN IF pin[2] = "in" THEN numbered
     ELSE numbered + INPUT_PIN_LIMIT - (IF pin[1] = 0 THEN 0 ELSE m_output_pin_port)

\* The number the window takes a pin it shows to have (the gate's get_pin finds the pin of a number).
get_pid(pin) ==
  LET numbered == pin[3] + Before(pin[1], pin[2])
  IN IF pin[2] = "in" THEN numbered ELSE numbered + INPUT_PIN_LIMIT

-----------------------------------------------------------------------------
place_component ==
  /\ m_active_component # nullptr
  /\ add_subgate(m_active_component)
  /\ m_components' = Append(m_components, m_active_component)
  /\ m_active_component' = nullptr
  /\ UNCHANGED <<m_input_pin_port, m_output_pin_port>>

select_belt ==
  /\ m_active_component = nullptr
  /\ m_active_component' \in Shapes
  /\ UNCHANGED <<vars, shown>>

\* A box is typed in until another place is clicked; typing is a mode, and ends in normal mode.
ClickedMode(place) ==
  LET mode == IF m_name_edit THEN "TEXT" ELSE edit_mode
  IN CASE place = <<"search">> -> "TEXT"
       [] place # <<"search">> /\ mode = "TEXT" -> "IDLE"
       [] OTHER -> mode

\* The first half of a click: the text box of the name and the toolbox.
Click(place) ==
  /\ event = nullptr
  /\ event' = place
  /\ edit_mode' = ClickedMode(place)
  /\ m_name_edit' = (place = <<"name">>)
  /\ m_search_edit' = (place = <<"search">>)
  /\ \/ place_component
     \/ place = <<"entry">> /\ select_belt
     \/ place # <<"entry">> /\ m_active_component = nullptr /\ UNCHANGED <<vars, shown, m_active_component>>
  /\ slips' = IF active_wire # 0 /\ place \in {<<"name">>, <<"search">>}
              THEN slips \cup {"typed"} ELSE slips
  /\ UNCHANGED <<m_entries, drawing>>

\* A port adds the pin it shows to the sketch. Components call it without saying which side
\* they are, so whatever side is clicked the sketch has one more input.
add_pin(gate, side) ==
  /\ IF gate = 0 /\ side = "out" THEN add_output_pin(1) ELSE add_input_pin(1)
  /\ m_input_pin_port' = IF <<gate, side>> = <<0, "in">> THEN m_input_pin_port + 1 ELSE m_input_pin_port
  /\ m_output_pin_port' = IF <<gate, side>> = <<0, "out">> THEN m_output_pin_port + 1 ELSE m_output_pin_port
  /\ m_components' = IF gate = 0 THEN m_components
                     ELSE [m_components EXCEPT ![gate][IF side = "in" THEN 1 ELSE 2] = @ + 1]
  /\ slips' = IF gate = 0 THEN slips ELSE slips \cup {"edge"}
  /\ UNCHANGED drawing

start_wire(pin) ==
  /\ m_wires' = Append(m_wires, [m_src |-> pin, m_src_idx |-> get_pid(pin), m_dest_pins |-> nullptr])
  /\ active_wire' = Len(m_wires')
  /\ UNCHANGED vars

\* The number of the first pin is the one it had when it was clicked.
end_wire(pin) ==
  LET src_idx == m_wires[active_wire].m_src_idx
  IN /\ m_wires' = [m_wires EXCEPT ![active_wire].m_dest_pins = pin]
     /\ active_wire' = 0
     /\ \/ wire_pins(src_idx, get_pid(pin))
        \/ nullptr \in {get_pin(src_idx), get_pin(get_pid(pin))} /\ UNCHANGED vars

handle_wiring_mode(pin) ==
  /\ \/ active_wire = 0 /\ start_wire(pin)
     \/ active_wire # 0 /\ m_wires[active_wire].m_src # pin /\ end_wire(pin)
     \/ active_wire # 0 /\ m_wires[active_wire].m_src = pin /\ UNCHANGED <<vars, drawing>>
  /\ UNCHANGED <<shown, slips>>

AddsPin(place) ==
  /\ place[1] = "port"
  /\ \/ place[2] = 0 /\ edit_mode = "IDLE"
     \/ place[2] # 0 /\ edit_mode # "WIRING"
Wires(place) == place[1] = "pin" /\ edit_mode = "WIRING"

\* The second half of a click: the components, and what the mode has it do.
HandleClick ==
  /\ event # nullptr
  /\ event' = nullptr
  /\ \/ AddsPin(event) /\ add_pin(event[2], event[3])
     \/ Wires(event) /\ handle_wiring_mode(<<event[2], event[3], event[4]>>)
     \/ ~AddsPin(event) /\ ~Wires(event) /\ UNCHANGED <<vars, shown, drawing, slips>>
  /\ UNCHANGED <<edit_mode, toolbox>>

-----------------------------------------------------------------------------
Typing == m_name_edit \/ m_search_edit

\* What is typed may or may not find a component.
TypeText ==
  /\ event = nullptr /\ Typing
  /\ edit_mode' = "TEXT"
  /\ m_entries' \in IF m_search_edit THEN BOOLEAN ELSE {m_entries}
  /\ UNCHANGED <<vars, m_name_edit, m_search_edit, m_active_component, event, shown, drawing, slips>>

TypeReturn ==
  /\ event = nullptr /\ Typing
  /\ edit_mode' = "IDLE"
  /\ m_name_edit' = FALSE
  /\ m_search_edit' = FALSE
  /\ UNCHANGED <<vars, m_entries, m_active_component, event, shown, drawing, slips>>

\* Mutant: leaving wiring mode keeps the wire that is being drawn.
toggle_keeps ==
  /\ event = nullptr /\ ~Typing
  /\ edit_mode' = IF edit_mode = "WIRING" THEN "IDLE" ELSE "WIRING"
  /\ UNCHANGED <<vars, toolbox, event, shown, drawing, slips>>

\* The key E.
toggle_mode ==
  /\ event = nullptr /\ ~Typing
  /\ edit_mode' = IF edit_mode = "WIRING" THEN "IDLE" ELSE "WIRING"
  /\ active_wire' = IF edit_mode = "WIRING" THEN 0 ELSE active_wire
  /\ UNCHANGED <<vars, toolbox, event, shown, m_wires, slips>>

new_sketch ==
  /\ input_pins' = 0
  /\ output_pins' = 0
  /\ subgate_count' = 0
  /\ subgate_inputs' = <<>>
  /\ subgate_outputs' = <<>>
  /\ wire_construction_recipe' = <<>>
  /\ wires' = <<>>
  /\ loose' = {}

\* Mutant: the wire that is being drawn is not forgotten.
clear_keeps ==
  /\ event = nullptr /\ ~Typing
  /\ new_sketch
  /\ m_wires' = <<>>
  /\ m_components' = <<>>
  /\ m_input_pin_port' = 0
  /\ m_output_pin_port' = 0
  /\ UNCHANGED <<edit_mode, toolbox, event, active_wire, slips>>

\* The key C: an empty sketch; the mode and the component at the mouse stay.
clear ==
  /\ event = nullptr /\ ~Typing
  /\ new_sketch
  /\ m_wires' = <<>>
  /\ m_components' = <<>>
  /\ m_input_pin_port' = 0
  /\ m_output_pin_port' = 0
  /\ active_wire' = 0
  /\ UNCHANGED <<edit_mode, toolbox, event, slips>>

Escape ==
  /\ event = nullptr
  /\ m_active_component # nullptr
  /\ m_active_component' = nullptr
  /\ UNCHANGED <<vars, edit_mode, m_name_edit, m_search_edit, m_entries, event, shown, drawing, slips>>

GuiNext ==
  \/ \E place \in Places : Click(place)
  \/ HandleClick
  \/ TypeText
  \/ TypeReturn
  \/ toggle_mode
  \/ clear
  \/ Escape

\* The window has a sketch of its own, which commands do not reach (run_gui, run_cli).
SessionInit == Init /\ GuiInit /\ by \in {"commands", "window"}

SessionNext ==
  \/ by = "commands" /\ Next /\ UNCHANGED <<guiVars, by>>
  \/ by = "window" /\ GuiNext /\ UNCHANGED by

SessionSpec == SessionInit /\ [][SessionNext]_<<vars, guiVars, by>>

-----------------------------------------------------------------------------
\* Types; and the wire being drawn is the last of the vector, so that the pointer to it is good
\* whenever the vector may grow, and has no end yet (handle_wiring_mode, clear).
GuiTypeOK ==
  /\ edit_mode \in {"IDLE", "WIRING", "TEXT"}
  /\ {m_name_edit, m_search_edit, m_entries} \subseteq BOOLEAN
  /\ m_active_component \in Shapes \cup {nullptr}
  /\ m_components \in Seq(Nat \X Nat)
  /\ edit_mode = "TEXT" => m_name_edit \/ m_search_edit
  /\ active_wire \in {0, Len(m_wires)}
  /\ active_wire # 0 => m_wires[active_wire].m_dest_pins = nullptr

\* As long as nobody clicks the edge of a component, the window and the sketch number every
\* pin alike, whatever was added in whatever order and however far a click has come
\* (BoardGui::get_pin and Gate::get_pin count on their own).
NumberedAsShown == "edge" \notin slips => \A pin \in ShownPins : get_pin(get_pid(pin)) = pin

\* The ends of the first k wires drawn, without those that were given up half drawn.
DrawnUpTo[k \in 0 .. Len(m_wires)] ==
  IF k = 0 THEN <<>>
  ELSE LET wire == m_wires[k]
       IN IF wire.m_dest_pins = nullptr THEN DrawnUpTo[k - 1]
          ELSE Append(DrawnUpTo[k - 1], <<wire.m_src, wire.m_dest_pins>>)

\* The sketch is wired as the screen shows, although the numbers of pins change while wires are
\* being drawn, unless the edge of a component was clicked or a text box was used with a wire half
\* drawn (handle_wiring_mode, handle_keyboard).
WiredAsDrawn == slips = {} => wires = DrawnUpTo[Len(m_wires)]

\* So it is after every session in the window; commands draw nothing (handle_wiring_mode).
WindowWired == by = "window" => WiredAsDrawn
=============================================================================
