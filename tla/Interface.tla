------------------------------- MODULE Interface -------------------------------
(***************************************************************************)
(* What the player means by a click or a key, and what the program does    *)
(* about it: the window's callbacks (src/src/presentation/                 *)
(* desktop_input.cpp), scenes and the world's click (interaction.cpp), the *)
(* capture of controls (ui_state.cpp), the controls drawn and the requests *)
(* they make (renderer.cpp), and the loop that carries requests out        *)
(* (app/main.cpp).  A frame is: events, update_input, the requests, draw.  *)
(*                                                                         *)
(* The window is a few spots; a control covers some of them.  Pause, speed *)
(* and save in the footer are one control here, and so are the cards and   *)
(* focus buttons of the inspector: a press on one and a release on another *)
(* of them is a click here, which is more than the code allows.            *)
(***************************************************************************)
EXTENDS Naturals, Sequences

CONSTANTS
  Spots,      \* places of the pointer
  Rect,       \* the spots a control covers
  ArmedRect,  \* the same while abandoning is armed, which makes the menu's card taller
  World,      \* the spots of layout_.world
  PanelSpots, \* those of layout_.panel
  Close       \* pairs of spots that may be within the four pixels of a click

Controls == {"Bar", "Flight", "Inspector", "Card", "Send", "Trait", "Found", "CloseLegacy",
             "Restore", "Fresh", "Return", "SaveColony", "Abandon", "Confirm", "Keep"}
Scenes == {"Colony", "Legacy", "PauseMenu", "Recovery"}

ASSUME InterfaceAssumption ==
  /\ Rect \in [Controls -> SUBSET Spots] /\ ArmedRect \in [Controls -> SUBSET Spots]
  /\ Spots # {} /\ World \subseteq Spots /\ PanelSpots \subseteq Spots
  /\ Close \in SUBSET (SUBSET Spots)
  \* The footer lies below every card, and its controls beside each other.
  /\ Rect["Flight"] \cap (Rect["Bar"] \cup Rect["CloseLegacy"]) = {}

VARIABLES
  phase,      \* events, handle or draw: what the frame does next
  device,     \* DesktopFrame: pointer, origin, down, pressed, released, far
  edges,      \* the press and release update_input passes on to UiState
  scene, recovery,  \* SceneState
  offer, between,  \* recovery_prompt and between_runs of the loop
  inputScene, armed, inspector, toggle,  \* the renderer's fields of these names
  captured,   \* UiState::captured_id_
  grip,       \* WorldClick: its press is held
  select,     \* select_requested_
  requests,   \* the requests not yet carried out, each with the scene it was pressed in
  shown,      \* history: the scene on the screen
  begun,      \* history: the scene on the screen when the button last went down
  presses     \* history: presses since the pause menu was opened, at most two

uiVars == <<phase, device, edges, scene, recovery, offer, between, inputScene, armed, inspector,
          toggle, captured, grip, select, requests, shown, begun, presses>>

\* SceneState::scene.
View(s, r) == IF r THEN "Recovery" ELSE s
\* Where the pointer is between two presses is of no consequence: hovering is left out.
Idle == LET s == CHOOSE x \in Spots : TRUE
        IN  [pointer |-> s, origin |-> s, down |-> FALSE, pressed |-> FALSE,
             released |-> FALSE, far |-> FALSE]
NoEdges == [pressed |-> FALSE, released |-> FALSE]

UiInit ==
  /\ phase = "events"
  /\ device = Idle
  /\ edges = NoEdges
  /\ scene \in {"Colony", "Legacy"} /\ recovery = FALSE
  /\ offer \in BOOLEAN /\ between \in BOOLEAN /\ ~(offer /\ between)
  /\ inputScene = "Colony" /\ armed = FALSE /\ inspector = TRUE /\ toggle = FALSE
  /\ captured = "none" /\ grip = FALSE /\ select = FALSE /\ requests = {}
  /\ shown = "none" /\ begun = "none" /\ presses = 0

-----------------------------------------------------------------------------
(* Events between two frames: raylib polls the window in EndDrawing, never before the first *)

Polled == phase = "events" /\ shown # "none"

\* DesktopInput::move: whether the pointer has ever been more than four pixels from its origin.
Moved(s) ==
  {[device EXCEPT !.pointer = s, !.far = @ \/ away] :
     away \in {w \in BOOLEAN : (w => device.down)
                               /\ (device.down /\ s # device.origin
                                   /\ {s, device.origin} \notin Close => w)}}

MoveTo(s) ==
  /\ Polled /\ device.down
  /\ device' \in Moved(s)
  /\ UNCHANGED <<phase, edges, scene, recovery, offer, between, inputScene, armed, inspector,
                 toggle, captured, grip, select, requests, shown, begun, presses>>

Press(s) ==
  /\ Polled /\ ~device.down
  /\ device' = [pointer |-> s, origin |-> s, down |-> TRUE, pressed |-> TRUE,
                released |-> FALSE, far |-> FALSE]
  /\ begun' = shown
  /\ presses' = IF presses < 2 THEN presses + 1 ELSE 2
  /\ UNCHANGED <<phase, edges, scene, recovery, offer, between, inputScene, armed, inspector,
                 toggle, captured, grip, select, requests, shown>>

Release(s) ==
  /\ Polled /\ device.down
  /\ device' \in {[d EXCEPT !.released = TRUE, !.down = FALSE] : d \in Moved(s)}
  /\ UNCHANGED <<phase, edges, scene, recovery, offer, between, inputScene, armed, inspector,
                 toggle, captured, grip, select, requests, shown, begun, presses>>

-----------------------------------------------------------------------------
(* Renderer::update_input *)

\* escape and toggle_legacy; the recovery prompt lets go of nothing.
KeyScene(keys) ==
  CASE offer -> scene
    [] ~offer /\ "Esc" \in keys -> IF scene = "Colony" THEN "PauseMenu" ELSE "Colony"
    [] ~offer /\ "Esc" \notin keys /\ "L" \in keys -> IF scene = "Legacy" THEN "Colony"
                                                     ELSE "Legacy"
    [] OTHER -> scene

\* Fault: a scene that changed after the last input is not noticed.
KeyTransition(new) == View(scene, offer) # new
\* Whether the scene is another than before the keys, or than at the last input.
Transition(new) == View(scene, offer) # new \/ inputScene # new

\* Leaving a scene disarms the confirmation.
Disarmed(transitioned) == armed /\ ~transitioned

\* InterfaceLayout::owns_world.
OwnsWorld(s, open) == s \in World /\ ~(open /\ s \in PanelSpots)

\* WorldClick::update: the press still counts as one on the world.
Grips(colony, open, cancels) ==
  /\ IF device.pressed THEN colony /\ OwnsWorld(device.origin, open) ELSE grip /\ ~cancels
  /\ colony /\ OwnsWorld(device.pointer, open)
  /\ ~device.far

\* UiState::begin_frame: the capture outlives the frame of the release, and a drag ends it.
Kept(cancels, released) ==
  IF cancels \/ device.far \/ (~device.down /\ ~released) THEN "none" ELSE captured

\* DesktopInput::take_frame.
Taken == [device EXCEPT !.pressed = FALSE, !.released = FALSE]

\* What the keys of the scene that owns input can ask for.
KeyOrders(new, transitioned) ==
  CASE new = "Colony" /\ ~transitioned -> {"order"}
    [] new = "Legacy" /\ ~transitioned -> {"flight", "trait", "found"}
    [] new = "Recovery" -> {"recover", "fresh"}
    [] OTHER -> {}

\* keys are those of Escape, L and I that went down; at most one other key asks for something.
UpdateInput(keys) ==
  LET new == View(KeyScene(keys), offer)
      transitioned == Transition(new)
      colony == new = "Colony" /\ ~transitioned
      open == LET applied == inspector # toggle
              IN  IF colony /\ "I" \in keys THEN ~applied ELSE applied
      cancels == toggle \/ transitioned
      still == Grips(colony, open, cancels)
  IN  /\ phase = "events" /\ phase' = "handle"
      /\ recovery' = offer
      /\ scene' = KeyScene(keys)
      /\ inputScene' = new
      /\ armed' = Disarmed(transitioned)
      /\ inspector' = open /\ toggle' = FALSE
      /\ select' = (still /\ device.released)
      /\ grip' = (still /\ ~device.released /\ device.down)
      /\ edges' = IF transitioned THEN NoEdges
                  ELSE [pressed |-> device.pressed, released |-> device.released]
      /\ captured' = Kept(cancels, edges'.released)
      /\ device' = Taken
      /\ \E asked \in {{}} \cup {{w} : w \in KeyOrders(new, transitioned)} :
           /\ shown = "none" => keys = {} /\ asked = {}
           /\ requests' = (IF transitioned THEN {} ELSE requests)
                          \cup {[what |-> w, seen |-> shown] : w \in asked}
      /\ presses' = IF new = "PauseMenu" /\ View(scene, offer) = new THEN presses ELSE 0
      /\ UNCHANGED <<offer, between, shown, begun>>

-----------------------------------------------------------------------------
(* The loop carries requests out; any commit may fail *)

Asked(what) == \E r \in requests : r.what = what

\* Restoring or starting over, then at most one durable action.
Handle ==
  /\ phase = "handle" /\ phase' = "draw"
  /\ requests' = {}
  /\ \/ \* Nothing durable was asked for, or it was refused or failed.
        UNCHANGED <<offer, between, scene>>
     \/ /\ offer /\ Asked("recover")
        /\ offer' = FALSE /\ between' \in BOOLEAN /\ UNCHANGED scene
     \/ /\ offer /\ Asked("fresh")
        /\ offer' = FALSE /\ between' = FALSE /\ UNCHANGED scene
     \/ /\ ~offer /\ Asked("flight") /\ ~between
        /\ between' = TRUE /\ UNCHANGED <<offer, scene>>
     \/ /\ ~offer /\ Asked("abandon") /\ ~between
        /\ ~Asked("flight")
        /\ between' = TRUE /\ scene' = "Legacy" /\ UNCHANGED offer
     \/ /\ ~offer /\ Asked("found") /\ between /\ ~Asked("trait")
        /\ between' = FALSE /\ scene' = "Colony" /\ UNCHANGED offer
  /\ UNCHANGED <<device, edges, recovery, inputScene, armed, inspector, toggle, captured, grip,
                 select, shown, begun, presses>>

-----------------------------------------------------------------------------
(* Renderer::draw: controls are tracked in the order they are drawn *)

Asks(a, what) == [a EXCEPT !.requests = @ \cup {[what |-> what, seen |-> begun]}]
\* Scene changes drop the capture and, for the controls below it, the pointer.
Opens(a, s) == [a EXCEPT !.scene = IF recovery THEN @ ELSE s, !.captured = "none"]

\* What a click on a control does.
Clicked(a, c) ==
  CASE c \in {"Bar", "SaveColony"} -> Asks(a, "save")
    [] c = "Flight" -> [Opens(a, "Legacy") EXCEPT !.live = FALSE]
    [] c = "Inspector" -> [a EXCEPT !.toggle = TRUE]
    [] c = "Card" -> Asks(a, "order")
    [] c = "Send" -> Asks(a, "flight")
    [] c = "Trait" -> Asks(a, "trait")
    [] c = "Found" -> Asks(a, "found")
    [] c \in {"CloseLegacy", "Return"} -> Opens(a, "Colony")
    [] c = "Restore" -> Asks(a, "recover")
    [] c = "Fresh" -> Asks(a, "fresh")
    [] c = "Abandon" -> [a EXCEPT !.armed = TRUE]
    [] c = "Confirm" -> [Asks(a, "abandon") EXCEPT !.armed = FALSE]
    [] c = "Keep" -> [a EXCEPT !.armed = FALSE]

\* UiState::track and the button around it, for a control that can be used if it is in usable.
Track(a, c, usable) ==
  LET rect == IF armed THEN ArmedRect[c] ELSE Rect[c]
      over(s) == a.live /\ c \in usable /\ s \in rect
      held == IF edges.pressed /\ over(device.origin) THEN c ELSE a.captured
  IN  IF edges.released /\ held = c /\ over(device.pointer)
        THEN Clicked([a EXCEPT !.captured = "none"], c)
        ELSE [a EXCEPT !.captured = held]

Tracked(a, page, usable) ==
  LET after[n \in 0 .. Len(page)] ==
        IF n = 0 THEN a ELSE Track(after[n - 1], page[n], usable)
  IN  after[Len(page)]

\* The controls of the colony's scene and of the cards over it.
Footer == <<"Bar", "Flight", "Inspector">>
Panel == <<"Card">>

\* Fault: the menu goes on to the confirmation in the frame that arms it.
PauseMenuAtOnce ==
  <<"Return", "SaveColony">> \o IF armed THEN <<"Confirm", "Keep">>
                                ELSE <<"Abandon", "Confirm", "Keep">>
PauseMenu ==
  <<"Return", "SaveColony">> \o IF armed THEN <<"Confirm", "Keep">> ELSE <<"Abandon">>

LegacyPanel ==
  IF between THEN <<"Trait", "Found", "CloseLegacy">> ELSE <<"Send", "CloseLegacy">>
RecoveryPrompt == <<"Restore", "Fresh">>

\* The card over the colony, if the scene has one.
Card(s) ==
  CASE s = "Colony" -> <<>>
    [] s = "Legacy" -> LegacyPanel
    [] s = "Recovery" -> RecoveryPrompt
    [] s = "PauseMenu" -> PauseMenu

\* Controls that are drawn disabled, or clicked in vain, while what they offer is not to be had.
Optional == {"Send", "Trait", "Card"}

Draw ==
  /\ phase = "draw" /\ phase' = "events"
  /\ \E usable \in {Controls, Controls \ Optional} :
       LET start == [scene |-> scene, captured |-> captured, armed |-> armed, toggle |-> toggle,
                     requests |-> requests, live |-> View(scene, recovery) = "Colony"]
           footer == Tracked(start, Footer, usable)
           region == [footer EXCEPT !.live = View(footer.scene, recovery) = "Colony"]
           below == IF inspector THEN Tracked(region, Panel, usable) ELSE region
           drawn == View(below.scene, recovery)
           end == Tracked([below EXCEPT !.live = TRUE], Card(drawn), usable)
       IN  /\ scene' = end.scene /\ captured' = end.captured /\ armed' = end.armed
           /\ toggle' = end.toggle /\ requests' = end.requests
           /\ shown' = drawn
  /\ select' = FALSE
  /\ IF device.down THEN UNCHANGED <<device, begun>> ELSE device' = Idle /\ begun' = "none"
  /\ UNCHANGED <<edges, recovery, offer, between, inputScene, inspector, grip, presses>>

-----------------------------------------------------------------------------
UiNext ==
  \/ \E s \in Spots : MoveTo(s) \/ Press(s) \/ Release(s)
  \/ \E keys \in SUBSET {"Esc", "L", "I"} : UpdateInput(keys)
  \/ Handle
  \/ Draw

UiSpec == UiInit /\ [][UiNext]_uiVars

-----------------------------------------------------------------------------
(* Properties *)

TypeOK ==
  /\ phase \in {"events", "handle", "draw"}
  /\ scene \in Scenes \ {"Recovery"} /\ inputScene \in Scenes
  /\ shown \in Scenes \cup {"none"} /\ begun \in Scenes \cup {"none"}
  /\ captured \in Controls \cup {"none"} /\ presses \in 0..2
  /\ {recovery, offer, between, armed, inspector, toggle, grip, select} \subseteq BOOLEAN

\* A colony is only given up by a player who has pressed the button twice since the pause menu was
\* opened, however the menu was left and entered in between (renderer.hpp:65,
\* renderer.cpp:347-353,1571-1585).
AbandonMeant == phase = "handle" /\ Asked("abandon") => presses = 2

\* The scenes a request can be made in.
Home(what) ==
  CASE what = "order" -> {"Colony"}
    [] what = "save" -> {"Colony", "PauseMenu"}
    [] what = "abandon" -> {"PauseMenu"}
    [] what \in {"flight", "trait", "found"} -> {"Legacy"}
    [] what \in {"recover", "fresh"} -> {"Recovery"}

\* What the loop carries out was pressed while the scene it belongs to was on the screen and is
\* still the scene: no press meant for one scene reaches a control of the next, in whatever frame
\* the scene changes (renderer.cpp:345-353,399-402, main.cpp:365-436).
RequestsStayInScene ==
  /\ TypeOK
  /\ phase = "handle" =>
       \A r \in requests : View(scene, recovery) = r.seen /\ r.seen \in Home(r.what)
  /\ phase = "handle" /\ select => begun = "Colony" /\ View(scene, recovery) = "Colony"

===============================================================================
