----------------------------- MODULE MCInterface -----------------------------
(***************************************************************************)
(* The controls of the smallest window, 1024 by 640, by the rectangles     *)
(* they share.  "Confirm" takes the left half of "Abandon colony", "Keep   *)
(* it" the right; the armed menu's card is higher, so that "Save colony"   *)
(* comes to lie where "Return" was; a trait lies on "Return" and, further  *)
(* right, on a card of the inspector.                                      *)
(***************************************************************************)
EXTENDS Interface, TLC

MCSpots == {"left", "right", "gap", "top", "swap", "middle", "send", "side", "close",
            "bar", "flight", "toggle"}
MCRect ==
  "Bar" :> {"bar"} @@ "Flight" :> {"flight"} @@ "Inspector" :> {"toggle"} @@ "Card" :> {"side"}
  @@ "Send" :> {"send"} @@ "Trait" :> {"top", "side"} @@ "Found" :> {"send"}
  @@ "CloseLegacy" :> {"close"} @@ "Restore" :> {"left"} @@ "Fresh" :> {"right"}
  @@ "Return" :> {"top", "swap"} @@ "SaveColony" :> {"middle"}
  @@ "Abandon" :> {"left", "right"} @@ "Confirm" :> {"left"} @@ "Keep" :> {"right"}
MCArmedRect == [MCRect EXCEPT !["Return"] = {"top"}, !["SaveColony"] = {"swap", "middle"}]
MCWorld == MCSpots \ {"bar", "flight", "toggle"}
MCPanelSpots == {"side", "close"}
MCClose == {{"left", "gap"}, {"right", "gap"}, {"middle", "gap"}, {"swap", "middle"}}

==============================================================================
