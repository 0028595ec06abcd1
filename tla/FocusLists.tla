----------------------------- MODULE FocusLists -----------------------------
(***************************************************************************)
(* The focus lists of the drawer's four views, item by item (build*FocusList *)
(* in internal/gui/controls.go and tdp.go), and the sets of widget groups  *)
(* each view can be showing.                                               *)
(*                                                                         *)
(* An item is its place in the grid, its section, the group of widgets it  *)
(* is shown with, and what the A button does with it:                      *)
(*   "edit"                  enter edit mode (a slider)                    *)
(*   "main" "theme" "color"  switch the view at once                       *)
(*   "custom"                the Custom profile: a GtkButton activation    *)
(*   "advanced"              toggle the advanced TDP controls              *)
(*   "dismiss"               close the error bar                           *)
(*   "press"                 operate some other control of the same view   *)
(*   "none"                  nothing (the fan curve)                       *)
(***************************************************************************)
EXTENDS Integers, SequencesExt

CONSTANT Accents    \* accent dots of each theme, in list order

ASSUME AccentsAssumption == Accents \in Seq(Nat)

-----------------------------------------------------------------------------
At(row, col, section, group, does) ==
  [row |-> row, col |-> col, section |-> section, group |-> group, does |-> does]

Single(row, section, group, does) == <<At(row, 0, section, group, does)>>

(* n like items, perRow to a row, from the given row on.                    *)
Block(row, n, perRow, section, group, does) ==
  [i \in 1..n |-> At(row + (i - 1) \div perRow, (i - 1) % perRow,
                     section, group, does)]

(* The dismiss button of the error bar, the last row of every list.         *)
errBarRow == 10000
errBarFocusItem == Single(errBarRow, "error", "error", "dismiss")

colorItems(row, group) ==
  Block(row, 8, 8, group, group, "press") \o Single(row + 1, group, group, "color")

mainFocusItems ==
  Block(0, 3, 2, "profile", "always", "press")
  \o <<At(1, 1, "profile", "always", "custom")>>
  \o Single(2, "battery", "always", "edit")
  \o Block(3, 2, 2, "tabs", "always", "press")
  \o Block(4, 6, 3, "mode", "always", "press")
  \o colorItems(6, "color1") \o colorItems(8, "color2")
  \o Block(10, 3, 3, "speed", "speed", "press")
  \o Single(11, "brightness", "brightness", "edit")
  \o <<At(12, 0, "footer", "always", "theme"),
       At(12, 1, "footer", "always", "press"),
       At(12, 2, "footer", "always", "press")>>
  \o errBarFocusItem

(* Theme radios, each followed by its accent dots, seven to a row.          *)
dotsPerRow == 7
dotRows(n) == (n + dotsPerRow - 1) \div dotsPerRow

themeRow[t \in 1..Len(Accents)] ==
  IF t = 1 THEN 1 ELSE themeRow[t - 1] + 1 + dotRows(Accents[t - 1])

themeFocusItems ==
  Single(0, "nav", "always", "main")
  \o FlattenSeq([t \in 1..Len(Accents) |->
       Single(themeRow[t], "theme", "always", "press")
       \o Block(themeRow[t] + 1, Accents[t], dotsPerRow, "theme", "always", "press")])
  \o errBarFocusItem

colorFocusItems ==
  Single(0, "nav", "always", "main")
  \o Block(1, 8, 8, "presets", "always", "press")
  \o Block(2, 3, 1, "sliders", "always", "edit")
  \o errBarFocusItem

customFocusItems ==
  Single(0, "nav", "always", "main")
  \o Single(1, "tdp", "basic", "edit")
  \o Single(2, "tdp", "always", "advanced")
  \o Block(3, 3, 1, "tdp", "advanced", "edit")
  \o Single(6, "fan", "always", "none")
  \o Single(7, "undervolt", "undervolt", "edit")
  \o Block(8, 2, 2, "undervolt", "undervolt", "press")
  \o Block(9, 3, 3, "actions", "always", "press")
  \o Block(10, 2, 2, "actions", "always", "press")
  \o errBarFocusItem

-----------------------------------------------------------------------------
(* Which lighting controls each mode needs (modeControls; an unknown mode   *)
(* shows the same as breathe).                                              *)
modeControls ==
  [static  |-> {"color1", "brightness"},
   breathe |-> {"color1", "color2", "speed", "brightness"},
   cycle   |-> {"speed", "brightness"},
   rainbow |-> {"speed", "brightness"},
   strobe  |-> {"color1", "speed", "brightness"},
   off     |-> {}]

(* The groups of the custom view: basic and advanced exclude each other,    *)
(* and the undervolt controls are among the advanced ones.                  *)
customControls == {{"basic"}, {"advanced"}, {"advanced", "undervolt"}}

WithErrorBar(shows) ==
  UNION {{s \cup {"always"}, s \cup {"always", "error"}} : s \in shows}
=============================================================================
