----------------------------- MODULE MCGridWalk -----------------------------
(* GridWalk on every layout of three items over three rows, two columns and *)
(* two sections, each item shown or hidden on its own, and on the drawer's  *)
(* own four focus lists under every set of controls they can show.          *)
EXTENDS GridWalk, FocusLists

SmallItems ==
  {At(r, c, s, "always", "press") : r \in 0..2, c \in {0, 2}, s \in {"a", "b"}}

SmallLayouts ==
  {[items |-> [i \in 1..3 |-> [tuple[i] EXCEPT !.group = i]],
    shows |-> SUBSET (1..3) \ {{}}] : tuple \in [1..3 -> SmallItems]}

DrawerLayouts ==
  {[items |-> mainFocusItems,
    shows |-> WithErrorBar({modeControls[m] : m \in DOMAIN modeControls})],
   [items |-> themeFocusItems, shows |-> WithErrorBar({{}})],
   [items |-> colorFocusItems, shows |-> WithErrorBar({{}})],
   [items |-> customFocusItems, shows |-> WithErrorBar(customControls)]}

AllLayouts == SmallLayouts \cup DrawerLayouts

(* A theme with two rows of dots, one with none, one with a row to spare.   *)
TwoRowsThenNone == <<14, 0, 8>>
=============================================================================
