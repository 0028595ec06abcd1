----------------------------- MODULE MCFocusNav -----------------------------
(* FocusNav on cut-down focus lists: one item of each kind the views have,  *)
(* with the sections, the relative rows and the groups of the full lists.   *)
EXTENDS FocusNav, FocusLists

MainList ==
  Single(0, "mode", "always", "press") \o <<At(0, 1, "profile", "always", "custom")>>
  \o Single(1, "battery", "always", "edit") \o Single(2, "color1", "color1", "color")
  \o Single(3, "footer", "always", "theme") \o errBarFocusItem

ThemeList ==
  Single(0, "nav", "always", "main") \o Single(1, "theme", "always", "press")
  \o errBarFocusItem

ColorList ==
  Single(0, "nav", "always", "main") \o Single(1, "sliders", "always", "edit")
  \o errBarFocusItem

CustomList ==
  Single(0, "nav", "always", "main") \o Single(1, "tdp", "basic", "edit")
  \o Single(2, "tdp", "always", "advanced") \o Single(3, "tdp", "advanced", "edit")
  \o errBarFocusItem

FourLists ==
  [main |-> MainList, theme |-> ThemeList, color |-> ColorList, custom |-> CustomList]

LightingAndTdp ==
  {{"color1", "basic"}, {"basic"}, {"color1", "advanced"}, {"advanced"}}

NoAccents == <<>>
=============================================================================
