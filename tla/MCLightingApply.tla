--------------------------- MODULE MCLightingApply ---------------------------
(* LightingApply for two effects, two colours and scales of three marks.    *)
EXTENDS LightingApply

(* A setting in full, one with no more than its being on, one that is off;  *)
(* and a battery limit stated or not.                                       *)
Full == [mode |-> "static", color |-> "red", level |-> 1]
Partial == [mode |-> "unset", color |-> "none", level |-> 2]

Begin(keyboard, lightbar, limit) ==
  [d \in Devices |-> CASE d = "keyboard" -> keyboard
                       [] d = "lightbar" -> lightbar
                       [] OTHER -> [mode |-> "unset", color |-> "none", level |-> limit]]

MCInitially ==
  {Begin(Full, Partial, 1), Begin(Partial, Off, 0), Begin(Off, Full, 0), Begin(Full, Full, 0)}
=============================================================================
