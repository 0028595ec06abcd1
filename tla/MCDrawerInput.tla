--------------------------- MODULE MCDrawerInput ----------------------------
(* DrawerInput with two devices, one of which another client may hold, and  *)
(* three shows and hides.                                                   *)
EXTENDS DrawerInput, TLC
=============================================================================
