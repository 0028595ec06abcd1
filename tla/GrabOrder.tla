----------------------------- MODULE GrabOrder -----------------------------
(***************************************************************************)
(* What Window.show and Window.hide expect of the gamepad reader, without  *)
(* goroutines, generations in arguments or devices.                        *)
(*                                                                         *)
(* The window issues numbered requests to hold or to release the           *)
(* controllers.  The reader is a register that follows them: it may skip   *)
(* requests, it never goes back to an older one, and it does not stop      *)
(* before the newest.                                                      *)
(***************************************************************************)
EXTENDS Naturals

VARIABLES
  issued,  \* how many requests the window has issued
  last,    \* the number of the request in force, 0 before any
  has,     \* whether the controllers are to be held
  ahead    \* the requests newer than the one in force

vars == <<issued, last, has, ahead>>

Init ==
  /\ issued = 0
  /\ last = 0
  /\ has = FALSE
  /\ ahead = {}

(* The window wants the controllers, or wants to be rid of them.            *)
Request(grab) ==
  /\ issued' = issued + 1
  /\ ahead' = ahead \cup {[gen |-> issued', grab |-> grab]}
  /\ UNCHANGED <<last, has>>

(* The reader moves on to one of the requests ahead, which overtakes those  *)
(* issued before it.                                                        *)
Follow ==
  \E w \in ahead :
    /\ last' = w.gen
    /\ has' = w.grab
    /\ ahead' = {v \in ahead : v.gen > w.gen}
    /\ UNCHANGED issued

Next == (\E grab \in BOOLEAN : Request(grab)) \/ Follow

Spec == Init /\ [][Next]_vars
FairSpec == Spec /\ WF_vars(Follow)
=============================================================================
