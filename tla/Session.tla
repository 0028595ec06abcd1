------------------------------ MODULE Session -------------------------------
(***************************************************************************)
(* The drawer's window in each of the three sessions it may find itself in *)
(* (internal/gui/gui.go, New): layer-shell, the overlay where that is      *)
(* missing, gamescope, and there with Steam frozen while the drawer is     *)
(* open.  show and hide set the flag and start the backend's animation;    *)
(* everything else happens to the window from outside.                     *)
(***************************************************************************)
EXTENDS LayerShell, Overlay, SteamFreeze

VARIABLE owed  \* history: the user clicked elsewhere; a dismissal is due

vars == <<windowVars, layerVars, overlayVars, freezeVars, owed>>

TypeOK ==
  /\ WindowTypeOK /\ LayerTypeOK /\ OverlayTypeOK /\ FreezeTypeOK
  /\ owed \in BOOLEAN

(* New picks the backend, and Configure leaves the drawer out of sight.     *)
Init ==
  /\ backend \in Backends
  /\ visible = FALSE
  /\ gen = 0
  /\ place = "out"
  /\ opacity = "out"
  /\ ticks = {}
  /\ active = FALSE
  /\ timers = [own |-> 0, old |-> 0]
  /\ LayerInit /\ OverlayInit /\ FreezeInit
  /\ owed = FALSE

-----------------------------------------------------------------------------
(* gamescope's Show and Hide write the window's opacity, and with it ask    *)
(* for the focus and the keyboard or give them back.                        *)
GamescopeShow == opacity' = "in" /\ UNCHANGED <<place, ticks>>
GamescopeHide == opacity' = "out" /\ UNCHANGED <<place, ticks>>

(* show.                                                                    *)
Show ==
  /\ ~visible
  /\ gen < MaxGen
  /\ visible' = TRUE
  /\ gen' = gen + 1
  /\ TimersOutlive
  /\ \/ /\ backend = "layershell" /\ LayerShow
        /\ UNCHANGED <<overlayVars, freezeVars>>
     \/ /\ backend = "overlay" /\ OverlayShow
        /\ UNCHANGED <<layerVars, freezeVars>>
     \/ /\ backend = "gamescope" /\ GamescopeShow /\ FreezeShow
        /\ UNCHANGED <<layerVars, overlayVars>>
  /\ UNCHANGED <<backend, active, owed>>

(* hide.  A drawer that is closed already may be hidden again.              *)
HideWindow ==
  /\ visible' = FALSE
  /\ gen' = gen + 1
  /\ owed' = FALSE
  /\ \/ /\ backend = "layershell" /\ LayerHide
        /\ UNCHANGED <<overlayVars, freezeVars>>
     \/ /\ backend = "overlay" /\ OverlayHide
        /\ UNCHANGED <<layerVars, freezeVars>>
     \/ /\ backend = "gamescope" /\ GamescopeHide /\ FreezeHide
        /\ UNCHANGED <<layerVars, overlayVars>>
  /\ UNCHANGED <<backend, active>>

Hide == (visible \/ gen < MaxGen) /\ HideWindow /\ UNCHANGED timers

(* A focus-loss timer fires.                                                *)
TimerFires(k) ==
  /\ timers[k] > 0
  /\ timers' = [timers EXCEPT ![k] = @ - 1]
  /\ IF visible /\ ~active
       THEN HideWindow
       ELSE UNCHANGED <<backend, visible, gen, place, opacity, ticks, active, owed,
                        layerVars, overlayVars, freezeVars>>

(* What happens to the window by itself: which steps there are, and what    *)
(* each of them leaves alone.                                               *)
LayerAlone ==
  /\ owed' = (~active' /\ (owed \/ (active /\ LayerTakesLoss)))
  /\ UNCHANGED <<overlayVars, freezeVars>>

OverlayAlone ==
  /\ owed' = (~active' /\ (owed \/ (active /\ OverlayTakesLoss)))
  /\ UNCHANGED <<layerVars, freezeVars>>

FreezeAlone == UNCHANGED <<layerVars, overlayVars, owed>>

LayerStep == backend = "layershell" /\ LayerNext /\ LayerAlone
OverlayStep == backend = "overlay" /\ OverlayNext /\ OverlayAlone
FreezeStep == backend = "gamescope" /\ FreezeNext /\ FreezeAlone

(* The process ends, and the X window with it.                              *)
ProcessDies ==
  /\ backend = "gamescope"
  /\ Die
  /\ opacity' = "out"
  /\ UNCHANGED <<backend, place, ticks, active, timers, layerVars, overlayVars, owed>>

Next ==
  \/ Show \/ Hide \/ TimerFires("own") \/ TimerFires("old")
  \/ LayerStep \/ OverlayStep \/ FreezeStep \/ ProcessDies

Spec == Init /\ [][Next]_vars

-----------------------------------------------------------------------------
Finish ==
  \E t \in ticks :
    \/ backend = "layershell" /\ LayerFinish(t) /\ LayerAlone
    \/ backend = "overlay" /\ OverlayFinish(t) /\ OverlayAlone
SettleRegion ==
  backend = "overlay" /\ (\E g \in settles : OverlaySettle(g)) /\ OverlayAlone
FocusTimer == TimerFires("own") \/ TimerFires("old")
FreezeTasks == backend = "gamescope" /\ Goroutines /\ FreezeAlone
FreezeIdle == backend = "gamescope" /\ RecordFreeze /\ FreezeAlone
FreezeCleanup ==
  \/ backend = "gamescope" /\ Cleanup /\ FreezeAlone
  \/ thawing["handler"] = "done" /\ ProcessDies

(* Frames come, timers and idle callbacks run, goroutines and processes are *)
(* scheduled, systemd cleans up.  Nobody has to restart the program, and    *)
(* the user, the compositor and the monitors owe nothing.                   *)
Fairness ==
  /\ WF_vars(Finish) /\ WF_vars(SettleRegion) /\ WF_vars(FocusTimer)
  /\ WF_vars(FreezeTasks) /\ WF_vars(FreezeIdle) /\ WF_vars(FreezeCleanup)

FairSpec == Spec /\ Fairness

-----------------------------------------------------------------------------
OnScreen ==
  \/ backend = "layershell" /\ LayerOnScreen
  \/ backend = "overlay" /\ OverlayOnScreen
  \/ backend = "gamescope" /\ opacity = "in"

OffScreen ==
  \/ backend = "layershell" /\ LayerOffScreen
  \/ backend = "overlay" /\ OverlayOffScreen
  \/ backend = "gamescope" /\ opacity = "out"

(* However shows and hides interrupt each other's animations, monitors come *)
(* and go and the cleanup callbacks of older opens run late: a drawer that  *)
(* stays open ends up in full view, on layer-shell opaque and in its place, *)
(* on the overlay taking the clicks on the panel and no others; one that    *)
(* stays closed ends up out of sight.                                       *)
(* (`misparked' is the width poll's answer to a drawer already open.)       *)
FollowsWindow ==
  /\ <>[]visible => <>[]OnScreen
  /\ <>[]~visible => <>[]OffScreen

(* The same at every moment nothing is under way, whatever was interrupted  *)
(* before: an animation leaves nothing of itself to the one that cancels it *)
(* but the level it starts from (layershell.go:197-237, overlay.go:201-230).*)
RestsInPlace ==
  ~Animating /\ settles = {} => IF visible THEN OnScreen ELSE OffScreen

(* A focus the user takes away from the resting drawer is answered: it      *)
(* comes back, or the drawer closes ("dismissal is Escape plus focus loss", *)
(* overlay.go:24).  Layer-shell leaves out the first 500ms and a pointer    *)
(* over the drawer; the overlay fails to notice a focus that it has held    *)
(* since before the drawer was re-opened (focusedSinceShow, overlay.go:202).*)
FocusLossDismisses ==
  owed ~> ~visible \/ active
=============================================================================
