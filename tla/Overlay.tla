------------------------------ MODULE Overlay -------------------------------
(***************************************************************************)
(* The overlay backend (internal/gui/overlay/overlay.go), for compositors  *)
(* without layer-shell: a transparent fullscreen window, mapped only while *)
(* the drawer is open, in which the panel slides; the input region lets    *)
(* clicks beside the panel through.                                        *)
(***************************************************************************)
EXTENDS DrawerWindow

VARIABLES
  mapped,            \* the window is mapped
  region,            \* its input region
  geomReady,         \* Backend.geomReady
  focusedSinceShow,  \* Backend.focusedSinceShow
  settles,           \* generations whose idle callback is queued
  heldOver           \* history: focused without a break since before Show

overlayVars == <<mapped, region, geomReady, focusedSinceShow, settles, heldOver>>

(* The whole window takes input, none of it does, the panel's rectangle.    *)
Regions == {"all", "none", "panel"}

OverlayTypeOK ==
  /\ mapped \in BOOLEAN
  /\ region \in Regions
  /\ geomReady \in BOOLEAN
  /\ focusedSinceShow \in BOOLEAN
  /\ settles \subseteq Gens
  /\ heldOver \in BOOLEAN

OverlayInit ==
  /\ mapped = FALSE
  /\ region = "all"
  /\ geomReady = FALSE
  /\ focusedSinceShow = FALSE
  /\ settles = {}
  /\ heldOver = FALSE

(* Show: map, read the monitor's geometry (which may be unusable), slide    *)
(* in.  A window that was unmapped may come back with its region forgotten. *)
OverlayShow ==
  /\ focusedSinceShow' = FALSE
  /\ mapped' = TRUE
  /\ region' \in IF mapped THEN {region} ELSE {region, "all"}
  /\ geomReady' \in BOOLEAN
  /\ Animate("slide", place, "in")
  /\ heldOver' = active
  /\ UNCHANGED <<place, opacity, settles>>

(* Hide: click-through at once, then slide out.                             *)
OverlayHide ==
  /\ region' = "none"
  /\ Animate("slide", place, "out")
  /\ UNCHANGED <<place, opacity, mapped, geomReady, focusedSinceShow, settles,
                 heldOver>>

-----------------------------------------------------------------------------
(* The frame clock runs while the window is mapped.                         *)
OverlayFrame(t) ==
  /\ LiveTick(t) /\ mapped
  /\ place' \in Between(t.from, t.to)
  /\ UNCHANGED <<backend, visible, gen, opacity, ticks, active, timers, overlayVars>>

(* The end of a slide: an idle callback is queued after a slide-in, the     *)
(* window is unmapped after a slide-out.                                    *)
OverlayFinish(t) ==
  /\ LiveTick(t) /\ mapped
  /\ ticks' = ticks \ {t}
  /\ place' = t.to
  /\ IF t.to = "in"
       THEN settles' = settles \cup {gen} /\ UNCHANGED <<mapped, focusedSinceShow>>
       ELSE mapped' = FALSE /\ focusedSinceShow' = FALSE /\ UNCHANGED settles
  /\ UNCHANGED <<backend, visible, gen, opacity, active, timers, region,
                 geomReady, heldOver>>

OverlayCancel(t) ==
  /\ CancelTick(t) /\ mapped
  /\ UNCHANGED <<backend, visible, gen, place, opacity, active, timers, overlayVars>>

(* The idle callback: the panel at its final place, and the region on it,   *)
(* whatever has happened to the drawer since it was queued.                 *)
OverlaySettle(g) ==
  /\ g \in settles
  /\ settles' = settles \ {g}
  /\ place' = "in"
  /\ region' = IF geomReady THEN "panel" ELSE region
  /\ UNCHANGED <<backend, visible, gen, opacity, ticks, active, timers, mapped,
                 geomReady, focusedSinceShow, heldOver>>

-----------------------------------------------------------------------------
(* Mutant: a focus that arrives during the slide is not noticed.            *)
BugOverlayGainIgnored ==
  /\ ~active /\ mapped
  /\ active' = TRUE
  /\ focusedSinceShow' = (focusedSinceShow \/ ~Animating)
  /\ UNCHANGED <<backend, visible, gen, place, opacity, ticks, timers, mapped,
                 region, geomReady, settles, heldOver>>

(* notify::is-active.  An unmapped window is given no focus, and loses what *)
(* it had.                                                                  *)
OverlayFocusGained ==
  /\ ~active /\ mapped
  /\ active' = TRUE
  /\ focusedSinceShow' = TRUE
  /\ UNCHANGED <<backend, visible, gen, place, opacity, ticks, timers, mapped,
                 region, geomReady, settles, heldOver>>

OverlayFocusLost ==
  /\ active
  /\ active' = FALSE
  /\ IF visible /\ ~Animating /\ focusedSinceShow THEN ArmDismiss
                                                  ELSE UNCHANGED timers
  /\ heldOver' = FALSE
  /\ UNCHANGED <<backend, visible, gen, place, opacity, ticks, mapped, region,
                 geomReady, focusedSinceShow, settles>>

OverlayNext ==
  \/ \E t \in ticks : OverlayFrame(t) \/ OverlayFinish(t) \/ OverlayCancel(t)
  \/ \E g \in settles : OverlaySettle(g)
  \/ OverlayFocusGained \/ OverlayFocusLost

(* A focus loss that is the user's: the drawer is at rest, and the focus    *)
(* did not come with it from an earlier open.                               *)
OverlayTakesLoss == visible /\ ~Animating /\ ~heldOver

OverlayOnScreen == mapped /\ place = "in" /\ (geomReady => region = "panel")
OverlayOffScreen == ~mapped
=============================================================================
