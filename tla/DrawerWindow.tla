---------------------------- MODULE DrawerWindow ----------------------------
(***************************************************************************)
(* What the three display backends of the drawer share (internal/gui/      *)
(* gui.go, layershell, overlay, gamescope): whether the window wants to be *)
(* seen, the animations that take it there, and the timers that dismiss it *)
(* after a lost focus.                                                     *)
(*                                                                         *)
(* Each backend counts its animations in animGen.  Every Show and every    *)
(* Hide starts exactly one, and Window.grabGen counts the same calls, so   *)
(* the two counters are one here.  A tick callback of an older generation  *)
(* stays registered until the next frame, when it sees the mismatch and    *)
(* goes.                                                                   *)
(***************************************************************************)
EXTENDS Integers

CONSTANTS
  MaxGen,    \* bound on gen: no show, and no hide of a hidden drawer, past it
  MaxTimers  \* bound on the focus-loss timers that run at one time

ASSUME DrawerWindowAssumption == MaxGen \in Nat /\ MaxTimers \in Nat

VARIABLES
  backend,  \* the backend New has picked
  visible,  \* Window.visible
  gen,      \* Window.grabGen and the backend's animGen
  place,    \* layer-shell's margin, overlay's progress
  opacity,  \* layer-shell's opacity, gamescope's opacity atom
  ticks,    \* the tick callbacks registered with the frame clock
  active,   \* external: the compositor gives the window the focus
  timers    \* running focus-loss timers: of this open, and of earlier ones

windowVars == <<backend, visible, gen, place, opacity, ticks, active, timers>>

Backends == {"layershell", "overlay", "gamescope"}

(* Off the screen (or invisible), under way, at rest on it (or opaque).     *)
Levels == {"out", "part", "in"}
Gens == 0..(MaxGen + 1)
Tick == [gen : Gens, kind : {"slide", "fade"}, from : Levels, to : {"out", "in"}]

WindowTypeOK ==
  /\ backend \in Backends
  /\ visible \in BOOLEAN
  /\ gen \in Gens
  /\ place \in Levels
  /\ opacity \in Levels
  /\ ticks \subseteq Tick
  /\ active \in BOOLEAN
  /\ timers \in [own : Nat, old : Nat]

(* slideMargin, fadeOpacity, slideTo: a callback of the new generation that *)
(* moves the level from where it is.                                        *)
Animate(kind, from, to) ==
  ticks' = ticks \cup {[gen |-> gen', kind |-> kind, from |-> from, to |-> to]}

Animating == \E t \in ticks : t.gen = gen

(* A frame shows some level between the two ends, rounded.                  *)
Between(from, to) == IF from = to THEN {to} ELSE {from, "part", to}

(* The callbacks of the current generation, and those it has cancelled.     *)
LiveTick(t) == t \in ticks /\ t.gen = gen
CancelTick(t) == t \in ticks /\ t.gen # gen /\ ticks' = ticks \ {t}

(* The timers of the open that ends here run on.                            *)
TimersOutlive == timers' = [own |-> 0, old |-> timers.own + timers.old]

(* notify::is-active starts a timer of focusLossDelay.                      *)
ArmDismiss ==
  /\ timers.own + timers.old < MaxTimers
  /\ timers' = [timers EXCEPT !.own = @ + 1]
=============================================================================
