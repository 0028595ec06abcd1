----------------------------- MODULE LayerShell -----------------------------
(***************************************************************************)
(* The layer-shell backend (internal/gui/layershell/layershell.go): the    *)
(* surface stays mapped, and hidden means parked off the right edge and    *)
(* transparent.  It slides, or fades in place while another monitor sits   *)
(* where the slide would take it.                                          *)
(***************************************************************************)
EXTENDS DrawerWindow

VARIABLES
  rightNeighbor,  \* external: hasRightNeighbor, changes as monitors come and go
  pointerInside,  \* Backend.pointerInside
  settled,        \* showSettleTime has passed since showTime
  widthPoll,      \* the 16ms poll for the surface's width is running
  misparked       \* history: that poll parked the drawer while it was open

layerVars == <<rightNeighbor, pointerInside, settled, widthPoll, misparked>>

LayerTypeOK ==
  /\ rightNeighbor \in BOOLEAN
  /\ pointerInside \in BOOLEAN
  /\ settled \in BOOLEAN
  /\ widthPoll \in BOOLEAN
  /\ misparked \in BOOLEAN

(* Configure.  Whether the "map" that starts the width poll comes after its *)
(* handler is connected is GTK's choice.                                    *)
LayerInit ==
  /\ rightNeighbor \in BOOLEAN
  /\ pointerInside = FALSE
  /\ settled = TRUE
  /\ widthPoll \in IF backend = "layershell" THEN BOOLEAN ELSE {FALSE}
  /\ misparked = FALSE

(* Mutant: a slide leaves the opacity as the last fade has left it.         *)
BugLayerShowKeepsOpacity ==
  /\ settled' = FALSE
  /\ misparked' = FALSE
  /\ IF rightNeighbor
       THEN place' = "in" /\ opacity' = "out" /\ Animate("fade", "out", "in")
       ELSE UNCHANGED opacity /\ Animate("slide", place, "in") /\ UNCHANGED place
  /\ UNCHANGED <<rightNeighbor, pointerInside, widthPoll>>

(* Show: with a monitor to the right the surface jumps to its place and     *)
(* fades in, otherwise it turns opaque and slides in.                       *)
LayerShow ==
  /\ settled' = FALSE
  /\ misparked' = FALSE
  /\ IF rightNeighbor
       THEN place' = "in" /\ opacity' = "out" /\ Animate("fade", "out", "in")
       ELSE opacity' = "in" /\ Animate("slide", place, "in") /\ UNCHANGED place
  /\ UNCHANGED <<rightNeighbor, pointerInside, widthPoll>>

(* Hide: fades out in place or slides out.                                  *)
LayerHide ==
  /\ pointerInside' = FALSE
  /\ misparked' = FALSE
  /\ IF rightNeighbor THEN Animate("fade", opacity, "out")
                      ELSE Animate("slide", place, "out")
  /\ UNCHANGED <<place, opacity, rightNeighbor, settled, widthPoll>>

-----------------------------------------------------------------------------
(* Mutant: a cancelled animation finishes all the same.                     *)
BugLayerFinishAny(t) ==
  /\ t \in ticks
  /\ ticks' = ticks \ {t}
  /\ IF t.kind = "slide"
       THEN place' = t.to /\ opacity' = IF t.to = "out" THEN "out" ELSE opacity
       ELSE opacity' = t.to /\ place' = IF t.to = "out" THEN "out" ELSE place
  /\ UNCHANGED <<backend, visible, gen, active, timers, layerVars>>

(* A frame before animDuration has passed.                                  *)
LayerFrame(t) ==
  /\ LiveTick(t)
  /\ \E level \in Between(t.from, t.to) :
       IF t.kind = "slide" THEN place' = level /\ UNCHANGED opacity
                           ELSE opacity' = level /\ UNCHANGED place
  /\ UNCHANGED <<backend, visible, gen, ticks, active, timers, layerVars>>

(* The first frame after it: the level reaches its target, and onDone makes *)
(* a surface that slid out transparent and parks one that faded out.        *)
LayerFinish(t) ==
  /\ LiveTick(t)
  /\ ticks' = ticks \ {t}
  /\ IF t.kind = "slide"
       THEN place' = t.to /\ opacity' = IF t.to = "out" THEN "out" ELSE opacity
       ELSE opacity' = t.to /\ place' = IF t.to = "out" THEN "out" ELSE place
  /\ UNCHANGED <<backend, visible, gen, active, timers, layerVars>>

LayerCancel(t) ==
  /\ CancelTick(t)
  /\ UNCHANGED <<backend, visible, gen, place, opacity, active, timers, layerVars>>

(* The width poll gets an answer: the surface is parked by its real width.  *)
WidthKnown ==
  /\ widthPoll
  /\ widthPoll' = FALSE
  /\ place' = "out"
  /\ misparked' = visible
  /\ UNCHANGED <<backend, visible, gen, opacity, ticks, active, timers,
                 rightNeighbor, pointerInside, settled>>

-----------------------------------------------------------------------------
(* Whether a lost focus is taken for a click outside.                       *)
LayerTakesLoss == visible /\ settled /\ ~pointerInside

(* notify::is-active.                                                       *)
LayerFocusGained ==
  /\ ~active
  /\ active' = TRUE
  /\ UNCHANGED <<backend, visible, gen, place, opacity, ticks, timers, layerVars>>

LayerFocusLost ==
  /\ active
  /\ active' = FALSE
  /\ IF LayerTakesLoss THEN ArmDismiss ELSE UNCHANGED timers
  /\ UNCHANGED <<backend, visible, gen, place, opacity, ticks, layerVars>>

(* The pointer enters or leaves, a monitor comes or goes.                   *)
Surroundings ==
  /\ \/ pointerInside' = ~pointerInside /\ UNCHANGED rightNeighbor
     \/ rightNeighbor' = ~rightNeighbor /\ UNCHANGED pointerInside
  /\ UNCHANGED <<windowVars, settled, widthPoll, misparked>>

(* 500ms since Show: every timer of 200ms that was running then has fired.  *)
Settle ==
  /\ ~settled
  /\ timers.old = 0
  /\ settled' = TRUE
  /\ UNCHANGED <<windowVars, rightNeighbor, pointerInside, widthPoll, misparked>>

LayerNext ==
  \/ \E t \in ticks : LayerFrame(t) \/ LayerFinish(t) \/ LayerCancel(t)
  \/ WidthKnown \/ LayerFocusGained \/ LayerFocusLost \/ Surroundings \/ Settle

(* In full view, and out of the way.                                        *)
LayerOnScreen == (place = "in" \/ misparked) /\ opacity = "in"
LayerOffScreen == place = "out" /\ opacity = "out"
=============================================================================
