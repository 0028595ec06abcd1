--------------------------- MODULE SessionProofs ----------------------------
(***************************************************************************)
(* Proofs about Session, for any number of shows and hides and of          *)
(* focus-loss timers.                                                      *)
(*                                                                         *)
(* Four inductive invariants:                                              *)
(*   TypeInv     the types; a drawer that is open has not used up MaxGen,  *)
(*               so that the hide that closes it counts within Gens        *)
(*   OwnerInv    a stopped Steam is on file and has somebody left to wake  *)
(*               it; to follow it through a crash and a restart it must    *)
(*               also say that a process that does not run has no          *)
(*               goroutines, and that once ExecStopPost or the start's     *)
(*               ThawFrozen has been, only a mishap leaves Steam stopped   *)
(*   RestInv     the one callback that is not cancelled takes the window   *)
(*               where the flag says                                       *)
(*   DismissInv  a dismissal that is due has a running timer; for that the *)
(*               overlay must know of the focus it has been given          *)
(***************************************************************************)
EXTENDS Session, TLAPS

USE DrawerWindowAssumption DEF DrawerWindowAssumption

TypeInv == TypeOK /\ (visible => gen <= MaxGen)

-----------------------------------------------------------------------------
(* Types: the parts of show and hide.                                       *)

LEMMA AnimateType ==
  ASSUME ticks \subseteq Tick, gen' \in Gens, NEW kind \in {"slide", "fade"},
         NEW from \in Levels, NEW to \in {"out", "in"}, Animate(kind, from, to)
  PROVE  ticks' \subseteq Tick
<1>1. [gen |-> gen', kind |-> kind, from |-> from, to |-> to] \in Tick
  BY DEF Tick
<1>2. QED BY <1>1, Zenon DEF Animate

LEMMA LayerShowType ==
  ASSUME WindowTypeOK, LayerTypeOK, gen' \in Gens, LayerShow
  PROVE  LayerTypeOK' /\ place' \in Levels /\ opacity' \in Levels /\ ticks' \subseteq Tick
<1> USE DEF WindowTypeOK, LayerTypeOK, LayerShow, Levels
<1>1. CASE rightNeighbor
  <2>1. Animate("fade", "out", "in")
    BY <1>1
  <2>2. ticks' \subseteq Tick
    BY <2>1, AnimateType
  <2>3. QED BY <1>1, <2>2
<1>2. CASE ~rightNeighbor
  <2>1. Animate("slide", place, "in")
    BY <1>2
  <2>2. ticks' \subseteq Tick
    BY <2>1, AnimateType
  <2>3. QED BY <1>2, <2>2
<1>3. QED BY <1>1, <1>2

LEMMA LayerHideType ==
  ASSUME WindowTypeOK, LayerTypeOK, gen' \in Gens, LayerHide
  PROVE  LayerTypeOK' /\ place' \in Levels /\ opacity' \in Levels /\ ticks' \subseteq Tick
<1> USE DEF WindowTypeOK, LayerTypeOK, LayerHide, Levels
<1>1. Animate("fade", opacity, "out") \/ Animate("slide", place, "out")
  OBVIOUS
<1>2. ticks' \subseteq Tick
  BY <1>1, AnimateType
<1>3. QED BY <1>2

LEMMA OverlayShowType ==
  ASSUME WindowTypeOK, OverlayTypeOK, gen' \in Gens, OverlayShow
  PROVE  OverlayTypeOK' /\ place' \in Levels /\ opacity' \in Levels
                        /\ ticks' \subseteq Tick
<1> USE DEF WindowTypeOK, OverlayTypeOK, OverlayShow, Levels, Regions
<1>1. Animate("slide", place, "in")
  OBVIOUS
<1>2. ticks' \subseteq Tick
  BY <1>1, AnimateType
<1>3. region' \in Regions
  BY DEF Regions
<1>4. QED BY <1>2, <1>3

LEMMA OverlayHideType ==
  ASSUME WindowTypeOK, OverlayTypeOK, gen' \in Gens, OverlayHide
  PROVE  OverlayTypeOK' /\ place' \in Levels /\ opacity' \in Levels
                        /\ ticks' \subseteq Tick
<1> USE DEF WindowTypeOK, OverlayTypeOK, OverlayHide, Levels, Regions
<1>1. Animate("slide", place, "out")
  OBVIOUS
<1>2. ticks' \subseteq Tick
  BY <1>1, AnimateType
<1>3. QED BY <1>2

LEMMA FreezeShowType ==
  ASSUME FreezeTypeOK, gen' \in Gens, FreezeShow
  PROVE  FreezeTypeOK'
<1> USE DEF FreezeTypeOK, FreezeShow, lifeVars, kernelVars
<1>1. [gen |-> gen', pc |-> "stop"] \in Freezer
  BY DEF Freezer
<1>2. freezers' \subseteq Freezer
  BY <1>1, Zenon
<1>3. QED BY <1>2

LEMMA FreezeHideType ==
  ASSUME FreezeTypeOK, gen' \in Gens, FreezeHide
  PROVE  FreezeTypeOK'
<1> USE DEF FreezeTypeOK, FreezeHide, lifeVars, kernelVars
<1>1. [gen |-> gen', pc |-> "remove", pid |-> steamPID] \in Thawer
  BY DEF Thawer
<1>2. thawers' \subseteq Thawer
  BY <1>1, Zenon
<1>3. QED BY <1>2

LEMMA ShowType ==
  ASSUME TypeInv, Show
  PROVE  TypeInv'
<1> USE DEF TypeInv, TypeOK
<1>1. gen' \in Gens /\ gen' <= MaxGen /\ visible' = TRUE
  BY DEF Show, WindowTypeOK, Gens
<1>2. timers' \in [own : Nat, old : Nat] /\ UNCHANGED <<backend, active, owed>>
  BY DEF Show, WindowTypeOK, TimersOutlive
<1>3. CASE backend = "layershell"
  <2>1. LayerShow /\ UNCHANGED <<overlayVars, freezeVars>>
    BY <1>3 DEF Show
  <2>2. LayerTypeOK' /\ place' \in Levels /\ opacity' \in Levels /\ ticks' \subseteq Tick
    BY <1>1, <2>1, LayerShowType
  <2>3. OverlayTypeOK' /\ FreezeTypeOK'
    BY <2>1 DEF OverlayTypeOK, FreezeTypeOK, overlayVars, freezeVars, lifeVars,
                steamTasks, kernelVars
  <2>4. QED BY <1>1, <1>2, <2>2, <2>3 DEF WindowTypeOK
<1>4. CASE backend = "overlay"
  <2>1. OverlayShow /\ UNCHANGED <<layerVars, freezeVars>>
    BY <1>4 DEF Show
  <2>2. OverlayTypeOK' /\ place' \in Levels /\ opacity' \in Levels /\ ticks' \subseteq Tick
    BY <1>1, <2>1, OverlayShowType
  <2>3. LayerTypeOK' /\ FreezeTypeOK'
    BY <2>1 DEF LayerTypeOK, FreezeTypeOK, layerVars, freezeVars, lifeVars,
                steamTasks, kernelVars
  <2>4. QED BY <1>1, <1>2, <2>2, <2>3 DEF WindowTypeOK
<1>5. CASE backend = "gamescope"
  <2>1. GamescopeShow /\ FreezeShow /\ UNCHANGED <<layerVars, overlayVars>>
    BY <1>5 DEF Show
  <2>2. FreezeTypeOK'
    BY <1>1, <2>1, FreezeShowType
  <2>3. place' \in Levels /\ opacity' \in Levels /\ ticks' \subseteq Tick
    BY <2>1 DEF GamescopeShow, WindowTypeOK, Levels
  <2>4. LayerTypeOK' /\ OverlayTypeOK'
    BY <2>1 DEF LayerTypeOK, OverlayTypeOK, layerVars, overlayVars
  <2>5. QED BY <1>1, <1>2, <2>2, <2>3, <2>4 DEF WindowTypeOK
<1>6. QED BY <1>3, <1>4, <1>5 DEF Show

(* Whoever hides the window, and whatever becomes of the timers.            *)
LEMMA HideWindowType ==
  ASSUME TypeInv, HideWindow, visible \/ gen < MaxGen,
         timers' \in [own : Nat, old : Nat]
  PROVE  TypeInv'
<1> USE DEF TypeInv, TypeOK
<1>1. gen' \in Gens /\ visible' = FALSE
  BY DEF HideWindow, WindowTypeOK, Gens
<1>2. owed' = FALSE /\ UNCHANGED <<backend, active>>
  BY DEF HideWindow
<1>3. CASE backend = "layershell"
  <2>1. LayerHide /\ UNCHANGED <<overlayVars, freezeVars>>
    BY <1>3 DEF HideWindow
  <2>2. LayerTypeOK' /\ place' \in Levels /\ opacity' \in Levels /\ ticks' \subseteq Tick
    BY <1>1, <2>1, LayerHideType
  <2>3. OverlayTypeOK' /\ FreezeTypeOK'
    BY <2>1 DEF OverlayTypeOK, FreezeTypeOK, overlayVars, freezeVars, lifeVars,
                steamTasks, kernelVars
  <2>4. QED BY <1>1, <1>2, <2>2, <2>3 DEF WindowTypeOK
<1>4. CASE backend = "overlay"
  <2>1. OverlayHide /\ UNCHANGED <<layerVars, freezeVars>>
    BY <1>4 DEF HideWindow
  <2>2. OverlayTypeOK' /\ place' \in Levels /\ opacity' \in Levels /\ ticks' \subseteq Tick
    BY <1>1, <2>1, OverlayHideType
  <2>3. LayerTypeOK' /\ FreezeTypeOK'
    BY <2>1 DEF LayerTypeOK, FreezeTypeOK, layerVars, freezeVars, lifeVars,
                steamTasks, kernelVars
  <2>4. QED BY <1>1, <1>2, <2>2, <2>3 DEF WindowTypeOK
<1>5. CASE backend = "gamescope"
  <2>1. GamescopeHide /\ FreezeHide /\ UNCHANGED <<layerVars, overlayVars>>
    BY <1>5 DEF HideWindow
  <2>2. FreezeTypeOK'
    BY <1>1, <2>1, FreezeHideType
  <2>3. place' \in Levels /\ opacity' \in Levels /\ ticks' \subseteq Tick
    BY <2>1 DEF GamescopeHide, WindowTypeOK, Levels
  <2>4. LayerTypeOK' /\ OverlayTypeOK'
    BY <2>1 DEF LayerTypeOK, OverlayTypeOK, layerVars, overlayVars
  <2>5. QED BY <1>1, <1>2, <2>2, <2>3, <2>4 DEF WindowTypeOK
<1>6. QED BY <1>3, <1>4, <1>5 DEF HideWindow

LEMMA TimerFiresType ==
  ASSUME TypeInv, NEW k \in {"own", "old"}, TimerFires(k)
  PROVE  TypeInv'
<1>1. timers' \in [own : Nat, old : Nat]
  BY DEF TypeInv, TypeOK, WindowTypeOK, TimerFires
<1>2. CASE visible /\ ~active
  BY <1>1, <1>2, HideWindowType DEF TimerFires
<1>3. CASE ~(visible /\ ~active)
  <2>1. UNCHANGED <<backend, visible, gen, place, opacity, ticks, active, owed,
                    layerVars, overlayVars, freezeVars>>
    BY <1>3 DEF TimerFires
  <2>2. QED BY <1>1, <2>1 DEF TypeInv, TypeOK, WindowTypeOK, LayerTypeOK, OverlayTypeOK,
                 FreezeTypeOK, layerVars, overlayVars, freezeVars, lifeVars,
                 steamTasks, kernelVars
<1>4. QED BY <1>2, <1>3

-----------------------------------------------------------------------------
(* Types: what happens to the window by itself.                             *)

LEMMA BetweenLevels ==
  ASSUME NEW from \in Levels, NEW to \in Levels
  PROVE  Between(from, to) \subseteq Levels
BY DEF Between, Levels

LEMMA ArmDismissType ==
  ASSUME timers \in [own : Nat, old : Nat], ArmDismiss \/ UNCHANGED timers
  PROVE  timers' \in [own : Nat, old : Nat]
BY DEF ArmDismiss

LEMMA LayerStepType ==
  ASSUME TypeInv, LayerStep
  PROVE  TypeInv'
<1> USE DEF TypeInv, TypeOK
<1>1. OverlayTypeOK' /\ FreezeTypeOK' /\ owed' \in BOOLEAN
  <2>1. LayerAlone
    BY DEF LayerStep
  <2>2. owed' \in BOOLEAN
    BY <2>1, Zenon DEF LayerAlone
  <2>3. QED BY <2>1, <2>2 DEF LayerAlone, OverlayTypeOK, FreezeTypeOK, overlayVars,
                 freezeVars, lifeVars, steamTasks, kernelVars
<1>2. WindowTypeOK' /\ LayerTypeOK' /\ UNCHANGED <<visible, gen>>
  <2> USE DEF WindowTypeOK, LayerTypeOK, layerVars
  <2>1. ASSUME NEW t \in ticks, LayerFrame(t)
        PROVE  WindowTypeOK' /\ LayerTypeOK' /\ UNCHANGED <<visible, gen>>
    <3>1. t.from \in Levels /\ t.to \in Levels
      BY DEF Tick, Levels
    <3>2. Between(t.from, t.to) \subseteq Levels
      BY <3>1, BetweenLevels
    <3>3. QED BY <2>1, <3>2 DEF LayerFrame
  <2>2. ASSUME NEW t \in ticks, LayerFinish(t)
        PROVE  WindowTypeOK' /\ LayerTypeOK' /\ UNCHANGED <<visible, gen>>
    <3>1. t.to \in Levels /\ "out" \in Levels
      BY DEF Tick, Levels
    <3>2. QED BY <2>2, <3>1 DEF LayerFinish
  <2>3. ASSUME NEW t \in ticks, LayerCancel(t)
        PROVE  WindowTypeOK' /\ LayerTypeOK' /\ UNCHANGED <<visible, gen>>
    BY <2>3 DEF LayerCancel, CancelTick
  <2>4. CASE WidthKnown
    BY <2>4 DEF WidthKnown, Levels
  <2>5. CASE LayerFocusGained
    BY <2>5 DEF LayerFocusGained
  <2>6. CASE LayerFocusLost
    BY <2>6, ArmDismissType DEF LayerFocusLost
  <2>7. CASE Surroundings
    BY <2>7 DEF Surroundings, windowVars
  <2>8. CASE Settle
    BY <2>8 DEF Settle, windowVars
  <2>9. QED BY <2>1, <2>2, <2>3, <2>4, <2>5, <2>6, <2>7, <2>8 DEF LayerStep, LayerNext
<1>3. QED BY <1>1, <1>2

LEMMA OverlayStepType ==
  ASSUME TypeInv, OverlayStep
  PROVE  TypeInv'
<1> USE DEF TypeInv, TypeOK
<1>1. LayerTypeOK' /\ FreezeTypeOK' /\ owed' \in BOOLEAN
  <2>1. OverlayAlone
    BY DEF OverlayStep
  <2>2. owed' \in BOOLEAN
    BY <2>1, Zenon DEF OverlayAlone
  <2>3. QED BY <2>1, <2>2 DEF OverlayAlone, LayerTypeOK, FreezeTypeOK, layerVars,
                 freezeVars, lifeVars, steamTasks, kernelVars
<1>2. WindowTypeOK' /\ OverlayTypeOK' /\ UNCHANGED <<visible, gen>>
  <2> USE DEF WindowTypeOK, OverlayTypeOK, overlayVars
  <2>1. ASSUME NEW t \in ticks, OverlayFrame(t)
        PROVE  WindowTypeOK' /\ OverlayTypeOK' /\ UNCHANGED <<visible, gen>>
    <3>1. t.from \in Levels /\ t.to \in Levels
      BY DEF Tick, Levels
    <3>2. Between(t.from, t.to) \subseteq Levels
      BY <3>1, BetweenLevels
    <3>3. QED BY <2>1, <3>2 DEF OverlayFrame
  <2>2. ASSUME NEW t \in ticks, OverlayFinish(t)
        PROVE  WindowTypeOK' /\ OverlayTypeOK' /\ UNCHANGED <<visible, gen>>
    <3>1. t.to \in Levels
      BY DEF Tick, Levels
    <3>2. QED BY <2>2, <3>1 DEF OverlayFinish
  <2>3. ASSUME NEW t \in ticks, OverlayCancel(t)
        PROVE  WindowTypeOK' /\ OverlayTypeOK' /\ UNCHANGED <<visible, gen>>
    BY <2>3 DEF OverlayCancel, CancelTick
  <2>4. ASSUME NEW g \in settles, OverlaySettle(g)
        PROVE  WindowTypeOK' /\ OverlayTypeOK' /\ UNCHANGED <<visible, gen>>
    BY <2>4 DEF OverlaySettle, Levels, Regions
  <2>5. CASE OverlayFocusGained
    BY <2>5 DEF OverlayFocusGained
  <2>6. CASE OverlayFocusLost
    BY <2>6, ArmDismissType DEF OverlayFocusLost
  <2>7. QED BY <2>1, <2>2, <2>3, <2>4, <2>5, <2>6 DEF OverlayStep, OverlayNext
<1>3. QED BY <1>1, <1>2

-----------------------------------------------------------------------------
(* Types: Steam.                                                            *)

LEMMA FreezerToType ==
  ASSUME freezers \subseteq Freezer, NEW f \in freezers,
         NEW pc \in {"stop", "create", "write", "orphan", "post"}, FreezerTo(f, pc)
  PROVE  freezers' \subseteq Freezer
<1>1. [f EXCEPT !.pc = pc] \in Freezer
  BY DEF Freezer
<1>2. QED BY <1>1, Zenon DEF FreezerTo

LEMMA RemoveFileType ==
  ASSUME freezers \subseteq Freezer, RemoveFile
  PROVE  freezers' \subseteq Freezer /\ file' = "absent"
<1>1. ASSUME NEW f \in freezers
      PROVE  (IF f.pc = "write" THEN [f EXCEPT !.pc = "orphan"] ELSE f) \in Freezer
  BY DEF Freezer
<1>2. QED BY <1>1, Zenon DEF RemoveFile

LEMMA GoroutinesType ==
  ASSUME FreezeTypeOK, Goroutines
  PROVE  FreezeTypeOK' /\ UNCHANGED windowVars
<1> USE DEF FreezeTypeOK, lifeVars, kernelVars, FreezerAt
<1>1. ASSUME NEW f \in freezers, Stop(f)
      PROVE  FreezeTypeOK' /\ UNCHANGED windowVars
  BY <1>1, FreezerToType DEF Stop
<1>2. ASSUME NEW f \in freezers, Create(f)
      PROVE  FreezeTypeOK' /\ UNCHANGED windowVars
  BY <1>2, FreezerToType DEF Create
<1>3. ASSUME NEW f \in freezers, Write(f)
      PROVE  FreezeTypeOK' /\ UNCHANGED windowVars
  BY <1>3, FreezerToType DEF Write
<1>4. ASSUME NEW f \in freezers, WriteFails(f)
      PROVE  FreezeTypeOK' /\ UNCHANGED windowVars
  <2>1. mishap' \in BOOLEAN
    BY <1>4, Zenon DEF WriteFails
  <2>2. QED BY <1>4, <2>1, FreezerToType DEF WriteFails
<1>5. ASSUME NEW f \in freezers, PostFreeze(f)
      PROVE  FreezeTypeOK' /\ UNCHANGED windowVars
  BY <1>5 DEF PostFreeze
<1>6. ASSUME NEW t \in thawers, ThawRemove(t)
      PROVE  FreezeTypeOK' /\ UNCHANGED windowVars
  <2>1. [t EXCEPT !.pc = "cont"] \in Thawer
    BY DEF Thawer
  <2>2. thawers' \subseteq Thawer
    BY <1>6, <2>1, Zenon DEF ThawRemove
  <2>3. QED BY <1>6, <2>2, RemoveFileType DEF ThawRemove
<1>7. ASSUME NEW t \in thawers, ThawContinue(t)
      PROVE  FreezeTypeOK' /\ UNCHANGED windowVars
  BY <1>7 DEF ThawContinue, Continue
<1>8. QED BY <1>1, <1>2, <1>3, <1>4, <1>5, <1>6, <1>7 DEF Goroutines

LEMMA ThawFrozenType ==
  ASSUME FreezeTypeOK, NEW w \in Thawing, ThawFrozenStep(w)
  PROVE  FreezeTypeOK' /\ UNCHANGED windowVars
<1> USE DEF FreezeTypeOK, lifeVars, steamTasks, kernelVars, ThawingTo
<1>1. CASE ReadFile(w)
  BY <1>1 DEF ReadFile
<1>2. CASE WakeFrozen(w)
  BY <1>2 DEF WakeFrozen, Continue
<1>3. CASE RemoveFrozen(w)
  <2>1. mishap' \in BOOLEAN
    BY <1>3, Zenon DEF RemoveFrozen
  <2>2. QED BY <1>3, <2>1, RemoveFileType DEF RemoveFrozen
<1>4. QED BY <1>1, <1>2, <1>3 DEF ThawFrozenStep

LEMMA FreezeNextType ==
  ASSUME FreezeTypeOK, FreezeNext
  PROVE  FreezeTypeOK' /\ UNCHANGED windowVars
<1> USE DEF FreezeTypeOK, lifeVars, steamTasks, kernelVars, ThawingTo
<1>1. CASE RecordFreeze
  <2>1. [gen |-> 0, pc |-> "remove", pid |-> TRUE] \in Thawer
    BY DEF Thawer, Gens
  <2>2. thawers' \subseteq Thawer
    BY <1>1, <2>1, Zenon DEF RecordFreeze
  <2>3. steamPID' \in BOOLEAN
    BY <1>1, Zenon DEF RecordFreeze
  <2>4. idle > 0 /\ idle \in Nat /\ idle' = idle - 1
    BY <1>1, Zenon DEF RecordFreeze
  <2>5. idle' \in Nat
    BY <2>4
  <2>6. QED BY <1>1, <2>2, <2>3, <2>5, Zenon DEF RecordFreeze
<1>2. CASE Goroutines
  BY <1>2, GoroutinesType
<1>3. CASE Started
  BY <1>3 DEF Started, Thawing
<1>4. CASE StopPost
  BY <1>4 DEF StopPost, Continue
<1>5. CASE Signal
  BY <1>5 DEF Signal, Thawing
<1>6. CASE Launch
  BY <1>6 DEF Launch, Thawing
<1>7. CASE LaunchForwards
  BY <1>7 DEF LaunchForwards, Thawing
<1>8. CASE Restart
  BY <1>8 DEF Restart, Thawing
<1>9. CASE \E w \in Thawing : ThawFrozenStep(w)
  BY <1>9, ThawFrozenType
<1>10. QED BY <1>1, <1>2, <1>3, <1>4, <1>5, <1>6, <1>7, <1>8, <1>9
           DEF FreezeNext, Cleanup, Thawing

LEMMA FreezeStepType ==
  ASSUME TypeInv, FreezeStep
  PROVE  TypeInv'
<1> USE DEF TypeInv, TypeOK
<1>1. FreezeTypeOK' /\ UNCHANGED <<windowVars, layerVars, overlayVars, owed>>
  BY FreezeNextType DEF FreezeStep, FreezeAlone
<1>2. QED BY <1>1 DEF WindowTypeOK, LayerTypeOK, OverlayTypeOK, windowVars, layerVars,
               overlayVars

LEMMA DiesType ==
  ASSUME TypeInv, ProcessDies
  PROVE  TypeInv'
<1> USE DEF TypeInv, TypeOK, ProcessDies, Die
<1>1. mishap' \in BOOLEAN
  BY Zenon
<1>2. FreezeTypeOK'
  BY <1>1 DEF FreezeTypeOK, Thawing
<1>3. LayerTypeOK' /\ OverlayTypeOK'
  BY DEF LayerTypeOK, OverlayTypeOK, layerVars, overlayVars
<1>4. 0 \in Gens /\ "out" \in Levels
  BY DEF Gens, Levels
<1>5. WindowTypeOK' /\ owed' \in BOOLEAN /\ visible' = FALSE
  BY <1>4, Zenon DEF WindowTypeOK
<1>6. QED BY <1>2, <1>3, <1>5

(* The types hold throughout: an animation or a goroutine carries only what *)
(* was put into it, and the generation of an open drawer stays in bounds.   *)
THEOREM TypeCorrect == Spec => []TypeInv
<1>1. Init => TypeInv
  <2> SUFFICES ASSUME Init PROVE TypeInv
    OBVIOUS
  <2>1. WindowTypeOK
    <3>1. 0 \in Gens /\ "out" \in Levels
      BY DEF Gens, Levels
    <3>2. [own |-> 0, old |-> 0] \in [own : Nat, old : Nat]
      OBVIOUS
    <3>3. QED BY <3>1, <3>2, Zenon DEF Init, WindowTypeOK
  <2>2. LayerTypeOK
    BY DEF Init, LayerInit, LayerTypeOK
  <2>3. OverlayTypeOK
    BY DEF Init, OverlayInit, OverlayTypeOK, Regions
  <2>4. FreezeTypeOK
    BY DEF Init, FreezeInit, FreezeTypeOK
  <2>5. QED BY <2>1, <2>2, <2>3, <2>4 DEF Init, TypeInv, TypeOK
<1>2. TypeInv /\ [Next]_vars => TypeInv'
  <2> SUFFICES ASSUME TypeInv, [Next]_vars PROVE TypeInv'
    OBVIOUS
  <2>1. CASE Show
    BY <2>1, ShowType
  <2>2. CASE Hide
    <3>1. timers' \in [own : Nat, old : Nat]
      BY <2>2 DEF Hide, TypeInv, TypeOK, WindowTypeOK
    <3>2. QED BY <2>2, <3>1, HideWindowType DEF Hide
  <2>3. CASE TimerFires("own") \/ TimerFires("old")
    BY <2>3, TimerFiresType
  <2>4. CASE LayerStep
    BY <2>4, LayerStepType
  <2>5. CASE OverlayStep
    BY <2>5, OverlayStepType
  <2>6. CASE FreezeStep
    BY <2>6, FreezeStepType
  <2>7. CASE ProcessDies
    BY <2>7, DiesType
  <2>8. CASE UNCHANGED vars
    BY <2>8 DEF vars, TypeInv, TypeOK, WindowTypeOK, LayerTypeOK, OverlayTypeOK,
         FreezeTypeOK, windowVars, layerVars, overlayVars, freezeVars, lifeVars,
         steamTasks, kernelVars
  <2>9. QED BY <2>1, <2>2, <2>3, <2>4, <2>5, <2>6, <2>7, <2>8 DEF Next
<1>3. QED BY <1>1, <1>2, PTL DEF Spec

-----------------------------------------------------------------------------
(* The frozen Steam.                                                        *)

(* Between a death and the next start nothing of the process is left.       *)
DeadIsEmpty == proc # "running" => freezers = {} /\ thawers = {}

(* Once ExecStopPost or the start's ThawFrozen has been, Steam runs, unless *)
(* there was a mishap.                                                      *)
Thawed ==
  \/ proc = "dead" /\ stopPost = "done"
  \/ proc = "starting" /\ thawing["start"] \in {"remove", "done"}

ThawedRuns == Thawed /\ stopped => mishap

OwnerInv == FreezeRecorded /\ StoppedHasOwner /\ DeadIsEmpty /\ ThawedRuns

LEMMA FreezeShowOwned ==
  ASSUME FreezeTypeOK, OwnerInv, FreezeShow
  PROVE  OwnerInv'
<1> USE DEF OwnerInv, FreezeRecorded, StoppedHasOwner, DeadIsEmpty, ThawedRuns, Thawed,
        HalfFrozen, HalfThawed, lifeVars, kernelVars
<1>1. proc = "running"
  BY DEF FreezeShow, GtkFree
<1>2. freezers \subseteq freezers'
  BY DEF FreezeShow
<1>3. UNCHANGED <<proc, stopPost, steamPID, thawers, idle, stopped, file, mishap>>
  BY DEF FreezeShow
<1>4. QED BY <1>1, <1>2, <1>3

LEMMA FreezeHideOwned ==
  ASSUME FreezeTypeOK, OwnerInv, FreezeHide
  PROVE  OwnerInv'
<1> USE DEF OwnerInv, FreezeRecorded, StoppedHasOwner, DeadIsEmpty, ThawedRuns, Thawed,
        HalfFrozen, HalfThawed, lifeVars, kernelVars
<1> DEFINE new == [gen |-> gen', pc |-> "remove", pid |-> steamPID]
<1>1. proc = "running"
  BY DEF FreezeHide, GtkFree
<1>2. thawers' = thawers \cup {new} /\ new.pid = steamPID
  BY DEF FreezeHide
<1>3. UNCHANGED <<proc, stopPost, freezers, idle, stopped, file, mishap>>
  BY DEF FreezeHide
<1> HIDE DEF new
<1>4. thawers \subseteq thawers' /\ new \in thawers'
  BY <1>2
<1>5. QED BY <1>1, <1>2, <1>3, <1>4

(* A goroutine that moves on leaves the others where they are.              *)
LEMMA OthersStay ==
  ASSUME FreezeTypeOK, NEW f \in freezers,
         NEW pc \in {"stop", "create", "write", "orphan", "post"}, FreezerTo(f, pc)
  PROVE  /\ \E g \in freezers' : g.pc = pc
         /\ \A g \in freezers \ {f} : g \in freezers'
<1> DEFINE new == [f EXCEPT !.pc = pc]
<1>1. new.pc = pc
  BY DEF FreezeTypeOK, Freezer
<1>2. freezers' = (freezers \ {f}) \cup {new}
  BY DEF FreezerTo
<1> HIDE DEF new
<1>3. QED BY <1>1, <1>2

(* A file that loses its name orphans the write under way and nothing else. *)
LEMMA RemoveFileStays ==
  ASSUME FreezeTypeOK, RemoveFile
  PROVE  (\E f \in freezers : f.pc # "stop") => (\E f \in freezers' : f.pc # "stop")
<1> SUFFICES ASSUME NEW f \in freezers, f.pc # "stop"
             PROVE  \E g \in freezers' : g.pc # "stop"
  OBVIOUS
<1> DEFINE g == IF f.pc = "write" THEN [f EXCEPT !.pc = "orphan"] ELSE f
<1>1. g.pc # "stop"
  BY DEF FreezeTypeOK, Freezer
<1>2. g \in freezers'
  BY Zenon DEF RemoveFile
<1>3. QED BY <1>1, <1>2

LEMMA GoroutinesOwned ==
  ASSUME FreezeTypeOK, OwnerInv, Goroutines
  PROVE  OwnerInv'
<1> USE DEF OwnerInv, FreezeRecorded, StoppedHasOwner, DeadIsEmpty, ThawedRuns, Thawed,
        HalfFrozen, HalfThawed, lifeVars, FreezerAt
<1>1. ASSUME NEW f \in freezers, Stop(f) PROVE OwnerInv'
  <2>1. FreezerTo(f, "create") /\ proc = "running"
    BY <1>1 DEF Stop
  <2>2. \E g \in freezers' : g.pc = "create"
    BY <2>1, OthersStay
  <2>3. UNCHANGED <<proc, stopPost, thawers, file, mishap>>
    BY <1>1 DEF Stop
  <2>4. QED BY <2>1, <2>2, <2>3
<1>2. ASSUME NEW f \in freezers, Create(f) PROVE OwnerInv'
  <2>1. FreezerTo(f, "write") /\ proc = "running"
    BY <1>2 DEF Create
  <2>2. \E g \in freezers' : g.pc = "write"
    BY <2>1, OthersStay
  <2>3. UNCHANGED <<proc, stopPost, thawers, stopped, mishap>>
    BY <1>2 DEF Create
  <2>4. QED BY <2>1, <2>2, <2>3
<1>3. ASSUME NEW f \in freezers, Write(f) PROVE OwnerInv'
  <2>1. FreezerTo(f, "post") /\ proc = "running" /\ f.pc \in {"write", "orphan"}
    BY <1>3 DEF Write
  <2>2. (\E g \in freezers' : g.pc = "post") /\ \A g \in freezers \ {f} : g \in freezers'
    BY <2>1, OthersStay
  <2>3. UNCHANGED <<proc, stopPost, thawers, stopped, mishap>>
        /\ file' = IF f.pc = "write" THEN "pid" ELSE file
    BY <1>3 DEF Write
  <2>4. FreezeRecorded'
    BY <2>1, <2>2, <2>3
  <2>5. QED BY <2>1, <2>2, <2>3, <2>4
<1>4. ASSUME NEW f \in freezers, WriteFails(f) PROVE OwnerInv'
  <2>1. FreezerTo(f, "post") /\ proc = "running"
    BY <1>4 DEF WriteFails
  <2>2. \E g \in freezers' : g.pc = "post"
    BY <2>1, OthersStay
  <2>3. UNCHANGED <<proc, stopPost, steamPID, thawers, idle, stopped, file>>
        /\ mishap' = (mishap \/ (stopped /\ file # "pid"))
    BY <1>4, Zenon DEF WriteFails
  <2>4. QED BY <2>1, <2>2, <2>3
<1>5. ASSUME NEW f \in freezers, PostFreeze(f) PROVE OwnerInv'
  <2>1. freezers' = freezers \ {f} /\ f.pc = "post" /\ proc = "running"
    BY <1>5 DEF PostFreeze
  <2>2. idle \in Nat /\ idle' = idle + 1
    BY <1>5, Zenon DEF PostFreeze, FreezeTypeOK
  <2>3. idle' > 0
    BY <2>2
  <2>4. UNCHANGED <<proc, stopPost, steamPID, thawers, stopped, file, mishap>>
    BY <1>5 DEF PostFreeze, kernelVars
  <2>5. QED BY <2>1, <2>3, <2>4
<1>6. ASSUME NEW t \in thawers, ThawRemove(t) PROVE OwnerInv'
  <2>1. UNCHANGED <<proc, stopPost, steamPID, idle, stopped, mishap>>
        /\ proc = "running" /\ t.pc = "remove"
    BY <1>6 DEF ThawRemove
  <2>2. CASE t.pid
    <3> DEFINE new == [t EXCEPT !.pc = "cont"]
    <3>1. new.pc = "cont" /\ new.pid
      BY <2>2 DEF FreezeTypeOK, Thawer
    <3>2. RemoveFile /\ thawers' = (thawers \ {t}) \cup {new}
      BY <1>6, <2>2 DEF ThawRemove
    <3> HIDE DEF new
    <3>3. new \in thawers'
      BY <3>2
    <3>4. QED BY <2>1, <3>1, <3>3
  <2>3. CASE ~t.pid
    <3>1. thawers' = thawers \ {t} /\ UNCHANGED <<file, freezers>>
      BY <1>6, <2>3 DEF ThawRemove
    <3>2. QED BY <2>1, <2>3, <3>1
  <2>4. QED BY <2>2, <2>3
<1>7. ASSUME NEW t \in thawers, ThawContinue(t) PROVE OwnerInv'
  BY <1>7 DEF ThawContinue, Continue
<1>8. QED BY <1>1, <1>2, <1>3, <1>4, <1>5, <1>6, <1>7 DEF Goroutines

LEMMA FreezeNextOwned ==
  ASSUME FreezeTypeOK, OwnerInv, FreezeNext
  PROVE  OwnerInv'
<1> USE DEF OwnerInv, FreezeRecorded, StoppedHasOwner, DeadIsEmpty, ThawedRuns, Thawed,
        HalfFrozen, HalfThawed, lifeVars, steamTasks, kernelVars
<1>1. CASE RecordFreeze
  <2>1. UNCHANGED <<proc, stopPost, freezers, stopped, file, mishap>> /\ proc = "running"
    BY <1>1 DEF RecordFreeze, GtkFree
  <2>2. CASE visible
    BY <1>1, <2>1, <2>2 DEF RecordFreeze
  <2>3. CASE ~visible
    <3> DEFINE new == [gen |-> 0, pc |-> "remove", pid |-> TRUE]
    <3>1. thawers' = thawers \cup {new} /\ new.pid
      BY <1>1, <2>3 DEF RecordFreeze
    <3> HIDE DEF new
    <3>2. thawers \subseteq thawers' /\ new \in thawers'
      BY <3>1
    <3>3. QED BY <2>1, <3>1, <3>2
  <2>4. QED BY <2>2, <2>3
<1>2. CASE Goroutines
  BY <1>2, GoroutinesOwned
<1>3. CASE Started
  BY <1>3 DEF Started
<1>4. CASE StopPost
  BY <1>4 DEF StopPost, Continue
<1>5. CASE Signal \/ Launch \/ LaunchForwards
  <2>1. /\ UNCHANGED <<proc, stopPost, steamTasks, kernelVars>>
        /\ thawing'["start"] = thawing["start"]
    BY <1>5 DEF Signal, Launch, LaunchForwards, ThawingTo, FreezeTypeOK, Thawing
  <2>2. QED BY <2>1
<1>6. CASE Restart
  <2>1. /\ proc = "dead" /\ proc' = "starting" /\ stopPost' = "none"
        /\ UNCHANGED <<steamTasks, kernelVars>> /\ thawing'["start"] = "read"
    BY <1>6 DEF Restart, ThawingTo, FreezeTypeOK, Thawing
  <2>2. QED BY <2>1
<1>7. ASSUME NEW w \in Thawing, ThawFrozenStep(w) PROVE OwnerInv'
  <2>1. CASE ReadFile(w)
    <3>1. UNCHANGED <<proc, stopPost, steamTasks, kernelVars>>
      BY <2>1 DEF ReadFile
    <3>2. thawing'["start"] \in {"remove", "done"} /\ proc = "starting"
            => file # "pid" \/ thawing["start"] \in {"remove", "done"}
      BY <2>1 DEF ReadFile, ThawingTo, FreezeTypeOK, Thawing
    <3>3. proc = "starting" /\ file # "pid" => (stopped => mishap)
      OBVIOUS
    <3>4. QED BY <3>1, <3>2, <3>3
  <2>2. CASE WakeFrozen(w)
    BY <2>2 DEF WakeFrozen, Continue
  <2>3. CASE RemoveFrozen(w)
    <3>1. UNCHANGED <<proc, stopPost, thawers, stopped>> /\ (stopped => mishap')
      BY <2>3, Zenon DEF RemoveFrozen
    <3>2. freezers = {} => freezers' = {}
      BY <2>3 DEF RemoveFrozen, RemoveFile
    <3>3. QED BY <3>1, <3>2
  <2>4. QED BY <1>7, <2>1, <2>2, <2>3 DEF ThawFrozenStep
<1>8. QED BY <1>1, <1>2, <1>3, <1>4, <1>5, <1>6, <1>7 DEF FreezeNext, Cleanup, Thawing

(* Every step that is not about Steam leaves all of it alone.               *)
LEMMA OwnerStep ==
  ASSUME TypeInv, OwnerInv, [Next]_vars
  PROVE  OwnerInv'
<1>1. FreezeTypeOK
  BY DEF TypeInv, TypeOK
<1>2. CASE UNCHANGED freezeVars
  BY <1>2 DEF OwnerInv, FreezeRecorded, StoppedHasOwner, DeadIsEmpty, ThawedRuns, Thawed,
       HalfFrozen, HalfThawed, freezeVars, lifeVars, steamTasks, kernelVars
<1>3. CASE FreezeShow
  BY <1>1, <1>3, FreezeShowOwned
<1>4. CASE FreezeHide
  BY <1>1, <1>4, FreezeHideOwned
<1>5. CASE FreezeNext
  BY <1>1, <1>5, FreezeNextOwned
<1>6. CASE Die
  <2>1. /\ proc' = "dead" /\ stopPost' # "done" /\ freezers' = {} /\ thawers' = {}
        /\ UNCHANGED <<stopped, file>>
        /\ mishap' = (mishap \/ (stopped /\ (HalfFrozen \/ HalfThawed)))
    BY <1>6, Zenon DEF Die
  <2>2. QED BY <2>1 DEF OwnerInv, FreezeRecorded, StoppedHasOwner, DeadIsEmpty,
                 ThawedRuns, Thawed
<1>7. HideWindow => UNCHANGED freezeVars \/ FreezeHide
  BY DEF HideWindow
<1>8. QED BY <1>2, <1>3, <1>4, <1>5, <1>6, <1>7 DEF Next, Show, Hide, TimerFires,
           LayerStep, LayerAlone, OverlayStep, OverlayAlone, FreezeStep, ProcessDies, vars

LEMMA OwnerAlways == Spec => []OwnerInv
<1>1. Init => OwnerInv
  BY DEF Init, FreezeInit, OwnerInv, FreezeRecorded, StoppedHasOwner, DeadIsEmpty,
         ThawedRuns, Thawed
<1>2. TypeInv /\ OwnerInv /\ [Next]_vars => OwnerInv'
  BY OwnerStep
<1>3. QED BY <1>1, <1>2, TypeCorrect, PTL DEF Spec

(* Whoever comes after us finds a stopped Steam in the file: crashes and    *)
(* signals at any point, shows and hides and their goroutines in any order. *)
THEOREM FreezeIsRecorded == Spec => []FreezeRecorded
BY OwnerAlways, PTL DEF OwnerInv

(* A running process that has stopped Steam has somebody left to wake it.   *)
THEOREM StoppedIsOwned == Spec => []StoppedHasOwner
BY OwnerAlways, PTL DEF OwnerInv

-----------------------------------------------------------------------------
(* The window at rest.                                                      *)

(* At most one callback is of the present generation, and it takes the      *)
(* window where the flag says.  Gamescope has no animations.                *)
Aim == IF visible THEN "in" ELSE "out"

TicksInv ==
  /\ \A t \in ticks : t.gen <= gen /\ (t.gen = gen => t.to = Aim)
  /\ \A t, u \in ticks : t.gen = gen /\ u.gen = gen => t = u

(* A drawer on its way in is in place if it fades and opaque if it slides.  *)
LayerInv ==
  /\ visible => \A t \in ticks :
                  t.gen = gen => IF t.kind = "fade" THEN place = "in" \/ misparked
                                                    ELSE opacity = "in"
  /\ ~Animating => IF visible THEN LayerOnScreen ELSE LayerOffScreen

OverlayInv ==
  /\ visible => mapped
  /\ ~visible /\ ~Animating => ~mapped
  /\ visible /\ ~Animating /\ settles = {} => OverlayOnScreen

RestInv ==
  /\ backend \in {"layershell", "overlay"} => TicksInv
  /\ backend = "layershell" => LayerInv
  /\ backend = "overlay" => OverlayInv
  /\ backend = "gamescope" => ticks = {} /\ opacity = Aim

LEMMA AnimateLive ==
  ASSUME TypeInv, TicksInv, gen' = gen + 1, NEW kind \in {"slide", "fade"},
         NEW from \in Levels, NEW to \in {"out", "in"}, Animate(kind, from, to),
         to = Aim'
  PROVE  TicksInv' /\ Animating' /\ \A t \in ticks' : t.gen = gen' => t.kind = kind
<1> DEFINE new == [gen |-> gen', kind |-> kind, from |-> from, to |-> to]
<1>1. new.gen = gen' /\ new.kind = kind /\ new.to = Aim'
  OBVIOUS
<1>2. ticks' = ticks \cup {new}
  BY DEF Animate
<1> HIDE DEF new
<1>3. gen \in Nat /\ \A t \in ticks : t.gen \in Nat /\ t.gen <= gen
  BY DEF TypeInv, TypeOK, WindowTypeOK, Gens, Tick, TicksInv
<1>4. \A t \in ticks : t.gen < gen' /\ t.gen # gen'
  BY <1>3
<1>5. gen' <= gen'
  BY <1>3
<1>6. \A t \in ticks' : t.gen = gen' => t = new
  BY <1>2, <1>4
<1>7. \A t \in ticks' : t.gen <= gen'
  BY <1>1, <1>2, <1>3, <1>4, <1>5
<1>8. QED BY <1>1, <1>2, <1>6, <1>7, Zenon DEF TicksInv, Animating

(* The callback of the present generation goes, and no other.               *)
LEMMA FinishLive ==
  ASSUME TicksInv, NEW t \in ticks, LiveTick(t), ticks' = ticks \ {t},
         UNCHANGED <<visible, gen>>
  PROVE  TicksInv' /\ ~Animating' /\ t.to = Aim
BY DEF TicksInv, Animating, LiveTick, Aim

LEMMA CancelLive ==
  ASSUME TicksInv, NEW t \in ticks, CancelTick(t), UNCHANGED <<visible, gen>>
  PROVE  TicksInv' /\ Animating' = Animating /\ ticks' \subseteq ticks
BY DEF TicksInv, Animating, CancelTick, Aim

LEMMA ShowRest ==
  ASSUME TypeInv, RestInv, Show
  PROVE  RestInv'
<1> USE DEF RestInv
<1>1. gen' = gen + 1 /\ visible' = TRUE /\ backend' = backend /\ Aim' = "in"
  BY DEF Show, Aim
<1>2. place \in Levels /\ opacity \in Levels /\ {"in", "out"} \subseteq Levels
  BY DEF TypeInv, TypeOK, WindowTypeOK, Levels
<1>3. CASE backend = "layershell"
  <2>1. LayerShow
    BY <1>3 DEF Show
  <2>2. CASE rightNeighbor
    <3>1. Animate("fade", "out", "in") /\ place' = "in"
      BY <2>1, <2>2 DEF LayerShow
    <3>2. TicksInv' /\ Animating' /\ \A t \in ticks' : t.gen = gen' => t.kind = "fade"
      BY <1>1, <1>2, <1>3, <3>1, AnimateLive
    <3>3. QED BY <1>1, <1>3, <3>1, <3>2 DEF LayerInv
  <2>3. CASE ~rightNeighbor
    <3>1. Animate("slide", place, "in") /\ opacity' = "in"
      BY <2>1, <2>3 DEF LayerShow
    <3>2. TicksInv' /\ Animating' /\ \A t \in ticks' : t.gen = gen' => t.kind = "slide"
      BY <1>1, <1>2, <1>3, <3>1, AnimateLive
    <3>3. QED BY <1>1, <1>3, <3>1, <3>2 DEF LayerInv
  <2>4. QED BY <2>2, <2>3
<1>4. CASE backend = "overlay"
  <2>1. Animate("slide", place, "in") /\ mapped' = TRUE
    BY <1>4 DEF Show, OverlayShow
  <2>2. TicksInv' /\ Animating'
    BY <1>1, <1>2, <1>4, <2>1, AnimateLive
  <2>3. QED BY <1>1, <1>4, <2>1, <2>2 DEF OverlayInv
<1>5. CASE backend = "gamescope"
  BY <1>1, <1>5 DEF Show, GamescopeShow
<1>6. QED BY <1>3, <1>4, <1>5 DEF Show

LEMMA HideRest ==
  ASSUME TypeInv, RestInv, HideWindow
  PROVE  RestInv'
<1> USE DEF RestInv
<1>1. gen' = gen + 1 /\ visible' = FALSE /\ backend' = backend /\ Aim' = "out"
  BY DEF HideWindow, Aim
<1>2. place \in Levels /\ opacity \in Levels
  BY DEF TypeInv, TypeOK, WindowTypeOK
<1>3. CASE backend = "layershell"
  <2>1. Animate("fade", opacity, "out") \/ Animate("slide", place, "out")
    BY <1>3 DEF HideWindow, LayerHide
  <2>2. TicksInv' /\ Animating'
    BY <1>1, <1>2, <1>3, <2>1, AnimateLive
  <2>3. QED BY <1>1, <1>3, <2>2 DEF LayerInv
<1>4. CASE backend = "overlay"
  <2>1. Animate("slide", place, "out")
    BY <1>4 DEF HideWindow, OverlayHide
  <2>2. TicksInv' /\ Animating'
    BY <1>1, <1>2, <1>4, <2>1, AnimateLive
  <2>3. QED BY <1>1, <1>4, <2>2 DEF OverlayInv
<1>5. CASE backend = "gamescope"
  BY <1>1, <1>5 DEF HideWindow, GamescopeHide
<1>6. QED BY <1>3, <1>4, <1>5 DEF HideWindow

LEMMA LayerRest ==
  ASSUME TypeInv, RestInv, LayerStep
  PROVE  RestInv'
<1>1. backend = "layershell" /\ LayerNext /\ TicksInv /\ LayerInv
  BY DEF LayerStep, RestInv
<1>2. SUFFICES backend' = backend /\ TicksInv' /\ LayerInv'
  BY <1>1 DEF RestInv
<1> USE DEF layerVars, windowVars
<1>3. ASSUME UNCHANGED <<visible, gen, ticks, place, opacity, misparked>>
      PROVE  TicksInv' /\ LayerInv'
  BY <1>1, <1>3 DEF TicksInv, Aim, LayerInv, Animating, LayerOnScreen, LayerOffScreen
<1>4. ASSUME NEW t \in ticks, LayerFrame(t)
      PROVE  backend' = backend /\ TicksInv' /\ LayerInv'
  <2>1. /\ t.gen = gen /\ UNCHANGED <<backend, visible, gen, ticks, misparked>>
        /\ IF t.kind = "slide" THEN UNCHANGED opacity ELSE UNCHANGED place
    BY <1>4 DEF LayerFrame, LiveTick
  <2>2. t.kind \in {"slide", "fade"}
    BY DEF TypeInv, TypeOK, WindowTypeOK, Tick
  <2>3. \A u \in ticks : u.gen = gen => u = t
    BY <1>1, <2>1 DEF TicksInv
  <2>4. Animating /\ Animating'
    BY <2>1 DEF Animating
  <2>5. QED BY <1>1, <2>1, <2>2, <2>3, <2>4 DEF TicksInv, Aim, LayerInv
<1>5. ASSUME NEW t \in ticks, LayerFinish(t)
      PROVE  backend' = backend /\ TicksInv' /\ LayerInv'
  <2>1. LiveTick(t) /\ ticks' = ticks \ {t} /\ UNCHANGED <<backend, visible, gen, misparked>>
    BY <1>5 DEF LayerFinish
  <2>2. TicksInv' /\ ~Animating' /\ t.to = Aim /\ t.gen = gen
    BY <1>1, <2>1, FinishLive DEF LiveTick
  <2>3. t.kind \in {"slide", "fade"}
    BY DEF TypeInv, TypeOK, WindowTypeOK, Tick
  <2>4. IF visible THEN LayerOnScreen' ELSE LayerOffScreen'
    BY <1>1, <1>5, <2>1, <2>2, <2>3 DEF LayerFinish, LayerInv, Aim, LayerOnScreen,
         LayerOffScreen
  <2>5. \A u \in ticks' : u.gen # gen'
    BY <2>2 DEF Animating
  <2>6. QED BY <2>1, <2>2, <2>4, <2>5 DEF LayerInv
<1>6. ASSUME NEW t \in ticks, LayerCancel(t)
      PROVE  backend' = backend /\ TicksInv' /\ LayerInv'
  <2>1. CancelTick(t) /\ UNCHANGED <<backend, visible, gen, place, opacity, misparked>>
    BY <1>6 DEF LayerCancel
  <2>2. TicksInv' /\ Animating' = Animating /\ ticks' \subseteq ticks
    BY <1>1, <2>1, CancelLive
  <2>3. QED BY <1>1, <2>1, <2>2 DEF LayerInv, LayerOnScreen, LayerOffScreen
<1>7. CASE WidthKnown
  <2>1. place' = "out" /\ misparked' = visible
        /\ UNCHANGED <<backend, visible, gen, opacity, ticks>>
    BY <1>7 DEF WidthKnown
  <2>2. QED BY <1>1, <2>1 DEF TicksInv, Aim, LayerInv, Animating, LayerOnScreen,
                 LayerOffScreen
<1>8. CASE LayerFocusGained \/ LayerFocusLost \/ Surroundings \/ Settle
  <2>1. UNCHANGED <<backend, visible, gen, ticks, place, opacity, misparked>>
    BY <1>8 DEF LayerFocusGained, LayerFocusLost, Surroundings, Settle
  <2>2. QED BY <1>3, <2>1
<1>9. QED BY <1>1, <1>4, <1>5, <1>6, <1>7, <1>8 DEF LayerNext

LEMMA OverlayRest ==
  ASSUME TypeInv, RestInv, OverlayStep
  PROVE  RestInv'
<1>1. backend = "overlay" /\ OverlayNext /\ TicksInv /\ OverlayInv
  BY DEF OverlayStep, RestInv
<1>2. SUFFICES backend' = backend /\ TicksInv' /\ OverlayInv'
  BY <1>1 DEF RestInv
<1> USE DEF overlayVars, OverlayInv, OverlayOnScreen
<1>3. ASSUME NEW t \in ticks, OverlayFrame(t)
      PROVE  backend' = backend /\ TicksInv' /\ OverlayInv'
  <2>1. t.gen = gen /\ UNCHANGED <<backend, visible, gen, ticks, mapped>>
    BY <1>3 DEF OverlayFrame, LiveTick
  <2>2. Animating'
    BY <2>1 DEF Animating
  <2>3. QED BY <1>1, <2>1, <2>2 DEF TicksInv, Aim
<1>4. ASSUME NEW t \in ticks, OverlayFinish(t)
      PROVE  backend' = backend /\ TicksInv' /\ OverlayInv'
  <2>1. LiveTick(t) /\ ticks' = ticks \ {t} /\ UNCHANGED <<backend, visible, gen>>
    BY <1>4 DEF OverlayFinish
  <2>2. TicksInv' /\ ~Animating' /\ t.to = Aim
    BY <1>1, <2>1, FinishLive
  <2>3. CASE visible
    <3>1. settles' = settles \cup {gen} /\ UNCHANGED mapped
      BY <1>4, <2>2, <2>3 DEF OverlayFinish, Aim
    <3>2. settles' # {}
      BY <3>1
    <3>3. QED BY <1>1, <2>1, <2>2, <2>3, <3>1, <3>2
  <2>4. CASE ~visible
    BY <1>4, <2>1, <2>2, <2>4 DEF OverlayFinish, Aim
  <2>5. QED BY <2>3, <2>4
<1>5. ASSUME NEW t \in ticks, OverlayCancel(t)
      PROVE  backend' = backend /\ TicksInv' /\ OverlayInv'
  <2>1. CancelTick(t) /\ UNCHANGED <<backend, visible, gen, place, overlayVars>>
    BY <1>5 DEF OverlayCancel
  <2>2. TicksInv' /\ Animating' = Animating
    BY <1>1, <2>1, CancelLive
  <2>3. QED BY <1>1, <2>1, <2>2
<1>6. ASSUME NEW g \in settles, OverlaySettle(g)
      PROVE  backend' = backend /\ TicksInv' /\ OverlayInv'
  <2>1. /\ place' = "in" /\ region' = IF geomReady THEN "panel" ELSE region
        /\ UNCHANGED <<backend, visible, gen, ticks, mapped, geomReady>>
    BY <1>6 DEF OverlaySettle
  <2>2. QED BY <1>1, <2>1 DEF TicksInv, Aim, Animating
<1>7. CASE OverlayFocusGained \/ OverlayFocusLost
  <2>1. UNCHANGED <<backend, visible, gen, place, ticks, mapped, region, geomReady, settles>>
    BY <1>7 DEF OverlayFocusGained, OverlayFocusLost
  <2>2. QED BY <1>1, <2>1 DEF TicksInv, Aim, Animating
<1>8. QED BY <1>1, <1>3, <1>4, <1>5, <1>6, <1>7 DEF OverlayNext

LEMMA RestStep ==
  ASSUME TypeInv, RestInv, [Next]_vars
  PROVE  RestInv'
<1>1. CASE Show
  BY <1>1, ShowRest
<1>2. CASE HideWindow
  BY <1>2, HideRest
<1>3. CASE LayerStep
  BY <1>3, LayerRest
<1>4. CASE OverlayStep
  BY <1>4, OverlayRest
<1>5. CASE UNCHANGED <<windowVars, layerVars, overlayVars>>
  BY <1>5 DEF RestInv, TicksInv, Aim, LayerInv, OverlayInv, Animating, LayerOnScreen,
       LayerOffScreen, OverlayOnScreen, windowVars, layerVars, overlayVars
<1>6. CASE FreezeStep
  BY <1>5, <1>6, FreezeNextType DEF TypeInv, TypeOK, FreezeStep, FreezeAlone
<1>7. CASE ProcessDies
  BY <1>7 DEF ProcessDies, Die, RestInv, Aim
<1>8. ASSUME NEW k \in {"own", "old"}, TimerFires(k), ~HideWindow
      PROVE  RestInv'
  <2>1. UNCHANGED <<backend, visible, gen, place, opacity, ticks, active, layerVars,
                    overlayVars>>
    BY <1>8 DEF TimerFires
  <2>2. QED BY <2>1 DEF RestInv, TicksInv, Aim, LayerInv, OverlayInv, Animating,
                 LayerOnScreen, LayerOffScreen, OverlayOnScreen, layerVars, overlayVars
<1>9. CASE UNCHANGED vars
  BY <1>5, <1>9 DEF vars
<1>10. QED BY <1>1, <1>2, <1>3, <1>4, <1>6, <1>7, <1>8, <1>9 DEF Next, Hide

LEMMA RestAlways == Spec => []RestInv
<1>1. Init => RestInv
  BY DEF Init, LayerInit, OverlayInit, RestInv, TicksInv, Aim, LayerInv, OverlayInv,
         Animating, LayerOffScreen
<1>2. TypeInv /\ RestInv /\ [Next]_vars => RestInv'
  BY RestStep
<1>3. QED BY <1>1, <1>2, TypeCorrect, PTL DEF Spec

(* A window with nothing under way is in full view if the drawer is open    *)
(* and out of sight if it is closed, whatever animations have cut short     *)
(* each other, wherever monitors came and went meanwhile.                   *)
THEOREM WindowRestsInPlace == Spec => []RestsInPlace
<1>1. TypeInv /\ RestInv => RestsInPlace
  BY DEF TypeInv, TypeOK, WindowTypeOK, Backends, RestInv, RestsInPlace, OnScreen,
         OffScreen, LayerInv, OverlayInv, OverlayOffScreen, Aim
<1>2. QED BY <1>1, TypeCorrect, RestAlways, PTL

-----------------------------------------------------------------------------
(* A dismissal that is due.                                                 *)

(* The overlay knows of the focus of an open drawer, but for one it has     *)
(* held since before the drawer was re-opened.                              *)
FocusNoticed ==
  backend = "overlay" /\ visible /\ active => heldOver \/ focusedSinceShow

(* While a dismissal is due the drawer is open without the focus, and a     *)
(* timer runs that will find it so.                                         *)
DismissalPending == owed => visible /\ ~active /\ timers.own + timers.old > 0

DismissInv ==
  /\ FocusNoticed
  /\ DismissalPending
  /\ owed => backend # "gamescope"

LEMMA ArmedTimer ==
  ASSUME timers \in [own : Nat, old : Nat], ArmDismiss
  PROVE  timers'.own + timers'.old > 0
<1>1. timers'.own = timers.own + 1 /\ timers'.old = timers.old
  BY DEF ArmDismiss
<1>2. QED BY <1>1

LEMMA ShowDismiss ==
  ASSUME TypeInv, DismissInv, Show
  PROVE  DismissInv'
<1>1. ~owed' /\ UNCHANGED <<backend, active>>
  BY DEF Show, DismissInv, DismissalPending
<1>2. backend = "overlay" => heldOver' = active
  BY DEF Show, OverlayShow
<1>3. QED BY <1>1, <1>2 DEF DismissInv, DismissalPending, FocusNoticed

LEMMA LayerDismiss ==
  ASSUME TypeInv, DismissInv, LayerStep
  PROVE  DismissInv'
<1>1. /\ backend = "layershell" /\ backend' = backend
      /\ owed' = (~active' /\ (owed \/ (active /\ LayerTakesLoss)))
  BY DEF LayerStep, LayerNext, LayerAlone, LayerFrame, LayerFinish, LayerCancel,
         WidthKnown, LayerFocusGained, LayerFocusLost, Surroundings, Settle, windowVars
<1>2. SUFFICES ASSUME owed' PROVE visible' /\ timers'.own + timers'.old > 0
  BY <1>1 DEF DismissInv, DismissalPending, FocusNoticed
<1>3. CASE active
  <2>1. LayerFocusLost
    BY <1>1, <1>2, <1>3 DEF LayerStep, LayerNext, LayerFrame, LayerFinish, LayerCancel,
       WidthKnown, LayerFocusGained, Surroundings, Settle, windowVars
  <2>2. LayerTakesLoss
    BY <1>1, <1>2, <1>3 DEF DismissInv, DismissalPending
  <2>3. ArmDismiss /\ UNCHANGED visible
    BY <2>1, <2>2 DEF LayerFocusLost
  <2>4. QED BY <2>2, <2>3, ArmedTimer DEF LayerTakesLoss, TypeInv, TypeOK, WindowTypeOK
<1>4. CASE ~active
  <2>1. owed
    BY <1>1, <1>2, <1>4
  <2>2. UNCHANGED <<visible, timers>>
    BY <1>4 DEF LayerStep, LayerNext, LayerFrame, LayerFinish, LayerCancel, WidthKnown,
       LayerFocusGained, LayerFocusLost, Surroundings, Settle, windowVars
  <2>3. QED BY <2>1, <2>2 DEF DismissInv, DismissalPending
<1>5. QED BY <1>3, <1>4

(* The overlay's own test for a click outside, focusedSinceShow, is met     *)
(* whenever the focus did not come with the drawer from an earlier open.    *)
LEMMA OverlayDismiss ==
  ASSUME TypeInv, RestInv, DismissInv, OverlayStep
  PROVE  DismissInv'
<1>1. /\ backend = "overlay" /\ UNCHANGED <<backend, visible>> /\ TicksInv
      /\ owed' = (~active' /\ (owed \/ (active /\ OverlayTakesLoss)))
  BY DEF OverlayStep, OverlayNext, OverlayAlone, OverlayFrame, OverlayFinish,
         OverlayCancel, OverlaySettle, OverlayFocusGained, OverlayFocusLost, RestInv
<1> USE DEF OverlayStep, OverlayNext
<1>2. FocusNoticed'
  <2> SUFFICES ASSUME visible, active' PROVE heldOver' \/ focusedSinceShow'
    BY <1>1 DEF FocusNoticed
  <2>1. CASE OverlayFocusGained
    BY <2>1 DEF OverlayFocusGained
  <2>2. CASE OverlayFocusLost
    BY <2>2 DEF OverlayFocusLost
  <2>3. ASSUME NEW t \in ticks, OverlayFinish(t)
        PROVE  UNCHANGED <<active, heldOver, focusedSinceShow>>
    BY <1>1, <2>3 DEF OverlayFinish, LiveTick, TicksInv, Aim
  <2>4. ASSUME NEW t \in ticks, OverlayFrame(t) \/ OverlayCancel(t)
        PROVE  UNCHANGED <<active, heldOver, focusedSinceShow>>
    BY <2>4 DEF OverlayFrame, OverlayCancel, overlayVars
  <2>5. ASSUME NEW g \in settles, OverlaySettle(g)
        PROVE  UNCHANGED <<active, heldOver, focusedSinceShow>>
    BY <2>5 DEF OverlaySettle
  <2>6. QED BY <1>1, <2>1, <2>2, <2>3, <2>4, <2>5 DEF DismissInv, FocusNoticed
<1>3. SUFFICES ASSUME owed' PROVE visible' /\ timers'.own + timers'.old > 0
  BY <1>1, <1>2 DEF DismissInv, DismissalPending
<1>4. CASE active
  <2>1. OverlayFocusLost
    BY <1>1, <1>3, <1>4 DEF OverlayFrame, OverlayFinish, OverlayCancel, OverlaySettle,
       OverlayFocusGained
  <2>2. OverlayTakesLoss
    BY <1>1, <1>3, <1>4 DEF DismissInv, DismissalPending
  <2>3. visible /\ ~Animating /\ focusedSinceShow
    BY <1>1, <1>4, <2>2 DEF OverlayTakesLoss, DismissInv, FocusNoticed
  <2>4. ArmDismiss
    BY <2>1, <2>3 DEF OverlayFocusLost
  <2>5. QED BY <1>1, <2>3, <2>4, ArmedTimer DEF TypeInv, TypeOK, WindowTypeOK
<1>5. CASE ~active
  <2>1. owed
    BY <1>1, <1>3, <1>5
  <2>2. UNCHANGED timers
    BY <1>5 DEF OverlayFrame, OverlayFinish, OverlayCancel, OverlaySettle,
       OverlayFocusGained, OverlayFocusLost
  <2>3. QED BY <1>1, <2>1, <2>2 DEF DismissInv, DismissalPending
<1>6. QED BY <1>4, <1>5

LEMMA DismissStep ==
  ASSUME TypeInv, RestInv, DismissInv, [Next]_vars
  PROVE  DismissInv'
<1>1. CASE Show
  BY <1>1, ShowDismiss
<1>2. CASE HideWindow
  BY <1>2 DEF HideWindow, DismissInv, DismissalPending, FocusNoticed
<1>3. CASE LayerStep
  BY <1>3, LayerDismiss
<1>4. CASE OverlayStep
  BY <1>4, OverlayDismiss
<1>5. CASE FreezeStep \/ ProcessDies
  <2>1. backend = "gamescope" /\ UNCHANGED <<backend, owed>>
    BY <1>5, FreezeNextType DEF TypeInv, TypeOK, FreezeStep, FreezeAlone, ProcessDies,
       windowVars
  <2>2. QED BY <2>1 DEF DismissInv, DismissalPending, FocusNoticed
<1>6. ASSUME NEW k \in {"own", "old"}, TimerFires(k), ~HideWindow
      PROVE  DismissInv'
  <2>1. ~owed
    BY <1>6 DEF TimerFires, DismissInv, DismissalPending
  <2>2. UNCHANGED <<backend, visible, active, owed, overlayVars>>
    BY <1>6 DEF TimerFires
  <2>3. QED BY <2>1, <2>2 DEF DismissInv, DismissalPending, FocusNoticed, overlayVars
<1>7. CASE UNCHANGED vars
  BY <1>7 DEF vars, windowVars, overlayVars, DismissInv, DismissalPending, FocusNoticed
<1>8. QED BY <1>1, <1>2, <1>3, <1>4, <1>5, <1>6, <1>7 DEF Next, Hide

(* A dismissal that is due has a timer that will make it so: no show, no    *)
(* hide and no other timer leaves the drawer open and out of focus with     *)
(* nobody to close it.  That the timer fires in the end is                  *)
(* FocusLossDismisses, which TLC checks.                                    *)
THEOREM DismissalHasTimer == Spec => []DismissalPending
<1>1. Init => DismissInv
  BY DEF Init, DismissInv, DismissalPending, FocusNoticed
<1>2. TypeInv /\ RestInv /\ DismissInv /\ [Next]_vars => DismissInv'
  BY DismissStep
<1>3. DismissInv => DismissalPending
  BY DEF DismissInv
<1>4. QED BY <1>1, <1>2, <1>3, TypeCorrect, RestAlways, PTL DEF Spec
=============================================================================
