----------------------------- MODULE KeyRepeat ------------------------------
(***************************************************************************)
(* Auto-repeat of a held D-pad direction, for one controller               *)
(* (internal/keyrepeat, and the timers of readLoop in gamepad.go).         *)
(*                                                                         *)
(* The device's readLoop goroutine reads presses and releases; every       *)
(* time.AfterFunc callback is a goroutine of its own, which emits without  *)
(* holding repeatMu and only then asks the Tracker whether to re-arm.      *)
(* time.Timer.Stop does not reach a callback that has already fired, so    *)
(* ticks of an old direction can still be running when a new one starts.   *)
(***************************************************************************)
EXTENDS Naturals, FiniteSets

CONSTANTS
  Buttons,   \* directions this controller reports as BTN_DPAD_* keys
  Hats,      \* axes ("vertical", "horizontal") it reports as ABS_HAT0*
  MaxGen     \* bound on Tracker.gen

Dirs == {"up", "down", "left", "right"}
Axes == {"vertical", "horizontal"}
Along(axis) == IF axis = "vertical" THEN {"up", "down"} ELSE {"left", "right"}

ASSUME KeyRepeatAssumption ==
  Buttons \subseteq Dirs /\ Hats \subseteq Axes /\ MaxGen \in Nat

VARIABLES
  active, action, gen, \* Tracker
  repeatTimer, \* generation of the timer repeatTimer points at, 0 for nil
  armed,       \* timers that have not fired: the gen and action of their tick
  ticks,       \* tick goroutines that have fired and not finished
  pc,          \* readLoop: "read", "start" (before startRepeat), "gone"
  pressed,     \* direction keys down, by the events read so far
  hat          \* hat axes, by the events read so far: a direction or "centre"

tracker == <<active, action, gen>>
vars == <<tracker, repeatTimer, armed, ticks, pc, pressed, hat>>

Timer == [gen : Nat, action : Dirs]
Tick == [gen : Nat, action : Dirs, at : {"emit", "lock"}]

TypeOK ==
  /\ active \in BOOLEAN
  /\ action \in Dirs
  /\ gen \in Nat
  /\ repeatTimer \in Nat
  /\ armed \subseteq Timer
  /\ ticks \subseteq Tick
  /\ pc \in [at : {"read", "start", "gone"}, action : Dirs]
  /\ pressed \subseteq Buttons
  /\ hat \in [Axes -> Dirs \cup {"centre"}]

Init ==
  /\ active = FALSE /\ action = "up" /\ gen = 0
  /\ repeatTimer = 0
  /\ armed = {}
  /\ ticks = {}
  /\ pc = [at |-> "read", action |-> "up"]
  /\ pressed = {}
  /\ hat = [x \in Axes |-> "centre"]

-----------------------------------------------------------------------------
(* Tracker.                                                                 *)
Start(a) == active' = TRUE /\ action' = a /\ gen' = gen + 1
(* Mutant: any tick may re-arm while something repeats.                     *)
BugReArmAnyOwner(g) == active

ReArm(g) == active /\ g = gen
Stops(only) == active /\ action \in only
(* Mutant: stopping forgets which direction repeated.                       *)
BugStopClears == active' = FALSE /\ gen' = gen + 1 /\ action' = "none"

Stop == active' = FALSE /\ gen' = gen + 1 /\ UNCHANGED action

(* repeatTimer.Stop(): a timer that has fired, or nil, is left alone.       *)
Unfired == {m \in armed : m.gen # repeatTimer}

(* Mutant: the timer is stopped whoever owns it.                            *)
BugStopAnyTimer(only) ==
  /\ IF Stops(only) THEN Stop ELSE UNCHANGED tracker
  /\ armed' = Unfired
  /\ repeatTimer' = 0

(* stopRepeat(only...), Dirs standing for the call without arguments.       *)
StopRepeat(only) ==
  IF Stops(only)
    THEN /\ Stop
         /\ armed' = Unfired
         /\ repeatTimer' = 0
    ELSE UNCHANGED <<tracker, armed, repeatTimer>>

-----------------------------------------------------------------------------
(* readLoop.                                                                *)

(* A direction goes down (a key, or a hat that moves off centre or across): *)
(* it is emitted at once, before startRepeat takes repeatMu.                *)
ReadPress(a) ==
  /\ pc.at = "read"
  /\ \/ a \in Buttons \ pressed /\ pressed' = pressed \cup {a} /\ UNCHANGED hat
     \/ \E x \in Hats : /\ a \in Along(x)
                        /\ hat[x] # a
                        /\ hat' = [hat EXCEPT ![x] = a]
                        /\ UNCHANGED pressed
  /\ pc' = [at |-> "start", action |-> a]
  /\ UNCHANGED <<tracker, repeatTimer, armed, ticks>>

(* startRepeat: the old timer is stopped, the new one quotes the generation *)
(* Start returned.                                                          *)
StartRepeat ==
  /\ pc.at = "start"
  /\ gen < MaxGen
  /\ Start(pc.action)
  /\ armed' = Unfired \cup {[gen |-> gen', action |-> pc.action]}
  /\ repeatTimer' = gen'
  /\ pc' = [pc EXCEPT !.at = "read"]
  /\ UNCHANGED <<ticks, pressed, hat>>

(* A key goes up: only its own repeat stops.                                *)
ReadRelease(a) ==
  /\ pc.at = "read"
  /\ a \in pressed
  /\ pressed' = pressed \ {a}
  /\ StopRepeat({a})
  /\ UNCHANGED <<ticks, pc, hat>>

(* A hat axis returns to centre: either direction of that axis stops.       *)
ReadCentre(x) ==
  /\ pc.at = "read"
  /\ x \in Hats /\ hat[x] # "centre"
  /\ hat' = [hat EXCEPT ![x] = "centre"]
  /\ StopRepeat(Along(x))
  /\ UNCHANGED <<ticks, pc, pressed>>

(* Mutant: no deferred stopRepeat.                                          *)
BugDisconnectRepeats ==
  /\ pc.at = "read"
  /\ pc' = [pc EXCEPT !.at = "gone"]
  /\ pressed' = {}
  /\ hat' = [x \in Axes |-> "centre"]
  /\ UNCHANGED <<tracker, armed, repeatTimer, ticks>>

(* ReadOne fails or the reader stops: the deferred stopRepeat.              *)
Disconnect ==
  /\ pc.at = "read"
  /\ pc' = [pc EXCEPT !.at = "gone"]
  /\ pressed' = {}
  /\ hat' = [x \in Axes |-> "centre"]
  /\ StopRepeat(Dirs)
  /\ UNCHANGED ticks

-----------------------------------------------------------------------------
(* The timers.                                                              *)

(* A timer expires: its callback runs on a goroutine of its own.            *)
Fire(m) ==
  /\ m \in armed
  /\ armed' = armed \ {m}
  /\ ticks' = ticks \cup {[gen |-> m.gen, action |-> m.action, at |-> "emit"]}
  /\ UNCHANGED <<tracker, repeatTimer, pc, pressed, hat>>

TickEmit(t) ==
  /\ t \in ticks
  /\ t.at = "emit"
  /\ ticks' = (ticks \ {t}) \cup {[t EXCEPT !.at = "lock"]}
  /\ UNCHANGED <<tracker, repeatTimer, armed, pc, pressed, hat>>

TickReArm(t) ==
  /\ t \in ticks
  /\ t.at = "lock"
  /\ ticks' = ticks \ {t}
  /\ IF ReArm(t.gen)
       THEN /\ armed' = armed \cup {[gen |-> t.gen, action |-> t.action]}
            /\ repeatTimer' = t.gen
       ELSE UNCHANGED <<armed, repeatTimer>>
  /\ UNCHANGED <<tracker, pc, pressed, hat>>

ReadLoop ==
  \/ \E a \in Dirs : ReadPress(a) \/ ReadRelease(a)
  \/ \E x \in Axes : ReadCentre(x)
  \/ StartRepeat
  \/ Disconnect

(* One step of the timer, or of the tick, of generation g.                  *)
TimerStep(g) ==
  \/ \E m \in armed : m.gen = g /\ Fire(m)
  \/ \E t \in ticks : t.gen = g /\ (TickEmit(t) \/ TickReArm(t))

Next == ReadLoop \/ \E g \in 1..MaxGen : TimerStep(g)

Spec == Init /\ [][Next]_vars

(* The Go runtime fires expired timers and runs their goroutines.  The user *)
(* need not press or release anything.                                      *)
FairSpec == Spec /\ \A g \in 1..MaxGen : WF_vars(TimerStep(g))

-----------------------------------------------------------------------------
(* The directions the user is holding.                                      *)
Held == pressed \cup {hat[x] : x \in Hats}

(* Nothing repeats that is not held: "a direction that repeats forever with *)
(* nothing held" (keyrepeat.go:11) needs an owner, or an armed timer, that  *)
(* no control keeps down.  (A hat that crosses over leaves the old owner in *)
(* place until startRepeat has the lock.)                                   *)
RepeatIsHeld ==
  /\ active => action \in Held \/ pc.at = "start"
  /\ armed # {} => active

(* At most one timer is armed, it belongs to the present owner, and         *)
(* repeatTimer points at it: a tick of an older direction that was in       *)
(* flight cannot have re-armed itself or overwritten the new timer.         *)
OnlyOwnerArmed ==
  /\ armed \subseteq {[gen |-> gen, action |-> action]}
  /\ armed # {} => repeatTimer = gen

(* The owner's repeat is never lost: its next tick is armed or running.     *)
OwnerKeepsTicking ==
  active => \E m \in armed \cup ticks : m.gen = gen /\ m.action = action

(* A direction that stays the owner goes on repeating.                      *)
OwnerRepeatsForever ==
  <>[]active => []<>(\E t \in ticks : t.gen = gen)
=============================================================================
