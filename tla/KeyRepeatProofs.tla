-------------------------- MODULE KeyRepeatProofs ---------------------------
(***************************************************************************)
(* Proofs about KeyRepeat, for any mix of keys and hats and any number of  *)
(* presses: a repeat belongs to a direction that is held, only the owner's *)
(* timer is ever armed, and the owner never loses its next tick.           *)
(***************************************************************************)
EXTENDS KeyRepeat, TLAPS

(* What the readLoop goroutine keeps: a hat reads as one of its own two     *)
(* directions, and the direction about to start repeating is held.          *)
ReadInv ==
  /\ \A x \in Axes : hat[x] \in Along(x) \cup {"centre"}
  /\ pc.at = "start" => pc.action \in Held
  /\ pc.at = "gone" => ~active

(* A tick of the current generation carries the owner's action.             *)
TickInv ==
  /\ \A m \in armed \cup ticks : m.gen <= gen
  /\ active => \A t \in ticks : t.gen = gen => t.action = action

IInv ==
  /\ ReadInv
  /\ TickInv
  /\ RepeatIsHeld
  /\ OnlyOwnerArmed
  /\ OwnerKeepsTicking

LEMMA TypeInit == Init => TypeOK
<1> SUFFICES ASSUME Init PROVE TypeOK
  OBVIOUS
<1>1. pc \in [at : {"read", "start", "gone"}, action : Dirs] /\ action \in Dirs
  BY DEF Init, Dirs
<1>2. hat \in [Axes -> Dirs \cup {"centre"}]
  BY DEF Init
<1>3. QED BY <1>1, <1>2 DEF Init, TypeOK

LEMMA TypeNext == TypeOK /\ [Next]_vars => TypeOK'
<1> SUFFICES ASSUME TypeOK, [Next]_vars PROVE TypeOK'
  OBVIOUS
<1>m. MaxGen \in Nat
  BY KeyRepeatAssumption
<1>s. ASSUME NEW only, StopRepeat(only)
      PROVE  /\ active' \in BOOLEAN /\ action' \in Dirs /\ gen' \in Nat
             /\ repeatTimer' \in Nat /\ armed' \subseteq Timer
  <2>1. CASE Stops(only)
    <3>1. Stop /\ armed' = Unfired /\ repeatTimer' = 0
      BY <1>s, <2>1 DEF StopRepeat
    <3>2. Unfired \subseteq armed
      BY DEF Unfired
    <3>3. gen' \in Nat
      BY <3>1 DEF Stop, TypeOK
    <3>4. active' \in BOOLEAN /\ action' \in Dirs /\ armed' \subseteq Timer
      BY <3>1, <3>2, Zenon DEF Stop, TypeOK
    <3>5. QED BY <3>1, <3>3, <3>4
  <2>2. CASE ~Stops(only)
    BY <1>s, <2>2 DEF TypeOK, StopRepeat, tracker
  <2>3. QED BY <2>1, <2>2
<1>1. ASSUME NEW a \in Dirs, ReadPress(a) PROVE TypeOK'
  <2>1. pressed' \subseteq Buttons /\ hat' \in [Axes -> Dirs \cup {"centre"}]
    BY <1>1, KeyRepeatAssumption DEF ReadPress, TypeOK
  <2>2. pc' \in [at : {"read", "start", "gone"}, action : Dirs]
    BY <1>1 DEF ReadPress
  <2>3. QED BY <1>1, <2>1, <2>2 DEF ReadPress, TypeOK, tracker
<1>2. ASSUME NEW a \in Dirs, ReadRelease(a) PROVE TypeOK'
  BY <1>2, <1>s DEF ReadRelease, TypeOK
<1>3. ASSUME NEW x \in Axes, ReadCentre(x) PROVE TypeOK'
  BY <1>3, <1>s DEF ReadCentre, TypeOK
<1>4. CASE StartRepeat
  <2>1. gen' \in Nat /\ pc.action \in Dirs
    BY <1>4 DEF StartRepeat, Start, TypeOK
  <2>2. [gen |-> gen', action |-> pc.action] \in Timer
    BY <2>1 DEF Timer
  <2>3. armed' \subseteq Timer
    BY <1>4, <2>2, Zenon DEF StartRepeat, Unfired, TypeOK
  <2>4. pc' \in [at : {"read", "start", "gone"}, action : Dirs]
    BY <1>4 DEF StartRepeat, TypeOK
  <2>5. QED BY <1>4, <2>1, <2>3, <2>4 DEF StartRepeat, Start, TypeOK
<1>5. CASE Disconnect
  <2>1. pc' \in [at : {"read", "start", "gone"}, action : Dirs]
    BY <1>5 DEF Disconnect, TypeOK
  <2>2. QED BY <1>5, <1>s, <2>1 DEF Disconnect, TypeOK, Axes
<1>6. ASSUME NEW m \in armed, Fire(m) PROVE TypeOK'
  <2>1. [gen |-> m.gen, action |-> m.action, at |-> "emit"] \in Tick
    BY DEF TypeOK, Timer, Tick
  <2>2. ticks' \subseteq Tick
    BY <1>6, <2>1, Zenon DEF Fire, TypeOK
  <2>3. armed' \subseteq Timer
    BY <1>6 DEF Fire, TypeOK
  <2>4. QED BY <1>6, <2>2, <2>3 DEF Fire, TypeOK, tracker
<1>7. ASSUME NEW t \in ticks, TickEmit(t) PROVE TypeOK'
  <2>1. [t EXCEPT !.at = "lock"] \in Tick
    BY DEF TypeOK, Tick
  <2>2. ticks' \subseteq Tick
    BY <1>7, <2>1, Zenon DEF TickEmit, TypeOK
  <2>3. QED BY <1>7, <2>2 DEF TickEmit, TypeOK, tracker
<1>8. ASSUME NEW t \in ticks, TickReArm(t) PROVE TypeOK'
  <2>1. t.gen \in Nat /\ [gen |-> t.gen, action |-> t.action] \in Timer
    BY DEF TypeOK, Tick, Timer
  <2>2. armed' \subseteq Timer /\ repeatTimer' \in Nat
    BY <1>8, <2>1, Zenon DEF TickReArm, TypeOK
  <2>3. ticks' \subseteq Tick
    BY <1>8 DEF TickReArm, TypeOK
  <2>4. QED BY <1>8, <2>2, <2>3 DEF TickReArm, TypeOK, tracker
<1>9. CASE UNCHANGED vars
  BY <1>9 DEF vars, tracker, TypeOK
<1>10. QED
  BY <1>1, <1>2, <1>3, <1>4, <1>5, <1>6, <1>7, <1>8, <1>9
     DEF Next, ReadLoop, TimerStep

(* Every variable of the repeat keeps its type.                             *)
THEOREM TypeCorrect == Spec => []TypeOK
  BY TypeInit, TypeNext, PTL DEF Spec

-----------------------------------------------------------------------------
LEMMA IInit == Init => IInv
<1> SUFFICES ASSUME Init PROVE IInv
  OBVIOUS
<1>1. ReadInv
  BY DEF Init, ReadInv
<1>2. TickInv /\ RepeatIsHeld /\ OnlyOwnerArmed /\ OwnerKeepsTicking
  BY DEF Init, TickInv, RepeatIsHeld, OnlyOwnerArmed, OwnerKeepsTicking
<1>3. QED BY <1>1, <1>2 DEF IInv

(* No timer is armed but the one repeatTimer points at, so stopping that    *)
(* one leaves none.                                                         *)
LEMMA NoneUnfired == OnlyOwnerArmed => Unfired = {}
<1> SUFFICES ASSUME OnlyOwnerArmed, NEW m \in Unfired PROVE FALSE
  OBVIOUS
<1>1. m \in armed /\ m.gen # repeatTimer
  BY DEF Unfired
<1>2. m = [gen |-> gen, action |-> action] /\ repeatTimer = gen
  BY <1>1 DEF OnlyOwnerArmed
<1>3. QED BY <1>1, <1>2

(* stopRepeat leaves a repeat only to an owner it was not asked to stop.    *)
LEMMA StopRepeatInv ==
  ASSUME TypeOK, IInv, NEW only, StopRepeat(only), UNCHANGED ticks
  PROVE  /\ TickInv' /\ OnlyOwnerArmed' /\ OwnerKeepsTicking'
         /\ armed' # {} => active'
         /\ active' => active /\ action' = action /\ action \notin only
<1>t. gen \in Nat /\ \A m \in armed \cup ticks : m.gen \in Nat
  BY DEF TypeOK, Timer, Tick
<1>1. CASE Stops(only)
  <2>1. /\ ~active' /\ gen' = gen + 1 /\ armed' = {} /\ UNCHANGED ticks
    BY <1>1, NoneUnfired DEF StopRepeat, Stop, IInv
  <2>2. TickInv'
    BY <2>1, <1>t DEF TickInv, IInv
  <2>3. QED BY <2>1, <2>2 DEF OnlyOwnerArmed, OwnerKeepsTicking
<1>2. CASE ~Stops(only)
  <2>1. UNCHANGED <<active, action, gen, armed, repeatTimer, ticks>>
    BY <1>2 DEF StopRepeat, tracker
  <2>2. active => action \notin only
    BY <1>2 DEF Stops
  <2>3. QED
    BY <2>1, <2>2
       DEF IInv, TickInv, OnlyOwnerArmed, OwnerKeepsTicking, RepeatIsHeld
<1>3. QED BY <1>1, <1>2

LEMMA INext == TypeOK /\ IInv /\ [Next]_vars => IInv'
<1> SUFFICES ASSUME TypeOK, IInv, [Next]_vars PROVE IInv'
  OBVIOUS
<1>t. /\ gen \in Nat /\ \A m \in armed \cup ticks : m.gen \in Nat
      /\ pressed \subseteq Dirs /\ hat \in [Axes -> Dirs \cup {"centre"}]
      /\ Hats \subseteq Axes
  BY KeyRepeatAssumption DEF TypeOK, Timer, Tick
<1>u. ASSUME UNCHANGED <<tracker, repeatTimer, armed, ticks>>
      PROVE  TickInv' /\ OnlyOwnerArmed' /\ OwnerKeepsTicking'
  BY <1>u DEF IInv, TickInv, OnlyOwnerArmed, OwnerKeepsTicking, tracker
<1>r. ASSUME UNCHANGED <<tracker, pc, pressed, hat>>
      PROVE  ReadInv'
  BY <1>r DEF IInv, ReadInv, Held, tracker
<1>1. ASSUME NEW a \in Dirs, ReadPress(a) PROVE IInv'
  <2>1. /\ UNCHANGED <<tracker, repeatTimer, armed, ticks>>
        /\ pc' = [at |-> "start", action |-> a] /\ pc.at = "read"
    BY <1>1 DEF ReadPress
  <2>2. a \in Held' /\ \A x \in Axes : hat'[x] \in Along(x) \cup {"centre"}
    <3>1. CASE a \in Buttons \ pressed /\ pressed' = pressed \cup {a} /\ UNCHANGED hat
      BY <3>1 DEF Held, IInv, ReadInv
    <3>2. ASSUME NEW x \in Hats, a \in Along(x), hat' = [hat EXCEPT ![x] = a],
                 UNCHANGED pressed
          PROVE  a \in Held' /\ \A y \in Axes : hat'[y] \in Along(y) \cup {"centre"}
      <4>1. hat'[x] = a
        BY <3>2, <1>t
      <4>2. ASSUME NEW y \in Axes PROVE hat'[y] \in Along(y) \cup {"centre"}
        BY <3>2, <1>t DEF IInv, ReadInv
      <4>3. QED BY <4>1, <4>2 DEF Held
    <3>3. QED BY <1>1, <3>1, <3>2 DEF ReadPress
  <2>3. ReadInv' /\ RepeatIsHeld'
    BY <2>1, <2>2 DEF IInv, ReadInv, RepeatIsHeld, tracker
  <2>4. QED BY <2>1, <2>3, <1>u DEF IInv
<1>2. ASSUME NEW a \in Dirs, ReadRelease(a) PROVE IInv'
  <2>1. /\ pc.at = "read" /\ UNCHANGED <<pc, hat, ticks>>
        /\ pressed' = pressed \ {a} /\ StopRepeat({a})
    BY <1>2 DEF ReadRelease
  <2>2. /\ TickInv' /\ OnlyOwnerArmed' /\ OwnerKeepsTicking'
        /\ armed' # {} => active'
        /\ active' => active /\ action' = action /\ action \notin {a}
    BY <2>1, StopRepeatInv
  <2>3. active' => action' \in Held'
    <3>1. active => action \in Held
      BY <2>1 DEF IInv, RepeatIsHeld
    <3>2. QED BY <2>1, <2>2, <3>1 DEF Held
  <2>4. ReadInv'
    BY <2>1, <2>2 DEF IInv, ReadInv
  <2>5. QED BY <2>2, <2>3, <2>4 DEF IInv, RepeatIsHeld
<1>3. ASSUME NEW x \in Axes, ReadCentre(x) PROVE IInv'
  <2>1. /\ pc.at = "read" /\ UNCHANGED <<pc, pressed, ticks>>
        /\ hat' = [hat EXCEPT ![x] = "centre"] /\ StopRepeat(Along(x))
    BY <1>3 DEF ReadCentre
  <2>2. /\ TickInv' /\ OnlyOwnerArmed' /\ OwnerKeepsTicking'
        /\ armed' # {} => active'
        /\ active' => active /\ action' = action /\ action \notin Along(x)
    BY <2>1, StopRepeatInv
  <2>3. active' => action' \in Held'
    <3> SUFFICES ASSUME active' PROVE action \in Held'
      BY <2>2
    <3>1. action \in Held /\ action \notin Along(x) /\ action # "centre"
      BY <2>1, <2>2 DEF IInv, RepeatIsHeld, TypeOK, Dirs
    <3>2. CASE action \in pressed
      BY <3>2, <2>1 DEF Held
    <3>3. ASSUME NEW y \in Hats, action = hat[y] PROVE action \in Held'
      <4>1. y # x
        BY <3>1, <3>3, <1>t DEF IInv, ReadInv
      <4>2. hat'[y] = hat[y]
        BY <2>1, <4>1, <1>t
      <4>3. QED BY <3>3, <4>2 DEF Held
    <3>4. QED BY <3>1, <3>2, <3>3 DEF Held
  <2>4. \A y \in Axes : hat'[y] \in Along(y) \cup {"centre"}
    BY <2>1, <1>t DEF IInv, ReadInv
  <2>5. ReadInv'
    BY <2>1, <2>2, <2>4 DEF IInv, ReadInv
  <2>6. QED BY <2>2, <2>3, <2>5 DEF IInv, RepeatIsHeld
<1>4. CASE StartRepeat
  <2> DEFINE n == [gen |-> gen', action |-> pc.action]
  <2>1. /\ pc.at = "start" /\ active' = TRUE /\ action' = pc.action
        /\ gen' = gen + 1 /\ repeatTimer' = gen'
        /\ pc' = [pc EXCEPT !.at = "read"]
        /\ UNCHANGED <<ticks, pressed, hat>>
    BY <1>4 DEF StartRepeat, Start
  <2>2. armed' = {n}
    BY <1>4, NoneUnfired DEF StartRepeat, IInv
  <2>3. n = [gen |-> gen', action |-> action']
    BY <2>1
  <2>4. OnlyOwnerArmed'
    BY <2>1, <2>2, <2>3 DEF OnlyOwnerArmed
  <2>5. n.gen = gen' /\ n.action = action'
    BY <2>1
  <2> HIDE DEF n
  <2>6. OwnerKeepsTicking'
    BY <2>2, <2>5 DEF OwnerKeepsTicking
  <2>7. TickInv'
    <3>1. \A t \in ticks : t.gen <= gen /\ t.gen \in Nat
      BY <1>t DEF IInv, TickInv
    <3>2. \A t \in ticks : t.gen <= gen' /\ t.gen # gen'
      BY <3>1, <2>1, <1>t
    <3>3. \A m \in armed' : m.gen <= gen'
      BY <2>1, <2>2, <2>5, <1>t
    <3>4. QED BY <2>1, <3>2, <3>3 DEF TickInv
  <2>8. RepeatIsHeld'
    BY <2>1 DEF IInv, ReadInv, RepeatIsHeld, Held
  <2>9. ReadInv'
    <3>1. pc'.at = "read"
      BY <2>1 DEF TypeOK
    <3>2. QED BY <2>1, <3>1 DEF IInv, ReadInv
  <2>10. QED BY <2>4, <2>6, <2>7, <2>8, <2>9 DEF IInv
<1>5. CASE Disconnect
  <2>1. /\ pc.at = "read" /\ pc' = [pc EXCEPT !.at = "gone"]
        /\ hat' = [x \in Axes |-> "centre"] /\ StopRepeat(Dirs)
        /\ UNCHANGED ticks
    BY <1>5 DEF Disconnect
  <2>2. /\ TickInv' /\ OnlyOwnerArmed' /\ OwnerKeepsTicking'
        /\ armed' # {} => active'
        /\ active' => active /\ action' = action /\ action \notin Dirs
    BY <2>1, StopRepeatInv
  <2>3. ~active'
    BY <2>2 DEF TypeOK
  <2>4. pc'.at = "gone" /\ \A x \in Axes : hat'[x] = "centre"
    BY <2>1 DEF TypeOK
  <2>5. ReadInv'
    BY <2>3, <2>4 DEF ReadInv
  <2>6. QED BY <2>2, <2>3, <2>5 DEF IInv, RepeatIsHeld
<1>6. ASSUME NEW m \in armed, Fire(m) PROVE IInv'
  <2> DEFINE n == [gen |-> m.gen, action |-> m.action, at |-> "emit"]
  <2>1. /\ armed' = armed \ {m} /\ ticks' = ticks \cup {n}
        /\ UNCHANGED <<tracker, repeatTimer, pc, pressed, hat>>
    BY <1>6 DEF Fire
  <2>2. n.gen = m.gen /\ n.action = m.action
    OBVIOUS
  <2>3. m.gen = gen /\ m.action = action
    BY DEF IInv, OnlyOwnerArmed
  <2> HIDE DEF n
  <2>4. TickInv'
    BY <2>1, <2>2, <2>3, <1>t DEF IInv, TickInv, tracker
  <2>5. OnlyOwnerArmed'
    BY <2>1 DEF IInv, OnlyOwnerArmed, tracker
  <2>6. OwnerKeepsTicking'
    BY <2>1, <2>2, <2>3 DEF OwnerKeepsTicking, tracker
  <2>7. RepeatIsHeld'
    BY <2>1 DEF IInv, RepeatIsHeld, Held, tracker
  <2>8. QED BY <2>1, <2>4, <2>5, <2>6, <2>7, <1>r DEF IInv
<1>7. ASSUME NEW t \in ticks, TickEmit(t) PROVE IInv'
  <2> DEFINE n == [t EXCEPT !.at = "lock"]
  <2>1. /\ ticks' = (ticks \ {t}) \cup {n}
        /\ UNCHANGED <<tracker, repeatTimer, armed, pc, pressed, hat>>
    BY <1>7 DEF TickEmit
  <2>2. n.gen = t.gen /\ n.action = t.action
    BY DEF TypeOK, Tick
  <2> HIDE DEF n
  <2>3. TickInv'
    BY <2>1, <2>2 DEF IInv, TickInv, tracker
  <2>4. OwnerKeepsTicking'
    BY <2>1, <2>2 DEF IInv, OwnerKeepsTicking, tracker
  <2>5. OnlyOwnerArmed' /\ RepeatIsHeld'
    BY <2>1 DEF IInv, OnlyOwnerArmed, RepeatIsHeld, Held, tracker
  <2>6. QED BY <2>1, <2>3, <2>4, <2>5, <1>r DEF IInv
<1>8. ASSUME NEW t \in ticks, TickReArm(t) PROVE IInv'
  <2>1. /\ ticks' = ticks \ {t}
        /\ UNCHANGED <<tracker, pc, pressed, hat>>
    BY <1>8 DEF TickReArm
  <2>2. CASE ReArm(t.gen)
    <3> DEFINE n == [gen |-> t.gen, action |-> t.action]
    <3>1. armed' = armed \cup {n} /\ repeatTimer' = t.gen
      BY <1>8, <2>2 DEF TickReArm
    <3>2. active /\ t.gen = gen /\ t.action = action
      BY <2>2 DEF ReArm, IInv, TickInv
    <3>3. n = [gen |-> gen, action |-> action]
      BY <3>2
    <3>4. n.gen = gen /\ n.action = action
      BY <3>3
    <3>5. OnlyOwnerArmed'
      BY <2>1, <3>1, <3>2, <3>3 DEF IInv, OnlyOwnerArmed, tracker
    <3> HIDE DEF n
    <3>6. TickInv'
      BY <2>1, <3>1, <3>4, <1>t DEF IInv, TickInv, tracker
    <3>7. OwnerKeepsTicking'
      BY <2>1, <3>1, <3>4 DEF OwnerKeepsTicking, tracker
    <3>8. RepeatIsHeld'
      BY <2>1, <3>2 DEF IInv, RepeatIsHeld, Held, tracker
    <3>9. QED BY <2>1, <3>5, <3>6, <3>7, <3>8, <1>r DEF IInv
  <2>3. CASE ~ReArm(t.gen)
    <3>1. UNCHANGED <<armed, repeatTimer>>
      BY <1>8, <2>3 DEF TickReArm
    <3>2. active => t.gen # gen
      BY <2>3 DEF ReArm
    <3>3. TickInv' /\ OnlyOwnerArmed' /\ RepeatIsHeld'
      BY <2>1, <3>1 DEF IInv, TickInv, OnlyOwnerArmed, RepeatIsHeld, Held, tracker
    <3>4. OwnerKeepsTicking'
      BY <2>1, <3>1, <3>2 DEF IInv, OwnerKeepsTicking, tracker
    <3>5. QED BY <2>1, <3>3, <3>4, <1>r DEF IInv
  <2>4. QED BY <2>2, <2>3
<1>9. CASE UNCHANGED vars
  BY <1>9, <1>u, <1>r DEF vars, IInv, RepeatIsHeld, Held, tracker
<1>10. QED
  BY <1>1, <1>2, <1>3, <1>4, <1>5, <1>6, <1>7, <1>8, <1>9
     DEF Next, ReadLoop, TimerStep

(* No direction repeats that the user is not holding, whatever the order in *)
(* which presses, releases and ticks of old timers run.                     *)
THEOREM RepeatHeld == Spec => []RepeatIsHeld
<1>1. Spec => []IInv
  BY TypeCorrect, IInit, INext, PTL DEF Spec
<1>2. IInv => RepeatIsHeld
  BY DEF IInv
<1>3. QED BY <1>1, <1>2, PTL

(* The only timer ever armed is the owner's, and the owner always has its   *)
(* next tick armed or running.                                              *)
THEOREM OneTimer == Spec => [](OnlyOwnerArmed /\ OwnerKeepsTicking)
<1>1. Spec => []IInv
  BY TypeCorrect, IInit, INext, PTL DEF Spec
<1>2. IInv => OnlyOwnerArmed /\ OwnerKeepsTicking
  BY DEF IInv
<1>3. QED BY <1>1, <1>2, PTL
=============================================================================
