-------------------------- MODULE StateSyncProofs ---------------------------
(***************************************************************************)
(* Proofs about StateSync, for any number of opens, saves, changes and     *)
(* restarts of the daemon: the types, the telemetry poll's busy flag, the  *)
(* error bar, and that the widgets end up with what the daemon has.        *)
(*                                                                         *)
(* The inductive invariant for the flag, BusyInv, says where its one       *)
(* request is: with a goroutine of the poll, or as a reply in the idle     *)
(* queue.  TypeInv adds to the types that a poll's goroutine only ever     *)
(* reads and posts, so no other step can lose the request.                 *)
(*                                                                         *)
(* PollInstalled adds that an open drawer's own timeout is in place.       *)
(*                                                                         *)
(* For the widgets SyncInv says that while the drawer is open and nothing  *)
(* has gone wrong, either somebody has yet to ask the daemon, or all the   *)
(* answers under way are what the daemon has and the last word on the      *)
(* widgets is one of them.  It needs the state that a poll leaves behind,  *)
(* which a newly shown custom view is filled from.                         *)
(***************************************************************************)
EXTENDS StateSync, FiniteSetTheorems, TLAPS

USE StateSyncAssumption DEF StateSyncAssumption

PollReads ==
  \A t \in tasks : t.does = "poll" => t.at \in {"read", "post"} /\ t.id \in 1..MaxGen

TypeInv == TypeOK /\ PollReads

-----------------------------------------------------------------------------
(* Types.                                                                   *)

LEMMA CallbackType ==
  ASSUME NEW do \in {"sync", "refresh", "poll", "error", "clear"},
         NEW got \in Versions, NEW g \in 0..MaxGen
  PROVE  callback(do, got, g) \in Callback /\ Answer(do, got, g) \in Callback
BY DEF callback, Answer, Callback

LEMMA IdleAddType ==
  ASSUME idle \in Seq(Callback), NEW cb \in Callback, IdleAdd(cb)
  PROVE  idle' \in Seq(Callback)
BY DEF IdleAdd

LEMMA NewTaskType ==
  ASSUME tasks \subseteq Task, PollReads, NEW t \in Task,
         t.does = "poll" => t.at \in {"read", "post"} /\ t.id \in 1..MaxGen,
         tasks' = tasks \cup {t}
  PROVE  tasks' \subseteq Task /\ PollReads'
BY DEF PollReads

LEMMA MovedTaskType ==
  ASSUME tasks \subseteq Task, PollReads, NEW t \in tasks,
         NEW u \in Task, u.does = t.does, u.id = t.id,
         t.does = "poll" => u.at \in {"read", "post"},
         tasks' = (tasks \ {t}) \cup {u}
  PROVE  tasks' \subseteq Task /\ PollReads'
BY DEF PollReads

LEMMA StepType ==
  ASSUME tasks \subseteq Task, PollReads, NEW t \in tasks, t.does # "poll",
         NEW at \in {"write", "failed", "done", "read", "post"}, Step(t, at)
  PROVE  tasks' \subseteq Task /\ PollReads'
<1> DEFINE u == [t EXCEPT !.at = at]
<1>1. u \in Task /\ u.does = t.does /\ u.id = t.id
  BY DEF Task
<1>2. tasks' = (tasks \ {t}) \cup {u}
  BY DEF Step
<1> HIDE DEF u
<1>3. QED BY <1>1, <1>2, MovedTaskType

LEMMA ExcuseType ==
  ASSUME excuses \subseteq {"overlap", "missed", "failed"}, NEW got, Excuse(got)
  PROVE  excuses' \subseteq {"overlap", "missed", "failed"}
BY DEF Excuse

LEMMA GtkType ==
  ASSUME TypeInv,
         Toggle \/ Dismiss \/ ShowCustomView \/ Save \/ DismissError
  PROVE  TypeInv'
<1> USE DEF TypeInv, TypeOK, poll, shown, world
<1>1. CASE Toggle
  <2> USE DEF Toggle
  <2>1. telemetryGen' = telemetryGen + 1 /\ telemetryGen' \in 1..MaxGen
    BY <1>1 DEF show, hide
  <2>2. toggles' \in 0..1
    <3>1. toggles > 0 /\ toggles' = toggles - 1
      BY <1>1
    <3>2. QED BY <3>1
  <2>3. CASE visible
    <3>1. hide /\ UNCHANGED <<tasks, excuses>>
      BY <1>1, <2>3
    <3>2. PollReads' /\ tasks' \subseteq Task
      BY <3>1 DEF PollReads
    <3>3. {visible', errBar'} \subseteq BOOLEAN /\ UNCHANGED timers
      BY <3>1 DEF hide
    <3>4. QED BY <1>1, <2>1, <2>2, <3>1, <3>2, <3>3
  <2>4. CASE ~visible
    <3> DEFINE t == [does |-> "fetch", id |-> telemetryGen', at |-> "read", got |-> 0]
    <3>1. t \in Task /\ t.does = "fetch"
      BY <2>1 DEF Task, Versions
    <3>2. tasks' = tasks \cup {t} /\ show
      BY <1>1, <2>4
    <3> HIDE DEF t
    <3>3. tasks' \subseteq Task /\ PollReads'
      BY <3>1, <3>2, NewTaskType
    <3>4. excuses' \subseteq {"overlap", "missed", "failed"}
      BY <1>1, <2>4
    <3>5. visible' \in BOOLEAN /\ UNCHANGED errBar /\ timers' \subseteq 1..MaxGen
      BY <2>1, <3>2 DEF show
    <3>6. QED BY <1>1, <2>1, <2>2, <3>3, <3>4, <3>5
  <2>5. QED BY <2>3, <2>4
<1>2. CASE Dismiss
  <2>1. telemetryGen' = telemetryGen + 1 /\ telemetryGen' \in 0..MaxGen
    BY <1>2 DEF Dismiss, hide
  <2>2. {visible', errBar'} \subseteq BOOLEAN /\ UNCHANGED timers
    BY <1>2 DEF Dismiss, hide
  <2>3. PollReads' /\ tasks' \subseteq Task
    BY <1>2 DEF Dismiss, PollReads
  <2>4. QED BY <1>2, <2>1, <2>2, <2>3 DEF Dismiss
<1>3. CASE ShowCustomView
  BY <1>3 DEF ShowCustomView, PollReads
<1>4. CASE Save
  <2> DEFINE t == [does |-> "save", id |-> MaxGen + saves', at |-> "write", got |-> 0]
  <2>1. saves' \in 0..MaxSaves /\ MaxGen + saves' \in 0..(MaxGen + MaxSaves)
    BY <1>4 DEF Save
  <2>2. t \in Task /\ t.does = "save"
    BY <2>1 DEF Task, Versions
  <2>3. tasks' = tasks \cup {t}
    BY <1>4 DEF Save
  <2> HIDE DEF t
  <2>4. tasks' \subseteq Task /\ PollReads'
    BY <2>2, <2>3, NewTaskType
  <2>5. {state', widgets', daemon'} \subseteq Versions
    <3>1. widgets' \in {0, widgets} /\ UNCHANGED <<state, daemon>>
      BY <1>4 DEF Save
    <3>2. 0 \in Versions
      BY DEF Versions
    <3>3. QED BY <3>1, <3>2
  <2>6. QED BY <1>4, <2>1, <2>4, <2>5 DEF Save
<1>5. CASE DismissError
  BY <1>5 DEF DismissError, PollReads
<1>6. QED BY <1>1, <1>2, <1>3, <1>4, <1>5

LEMMA TickType ==
  ASSUME TypeInv, NEW g \in 1..MaxGen, TelemetryTick(g)
  PROVE  TypeInv'
<1> USE DEF TypeInv, TypeOK, shown, world, TelemetryTick
<1>1. CASE UNCHANGED tasks /\ UNCHANGED telemetryBusy /\ timers' = timers \ {g}
  BY <1>1 DEF PollReads
<1>2. CASE g = telemetryGen /\ visible /\ ~telemetryBusy
  <2> DEFINE t == [does |-> "poll", id |-> g, at |-> "read", got |-> 0]
  <2>1. t \in Task /\ t.at = "read" /\ t.id = g
    BY DEF Task, Versions
  <2>2. tasks' = tasks \cup {t} /\ telemetryBusy' = TRUE /\ UNCHANGED timers
    BY <1>2
  <2> HIDE DEF t
  <2>3. tasks' \subseteq Task /\ PollReads'
    BY <2>1, <2>2, NewTaskType
  <2>4. QED BY <2>2, <2>3
<1>3. QED BY <1>1, <1>2

LEMMA RunIdleType ==
  ASSUME TypeInv, RunIdle
  PROVE  TypeInv'
<1> USE DEF TypeInv, TypeOK, world
<1>1. Head(idle) \in Callback /\ idle' \in Seq(Callback)
  BY DEF RunIdle
<1>2. Head(idle).got \in Versions
  BY <1>1 DEF Callback
<1>3. errBar' \in BOOLEAN /\ telemetryBusy' \in BOOLEAN
      /\ {state', widgets'} \subseteq Versions
  <2>1. CASE RunSync(Head(idle))
    BY <1>2, <2>1 DEF RunSync
  <2>2. CASE RunPoll(Head(idle))
    BY <1>2, <2>2 DEF RunPoll
  <2>3. CASE RunReport(Head(idle))
    BY <2>3 DEF RunReport
  <2>4. CASE RunClear(Head(idle))
    BY <2>4 DEF RunClear
  <2>5. QED BY <2>1, <2>2, <2>3, <2>4 DEF RunIdle
<1>4. UNCHANGED <<visible, telemetryGen, timers, toggles, tasks, saves, sub, world, excuses>>
  BY DEF RunIdle
<1>5. QED BY <1>1, <1>3, <1>4 DEF PollReads

LEMMA TaskType ==
  ASSUME TypeInv, NEW t \in tasks, TaskStep(t)
  PROVE  TypeInv'
<1> USE DEF TypeInv, TypeOK, poll, shown, world
<1>1. t \in Task
  OBVIOUS
<1>2. CASE Write(t)
  <2>1. t.does # "poll"
    BY <1>2 DEF Write, PollReads
  <2>2. PICK applied \in BOOLEAN, err \in BOOLEAN :
          /\ applied \/ err
          /\ applied => up /\ daemon < MaxVersion
          /\ daemon' = IF applied THEN daemon + 1 ELSE daemon
          /\ UNCHANGED ch \/ (applied /\ Announce)
          /\ Step(t, IF err THEN "failed" ELSE "done")
          /\ excuses' = IF err THEN excuses \cup {"failed"} ELSE excuses
    BY <1>2 DEF Write
  <2>3. tasks' \subseteq Task /\ PollReads'
    BY <2>1, <2>2, StepType
  <2>4. daemon' \in Versions /\ excuses' \subseteq {"overlap", "missed", "failed"}
    BY <2>2 DEF Versions
  <2>5. ch' \in Seq({"toggle", "changed"})
    <3>1. ch' = ch \/ ch' = Append(ch, "changed")
      BY <2>2 DEF Announce
    <3>2. QED BY <3>1
  <2>6. UNCHANGED <<visible, poll, shown, toggles, idle, saves, sub, up, downs, streaming>>
    BY <1>2 DEF Write
  <2>7. QED BY <2>3, <2>4, <2>5, <2>6
<1>3. CASE WriteFailed(t)
  <2>1. t.does # "poll"
    BY <1>3 DEF WriteFailed, PollReads
  <2>2. tasks' \subseteq Task /\ PollReads'
    <3>1. CASE tasks' = tasks \ {t}
      BY <3>1 DEF PollReads
    <3>2. CASE Step(t, "read")
      BY <2>1, <3>2, StepType
    <3>3. QED BY <1>3, <3>1, <3>2 DEF WriteFailed
  <2>3. callback("error", 0, 0) \in Callback
    BY CallbackType DEF Versions
  <2>4. idle' \in Seq(Callback)
    BY <1>3, <2>3, IdleAddType DEF WriteFailed
  <2>5. QED BY <1>3, <2>2, <2>4 DEF WriteFailed
<1>4. CASE WriteDone(t)
  <2>1. t.does # "poll"
    BY <1>4 DEF WriteDone, PollReads
  <2>2. tasks' \subseteq Task /\ PollReads'
    BY <1>4, <2>1, StepType DEF WriteDone
  <2>3. callback("clear", 0, 0) \in Callback
    BY CallbackType DEF Versions
  <2>4. idle' \in Seq(Callback)
    BY <1>4, <2>3, IdleAddType DEF WriteDone
  <2>5. QED BY <1>4, <2>2, <2>4 DEF WriteDone
<1>5. CASE Read(t)
  <2>1. PICK got \in GetState :
          /\ tasks' = (tasks \ {t}) \cup {[t EXCEPT !.at = "post", !.got = got]}
          /\ IF t.does = "poll" THEN UNCHANGED excuses ELSE Excuse(got)
    BY <1>5 DEF Read
  <2> DEFINE u == [t EXCEPT !.at = "post", !.got = got]
  <2>2. got \in Versions
    BY DEF GetState, Versions
  <2>3. u \in Task /\ u.does = t.does /\ u.id = t.id /\ u.at = "post"
    BY <1>1, <2>2 DEF Task
  <2>4. tasks' = (tasks \ {t}) \cup {u}
    BY <2>1
  <2> HIDE DEF u
  <2>5. tasks' \subseteq Task /\ PollReads'
    BY <2>3, <2>4, MovedTaskType
  <2>6. excuses' \subseteq {"overlap", "missed", "failed"}
    BY <2>1, ExcuseType
  <2>7. QED BY <1>5, <2>5, <2>6 DEF Read
<1>6. CASE Post(t)
  <2>1. tasks' = tasks \ {t}
    BY <1>6 DEF Post
  <2>2. t.got \in Versions /\ t.does \in {"fetch", "save", "poll"}
        /\ (t.does = "poll" => t.id \in 0..MaxGen)
    BY <1>1 DEF Task, PollReads
  <2>3. idle' \in Seq(Callback)
    <3>1. CASE t.does = "fetch"
      <4>1. IdleAdd(Answer("sync", t.got, 0)) /\ Answer("sync", t.got, 0) \in Callback
        BY <1>6, <2>2, <3>1, CallbackType DEF Post
      <4>2. QED BY <4>1, IdleAddType
    <3>2. CASE t.does = "save"
      <4>1. IdleAdd(Answer("refresh", t.got, 0)) /\ Answer("refresh", t.got, 0) \in Callback
        BY <1>6, <2>2, <3>2, CallbackType DEF Post
      <4>2. QED BY <4>1, IdleAddType
    <3>3. CASE t.does = "poll"
      <4>1. IdleAdd(Answer("poll", t.got, t.id)) /\ Answer("poll", t.got, t.id) \in Callback
        BY <1>6, <2>2, <3>3, CallbackType DEF Post
      <4>2. QED BY <4>1, IdleAddType
    <3>4. QED BY <2>2, <3>1, <3>2, <3>3
  <2>4. QED BY <1>6, <2>1, <2>3 DEF Post, PollReads
<1>7. QED BY <1>2, <1>3, <1>4, <1>5, <1>6 DEF TaskStep

LEMMA SubscribeType ==
  ASSUME TypeInv, SubscribeStep
  PROVE  TypeInv'
<1> USE DEF TypeInv, TypeOK, poll, shown, world, PollReads
<1>1. CASE Connect
  BY <1>1 DEF Connect
<1>2. CASE TakeToggle
  BY <1>2 DEF TakeToggle
<1>3. CASE TakeChanged
  <2>1. PICK got \in GetState : sub' = [at |-> "post", got |-> got] /\ Excuse(got)
    BY <1>3 DEF TakeChanged
  <2>2. got \in Versions
    BY DEF GetState, Versions
  <2>3. excuses' \subseteq {"overlap", "missed", "failed"}
    BY <2>1, ExcuseType
  <2>4. ch' \in Seq({"toggle", "changed"})
    BY <1>3 DEF TakeChanged
  <2>5. QED BY <1>3, <2>1, <2>2, <2>3, <2>4 DEF TakeChanged
<1>4. CASE PostChanged
  <2>1. sub.got \in Versions
    OBVIOUS
  <2>2. Answer("refresh", sub.got, 0) \in Callback
    BY <2>1, CallbackType
  <2>3. idle' \in Seq(Callback)
    BY <1>4, <2>2, IdleAddType DEF PostChanged
  <2>4. sub' \in [at : {"connect", "listen", "post"}, got : Versions]
    BY <1>4 DEF PostChanged, Versions
  <2>5. QED BY <1>4, <2>3, <2>4 DEF PostChanged
<1>5. CASE StreamEnds
  BY <1>5 DEF StreamEnds
<1>6. QED BY <1>1, <1>2, <1>3, <1>4, <1>5 DEF SubscribeStep

LEMMA WorldType ==
  ASSUME TypeInv, Change \/ PressToggle \/ GoDown \/ ComeUp
  PROVE  TypeInv'
<1> USE DEF TypeInv, TypeOK, poll, shown, PollReads
<1>1. CASE Change
  <2>1. daemon' \in Versions
    BY <1>1 DEF Change, Versions
  <2>2. ch' \in Seq({"toggle", "changed"})
    BY <1>1 DEF Change, Announce
  <2>3. QED BY <1>1, <2>1, <2>2 DEF Change
<1>2. CASE PressToggle
  BY <1>2 DEF PressToggle
<1>3. CASE GoDown
  <2>1. downs' \in 0..MaxDowns
    <3>1. downs < MaxDowns /\ downs' = downs + 1
      BY <1>3 DEF GoDown
    <3>2. QED BY <3>1
  <2>2. {up', streaming'} \subseteq BOOLEAN
    BY <1>3 DEF GoDown
  <2>3. QED BY <1>3, <2>1, <2>2 DEF GoDown
<1>4. CASE ComeUp
  BY <1>4 DEF ComeUp
<1>5. QED BY <1>1, <1>2, <1>3, <1>4

(* Types, and the life of a poll's goroutine.                               *)
THEOREM TypeCorrect == Spec => []TypeInv
<1>1. Init => TypeInv
  <2> SUFFICES ASSUME Init PROVE TypeInv
    OBVIOUS
  <2> USE DEF Init
  <2>1. 0 \in Versions /\ 1 \in Versions
    BY DEF Versions
  <2>2. {visible, telemetryBusy, errBar, up, streaming} \subseteq BOOLEAN
    OBVIOUS
  <2>3. telemetryGen \in 0..MaxGen /\ saves \in 0..MaxSaves /\ downs \in 0..MaxDowns
    OBVIOUS
  <2>4. sub \in [at : {"connect", "listen", "post"}, got : Versions]
    BY <2>1
  <2>5. {state, widgets, daemon} \subseteq Versions
    BY <2>1
  <2>6. idle \in Seq(Callback) /\ ch \in Seq({"toggle", "changed"})
    OBVIOUS
  <2>7. tasks \subseteq Task /\ PollReads
    BY DEF PollReads
  <2>8. toggles \in 0..1
        /\ timers \subseteq 1..MaxGen /\ excuses \subseteq {"overlap", "missed", "failed"}
    OBVIOUS
  <2>9. QED BY <2>2, <2>3, <2>4, <2>5, <2>6, <2>7, <2>8 DEF TypeInv, TypeOK
<1>2. TypeInv /\ [Next]_vars => TypeInv'
  <2> SUFFICES ASSUME TypeInv, [Next]_vars PROVE TypeInv'
    OBVIOUS
  <2>1. CASE Toggle \/ Dismiss \/ ShowCustomView \/ Save \/ DismissError
    BY <2>1, GtkType
  <2>2. CASE RunIdle
    BY <2>2, RunIdleType
  <2>3. ASSUME NEW g \in 1..MaxGen, TelemetryTick(g) PROVE TypeInv'
    BY <2>3, TickType
  <2>4. ASSUME NEW does \in {"fetch", "save", "poll"}, NEW id \in 0..(MaxGen + MaxSaves),
               Goroutine(does, id)
        PROVE  TypeInv'
    BY <2>4, TaskType DEF Goroutine
  <2>5. CASE SubscribeStep
    BY <2>5, SubscribeType
  <2>6. CASE Change \/ PressToggle \/ GoDown \/ ComeUp
    BY <2>6, WorldType
  <2>7. CASE UNCHANGED vars
    BY <2>7 DEF vars, TypeInv, TypeOK, PollReads, poll, shown, world
  <2>8. QED BY <2>1, <2>2, <2>3, <2>4, <2>5, <2>6, <2>7 DEF Next
<1>3. QED BY <1>1, <1>2, PTL DEF Spec

-----------------------------------------------------------------------------
(* The busy flag.                                                           *)

BusyInv ==
  /\ ~telemetryBusy => Polls = {} /\ Replies = {}
  /\ telemetryBusy => \/ Replies = {} /\ \E t : Polls = {t}
                      \/ Polls = {} /\ \E i : Replies = {i}

(* What the idle queue's two operations do to the replies in it.            *)
LEMMA AppendReplies ==
  ASSUME idle \in Seq(Callback), NEW cb \in Callback, IdleAdd(cb)
  PROVE  Replies' = Replies \cup (IF cb.do = "poll" THEN {Len(idle) + 1} ELSE {})
<1>1. Len(idle') = Len(idle) + 1 /\ Len(idle) \in Nat
  BY DEF IdleAdd
<1>2. \A i \in 1..Len(idle) : idle'[i] = idle[i]
  BY DEF IdleAdd
<1>3. idle'[Len(idle) + 1] = cb
  BY DEF IdleAdd
<1>4. 1..Len(idle') = (1..Len(idle)) \cup {Len(idle) + 1}
  BY <1>1
<1>5. QED BY <1>2, <1>3, <1>4 DEF Replies

LEMMA TailReplies ==
  ASSUME idle \in Seq(Callback), idle # <<>>, idle' = Tail(idle)
  PROVE  \A i \in Nat \ {0} : i \in Replies' <=> i + 1 \in Replies
<1>1. Len(idle') = Len(idle) - 1 /\ Len(idle) \in Nat \ {0}
  OBVIOUS
<1>2. \A i \in 1..Len(idle') : idle'[i] = idle[i + 1]
  OBVIOUS
<1>3. QED BY <1>1, <1>2 DEF Replies

LEMMA SameBusy ==
  ASSUME BusyInv, Polls' = Polls, Replies' = Replies, UNCHANGED telemetryBusy
  PROVE  BusyInv'
BY DEF BusyInv

LEMMA BusyStep ==
  ASSUME TypeInv, BusyInv, [Next]_vars
  PROVE  BusyInv'
<1> USE DEF TypeInv, TypeOK
<1>1. ASSUME UNCHANGED <<telemetryBusy, tasks, idle>> PROVE BusyInv'
  BY <1>1, SameBusy DEF Polls, Replies
<1>2. ASSUME NEW t, t.does # "poll", tasks' = tasks \cup {t},
             UNCHANGED <<telemetryBusy, idle>>
      PROVE  BusyInv'
  BY <1>2, SameBusy DEF Polls, Replies
<1>3. CASE Toggle
  <2>1. CASE visible
    BY <1>1, <1>3, <2>1 DEF Toggle, show, hide
  <2>2. CASE ~visible
    BY <1>2, <1>3, <2>2 DEF Toggle, show, hide
  <2>3. QED BY <2>1, <2>2
<1>4. CASE Dismiss \/ ShowCustomView \/ DismissError
  BY <1>1, <1>4 DEF Dismiss, ShowCustomView, DismissError, poll, shown
<1>5. CASE Save
  BY <1>2, <1>5 DEF Save, poll
<1>6. CASE RunIdle
  <2>1. idle # <<>> /\ idle' = Tail(idle) /\ UNCHANGED tasks /\ Head(idle) \in Callback
    BY <1>6 DEF RunIdle
  <2>2. \A i \in Nat \ {0} : i \in Replies' <=> i + 1 \in Replies
    BY <2>1, TailReplies
  <2>3. Replies \subseteq Nat \ {0} /\ Replies' \subseteq Nat \ {0}
    BY <2>1 DEF Replies
  <2>4. 1 \in Replies <=> Head(idle).do = "poll"
    BY <2>1 DEF Replies
  <2>5. Polls' = Polls
    BY <2>1 DEF Polls
  <2>6. CASE Head(idle).do = "poll"
    <3>1. telemetryBusy /\ Polls = {} /\ Replies = {1}
      BY <2>4, <2>6 DEF BusyInv
    <3>2. Replies' = {}
      BY <2>2, <2>3, <3>1
    <3>3. telemetryBusy' = FALSE
      BY <1>6, <2>6 DEF RunIdle, RunPoll, RunSync, RunReport, RunClear
    <3>4. QED BY <2>5, <3>1, <3>2, <3>3 DEF BusyInv
  <2>7. CASE Head(idle).do # "poll"
    <3>1. telemetryBusy' = telemetryBusy
      BY <1>6, <2>7 DEF RunIdle, RunPoll, RunSync, RunReport, RunClear
    <3>2. Replies = {} => Replies' = {}
      BY <2>2, <2>3
    <3>3. ASSUME NEW i, Replies = {i} PROVE Replies' = {i - 1}
      <4>1. i \in Nat \ {0, 1}
        BY <2>3, <2>4, <2>7, <3>3
      <4>2. \A j \in Nat \ {0} : j \in Replies' <=> j + 1 = i
        BY <2>2, <3>3
      <4>3. \A j \in Nat \ {0} : j + 1 = i <=> j = i - 1
        BY <4>1
      <4>4. i - 1 \in Nat \ {0}
        BY <4>1
      <4>5. QED BY <2>3, <4>2, <4>3, <4>4
    <3>4. QED BY <2>5, <3>1, <3>2, <3>3 DEF BusyInv
  <2>8. QED BY <2>6, <2>7
<1>7. ASSUME NEW g \in 1..MaxGen, TelemetryTick(g) PROVE BusyInv'
  <2>1. CASE UNCHANGED <<telemetryBusy, tasks>>
    BY <1>1, <1>7, <2>1 DEF TelemetryTick
  <2>2. CASE ~telemetryBusy /\ telemetryBusy' = TRUE
    <3> DEFINE t == [does |-> "poll", id |-> g, at |-> "read", got |-> 0]
    <3>1. t.does = "poll" /\ tasks' = tasks \cup {t} /\ UNCHANGED idle
      BY <1>7, <2>2 DEF TelemetryTick
    <3> HIDE DEF t
    <3>2. Polls' = {t} /\ Replies' = {}
      BY <2>2, <3>1 DEF BusyInv, Polls, Replies
    <3>3. QED BY <2>2, <3>2 DEF BusyInv
  <2>3. QED BY <1>7, <2>1, <2>2 DEF TelemetryTick
<1>8. ASSUME NEW t \in tasks, TaskStep(t) PROVE BusyInv'
  <2>1. t \in Task /\ UNCHANGED telemetryBusy
    BY <1>8 DEF TaskStep, Write, WriteFailed, WriteDone, Read, Post, poll
  <2>2. CASE t.does # "poll"
    <3>1. Polls' = Polls
      <4>1. ASSUME NEW u, u.does = t.does, tasks' = (tasks \ {t}) \cup {u}
            PROVE  Polls' = Polls
        BY <2>2, <4>1 DEF Polls
      <4>2. ASSUME NEW at, Step(t, at) PROVE Polls' = Polls
        BY <2>1, <4>1, <4>2 DEF Step, Task
      <4>3. CASE Write(t) \/ WriteFailed(t) \/ WriteDone(t)
        <5>1. (\E at : Step(t, at)) \/ tasks' = tasks \ {t}
          BY <4>3 DEF Write, WriteFailed, WriteDone
        <5>2. QED BY <2>2, <4>2, <5>1 DEF Polls
      <4>4. CASE Read(t)
        <5>1. PICK got : tasks' = (tasks \ {t}) \cup {[t EXCEPT !.at = "post", !.got = got]}
          BY <4>4 DEF Read
        <5>2. [t EXCEPT !.at = "post", !.got = got].does = t.does
          BY <2>1 DEF Task
        <5>3. QED BY <4>1, <5>1, <5>2
      <4>5. CASE Post(t)
        BY <2>2, <4>5 DEF Post, Polls
      <4>6. QED BY <1>8, <4>3, <4>4, <4>5 DEF TaskStep
    <3>2. Replies' = Replies
      <4>1. ASSUME NEW cb \in Callback, cb.do # "poll", IdleAdd(cb)
            PROVE  Replies' = Replies
        BY <4>1, AppendReplies
      <4>2. CASE UNCHANGED idle
        BY <4>2 DEF Replies
      <4>3. CASE WriteFailed(t) \/ WriteDone(t)
        <5>1. \E do \in {"error", "clear"} : IdleAdd(callback(do, 0, 0))
          BY <4>3 DEF WriteFailed, WriteDone
        <5>2. PICK do \in {"error", "clear"} : IdleAdd(callback(do, 0, 0))
          BY <5>1
        <5>3. callback(do, 0, 0) \in Callback /\ callback(do, 0, 0).do # "poll"
          BY DEF callback, Callback, Versions
        <5>4. QED BY <4>1, <5>2, <5>3
      <4>4. CASE Post(t)
        <5>1. t.got \in Versions /\ t.does \in {"fetch", "save"}
          BY <2>1, <2>2 DEF Task
        <5>2. \E do \in {"sync", "refresh"} : IdleAdd(Answer(do, t.got, 0))
          BY <4>4, <5>1 DEF Post
        <5>3. PICK do \in {"sync", "refresh"} : IdleAdd(Answer(do, t.got, 0))
          BY <5>2
        <5>4. Answer(do, t.got, 0) \in Callback /\ Answer(do, t.got, 0).do # "poll"
          BY <5>1 DEF Answer, callback, Callback
        <5>5. QED BY <4>1, <5>3, <5>4
      <4>5. QED BY <1>8, <4>2, <4>3, <4>4 DEF TaskStep, Write, Read
    <3>3. QED BY <2>1, <3>1, <3>2, SameBusy
  <2>3. CASE t.does = "poll"
    <3>1. t \in Polls /\ t.at \in {"read", "post"}
      BY <2>3 DEF Polls, PollReads
    <3>2. telemetryBusy /\ Replies = {} /\ Polls = {t}
      BY <3>1 DEF BusyInv
    <3>3. CASE Read(t)
      <4>1. PICK got : tasks' = (tasks \ {t}) \cup {[t EXCEPT !.at = "post", !.got = got]}
        BY <3>3 DEF Read
      <4> DEFINE u == [t EXCEPT !.at = "post", !.got = got]
      <4>2. u.does = "poll"
        BY <2>1, <2>3 DEF Task
      <4>3. tasks' = (tasks \ {t}) \cup {u} /\ UNCHANGED idle
        BY <3>3, <4>1 DEF Read
      <4> HIDE DEF u
      <4>4. Polls' = {u} /\ Replies' = {}
        BY <3>2, <4>2, <4>3 DEF Polls, Replies
      <4>5. QED BY <2>1, <3>2, <4>4 DEF BusyInv
    <3>4. CASE Post(t)
      <4>1. t.got \in Versions /\ t.id \in 0..MaxGen
        BY <2>1, <2>3 DEF Task, PollReads
      <4>2. Answer("poll", t.got, t.id) \in Callback /\ Answer("poll", t.got, t.id).do = "poll"
        BY <4>1 DEF Answer, callback, Callback
      <4>3. IdleAdd(Answer("poll", t.got, t.id)) /\ tasks' = tasks \ {t}
        BY <2>3, <3>4 DEF Post
      <4>4. Replies' = {Len(idle) + 1}
        BY <3>2, <4>2, <4>3, AppendReplies
      <4>5. Polls' = {}
        BY <3>2, <4>3 DEF Polls
      <4>6. QED BY <2>1, <3>2, <4>4, <4>5 DEF BusyInv
    <3>5. QED BY <1>8, <3>1, <3>3, <3>4 DEF TaskStep, Write, WriteFailed, WriteDone
  <2>4. QED BY <2>2, <2>3
<1>9. CASE SubscribeStep
  <2>1. CASE Connect \/ TakeToggle \/ TakeChanged \/ StreamEnds
    BY <1>1, <2>1 DEF Connect, TakeToggle, TakeChanged, StreamEnds, poll
  <2>2. CASE PostChanged
    <3>1. sub.got \in Versions /\ UNCHANGED <<telemetryBusy, tasks>>
      BY <2>2 DEF PostChanged, poll
    <3>2. Answer("refresh", sub.got, 0) \in Callback
          /\ Answer("refresh", sub.got, 0).do # "poll"
      BY <3>1 DEF Answer, callback, Callback
    <3>3. Replies' = Replies
      BY <2>2, <3>2, AppendReplies DEF PostChanged
    <3>4. QED BY <3>1, <3>3, SameBusy DEF Polls
  <2>3. QED BY <1>9, <2>1, <2>2 DEF SubscribeStep
<1>10. CASE Change \/ PressToggle \/ GoDown \/ ComeUp
  BY <1>1, <1>10 DEF Change, PressToggle, GoDown, ComeUp, poll
<1>11. CASE UNCHANGED vars
  BY <1>1, <1>11 DEF vars, poll
<1>12. QED BY <1>3, <1>4, <1>5, <1>6, <1>7, <1>8, <1>9, <1>10, <1>11 DEF Next, Goroutine

(* The flag stands for one request or reply: the poll never asks twice at   *)
(* once, and is never left waiting for an answer that will not come.        *)
THEOREM PollIsOwned == Spec => []BusyIsOwned
<1>1. Init => BusyInv
  BY DEF Init, BusyInv, Polls, Replies
<1>2. TypeInv /\ BusyInv /\ [Next]_vars => BusyInv'
  BY BusyStep
<1>3. TypeInv /\ BusyInv => BusyIsOwned
  <2> SUFFICES ASSUME TypeInv, BusyInv PROVE BusyIsOwned
    OBVIOUS
  <2>1. Cardinality({}) = 0
    BY FS_EmptySet
  <2>2. \A x : Cardinality({x}) = 1
    BY FS_Singleton
  <2>3. CASE telemetryBusy
    <3>1. \/ Cardinality(Replies) = 0 /\ Cardinality(Polls) = 1
          \/ Cardinality(Polls) = 0 /\ Cardinality(Replies) = 1
      BY <2>1, <2>2, <2>3 DEF BusyInv
    <3>2. Cardinality(Polls) + Cardinality(Replies) = 1
      BY <3>1
    <3>3. QED BY <2>3, <3>2 DEF BusyIsOwned
  <2>4. CASE ~telemetryBusy
    <3>1. Cardinality(Polls) = 0 /\ Cardinality(Replies) = 0
      BY <2>1, <2>4 DEF BusyInv
    <3>2. Cardinality(Polls) + Cardinality(Replies) = 0
      BY <3>1
    <3>3. QED BY <2>4, <3>2 DEF BusyIsOwned
  <2>5. QED BY <2>3, <2>4
<1>4. QED BY <1>1, <1>2, <1>3, TypeCorrect, PTL DEF Spec

(* An open drawer has its timeout: every tick that removes one removes that *)
(* of an earlier generation.                                                *)
PollInstalled == visible => telemetryGen \in timers

(* Closes and re-opens, in whatever order their timeouts tick, never leave  *)
(* an open drawer without the timeout of its own generation.  Together with *)
(* PollIsOwned: the poll is never held up but by a request that is          *)
(* answered.  That the timeout ticks in the end is PollGoesOn, which TLC    *)
(* checks.                                                                  *)
THEOREM OpenKeepsPolling == Spec => []PollInstalled
<1>1. Init => PollInstalled
  BY DEF Init, PollInstalled
<1>2. TypeInv /\ PollInstalled /\ [Next]_vars => PollInstalled'
  <2> SUFFICES ASSUME TypeInv, PollInstalled, [Next]_vars PROVE PollInstalled'
    OBVIOUS
  <2>1. CASE Toggle \/ Dismiss \/ ShowCustomView
    BY <2>1 DEF PollInstalled, Toggle, show, hide, Dismiss, ShowCustomView
  <2>2. ASSUME NEW g \in 1..MaxGen, TelemetryTick(g)
        PROVE  PollInstalled'
    BY <2>2 DEF PollInstalled, TelemetryTick
  <2>3. ASSUME UNCHANGED <<visible, telemetryGen, timers>>
        PROVE  PollInstalled'
    BY <2>3 DEF PollInstalled
  <2>4. CASE Save \/ DismissError \/ RunIdle \/ UNCHANGED vars
    BY <2>3, <2>4 DEF Save, DismissError, RunIdle, vars, poll
  <2>5. ASSUME NEW t, TaskStep(t)
        PROVE  PollInstalled'
    BY <2>3, <2>5 DEF TaskStep, Write, WriteFailed, WriteDone, Read, Post, poll
  <2>6. CASE SubscribeStep
    BY <2>3, <2>6 DEF SubscribeStep, Connect, TakeToggle, TakeChanged, PostChanged,
       StreamEnds, poll
  <2>7. CASE Change \/ PressToggle \/ GoDown \/ ComeUp
    BY <2>3, <2>7 DEF Change, PressToggle, GoDown, ComeUp, poll
  <2>8. QED BY <2>1, <2>2, <2>4, <2>5, <2>6, <2>7 DEF Next, Goroutine
<1>3. QED BY <1>1, <1>2, TypeCorrect, PTL DEF Spec

-----------------------------------------------------------------------------
(* Neither a late report nor a close leaves the error bar up in a closed    *)
(* drawer.                                                                  *)
THEOREM ErrorsStayInside == Spec => []ErrorOnlyWhileOpen
<1>1. Init => ErrorOnlyWhileOpen
  BY DEF Init, ErrorOnlyWhileOpen
<1>2. TypeInv /\ ErrorOnlyWhileOpen /\ [Next]_vars => ErrorOnlyWhileOpen'
  BY DEF ErrorOnlyWhileOpen, vars, Next, Toggle, show, hide, Dismiss, ShowCustomView, Save,
     DismissError, RunIdle, RunSync, RunPoll, RunReport, RunClear, TelemetryTick,
     Goroutine, TaskStep, Write, WriteFailed, WriteDone, Read, Post, SubscribeStep,
     Connect, TakeToggle, TakeChanged, PostChanged, StreamEnds, Change, PressToggle,
     GoDown, ComeUp, shown
<1>3. QED BY <1>1, <1>2, TypeCorrect, PTL DEF Spec

-----------------------------------------------------------------------------
(* The widgets and the daemon.                                              *)

(* A callback that would leave the state it sets at version d, if any.      *)
Carries(cb, d) == cb.do \in {"sync", "refresh", "poll"} => cb.got \in {0, d}

(* Somebody has yet to ask the daemon, and will hand on what it says.       *)
WillRead ==
  \/ \E t \in tasks : t.does # "poll" /\ t.at \in {"write", "done", "read"}
  \/ \E i \in 1..Len(ch) : ch[i] = "changed"

(* What is in the queue ends in what the daemon has.                        *)
Queued ==
  \E i \in 1..Len(idle) :
    /\ idle[i].do \in {"sync", "refresh"}
    /\ \A j \in i..Len(idle) : Carries(idle[j], daemon)

(* The widgets and the state behind them are what the daemon has, and       *)
(* nothing in the queue will change that.                                   *)
Shown ==
  /\ widgets = daemon /\ state = daemon
  /\ \A j \in 1..Len(idle) : Carries(idle[j], daemon)

(* Every answer under way is what the daemon has, and the widgets are or    *)
(* will be brought up to date by one of them.                               *)
Current ==
  /\ \A t \in Holding : t.got \in {0, daemon}
  /\ sub.at = "post" => sub.got = daemon
  /\ \/ \E t \in Holding : t.does # "poll"
     \/ sub.at = "post"
     \/ Queued
     \/ Shown

(* A failed read never passes for an answer, and without a failure no       *)
(* goroutine has one to report.                                             *)
Answers ==
  /\ \A i \in 1..Len(idle) : idle[i].do \in {"sync", "refresh"} => idle[i].got # 0
  /\ excuses = {} =>
       /\ \A t \in tasks : t.at # "failed"
       /\ \A t \in Holding : t.does # "poll" => t.got # 0
       /\ sub.at = "post" => sub.got # 0

SyncInv == Answers /\ (excuses = {} /\ visible => WillRead \/ Current)

(* Where the callbacks are after each of the queue's two operations.        *)
LEMMA AppendPlaces ==
  ASSUME idle \in Seq(Callback), NEW cb \in Callback, IdleAdd(cb)
  PROVE  /\ Len(idle) \in Nat /\ Len(idle') = Len(idle) + 1
         /\ \A i \in 1..Len(idle) : idle'[i] = idle[i]
         /\ idle'[Len(idle) + 1] = cb
BY DEF IdleAdd

LEMMA TailPlaces ==
  ASSUME idle \in Seq(Callback), idle # <<>>, idle' = Tail(idle)
  PROVE  /\ Len(idle) \in Nat \ {0} /\ Len(idle') = Len(idle) - 1
         /\ \A i \in 1..Len(idle') : idle'[i] = idle[i + 1]
         /\ Head(idle) = idle[1]
OBVIOUS

(* A callback at the end of the queue changes nothing, if it carries what   *)
(* the daemon has, and settles it, if it is a sync or a refresh.            *)
LEMMA AppendKeeps ==
  ASSUME idle \in Seq(Callback), NEW cb \in Callback, IdleAdd(cb), Carries(cb, daemon),
         UNCHANGED <<daemon, widgets, state>>
  PROVE  /\ Queued => Queued'
         /\ Shown => Shown'
         /\ cb.do \in {"sync", "refresh"} => Queued'
<1> DEFINE n == Len(idle)
<1>1. /\ n \in Nat /\ Len(idle') = n + 1 /\ idle'[n + 1] = cb
      /\ \A i \in 1..n : idle'[i] = idle[i]
  BY AppendPlaces
<1>2. Carries(idle'[n + 1], daemon')
  BY <1>1 DEF Carries
<1>3. ASSUME NEW i \in 1..n, Carries(idle[i], daemon) PROVE Carries(idle'[i], daemon')
  BY <1>1, <1>3 DEF Carries
<1> HIDE DEF n
<1>4. 1..Len(idle') = (1..n) \cup {n + 1} /\ n + 1 \in 1..Len(idle')
  BY <1>1
<1>5. Queued => Queued'
  <2> SUFFICES ASSUME Queued PROVE Queued'
    OBVIOUS
  <2>1. PICK i \in 1..n : /\ idle[i].do \in {"sync", "refresh"}
                          /\ \A j \in i..n : Carries(idle[j], daemon)
    BY DEF Queued, n
  <2>2. i \in 1..Len(idle') /\ idle'[i].do \in {"sync", "refresh"}
    BY <1>1, <1>4, <2>1
  <2>3. i..Len(idle') = (i..n) \cup {n + 1} /\ i..n \subseteq 1..n
    BY <1>1
  <2>4. \A j \in i..Len(idle') : Carries(idle'[j], daemon')
    BY <1>2, <1>3, <2>1, <2>3
  <2>5. QED BY <2>2, <2>4 DEF Queued
<1>6. Shown => Shown'
  BY <1>2, <1>3, <1>4 DEF Shown, n
<1>7. ASSUME cb.do \in {"sync", "refresh"} PROVE Queued'
  <2>1. (n + 1)..Len(idle') = {n + 1}
    BY <1>1
  <2>2. QED BY <1>1, <1>2, <1>4, <1>7, <2>1 DEF Queued
<1>8. QED BY <1>5, <1>6, <1>7

(* Running the callback at its head: either it was the one that settles     *)
(* things, or that one is still to come, or all was settled before.         *)
LEMMA RunKeeps ==
  ASSUME TypeInv, Answers, RunIdle
  PROVE  /\ Queued => Queued' \/ Shown'
         /\ Shown => Shown'
<1> DEFINE n == Len(idle')
           cb == Head(idle)
<1>1. /\ idle \in Seq(Callback) /\ idle # <<>> /\ idle' = Tail(idle)
      /\ UNCHANGED daemon
      /\ RunSync(cb) \/ RunPoll(cb) \/ RunReport(cb) \/ RunClear(cb)
  BY DEF RunIdle, TypeInv, TypeOK, world
<1>2. /\ n \in Nat /\ Len(idle) = n + 1 /\ cb = idle[1]
      /\ \A i \in 1..n : idle'[i] = idle[i + 1]
  BY <1>1, TailPlaces
<1>3. cb.do \in {"sync", "refresh"} => cb.got # 0
  BY <1>2 DEF Answers
<1>4. ASSUME NEW i \in 1..n, Carries(idle[i + 1], daemon) PROVE Carries(idle'[i], daemon')
  BY <1>1, <1>2, <1>4 DEF Carries
<1>5. ASSUME cb.do \in {"sync", "refresh"}, Carries(cb, daemon)
      PROVE  widgets' = daemon' /\ state' = daemon'
  BY <1>1, <1>3, <1>5 DEF RunSync, RunPoll, RunReport, RunClear, Carries
<1>6. ASSUME widgets = daemon, state = daemon, Carries(cb, daemon)
      PROVE  widgets' = daemon' /\ state' = daemon'
  BY <1>1, <1>3, <1>6 DEF RunSync, RunPoll, RunReport, RunClear, Carries
<1> HIDE DEF n, cb
<1>7. 1 \in 1..Len(idle) /\ \A i \in 1..n : i + 1 \in 1..Len(idle)
  BY <1>2
<1>8. Queued => Queued' \/ Shown'
  <2> SUFFICES ASSUME Queued PROVE Queued' \/ Shown'
    OBVIOUS
  <2>1. PICK i \in 1..Len(idle) : /\ idle[i].do \in {"sync", "refresh"}
                                  /\ \A j \in i..Len(idle) : Carries(idle[j], daemon)
    BY DEF Queued
  <2>2. CASE i = 1
    <3>1. \A j \in 1..n : Carries(idle'[j], daemon')
      BY <1>4, <1>7, <2>1, <2>2
    <3>2. cb.do \in {"sync", "refresh"} /\ Carries(cb, daemon)
      BY <1>2, <1>7, <2>1, <2>2
    <3>3. QED BY <1>5, <3>1, <3>2 DEF Shown, n
  <2>3. CASE i # 1
    <3> DEFINE k == i - 1
    <3>1. k \in 1..n /\ k + 1 = i
      BY <1>2, <2>1, <2>3
    <3> HIDE DEF k
    <3>2. \A j \in k..n : j \in 1..n /\ j + 1 \in i..Len(idle)
      BY <1>2, <3>1
    <3>3. \A j \in k..n : Carries(idle'[j], daemon')
      BY <1>4, <2>1, <3>2
    <3>4. idle'[k].do \in {"sync", "refresh"}
      BY <1>2, <2>1, <3>1
    <3>5. QED BY <3>1, <3>3, <3>4 DEF Queued, n
  <2>4. QED BY <2>2, <2>3
<1>9. Shown => Shown'
  <2> SUFFICES ASSUME Shown PROVE Shown'
    OBVIOUS
  <2>1. Carries(cb, daemon) /\ \A j \in 1..n : Carries(idle'[j], daemon')
    BY <1>2, <1>4, <1>7 DEF Shown
  <2>2. widgets' = daemon' /\ state' = daemon'
    BY <1>6, <2>1 DEF Shown
  <2>3. QED BY <2>1, <2>2 DEF Shown, n
<1>10. QED BY <1>8, <1>9

(* What stays of the invariant when nothing it speaks of changes.           *)
LEMMA SyncFrame ==
  ASSUME SyncInv,
         UNCHANGED <<visible, state, widgets, idle, tasks, sub, daemon, ch, excuses>>
  PROVE  SyncInv'
BY DEF SyncInv, Answers, WillRead, Current, Queued, Shown, Carries, Holding

(* A new goroutine that is not done reading owes nobody an answer yet.      *)
LEMMA NewReader ==
  ASSUME TypeInv, Answers, NEW t, t.at \in {"write", "read"},
         tasks' = tasks \cup {t}, UNCHANGED <<idle, sub>>,
         excuses' = {} => excuses = {} \/ Settled
  PROVE  /\ Answers' /\ Holding' = Holding
         /\ t.does # "poll" => WillRead'
<1>1. Holding' = Holding
  BY DEF Holding
<1>2. WillRead' \/ t.does = "poll"
  BY DEF WillRead
<1>3. CASE excuses' = {} => excuses = {}
  <2>1. excuses' = {} => \A u \in tasks' : u.at # "failed"
    BY <1>3 DEF Answers
  <2>2. excuses' = {} => \A u \in Holding' : u.does # "poll" => u.got # 0
    BY <1>1, <1>3 DEF Answers
  <2>3. QED BY <1>1, <1>2, <1>3, <2>1, <2>2 DEF Answers
<1>4. CASE Settled
  <2>1. \A u \in tasks : u.does = "poll" /\ u.at # "failed"
    BY <1>4 DEF Settled, TypeInv, PollReads
  <2>2. sub.at # "post"
    BY <1>4 DEF Settled
  <2>3. \A u \in tasks' : u.at # "failed"
    BY <2>1
  <2>4. \A u \in Holding' : u.does = "poll"
    BY <1>1, <2>1 DEF Holding
  <2>5. QED BY <1>1, <1>2, <2>2, <2>3, <2>4 DEF Answers
<1>5. QED BY <1>1, <1>2, <1>3, <1>4

LEMMA GtkSync ==
  ASSUME TypeInv, SyncInv,
         Toggle \/ Dismiss \/ ShowCustomView \/ Save \/ DismissError
  PROVE  SyncInv'
<1>1. CASE Toggle
  <2>1. CASE visible
    BY <1>1, <2>1 DEF Toggle, hide, world, SyncInv, Answers, Holding
  <2>2. CASE ~visible
    <3> DEFINE t == [does |-> "fetch", id |-> telemetryGen', at |-> "read", got |-> 0]
    <3>1. /\ tasks' = tasks \cup {t} /\ UNCHANGED <<idle, sub>>
          /\ excuses' = {} => excuses = {} \/ Settled
      BY <1>1, <2>2 DEF Toggle
    <3>2. t.at = "read" /\ t.does = "fetch"
      OBVIOUS
    <3> HIDE DEF t
    <3>3. Answers' /\ WillRead'
      BY <3>1, <3>2, NewReader DEF SyncInv
    <3>4. QED BY <3>3 DEF SyncInv
  <2>3. QED BY <2>1, <2>2
<1>2. CASE Dismiss
  BY <1>2 DEF Dismiss, hide, world, SyncInv, Answers, Holding
<1>3. CASE ShowCustomView
  <2>1. UNCHANGED <<visible, state, idle, tasks, sub, daemon, ch, excuses>>
        /\ widgets' \in {widgets, state}
    BY <1>3 DEF ShowCustomView, world
  <2>2. Answers' /\ (WillRead => WillRead')
    BY <2>1 DEF SyncInv, Answers, Holding, WillRead
  <2>3. (Queued => Queued') /\ (Shown => Shown')
    BY <2>1 DEF Queued, Shown, Carries
  <2>4. Current => Current'
    BY <2>1, <2>3 DEF Current, Holding
  <2>5. QED BY <2>1, <2>2, <2>4 DEF SyncInv
<1>4. CASE Save
  <2> DEFINE t == [does |-> "save", id |-> MaxGen + saves', at |-> "write", got |-> 0]
  <2>1. tasks' = tasks \cup {t} /\ UNCHANGED <<idle, sub, excuses>>
    BY <1>4 DEF Save
  <2>2. t.at = "write" /\ t.does = "save"
    OBVIOUS
  <2> HIDE DEF t
  <2>3. Answers' /\ WillRead'
    BY <2>1, <2>2, NewReader DEF SyncInv
  <2>4. QED BY <2>3 DEF SyncInv
<1>5. CASE DismissError
  BY <1>5, SyncFrame DEF DismissError, world
<1>6. QED BY <1>1, <1>2, <1>3, <1>4, <1>5

LEMMA TickSync ==
  ASSUME TypeInv, SyncInv, NEW g \in 1..MaxGen, TelemetryTick(g)
  PROVE  SyncInv'
<1>1. UNCHANGED <<visible, state, widgets, idle, sub, daemon, ch, excuses>>
  BY DEF TelemetryTick, shown, world
<1>2. CASE UNCHANGED tasks
  BY <1>1, <1>2, SyncFrame
<1>3. CASE tasks' # tasks
  <2> DEFINE t == [does |-> "poll", id |-> g, at |-> "read", got |-> 0]
  <2>1. tasks' = tasks \cup {t}
    BY <1>3 DEF TelemetryTick
  <2>2. t.at = "read"
    OBVIOUS
  <2> HIDE DEF t
  <2>3. Answers' /\ Holding' = Holding
    BY <1>1, <2>1, <2>2, NewReader DEF SyncInv
  <2>4. WillRead => WillRead'
    BY <1>1, <2>1 DEF WillRead
  <2>5. Current => Current'
    BY <1>1, <2>3 DEF Current, Queued, Shown, Carries
  <2>6. QED BY <1>1, <2>3, <2>4, <2>5 DEF SyncInv
<1>4. QED BY <1>2, <1>3

LEMMA RunIdleSync ==
  ASSUME TypeInv, SyncInv, RunIdle
  PROVE  SyncInv'
<1>1. UNCHANGED <<visible, tasks, sub, daemon, ch, excuses>>
  BY DEF RunIdle, world
<1>2. /\ Len(idle') \in Nat /\ Len(idle) = Len(idle') + 1
      /\ \A i \in 1..Len(idle') : idle'[i] = idle[i + 1]
  BY TailPlaces DEF RunIdle, TypeInv, TypeOK
<1>3. \A i \in 1..Len(idle') : i + 1 \in 1..Len(idle)
  BY <1>2
<1>4. Answers'
  BY <1>1, <1>2, <1>3 DEF SyncInv, Answers, Holding
<1>5. WillRead => WillRead'
  BY <1>1 DEF WillRead
<1>6. (Queued => Queued' \/ Shown') /\ (Shown => Shown')
  BY RunKeeps DEF SyncInv
<1>7. Current => Current'
  BY <1>1, <1>6 DEF Current, Holding
<1>8. QED BY <1>1, <1>4, <1>5, <1>7 DEF SyncInv

(* A task's step that leaves the daemon, the queue and who holds an answer  *)
(* alone, and fails at nothing that matters.                                *)
LEMMA MovedReader ==
  ASSUME TypeInv, SyncInv, NEW t \in tasks, NEW at \in {"done", "read"},
         Step(t, at), t.does # "poll"
  PROVE  /\ WillRead'
         /\ t.at # "post" => Holding' = Holding
         /\ \A u \in tasks' : u.at = "failed" => u \in tasks
<1> DEFINE v == [t EXCEPT !.at = at]
<1>1. v.does = t.does /\ v.at = at
  BY DEF TypeInv, TypeOK, Task
<1>2. tasks' = (tasks \ {t}) \cup {v}
  BY DEF Step
<1> HIDE DEF v
<1>3. QED BY <1>1, <1>2 DEF WillRead, Holding

LEMMA WriteSync ==
  ASSUME TypeInv, SyncInv, NEW t \in tasks, Write(t)
  PROVE  SyncInv'
<1>1. UNCHANGED <<visible, idle, sub>> /\ t.at = "write" /\ t.does # "poll"
  BY DEF Write, TypeInv, PollReads
<1>2. PICK err \in BOOLEAN :
        /\ Step(t, IF err THEN "failed" ELSE "done")
        /\ excuses' = IF err THEN excuses \cup {"failed"} ELSE excuses
  BY DEF Write
<1>3. CASE err
  BY <1>1, <1>2, <1>3 DEF SyncInv, Answers
<1>4. CASE ~err
  <2>1. Step(t, "done") /\ UNCHANGED excuses
    BY <1>2, <1>4
  <2>2. WillRead' /\ Holding' = Holding /\ \A u \in tasks' : u.at = "failed" => u \in tasks
    BY <1>1, <2>1, MovedReader
  <2>3. QED BY <1>1, <2>1, <2>2 DEF SyncInv, Answers
<1>5. QED BY <1>3, <1>4

(* A report joins the queue: no answer in it, and none it disturbs.         *)
LEMMA AppendAnswers ==
  ASSUME TypeInv, Answers, NEW cb \in Callback, IdleAdd(cb),
         cb.do \in {"sync", "refresh"} => cb.got # 0
  PROVE  \A i \in 1..Len(idle') : idle'[i].do \in {"sync", "refresh"} => idle'[i].got # 0
<1>1. /\ Len(idle) \in Nat /\ Len(idle') = Len(idle) + 1
      /\ \A i \in 1..Len(idle) : idle'[i] = idle[i]
      /\ idle'[Len(idle) + 1] = cb
  BY AppendPlaces DEF TypeInv, TypeOK
<1>2. 1..Len(idle') = (1..Len(idle)) \cup {Len(idle) + 1}
  BY <1>1
<1>3. QED BY <1>1, <1>2 DEF Answers

LEMMA ReportSync ==
  ASSUME TypeInv, SyncInv, NEW t \in tasks, WriteFailed(t) \/ WriteDone(t)
  PROVE  SyncInv'
<1>1. UNCHANGED <<visible, sub, excuses>> /\ t.at \in {"failed", "done"} /\ t.does # "poll"
  BY DEF WriteFailed, WriteDone, TypeInv, PollReads
<1>2. \E do \in {"error", "clear"} : IdleAdd(callback(do, 0, 0))
  BY DEF WriteFailed, WriteDone
<1>3. PICK do \in {"error", "clear"} : IdleAdd(callback(do, 0, 0))
  BY <1>2
<1>4. callback(do, 0, 0) \in Callback /\ callback(do, 0, 0).do = do
  BY DEF callback, Callback, Versions
<1>5. \A i \in 1..Len(idle') : idle'[i].do \in {"sync", "refresh"} => idle'[i].got # 0
  BY <1>3, <1>4, AppendAnswers DEF SyncInv
<1>6. CASE excuses # {}
  BY <1>1, <1>5, <1>6 DEF SyncInv, Answers
<1>7. CASE excuses = {}
  <2>1. WriteDone(t)
    BY <1>1, <1>7 DEF SyncInv, Answers, WriteFailed
  <2>2. Step(t, "read")
    BY <2>1 DEF WriteDone
  <2>3. WillRead' /\ Holding' = Holding /\ \A u \in tasks' : u.at = "failed" => u \in tasks
    BY <1>1, <2>2, MovedReader
  <2>4. QED BY <1>1, <1>5, <2>3 DEF SyncInv, Answers
<1>8. QED BY <1>6, <1>7

(* A read of the daemon's state, when nothing went wrong and no answer but  *)
(* a poll's is under way.                                                   *)
LEMMA ReadSync ==
  ASSUME TypeInv, SyncInv, NEW t \in tasks, Read(t)
  PROVE  SyncInv'
<1>1. UNCHANGED <<visible, state, widgets, idle, sub, daemon, ch>> /\ t.at = "read" /\ t \in Task
  BY DEF Read, shown, world, TypeInv, TypeOK
<1>2. PICK got \in GetState :
        /\ tasks' = (tasks \ {t}) \cup {[t EXCEPT !.at = "post", !.got = got]}
        /\ IF t.does = "poll" THEN UNCHANGED excuses ELSE Excuse(got)
  BY DEF Read
<1> DEFINE v == [t EXCEPT !.at = "post", !.got = got]
<1>3. v.does = t.does /\ v.at = "post" /\ v.got = got /\ tasks' = (tasks \ {t}) \cup {v}
  BY <1>1, <1>2 DEF Task
<1>4. got \in {0, daemon}
  BY DEF GetState
<1> HIDE DEF v
<1>5. Holding' = Holding \cup {v}
  BY <1>1, <1>3 DEF Holding
<1>6. (Queued => Queued') /\ (Shown => Shown')
  BY <1>1 DEF Queued, Shown, Carries
<1>7. CASE t.does = "poll"
  <2>1. UNCHANGED excuses
    BY <1>2, <1>7
  <2>2. Answers'
    BY <1>1, <1>3, <1>5, <1>7, <2>1 DEF SyncInv, Answers
  <2>3. WillRead => WillRead'
    BY <1>1, <1>3, <1>7 DEF WillRead
  <2>4. Current => Current'
    BY <1>1, <1>3, <1>4, <1>5, <1>6 DEF Current
  <2>5. QED BY <1>1, <2>1, <2>2, <2>3, <2>4 DEF SyncInv
<1>8. CASE t.does # "poll"
  <2>1. excuses \subseteq excuses' /\ (excuses' = {} => Holding = {} /\ sub.at # "post" /\ got # 0)
    BY <1>2, <1>8 DEF Excuse
  <2>2. Answers'
    BY <1>1, <1>3, <1>5, <2>1 DEF SyncInv, Answers
  <2>3. excuses' = {} => Current'
    BY <1>1, <1>3, <1>4, <1>5, <1>8, <2>1 DEF Current
  <2>4. QED BY <2>2, <2>3 DEF SyncInv
<1>9. QED BY <1>7, <1>8

(* An answer goes from its reader into the queue.                           *)
LEMMA PostSync ==
  ASSUME TypeInv, SyncInv, NEW t \in tasks, Post(t)
  PROVE  SyncInv'
<1>1. UNCHANGED <<visible, state, widgets, sub, daemon, ch, excuses>>
      /\ t.at = "post" /\ t \in Task /\ tasks' = tasks \ {t}
  BY DEF Post, shown, world, TypeInv, TypeOK
<1>2. t \in Holding /\ Holding' = Holding \ {t}
  BY <1>1 DEF Holding
<1>3. PICK do \in {"sync", "refresh", "poll"}, gen \in 0..MaxGen :
        IdleAdd(Answer(do, t.got, gen)) /\ (do = "poll" <=> t.does = "poll")
  <2>1. CASE t.does = "poll"
    <3>1. t.id \in 0..MaxGen
      BY <2>1 DEF TypeInv, PollReads
    <3>2. QED BY <2>1, <3>1 DEF Post
  <2>2. CASE t.does \in {"fetch", "save"}
    BY <2>2 DEF Post
  <2>3. QED BY <1>1, <2>1, <2>2 DEF Task
<1> DEFINE cb == Answer(do, t.got, gen)
<1>4. /\ cb \in Callback /\ cb.got = t.got
      /\ cb.do = IF t.got = 0 /\ do # "poll" THEN "error" ELSE do
  BY <1>1, CallbackType DEF Answer, callback, Callback, Task
<1> HIDE DEF cb
<1>5. IdleAdd(cb)
  BY <1>3 DEF cb
<1>6. Answers'
  <2>1. cb.do \in {"sync", "refresh"} => cb.got # 0
    BY <1>4
  <2>2. \A i \in 1..Len(idle') : idle'[i].do \in {"sync", "refresh"} => idle'[i].got # 0
    BY <1>5, <1>4, <2>1, AppendAnswers DEF SyncInv
  <2>3. QED BY <1>1, <1>2, <2>2 DEF SyncInv, Answers
<1>7. WillRead => WillRead'
  BY <1>1 DEF WillRead
<1>8. ASSUME Current, excuses = {} PROVE Current'
  <2>1. t.got \in {0, daemon} /\ (t.does # "poll" => t.got # 0)
    BY <1>2, <1>8 DEF Current, SyncInv, Answers
  <2>2. Carries(cb, daemon)
    BY <1>4, <2>1 DEF Carries
  <2>3. /\ Queued => Queued'
        /\ Shown => Shown'
        /\ cb.do \in {"sync", "refresh"} => Queued'
    BY <1>1, <1>4, <1>5, <2>2, AppendKeeps DEF TypeInv, TypeOK
  <2>4. (\A u \in Holding' : u.got \in {0, daemon'}) /\ (sub'.at = "post" => sub'.got = daemon')
    BY <1>1, <1>2, <1>8 DEF Current
  <2>5. CASE t.does # "poll"
    <3>1. cb.do \in {"sync", "refresh"}
      BY <1>3, <1>4, <2>1, <2>5
    <3>2. QED BY <2>3, <2>4, <3>1 DEF Current
  <2>6. CASE t.does = "poll"
    <3>1. \A u \in Holding : u.does # "poll" => u \in Holding'
      BY <1>2, <2>6
    <3>2. QED BY <1>1, <1>8, <2>3, <2>4, <3>1 DEF Current
  <2>7. QED BY <2>5, <2>6
<1>9. QED BY <1>1, <1>6, <1>7, <1>8 DEF SyncInv

LEMMA SubscribeSync ==
  ASSUME TypeInv, SyncInv, SubscribeStep
  PROVE  SyncInv'
<1>1. ASSUME UNCHANGED <<visible, state, widgets, idle, tasks, daemon, excuses>>,
             sub.at # "post", sub'.at # "post", WillRead => WillRead'
      PROVE  SyncInv'
  BY <1>1 DEF SyncInv, Answers, Current, Queued, Shown, Carries, Holding
<1>2. CASE Connect \/ StreamEnds
  <2>1. sub.at # "post" /\ sub'.at # "post"
    BY <1>2 DEF Connect, StreamEnds, TypeInv, TypeOK
  <2>2. WillRead => WillRead'
    BY <1>2 DEF Connect, StreamEnds, WillRead, world
  <2>3. QED BY <1>1, <1>2, <2>1, <2>2 DEF Connect, StreamEnds, shown, world
<1>3. CASE TakeToggle
  <2>1. /\ Len(ch) \in Nat /\ Len(ch') = Len(ch) - 1 /\ ch[1] # "changed"
        /\ \A i \in 1..Len(ch') : ch'[i] = ch[i + 1]
    BY <1>3 DEF TakeToggle, TypeInv, TypeOK
  <2>2. ASSUME NEW i \in 1..Len(ch), ch[i] = "changed"
        PROVE  i - 1 \in 1..Len(ch') /\ ch'[i - 1] = "changed"
    BY <2>1, <2>2
  <2>3. WillRead => WillRead'
    BY <1>3, <2>2 DEF TakeToggle, WillRead
  <2>4. QED BY <1>1, <1>3, <2>3 DEF TakeToggle, shown
<1>4. CASE TakeChanged
  <2>1. PICK got \in GetState : sub' = [at |-> "post", got |-> got] /\ Excuse(got)
    BY <1>4 DEF TakeChanged
  <2>2. excuses \subseteq excuses' /\ (excuses' = {} => Holding = {} /\ got # 0)
    BY <2>1 DEF Excuse
  <2>3. got \in {0, daemon}
    BY DEF GetState
  <2>4. UNCHANGED <<visible, state, widgets, idle, tasks, daemon>>
    BY <1>4 DEF TakeChanged, shown
  <2>5. Answers'
    BY <2>1, <2>2, <2>4 DEF SyncInv, Answers, Holding
  <2>6. excuses' = {} => Current'
    BY <2>1, <2>2, <2>3, <2>4 DEF Current, Holding
  <2>7. QED BY <2>5, <2>6 DEF SyncInv
<1>5. CASE PostChanged
  <2>1. /\ UNCHANGED <<visible, state, widgets, tasks, daemon, ch, excuses>>
        /\ sub.at = "post" /\ sub.got \in Versions /\ sub'.at # "post"
    BY <1>5 DEF PostChanged, shown, world, TypeInv, TypeOK
  <2> DEFINE cb == Answer("refresh", sub.got, 0)
  <2>2. /\ cb \in Callback /\ cb.got = sub.got
        /\ cb.do = IF sub.got = 0 THEN "error" ELSE "refresh"
    BY <2>1, CallbackType DEF Answer, callback, Callback
  <2>3. IdleAdd(cb)
    BY <1>5 DEF PostChanged
  <2> HIDE DEF cb
  <2>4. \A i \in 1..Len(idle') : idle'[i].do \in {"sync", "refresh"} => idle'[i].got # 0
    BY <2>2, <2>3, AppendAnswers DEF SyncInv
  <2>5. Answers'
    BY <2>1, <2>4 DEF SyncInv, Answers, Holding
  <2>6. WillRead => WillRead'
    BY <2>1 DEF WillRead
  <2>7. ASSUME Current, excuses = {} PROVE Current'
    <3>1. sub.got = daemon /\ sub.got # 0
      BY <2>1, <2>7 DEF Current, SyncInv, Answers
    <3>2. cb.do = "refresh" /\ Carries(cb, daemon)
      BY <2>2, <3>1 DEF Carries
    <3>3. Queued'
      BY <2>1, <2>2, <2>3, <3>2, AppendKeeps DEF TypeInv, TypeOK
    <3>4. QED BY <2>1, <2>7, <3>3 DEF Current, Holding
  <2>8. QED BY <2>1, <2>5, <2>6, <2>7 DEF SyncInv
<1>6. QED BY <1>2, <1>3, <1>4, <1>5 DEF SubscribeStep

LEMMA WorldSync ==
  ASSUME TypeInv, SyncInv, Change \/ PressToggle \/ GoDown \/ ComeUp
  PROVE  SyncInv'
<1>1. CASE Change
  <2>1. UNCHANGED <<visible, idle, tasks, sub>> /\ excuses \subseteq excuses'
    BY <1>1 DEF Change
  <2>2. Answers'
    BY <2>1 DEF SyncInv, Answers, Holding
  <2>3. CASE streaming
    <3>1. ch' = Append(ch, "changed") /\ ch \in Seq({"toggle", "changed"})
      BY <1>1, <2>3 DEF Change, Announce, TypeInv, TypeOK
    <3>2. Len(ch) + 1 \in 1..Len(ch') /\ ch'[Len(ch) + 1] = "changed"
      BY <3>1
    <3>3. WillRead'
      BY <3>2 DEF WillRead
    <3>4. QED BY <2>2, <3>3 DEF SyncInv
  <2>4. CASE ~streaming
    <3>1. excuses' # {}
      BY <1>1, <2>4 DEF Change
    <3>2. QED BY <2>2, <3>1 DEF SyncInv
  <2>5. QED BY <2>3, <2>4
<1>2. CASE PressToggle
  <2>1. \A i \in 1..Len(ch) : ch[i] # "changed"
    BY <1>2 DEF PressToggle
  <2>2. UNCHANGED <<visible, state, widgets, idle, tasks, sub, daemon, excuses>>
    BY <1>2 DEF PressToggle, shown
  <2>3. Answers' /\ (WillRead => WillRead')
    BY <2>1, <2>2 DEF SyncInv, Answers, Holding, WillRead
  <2>4. Current => Current'
    BY <2>2 DEF Current, Queued, Shown, Carries, Holding
  <2>5. QED BY <2>2, <2>3, <2>4 DEF SyncInv
<1>3. CASE GoDown \/ ComeUp
  BY <1>3, SyncFrame DEF GoDown, ComeUp, shown
<1>4. QED BY <1>1, <1>2, <1>3

(* The widgets show what the daemon has once everything has settled: saves, *)
(* polls, events and reopened drawers may come in any order and number, as  *)
(* long as no two answers overlap, none fails and no change goes unheard.   *)
THEOREM WidgetsCatchUp == Spec => []SettledShowsDaemon
<1>1. Init => SyncInv
  BY DEF Init, SyncInv, Answers, Holding
<1>2. TypeInv /\ SyncInv /\ [Next]_vars => SyncInv'
  <2> SUFFICES ASSUME TypeInv, SyncInv, [Next]_vars PROVE SyncInv'
    OBVIOUS
  <2>1. CASE Toggle \/ Dismiss \/ ShowCustomView \/ Save \/ DismissError
    BY <2>1, GtkSync
  <2>2. CASE RunIdle
    BY <2>2, RunIdleSync
  <2>3. ASSUME NEW g \in 1..MaxGen, TelemetryTick(g) PROVE SyncInv'
    BY <2>3, TickSync
  <2>4. ASSUME NEW t \in tasks, TaskStep(t) PROVE SyncInv'
    BY <2>4, WriteSync, ReportSync, ReadSync, PostSync DEF TaskStep
  <2>5. CASE SubscribeStep
    BY <2>5, SubscribeSync
  <2>6. CASE Change \/ PressToggle \/ GoDown \/ ComeUp
    BY <2>6, WorldSync
  <2>7. CASE UNCHANGED vars
    BY <2>7, SyncFrame DEF vars, shown, world
  <2>8. QED BY <2>1, <2>2, <2>3, <2>4, <2>5, <2>6, <2>7 DEF Next, Goroutine
<1>3. TypeInv /\ SyncInv => SettledShowsDaemon
  <2> SUFFICES ASSUME SyncInv, Settled, visible, excuses = {}
               PROVE  widgets = daemon
    BY DEF SettledShowsDaemon, ShowsDaemonDespite
  <2>1. ~WillRead /\ ~Queued /\ sub.at # "post" /\ \A t \in Holding : t.does = "poll"
    BY DEF Settled, WillRead, Queued, Holding
  <2>2. Shown
    BY <2>1 DEF SyncInv, Current
  <2>3. QED BY <2>2 DEF Shown
<1>4. QED BY <1>1, <1>2, <1>3, TypeCorrect, PTL DEF Spec
=============================================================================
