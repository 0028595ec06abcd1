----------------------------- MODULE StateSync ------------------------------
(***************************************************************************)
(* How the drawer keeps up with the daemon (internal/gui: Toggle and       *)
(* subscribeLoop in gui.go; refreshState, the save and reset operations    *)
(* and the telemetry poll in tdp.go; sendProfileSet in sync.go; the error  *)
(* bar in errbar.go).                                                      *)
(*                                                                         *)
(* Five kinds of goroutine ask the daemon for its state: one per open, one *)
(* per save, reset or profile change (after its write), the telemetry poll *)
(* and subscribeLoop.  Each sends its answer to the GTK thread through the *)
(* idle queue, and only the poll is kept to one request at a time.         *)
(*                                                                         *)
(* The daemon's state is a version number that every change increments;    *)
(* widgets is the version that the custom view shows.  (The profile        *)
(* buttons go along with it at every sync and refresh, but showCustomView  *)
(* leaves them as they were.)  A call of the api package may fail at any   *)
(* time: the daemon is gone, or its 10s deadline has passed.               *)
(***************************************************************************)
EXTENDS Naturals, Sequences, FiniteSets

CONSTANTS
  MaxVersion,  \* bound on the daemon's version
  MaxGen,      \* bound on telemetryGen: show, hide, showCustomView
  MaxSaves,    \* bound on the user's saves, resets and profile changes
  MaxDowns     \* bound on the times the daemon goes away

ASSUME StateSyncAssumption ==
  /\ MaxVersion \in Nat \ {0}
  /\ {MaxGen, MaxSaves, MaxDowns} \subseteq Nat

VARIABLES
  visible,        \* Window.visible
  telemetryGen,   \* Window.telemetryGen
  telemetryBusy,  \* Window.telemetryBusy
  timers,         \* the generations whose GLib timeout is still installed
  state,          \* Window.state, 0 for nil
  widgets,        \* what the custom view shows, 0 for a choice not yet saved
  errBar,         \* errBar is visible
  toggles,        \* Toggle calls waiting in zero-length GLib timeouts
  idle,           \* GTK idle queue
  tasks,          \* goroutines of Toggle, of the saves and of the poll
  saves,          \* how many saves there have been
  sub,            \* subscribeLoop
  daemon,         \* external: the daemon's version
  up,             \* external: the daemon answers
  downs,          \* external: how often it went away
  streaming,      \* external: the subscription is connected
  ch,             \* external: events subscribeLoop has not taken yet
  excuses         \* history: what may have left the widgets out of date

poll == <<telemetryGen, telemetryBusy, timers>>
shown == <<state, widgets, errBar>>
world == <<daemon, up, downs, streaming, ch>>
vars == <<visible, poll, shown, toggles, idle, tasks, saves, sub, world, excuses>>

Versions == 0..MaxVersion
Callback == [do : {"sync", "refresh", "poll", "error", "clear"},
             got : Versions, gen : 0..MaxGen]
Task == [does : {"fetch", "save", "poll"}, id : 0..(MaxGen + MaxSaves),
         at : {"write", "failed", "done", "read", "post"}, got : Versions]

TypeOK ==
  /\ {visible, telemetryBusy, errBar, up, streaming} \subseteq BOOLEAN
  /\ telemetryGen \in 0..MaxGen /\ timers \subseteq 1..MaxGen
  /\ {state, widgets, daemon} \subseteq Versions
  /\ toggles \in 0..1
  /\ idle \in Seq(Callback)
  /\ tasks \subseteq Task
  /\ saves \in 0..MaxSaves /\ downs \in 0..MaxDowns
  /\ sub \in [at : {"connect", "listen", "post"}, got : Versions]
  /\ ch \in Seq({"toggle", "changed"})
  /\ excuses \subseteq {"overlap", "missed", "failed"}

Init ==
  /\ visible = FALSE
  /\ telemetryGen = 0 /\ telemetryBusy = FALSE /\ timers = {}
  /\ state = 0 /\ widgets = 0 /\ errBar = FALSE
  /\ toggles = 0
  /\ idle = <<>>
  /\ tasks = {}
  /\ saves = 0
  /\ sub = [at |-> "connect", got |-> 0]
  /\ daemon = 1
  /\ up \in BOOLEAN
  /\ downs = 0
  /\ streaming = FALSE
  /\ ch = <<>>
  /\ excuses = {}

-----------------------------------------------------------------------------
IdleAdd(cb) == idle' = Append(idle, cb)
callback(do, got, gen) == [do |-> do, got |-> got, gen |-> gen]

(* What a read hands to the GTK thread: an error report if it failed, and   *)
(* nothing at all from a poll that failed, but for its busy flag.           *)
Answer(do, got, gen) ==
  callback(IF got = 0 /\ do # "poll" THEN "error" ELSE do, got, gen)

(* SendGetState: the daemon's state, or 0 for a failure.                    *)
GetState == {0} \cup {daemon : x \in {y \in {1} : up}}

(* The readers whose answer is not in the idle queue yet.                   *)
Holding == {t \in tasks : t.at = "post"}

(* History: another answer is under way, or this one is a failure.          *)
Excuse(got) ==
  excuses' = excuses
    \cup {x \in {"overlap"} : Holding # {} \/ sub.at = "post"}
    \cup {x \in {"failed"} : got = 0}

(* Nothing is under way that would still change the widgets.                *)
Settled ==
  /\ \A t \in tasks : t.does = "poll"
  /\ sub.at # "post"
  /\ \A i \in 1..Len(ch) : ch[i] # "changed"
  /\ \A i \in 1..Len(idle) : idle[i].do \notin {"sync", "refresh"}

-----------------------------------------------------------------------------
(* The GTK thread.                                                          *)

(* Mutant: the timer captures the generation before it advances.            *)
BugShowOldTimer ==
  /\ visible' = TRUE
  /\ telemetryGen' = telemetryGen + 1
  /\ timers' = timers \cup {telemetryGen}
  /\ UNCHANGED errBar

(* show and hide: their part in all this.  hide leaves telemetryBusy to the *)
(* request in flight.                                                       *)
show ==
  /\ visible' = TRUE
  /\ telemetryGen' = telemetryGen + 1
  /\ timers' = timers \cup {telemetryGen'}
  /\ UNCHANGED errBar

hide ==
  /\ visible' = FALSE
  /\ telemetryGen' = telemetryGen + 1
  /\ errBar' = FALSE
  /\ UNCHANGED timers

(* Toggle, from a gui-toggle: an open also fetches the daemon's state.      *)
Toggle ==
  /\ toggles > 0
  /\ telemetryGen < MaxGen
  /\ toggles' = toggles - 1
  /\ \/ /\ visible
        /\ hide
        /\ UNCHANGED <<tasks, excuses>>
     \/ /\ ~visible
        /\ show
        /\ tasks' = tasks \cup
             {[does |-> "fetch", id |-> telemetryGen', at |-> "read", got |-> 0]}
        /\ excuses' = IF Settled THEN {} ELSE excuses
  /\ UNCHANGED <<telemetryBusy, state, widgets, idle, saves, sub, world>>

(* Escape, the Back button, a lost focus.                                   *)
Dismiss ==
  /\ visible
  /\ telemetryGen < MaxGen
  /\ hide
  /\ UNCHANGED <<telemetryBusy, state, widgets, toggles, idle, tasks, saves, sub, world, excuses>>

(* showCustomView: the custom view is filled from the state there is, and   *)
(* the telemetry poll starts anew.                                          *)
ShowCustomView ==
  /\ visible
  /\ telemetryGen < MaxGen
  /\ telemetryGen' = telemetryGen + 1
  /\ timers' = timers \cup {telemetryGen'}
  /\ widgets' = IF state = 0 THEN widgets ELSE state
  /\ UNCHANGED <<visible, telemetryBusy, state, errBar, toggles, idle, tasks, saves, sub, world, excuses>>

(* The user saves or resets something, or picks a profile: the custom view  *)
(* shows the choice, or on a reset or a profile what it did before.         *)
Save ==
  /\ visible
  /\ saves < MaxSaves
  /\ saves' = saves + 1
  /\ widgets' \in {0, widgets}
  /\ tasks' = tasks \cup
       {[does |-> "save", id |-> MaxGen + saves', at |-> "write", got |-> 0]}
  /\ UNCHANGED <<visible, poll, state, errBar, toggles, idle, sub, world, excuses>>

(* clearError, from the bar's own button.                                   *)
DismissError ==
  /\ visible /\ errBar
  /\ errBar' = FALSE
  /\ UNCHANGED <<visible, poll, state, widgets, toggles, idle, tasks, saves, sub, world, excuses>>

(* Mutant: a poll asks although one is in flight.                           *)
BugTickOverlaps(g) ==
  /\ g \in timers
  /\ g = telemetryGen /\ visible
  /\ telemetryBusy' = TRUE
  /\ tasks' = tasks \cup {[does |-> "poll", id |-> g, at |-> "read", got |-> 0]}
  /\ UNCHANGED <<visible, telemetryGen, timers, shown, toggles, idle, saves, sub, world, excuses>>

(* A tick of the telemetry poll: the timeout of an earlier open removes     *)
(* itself; while a request is in flight nothing happens.                    *)
TelemetryTick(g) ==
  /\ g \in timers
  /\ \/ /\ g # telemetryGen \/ ~visible
        /\ timers' = timers \ {g}
        /\ UNCHANGED <<telemetryBusy, tasks>>
     \/ /\ g = telemetryGen /\ visible
        /\ ~telemetryBusy
        /\ telemetryBusy' = TRUE
        /\ tasks' = tasks \cup {[does |-> "poll", id |-> g, at |-> "read", got |-> 0]}
        /\ UNCHANGED timers
  /\ UNCHANGED <<visible, telemetryGen, shown, toggles, idle, saves, sub, world, excuses>>

(* The idle callbacks.  A full sync and a refresh both bring the custom     *)
(* view and the profile buttons up to date; a poll only keeps the state,    *)
(* the telemetry labels and the button that depend on it.                   *)
RunSync(cb) ==
  /\ cb.do \in {"sync", "refresh"}
  /\ state' = cb.got
  /\ widgets' = cb.got
  /\ UNCHANGED <<telemetryBusy, errBar>>

(* Mutant: a stale reply leaves the poll busy.                              *)
BugPollStaleKeepsBusy(cb) ==
  /\ cb.do = "poll"
  /\ telemetryBusy' = (cb.gen # telemetryGen)
  /\ state' = IF cb.gen = telemetryGen /\ cb.got # 0 THEN cb.got ELSE state
  /\ UNCHANGED <<widgets, errBar>>

RunPoll(cb) ==
  /\ cb.do = "poll"
  /\ telemetryBusy' = FALSE
  /\ state' = IF cb.gen = telemetryGen /\ cb.got # 0 THEN cb.got ELSE state
  /\ UNCHANGED <<widgets, errBar>>

(* Mutant: a report does not ask whether the drawer is still open.          *)
BugReportWhenClosed(cb) ==
  /\ cb.do = "error"
  /\ errBar' = TRUE
  /\ UNCHANGED <<telemetryBusy, state, widgets>>

RunReport(cb) ==
  /\ cb.do = "error"
  /\ errBar' = (visible \/ errBar)
  /\ UNCHANGED <<telemetryBusy, state, widgets>>

RunClear(cb) ==
  /\ cb.do = "clear"
  /\ errBar' = FALSE
  /\ UNCHANGED <<telemetryBusy, state, widgets>>

RunIdle ==
  /\ idle # <<>>
  /\ idle' = Tail(idle)
  /\ LET cb == Head(idle)
     IN RunSync(cb) \/ RunPoll(cb) \/ RunReport(cb) \/ RunClear(cb)
  /\ UNCHANGED <<visible, telemetryGen, timers, toggles, tasks, saves, sub, world, excuses>>

-----------------------------------------------------------------------------
(* The goroutines.                                                          *)
Step(t, at) == tasks' = (tasks \ {t}) \cup {[t EXCEPT !.at = at]}

(* The daemon tells its subscribers of a change.                            *)
Announce == ch' = IF streaming THEN Append(ch, "changed") ELSE ch

(* The write of a save: done, refused, or, past its deadline, done although *)
(* it counts as failed.  Whether the daemon announces a change back to the  *)
(* client that made it is its own affair.                                   *)
Write(t) ==
  /\ t \in tasks
  /\ t.at = "write"
  /\ \E applied, err \in BOOLEAN :
       /\ applied \/ err
       /\ applied => up /\ daemon < MaxVersion
       /\ daemon' = IF applied THEN daemon + 1 ELSE daemon
       /\ \/ UNCHANGED ch
          \/ applied /\ Announce
       /\ Step(t, IF err THEN "failed" ELSE "done")
       /\ excuses' = IF err THEN excuses \cup {"failed"} ELSE excuses
  /\ UNCHANGED <<visible, poll, shown, toggles, idle, saves, sub, up, downs, streaming>>

(* reportError and the end, but for saveCustomBoth, which reads the state   *)
(* back even so.                                                            *)
WriteFailed(t) ==
  /\ t \in tasks
  /\ t.at = "failed"
  /\ IdleAdd(callback("error", 0, 0))
  /\ \/ tasks' = tasks \ {t}
     \/ Step(t, "read")
  /\ UNCHANGED <<visible, poll, shown, toggles, saves, sub, world, excuses>>

(* Mutant: a successful save does not read the state back.                  *)
BugSaveForgetsRead(t) ==
  /\ t \in tasks
  /\ t.at = "done"
  /\ IdleAdd(callback("clear", 0, 0))
  /\ tasks' = tasks \ {t}
  /\ UNCHANGED <<visible, poll, shown, toggles, saves, sub, world, excuses>>

(* clearErrorAsync, then refreshState on the same goroutine.                *)
WriteDone(t) ==
  /\ t \in tasks
  /\ t.at = "done"
  /\ IdleAdd(callback("clear", 0, 0))
  /\ Step(t, "read")
  /\ UNCHANGED <<visible, poll, shown, toggles, saves, sub, world, excuses>>

Read(t) ==
  /\ t \in tasks
  /\ t.at = "read"
  /\ \E got \in GetState :
       /\ tasks' = (tasks \ {t}) \cup {[t EXCEPT !.at = "post", !.got = got]}
       /\ IF t.does = "poll" THEN UNCHANGED excuses ELSE Excuse(got)
  /\ UNCHANGED <<visible, poll, shown, toggles, idle, saves, sub, world>>

Post(t) ==
  /\ t \in tasks
  /\ t.at = "post"
  /\ IdleAdd(CASE t.does = "fetch" -> Answer("sync", t.got, 0)
               [] t.does = "save" -> Answer("refresh", t.got, 0)
               [] t.does = "poll" -> Answer("poll", t.got, t.id))
  /\ tasks' = tasks \ {t}
  /\ UNCHANGED <<visible, poll, shown, toggles, saves, sub, world, excuses>>

TaskStep(t) == Write(t) \/ WriteFailed(t) \/ WriteDone(t) \/ Read(t) \/ Post(t)

-----------------------------------------------------------------------------
(* subscribeLoop: one goroutine, so its own reads follow one another.       *)

(* Subscribe; while it fails the loop sleeps and tries again.               *)
Connect ==
  /\ sub.at = "connect"
  /\ up
  /\ sub' = [sub EXCEPT !.at = "listen"]
  /\ streaming' = TRUE
  /\ UNCHANGED <<visible, poll, shown, toggles, idle, tasks, saves, daemon, up, downs, ch, excuses>>

(* gui-toggle: suppressed by the gate, if it comes within the burst window, *)
(* or handed to the GTK thread.                                             *)
TakeToggle ==
  /\ sub.at = "listen"
  /\ ch # <<>> /\ Head(ch) = "toggle"
  /\ ch' = Tail(ch)
  /\ \/ UNCHANGED toggles
     \/ toggles = 0 /\ toggles' = 1
  /\ UNCHANGED <<visible, poll, shown, idle, tasks, saves, sub, daemon, up, downs, streaming, excuses>>

(* power-source and state-changed: refreshState, inline.                    *)
TakeChanged ==
  /\ sub.at = "listen"
  /\ ch # <<>> /\ Head(ch) = "changed"
  /\ ch' = Tail(ch)
  /\ \E got \in GetState : sub' = [at |-> "post", got |-> got] /\ Excuse(got)
  /\ UNCHANGED <<visible, poll, shown, toggles, idle, tasks, saves, daemon, up, downs, streaming>>

PostChanged ==
  /\ sub.at = "post"
  /\ IdleAdd(Answer("refresh", sub.got, 0))
  /\ sub' = [at |-> "listen", got |-> 0]
  /\ UNCHANGED <<visible, poll, shown, toggles, tasks, saves, world, excuses>>

(* Mutant: the loop ends with its first connection.                         *)
BugStreamEndsLoop ==
  /\ sub.at = "listen"
  /\ ~streaming /\ ch = <<>>
  /\ sub' = [sub EXCEPT !.at = "ended"]
  /\ UNCHANGED <<visible, poll, shown, toggles, idle, tasks, saves, world, excuses>>

(* The event channel is closed, and drained.                                *)
StreamEnds ==
  /\ sub.at = "listen"
  /\ ~streaming /\ ch = <<>>
  /\ sub' = [sub EXCEPT !.at = "connect"]
  /\ UNCHANGED <<visible, poll, shown, toggles, idle, tasks, saves, world, excuses>>

SubscribeStep == Connect \/ TakeToggle \/ TakeChanged \/ PostChanged \/ StreamEnds

-----------------------------------------------------------------------------
(* The world.                                                               *)

(* Another client changes the daemon's state.                               *)
Change ==
  /\ up
  /\ daemon < MaxVersion
  /\ daemon' = daemon + 1
  /\ Announce
  /\ excuses' = IF streaming THEN excuses ELSE excuses \cup {"missed"}
  /\ UNCHANGED <<visible, poll, shown, toggles, idle, tasks, saves, sub, up, downs, streaming>>

(* The Armoury Crate button.                                                *)
PressToggle ==
  /\ streaming
  /\ ch = <<>>
  /\ ch' = <<"toggle">>
  /\ UNCHANGED <<visible, poll, shown, toggles, idle, tasks, saves, sub, daemon, up, downs, streaming, excuses>>

GoDown ==
  /\ up
  /\ downs < MaxDowns
  /\ up' = FALSE
  /\ downs' = downs + 1
  /\ streaming' = FALSE
  /\ UNCHANGED <<visible, poll, shown, toggles, idle, tasks, saves, sub, daemon, ch, excuses>>

ComeUp ==
  /\ ~up
  /\ up' = TRUE
  /\ UNCHANGED <<visible, poll, shown, toggles, idle, tasks, saves, sub, daemon, downs, streaming, ch, excuses>>

(* One step of the goroutine that open or save number id started.           *)
Goroutine(does, id) == \E t \in tasks : t.does = does /\ t.id = id /\ TaskStep(t)

Next ==
  \/ Toggle \/ Dismiss \/ ShowCustomView \/ Save \/ DismissError \/ RunIdle
  \/ \E g \in 1..MaxGen : TelemetryTick(g)
  \/ \E does \in {"fetch", "save", "poll"}, id \in 0..(MaxGen + MaxSaves) :
       Goroutine(does, id)
  \/ SubscribeStep
  \/ Change \/ PressToggle \/ GoDown \/ ComeUp

Spec == Init /\ [][Next]_vars

(* GLib runs its timeouts and drains the idle queue, the Go scheduler runs  *)
(* its goroutines, and every call returns within its deadline.  The user    *)
(* and the daemon owe nothing.                                              *)
FairSpec ==
  /\ Spec
  /\ WF_vars(RunIdle) /\ WF_vars(SubscribeStep)
  /\ \A g \in 1..MaxGen : WF_vars(TelemetryTick(g)) /\ WF_vars(Goroutine("poll", g))

-----------------------------------------------------------------------------
(* The widgets show what the daemon has, once everything has settled, when  *)
(* nothing but what is in allowed has come in between since the drawer was  *)
(* opened in quiet.                                                         *)
ShowsDaemonDespite(allowed) ==
  Settled /\ visible /\ excuses \subseteq allowed => widgets = daemon

(* Opening, saving and hearing of others' changes each bring the widgets up *)
(* to date, as long as no two reads overlap, no read or write fails and no  *)
(* change is made while the subscription is down (Toggle, refreshState,     *)
(* subscribeLoop).                                                          *)
SettledShowsDaemon == ShowsDaemonDespite({})

(* "so the drawer never shows values another client (CLI, autoswitch, a     *)
(* resume) has already moved" (gui.go:481-482), once the subscription is    *)
(* back, when the change was made while it was down.                        *)
ReconnectCatchesUp ==
  sub.at = "listen" /\ streaming => ShowsDaemonDespite({"missed"})

Polls == {t \in tasks : t.does = "poll"}
Replies == {i \in 1..Len(idle) : idle[i].do = "poll"}

(* One telemetry request at a time, across closes and re-opens: the busy    *)
(* flag stands for exactly one request or reply (tdp.go:961-963).           *)
BusyIsOwned ==
  Cardinality(Polls) + Cardinality(Replies) = IF telemetryBusy THEN 1 ELSE 0

(* The error bar is never up in a closed drawer: a report that comes after  *)
(* the close is suppressed, and the close takes down what was shown, so the *)
(* next open starts without a stale failure (errbar.go:106-109).            *)
ErrorOnlyWhileOpen == errBar => visible

(* A drawer that stays open goes on polling, whatever replies of an earlier *)
(* open were in flight ("leaving it set would stop the poll for good").     *)
PollGoesOn ==
  <>[]visible => []<>(Polls # {}) /\ []<>(Polls = {})

(* The subscription is restored when the daemon comes back and stays.       *)
SubscriptionReturns ==
  <>[]up => <>[]streaming
=============================================================================
