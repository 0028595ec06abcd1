---------------------------- MODULE DrawerInput -----------------------------
(***************************************************************************)
(* Who has the controllers: the drawer or the game (internal/gui/gui.go,   *)
(* Window.show and Window.hide, composed with the gamepad reader).         *)
(*                                                                         *)
(* Opening the drawer takes the controllers twice over: the gamepad reader *)
(* grabs the evdev nodes, and under gamescope a blocker stops Steam from   *)
(* reading the hidraw nodes.  Neither may run on the GTK thread, so show   *)
(* and hide only flip the flag and start goroutines, which the scheduler   *)
(* runs in any order:                                                      *)
(*                                                                         *)
(*   show    SetGrabbed(gen, true)                                         *)
(*           BlockSteam (find Steam in /proc, block it), then an idle      *)
(*           callback on the GTK thread that records the PID, or unblocks  *)
(*           at once when the drawer has closed meanwhile                  *)
(*   hide    without a blocker: SetGrabbed(gen, false)                     *)
(*           with one: wait 200ms, UnblockSteam, SetGrabbed(gen, false)    *)
(*                                                                         *)
(* The parts of show and hide that move focus, clear the error bar, poll   *)
(* telemetry and animate the window touch none of this state.              *)
(***************************************************************************)
EXTENDS GrabReader, Sequences

CONSTANT MaxGen  \* bound on grabGen: how many times show and hide run

ASSUME DrawerInputAssumption == MaxGen \in Nat

VARIABLES
  hasBlocker,  \* Window.steamBlocker # nil: New found a gamescope session
  visible,     \* Window.visible
  grabGen,     \* Window.grabGen
  steamPID,    \* Window.steamPID # 0
  grabCalls,   \* goroutines about to call SetGrabbed
  blockTasks,  \* show's goroutines in BlockSteam, or about to call IdleAdd
  releases,    \* hide's goroutines under gamescope, from the sleep on
  idle,        \* GTK idle queue: the PIDs (as # 0) of BlockSteam callbacks
  steam,       \* external: Steam is running
  blocked,     \* external: the blocker keeps Steam from reading controllers
  missed       \* history: a report of nothing blocked overwrote the PID on record

externalSteam == <<steam, missed>>
steamVars == <<hasBlocker, steamPID, blockTasks, releases, idle, steam,
               blocked, missed>>
windowVars == <<visible, grabGen, grabCalls>>
vars == <<readerVars, windowVars, steamVars>>

Gens == 1..MaxGen
GrabCall == [gen : Gens, grab : BOOLEAN]
BlockTask == [gen : Gens, pc : {"find", "block", "post"}, pid : BOOLEAN]
Release == [gen : Gens, pc : {"unblock", "ungrab"}, pid : BOOLEAN]

TypeOK ==
  /\ ReaderTypeOK
  /\ hasBlocker \in BOOLEAN
  /\ visible \in BOOLEAN
  /\ grabGen \in 0..MaxGen
  /\ steamPID \in BOOLEAN
  /\ grabCalls \subseteq GrabCall
  /\ blockTasks \subseteq BlockTask
  /\ releases \subseteq Release
  /\ idle \in Seq(BOOLEAN)
  /\ steam \in BOOLEAN
  /\ blocked \in BOOLEAN
  /\ missed \in BOOLEAN

Init ==
  /\ ReaderInit
  /\ hasBlocker \in BOOLEAN
  /\ visible = FALSE
  /\ grabGen = 0
  /\ steamPID = FALSE
  /\ grabCalls = {}
  /\ blockTasks = {}
  /\ releases = {}
  /\ idle = <<>>
  /\ steam \in BOOLEAN
  /\ blocked = FALSE
  /\ missed = FALSE

-----------------------------------------------------------------------------
(* The GTK thread.                                                          *)

(* Mutant: the generation advances twice.                                   *)
BugShowTwoGens ==
  /\ ~visible
  /\ grabGen < MaxGen
  /\ visible' = TRUE
  /\ grabGen' = grabGen + 2
  /\ grabCalls' = grabCalls \cup {[gen |-> grabGen', grab |-> TRUE]}
  /\ UNCHANGED <<readerVars, hasBlocker, steamPID,
                 blockTasks, releases, idle, blocked, externalSteam>>

(* show, which Toggle calls only when the drawer is not visible.            *)
Show ==
  /\ ~visible
  /\ grabGen < MaxGen
  /\ visible' = TRUE
  /\ grabGen' = grabGen + 1
  /\ grabCalls' = grabCalls \cup {[gen |-> grabGen', grab |-> TRUE]}
  /\ blockTasks' = IF hasBlocker
       THEN blockTasks \cup {[gen |-> grabGen', pc |-> "find", pid |-> FALSE]}
       ELSE blockTasks
  /\ UNCHANGED <<readerVars, hasBlocker, steamPID, releases, idle, blocked,
                 externalSteam>>

(* Mutants: hide clears steamPID before it captures it; hide reuses the     *)
(* generation of the show it undoes.                                        *)
BugHideForgetsPID ==
  /\ grabGen < MaxGen
  /\ visible' = FALSE
  /\ grabGen' = grabGen + 1
  /\ releases' = releases \cup
       {[gen |-> grabGen', pc |-> "unblock", pid |-> FALSE]}
  /\ steamPID' = FALSE
  /\ UNCHANGED <<readerVars, hasBlocker, grabCalls, blockTasks, idle, blocked,
                 externalSteam>>
BugHideReusesGen ==
  /\ visible
  /\ visible' = FALSE
  /\ grabCalls' = grabCalls \cup {[gen |-> grabGen, grab |-> FALSE]}
  /\ UNCHANGED <<readerVars, grabGen, steamVars>>

(* hide, from Toggle, Escape, the Back button or a lost focus.  All but     *)
(* Toggle call it without testing visible (a second Back already queued, an *)
(* Escape during the slide-out), so it may run on a hidden drawer too.      *)
Hide ==
  /\ grabGen < MaxGen
  /\ visible' = FALSE
  /\ grabGen' = grabGen + 1
  /\ IF hasBlocker
       THEN /\ releases' = releases \cup
                 {[gen |-> grabGen', pc |-> "unblock", pid |-> steamPID]}
            /\ steamPID' = FALSE
            /\ UNCHANGED grabCalls
       ELSE /\ grabCalls' = grabCalls \cup {[gen |-> grabGen', grab |-> FALSE]}
            /\ UNCHANGED <<releases, steamPID>>
  /\ UNCHANGED <<readerVars, hasBlocker, blockTasks, idle, blocked, externalSteam>>

(* UnblockSteam(pid): nothing for PID 0, else everything is unblocked.      *)
(* (UnblockAll collects the keys first and deletes them after; for the one  *)
(* key this flag stands for, that is a single step: the delete when the key *)
(* was collected, the collection when it was not there.)                    *)
UnblockSteam(pid) ==
  /\ blocked' = IF pid THEN FALSE ELSE blocked
  /\ missed' = IF pid THEN FALSE ELSE missed

(* Mutant: the PID is recorded although the drawer has closed.              *)
BugRecordWhenClosed ==
  /\ idle # <<>>
  /\ idle' = Tail(idle)
  /\ steamPID' = Head(idle)
  /\ UNCHANGED <<readerVars, windowVars, hasBlocker, blockTasks, releases, blocked,
                 externalSteam>>

(* The idle callback of show's BlockSteam goroutine.                        *)
RecordBlock ==
  /\ idle # <<>>
  /\ idle' = Tail(idle)
  /\ IF visible
       THEN /\ steamPID' = Head(idle)
            /\ missed' = (~Head(idle) /\ (steamPID \/ missed))
            /\ UNCHANGED blocked
       ELSE UnblockSteam(Head(idle)) /\ UNCHANGED steamPID
  /\ UNCHANGED <<readerVars, windowVars, hasBlocker, blockTasks, releases, steam>>

-----------------------------------------------------------------------------
(* The goroutines.                                                          *)

(* SetGrabbed from show, and from hide outside gamescope.                   *)
CallSetGrabbed(c) ==
  /\ c \in grabCalls
  /\ grabCalls' = grabCalls \ {c}
  /\ SetGrabbed(c.gen, c.grab)
  /\ UNCHANGED <<visible, grabGen, steamVars>>

(* BlockSteam: FindSteamPID has walked /proc.                               *)
FindSteam(t) ==
  /\ t \in blockTasks
  /\ t.pc = "find"
  /\ blockTasks' = (blockTasks \ {t}) \cup
       {[t EXCEPT !.pc = IF steam THEN "block" ELSE "post", !.pid = steam]}
  /\ UNCHANGED <<readerVars, windowVars, hasBlocker, steamPID, releases, idle,
                 blocked, externalSteam>>

(* BlockSteam: Steam is blocked (BPF map entry, or SIGSTOP).                *)
BlockSteam(t) ==
  /\ t \in blockTasks
  /\ t.pc = "block"
  /\ blocked' = TRUE
  /\ blockTasks' = (blockTasks \ {t}) \cup {[t EXCEPT !.pc = "post"]}
  /\ UNCHANGED <<readerVars, windowVars, hasBlocker, steamPID, releases, idle,
                 externalSteam>>

(* It cannot be: no room in the BPF map (an entry that is there is          *)
(* replaced even in a full one), or Steam is gone before the signal.  The   *)
(* caller gets PID 0, as if no Steam had been found.                        *)
BlockFails(t) ==
  /\ t \in blockTasks
  /\ t.pc = "block"
  /\ ~blocked
  /\ blockTasks' = (blockTasks \ {t}) \cup {[t EXCEPT !.pc = "post", !.pid = FALSE]}
  /\ UNCHANGED <<readerVars, windowVars, hasBlocker, steamPID, releases, idle,
                 blocked, externalSteam>>

(* glib.IdleAdd: the callback joins the idle queue and the goroutine ends.  *)
PostBlocked(t) ==
  /\ t \in blockTasks
  /\ t.pc = "post"
  /\ blockTasks' = blockTasks \ {t}
  /\ idle' = Append(idle, t.pid)
  /\ UNCHANGED <<readerVars, windowVars, hasBlocker, steamPID, releases, blocked,
                 externalSteam>>

(* Mutant: the goroutine ends once Steam is unblocked.                      *)
BugReleaseOnlyUnblocks(r) ==
  /\ r \in releases
  /\ r.pc = "unblock"
  /\ UnblockSteam(r.pid)
  /\ releases' = releases \ {r}
  /\ UNCHANGED <<readerVars, windowVars, hasBlocker, steamPID, blockTasks, idle, steam>>

(* hide's goroutine under gamescope, after its 200ms sleep: UnblockSteam... *)
ReleaseUnblock(r) ==
  /\ r \in releases
  /\ r.pc = "unblock"
  /\ UnblockSteam(r.pid)
  /\ releases' = (releases \ {r}) \cup {[r EXCEPT !.pc = "ungrab"]}
  /\ UNCHANGED <<readerVars, windowVars, hasBlocker, steamPID, blockTasks, idle, steam>>

(* ... and then SetGrabbed, which drops the request if a show came since.   *)
ReleaseUngrab(r) ==
  /\ r \in releases
  /\ r.pc = "ungrab"
  /\ releases' = releases \ {r}
  /\ SetGrabbed(r.gen, FALSE)
  /\ UNCHANGED <<windowVars, hasBlocker, steamPID, blockTasks, idle, blocked,
                 externalSteam>>

-----------------------------------------------------------------------------
(* Steam starts while z13gui is running.                                    *)
LaunchSteam ==
  /\ ~steam
  /\ steam' = TRUE
  /\ UNCHANGED <<readerVars, windowVars, hasBlocker, steamPID, blockTasks,
                 releases, idle, blocked, missed>>

Devices == DeviceNext /\ UNCHANGED <<windowVars, steamVars>>

(* One step of a goroutine that show or hide number g started.              *)
GrabStep(g) == \E c \in grabCalls : c.gen = g /\ CallSetGrabbed(c)
BlockStep(g) == \E t \in blockTasks :
                  /\ t.gen = g
                  /\ FindSteam(t) \/ BlockSteam(t) \/ BlockFails(t) \/ PostBlocked(t)
ReleaseStep(g) == \E r \in releases :
                    r.gen = g /\ (ReleaseUnblock(r) \/ ReleaseUngrab(r))

Next ==
  \/ Show \/ Hide \/ RecordBlock
  \/ \E g \in Gens : GrabStep(g) \/ BlockStep(g) \/ ReleaseStep(g)
  \/ LaunchSteam \/ Devices

Spec == Init /\ [][Next]_vars

(* The Go scheduler runs every runnable goroutine (a finished sleep makes   *)
(* one runnable), and the GTK main loop drains its idle queue.  The user    *)
(* and the hardware owe nothing.                                            *)
Fairness ==
  /\ WF_vars(RecordBlock)
  /\ \A g \in Gens : /\ WF_vars(GrabStep(g))
                     /\ WF_vars(BlockStep(g))
                     /\ WF_vars(ReleaseStep(g))

FairSpec == Spec /\ Fairness

-----------------------------------------------------------------------------
(* No show or hide still has work in flight.                                *)
Settled ==
  /\ grabCalls = {}
  /\ blockTasks = {}
  /\ releases = {}
  /\ idle = <<>>

(* Requests to grab the devices are applied in the order the GTK thread     *)
(* issued them, stale ones dropped: as soon as the newest request has run,  *)
(* the reader wants the devices exactly when the drawer is open, however    *)
(* many older requests are still on their way (gui.go grabGen, gamepad.go   *)
(* SetGrabbed).                                                             *)
NewestIntent ==
  grabSeq = grabGen => grabbed = visible

(* From here on, `missed' excuses the one case in which the code loses track *)
(* of Steam: a search that found no Steam, or a block that failed, reports  *)
(* only after a later show has recorded its PID, and overwrites it.  The    *)
(* case ends with the next block on record, or a release that has a PID.    *)

(* A drawer that has settled closed has let go of every controller and of   *)
(* Steam, even when it was closed before BlockSteam had finished.           *)
ClosedReleasesAll ==
  Settled /\ ~visible => held = {} /\ (blocked => missed)

(* A drawer that has settled open has every connected controller, but for   *)
(* those another client keeps, and knows what it has to give back.          *)
OpenHoldsControllers ==
  Settled /\ visible =>
    /\ (tracked \cap live) \ Contested \subseteq held
    /\ blocked => steamPID \/ missed

(* Steam is never blocked without somebody left to unblock it: a goroutine  *)
(* of show that has not reported back, its report in the idle queue, the    *)
(* PID on record, or a release that has not run yet; but for a PID that was *)
(* overwritten, as said.                                                    *)
BlockHasOwner ==
  blocked =>
    \/ steamPID
    \/ \E t \in blockTasks : t.pc = "post" /\ t.pid
    \/ \E i \in 1..Len(idle) : idle[i]
    \/ \E r \in releases : r.pc = "unblock" /\ r.pid
    \/ missed

(* The blocker suppresses Steam while the overlay is visible (the contract  *)
(* of SteamInputBlocker, steam.go:88-89): once an open drawer has settled   *)
(* and has the PID of the Steam it blocked on record, Steam is blocked.     *)
OpenSuppressesSteam ==
  Settled /\ visible /\ steamPID => blocked

(* A drawer that stays closed hands everything back in the end.             *)
ClosedEventuallyReleases ==
  <>[]~visible => <>[](held = {} /\ (blocked => missed))

-----------------------------------------------------------------------------
(* The grab requests newer than the last one applied, whichever goroutine   *)
(* carries them.                                                            *)
Requests ==
  grabCalls \cup {[gen |-> r.gen, grab |-> FALSE] : r \in releases}

(* What show and hide rely on: the reader takes their requests in the order *)
(* of issue, possibly skipping some, never going back, and gets to the end. *)
Order == INSTANCE GrabOrder WITH
  issued <- grabGen,
  last <- grabSeq,
  has <- grabbed,
  ahead <- {q \in Requests : q.gen > grabSeq}

(* The two kinds of goroutines, their generations and the reader's guard    *)
(* implement the ordered register.                                          *)
GrabsInOrder == Order!FairSpec
=============================================================================
