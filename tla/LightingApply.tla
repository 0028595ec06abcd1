--------------------------- MODULE LightingApply ----------------------------
(***************************************************************************)
(* From a control of the open drawer to the hardware: the lighting of the  *)
(* keyboard and the lightbar, and the battery limit (internal/gui/sync.go; *)
(* the tabs and buttons in controls.go and color.go).                      *)
(*                                                                         *)
(* One set of lighting controls serves two devices: a tab says which, and  *)
(* switching it fills the controls from Window.state, the last snapshot of *)
(* the daemon.  Buttons apply at once; sliders wait 150ms (the battery's   *)
(* 200ms) for the next movement, and read every control when the wait is   *)
(* over.  Each apply is a goroutine with a request of its own.             *)
(*                                                                         *)
(* What the daemon reports need not be complete: a device may have no mode, *)
(* a mode this build has no button for, an empty or unreadable colour, or   *)
(* no entry at all, and the battery no limit.  The controls then show a     *)
(* default or go on showing what they did, if only the other tab's colour.  *)
(*                                                                         *)
(* Of a setting are kept an effect (mode and speed), a colour and a level   *)
(* (the brightness, or the battery's limit).  No other client interferes    *)
(* here: see StateSync.                                                    *)
(***************************************************************************)
EXTENDS Naturals, Sequences

CONSTANTS
  Effects,        \* what the mode and speed buttons choose, but for "off"
  DefaultEffect,  \* DefaultMode at DefaultSpeed
  Colors,
  Initially,      \* what the daemon may have to begin with
  MaxLevel,       \* the end of the scales, where the brightness is by default
  MaxChanges      \* bound on the user's changes

ASSUME LightingApplyAssumption ==
  /\ DefaultEffect \in Effects /\ Effects \cap {"off", "unset"} = {}
  /\ Colors # {} /\ "none" \notin Colors
  /\ MaxLevel \in Nat \ {0} /\ MaxChanges \in Nat

Tabs == {"keyboard", "lightbar"}
Devices == Tabs \cup {"battery"}
Sections == {"lighting", "battery"}
Modes == Effects \cup {"off"}
(* What the controls show.  Of the battery only the level counts.           *)
Settings == [mode : Modes, color : Colors, level : 0..MaxLevel]
(* What the daemon has; "unset" and "none" stand for what it does not say,  *)
(* as does the battery's level 0.                                           *)
Entries == [mode : Modes \cup {"unset"}, color : Colors \cup {"none"}, level : 0..MaxLevel]
Snapshots == [Devices -> Entries]
ASSUME InitiallyAssumption == Initially \subseteq Snapshots

Off == [mode |-> "off", color |-> "none", level |-> 0]
Excuses == {"tab", "stale", "sync", "order", "failed"}

VARIABLES
  tab,        \* Window.tab
  shown,      \* what the controls of each section show
  state,      \* Window.state
  timers,     \* sections whose debounce timer is running
  idle,       \* GTK idle queue
  applies,    \* goroutines that have yet to reach the daemon
  reads,      \* goroutines holding a snapshot of the daemon's state
  hw,         \* external: the settings in force
  want,       \* history: what each device had, with what the user chose since
  touched,    \* history: the devices the user has changed
  dimmed,     \* history: the devices that came lit at level 0, or the user set to it
  changes,    \* history: how many changes the user made
  sent,       \* history: how many applies were started
  excuses     \* history: what may have come between a change and its effect

controls == <<tab, shown, state, timers>>
history == <<want, touched, dimmed, changes, sent, excuses>>
vars == <<controls, idle, applies, reads, hw, history>>

Device(s) == IF s = "lighting" THEN tab ELSE "battery"

Apply == [device : Devices, setting : Settings, id : 1..(2 * MaxChanges)]
Read == [do : {"sync", "state"}, got : Snapshots]
Callback == Read \cup [do : {"apply"}, section : Sections]

TypeOK ==
  /\ tab \in Tabs
  /\ shown \in [Sections -> Settings]
  /\ {state, hw, want} \subseteq Snapshots
  /\ timers \subseteq Sections
  /\ idle \in Seq(Callback)
  /\ applies \subseteq Apply
  /\ reads \subseteq Read
  /\ touched \subseteq Devices /\ dimmed \subseteq Tabs
  /\ changes \in 0..MaxChanges /\ sent \in Nat
  /\ excuses \subseteq Excuses

-----------------------------------------------------------------------------
(* Mutant: lighting that is off is filled like any other.                   *)
BugFillDark(s, e, now) ==
  IF s = "battery" THEN [now EXCEPT !.level = IF e.level = 0 THEN @ ELSE e.level]
  ELSE [mode  |-> IF e.mode = "unset" THEN DefaultEffect ELSE e.mode,
        color |-> IF e.color = "none" THEN now.color ELSE e.color,
        level |-> e.level]

(* What section s shows for the entry e if it showed now: lighting that is  *)
(* off looks as bright as can be, a colour not stated stays as it was.      *)
Fill(s, e, now) ==
  IF s = "battery" THEN [now EXCEPT !.level = IF e.level = 0 THEN @ ELSE e.level]
  ELSE [mode  |-> IF e.mode = "unset" THEN DefaultEffect ELSE e.mode,
        color |-> IF e.color = "none" THEN now.color ELSE e.color,
        level |-> IF e.mode = "off" THEN MaxLevel ELSE e.level]

(* The setting `have` is as `wished`, in all that `wished` states; nothing  *)
(* but its mode tells of lighting that is off.                              *)
Meets(d, have, wished) ==
  IF d = "battery" THEN wished.level \in {0, have.level}
  ELSE /\ have.mode = "off" <=> wished.mode = "off"
       /\ wished.mode # "off" =>
            /\ wished.mode \in {"unset", have.mode}
            /\ wished.color \in {"none", have.color}
            /\ wished.level = have.level

(* Open, in quiet, after a sync, with whatever the daemon has.              *)
Init ==
  /\ tab = "keyboard"
  /\ hw \in Initially
  /\ state = hw /\ want = hw
  /\ \E before \in [mode : {DefaultEffect}, color : Colors, level : {MaxLevel}] :
       shown = [s \in Sections |-> Fill(s, hw[Device(s)], before)]
  /\ timers = {}
  /\ idle = <<>>
  /\ applies = {}
  /\ reads = {}
  /\ touched = {} /\ changes = 0 /\ sent = 0
  /\ dimmed = {d \in Tabs : hw[d].mode # "off" /\ hw[d].level = 0}
  /\ excuses = {}

-----------------------------------------------------------------------------
Excuse(x, if) == excuses' = IF if THEN excuses \cup {x} ELSE excuses

Pending(s) == s \in timers \/ \E i \in 1..Len(idle) :
                                 idle[i].do = "apply" /\ idle[i].section = s

(* Mutant: nothing tells the drawer's own filling from the user's hand.     *)
BugValueChanged(S, syncing) == timers' = timers \cup S

(* The handlers of a slider or colour that changes in the sections S, moved *)
(* by the user or by the drawer, which is `syncing` then: they (re)start    *)
(* the section's timer.                                                     *)
ValueChanged(S, syncing) == timers' = IF syncing THEN timers ELSE timers \cup S

(* Mutant: the goroutine asks for the tab itself, whichever is in front by  *)
(* then.                                                                    *)
BugSendLateTab(s, setting) ==
  /\ sent' = sent + 1
  /\ \E d \in IF s = "lighting" THEN Tabs ELSE {"battery"} :
       applies' = applies \cup {[device |-> d, setting |-> setting, id |-> sent']}
  /\ Excuse("order", \E a \in applies : a.device = Device(s))

(* sendApply, or the battery's goroutine: the controls are read here, on    *)
(* the GTK thread, and the tab with them.                                   *)
send(s, setting) ==
  /\ sent' = sent + 1
  /\ applies' = applies \cup
       {[device |-> Device(s), setting |-> setting, id |-> sent']}
  /\ Excuse("order", \E a \in applies : a.device = Device(s))

(* The user changes section s to `setting`, and wishes for `wished`.        *)
Chosen(s, setting, wished) ==
  /\ changes < MaxChanges
  /\ changes' = changes + 1
  /\ touched' = touched \cup {Device(s)}
  /\ shown' = [shown EXCEPT ![s] = setting]
  /\ want' = [want EXCEPT ![Device(s)] = wished]

(* A slider of the section in front moves, the brightness or the battery's  *)
(* limit, or the colour wheel.  Lighting that is off shows none of them.    *)
Slide(s) ==
  LET now == shown[s]
      old == want[Device(s)]
  IN /\ s = "lighting" => now.mode # "off"
     /\ \/ \E v \in 0..MaxLevel :
             /\ v # now.level
             /\ s = "battery" => v # 0
             /\ Chosen(s, [now EXCEPT !.level = v], [old EXCEPT !.level = v])
             /\ dimmed' = dimmed \cup {d \in {Device(s)} : v = 0}
        \/ \E c \in Colors :
             /\ s = "lighting" /\ c # now.color
             /\ Chosen(s, [now EXCEPT !.color = c], [old EXCEPT !.color = c])
             /\ UNCHANGED dimmed
     /\ ValueChanged({s}, FALSE)
     /\ UNCHANGED <<tab, state, idle, applies, reads, hw, sent, excuses>>

(* A mode, speed or preset button, be it the one that is lit: sendApply at  *)
(* once.  Out of "off" the user takes all the drawer shows.                 *)
Choose ==
  LET now == shown["lighting"]
      old == IF now.mode = "off" THEN now ELSE want[tab]
  IN /\ \/ \E m \in Modes :
             Chosen("lighting", [now EXCEPT !.mode = m], [old EXCEPT !.mode = m])
        \/ \E c \in Colors :
             /\ now.mode # "off"
             /\ Chosen("lighting", [now EXCEPT !.color = c], [old EXCEPT !.color = c])
     /\ send("lighting", shown'["lighting"])
     /\ UNCHANGED <<tab, state, timers, idle, reads, hw, dimmed>>

(* The debounce timer expires and posts its callback.                       *)
Expire(s) ==
  /\ s \in timers
  /\ timers' = timers \ {s}
  /\ idle' = Append(idle, [do |-> "apply", section |-> s])
  /\ UNCHANGED <<tab, shown, state, applies, reads, hw, history>>

(* The other tab: the controls are filled from state, with the handlers     *)
(* suppressed (syncing), and a running timer goes on running.               *)
SelectTab(t) ==
  LET filled == Fill("lighting", state[t], shown["lighting"])
  IN /\ t # tab
     /\ tab' = t
     /\ shown' = [shown EXCEPT !["lighting"] = filled]
     /\ ValueChanged({"lighting"}, TRUE)
     /\ excuses' = excuses
          \cup {x \in {"tab"} : Pending("lighting")}
          \cup {x \in {"stale"} : ~Meets(t, state[t], want[t])}
     /\ UNCHANGED <<state, idle, applies, reads, hw, want, touched, dimmed, changes, sent>>

(* Mutant: the snapshot's setting is sent, not that of the controls.        *)
BugApplyOfState ==
  /\ idle # <<>> /\ Head(idle).do = "apply"
  /\ idle' = Tail(idle)
  /\ LET s == Head(idle).section IN send(s, state[Device(s)])
  /\ UNCHANGED <<controls, reads, hw, want, touched, dimmed, changes>>

(* The next idle callback: an apply, ...                                    *)
RunApply ==
  /\ idle # <<>> /\ Head(idle).do = "apply"
  /\ idle' = Tail(idle)
  /\ LET s == Head(idle).section IN send(s, shown[s])
  /\ UNCHANGED <<controls, reads, hw, want, touched, dimmed, changes>>

(* Nothing the user did is still on its way.                                *)
Quiet ==
  /\ timers = {}
  /\ \A i \in 1..Len(idle) : idle[i].do # "apply"
  /\ applies = {}

(* ... the answer of a telemetry poll or of refreshState, which leave these *)
(* controls alone, or that of an open, which fills them.  An open in quiet  *)
(* that shows what the daemon has settles all that may have gone wrong: the *)
(* user sees it, and what counts from here on is what is chosen next.       *)
RunRead ==
  /\ idle # <<>> /\ Head(idle).do # "apply"
  /\ idle' = Tail(idle)
  /\ LET got == Head(idle).got
     IN /\ state' = got
        /\ IF Head(idle).do = "sync"
             THEN /\ shown' = [s \in Sections |-> Fill(s, got[Device(s)], shown[s])]
                  /\ ValueChanged(Sections, TRUE)
                  /\ IF Quiet /\ got = hw
                       THEN /\ excuses' = {}
                            /\ want' = [d \in Devices |-> IF d \in touched THEN got[d] ELSE want[d]]
                       ELSE /\ Excuse("sync", \E d \in Devices : ~Meets(d, got[d], want[d]))
                            /\ UNCHANGED want
             ELSE UNCHANGED <<shown, timers, want, excuses>>
  /\ UNCHANGED <<tab, applies, reads, hw, touched, dimmed, changes, sent>>

-----------------------------------------------------------------------------
(* An apply reaches the daemon.  SendOff clears all the rest of a device's  *)
(* entry.                                                                   *)
Reach(a) ==
  /\ a \in applies
  /\ applies' = applies \ {a}
  /\ hw' = [hw EXCEPT ![a.device] =
              IF a.device \in Tabs /\ a.setting.mode = "off" THEN Off ELSE a.setting]
  /\ UNCHANGED <<controls, idle, reads, history>>

(* It fails, and says so in the error bar.                                  *)
Fail(a) ==
  /\ a \in applies
  /\ applies' = applies \ {a}
  /\ Excuse("failed", TRUE)
  /\ UNCHANGED <<controls, idle, reads, hw, want, touched, dimmed, changes, sent>>

(* A snapshot is read: by a poll or a refresh, or by the fetch of an open   *)
(* that the user was quicker than; one at a time (telemetryBusy), two at    *)
(* once are StateSync's concern.                                            *)
ReadState(do) ==
  /\ reads = {}
  /\ \A i \in 1..Len(idle) : idle[i].do = "apply"
  /\ reads' = {[do |-> do, got |-> hw]}
  /\ UNCHANGED <<controls, idle, applies, hw, history>>

PostRead(r) ==
  /\ r \in reads
  /\ reads' = reads \ {r}
  /\ idle' = Append(idle, r)
  /\ UNCHANGED <<controls, applies, hw, history>>

Next ==
  \/ \E s \in Sections : Slide(s) \/ Expire(s)
  \/ Choose \/ RunApply \/ RunRead
  \/ \E t \in Tabs : SelectTab(t)
  \/ \E a \in applies : Reach(a) \/ Fail(a)
  \/ \E do \in {"sync", "state"} : ReadState(do)
  \/ \E r \in reads : PostRead(r)

Spec == Init /\ [][Next]_vars

-----------------------------------------------------------------------------
AppliedDespite(allowed) ==
  Quiet /\ excuses \subseteq allowed =>
    \A d \in Devices : Meets(d, hw[d], want[d])

(* What the user chose for each device is in force once everything is       *)
(* quiet, with all else the device had, through any mix of sliders,         *)
(* buttons, tabs and state updates.  Five events excuse a loss, up to the   *)
(* next open in quiet: a tab switched within the wait, a tab or an open     *)
(* filled from a snapshot older than the choice, two applies under way at   *)
(* once, a failure (queueApply, sendApply, syncState).                      *)
ChangesTakeEffect == AppliedDespite({})

(* "Changes take effect immediately and are sent to the z13ctl daemon"      *)
(* (docs/getting-started.md:30), when the tab is switched within the wait.  *)
TabSwitchLosesNothing == AppliedDespite({"tab"})

(* Filling the controls never writes back: every apply answers a change the *)
(* user made (the syncing guards of queueApply and initBatteryDebounce).    *)
NoEcho == sent <= changes

(* A device the user has not touched keeps all that the daemon stated of    *)
(* it, whichever tab is in front when a timer of the other device runs out  *)
(* and writes to this one what its controls were filled with (sendApply,    *)
(* syncLightingSection).  What the daemon left open may become a default,   *)
(* or the colour of the other tab.                                          *)
UntouchedKeepsSetting ==
  \A d \in Devices \ touched : Meets(d, hw[d], want[d])

(* A device is on and yet dark only if the user set its brightness to 0, or *)
(* it came so: never because the drawer took over the zeros of an entry     *)
(* that off has cleared and sent them back (ResolveBrightness).             *)
DarkOnlyByChoice ==
  \A d \in Tabs : hw[d].mode # "off" /\ hw[d].level = 0 => d \in dimmed
=============================================================================
