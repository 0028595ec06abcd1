# z13gui in TLA+

z13gui is the drawer that slides in when the Armoury Crate button of a ROG Flow
Z13 is pressed: a GTK4 window in Go that drives the `z13ctl` daemon. This
directory models the parts of it in which something can go wrong that a unit
test would hardly reach, checks them with TLC on small instances and proves the
most important results with TLAPS. Paths below are relative to `src/`.

Everything here is checked with

    tlasany M.tla                       # parse
    tlc -config X.cfg M                 # model-check; runs are listed below
    tlapm DrawerInputProofs.tla         # check the proofs
    tlapm KeyRepeatProofs.tla
    tlapm SessionProofs.tla
    tlapm StateSyncProofs.tla
    tlapm LightingProofs.tla
    tlapm FocusGridProofs.tla           # GridWalk's theorems as well
    tlapm FocusNavProofs.tla
    tlapm FanEditorProofs.tla           # FanCurve's theorems as well

`PROJECT.json` lists the runs, the lines each definition stands for, the hazards
and which property covers each, and for every property a mutation of the code
(a `Bug...` operator in the modules) that the property catches.

## 1. The system

One process, many threads of control:

* the **GTK thread** runs every callback: user input, GLib timeouts, the idle
  queue. It owns all of `Window`'s fields but the ones named below;
* **goroutines**: `subscribeLoop` (one, forever), one per open, per save, per
  lighting apply, per telemetry request, the gamepad scanner, one `readLoop` per
  controller, one `holdLoop` per touchpad, one per timer callback, one per grab
  or Steam block requested. They hand results to the GTK thread with
  `glib.IdleAdd` and never touch widgets;
* **the outside**: the daemon behind a socket (other clients change its state
  too), the kernel's input devices, Steam, the compositor.

| Component | State it keeps | Operations | What makes it correct |
|---|---|---|---|
| Gamepad reader, `internal/gui/gamepad/gamepad.go` | `devices`, `grabbed`, `grabSeq` under a mutex; the kernel's grabs | `scan`, `adopt`, `SetGrabbed`, `readLoop`, `holdLoop`, `emit` | a device is grabbed exactly while the drawer wants it, whichever of plugging, scanning and opening comes first; a late request never overrides a newer one |
| Drawer window, `internal/gui/gui.go` `show`/`hide` | `visible`, `grabGen`, `steamPID` | `show`, `hide`, and the goroutines and idle callbacks they start | closed: the game has every controller and Steam is unblocked; open: the drawer has them |
| Steam blocker, `internal/gui/gamepad/steam.go`, `hidblocker/` | the BPF map, or a stopped process and a PID file | `BlockSteam`, `UnblockSteam`, `ThawFrozen` | Steam is never left blocked or stopped with nobody to undo it |
| Key repeat, `internal/keyrepeat` and the timers of `readLoop` | `active`, `action`, `gen`; `repeatTimer`; timer callbacks in flight | `Start`, `ReArm`, `Stop` | one direction repeats at a time, only while held, and never dies while it is the owner |
| Focus grid, `internal/focusgrid` | none | `FirstVisible`, `MoveVertical`, `MoveHorizontal`, `JumpSection` | never onto a hidden item; every item in reach; opposite moves undo each other |
| Focus lists, `controls.go`, `tdp.go`, `errbar.go` | the items of the four views | `build...FocusList` | (input of the grid) |
| Focus and edit mode, `focus.go`, `handleGamepadAction` | `focusIdx`, `focusList`, `gamepadActive`, `focusEditing`, `editOriginalValue` | the gamepad actions, view switches, `swapFocusList` | an edit stays on its slider, cancels exactly, and B always leads outwards |
| Daemon state, `gui.go`, `sync.go`, `tdp.go`, `errbar.go`, `internal/daemon` | `state`, the widgets, `telemetryGen`, `telemetryBusy`, the error bar | open, save, reset, poll, subscribe | the widgets show what the daemon has; one poll at a time, for ever; a failure is reported to the open that caused it |
| Lighting and battery controls, `sync.go`, `controls.go`, `color.go`, `internal/lighting` | `tab`, debounce timers, what the controls show | `queueApply`, `sendApply`, `syncLightingSection`, tab switch | what the user chose reaches the device it was chosen for, nothing is written without a choice, and no device loses what the daemon stated of it |
| Power limits and fan curve, `internal/power`, `tdp.go` | `limits`, `fanPoints`, the drag, the Reset Fans button | drag, save, reset, refresh, poll | what is drawn is what the daemon takes; the button is on offer when the action is |
| Display backends, `layershell/`, `overlay/`, `gamescope/` | `margin`, `opacity`, `progress`, `animGen`, `focusedSinceShow`, `pointerInside`, the input region; tick callbacks and focus-loss timers | `Configure`, `Show`, `Hide`, the callbacks of the frame clock, of `notify::is-active` and of the width poll | whatever interrupts whatever, an open drawer comes to rest in full view and a closed one out of sight; losing the focus closes it |
| Themes and configuration, `internal/theme` | a config file | load, save | a damaged file falls back to the default |
| Pure helpers, `colorconv`, `uiscale`, `panelgeom`, `startup` | none | functions of their arguments | covered by unit tests |
| Process entry, `main.go`, `contrib/z13gui.service` | the PID file | start, second launch, signal handler; `ExecStopPost`, `Restart` | a stopped Steam is woken on exit, after a crash, or at the next start |

How they interact: `subscribeLoop` turns the daemon's `gui-toggle` into `Toggle`,
which calls `show` or `hide`; `show` starts the grab, the Steam block, a state
fetch and the telemetry timer; the gamepad's actions are queued to
`handleGamepadAction`, which moves the focus, drives the same widgets as the
pointer and may call `hide`; widget handlers send requests from goroutines, whose
ends queue a `refreshState`; refreshes and `syncState` set widgets, whose handlers
must not write back.

What is hard about it, in short (each is a row of `hazards`, at its line): grab
and release goroutines in any order; a 200 ms delayed release across a re-open;
a block that lands after the close; timer callbacks that `Stop` cannot reach;
widgets hidden or views swapped under the focus and under an edit; snapshots and
applies out of order; a debounce that outlives its tab; a poll whose busy flag
must survive closes; a daemon that restarts; animations
that cut short each other; a process that dies with Steam stopped; a curve repaired next to a floor
that moves.

## 2. The modules

```
GrabReader -------- DrawerInput ------- MCDrawerInput
      GrabOrder ~~~~~~~~/ \------------- DrawerInputProofs
DrawerWindow --+--- LayerShell --+
               +--- Overlay -----+----- Session --- SessionProofs
               +--- SteamFreeze -+
KeyRepeat ----------------------------- KeyRepeatProofs
FocusGrid --+------ GridWalk --+------- MCGridWalk --+
            |                  +------- FocusGridProofs
            +------ FocusNav --+------- MCFocusNav --+-- FocusLists
                               +------- FocusNavProofs, over FocusGridProofs
StateSync ----------------------------- StateSyncProofs
LightingApply --+---------------------- MCLightingApply
                +---------------------- LightingProofs
FanCurve ---------- FanEditor --+------ MCFanEditor
                                +------ FanEditorProofs
```

A line is `EXTENDS`, the wavy one `INSTANCE ... WITH`. Modules are parameterised by CONSTANTS with named
assumptions; no module uses a RECURSIVE operator.

**GrabReader / DrawerInput.** `GrabReader` is `gamepad.Reader`'s device table:
`ScanOpen`, `AdoptTracked`, `AdoptIgnored`, `Cleanup` and the `SetGrabbed` critical
section, next to the kernel's own grabs (`held`), with devices that come and go
and devices another client may be holding (`Contested`, for which a grab may
fail). `DrawerInput` adds `show` and `hide` as the GTK thread runs them, and every
goroutine they start as a record in a set, so that the scheduler may take them
in any order: `grabCalls` (`SetGrabbed`), `blockTasks` (`BlockSteam`: find, block
or fail to, post), `releases` (`hide`'s goroutine after its sleep: unblock, then ungrab), and
`idle`, the FIFO of callbacks that record the PID. A sleep is just a point at
which a goroutine waits: no property here rests on the 200 ms being longer or
shorter than anything. `Hide` is not guarded by `visible`: only `Toggle` tests it,
while Escape or a queued Back can run `hide` on a hidden drawer. Whether there is
a blocker (`hasBlocker`) and whether Steam runs is chosen at the start; Steam may
also start later. A block that fails (`BlockFails`: the map is full, or Steam has
gone before the signal) reports PID 0 like a search that found no Steam.

**GrabOrder** is what `show` and `hide` rely on, without goroutines: a register that
follows numbered requests, skips some, never goes back to an older one and does
not stop before the newest. `DrawerInput` implements it under the refinement
mapping `Order`: requests are the pending `grabCalls` and the releases of `hide`
(which will call `SetGrabbed` after the unblock), the number in force is
`Reader.grabSeq`, and a request counts as *ahead* only if `SetGrabbed`'s guard will
let it through; one that the guard drops is a stutter.

**DrawerWindow / LayerShell / Overlay / SteamFreeze / Session.** The window, under the
backend `New` picked. `DrawerWindow` has what the backends share: the flag, the
levels of an animation (`out`, `part`, `in` stand for margin, progress and opacity),
tick callbacks as records that carry their generation, timers by whether they
belong to the present open. `LayerShell` slides or fades, after a neighbouring monitor; its
surface is always mapped, is parked by a poll that waits for its width, and takes a lost
focus for a click outside only after a settle time and without the pointer
inside. `Overlay` maps and unmaps, slides, sets the input region from an idle
callback, and notices focus by `focusedSinceShow`. gamescope only writes an
opacity. `SteamFreeze` is the SIGSTOP blocker system call by system call: `Stop`,
`Create`, `Write`; `ThawRemove`, `ThawContinue`; and `ThawFrozen` in its three roles
(the start, the signal handler, a second launch), each in three steps; the process may
be signalled, die and be restarted between any two of them. Behind the service's process
`ExecStopPost` cleans up; one started from the desktop entry has none, and a Steam it leaves
stopped waits for the `ThawFrozen` of the next start. Which of the two a process was matters
only when it dies, and is chosen there (`stopPost`). `Session` composes them: `Show` and `HideWindow` flip the flag, count,
and run the backend's part *and*, under gamescope, the freeze's part in the same
step, as the GTK thread does; everything else happens to the window from outside.
Abstractions: every `Show` and `Hide` starts one animation, so `grabGen` and `animGen`
are one counter; Steam is always found and keeps its PID (`DrawerInput` has the
rest); the second launch's `activate` is one more `Toggle`; the atoms and the
keyboard grab that gamescope's `Show` and `Hide` set beside the opacity go with it.

**KeyRepeat.** One `readLoop` with its tracker and timers. A press of a key or a
hat is two critical sections (`ReadPress`: stop the axis; `StartRepeat`), a timer
that fires becomes a tick goroutine which emits without the lock and then asks
`ReArm`. `time.Timer.Stop` reaches only the armed timer.

**FocusGrid / GridWalk / FocusLists / FocusNav.** `FocusGrid` is the package, as
operators. `FocusLists` is the four views' lists, item by item, and the sets of
controls that can show together (`modeControls` is the table of lighting modes).
`GridWalk` lets any press follow any change of what is shown. `FocusNav` is the
GTK thread around it: a queue of actions that were accepted while the drawer was
visible and are handled later, edit mode, the four views, clicks, touches, mouse
motion, snapshots, errors, and closes. The Custom profile's button emits
`clicked` only after GTK's press animation, modelled by `customClick`. Pointer
input during the slide-out animation is left out.

**StateSync.** The daemon's state is a version; `state` and `widgets` are the
versions the drawer has and shows. Five kinds of goroutine read it, and each may
post its answer after any other. `idle` is the FIFO. Two or more
daemon calls (the writes of Save Both) may fail separately; a failed write may
still have been done. `widgets` stands for the custom view. The profile buttons follow
the same syncs and refreshes, but not `showCustomView`, and are left out; lighting and battery
are filled only at an open and belong to `LightingApply`. A reply that is "ok" with no state in it is left out.

**LightingApply.** Two devices behind one set of controls, and the battery slider;
debounce timers, idle callbacks, apply goroutines, and at most one read of the
daemon's state in flight (more at once is `StateSync`'s subject). What the daemon has
of a device is an *entry*, which may be partial: no mode (or one this build has no
button for), no readable colour, no battery limit, or off, which clears all the rest. `Fill`
is what the controls make of an entry: the default mode and speed where there is none,
the colour they showed before where it states none (the *other tab's*, when the tab is
switched), full brightness for a device that is off. What the controls show, on the other
hand, is always a full *setting*, and an apply sends all of it. `Meets` compares the two
in what an entry does state. The handlers of the controls run on a fill as they
do under the user's hand; `ValueChanged` has the `syncing` guard that tells them apart.
A colour stands for both, an effect for mode and speed; a device that has only the
global entry to fall back on is taken to have it for its own.

**FanCurve / FanEditor.** `FanCurve` is `power.go`: `Sanitized` in its three groups,
`ActiveFloor`, `FloorPWMAt`, and `EnforceCurve`. The loops of `EnforceCurve` that push
neighbours up and down are closed forms: a point's temperature after the sweep is
the largest of its predecessors' plus their distance, its PWM the largest of
theirs. `FanEditor` drives it from the chart and from the daemon. The program
has only ever one description of a device, `DefaultLimits`; `Sanitized` exists for
descriptions a daemon may serve later, and its tests are the only callers, so
`Described` feeds it descriptions of every kind. A refresh, request and reply, is
one step here, and one save is under way at a time. The daemon's refusal of a
curve is external, as the tests' `assertCurveValid` states it.

### Two kinds of run

Several races in this program are known and short of a crash: the state read
last is not always the one shown last. Dropping the properties would hide the
rest, so `StateSync` and `LightingApply` carry a history variable, `excuses`, that
records *which* of the known races has happened since the last quiet moment; an open
that finds nothing under way, and has shown what the daemon has, empties it. So an
excuse covers the race's own damage and no more: what the user changes after the next
open in quiet has to arrive. A
passing run shows that the property holds whenever none of them has; a violation
run allows exactly one of them and shows the trace. The races so excused:

* two reads of the daemon's state overlap and post in the wrong order;
* a change is made while the subscription is down (run `state_reconnect`);
* a call fails (the error bar says so);
* a tab is switched within the debounce (run `lighting_tab`);
* a tab, or an open, fills the controls from a snapshot older than a choice;
* two applies are under way at once.

`DrawerInput` and `Session` name theirs one by one, in history variables that never
enter a guard:

* `missed`: the report of a search that found no Steam, or of a block that failed, comes
  after a later show has put its PID on record, and overwrites it (`gui.go:374`); it ends
  with the next block on record, or a release that has a PID;
* `mishap`: Steam is stopped and its file was lost to a failed write, a crash between
  two system calls, or a `ThawFrozen` that removed the file of a newer freeze
  (`steam.go:62`, `:84`); it ends with the next SIGCONT;
* `misparked`: the width poll parked a drawer that was already open
  (`layershell.go:106`); it ends with the next `Show` or `Hide`;
* `heldOver`: the overlay has had the focus without a break since before `Show` cleared
  `focusedSinceShow`, and will not notice losing it (`overlay.go:202`); it ends with that loss.

What is excused does happen in the code. The properties do not say otherwise: they say
that nothing else does the same damage and that it does not outlast what ends it.

## 3. What is checked

Bounds are CONSTANTS whose names begin with `Max`; they appear in guards only.

| Run | Instance | What it shows |
|---|---|---|
| `drawer` | 2 devices, one contested, 3 shows or hides, with and without a blocker, Steam up or starting at any time | type; grabs follow the flag; the newest request wins; closed releases, open holds; a blocked Steam has an owner; closed releases eventually; `GrabOrder` is implemented, fairness included |
| `drawer_reopen` (violation) | 1 device, 3 shows or hides | re-opened within the delay, the drawer ends open with Steam unblocked |
| `session` | each of the three backends, 3 shows or hides of a life of the process, 1 focus-loss timer at a time, any number of signals, crashes, launches and restarts, by the service and outside it | at rest the window is where the flag wants it; a stopped Steam is on file and has an owner; the window follows the flag; a lost focus closes the drawer; Steam runs again |
| `key_repeat` | hat for up/down, keys for up and left, 4 generations | nothing repeats unheld; one timer, the owner's; an owner repeats for ever |
| `grid` | every layout of three items over 3 rows, 2 columns and 2 sections, each shown or not, and the four real focus lists under every set of controls | presses land on visible items; a hidden focus escapes; every item is reachable; opposite presses undo each other |
| `focus` | one item of each kind in each view, queue of 1, slider values 0..1 | an edit belongs to the view in front and keeps its slider; cancel restores; B unwinds |
| `state` | 2 changes of generation (opens, closes, custom view), 1 save, 1 change elsewhere | settled widgets show the daemon's state; no error bar in a closed drawer |
| `state_restart` | 3 changes of generation, the daemon goes away once | the busy flag stands for one request; the poll goes on; the subscription returns |
| `state_reconnect` (violation) | 1 open, 1 restart, 1 change | what changed during the restart is not read |
| `lighting` | 2 changes over 2 tabs and the battery, 2 effects and off, 2 colours, scales 0..2; four beginnings with entries in full, partial and off | choices take effect; no echo; untouched devices keep all that was stated of them; none is dark but by choice |
| `lighting_tab` (violation) | 1 change | a movement followed by a tab switch is lost |
| `fan_editor` | 3 points, PWM 0..2, 19 descriptions, limits with and without a floor, 1 drag movement, 1 change at the daemon | the curve drawn is acceptable; a refusal means a floor that came later; the dragged point wins; Reset Fans is offered when it works |

Why these bounds are enough. *Drawer*: a race needs the request in flight, the
one that overtakes it, and one more to show the result: three generations. Devices do not interact but
through `grabbed`, so one device in each condition (free, contested) does; the
proofs remove both bounds. *Session*: an animation, the one that interrupts it, and
a third that finds what the two left behind; timers look at `visible` and
`is-active` only, so they do not interact and one, of this open or of an earlier
one, does; `gen` starts anew with each life of the process. The safety
properties are proved without these bounds. *Key repeat*: an old tick, a new owner, and its
successor: three generations; the controller of the run mixes hat and keys on
one axis and keys on the other. *Grid*: the moves look at the rows, columns and
sections of visible items only; three items give ties, a wrap over an empty row,
hidden starts and interleaved sections, and the drawer's own lists are there in
full (with 14, 0 and 8 accent dots, so that dots take two rows, none, and one
with room left).
*Focus*: an edit is disturbed by what is queued between two presses, and one
queued action between any two events gives each order; a second slider value
tells restored from moved. *State*: two reads of one kind or two kinds at once,
with one write or change between, are the shortest traces of every mutant.
*Drawer* again: the end of `missed` takes a fourth and a fifth generation, and is left to the
proof. *Lighting*: two changes are one to lose and one to overtake it, or to set the
other device; full and partial, partial and off, off and full, and two in full are under the tabs
to begin with. The proofs are for any number of changes and any beginnings. *Fan editor*: three points have a first, an inner and a last one;
PWM 0..2 is below, at and above the floor; the descriptions have axes that are
too narrow, reversed and starting outside, and floors absent, out of range,
descending and out of order. A drag of one movement may go to every point of
the chart, from every curve the daemon can have left.

`GridWalk` (`WalkTypeOK`), `Session`, `StateSync`, `LightingApply` and `FanEditor` (`TypeOK`)
state their types but no run lists them: the theorems `WalkTypeCorrect` and
`TypeCorrect` prove them, and the properties the runs list say more about the same
variables.

Deadlock is checked except in `key_repeat`, where a controller may be unplugged for
good, and in `session`, where a closed overlay window rests until it is opened.

### Fairness

Weak fairness, and only of what Go and GLib owe: a runnable goroutine runs
(`GrabStep`, `BlockStep`, `ReleaseStep`, each per generation; `SubscribeStep`; the
poll's goroutine), an expired timer fires (`TimerStep` per generation,
`TelemetryTick`), and the main loop drains its idle queue (`RecordBlock`,
`RunIdle`). In `Session`: frames come while the window is mapped and finish what is
animated (`Finish`), idle callbacks run (`SettleRegion`, `FreezeIdle`), timers fire
(`FocusTimer`), goroutines run (`FreezeTasks`), and a cleanup that has begun ends
(`FreezeCleanup`: a signal handler reaches its `os.Exit`, `ExecStopPost` runs after a
death, `main` gets past its `ThawFrozen`); nobody owes a restart, a second launch's
progress, or a focus. Daemon calls return because the api package gives
each a 10 s deadline (`internal/gui/sync.go:162`). In `DrawerInput` and `KeyRepeat`, and for
the poll in `StateSync`, fairness is per goroutine and not of their union, so one may not starve
another. `Session` assumes less and needs no more: that some one of all its goroutines runs
(`FreezeTasks`), some one of its frame callbacks comes to its end (`Finish`). No strong
fairness is used.
The user, other clients, the daemon and the hardware owe nothing; a liveness
property speaks only of an environment that settles (`<>[]visible`, `<>[]up`).

### Findings

1. **A delayed `UnblockSteam` carries no generation** (`drawer_reopen`,
   `gui.go:403`). `hide` under gamescope waits 200 ms and then calls
   `UnblockSteam(pid)` and `SetGrabbed(gen, false)`. The second is dropped when a
   show came in between; the first is not, and unblocks the Steam that the new
   show has just blocked. The comment at `gui.go:389-392` says that `gen` makes the
   delay safe.
2. **A returning subscription reads nothing** (`state_reconnect`, `gui.go:503`).
   What changed while the daemon was away, or between its start and the
   reconnection, stays invisible in an open drawer until the next event.
3. **A tab switch loses a movement** (`lighting_tab`, `controls.go:533`). The
   debounce timer survives the switch, and its callback reads the controls of the
   other tab.

Known and not stated as a finding, as no line of the repository contradicts them
outright:

* a focus-loss timer armed in one open fires in the next, and dismisses a drawer
  that a quick Toggle has re-opened but that has not got the focus yet: it tests `visible`
  and `is-active`, and the 500 ms settle time guards its start only
  (`layershell.go:139`, `:148`). The comment above it lists a `focusedSinceShow` condition
  that this backend does not have (`layershell.go:125`);
* an overlay re-opened during its slide-out never lost the focus, so
  `focusedSinceShow` stays false and the next click elsewhere does not close it;
* the overlay's idle callback may set the input region after `Hide` has cleared it: for
  the rest of the slide-out the panel's place takes clicks (`overlay.go:212`);
* launching z13gui a second time while the drawer is open wakes Steam before the
  toggle closes the drawer (`main.go:89`), and a crash in the few system calls around
  a freeze leaves Steam stopped until someone wakes it by hand.

## 4. What is proved

The theorems of the `*Proofs` modules hold for every value of the constants: any set
of devices, any subset of them contested, any bounds, any mix of keys and hats. TLC
checks the same formulas on the instances above.

**DrawerInput** has three inductive invariants, each on top of the type invariant.

* `ReaderInv`: `held` is within the tracked, live devices; nothing is held
  unless `grabbed`, and all but contested devices are held when it is; and an
  opened device is not tracked yet. The last part is what makes it inductive:
  without it `AdoptTracked` could overwrite a device already recorded. It gives
  `GrabsMatch`.
* `GrabInv`: no request carries a generation above `grabGen`; a request *of*
  `grabGen` carries the present `visible`; and the newest request has either been
  applied or is on its way. `NewestIntent` alone is not inductive (nothing would
  say what a request that is still in flight carries). It gives
  `NewestIntentWins`, and with `ReaderInv` the controllers' half of
  `ClosedReleases` and `OpenHolds`.
* `SteamInv`: `BlockHasOwner`, and what the owners carry: a PID on record implies
  an open drawer, and a task about to block carries Steam's PID. It gives `BlockAlwaysOwned` and the Steam half of
  `ClosedReleases` and `OpenHolds`.

The Steam half of the last three allows for `missed`, the race named above, and nothing else:
Steam may start at any time, and any block may fail.

**Refinement.** `FollowsInOrder` proves `Spec => Order!Spec`: the initial states map, and
with `GrabInv` (generations are in order, a request in flight carries what it was
issued with) every `Show` and `Hide` maps to `Request`, every `SetGrabbed` that passes the
guard to `Follow`, and everything else, a dropped request included, to a stutter. TLC
checks `Order!FairSpec`, with the fairness.

**Session** has four inductive invariants, on top of one another.

* `TypeInv`: `TypeOK`, and an open drawer has a generation within `MaxGen`. The second
  part is needed because `hide` of an open drawer is never refused: with the first alone it could
  count past `Gens`.
* `OwnerInv`: `FreezeRecorded` and `StoppedHasOwner`, and what carries them through a death
  and a restart: a process that does not run has no goroutines (so that what it
  left unfinished can only be a `mishap`), and once `ExecStopPost` or the start's `ThawFrozen`
  has run Steam is stopped only after a `mishap` (`ThawedRuns`): `main` goes on with nobody in
  the process who would wake it. It gives `FreezeIsRecorded` and `StoppedIsOwned`.
* `RestInv`: at most one tick callback is of the present generation, none is of a
  later one, and it moves towards what the flag says (`TicksInv`); a layer-shell
  drawer on its way in is already in place when it fades and opaque when it
  slides; an overlay is mapped while it is open, and while it is closed and nothing is under way
  it is not. `RestsInPlace` alone says nothing of a window that is moving. It gives
  `WindowRestsInPlace`.
* `DismissInv`: while a dismissal is `owed` the drawer is open, without the focus, and
  a focus-loss timer runs (`DismissalPending`). On the overlay that needs the backend to know
  of the focus: an open drawer that has it has noticed it, or has held it since
  before the open (`FocusNoticed`), and that needs `RestInv`: a live tick of an open
  drawer moves in, and so does not reset `focusedSinceShow`. It gives `DismissalHasTimer`,
  the safety half of `FocusLossDismisses`.

**KeyRepeat** has one inductive invariant, `IInv`: the reader's own (`ReadInv`: the
direction about to start is held, a hat reads as one of its two directions, a
reader that is gone owns nothing), the ticks' (`TickInv`: no tick is newer than
`gen`, and one of the current generation carries the owner's action), and the
three properties. `OnlyOwnerArmed` needs `TickInv` because a tick in flight may
re-arm, `OwnerKeepsTicking` needs `OnlyOwnerArmed` because `Stop` takes away whatever
is armed. Theorems `TypeCorrect`, `RepeatHeld`, `OneTimer`.

**StateSync** has two inductive invariants. `TypeInv` adds to the types that a poll's
goroutine only reads and posts, and carries a generation that has been. `BusyInv`
says where the one request that the busy flag stands for is: with a goroutine or in
the idle queue, never both; a count alone would not say which of them a step takes
away. It gives `PollIsOwned`. `ErrorsStayInside` and `PollInstalled` are inductive as they
stand; with `PollIsOwned` the latter (`OpenKeepsPolling`) is the safety half of `PollGoesOn`. A third,
`SyncInv`, is about the widgets: while the drawer is open and there is no excuse,
either somebody has yet to read (a save, a fetch, an event not taken: `WillRead`), or
everything under way is `Current`: each answer held by a goroutine is the daemon's
present version, and the last sync or refresh in the queue, or failing one the widgets
*and* `state`, are so too, with nothing behind it that a stale poll could undo.
`state` has to be in it because `showCustomView` fills the widgets from it, and
polls because they set it; a change of the daemon's makes everything stale at
once, and is always announced to somebody who then has to read. It gives
`WidgetsCatchUp`, for any number of goroutines in flight.

**LightingApply** has five.

* `Shape`: the types, but for the range of the requests' ids, which no step bounds by
  itself.
* `OwedInv`: the applies started, the running timers and the callbacks in the idle
  queue that are to start one are together no more than the user's changes. It gives
  `NothingEchoes`, and with it the bound that completes `TypeCorrect`.
* `PristineInv`: whatever is in play for a device the user has not touched states all
  that the device's first entry stated. *In play* (`InPlay`) is what is in force, in `state`,
  in the controls when its tab is in front, in every snapshot on its way and in every apply
  that is for it. `InPlayStep` is the heart of it: whatever a step puts into play for a
  device comes out of what was in play for it before, as it was, by a `Fill`, or cleared
  by off; or else out of the user's hand. And none of the three loses anything that the
  entry stated (`DescendantMeets`). So a timer that runs out under another tab sends that tab's
  device all it has; where its entry leaves something open, a default or the other
  tab's colour may come with it. It gives `UntouchedStay`.
* `LitInv`: nothing in play for a device is on and dark, and no control that shows it is
  at 0, unless the user put it there. The second part is what off and on again would break:
  the entry's level is 0 then, and only `Fill` keeps it from the slider. It rests on `InPlayStep`
  too, and gives `DarkByChoice`.
* `EffectInv`: as long as there is no excuse, the controls agree with what was chosen
  for the devices they stand for, no device has two applies under way, and a choice is
  in force or underway: its section's timer runs, its callback is queued, or
  an apply carries it. `ChangesTakeEffect` speaks of quiet moments only; this says
  where the choice is until then. It gives `ChangesArrive`.

**FocusGrid** is operators, and its theorems are about one move on a list of any length
and shape (`IsGrid`): it ends on a visible item or where it began, a horizontal one in the
same row, and only a list with one visible row (or section) at most keeps a vertical
move (a jump) from ending on a visible item. The work is in `Least` and `Greatest` being
what they are called: a least number there always is (`WFMin`), a greatest one is the least
of the bounds, and a list's rows have a bound because the shortest prefix without one would
have to be longer than itself. **GridWalk** adds the walk: the focus stays in the list
(`WalkTypeOK`), so each press is one of those moves. It gives `NeverToHidden` and
`HiddenFocusIsFree`; with two more facts, that a turn in the other direction undoes a
turn (`TurnBack`) and that no two items have one place in an order (`PlaceIsUnique`),
`OppositesUndo`; and `NothingOutOfReach`. That one (`DPadReachesAll`, of a grid) is an
induction over the rounds of presses, by way of the first round that fails: each round adds
an item to those reached or was already the last that could, so after as many
rounds as there are items no press leads out. And a set of items that no press leads out of
is all of them, because turning on in one direction goes through every row, and in each
row through every item (`TurningReachesAll`). The recursive function in `Reach` has a
solution by the same kind of induction (`ReachRecursion`).

**FocusNav** is proved by way of windows, because its methods take a window to a window.
Every method keeps `Good` (types, focus in the list) and `Front`
(`EditIsOfTheViewInFront`); the invariant is those two of the present window. Every step
`Evolves` the edit: ends it, begins one with the slider's present value captured, or carries it on
at the same slider while no other slider moves unless something other than the edit moved
it. That is `EditStays` at once, and over steps it is `CancelInv`: the value captured is the
one the slider had when the edit began, and so is every other slider's that nothing else
moved; hence `CancelGivesBack`. `BackGoesOut` goes by the three branches of `HandleBack`.
The assumption (`FocusNavAssumption`) is that each view has two always-visible items in two
rows and two sections, as `FocusLists` has.

**FanCurve** is operators again. `EnforceCurve` is a clamp of the moved point, two cascades
(a running maximum one way, a running minimum the other) and a floor; all are
maxima and minima over ranges of points, so that what they compute follows from `Max`
and `Min` of such a range being what they are called. `EnforcedIsAcceptable` (whatever goes in, a curve the daemon takes
comes out), `MovedHasItsWay`, `AcceptableStays` (so the repair is idempotent),
`FloorNeverFalls` (integer interpolation does not lose the order of its points) and
`SanitizedIsUsable` hold for any number of points in the curve and in the floor. The
assumptions are that a curve has a point, that PWM has a range, and that the
compiled-in limits are themselves usable (`FanCurveAssumption`, which TLC evaluates).

**FanEditor** has one inductive invariant besides the types: `DrawnSound`, that the curve
drawn is acceptable under the limit it was last repaired for (`drawnFor`) and that a save
on its way carries a curve that was acceptable when it was drawn. Without the second part nothing
would be known of what a late save hands to the daemon. It gives `DrawnIsAcceptable` and
`OnlyNewFloorRefuses`; `DeviceUsable` (of `LimitsUsable`, which no run lists) rests on `SanitizedIsUsable`, `PointFollowsFinger`
on `MovedHasItsWay`. `ButtonFollowsFloor` has its own (`ButtonInv`). The assumption
is that descriptions, curves and limits have their types (`FanEditorAssumption`).

Every invariant that a run checks, and every action property, is also the statement of
a theorem. Only model-checked are the liveness properties (`ClosedEventuallyReleases`,
the fairness of `GrabsInOrder`, `FollowsWindow`, `FocusLossDismisses`,
`SteamRunsAgain`, `OwnerRepeatsForever`, `PollGoesOn`, `SubscriptionReturns`): they
need ENABLED and fairness, which are beyond the prover. For most of them what they would rest
on is proved: that at no moment is there nobody left to do the rest
(`BlockAlwaysOwned`, `StoppedIsOwned`, `DismissalHasTimer`, `OneTimer`, `PollIsOwned` and
`OpenKeepsPolling`, `WindowRestsInPlace`).

## 5. What is not modelled

* Drawing, animation, CSS, widget construction; wording of errors and logs.
* `SYN_DROPPED` of evdev: the reader ignores it, and a lost release repeats.
* The `overdrive` and `boot sound` switches (one request each, no debounce), and the second
  colour of a lighting setting, which goes the way of the first.
* Lighting before the daemon's first answer (`state` is nil, the controls show defaults),
  and a colour view that is left open while an open's answer turns its device off.
  What happens to what an entry leaves open: it may become a default or the other tab's
  colour, and a mode that has no button here becomes the default mode, by an apply that the user
  made for the other tab. `UntouchedKeepsSetting` is about what *is* stated; no line
  of the repository promises the rest.
* The toggle gate's 200 ms and the reconnection back-off: durations. The model
  lets the gate accept or drop any event, and a reconnection come at any time.
* `Reader.Stop`, which only tests call.
* `NeedsAdvanced` (which of the TDP sliders a state requires).
* Of the display backends: pixel geometry (`panelgeom`), keyboard modes, gamescope's
  realisation (a `Show` before the X window exists does nothing) and its scale.
* Of the Steam blocker: the BPF program and its 64 entries, the list of Steam's children, and a Steam
  whose PID is reused between a crash and the next start.
* Themes and the config file: parsing and text substitution, one writer, one
  reader at the next start.

Two remarks from modelling `FanEditor` that no run covers. A floor whose curve
starts at PWM 0 leaves Reset Fans enabled although a release is refused
(`ResetFollowsFloor` excludes such descriptions, none of which the program has).
And Save Both with a sustained limit above the safe maximum sends a curve drawn
without the floor that this very save brings into force
(`RefusedOnlyUnderNewFloor` names the case).

## 6. Plan

Done, in this order, by weight for the user: `GrabReader`/`DrawerInput` and
proofs; `KeyRepeat` and proofs; `FocusGrid`/`FocusLists`/`GridWalk` and proofs; `FocusNav` and proofs;
`StateSync` and proofs; `LightingApply` and proofs; `FanCurve`/`FanEditor` and proofs; `GrabOrder`
and the refinement; `DrawerWindow`/`LayerShell`/`Overlay`/`SteamFreeze`/`Session` and
proofs.

Next:

1. Proofs: what is left of the liveness properties' safety halves (what the fair steps
   leave to do gets less, and nothing adds to it).
2. The TDP editor (`NeedsAdvanced`, forced limits) beside `FanEditor`; the toggle
   gate beside `StateSync`.
3. Isolating the remaining excused races: overlapping reads, a tab filled from a stale
   snapshot, applies out of order.
