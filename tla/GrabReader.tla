----------------------------- MODULE GrabReader -----------------------------
(***************************************************************************)
(* The gamepad reader (internal/gui/gamepad/gamepad.go): which evdev       *)
(* nodes z13gui has open, and which of them it holds with EVIOCGRAB, so    *)
(* that their events reach the drawer and nobody else.                     *)
(*                                                                         *)
(* Three kinds of goroutine share the state under Reader.mu: the scanner   *)
(* (Run, every 5s), one readLoop or holdLoop per adopted node, and the     *)
(* goroutines of show and hide that call SetGrabbed.  Each holds mu for a  *)
(* whole action of this module, so the actions are the code's critical     *)
(* sections.  Gamepads (readLoop) and grab-only touchpads (holdLoop) are   *)
(* treated alike by every statement about grabbing, and so are one set     *)
(* here.                                                                   *)
(***************************************************************************)
EXTENDS Naturals, FiniteSets

CONSTANTS
  Paths,      \* the /dev/input/event* paths of controllers and touchpads
  Contested   \* the paths whose EVIOCGRAB may fail (another client holds it)

ASSUME GrabReaderAssumption == Contested \subseteq Paths /\ IsFiniteSet(Paths)

VARIABLES
  grabSeq,    \* Reader.grabSeq: the highest SetGrabbed seq applied
  grabbed,    \* Reader.grabbed: devices are to be held exclusively
  plugged,    \* paths at which the kernel presents a device now
  opened,     \* paths the running scan has opened and not yet adopted
  tracked,    \* Reader.devices and Reader.grabOnly
  live,       \* opened or tracked paths whose handle is still connected
  held        \* paths whose kernel device is grabbed through our handle

readerVars == <<grabSeq, grabbed, plugged, opened, tracked, live, held>>
devVars == <<plugged, opened, tracked, live, held>>

ReaderTypeOK ==
  /\ grabSeq \in Nat
  /\ grabbed \in BOOLEAN
  /\ plugged \subseteq Paths
  /\ opened \subseteq Paths
  /\ tracked \subseteq Paths
  /\ live \subseteq Paths
  /\ held \subseteq Paths

ReaderInit ==
  /\ grabSeq = 0
  /\ grabbed = FALSE
  /\ plugged \in SUBSET Paths
  /\ opened = {}
  /\ tracked = {}
  /\ live = {}
  /\ held = {}

-----------------------------------------------------------------------------
(* The handles an EVIOCGRAB on each of ps ends up holding: it fails on a    *)
(* disconnected handle, may fail on a contested one, and every error is     *)
(* only logged.  A handle that already holds its device keeps it.           *)
GrabOutcomes(ps) ==
  {held \cup ((ps \cap live) \ failed) : failed \in SUBSET Contested}

(* Mutant: requests are applied in whatever order they arrive.              *)
BugSetGrabbedUnordered(seq, grab) ==
  /\ grabSeq' = IF seq > grabSeq THEN seq ELSE grabSeq
  /\ grabbed' = grab
  /\ held' \in IF grab THEN GrabOutcomes(tracked) ELSE {held \ tracked}
  /\ UNCHANGED <<plugged, opened, tracked, live>>

(* SetGrabbed: a request no newer than the last one applied is ignored.     *)
(* Otherwise the intent is recorded and every tracked node is (un)grabbed   *)
(* under the same lock.                                                     *)
SetGrabbed(seq, grab) ==
  /\ IF seq <= grabSeq
       THEN UNCHANGED <<grabSeq, grabbed, held>>
       ELSE /\ grabSeq' = seq
            /\ grabbed' = grab
            /\ held' \in IF grab THEN GrabOutcomes(tracked)
                                 ELSE {held \ tracked}
  /\ UNCHANGED <<plugged, opened, tracked, live>>

-----------------------------------------------------------------------------
(* scan opens the untracked nodes it finds; an open may fail (a permission, *)
(* a node that has just gone), and a node it misses waits for the next      *)
(* scan.  Only the scanner adds to devices, so testing them one by one      *)
(* under the lock and opening afterwards finds the same nodes.              *)
ScanOpen ==
  /\ opened = {}
  /\ \E found \in SUBSET (plugged \ tracked) :
       /\ found # {}
       /\ opened' = found
       /\ live' = live \cup found
  /\ UNCHANGED <<grabSeq, grabbed, plugged, tracked, held>>

(* Mutant: a device adopted while the drawer is open is not grabbed.        *)
BugAdoptUngrabbed(p) ==
  /\ p \in opened
  /\ opened' = opened \ {p}
  /\ tracked' = tracked \cup {p}
  /\ UNCHANGED <<grabSeq, grabbed, plugged, live, held>>

(* adopt, a node classified as a controller or as its touchpad: it is       *)
(* tracked and, while the drawer holds the input, grabbed, in one critical  *)
(* section.                                                                 *)
AdoptTracked(p) ==
  /\ p \in opened
  /\ opened' = opened \ {p}
  /\ tracked' = tracked \cup {p}
  /\ held' \in IF grabbed THEN GrabOutcomes({p}) ELSE {held}
  /\ UNCHANGED <<grabSeq, grabbed, plugged, live>>

(* adopt, a node classified deviceIgnore (a touchpad whose controller is    *)
(* not there yet): its handle is closed and a later scan tries again.       *)
AdoptIgnored(p) ==
  /\ p \in opened
  /\ opened' = opened \ {p}
  /\ live' = live \ {p}
  /\ UNCHANGED <<grabSeq, grabbed, plugged, tracked, held>>

(* readLoop's and holdLoop's deferred cleanup, once ReadOne has failed on a *)
(* disconnected handle.                                                     *)
Cleanup(p) ==
  /\ p \in tracked \ live
  /\ held' = IF grabbed THEN held \ {p} ELSE held
  /\ tracked' = tracked \ {p}
  /\ UNCHANGED <<grabSeq, grabbed, plugged, opened, live>>

(* The kernel: a device appears at a free path, or goes away, which drops   *)
(* the grab and disconnects the handle.                                     *)
Plug(p) ==
  /\ p \in Paths \ plugged
  /\ plugged' = plugged \cup {p}
  /\ UNCHANGED <<grabSeq, grabbed, opened, tracked, live, held>>

Unplug(p) ==
  /\ p \in plugged
  /\ plugged' = plugged \ {p}
  /\ live' = live \ {p}
  /\ held' = held \ {p}
  /\ UNCHANGED <<grabSeq, grabbed, opened, tracked>>

DeviceNext ==
  \/ ScanOpen
  \/ \E p \in Paths : \/ AdoptTracked(p) \/ AdoptIgnored(p) \/ Cleanup(p)
                      \/ Plug(p) \/ Unplug(p)

-----------------------------------------------------------------------------
(* Every device this process holds is one it tracks and can still reach:    *)
(* no handle keeps an exclusive grab after its goroutine has let go of it   *)
(* (readLoop's cleanup, adopt).                                             *)
HeldIsTracked == held \subseteq tracked \cap live

(* The kernel's grabs agree with Reader.grabbed, whatever was plugged in,   *)
(* adopted or lost in between: nothing is held while the drawer has         *)
(* released the input, and while it wants the input every connected tracked *)
(* node is held, except where another client made EVIOCGRAB fail.           *)
GrabMatchesFlag ==
  /\ ~grabbed => held = {}
  /\ grabbed => (tracked \cap live) \ Contested \subseteq held
=============================================================================
