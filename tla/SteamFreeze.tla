----------------------------- MODULE SteamFreeze ----------------------------
(***************************************************************************)
(* Freezing Steam with SIGSTOP (internal/gui/gamepad/steam.go, the         *)
(* fallback under gamescope when there is no BPF LSM), and what thaws it   *)
(* when z13gui does not get to (main.go, contrib/z13gui.service).          *)
(*                                                                         *)
(* The PID of a frozen Steam is in a file, for whoever has to thaw it: the *)
(* handler of SIGTERM, systemd's ExecStopPost, the next start, or a second *)
(* launch of the binary, which does so before it finds that it is second.  *)
(* Stopping Steam and writing the file are separate system calls, and so   *)
(* are thawing it and removing the file, each of them an action here.      *)
(* Steam runs throughout and its PID stays the same.                       *)
(***************************************************************************)
EXTENDS DrawerWindow

VARIABLES
  proc,      \* the process: in ThawFrozen at its start, running, or dead
  stopPost,  \* the dead process's ExecStopPost: due, done, or none to come
  steamPID,  \* Window.steamPID # 0
  freezers,  \* show's goroutines, in BlockSteam or about to call IdleAdd
  thawers,   \* UnblockSteam(pid): hide's goroutines, and the GTK thread's own
  idle,      \* GTK idle queue: the BlockSteam callbacks, each with a PID
  thawing,   \* where each ThawFrozen is: the start's, the handler's, another launch's
  stopped,   \* external: Steam is stopped
  file,      \* the PID file
  mishap     \* history: Steam stopped and its file lost to a known accident

lifeVars == <<proc, stopPost>>
steamTasks == <<steamPID, freezers, thawers, idle>>
kernelVars == <<stopped, file, mishap>>
freezeVars == <<lifeVars, steamTasks, thawing, kernelVars>>

Freezer == [gen : Gens, pc : {"stop", "create", "write", "orphan", "post"}]
Thawer == [gen : Gens, pc : {"remove", "cont"}, pid : BOOLEAN]
Thawing == {"start", "handler", "launch"}

FreezeTypeOK ==
  /\ proc \in {"starting", "running", "dead"}
  /\ stopPost \in {"none", "due", "done"}
  /\ steamPID \in BOOLEAN
  /\ freezers \subseteq Freezer
  /\ thawers \subseteq Thawer
  /\ idle \in Nat
  /\ thawing \in [Thawing -> {"off", "read", "cont", "remove", "done"}]
  /\ stopped \in BOOLEAN
  /\ file \in {"absent", "empty", "pid"}
  /\ mishap \in BOOLEAN

FreezeInit ==
  /\ proc = "running"
  /\ stopPost = "none"
  /\ steamPID = FALSE
  /\ freezers = {}
  /\ thawers = {}
  /\ idle = 0
  /\ thawing = [w \in Thawing |-> "off"]
  /\ stopped = FALSE
  /\ file = "absent"
  /\ mishap = FALSE

(* The main thread runs RecordFreeze's UnblockSteam itself (generation 0),   *)
(* and nothing else until it is done.                                       *)
GtkFree == proc = "running" /\ \A t \in thawers : t.gen # 0

-----------------------------------------------------------------------------
(* The part of show and hide that concerns Steam.                           *)
FreezeShow ==
  /\ GtkFree
  /\ freezers' = freezers \cup {[gen |-> gen', pc |-> "stop"]}
  /\ UNCHANGED <<lifeVars, steamPID, thawers, idle, thawing, kernelVars>>

(* Mutant: hide unblocks the PID it finds after its sleep.                  *)
BugFreezeHideLate ==
  /\ GtkFree
  /\ thawers' = thawers \cup {[gen |-> gen', pc |-> "remove", pid |-> FALSE]}
  /\ steamPID' = FALSE
  /\ UNCHANGED <<lifeVars, freezers, idle, thawing, kernelVars>>

FreezeHide ==
  /\ GtkFree
  /\ thawers' = thawers \cup {[gen |-> gen', pc |-> "remove", pid |-> steamPID]}
  /\ steamPID' = FALSE
  /\ UNCHANGED <<lifeVars, freezers, idle, thawing, kernelVars>>

(* The idle callback of BlockSteam's goroutine.                             *)
RecordFreeze ==
  /\ GtkFree
  /\ idle > 0
  /\ idle' = idle - 1
  /\ IF visible
       THEN steamPID' = TRUE /\ UNCHANGED thawers
       ELSE /\ thawers' = thawers \cup {[gen |-> 0, pc |-> "remove", pid |-> TRUE]}
            /\ UNCHANGED steamPID
  /\ UNCHANGED <<windowVars, lifeVars, freezers, thawing, kernelVars>>

-----------------------------------------------------------------------------
(* The goroutines of BlockSteam: FindSteamPID, then FreezeProc.             *)
FreezerAt(f, pc) == f \in freezers /\ f.pc = pc /\ proc = "running"
FreezerTo(f, pc) == freezers' = (freezers \ {f}) \cup {[f EXCEPT !.pc = pc]}

(* SIGSTOP, once Steam has been found in /proc.                             *)
Stop(f) ==
  /\ FreezerAt(f, "stop")
  /\ FreezerTo(f, "create")
  /\ stopped' = TRUE
  /\ UNCHANGED <<windowVars, lifeVars, steamPID, thawers, idle, thawing, file, mishap>>

(* os.WriteFile creates or truncates the file...                            *)
Create(f) ==
  /\ FreezerAt(f, "create")
  /\ FreezerTo(f, "write")
  /\ file' = "empty"
  /\ UNCHANGED <<windowVars, lifeVars, steamPID, thawers, idle, thawing, stopped,
                 mishap>>

(* ... and writes it, into nowhere when the name has been removed since.    *)
Write(f) ==
  /\ FreezerAt(f, "write") \/ FreezerAt(f, "orphan")
  /\ FreezerTo(f, "post")
  /\ file' = IF f.pc = "write" THEN "pid" ELSE file
  /\ UNCHANGED <<windowVars, lifeVars, steamPID, thawers, idle, thawing, stopped,
                 mishap>>

(* Either of them fails, and the error is ignored.                          *)
WriteFails(f) ==
  /\ FreezerAt(f, "create") \/ FreezerAt(f, "write")
  /\ FreezerTo(f, "post")
  /\ mishap' = (mishap \/ (stopped /\ file # "pid"))
  /\ UNCHANGED <<windowVars, lifeVars, steamPID, thawers, idle, thawing, stopped, file>>

PostFreeze(f) ==
  /\ FreezerAt(f, "post")
  /\ freezers' = freezers \ {f}
  /\ idle' = idle + 1
  /\ UNCHANGED <<windowVars, lifeVars, steamPID, thawers, thawing, kernelVars>>

-----------------------------------------------------------------------------
(* The file loses its name; a write under way goes on into nowhere.         *)
RemoveFile ==
  /\ file' = "absent"
  /\ freezers' = {IF f.pc = "write" THEN [f EXCEPT !.pc = "orphan"] ELSE f :
                    f \in freezers}

(* SIGCONT.                                                                 *)
Continue == stopped' = FALSE /\ mishap' = FALSE

(* Mutant: the file is removed and Steam left as it is.                     *)
BugThawRemovesOnly(t) ==
  /\ t \in thawers /\ proc = "running" /\ t.pc = "remove"
  /\ thawers' = thawers \ {t}
  /\ IF t.pid THEN RemoveFile ELSE UNCHANGED <<file, freezers>>
  /\ UNCHANGED <<windowVars, lifeVars, steamPID, idle, thawing, stopped, mishap>>

(* UnblockSteam after hide's sleep: nothing for PID 0, else ThawProc        *)
(* removes the file...                                                      *)
ThawRemove(t) ==
  /\ t \in thawers /\ proc = "running" /\ t.pc = "remove"
  /\ IF t.pid
       THEN RemoveFile /\ thawers' = (thawers \ {t}) \cup {[t EXCEPT !.pc = "cont"]}
       ELSE thawers' = thawers \ {t} /\ UNCHANGED <<file, freezers>>
  /\ UNCHANGED <<windowVars, lifeVars, steamPID, idle, thawing, stopped, mishap>>

(* ... and then wakes Steam.                                                *)
ThawContinue(t) ==
  /\ t \in thawers /\ proc = "running" /\ t.pc = "cont"
  /\ thawers' = thawers \ {t}
  /\ Continue
  /\ UNCHANGED <<windowVars, lifeVars, steamPID, freezers, idle, thawing, file>>

-----------------------------------------------------------------------------
(* ThawFrozen, three times over: reads the file, and if it holds a PID      *)
(* wakes Steam...                                                           *)
Running(w) == w = "launch" \/ proc = IF w = "start" THEN "starting" ELSE "running"
ThawingTo(w, pc) == thawing' = [thawing EXCEPT ![w] = pc]

ReadFile(w) ==
  /\ Running(w) /\ thawing[w] = "read"
  /\ ThawingTo(w, IF file = "pid" THEN "cont" ELSE "done")
  /\ UNCHANGED <<windowVars, lifeVars, steamTasks, kernelVars>>

WakeFrozen(w) ==
  /\ Running(w) /\ thawing[w] = "cont"
  /\ ThawingTo(w, "remove")
  /\ Continue
  /\ UNCHANGED <<windowVars, lifeVars, steamTasks, file>>

(* ... and only then removes the file, be it that of a newer freeze.        *)
RemoveFrozen(w) ==
  /\ Running(w) /\ thawing[w] = "remove"
  /\ ThawingTo(w, "done")
  /\ RemoveFile
  /\ mishap' = (mishap \/ stopped)
  /\ UNCHANGED <<windowVars, lifeVars, steamPID, thawers, idle, stopped>>

ThawFrozenStep(w) == ReadFile(w) \/ WakeFrozen(w) \/ RemoveFrozen(w)

(* main goes on once the file of an earlier crash is dealt with.            *)
Started ==
  /\ proc = "starting" /\ thawing["start"] = "done"
  /\ proc' = "running"
  /\ ThawingTo("start", "off")
  /\ UNCHANGED <<windowVars, stopPost, steamTasks, kernelVars>>

(* SIGTERM or SIGINT: the handler's goroutine begins, beside all the others.*)
Signal ==
  /\ proc = "running" /\ thawing["handler"] = "off"
  /\ ThawingTo("handler", "read")
  /\ UNCHANGED <<windowVars, lifeVars, steamTasks, kernelVars>>

(* The binary is launched again while it runs.                              *)
Launch ==
  /\ proc = "running" /\ thawing["launch"] = "off"
  /\ ThawingTo("launch", "read")
  /\ UNCHANGED <<windowVars, lifeVars, steamTasks, kernelVars>>

(* It finds that it is second and forwards its "activate", which is one     *)
(* more Toggle for the instance that runs, if there still is one.           *)
LaunchForwards ==
  /\ thawing["launch"] = "done"
  /\ ThawingTo("launch", "off")
  /\ UNCHANGED <<windowVars, lifeVars, steamTasks, kernelVars>>

-----------------------------------------------------------------------------
(* What a dead process leaves unfinished: a Steam stopped whose file is not *)
(* written, or removed and not yet woken.                                   *)
HalfFrozen == \E f \in freezers : f.pc \in {"create", "write"}
HalfThawed == \E t \in thawers : t.pc = "cont"

(* The process ends, by the handler's os.Exit or in a crash; its goroutines *)
(* and its window go with it.  The service's has an ExecStopPost to follow, *)
(* one started from the desktop entry has none.                             *)
Die ==
  /\ proc # "dead"
  /\ proc' = "dead"
  /\ stopPost' \in {"none", "due"}
  /\ visible' = FALSE
  /\ gen' = 0
  /\ steamPID' = FALSE
  /\ freezers' = {}
  /\ thawers' = {}
  /\ idle' = 0
  /\ thawing' = [thawing EXCEPT !["start"] = "off", !["handler"] = "off"]
  /\ mishap' = (mishap \/ (stopped /\ (HalfFrozen \/ HalfThawed)))
  /\ UNCHANGED <<stopped, file>>

(* systemd runs ExecStopPost: wakes the PID in the file, removes the file.  *)
StopPost ==
  /\ stopPost = "due"
  /\ stopPost' = "done"
  /\ IF file = "pid" THEN Continue ELSE UNCHANGED <<stopped, mishap>>
  /\ file' = "absent"
  /\ UNCHANGED <<windowVars, proc, steamTasks, thawing>>

(* Mutant: main leaves the file of an earlier crash alone.                  *)
BugStartThawsNothing ==
  /\ proc = "dead" /\ stopPost # "due"
  /\ proc' = "starting"
  /\ stopPost' = "none"
  /\ ThawingTo("start", "done")
  /\ UNCHANGED <<windowVars, steamTasks, kernelVars>>

(* Restart=on-failure once ExecStopPost is done, or the user starts it.     *)
Restart ==
  /\ proc = "dead" /\ stopPost # "due"
  /\ proc' = "starting"
  /\ stopPost' = "none"
  /\ ThawingTo("start", "read")
  /\ UNCHANGED <<windowVars, steamTasks, kernelVars>>

-----------------------------------------------------------------------------
Goroutines ==
  \/ \E f \in freezers : \/ Stop(f) \/ Create(f) \/ Write(f)
                         \/ WriteFails(f) \/ PostFreeze(f)
  \/ \E t \in thawers : ThawRemove(t) \/ ThawContinue(t)

(* From a death to a running process, and from a signal to the exit.        *)
Cleanup ==
  \/ ThawFrozenStep("start") \/ Started \/ ThawFrozenStep("handler") \/ StopPost

FreezeNext ==
  \/ RecordFreeze \/ Goroutines \/ Cleanup
  \/ Signal \/ Launch \/ ThawFrozenStep("launch") \/ LaunchForwards \/ Restart

-----------------------------------------------------------------------------
(* Whenever Steam is stopped the file says so to whoever comes after us,    *)
(* but for the moments in which a goroutine is about to write it, or has    *)
(* removed it and is about to wake Steam (steam.go:18-20, crash recovery),  *)
(* and but for the accidents `mishap' names: a write that failed, a crash   *)
(* in one of those moments, a ThawFrozen that removed the file of a freeze  *)
(* newer than the one it woke.                                              *)
FreezeRecorded ==
  stopped => file = "pid" \/ HalfFrozen \/ HalfThawed \/ mishap

(* As long as the process lives, somebody in it is left to wake Steam.      *)
StoppedHasOwner ==
  stopped /\ proc = "running" =>
    \/ steamPID
    \/ \E f \in freezers : f.pc # "stop"
    \/ idle > 0
    \/ \E t \in thawers : t.pid
    \/ mishap

(* Without an open drawer Steam runs again in the end: the release, the     *)
(* handler, ExecStopPost or the next start wakes it ("Thaw any Steam        *)
(* process left frozen from a previous crash", main.go:88).  After a death  *)
(* with no ExecStopPost there is only the next start, which nobody owes it. *)
SteamRunsAgain ==
  /\ <>[]~(proc = "running" /\ visible)
  /\ <>[](proc # "dead" \/ stopPost # "none")
  => <>[](~stopped \/ mishap)
=============================================================================
