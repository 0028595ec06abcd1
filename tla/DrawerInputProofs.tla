------------------------- MODULE DrawerInputProofs --------------------------
(***************************************************************************)
(* Proofs about DrawerInput, for any set of devices, any number of opens   *)
(* and closes and every interleaving of their goroutines.                  *)
(*                                                                         *)
(* Three inductive invariants, each needing the type invariant:            *)
(*   ReaderInv  the kernel's grabs agree with Reader.grabbed               *)
(*   GrabInv    the newest grab request is either applied or on its way,   *)
(*              and carries the drawer's present intent                    *)
(*   SteamInv   a blocked Steam has somebody left to unblock it            *)
(* and from the first two, step by step, that the goroutines implement the *)
(* ordered register of GrabOrder.                                          *)
(***************************************************************************)
EXTENDS DrawerInput, TLAPS

USE GrabReaderAssumption, DrawerInputAssumption DEF ReaderTypeOK

-----------------------------------------------------------------------------
(* The reader.                                                              *)

ReaderInv ==
  /\ opened \cap tracked = {}
  /\ HeldIsTracked
  /\ GrabMatchesFlag

LEMMA ReaderInitInv == ReaderInit => ReaderTypeOK /\ ReaderInv
<1> SUFFICES ASSUME ReaderInit PROVE ReaderTypeOK /\ ReaderInv
  OBVIOUS
<1>1. ReaderTypeOK
  BY DEF ReaderInit
<1>2. ReaderInv
  BY DEF ReaderInit, ReaderInv, HeldIsTracked, GrabMatchesFlag
<1>3. QED BY <1>1, <1>2

LEMMA SetGrabbedInv ==
  ASSUME ReaderTypeOK, ReaderInv, NEW seq \in Nat, NEW grab \in BOOLEAN,
         SetGrabbed(seq, grab)
  PROVE  ReaderTypeOK' /\ ReaderInv'
<1> USE DEF ReaderTypeOK, ReaderInv, HeldIsTracked, GrabMatchesFlag, SetGrabbed
<1>1. CASE seq <= grabSeq
  BY <1>1
<1>2. CASE ~(seq <= grabSeq) /\ grab
  BY <1>2 DEF GrabOutcomes
<1>3. CASE ~(seq <= grabSeq) /\ ~grab
  BY <1>3
<1>4. QED BY <1>1, <1>2, <1>3

LEMMA DeviceInv ==
  ASSUME ReaderTypeOK, ReaderInv, DeviceNext
  PROVE  ReaderTypeOK' /\ ReaderInv' /\ UNCHANGED <<grabSeq, grabbed>>
<1> USE DEF ReaderTypeOK, ReaderInv, HeldIsTracked, GrabMatchesFlag
<1>1. CASE ScanOpen
  BY <1>1 DEF ScanOpen
<1>2. ASSUME NEW p \in Paths, AdoptTracked(p)
      PROVE  ReaderTypeOK' /\ ReaderInv' /\ UNCHANGED <<grabSeq, grabbed>>
  BY <1>2 DEF AdoptTracked, GrabOutcomes
<1>3. ASSUME NEW p \in Paths, AdoptIgnored(p)
      PROVE  ReaderTypeOK' /\ ReaderInv' /\ UNCHANGED <<grabSeq, grabbed>>
  BY <1>3 DEF AdoptIgnored
<1>4. ASSUME NEW p \in Paths, Cleanup(p)
      PROVE  ReaderTypeOK' /\ ReaderInv' /\ UNCHANGED <<grabSeq, grabbed>>
  BY <1>4 DEF Cleanup
<1>5. ASSUME NEW p \in Paths, Plug(p) \/ Unplug(p)
      PROVE  ReaderTypeOK' /\ ReaderInv' /\ UNCHANGED <<grabSeq, grabbed>>
  BY <1>5 DEF Plug, Unplug
<1>6. QED BY <1>1, <1>2, <1>3, <1>4, <1>5 DEF DeviceNext

-----------------------------------------------------------------------------
(* Type correctness, together with the reader's invariant.                  *)

LEMMA TypeInit == Init => TypeOK /\ ReaderInv
<1> SUFFICES ASSUME Init PROVE TypeOK /\ ReaderInv
  OBVIOUS
<1>1. ReaderTypeOK /\ ReaderInv
  BY ReaderInitInv DEF Init
<1>2. idle \in Seq(BOOLEAN) /\ grabGen \in 0..MaxGen
  BY DEF Init, DrawerInputAssumption
<1>3. QED BY <1>1, <1>2 DEF Init, TypeOK

LEMMA TypeNext == TypeOK /\ ReaderInv /\ [Next]_vars => TypeOK' /\ ReaderInv'
<1> SUFFICES ASSUME TypeOK, ReaderInv, [Next]_vars
             PROVE  TypeOK' /\ ReaderInv'
  OBVIOUS
<1>r. ASSUME UNCHANGED readerVars
      PROVE  ReaderTypeOK' /\ ReaderInv'
  BY <1>r DEF readerVars, TypeOK, ReaderTypeOK, ReaderInv, HeldIsTracked,
              GrabMatchesFlag
<1>1. CASE Show
  <2>1. grabGen' \in Gens /\ grabGen' \in 0..MaxGen
    BY <1>1 DEF Show, TypeOK, Gens, DrawerInputAssumption
  <2>2. [gen |-> grabGen', grab |-> TRUE] \in GrabCall
    BY <2>1 DEF GrabCall
  <2>3. [gen |-> grabGen', pc |-> "find", pid |-> FALSE] \in BlockTask
    BY <2>1 DEF BlockTask
  <2>4. grabCalls' \subseteq GrabCall /\ blockTasks' \subseteq BlockTask
    BY <1>1, <2>2, <2>3, Zenon DEF Show, TypeOK
  <2>5. QED BY <1>1, <1>r, <2>1, <2>4 DEF Show, TypeOK, externalSteam
<1>2. CASE Hide
  <2>1. grabGen' \in Gens /\ grabGen' \in 0..MaxGen
    BY <1>2 DEF Hide, TypeOK, Gens, DrawerInputAssumption
  <2>2. [gen |-> grabGen', grab |-> FALSE] \in GrabCall
    BY <2>1 DEF GrabCall
  <2>3. [gen |-> grabGen', pc |-> "unblock", pid |-> steamPID] \in Release
    BY <2>1 DEF Release, TypeOK
  <2>4. grabCalls' \subseteq GrabCall /\ releases' \subseteq Release
    BY <1>2, <2>2, <2>3, Zenon DEF Hide, TypeOK
  <2>5. QED BY <1>2, <1>r, <2>1, <2>4 DEF Hide, TypeOK, externalSteam
<1>3. CASE RecordBlock
  <2>0. idle # <<>> /\ idle' = Tail(idle)
    BY <1>3 DEF RecordBlock
  <2>1. idle' \in Seq(BOOLEAN) /\ Head(idle) \in BOOLEAN
    BY <2>0 DEF TypeOK
  <2>2. QED
    BY <1>3, <1>r, <2>1
       DEF RecordBlock, UnblockSteam, TypeOK, windowVars
<1>4. ASSUME NEW c \in grabCalls, CallSetGrabbed(c)
      PROVE  TypeOK' /\ ReaderInv'
  <2>1. c.gen \in Nat /\ c.grab \in BOOLEAN
    BY DEF TypeOK, GrabCall, Gens
  <2>2. ReaderTypeOK' /\ ReaderInv'
    BY <1>4, <2>1, SetGrabbedInv DEF CallSetGrabbed, TypeOK
  <2>3. QED BY <1>4, <2>2 DEF CallSetGrabbed, TypeOK, steamVars
<1>5. ASSUME NEW t \in blockTasks, FindSteam(t) \/ BlockSteam(t) \/ BlockFails(t)
      PROVE  TypeOK' /\ ReaderInv'
  BY <1>5, <1>r
     DEF FindSteam, BlockSteam, BlockFails, TypeOK, BlockTask, windowVars, externalSteam
<1>6. ASSUME NEW t \in blockTasks, PostBlocked(t)
      PROVE  TypeOK' /\ ReaderInv'
  <2>1. t.pid \in BOOLEAN
    BY DEF TypeOK, BlockTask
  <2>2. QED BY <1>6, <1>r, <2>1 DEF PostBlocked, TypeOK, windowVars, externalSteam
<1>7. ASSUME NEW r \in releases, ReleaseUnblock(r)
      PROVE  TypeOK' /\ ReaderInv'
  BY <1>7, <1>r DEF ReleaseUnblock, UnblockSteam, TypeOK, Release, windowVars
<1>8. ASSUME NEW r \in releases, ReleaseUngrab(r)
      PROVE  TypeOK' /\ ReaderInv'
  <2>1. r.gen \in Nat
    BY DEF TypeOK, Release, Gens
  <2>2. ReaderTypeOK' /\ ReaderInv'
    BY <1>8, <2>1, SetGrabbedInv DEF ReleaseUngrab, TypeOK
  <2>3. QED BY <1>8, <2>2 DEF ReleaseUngrab, TypeOK, windowVars, externalSteam
<1>9. CASE LaunchSteam
  BY <1>9, <1>r DEF LaunchSteam, TypeOK, windowVars
<1>10. CASE Devices
  BY <1>10, DeviceInv DEF Devices, TypeOK, windowVars, externalSteam, steamVars
<1>11. CASE UNCHANGED vars
  BY <1>11, <1>r DEF vars, windowVars, externalSteam, steamVars, TypeOK
<1>12. QED
  BY <1>1, <1>2, <1>3, <1>4, <1>5, <1>6, <1>7, <1>8, <1>9, <1>10, <1>11
     DEF Next, GrabStep, BlockStep, ReleaseStep

(* Every variable keeps its type, and grabGen its bound.                    *)
THEOREM TypeCorrect == Spec => []TypeOK
<1>1. Spec => [](TypeOK /\ ReaderInv)
  BY TypeInit, TypeNext, PTL DEF Spec
<1>2. QED BY <1>1, PTL

(* The kernel's exclusive grabs follow Reader.grabbed for every sequence of *)
(* plugs, scans, adoptions, disconnections and grab requests.               *)
THEOREM GrabsMatch == Spec => [](HeldIsTracked /\ GrabMatchesFlag)
<1>1. Spec => [](TypeOK /\ ReaderInv)
  BY TypeInit, TypeNext, PTL DEF Spec
<1>2. ReaderInv => HeldIsTracked /\ GrabMatchesFlag
  BY DEF ReaderInv
<1>3. QED BY <1>1, <1>2, PTL

-----------------------------------------------------------------------------
(* The order of grab requests.                                              *)

GrabInv ==
  /\ grabSeq <= grabGen
  /\ NewestIntent
  /\ \A c \in grabCalls : c.gen <= grabGen /\ (c.gen = grabGen => c.grab = visible)
  /\ \A r \in releases : r.gen <= grabGen /\ (r.gen = grabGen => ~visible)
  /\ \/ grabSeq = grabGen
     \/ \E c \in grabCalls : c.gen = grabGen
     \/ \E r \in releases : r.gen = grabGen

LEMMA GrabInit == Init => GrabInv
<1> SUFFICES ASSUME Init PROVE GrabInv
  OBVIOUS
<1>1. /\ grabSeq = 0 /\ grabGen = 0 /\ grabbed = FALSE /\ visible = FALSE
      /\ grabCalls = {} /\ releases = {}
  BY DEF Init, ReaderInit
<1>2. grabSeq <= grabGen
  BY <1>1
<1>3. QED BY <1>1, <1>2, Zenon DEF GrabInv, NewestIntent

(* A request of generation g, with the intent of that generation, keeps the *)
(* order, whether it is applied or dropped.                                 *)
LEMMA SetGrabbedOrder ==
  ASSUME ReaderTypeOK, grabGen \in Nat, grabSeq <= grabGen, NewestIntent,
         visible \in BOOLEAN, NEW g \in Nat, NEW b \in BOOLEAN,
         g <= grabGen, g = grabGen => b = visible,
         SetGrabbed(g, b)
  PROVE  /\ grabSeq' \in Nat /\ grabSeq' <= grabGen
         /\ grabSeq' = grabGen => grabbed' = visible
         /\ g = grabGen \/ grabSeq = grabGen => grabSeq' = grabGen
<1>1. CASE g <= grabSeq
  BY <1>1 DEF SetGrabbed, NewestIntent
<1>2. CASE ~(g <= grabSeq)
  <2>1. grabSeq' = g /\ grabbed' = b
    BY <1>2 DEF SetGrabbed
  <2>2. QED BY <1>2, <2>1
<1>3. QED BY <1>1, <1>2

LEMMA GrabNext == TypeOK /\ GrabInv /\ [Next]_vars => GrabInv'
<1> SUFFICES ASSUME TypeOK, GrabInv, [Next]_vars
             PROVE  GrabInv'
  OBVIOUS
<1> USE DEF GrabInv, NewestIntent
<1>g. grabGen \in Nat /\ grabSeq \in Nat /\ visible \in BOOLEAN
  BY DEF TypeOK, DrawerInputAssumption
<1>c. \A c \in grabCalls : c.gen \in Nat /\ c.grab \in BOOLEAN
  BY DEF TypeOK, GrabCall, Gens, DrawerInputAssumption
<1>r. \A r \in releases : r.gen \in Nat
  BY DEF TypeOK, Release, Gens, DrawerInputAssumption
<1>1. CASE Show
  <2>1. /\ grabGen' = grabGen + 1 /\ visible' = TRUE
        /\ UNCHANGED <<grabSeq, grabbed, releases>>
        /\ grabCalls' = grabCalls \cup {[gen |-> grabGen', grab |-> TRUE]}
    BY <1>1 DEF Show, readerVars
  <2>r. /\ [gen |-> grabGen', grab |-> TRUE].gen = grabGen'
        /\ [gen |-> grabGen', grab |-> TRUE].grab = visible'
    BY <2>1, Zenon
  <2>2. \A c \in grabCalls' : c.gen <= grabGen' /\ (c.gen = grabGen' => c.grab = visible')
    <3>1. ASSUME NEW c \in grabCalls'
          PROVE  \/ c \in grabCalls
                 \/ c.gen = grabGen' /\ c.grab = visible'
      BY <2>1, <2>r, Zenon
    <3>2. grabGen' = grabGen + 1
      BY <2>1
    <3>3. QED BY <3>1, <3>2, <1>g, <1>c
  <2>3. \A r \in releases' : r.gen <= grabGen' /\ (r.gen = grabGen' => ~visible')
    BY <2>1, <1>g, <1>r
  <2>4. \E c \in grabCalls' : c.gen = grabGen'
    BY <2>1, <2>r, Zenon
  <2>5. grabSeq' <= grabGen' /\ grabSeq' # grabGen'
    BY <2>1, <1>g
  <2>6. QED BY <2>2, <2>3, <2>4, <2>5
<1>2. CASE Hide
  <2>1. /\ grabGen' = grabGen + 1 /\ visible' = FALSE
        /\ UNCHANGED <<grabSeq, grabbed>>
    BY <1>2 DEF Hide, readerVars
  <2>2. \A c \in grabCalls' : c.gen <= grabGen' /\ (c.gen = grabGen' => c.grab = visible')
    <3>r. /\ [gen |-> grabGen', grab |-> FALSE].gen = grabGen'
          /\ [gen |-> grabGen', grab |-> FALSE].grab = visible'
      BY <2>1, Zenon
    <3>1. ASSUME NEW c \in grabCalls'
          PROVE  \/ c \in grabCalls
                 \/ c.gen = grabGen' /\ c.grab = visible'
      BY <1>2, <3>r, Zenon DEF Hide
    <3>2. QED BY <3>1, <2>1, <1>g, <1>c
  <2>3. \A r \in releases' : r.gen <= grabGen' /\ (r.gen = grabGen' => ~visible')
    <3>1. ASSUME NEW r \in releases'
          PROVE  \/ r \in releases
                 \/ r = [gen |-> grabGen', pc |-> "unblock", pid |-> steamPID]
      BY <1>2 DEF Hide
    <3>2. QED BY <3>1, <2>1, <1>g, <1>r
  <2>4. \/ \E c \in grabCalls' : c.gen = grabGen'
        \/ \E r \in releases' : r.gen = grabGen'
    <3>1. \/ [gen |-> grabGen', grab |-> FALSE] \in grabCalls'
          \/ [gen |-> grabGen', pc |-> "unblock", pid |-> steamPID] \in releases'
      BY <1>2 DEF Hide
    <3>2. QED BY <3>1
  <2>5. grabSeq' <= grabGen' /\ grabSeq' # grabGen'
    BY <2>1, <1>g
  <2>6. QED BY <2>2, <2>3, <2>4, <2>5
<1>3. ASSUME NEW c \in grabCalls, CallSetGrabbed(c)
      PROVE  GrabInv'
  <2>1. /\ UNCHANGED <<grabGen, visible, releases>>
        /\ grabCalls' = grabCalls \ {c}
        /\ SetGrabbed(c.gen, c.grab)
    BY <1>3 DEF CallSetGrabbed, steamVars
  <2>2. /\ grabSeq' \in Nat /\ grabSeq' <= grabGen
        /\ grabSeq' = grabGen => grabbed' = visible
        /\ c.gen = grabGen \/ grabSeq = grabGen => grabSeq' = grabGen
    BY <2>1, <1>g, <1>c, SetGrabbedOrder DEF TypeOK
  <2>3. \A d \in grabCalls' : d.gen <= grabGen' /\ (d.gen = grabGen' => d.grab = visible')
    BY <2>1
  <2>4. \/ grabSeq' = grabGen'
        \/ \E d \in grabCalls' : d.gen = grabGen'
        \/ \E r \in releases' : r.gen = grabGen'
    BY <2>1, <2>2
  <2>5. QED BY <2>1, <2>2, <2>3, <2>4
<1>4. ASSUME NEW r \in releases, ReleaseUngrab(r)
      PROVE  GrabInv'
  <2>1. /\ UNCHANGED <<grabGen, visible, grabCalls>>
        /\ releases' = releases \ {r}
        /\ SetGrabbed(r.gen, FALSE)
    BY <1>4 DEF ReleaseUngrab, windowVars
  <2>2. /\ grabSeq' \in Nat /\ grabSeq' <= grabGen
        /\ grabSeq' = grabGen => grabbed' = visible
        /\ r.gen = grabGen \/ grabSeq = grabGen => grabSeq' = grabGen
    BY <2>1, <1>g, <1>r, SetGrabbedOrder DEF TypeOK
  <2>3. \A d \in releases' : d.gen <= grabGen' /\ (d.gen = grabGen' => ~visible')
    BY <2>1
  <2>4. \/ grabSeq' = grabGen'
        \/ \E c \in grabCalls' : c.gen = grabGen'
        \/ \E d \in releases' : d.gen = grabGen'
    BY <2>1, <2>2
  <2>5. QED BY <2>1, <2>2, <2>3, <2>4
<1>5. ASSUME NEW r \in releases, ReleaseUnblock(r)
      PROVE  GrabInv'
  <2>1. /\ UNCHANGED <<grabGen, visible, grabCalls, grabSeq, grabbed>>
        /\ releases' = (releases \ {r}) \cup {[r EXCEPT !.pc = "ungrab"]}
    BY <1>5 DEF ReleaseUnblock, windowVars, readerVars
  <2>2. [r EXCEPT !.pc = "ungrab"].gen = r.gen
    BY DEF TypeOK, Release
  <2>3. \A d \in releases' : d.gen <= grabGen' /\ (d.gen = grabGen' => ~visible')
    <3>1. ASSUME NEW d \in releases'
          PROVE  d \in releases \/ d.gen = r.gen
      BY <2>1, <2>2
    <3>2. QED BY <2>1, <3>1
  <2>4. \A d \in releases : \E e \in releases' : e.gen = d.gen
    BY <2>1, <2>2
  <2>5. QED BY <2>1, <2>3, <2>4
<1>6. ASSUME UNCHANGED <<grabSeq, grabbed, windowVars, releases>>
      PROVE  GrabInv'
  BY <1>6 DEF windowVars
<1>7. CASE RecordBlock
  BY <1>7, <1>6 DEF RecordBlock, readerVars
<1>8. ASSUME NEW t \in blockTasks, FindSteam(t) \/ BlockSteam(t) \/ BlockFails(t) \/ PostBlocked(t)
      PROVE  GrabInv'
  BY <1>8, <1>6 DEF FindSteam, BlockSteam, BlockFails, PostBlocked, readerVars
<1>9. CASE LaunchSteam
  BY <1>9, <1>6 DEF LaunchSteam, readerVars
<1>10. CASE Devices
  <2>1. UNCHANGED <<grabSeq, grabbed>>
    BY <1>10 DEF Devices, DeviceNext, ScanOpen, AdoptTracked, AdoptIgnored,
                 Cleanup, Plug, Unplug
  <2>2. QED BY <1>10, <2>1, <1>6 DEF Devices, steamVars
<1>11. CASE UNCHANGED vars
  BY <1>11, <1>6 DEF vars, readerVars, steamVars
<1>12. QED
  BY <1>1, <1>2, <1>3, <1>4, <1>5, <1>7, <1>8, <1>9, <1>10, <1>11
     DEF Next, GrabStep, BlockStep, ReleaseStep

(* Once the newest show or hide has had its request applied, the reader     *)
(* wants the controllers exactly when the drawer is open, and no older      *)
(* request that arrives later can change that.                              *)
THEOREM NewestIntentWins == Spec => []NewestIntent
<1>1. Spec => []TypeOK
  BY TypeCorrect
<1>2. Spec => []GrabInv
  BY <1>1, GrabInit, GrabNext, PTL DEF Spec
<1>3. GrabInv => NewestIntent
  BY DEF GrabInv
<1>4. QED BY <1>2, <1>3, PTL

-----------------------------------------------------------------------------
(* The blocker.  A goroutine about to block has a PID to report when it has *)
(* done so, and a PID is on record only while the drawer is open.           *)

SteamInv ==
  /\ BlockHasOwner
  /\ steamPID => visible
  /\ \A t \in blockTasks : t.pc = "block" => t.pid
  /\ ~hasBlocker => ~steamPID /\ blockTasks = {} /\ idle = <<>>

LEMMA SteamInit == Init => SteamInv
<1> SUFFICES ASSUME Init PROVE SteamInv
  OBVIOUS
<1>1. ~blocked /\ ~steamPID /\ blockTasks = {} /\ idle = <<>>
  BY DEF Init
<1>2. \A i \in 1..Len(idle) : FALSE
  BY <1>1
<1>3. QED BY <1>1, <1>2, Zenon DEF SteamInv, BlockHasOwner

LEMMA SteamNext == TypeOK /\ SteamInv /\ [Next]_vars => SteamInv'
<1> SUFFICES ASSUME TypeOK, SteamInv, [Next]_vars
             PROVE  SteamInv'
  OBVIOUS
<1>b. /\ blocked \in BOOLEAN /\ steamPID \in BOOLEAN /\ visible \in BOOLEAN
      /\ steam \in BOOLEAN /\ missed \in BOOLEAN /\ idle \in Seq(BOOLEAN)
  BY DEF TypeOK
<1>1. CASE Show
  <2>1. /\ UNCHANGED <<steamPID, releases, idle, blocked, steam, missed,
                   hasBlocker>>
        /\ visible' = TRUE
        /\ ~hasBlocker => blockTasks' = blockTasks
        /\ \A t \in blockTasks : t \in blockTasks'
    BY <1>1 DEF Show, externalSteam
  <2>2. \A t \in blockTasks' : t \in blockTasks \/ t.pc = "find"
    <3> DEFINE u == [gen |-> grabGen', pc |-> "find", pid |-> FALSE]
    <3>1. u.pc = "find"
      OBVIOUS
    <3>2. \A t \in blockTasks' : t \in blockTasks \/ t = u
      BY <1>1, Zenon DEF Show
    <3>3. QED BY <3>1, <3>2, Zenon
  <2>3. QED BY <2>1, <2>2 DEF SteamInv, BlockHasOwner
<1>2. CASE Hide
  <2>1. /\ UNCHANGED <<blockTasks, idle, blocked, steam, missed,
                   hasBlocker>>
        /\ visible' = FALSE
        /\ \A r \in releases : r \in releases'
    BY <1>2 DEF Hide, externalSteam
  <2>2. ~steamPID'
    BY <1>2 DEF Hide, SteamInv
  <2>3. ASSUME steamPID
        PROVE  \E r \in releases' : r.pc = "unblock" /\ r.pid
    <3> DEFINE r == [gen |-> grabGen', pc |-> "unblock", pid |-> steamPID]
    <3>1. hasBlocker
      BY <2>3 DEF SteamInv
    <3>2. r \in releases'
      BY <1>2, <3>1, Zenon DEF Hide
    <3>3. r.pc = "unblock" /\ r.pid
      BY <2>3, Zenon
    <3>4. QED BY <3>2, <3>3
  <2>4. BlockHasOwner'
    BY <2>1, <2>2, <2>3 DEF SteamInv, BlockHasOwner
  <2>5. QED BY <2>1, <2>2, <2>4 DEF SteamInv
<1>3. CASE RecordBlock
  <2>1. /\ idle # <<>> /\ idle' = Tail(idle)
        /\ UNCHANGED <<visible, blockTasks, releases, hasBlocker>>
    BY <1>3 DEF RecordBlock, windowVars
  <2>2. /\ Head(idle) = idle[1] /\ 1 \in 1..Len(idle)
        /\ Len(idle') = Len(idle) - 1
        /\ \A i \in 1..Len(idle) : i = 1 \/ (i - 1 \in 1..Len(idle') /\ idle'[i - 1] = idle[i])
    BY <2>1, <1>b
  <2>3. hasBlocker
    BY <2>1 DEF SteamInv
  <2>4. /\ visible => /\ steamPID' = Head(idle) /\ blocked' = blocked
                      /\ missed' = (~Head(idle) /\ (steamPID \/ missed))
        /\ ~visible => /\ steamPID' = steamPID
                       /\ Head(idle) => blocked' = FALSE
                       /\ ~Head(idle) => blocked' = blocked /\ missed' = missed
    BY <1>3 DEF RecordBlock, UnblockSteam
  <2>5. steamPID' => visible'
    BY <2>1, <2>4 DEF SteamInv
  <2>6. ASSUME blocked', ~steamPID', ~missed' PROVE ~Head(idle) /\ blocked /\ ~steamPID /\ ~missed
    BY <2>4, <2>6, <1>b
  <2>7. (\E i \in 1..Len(idle) : idle[i]) /\ ~Head(idle) => \E i \in 1..Len(idle') : idle'[i]
    BY <2>2
  <2>8. BlockHasOwner'
    BY <2>1, <2>6, <2>7 DEF SteamInv, BlockHasOwner
  <2>9. QED BY <2>1, <2>3, <2>5, <2>8 DEF SteamInv
<1>4. ASSUME NEW c \in grabCalls, CallSetGrabbed(c)
      PROVE  SteamInv'
  BY <1>4 DEF CallSetGrabbed, steamVars, SteamInv, BlockHasOwner
<1>5. ASSUME NEW t \in blockTasks, FindSteam(t) \/ BlockFails(t)
      PROVE  SteamInv'
  <2>1. PICK u :
          /\ u.pc = "block" => u.pid
          /\ blockTasks' = (blockTasks \ {t}) \cup {u}
    <3>1. CASE FindSteam(t)
      <4> DEFINE u == [t EXCEPT !.pc = IF steam THEN "block" ELSE "post", !.pid = steam]
      <4>1. u.pc = "block" => u.pid
        BY <1>b DEF TypeOK, BlockTask
      <4>2. QED BY <3>1, <4>1 DEF FindSteam
    <3>2. CASE BlockFails(t)
      <4> DEFINE u == [t EXCEPT !.pc = "post", !.pid = FALSE]
      <4>1. u.pc = "post"
        BY DEF TypeOK, BlockTask
      <4>2. QED BY <3>2, <4>1 DEF BlockFails
    <3>3. QED BY <1>5, <3>1, <3>2
  <2>2. /\ UNCHANGED <<visible, steamPID, releases, idle, blocked, missed, hasBlocker>>
        /\ t.pc # "post"
    BY <1>5 DEF FindSteam, BlockFails, windowVars, externalSteam
  <2>3. BlockHasOwner'
    <3>1. \A d \in blockTasks : d.pc = "post" => d \in blockTasks'
      BY <2>1, <2>2
    <3>2. QED BY <2>2, <3>1 DEF SteamInv, BlockHasOwner
  <2>4. QED BY <2>1, <2>2, <2>3 DEF SteamInv
<1>6. ASSUME NEW t \in blockTasks, BlockSteam(t)
      PROVE  SteamInv'
  <2> DEFINE u == [t EXCEPT !.pc = "post"]
  <2>1. /\ UNCHANGED <<visible, steamPID, releases, idle, missed, hasBlocker>>
        /\ blockTasks' = (blockTasks \ {t}) \cup {u}
        /\ t.pc = "block"
    BY <1>6 DEF BlockSteam, windowVars, externalSteam
  <2>2. u.pid = t.pid /\ u.pc = "post" /\ t.pid
    BY <2>1 DEF TypeOK, BlockTask, SteamInv
  <2>3. u \in blockTasks' /\ \A d \in blockTasks' : d \in blockTasks \/ d = u
    BY <2>1
  <2> HIDE DEF u
  <2>4. BlockHasOwner'
    BY <2>2, <2>3 DEF BlockHasOwner
  <2>5. QED BY <2>1, <2>2, <2>3, <2>4 DEF SteamInv
<1>7. ASSUME NEW t \in blockTasks, PostBlocked(t)
      PROVE  SteamInv'
  <2>1. /\ UNCHANGED <<visible, steamPID, releases, blocked, missed, hasBlocker>>
        /\ blockTasks' = blockTasks \ {t}
        /\ t.pc = "post" /\ idle' = Append(idle, t.pid)
    BY <1>7 DEF PostBlocked, windowVars, externalSteam
  <2>2. t.pid \in BOOLEAN /\ hasBlocker
    BY DEF TypeOK, BlockTask, SteamInv
  <2>3. /\ Len(idle') = Len(idle) + 1 /\ Len(idle) \in Nat
        /\ idle'[Len(idle) + 1] = t.pid
        /\ \A i \in 1..Len(idle) : idle'[i] = idle[i]
    BY <2>1, <2>2, <1>b
  <2>4. Len(idle) + 1 \in 1..Len(idle') /\ 1..Len(idle) \subseteq 1..Len(idle')
    BY <2>3
  <2>5. BlockHasOwner'
    <3>1. CASE t.pid
      BY <3>1, <2>3, <2>4 DEF BlockHasOwner
    <3>2. CASE ~t.pid
      BY <3>2, <2>1, <2>3, <2>4 DEF BlockHasOwner, SteamInv
    <3>3. QED BY <3>1, <3>2
  <2>6. QED BY <2>1, <2>2, <2>5 DEF SteamInv
<1>8. ASSUME NEW r \in releases, ReleaseUnblock(r)
      PROVE  SteamInv'
  <2>1. /\ UNCHANGED <<visible, steamPID, blockTasks, idle, hasBlocker>>
        /\ releases' = (releases \ {r}) \cup {[r EXCEPT !.pc = "ungrab"]}
        /\ r.pid => ~blocked'
        /\ ~r.pid => blocked' = blocked /\ missed' = missed
    BY <1>8 DEF ReleaseUnblock, UnblockSteam, windowVars
  <2>2. blocked' => blocked /\ missed' = missed /\ ~r.pid
    BY <2>1
  <2>3. \A d \in releases : d = r \/ d \in releases'
    BY <2>1
  <2>4. BlockHasOwner'
    BY <2>1, <2>2, <2>3 DEF BlockHasOwner, SteamInv
  <2>5. QED BY <2>1, <2>4 DEF SteamInv
<1>9. ASSUME NEW r \in releases, ReleaseUngrab(r)
      PROVE  SteamInv'
  <2>1. /\ UNCHANGED <<visible, steamPID, blockTasks, idle, blocked, missed, hasBlocker>>
        /\ releases' = releases \ {r} /\ r.pc = "ungrab"
    BY <1>9 DEF ReleaseUngrab, windowVars, externalSteam
  <2>2. \A d \in releases : d.pc = "unblock" => d \in releases'
    BY <2>1
  <2>3. QED BY <2>1, <2>2 DEF BlockHasOwner, SteamInv
<1>10. CASE LaunchSteam
  BY <1>10 DEF LaunchSteam, windowVars, SteamInv, BlockHasOwner
<1>11. CASE Devices \/ UNCHANGED vars
  BY <1>11 DEF Devices, vars, windowVars, steamVars, SteamInv, BlockHasOwner
<1>12. QED
  BY <1>1, <1>2, <1>3, <1>4, <1>5, <1>6, <1>7, <1>8, <1>9, <1>10, <1>11
     DEF Next, GrabStep, BlockStep, ReleaseStep

(* A blocked Steam always has somebody left to unblock it, however show and *)
(* hide and their goroutines interleave.                                    *)
THEOREM BlockAlwaysOwned ==
  Spec => []BlockHasOwner
<1>1. Spec => []TypeOK
  BY TypeCorrect
<1>2. Spec => []SteamInv
  BY <1>1, SteamInit, SteamNext, PTL DEF Spec
<1>3. SteamInv => BlockHasOwner
  BY DEF SteamInv
<1>4. QED BY <1>2, <1>3, PTL

(* A drawer that has settled closed holds no controller and leaves Steam    *)
(* unblocked.                                                               *)
THEOREM ClosedReleases ==
  Spec => []ClosedReleasesAll
<1>1. Spec => [](TypeOK /\ ReaderInv)
  BY TypeInit, TypeNext, PTL DEF Spec
<1>2. Spec => []GrabInv
  BY <1>1, GrabInit, GrabNext, PTL DEF Spec
<1>3. Spec => []SteamInv
  BY <1>1, SteamInit, SteamNext, PTL DEF Spec
<1>4. TypeOK /\ ReaderInv /\ GrabInv /\ SteamInv => ClosedReleasesAll
  <2> SUFFICES ASSUME TypeOK, ReaderInv, GrabInv, SteamInv, Settled, ~visible
               PROVE  held = {} /\ (blocked => missed)
    BY DEF ClosedReleasesAll
  <2>1. ~grabbed
    BY DEF GrabInv, NewestIntent, Settled
  <2>2. held = {}
    BY <2>1 DEF ReaderInv, GrabMatchesFlag
  <2>3. ~steamPID /\ releases = {} /\ blockTasks = {} /\ idle = <<>>
    BY DEF SteamInv, Settled
  <2>4. \A i \in 1..Len(idle) : FALSE
    BY <2>3
  <2>5. blocked => missed
    BY <2>3, <2>4, Zenon DEF SteamInv, BlockHasOwner
  <2>6. QED BY <2>2, <2>5
<1>5. QED BY <1>1, <1>2, <1>3, <1>4, PTL

(* A drawer that has settled open holds every connected controller another  *)
(* client does not keep, and has the PID it must unblock on record.         *)
THEOREM OpenHolds ==
  Spec => []OpenHoldsControllers
<1>1. Spec => [](TypeOK /\ ReaderInv)
  BY TypeInit, TypeNext, PTL DEF Spec
<1>2. Spec => []GrabInv
  BY <1>1, GrabInit, GrabNext, PTL DEF Spec
<1>3. Spec => []SteamInv
  BY <1>1, SteamInit, SteamNext, PTL DEF Spec
<1>4. TypeOK /\ ReaderInv /\ GrabInv /\ SteamInv => OpenHoldsControllers
  <2> SUFFICES ASSUME TypeOK, ReaderInv, GrabInv, SteamInv, Settled, visible
               PROVE  /\ (tracked \cap live) \ Contested \subseteq held
                      /\ blocked => steamPID \/ missed
    BY DEF OpenHoldsControllers
  <2>1. grabbed = visible
    BY DEF GrabInv, NewestIntent, Settled
  <2>2. (tracked \cap live) \ Contested \subseteq held
    BY <2>1, Zenon DEF ReaderInv, GrabMatchesFlag
  <2>3. releases = {} /\ blockTasks = {} /\ idle = <<>>
    BY DEF Settled
  <2>4. \A i \in 1..Len(idle) : FALSE
    BY <2>3
  <2>5. blocked => steamPID \/ missed
    BY <2>3, <2>4, Zenon DEF SteamInv, BlockHasOwner
  <2>6. QED BY <2>2, <2>5
<1>5. QED BY <1>1, <1>2, <1>3, <1>4, PTL

-----------------------------------------------------------------------------
(* The goroutines implement the ordered register of GrabOrder.              *)

Ahead == {q \in Requests : q.gen > grabSeq}

LEMMA OrderInit == Init => Order!Init
<1> SUFFICES ASSUME Init PROVE Order!Init
  OBVIOUS
<1>1. /\ grabSeq = 0 /\ grabGen = 0 /\ grabbed = FALSE
      /\ grabCalls = {} /\ releases = {}
  BY DEF Init, ReaderInit
<1>2. Requests = {}
  BY <1>1 DEF Requests
<1>3. {q \in Requests : q.gen > grabSeq} = {}
  BY <1>2
<1>4. QED BY <1>1, <1>3, Zenon DEF Order!Init

(* A goroutine that calls SetGrabbed with a request q of its own, and then  *)
(* carries none, either follows q or leaves everything as it was.           *)
LEMMA OrderFollow ==
  ASSUME TypeOK, NEW q \in Requests, SetGrabbed(q.gen, q.grab),
         grabGen' = grabGen,
         Requests' \subseteq Requests, Requests \subseteq Requests' \cup {q},
         \A p \in Requests : p.gen \in Nat
  PROVE  Order!Follow \/ UNCHANGED Order!vars
<1>n. grabSeq \in Nat /\ q.gen \in Nat
  BY DEF TypeOK
<1>1. CASE q.gen <= grabSeq
  <2>1. grabSeq' = grabSeq /\ grabbed' = grabbed
    BY <1>1 DEF SetGrabbed
  <2>2. ~(q.gen > grabSeq)
    BY <1>1, <1>n
  <2>3. Ahead' = Ahead
    BY <2>1, <2>2, Zenon DEF Ahead
  <2>4. QED BY <2>1, <2>3, Zenon DEF Order!vars, Ahead
<1>2. CASE ~(q.gen <= grabSeq)
  <2>1. grabSeq' = q.gen /\ grabbed' = q.grab
    BY <1>2 DEF SetGrabbed
  <2>2. q \in Ahead
    BY <1>2, <1>n DEF Ahead
  <2>3. Ahead' = {v \in Ahead : v.gen > q.gen}
    <3>1. ASSUME NEW v \in Requests
          PROVE  v.gen > q.gen => v.gen > grabSeq /\ v \in Requests'
      BY <1>2, <1>n
    <3>2. QED BY <2>1, <3>1, Zenon DEF Ahead
  <2>4. QED BY <2>1, <2>2, <2>3, Zenon DEF Order!Follow, Ahead
<1>3. QED BY <1>1, <1>2

(* A step of show or hide issues the next request.                          *)
LEMMA OrderRequest ==
  ASSUME TypeOK, grabSeq <= grabGen, NEW grab \in BOOLEAN,
         grabGen' = grabGen + 1, UNCHANGED <<grabSeq, grabbed>>,
         Requests' = Requests \cup {[gen |-> grabGen', grab |-> grab]}
  PROVE  Order!Request(grab)
<1> DEFINE new == [gen |-> grabGen', grab |-> grab]
<1>1. new.gen > grabSeq'
  <2>1. new.gen = grabGen'
    OBVIOUS
  <2>2. grabSeq \in Nat /\ grabGen \in Nat
    BY DEF TypeOK
  <2>3. QED BY <2>1, <2>2
<1>2. Requests' = Requests \cup {new}
  OBVIOUS
<1> HIDE DEF new
<1>3. Ahead' = Ahead \cup {new}
  BY <1>1, <1>2, Zenon DEF Ahead
<1>4. QED BY <1>3, Zenon DEF Order!Request, Ahead, new

LEMMA OrderNext ==
  TypeOK /\ GrabInv /\ [Next]_vars => [Order!Next]_(Order!vars)
<1> SUFFICES ASSUME TypeOK, GrabInv, [Next]_vars
             PROVE  Order!Next \/ UNCHANGED Order!vars
  BY Zenon
<1>s. grabSeq <= grabGen
  BY DEF GrabInv
<1>t. \A q \in Requests : q.gen \in Nat
  BY DEF TypeOK, GrabCall, Release, Gens, Requests
<1>u. ASSUME UNCHANGED <<grabSeq, grabbed, grabGen, Requests>>
      PROVE  UNCHANGED Order!vars
  BY <1>u, Zenon DEF Order!vars
<1>v. ASSUME UNCHANGED <<grabCalls, releases>>
      PROVE  UNCHANGED Requests
  BY <1>v DEF Requests
<1>1. CASE Show
  <2>1. grabCalls' = grabCalls \cup {[gen |-> grabGen', grab |-> TRUE]}
    BY <1>1 DEF Show
  <2>2. releases' = releases
    BY <1>1 DEF Show
  <2>3. Requests' = Requests \cup {[gen |-> grabGen', grab |-> TRUE]}
    BY <2>1, <2>2, Zenon DEF Requests
  <2>4. Order!Request(TRUE)
    BY <1>1, <1>s, <2>3, OrderRequest DEF Show, readerVars
  <2>5. QED BY <2>4, Zenon DEF Order!Next
<1>2. CASE Hide
  <2>1. Requests' = Requests \cup {[gen |-> grabGen', grab |-> FALSE]}
    <3>1. CASE hasBlocker
      <4> DEFINE r == [gen |-> grabGen', pc |-> "unblock", pid |-> steamPID]
      <4>1. releases' = releases \cup {r} /\ grabCalls' = grabCalls
        BY <1>2, <3>1, Zenon DEF Hide
      <4>2. r.gen = grabGen'
        OBVIOUS
      <4> HIDE DEF r
      <4>3. QED BY <4>1, <4>2, Zenon DEF Requests
    <3>2. CASE ~hasBlocker
      <4>1. /\ grabCalls' = grabCalls \cup {[gen |-> grabGen', grab |-> FALSE]}
            /\ releases' = releases
        BY <1>2, <3>2, Zenon DEF Hide
      <4>2. QED BY <4>1, Zenon DEF Requests
    <3>3. QED BY <3>1, <3>2
  <2>2. Order!Request(FALSE)
    BY <1>2, <1>s, <2>1, OrderRequest DEF Hide, readerVars
  <2>3. QED BY <2>2, Zenon DEF Order!Next
<1>3. ASSUME NEW c \in grabCalls, CallSetGrabbed(c)
      PROVE  Order!Next \/ UNCHANGED Order!vars
  <2>1. /\ grabCalls' = grabCalls \ {c} /\ UNCHANGED <<grabGen, releases>>
        /\ SetGrabbed(c.gen, c.grab)
    BY <1>3 DEF CallSetGrabbed, steamVars
  <2>2. c \in Requests
    BY DEF Requests
  <2>3. Requests' \subseteq Requests /\ Requests \subseteq Requests' \cup {c}
    BY <2>1, Zenon DEF Requests
  <2>4. Order!Follow \/ UNCHANGED Order!vars
    BY <2>1, <2>2, <2>3, <1>t, OrderFollow
  <2>5. QED BY <2>4, Zenon DEF Order!Next
<1>4. ASSUME NEW r \in releases, ReleaseUngrab(r)
      PROVE  Order!Next \/ UNCHANGED Order!vars
  <2> DEFINE q == [gen |-> r.gen, grab |-> FALSE]
  <2>1. /\ releases' = releases \ {r} /\ UNCHANGED <<grabGen, grabCalls>>
        /\ SetGrabbed(q.gen, q.grab)
    BY <1>4 DEF ReleaseUngrab, windowVars
  <2>2. q \in Requests
    BY Zenon DEF Requests
  <2>3. Requests' \subseteq Requests /\ Requests \subseteq Requests' \cup {q}
    BY <2>1, Zenon DEF Requests
  <2> HIDE DEF q
  <2>4. Order!Follow \/ UNCHANGED Order!vars
    BY <2>1, <2>2, <2>3, <1>t, OrderFollow
  <2>5. QED BY <2>4, Zenon DEF Order!Next
<1>5. ASSUME NEW r \in releases, ReleaseUnblock(r)
      PROVE  UNCHANGED Order!vars
  <2> DEFINE u == [r EXCEPT !.pc = "ungrab"]
  <2>1. /\ releases' = (releases \ {r}) \cup {u}
        /\ UNCHANGED <<grabSeq, grabbed, grabGen, grabCalls>>
    BY <1>5 DEF ReleaseUnblock, windowVars, readerVars
  <2>2. u.gen = r.gen
    BY DEF TypeOK, Release
  <2> HIDE DEF u
  <2>3. Requests' = Requests
    BY <2>1, <2>2, Zenon DEF Requests
  <2>4. QED BY <2>1, <2>3, <1>u
<1>6. CASE RecordBlock
  BY <1>6, <1>u, <1>v DEF RecordBlock, readerVars, windowVars
<1>7. ASSUME NEW t \in blockTasks, FindSteam(t) \/ BlockSteam(t) \/ BlockFails(t) \/ PostBlocked(t)
      PROVE  UNCHANGED Order!vars
  BY <1>7, <1>u, <1>v DEF FindSteam, BlockSteam, BlockFails, PostBlocked, readerVars, windowVars
<1>8. CASE LaunchSteam
  BY <1>8, <1>u, <1>v DEF LaunchSteam, readerVars, windowVars
<1>9. CASE Devices
  <2>1. UNCHANGED <<grabSeq, grabbed>>
    BY <1>9 DEF Devices, DeviceNext, ScanOpen, AdoptTracked, AdoptIgnored,
                Cleanup, Plug, Unplug
  <2>2. QED BY <1>9, <2>1, <1>u, <1>v DEF Devices, steamVars, windowVars
<1>10. CASE UNCHANGED vars
  BY <1>10, <1>u, <1>v DEF vars, readerVars, windowVars, steamVars
<1>11. QED
  BY <1>1, <1>2, <1>3, <1>4, <1>5, <1>6, <1>7, <1>8, <1>9, <1>10
     DEF Next, GrabStep, BlockStep, ReleaseStep

(* Whatever the scheduler does with the goroutines of show and hide, the    *)
(* reader follows their requests in the order of issue: it may skip some    *)
(* but never goes back to an older one (GrabOrder's safety; that it reaches *)
(* the newest is liveness).                                                 *)
THEOREM FollowsInOrder == Spec => Order!Spec
<1>1. Spec => []TypeOK
  BY TypeCorrect
<1>2. Spec => []GrabInv
  BY <1>1, GrabInit, GrabNext, PTL DEF Spec
<1>3. QED BY <1>1, <1>2, OrderInit, OrderNext, PTL DEF Spec, Order!Spec
=============================================================================
