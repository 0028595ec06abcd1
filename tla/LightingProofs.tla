--------------------------- MODULE LightingProofs ---------------------------
(***************************************************************************)
(* Proofs about LightingApply, for any effects, colours, scales, number of *)
(* changes and beginnings.                                                 *)
(*                                                                         *)
(* Five inductive invariants:                                              *)
(*   Shape     the types, but for how many applies there can be            *)
(*   OwedInv   every apply started, every timer and every callback that is *)
(*             to start one was paid for by a change of the user's         *)
(*   PristineInv  until the user changes a device, whatever is in play for *)
(*             it (in force, in the controls, in snapshots taken or on     *)
(*             their way, in applies under way) has all it came with       *)
(*   LitInv    nothing in play for a device is on and dark, and no control *)
(*             that shows it is at 0, unless the user put it there         *)
(*   EffectInv  while nothing has excused it, the controls show what was   *)
(*             chosen, no device has two applies, and a choice that its    *)
(*             device does not have yet is waiting for its timer or its    *)
(*             callback, or is in an apply                                 *)
(***************************************************************************)
EXTENDS LightingApply, FiniteSetTheorems, TLAPS

USE LightingApplyAssumption DEF LightingApplyAssumption

Shape ==
  /\ tab \in Tabs
  /\ shown \in [Sections -> Settings]
  /\ state \in Snapshots /\ hw \in Snapshots /\ want \in Snapshots
  /\ timers \subseteq Sections
  /\ idle \in Seq(Callback)
  /\ applies \subseteq [device : Devices, setting : Settings, id : Nat]
  /\ \A a \in applies : a.id \in 1..sent
  /\ reads \subseteq Read
  /\ touched \subseteq Devices /\ dimmed \subseteq Tabs
  /\ changes \in 0..MaxChanges /\ sent \in Nat
  /\ excuses \subseteq Excuses

-----------------------------------------------------------------------------
(* Settings, entries, and what filling the controls makes of them.          *)

LEMMA SettingType ==
  ASSUME NEW x \in Settings
  PROVE  /\ x.mode \in Modes /\ x.color \in Colors /\ x.level \in 0..MaxLevel
         /\ x \in Entries
         /\ \A v \in 0..MaxLevel : [x EXCEPT !.level = v] \in Settings
         /\ \A c \in Colors : [x EXCEPT !.color = c] \in Settings
         /\ \A m \in Modes : [x EXCEPT !.mode = m] \in Settings
BY DEF Settings, Entries

LEMMA EntryType ==
  ASSUME NEW x \in Entries
  PROVE  /\ x.mode \in Modes \cup {"unset"} /\ x.color \in Colors \cup {"none"}
         /\ x.level \in 0..MaxLevel
         /\ \A v \in 0..MaxLevel : [x EXCEPT !.level = v] \in Entries
         /\ \A c \in Colors : [x EXCEPT !.color = c] \in Entries
         /\ \A m \in Modes : [x EXCEPT !.mode = m] \in Entries
BY DEF Entries

LEMMA OffType == Off \in Entries /\ Off.mode = "off"
BY DEF Off, Entries, Modes

LEMMA FillType ==
  ASSUME NEW s \in Sections, NEW e \in Entries, NEW now \in Settings
  PROVE  /\ Fill(s, e, now) \in Settings
         /\ s # "battery" => /\ Fill(s, e, now).mode = "off" <=> e.mode = "off"
                             /\ e.mode # "off" => Fill(s, e, now).level = e.level
                             /\ e.mode = "off" => Fill(s, e, now).level = MaxLevel
                             /\ e.color # "none" => Fill(s, e, now).color = e.color
                             /\ e.mode # "unset" => Fill(s, e, now).mode = e.mode
         /\ s = "battery" /\ e.level # 0 => Fill(s, e, now).level = e.level
<1>1. /\ e.mode \in Modes \cup {"unset"} /\ e.color \in Colors \cup {"none"}
      /\ e.level \in 0..MaxLevel
  BY EntryType
<1>2. CASE s = "battery"
  <2> DEFINE v == IF e.level = 0 THEN now.level ELSE e.level
  <2>1. Fill(s, e, now) = [now EXCEPT !.level = v] /\ v \in 0..MaxLevel
    BY <1>1, <1>2, SettingType DEF Fill
  <2> HIDE DEF v
  <2>2. Fill(s, e, now) \in Settings /\ Fill(s, e, now).level = v
    BY <2>1, SettingType DEF Settings
  <2>3. QED BY <1>2, <2>2 DEF v
<1>3. CASE s # "battery"
  <2> DEFINE m == IF e.mode = "unset" THEN DefaultEffect ELSE e.mode
             c == IF e.color = "none" THEN now.color ELSE e.color
             v == IF e.mode = "off" THEN MaxLevel ELSE e.level
  <2>1. Fill(s, e, now) = [mode |-> m, color |-> c, level |-> v]
    BY <1>3 DEF Fill
  <2>2. m \in Modes /\ c \in Colors /\ v \in 0..MaxLevel
    BY <1>1, SettingType DEF Modes
  <2>3. m = "off" <=> e.mode = "off"
    OBVIOUS
  <2>4. QED BY <1>3, <2>1, <2>2, <2>3 DEF Settings
<1>4. QED BY <1>2, <1>3

LEMMA MeetsItself == \A d, x : Meets(d, x, x)
BY DEF Meets

(* Controls filled from an entry that has what was wished for have it too.  *)
LEMMA FillMeets ==
  ASSUME NEW s \in Sections, NEW d, s = "battery" <=> d = "battery",
         NEW e \in Entries, NEW now \in Settings, NEW w \in Entries, Meets(d, e, w)
  PROVE  Meets(d, Fill(s, e, now), w)
<1> DEFINE f == Fill(s, e, now)
<1>1. /\ s # "battery" => /\ f.mode = "off" <=> e.mode = "off"
                          /\ e.mode # "off" => f.level = e.level
                          /\ e.color # "none" => f.color = e.color
                          /\ e.mode # "unset" => f.mode = e.mode
      /\ s = "battery" /\ e.level # 0 => f.level = e.level
  BY FillType
<1> HIDE DEF f
<1>2. QED BY <1>1 DEF Meets, f

(* So has the cleared entry of a device that is to be off.                  *)
LEMMA OffMeets ==
  ASSUME NEW d \in Tabs, NEW e, e.mode = "off", NEW w, Meets(d, e, w)
  PROVE  Meets(d, Off, w)
BY OffType DEF Meets, Tabs

-----------------------------------------------------------------------------
(* Types: the parts of the actions.                                         *)

LEMMA DeviceType ==
  ASSUME tab \in Tabs, NEW s \in Sections
  PROVE  Device(s) \in Devices
BY DEF Device, Devices, Tabs, Sections

LEMMA SendType ==
  ASSUME Shape, NEW s \in Sections, NEW setting \in Settings, send(s, setting)
  PROVE  /\ sent' = sent + 1 /\ sent' \in Nat
         /\ applies' \subseteq [device : Devices, setting : Settings, id : Nat]
         /\ \A a \in applies' : a.id \in 1..sent'
         /\ excuses' \subseteq Excuses
<1> USE DEF Shape
<1> DEFINE a0 == [device |-> Device(s), setting |-> setting, id |-> sent']
<1>1. sent' = sent + 1 /\ sent' \in Nat
  BY DEF send
<1>2. Device(s) \in Devices
  BY DeviceType
<1>3. a0 \in [device : Devices, setting : Settings, id : Nat] /\ a0.id = sent'
  BY <1>1, <1>2
<1>4. applies' = applies \cup {a0}
  BY DEF send
<1> HIDE DEF a0
<1>5. applies' \subseteq [device : Devices, setting : Settings, id : Nat]
  BY <1>3, <1>4, Zenon
<1>6. \A a \in applies' : a.id \in 1..sent'
  <2>1. \A a \in applies : a.id \in 1..sent'
    BY <1>1
  <2>2. a0.id \in 1..sent'
    BY <1>1, <1>3
  <2>3. QED BY <1>4, <2>1, <2>2
<1>7. excuses' \subseteq Excuses
  BY DEF send, Excuse, Excuses
<1>8. QED BY <1>1, <1>5, <1>6, <1>7

LEMMA ChosenType ==
  ASSUME Shape, NEW s \in Sections, NEW setting \in Settings, NEW wished \in Entries,
         Chosen(s, setting, wished)
  PROVE  /\ changes' = changes + 1 /\ changes' \in 0..MaxChanges
         /\ touched' \subseteq Devices /\ Device(s) \in touched'
         /\ shown' \in [Sections -> Settings] /\ shown'[s] = setting
         /\ \A r \in Sections \ {s} : shown'[r] = shown[r]
         /\ want' \in Snapshots /\ want'[Device(s)] = wished
         /\ \A d \in Devices \ {Device(s)} : want'[d] = want[d]
<1> USE DEF Shape, Chosen
<1>1. changes' = changes + 1 /\ changes' \in 0..MaxChanges
  OBVIOUS
<1>2. Device(s) \in Devices
  BY DeviceType
<1>3. touched' \subseteq Devices /\ Device(s) \in touched'
  BY <1>2
<1>4. /\ shown' \in [Sections -> Settings] /\ shown'[s] = setting
      /\ \A r \in Sections \ {s} : shown'[r] = shown[r]
  OBVIOUS
<1>5. /\ want' \in Snapshots /\ want'[Device(s)] = wished
      /\ \A d \in Devices \ {Device(s)} : want'[d] = want[d]
  BY <1>2 DEF Snapshots
<1>6. QED BY <1>1, <1>3, <1>4, <1>5

(* The two kinds of change, as the user makes them and as they are wished.  *)
LEMMA SlideIs ==
  ASSUME Shape, NEW s \in Sections, Slide(s)
  PROVE  \E setting \in Settings, wished \in Entries :
           /\ Chosen(s, setting, wished)
           /\ s = "lighting" => shown[s].mode # "off"
           /\ \/ \E v \in 0..MaxLevel :
                   /\ setting = [shown[s] EXCEPT !.level = v]
                   /\ wished = [want[Device(s)] EXCEPT !.level = v]
                   /\ dimmed' = dimmed \cup {d \in {Device(s)} : v = 0}
                   /\ s = "battery" => v # 0
              \/ \E c \in Colors :
                   /\ setting = [shown[s] EXCEPT !.color = c]
                   /\ wished = [want[Device(s)] EXCEPT !.color = c]
                   /\ s = "lighting" /\ dimmed' = dimmed
<1>1. shown[s] \in Settings /\ want[Device(s)] \in Entries
  BY DeviceType DEF Shape, Snapshots
<1>2. /\ \A v \in 0..MaxLevel : /\ [shown[s] EXCEPT !.level = v] \in Settings
                                /\ [want[Device(s)] EXCEPT !.level = v] \in Entries
      /\ \A c \in Colors : /\ [shown[s] EXCEPT !.color = c] \in Settings
                           /\ [want[Device(s)] EXCEPT !.color = c] \in Entries
  BY <1>1, SettingType, EntryType
<1>3. s = "lighting" => shown[s].mode # "off"
  BY DEF Slide
<1>4. CASE \E v \in 0..MaxLevel :
             /\ s = "battery" => v # 0
             /\ Chosen(s, [shown[s] EXCEPT !.level = v], [want[Device(s)] EXCEPT !.level = v])
             /\ dimmed' = dimmed \cup {d \in {Device(s)} : v = 0}
  BY <1>2, <1>3, <1>4
<1>5. CASE \E c \in Colors :
             /\ s = "lighting"
             /\ Chosen(s, [shown[s] EXCEPT !.color = c], [want[Device(s)] EXCEPT !.color = c])
             /\ dimmed' = dimmed
  BY <1>2, <1>3, <1>5
<1>6. QED BY <1>4, <1>5 DEF Slide

LEMMA ChooseIs ==
  ASSUME Shape, Choose
  PROVE  \E setting \in Settings, wished \in Entries :
           /\ Chosen("lighting", setting, wished) /\ send("lighting", setting)
           /\ \E old \in Entries :
                /\ old = IF shown["lighting"].mode = "off" THEN shown["lighting"] ELSE want[tab]
                /\ \/ \E m \in Modes : /\ setting = [shown["lighting"] EXCEPT !.mode = m]
                                      /\ wished = [old EXCEPT !.mode = m]
                   \/ /\ shown["lighting"].mode # "off"
                      /\ \E c \in Colors : /\ setting = [shown["lighting"] EXCEPT !.color = c]
                                           /\ wished = [old EXCEPT !.color = c]
<1> DEFINE now == shown["lighting"]
           old == IF now.mode = "off" THEN now ELSE want[tab]
<1>1. "lighting" \in Sections /\ now \in Settings /\ want[tab] \in Entries
  BY DEF Sections, Shape, Devices, Snapshots
<1>2. old \in Entries
  BY <1>1, SettingType
<1>3. /\ \/ \E m \in Modes : Chosen("lighting", [now EXCEPT !.mode = m], [old EXCEPT !.mode = m])
         \/ \E c \in Colors :
              /\ now.mode # "off"
              /\ Chosen("lighting", [now EXCEPT !.color = c], [old EXCEPT !.color = c])
      /\ send("lighting", shown'["lighting"])
  BY DEF Choose
<1>4. \A x, y : Chosen("lighting", x, y) => shown'["lighting"] = x
  BY <1>1 DEF Chosen, Shape
<1> HIDE DEF old
<1>5. CASE \E m \in Modes :
             Chosen("lighting", [now EXCEPT !.mode = m], [old EXCEPT !.mode = m])
  <2>1. PICK m \in Modes :
          Chosen("lighting", [now EXCEPT !.mode = m], [old EXCEPT !.mode = m])
    BY <1>5
  <2>2. [now EXCEPT !.mode = m] \in Settings /\ [old EXCEPT !.mode = m] \in Entries
    BY <1>1, <1>2, SettingType, EntryType
  <2>3. send("lighting", [now EXCEPT !.mode = m])
    BY <1>3, <1>4, <2>1
  <2>4. QED BY <1>2, <2>1, <2>2, <2>3 DEF old
<1>6. CASE \E c \in Colors :
             /\ now.mode # "off"
             /\ Chosen("lighting", [now EXCEPT !.color = c], [old EXCEPT !.color = c])
  <2>1. PICK c \in Colors :
          /\ now.mode # "off"
          /\ Chosen("lighting", [now EXCEPT !.color = c], [old EXCEPT !.color = c])
    BY <1>6
  <2>2. [now EXCEPT !.color = c] \in Settings /\ [old EXCEPT !.color = c] \in Entries
    BY <1>1, <1>2, SettingType, EntryType
  <2>3. send("lighting", [now EXCEPT !.color = c])
    BY <1>3, <1>4, <2>1
  <2>4. QED BY <1>2, <2>1, <2>2, <2>3 DEF old
<1>7. QED BY <1>3, <1>5, <1>6

LEMMA SlideType ==
  ASSUME Shape, NEW s \in Sections, Slide(s)
  PROVE  Shape'
<1>1. PICK setting \in Settings, wished \in Entries : Chosen(s, setting, wished)
  BY SlideIs
<1>2. /\ changes' \in 0..MaxChanges /\ touched' \subseteq Devices
      /\ shown' \in [Sections -> Settings] /\ want' \in Snapshots
  BY <1>1, ChosenType
<1>3. dimmed' \subseteq Tabs
  <2>1. dimmed' = dimmed \/ (s = "lighting" /\ dimmed' \subseteq dimmed \cup {tab})
        \/ (s = "battery" /\ dimmed' \subseteq dimmed)
    BY SlideIs DEF Sections, Device
  <2>2. QED BY <2>1 DEF Shape
<1>4. timers' \subseteq Sections
  BY DEF Slide, ValueChanged, Shape
<1>5. QED BY <1>2, <1>3, <1>4 DEF Slide, Shape

LEMMA ChooseType ==
  ASSUME Shape, Choose
  PROVE  Shape'
<1>1. PICK setting \in Settings, wished \in Entries :
        Chosen("lighting", setting, wished) /\ send("lighting", setting)
  BY ChooseIs
<1>2. "lighting" \in Sections
  BY DEF Sections
<1>3. /\ changes' \in 0..MaxChanges /\ touched' \subseteq Devices
      /\ shown' \in [Sections -> Settings] /\ want' \in Snapshots
  BY <1>1, <1>2, ChosenType
<1>4. /\ sent' \in Nat
      /\ applies' \subseteq [device : Devices, setting : Settings, id : Nat]
      /\ \A a \in applies' : a.id \in 1..sent'
      /\ excuses' \subseteq Excuses
  BY <1>1, <1>2, SendType
<1>5. QED BY <1>3, <1>4 DEF Choose, Shape

LEMMA ExpireType ==
  ASSUME Shape, NEW s \in Sections, Expire(s)
  PROVE  Shape'
<1>1. [do |-> "apply", section |-> s] \in Callback
  BY DEF Callback
<1>2. idle' \in Seq(Callback)
  BY <1>1 DEF Expire, Shape
<1>3. QED BY <1>2 DEF Expire, Shape, history

LEMMA SelectTabType ==
  ASSUME Shape, NEW t \in Tabs, SelectTab(t)
  PROVE  Shape'
<1> DEFINE filled == Fill("lighting", state[t], shown["lighting"])
<1>1. state[t] \in Entries /\ "lighting" \in Sections
  BY DEF Shape, Snapshots, Devices, Sections
<1>2. filled \in Settings
  BY <1>1, FillType DEF Shape
<1>3. shown' = [shown EXCEPT !["lighting"] = filled]
  BY DEF SelectTab
<1> HIDE DEF filled
<1>4. shown' \in [Sections -> Settings]
  BY <1>2, <1>3 DEF Shape
<1>5. excuses' \subseteq Excuses
  BY DEF SelectTab, Shape, Excuses
<1>6. QED BY <1>4, <1>5 DEF SelectTab, ValueChanged, Shape

(* What the head of the idle queue may be.                                  *)
LEMMA HeadType ==
  ASSUME idle \in Seq(Callback), idle # <<>>
  PROVE  /\ idle[1] = Head(idle)
         /\ Head(idle).do = "apply" => Head(idle).section \in Sections
         /\ Head(idle).do # "apply" =>
              Head(idle) \in Read /\ Head(idle).got \in Snapshots
<1>1. Head(idle) \in Callback /\ idle[1] = Head(idle)
  OBVIOUS
<1>2. QED BY <1>1 DEF Callback, Read

LEMMA RunApplyType ==
  ASSUME Shape, RunApply
  PROVE  Shape'
<1> DEFINE s == Head(idle).section
<1>1. idle # <<>> /\ Head(idle).do = "apply" /\ send(s, shown[s])
  BY DEF RunApply
<1>2. s \in Sections
  BY <1>1, HeadType DEF Shape
<1>3. shown[s] \in Settings
  BY <1>2 DEF Shape
<1> HIDE DEF s
<1>4. /\ sent' \in Nat
      /\ applies' \subseteq [device : Devices, setting : Settings, id : Nat]
      /\ \A a \in applies' : a.id \in 1..sent'
      /\ excuses' \subseteq Excuses
  BY <1>1, <1>2, <1>3, SendType
<1>5. idle' \in Seq(Callback)
  BY <1>1 DEF RunApply, Shape
<1>6. QED BY <1>4, <1>5 DEF RunApply, Shape, controls

(* The answer of an open: what it does to the controls and the accounts.    *)
LEMMA RunReadIs ==
  ASSUME Shape, RunRead
  PROVE  /\ idle # <<>> /\ idle' = Tail(idle) /\ Head(idle).do # "apply"
         /\ Head(idle) \in Read /\ Head(idle).got \in Snapshots /\ state' = Head(idle).got
         /\ UNCHANGED <<tab, timers, applies, reads, hw, touched, dimmed, changes, sent>>
         /\ \/ UNCHANGED <<shown, want, excuses>>
            \/ /\ shown' = [s \in Sections |-> Fill(s, Head(idle).got[Device(s)], shown[s])]
               /\ \/ /\ Quiet /\ Head(idle).got = hw
                     /\ want' = [d \in Devices |-> IF d \in touched THEN hw[d] ELSE want[d]]
                     /\ excuses' = {}
                  \/ /\ Excuse("sync", \E d \in Devices : ~Meets(d, Head(idle).got[d], want[d]))
                     /\ UNCHANGED want
<1>1. idle # <<>> /\ Head(idle).do # "apply"
  BY DEF RunRead
<1>2. Head(idle) \in Read /\ Head(idle).got \in Snapshots
  BY <1>1, HeadType DEF Shape
<1> DEFINE got == Head(idle).got
<1>3. /\ idle' = Tail(idle) /\ state' = got
      /\ UNCHANGED <<tab, applies, reads, hw, touched, dimmed, changes, sent>>
  BY DEF RunRead
<1>4. \/ UNCHANGED <<shown, timers, want, excuses>>
      \/ /\ shown' = [s \in Sections |-> Fill(s, got[Device(s)], shown[s])]
         /\ UNCHANGED timers
         /\ \/ /\ Quiet /\ got = hw
               /\ want' = [d \in Devices |-> IF d \in touched THEN got[d] ELSE want[d]]
               /\ excuses' = {}
            \/ /\ Excuse("sync", \E d \in Devices : ~Meets(d, got[d], want[d]))
               /\ UNCHANGED want
  BY DEF RunRead, ValueChanged
<1> HIDE DEF got
<1>5. QED BY <1>1, <1>2, <1>3, <1>4 DEF got

LEMMA RunReadType ==
  ASSUME Shape, RunRead
  PROVE  Shape'
<1> DEFINE got == Head(idle).got
<1>1. /\ idle # <<>> /\ idle' = Tail(idle) /\ state' = got /\ got \in Snapshots
      /\ UNCHANGED <<tab, timers, applies, reads, hw, touched, dimmed, changes, sent>>
      /\ \/ UNCHANGED <<shown, want, excuses>>
         \/ /\ shown' = [s \in Sections |-> Fill(s, got[Device(s)], shown[s])]
            /\ \/ /\ want' = [d \in Devices |-> IF d \in touched THEN hw[d] ELSE want[d]]
                  /\ excuses' = {}
               \/ /\ Excuse("sync", \E d \in Devices : ~Meets(d, got[d], want[d]))
                  /\ UNCHANGED want
  BY RunReadIs
<1> HIDE DEF got
<1>2. \A s \in Sections : Fill(s, got[Device(s)], shown[s]) \in Settings
  <2> TAKE s \in Sections
  <2>1. got[Device(s)] \in Entries /\ shown[s] \in Settings
    BY <1>1, DeviceType DEF Shape, Snapshots
  <2>2. QED BY <2>1, FillType
<1>3. shown' \in [Sections -> Settings]
  BY <1>1, <1>2 DEF Shape
<1>4. want' \in Snapshots
  BY <1>1 DEF Shape, Snapshots
<1>5. excuses' \subseteq Excuses
  BY <1>1 DEF Shape, Excuse, Excuses
<1>6. idle' \in Seq(Callback)
  BY <1>1 DEF Shape
<1>7. QED BY <1>1, <1>3, <1>4, <1>5, <1>6 DEF Shape

LEMMA WorldType ==
  ASSUME Shape,
         \/ \E a \in applies : Reach(a) \/ Fail(a)
         \/ \E do \in {"sync", "state"} : ReadState(do)
         \/ \E r \in reads : PostRead(r)
  PROVE  Shape'
<1>1. ASSUME NEW a \in applies, Reach(a) PROVE Shape'
  <2> DEFINE x == IF a.device \in Tabs /\ a.setting.mode = "off" THEN Off ELSE a.setting
  <2>1. a.device \in Devices /\ a.setting \in Settings
    BY DEF Shape
  <2>2. a.setting \in Entries
    BY <2>1, SettingType
  <2>3. x \in Entries
    BY <2>2, OffType
  <2>4. hw' = [hw EXCEPT ![a.device] = x]
    BY <1>1 DEF Reach
  <2> HIDE DEF x
  <2>5. hw' \in Snapshots
    BY <2>1, <2>3, <2>4 DEF Shape, Snapshots
  <2>6. QED BY <1>1, <2>5 DEF Reach, Shape, controls, history
<1>2. ASSUME NEW a \in applies, Fail(a) PROVE Shape'
  BY <1>2 DEF Fail, Shape, controls, Excuse, Excuses
<1>3. ASSUME NEW do \in {"sync", "state"}, ReadState(do) PROVE Shape'
  <2>1. [do |-> do, got |-> hw] \in Read
    BY DEF Read, Shape
  <2>2. reads' \subseteq Read
    BY <1>3, <2>1 DEF ReadState
  <2>3. QED BY <1>3, <2>2 DEF ReadState, Shape, controls, history
<1>4. ASSUME NEW r \in reads, PostRead(r) PROVE Shape'
  <2>1. r \in Callback
    BY DEF Shape, Callback
  <2>2. idle' \in Seq(Callback)
    BY <1>4, <2>1 DEF PostRead, Shape
  <2>3. QED BY <1>4, <2>2 DEF PostRead, Shape, controls, history
<1>5. QED BY <1>1, <1>2, <1>3, <1>4

LEMMA InitShape ==
  ASSUME Init
  PROVE  Shape
<1>1. hw \in Snapshots
  BY InitiallyAssumption DEF Init
<1>2. state \in Snapshots /\ want \in Snapshots /\ tab \in Tabs
  BY <1>1 DEF Init, Tabs
<1>3. shown \in [Sections -> Settings]
  <2>1. PICK before \in [mode : {DefaultEffect}, color : Colors, level : {MaxLevel}] :
          shown = [s \in Sections |-> Fill(s, hw[Device(s)], before)]
    BY DEF Init
  <2>2. before \in Settings
    BY DEF Settings, Modes
  <2>3. \A s \in Sections : hw[Device(s)] \in Entries
    BY <1>1, <1>2, DeviceType DEF Snapshots
  <2>4. \A s \in Sections : Fill(s, hw[Device(s)], before) \in Settings
    BY <2>2, <2>3, FillType
  <2>5. QED BY <2>1, <2>4
<1>4. changes \in 0..MaxChanges /\ sent \in Nat /\ idle \in Seq(Callback)
      /\ dimmed \subseteq Tabs
  BY DEF Init
<1>5. QED BY <1>1, <1>2, <1>3, <1>4 DEF Init, Shape

LEMMA ShapeHolds == Spec => []Shape
<1>1. Shape /\ [Next]_vars => Shape'
  <2> SUFFICES ASSUME Shape, [Next]_vars PROVE Shape'
    OBVIOUS
  <2>1. CASE UNCHANGED vars
    BY <2>1 DEF Shape, vars, controls, history
  <2>2. CASE Next
    BY <2>2, SlideType, ExpireType, ChooseType, RunApplyType, RunReadType, SelectTabType,
       WorldType DEF Next
  <2>3. QED BY <2>1, <2>2
<1>2. QED BY <1>1, InitShape, PTL DEF Spec

-----------------------------------------------------------------------------
(* Every apply is owed to a change.                                         *)

Waiting == {i \in 1..Len(idle) : idle[i].do = "apply"}

OwedInv ==
  /\ IsFiniteSet(Waiting) /\ IsFiniteSet(timers)
  /\ sent + Cardinality(timers) + Cardinality(Waiting) <= changes

LEMMA WaitingFinite ==
  ASSUME Shape
  PROVE  IsFiniteSet(Waiting) /\ Cardinality(Waiting) \in Nat
<1>1. Len(idle) \in Nat
  BY DEF Shape
<1>2. IsFiniteSet(1..Len(idle)) /\ Waiting \subseteq 1..Len(idle)
  BY <1>1, FS_Interval DEF Waiting
<1>3. IsFiniteSet(Waiting)
  BY <1>2, FS_Subset
<1>4. QED BY <1>3, FS_CardinalityType

LEMMA AppendWaiting ==
  ASSUME Shape, NEW cb \in Callback, idle' = Append(idle, cb)
  PROVE  Waiting' = Waiting \cup (IF cb.do = "apply" THEN {Len(idle) + 1} ELSE {})
<1>1. Len(idle') = Len(idle) + 1 /\ Len(idle) \in Nat
  BY DEF Shape
<1>2. \A i \in 1..Len(idle) : idle'[i] = idle[i]
  BY DEF Shape
<1>3. idle'[Len(idle) + 1] = cb
  BY DEF Shape
<1>4. 1..Len(idle') = (1..Len(idle)) \cup {Len(idle) + 1}
  BY <1>1
<1>5. QED BY <1>2, <1>3, <1>4 DEF Waiting

(* What leaves the queue makes room for what takes its place.               *)
LEMMA TailWaiting ==
  ASSUME Shape, idle # <<>>, idle' = Tail(idle)
  PROVE  /\ IsFiniteSet(Waiting')
         /\ Cardinality(Waiting') <= Cardinality(Waiting \ {1})
<1>1. Len(idle') = Len(idle) - 1 /\ Len(idle) \in Nat \ {0}
  BY DEF Shape
<1>2. \A i \in 1..Len(idle') : idle'[i] = idle[i + 1]
  BY DEF Shape
<1>3. \A i \in Waiting' : i \in Nat \ {0} /\ i + 1 \in Waiting \ {1}
  BY <1>1, <1>2 DEF Waiting
<1> DEFINE f == [i \in Waiting' |-> i + 1]
<1>4. f \in [Waiting' -> Waiting \ {1}]
  BY <1>3
<1>5. \A i, j \in Waiting' : f[i] = f[j] => i = j
  BY <1>3
<1>6. f \in Injection(Waiting', Waiting \ {1})
  BY <1>4, <1>5 DEF Injection, IsInjective
<1>7. IsFiniteSet(Waiting \ {1})
  BY WaitingFinite, FS_Subset
<1> HIDE DEF f
<1>8. QED BY <1>6, <1>7, FS_Injection

LEMMA OwedStep ==
  ASSUME Shape, OwedInv, [Next]_vars
  PROVE  OwedInv'
<1> DEFINE T == Cardinality(timers)
           W == Cardinality(Waiting)
<1>1. T \in Nat /\ W \in Nat /\ sent + T + W <= changes /\ sent \in Nat /\ changes \in Nat
      /\ IsFiniteSet(timers) /\ IsFiniteSet(Waiting)
  BY FS_CardinalityType DEF OwedInv, Shape
<1>2. ASSUME UNCHANGED <<timers, idle, sent, changes>> PROVE OwedInv'
  BY <1>2 DEF OwedInv, Waiting
<1>3. ASSUME NEW s \in Sections, Slide(s) PROVE OwedInv'
  <2>1. /\ changes' = changes + 1 /\ sent' = sent
        /\ timers' = timers \cup {s} /\ Waiting' = Waiting
    BY <1>3 DEF Slide, Chosen, ValueChanged, Waiting
  <2>2. IsFiniteSet(timers') /\ (Cardinality(timers') = T \/ Cardinality(timers') = T + 1)
    BY <1>1, <2>1, FS_AddElement
  <2> HIDE DEF T, W
  <2>3. sent' + Cardinality(timers') + W <= changes'
    BY <1>1, <2>1, <2>2
  <2>4. QED BY <1>1, <2>1, <2>2, <2>3 DEF OwedInv, W
<1>4. ASSUME NEW s \in Sections, Expire(s) PROVE OwedInv'
  <2>1. /\ s \in timers /\ timers' = timers \ {s}
        /\ sent' = sent /\ changes' = changes
    BY <1>4 DEF Expire, history
  <2>2. Waiting' = Waiting \cup {Len(idle) + 1}
    <3>1. [do |-> "apply", section |-> s] \in Callback
      BY DEF Callback
    <3>2. idle' = Append(idle, [do |-> "apply", section |-> s])
      BY <1>4 DEF Expire
    <3>3. QED BY <3>1, <3>2, AppendWaiting
  <2>3. IsFiniteSet(timers') /\ Cardinality(timers') = T - 1
    BY <1>1, <2>1, FS_RemoveElement
  <2>4. IsFiniteSet(Waiting')
        /\ (Cardinality(Waiting') = W \/ Cardinality(Waiting') = W + 1)
    BY <1>1, <2>2, FS_AddElement
  <2> HIDE DEF T, W
  <2>5. QED BY <1>1, <2>1, <2>3, <2>4 DEF OwedInv
<1>5. CASE Choose
  <2>1. /\ changes' = changes + 1 /\ sent' = sent + 1
        /\ UNCHANGED timers /\ Waiting' = Waiting
    BY <1>5 DEF Choose, Chosen, send, Waiting
  <2> HIDE DEF T, W
  <2>2. sent' + T + W <= changes'
    BY <1>1, <2>1
  <2>3. QED BY <1>1, <2>1, <2>2 DEF OwedInv, T, W
<1>6. CASE RunApply
  <2>1. /\ idle # <<>> /\ Head(idle).do = "apply" /\ idle' = Tail(idle)
        /\ sent' = sent + 1 /\ UNCHANGED <<timers, changes>>
    BY <1>6 DEF RunApply, send, controls
  <2>2. 1 \in Waiting
    BY <2>1, HeadType DEF Waiting, Shape
  <2>3. Cardinality(Waiting \ {1}) = W - 1
    BY <1>1, <2>2, FS_RemoveElement
  <2>4. IsFiniteSet(Waiting') /\ Cardinality(Waiting') <= W - 1
    BY <2>1, <2>3, TailWaiting
  <2>5. Cardinality(Waiting') \in Nat
    BY <2>4, FS_CardinalityType
  <2> HIDE DEF W
  <2>6. sent' + T + Cardinality(Waiting') <= changes
    BY <1>1, <2>1, <2>4, <2>5
  <2>7. QED BY <1>1, <2>1, <2>4, <2>6 DEF OwedInv
<1>7. CASE RunRead
  <2>1. idle # <<>> /\ idle' = Tail(idle) /\ UNCHANGED <<timers, sent, changes>>
    BY <1>7, RunReadIs
  <2>2. IsFiniteSet(Waiting') /\ Cardinality(Waiting') <= W
    <3>1. IsFiniteSet(Waiting') /\ Cardinality(Waiting') <= Cardinality(Waiting \ {1})
      BY <2>1, TailWaiting
    <3>2. Cardinality(Waiting \ {1}) <= W /\ Cardinality(Waiting \ {1}) \in Nat
      BY <1>1, FS_Subset, FS_CardinalityType
    <3>3. Cardinality(Waiting') \in Nat
      BY <3>1, FS_CardinalityType
    <3> HIDE DEF W
    <3>4. QED BY <1>1, <3>1, <3>2, <3>3
  <2>3. Cardinality(Waiting') \in Nat
    BY <2>2, FS_CardinalityType
  <2> HIDE DEF W
  <2>4. sent + T + Cardinality(Waiting') <= changes
    BY <1>1, <2>2, <2>3
  <2>5. QED BY <1>1, <2>1, <2>2, <2>4 DEF OwedInv
<1>8. ASSUME NEW t \in Tabs, SelectTab(t) PROVE OwedInv'
  BY <1>2, <1>8 DEF SelectTab, ValueChanged
<1>9. CASE \E a \in applies : Reach(a) \/ Fail(a)
  BY <1>2, <1>9 DEF Reach, Fail, controls, history
<1>10. CASE \E do \in {"sync", "state"} : ReadState(do)
  BY <1>2, <1>10 DEF ReadState, controls, history
<1>11. ASSUME NEW r \in reads, PostRead(r) PROVE OwedInv'
  <2>1. r \in Callback /\ r.do # "apply"
    BY DEF Shape, Callback, Read
  <2>2. idle' = Append(idle, r) /\ UNCHANGED <<timers, sent, changes>>
    BY <1>11 DEF PostRead, controls, history
  <2>3. Waiting' = Waiting
    BY <2>1, <2>2, AppendWaiting
  <2>4. QED BY <2>2, <2>3 DEF OwedInv
<1>12. CASE UNCHANGED vars
  BY <1>2, <1>12 DEF vars, controls, history
<1>13. QED BY <1>3, <1>4, <1>5, <1>6, <1>7, <1>8, <1>9, <1>10, <1>11, <1>12 DEF Next

(* Filling the controls never writes back: there are never more applies     *)
(* than changes of the user's, however tabs, timers and syncs interleave.   *)
THEOREM NothingEchoes == Spec => []NoEcho
<1>1. Init => OwedInv
  <2> SUFFICES ASSUME Init PROVE OwedInv
    OBVIOUS
  <2>1. Waiting = {} /\ timers = {} /\ sent = 0 /\ changes = 0
    BY DEF Init, Waiting
  <2>2. QED BY <2>1, FS_EmptySet DEF OwedInv
<1>2. Shape /\ OwedInv /\ [Next]_vars => OwedInv'
  BY OwedStep
<1>3. Shape /\ OwedInv => NoEcho
  <2> SUFFICES ASSUME Shape, OwedInv PROVE NoEcho
    OBVIOUS
  <2>1. Cardinality(timers) \in Nat /\ Cardinality(Waiting) \in Nat
    BY FS_CardinalityType DEF OwedInv
  <2>2. QED BY <2>1 DEF OwedInv, NoEcho, Shape
<1>4. QED BY <1>1, <1>2, <1>3, ShapeHolds, PTL DEF Spec

(* Types; that no more applies than changes are started bounds their ids.   *)
THEOREM TypeCorrect == Spec => []TypeOK
<1>1. Shape /\ NoEcho => TypeOK
  <2> SUFFICES ASSUME Shape, NoEcho PROVE TypeOK
    OBVIOUS
  <2>1. sent <= 2 * MaxChanges
    BY DEF Shape, NoEcho
  <2>2. \A a \in applies : a.id \in 1..(2 * MaxChanges)
    BY <2>1 DEF Shape
  <2>3. applies \subseteq Apply
    BY <2>2 DEF Shape, Apply
  <2>4. QED BY <2>3 DEF Shape, TypeOK
<1>2. QED BY <1>1, ShapeHolds, NothingEchoes, PTL

-----------------------------------------------------------------------------
(* What is in play for a device, and where it may come from.                *)

InPlay(d, e) ==
  \/ e = hw[d] \/ e = state[d]
  \/ \E s \in Sections : Device(s) = d /\ e = shown[s]
  \/ \E a \in applies : a.device = d /\ e = a.setting
  \/ \E r \in reads : e = r.got[d]
  \/ \E i \in 1..Len(idle) : idle[i].do # "apply" /\ e = idle[i].got[d]

(* Out of what was in play already: the same, controls filled from it, or   *)
(* what off leaves of it ...                                                *)
Descends(d, e, x) ==
  \/ e = x
  \/ \E s \in Sections, now \in Settings :
       (s = "battery" <=> d = "battery") /\ e = Fill(s, x, now)
  \/ d \in Tabs /\ x.mode = "off" /\ e = Off

(* ... or out of the user's hand.                                           *)
FromHand(d, e) ==
  \E s \in Sections :
    /\ Device(s) = d /\ Device(s)' = d /\ e = shown'[s]
    /\ Slide(s) \/ (Choose /\ s = "lighting")

LEMMA InPlayType ==
  ASSUME Shape, NEW d \in Devices, NEW e, InPlay(d, e)
  PROVE  e \in Entries
<1>1. CASE e = hw[d] \/ e = state[d]
  BY <1>1 DEF Shape, Snapshots
<1>2. CASE \E s \in Sections : e = shown[s]
  BY <1>2, SettingType DEF Shape
<1>3. CASE \E a \in applies : e = a.setting
  BY <1>3, SettingType DEF Shape
<1>4. CASE \E r \in reads : e = r.got[d]
  BY <1>4 DEF Shape, Read, Snapshots
<1>5. CASE \E i \in 1..Len(idle) : idle[i].do # "apply" /\ e = idle[i].got[d]
  <2>1. PICK i \in 1..Len(idle) : idle[i].do # "apply" /\ e = idle[i].got[d]
    BY <1>5
  <2>2. idle[i] \in Callback
    BY DEF Shape
  <2>3. idle[i].got \in Snapshots
    BY <2>1, <2>2 DEF Callback, Read
  <2>4. QED BY <2>1, <2>3 DEF Snapshots
<1>6. QED BY <1>1, <1>2, <1>3, <1>4, <1>5 DEF InPlay

LEMMA InPlayStep ==
  ASSUME Shape, [Next]_vars, NEW d \in Devices, NEW e, InPlay(d, e)'
  PROVE  FromHand(d, e) \/ \E x \in Entries : InPlay(d, x) /\ Descends(d, e, x)
<1>1. ASSUME InPlay(d, e)
      PROVE  \E x \in Entries : InPlay(d, x) /\ Descends(d, e, x)
  BY <1>1, InPlayType DEF Descends
<1> SUFFICES ASSUME ~InPlay(d, e), ~FromHand(d, e)
             PROVE  \E x \in Entries : InPlay(d, x) /\ Descends(d, e, x)
  BY <1>1
<1>2. ASSUME idle # <<>>, idle' = Tail(idle)
      PROVE  \A i \in 1..Len(idle') : i + 1 \in 1..Len(idle) /\ idle'[i] = idle[i + 1]
  BY <1>2 DEF Shape
<1>3. ASSUME NEW cb \in Callback, idle' = Append(idle, cb)
      PROVE  \A i \in 1..Len(idle') : (i \in 1..Len(idle) /\ idle'[i] = idle[i]) \/ idle'[i] = cb
  BY <1>3 DEF Shape
<1>4. ASSUME NEW s \in Sections, NEW setting, send(s, setting)
      PROVE  \A a \in applies' :
               a \in applies \/ (a.device = Device(s) /\ a.setting = setting)
  BY <1>4 DEF send
<1>5. ASSUME NEW s \in Sections, Slide(s) PROVE FALSE
  <2>1. UNCHANGED <<tab, hw, state, applies, reads, idle>>
    BY <1>5 DEF Slide
  <2>2. \A r : Device(r)' = Device(r)
    BY <2>1 DEF Device
  <2>3. \A r \in Sections \ {s} : shown'[r] = shown[r]
    BY <1>5, SlideIs, ChosenType
  <2>4. Device(s) = d => e # shown'[s]
    BY <1>5, <2>2 DEF FromHand
  <2>5. QED BY <2>1, <2>2, <2>3, <2>4 DEF InPlay
<1>6. ASSUME Choose PROVE FALSE
  <2>1. UNCHANGED <<tab, hw, state, reads, idle>> /\ "lighting" \in Sections
    BY <1>6 DEF Choose, Sections
  <2>2. \A r : Device(r)' = Device(r)
    BY <2>1 DEF Device
  <2>3. PICK setting \in Settings, wished \in Entries :
          Chosen("lighting", setting, wished) /\ send("lighting", setting)
    BY <1>6, ChooseIs
  <2>4. shown'["lighting"] = setting /\ \A r \in Sections \ {"lighting"} : shown'[r] = shown[r]
    BY <2>1, <2>3, ChosenType
  <2>5. Device("lighting") = d => e # setting
    BY <1>6, <2>1, <2>2, <2>4 DEF FromHand
  <2>6. \A a \in applies' :
          a \in applies \/ (a.device = Device("lighting") /\ a.setting = setting)
    BY <1>4, <2>1, <2>3
  <2>7. QED BY <2>1, <2>2, <2>4, <2>5, <2>6 DEF InPlay
<1>7. ASSUME NEW s \in Sections, Expire(s) PROVE FALSE
  <2> DEFINE cb == [do |-> "apply", section |-> s]
  <2>1. cb \in Callback /\ cb.do = "apply"
    BY DEF Callback
  <2>2. idle' = Append(idle, cb) /\ UNCHANGED <<tab, shown, hw, state, applies, reads>>
    BY <1>7 DEF Expire
  <2> HIDE DEF cb
  <2>3. \A i \in 1..Len(idle') : idle'[i].do # "apply" => i \in 1..Len(idle) /\ idle'[i] = idle[i]
    BY <1>3, <2>1, <2>2
  <2>4. \A r : Device(r)' = Device(r)
    BY <2>2 DEF Device
  <2>5. QED BY <2>2, <2>3, <2>4 DEF InPlay
<1>8. ASSUME RunApply PROVE FALSE
  <2> DEFINE s == Head(idle).section
  <2>1. idle # <<>> /\ idle' = Tail(idle) /\ Head(idle).do = "apply" /\ send(s, shown[s])
        /\ UNCHANGED <<tab, shown, state, hw, reads>>
    BY <1>8 DEF RunApply, controls
  <2>2. s \in Sections
    BY <2>1, HeadType DEF Shape
  <2> HIDE DEF s
  <2>3. \A a \in applies' : a \in applies \/ (a.device = Device(s) /\ a.setting = shown[s])
    BY <1>4, <2>1, <2>2
  <2>4. \A r : Device(r)' = Device(r)
    BY <2>1 DEF Device
  <2>5. QED BY <1>2, <2>1, <2>2, <2>3, <2>4 DEF InPlay
<1>9. ASSUME RunRead
      PROVE  \E x \in Entries : InPlay(d, x) /\ Descends(d, e, x)
  <2> DEFINE got == Head(idle).got
  <2>1. /\ idle # <<>> /\ idle' = Tail(idle) /\ Head(idle).do # "apply" /\ state' = got
        /\ got \in Snapshots /\ UNCHANGED <<tab, applies, reads, hw>>
        /\ \/ shown' = shown
           \/ shown' = [s \in Sections |-> Fill(s, got[Device(s)], shown[s])]
    BY <1>9, RunReadIs
  <2>2. idle[1] = Head(idle) /\ 1 \in 1..Len(idle)
    BY <2>1 DEF Shape
  <2>3. InPlay(d, got[d]) /\ got[d] \in Entries
    BY <2>1, <2>2 DEF InPlay, Snapshots
  <2> HIDE DEF got
  <2>4. \A r : Device(r)' = Device(r)
    BY <2>1 DEF Device
  <2>5. e = got[d] \/ \E s \in Sections : Device(s) = d /\ e = Fill(s, got[d], shown[s])
    BY <1>2, <2>1, <2>4 DEF InPlay
  <2>6. \A s \in Sections : /\ shown[s] \in Settings
                            /\ Device(s) = d => (s = "battery" <=> d = "battery")
    BY DEF Shape, Device, Sections, Tabs
  <2>7. Descends(d, e, got[d])
    BY <2>5, <2>6 DEF Descends
  <2>8. QED BY <2>3, <2>7
<1>10. ASSUME NEW t \in Tabs, SelectTab(t)
       PROVE  \E x \in Entries : InPlay(d, x) /\ Descends(d, e, x)
  <2> DEFINE filled == Fill("lighting", state[t], shown["lighting"])
  <2>1. /\ tab' = t /\ shown' = [shown EXCEPT !["lighting"] = filled]
        /\ UNCHANGED <<state, idle, applies, reads, hw>>
    BY <1>10 DEF SelectTab
  <2> HIDE DEF filled
  <2>2. /\ "lighting" \in Sections /\ shown'["lighting"] = filled
        /\ \A s \in Sections \ {"lighting"} : shown'[s] = shown[s]
    BY <2>1 DEF Shape, Sections
  <2>3. Device("lighting")' = t /\ \A s \in Sections \ {"lighting"} : Device(s)' = Device(s)
    BY <2>1 DEF Device
  <2>4. d = t /\ e = filled
    BY <2>1, <2>2, <2>3 DEF InPlay
  <2>5. InPlay(d, state[d]) /\ state[d] \in Entries /\ shown["lighting"] \in Settings
    BY <2>2 DEF InPlay, Shape, Snapshots
  <2>6. d # "battery"
    BY <2>4 DEF Tabs
  <2>7. Descends(d, e, state[d])
    BY <2>2, <2>4, <2>5, <2>6 DEF Descends, filled
  <2>8. QED BY <2>5, <2>7
<1>11. ASSUME NEW a \in applies, Reach(a)
       PROVE  \E x \in Entries : InPlay(d, x) /\ Descends(d, e, x)
  <2> DEFINE x == IF a.device \in Tabs /\ a.setting.mode = "off" THEN Off ELSE a.setting
  <2>1. /\ applies' \subseteq applies /\ hw' = [hw EXCEPT ![a.device] = x]
        /\ UNCHANGED <<tab, shown, state, idle, reads>>
    BY <1>11 DEF Reach, controls
  <2> HIDE DEF x
  <2>2. \A r : Device(r)' = Device(r)
    BY <2>1 DEF Device
  <2>3. e = hw'[d]
    BY <2>1, <2>2 DEF InPlay
  <2>4. d = a.device /\ e = x
    <3>1. d # a.device => hw'[d] = hw[d]
      BY <2>1 DEF Shape, Snapshots
    <3>2. hw'[a.device] = x
      BY <2>1 DEF Shape, Snapshots
    <3>3. QED BY <2>3, <3>1, <3>2 DEF InPlay
  <2>5. InPlay(d, a.setting)
    BY <2>4 DEF InPlay
  <2>6. Descends(d, e, a.setting)
    BY <2>4 DEF Descends, x
  <2>7. QED BY <2>5, <2>6, InPlayType
<1>12. ASSUME NEW a \in applies, Fail(a) PROVE FALSE
  <2>1. applies' \subseteq applies /\ UNCHANGED <<tab, shown, state, idle, reads, hw>>
    BY <1>12 DEF Fail, controls
  <2>2. \A r : Device(r)' = Device(r)
    BY <2>1 DEF Device
  <2>3. QED BY <2>1, <2>2 DEF InPlay
<1>13. ASSUME NEW do \in {"sync", "state"}, ReadState(do) PROVE FALSE
  <2>1. /\ reads = {} /\ reads' = {[do |-> do, got |-> hw]}
        /\ UNCHANGED <<tab, shown, state, idle, applies, hw>>
    BY <1>13 DEF ReadState, controls
  <2>2. \A r : Device(r)' = Device(r)
    BY <2>1 DEF Device
  <2>3. QED BY <2>1, <2>2 DEF InPlay
<1>14. ASSUME NEW r \in reads, PostRead(r) PROVE FALSE
  <2>1. r \in Callback
    BY DEF Shape, Callback
  <2>2. idle' = Append(idle, r) /\ reads' \subseteq reads
        /\ UNCHANGED <<tab, shown, state, applies, hw>>
    BY <1>14 DEF PostRead, controls
  <2>3. \A i \in 1..Len(idle') : (i \in 1..Len(idle) /\ idle'[i] = idle[i]) \/ idle'[i] = r
    BY <1>3, <2>1, <2>2
  <2>4. \A s : Device(s)' = Device(s)
    BY <2>2 DEF Device
  <2>5. QED BY <2>2, <2>3, <2>4 DEF InPlay
<1>15. CASE UNCHANGED vars
  <2>1. UNCHANGED <<tab, shown, state, idle, applies, reads, hw>>
    BY <1>15 DEF vars, controls
  <2>2. \A r : Device(r)' = Device(r)
    BY <2>1 DEF Device
  <2>3. QED BY <2>1, <2>2 DEF InPlay
<1>16. QED
  BY <1>5, <1>6, <1>7, <1>8, <1>9, <1>10, <1>11, <1>12, <1>13, <1>14, <1>15 DEF Next

-----------------------------------------------------------------------------
(* The devices the user has not touched.                                    *)

PristineAt(d) == \A e \in Entries : InPlay(d, e) => Meets(d, e, want[d])
PristineInv == \A d \in Devices \ touched : PristineAt(d)

LEMMA DescendantMeets ==
  ASSUME NEW d \in Devices, NEW e, NEW x \in Entries, Descends(d, e, x),
         NEW w \in Entries, Meets(d, x, w)
  PROVE  Meets(d, e, w)
BY FillMeets, OffMeets DEF Descends

LEMMA PristineStep ==
  ASSUME Shape, PristineInv, [Next]_vars
  PROVE  PristineInv'
<1> SUFFICES ASSUME NEW d \in Devices, d \notin touched', NEW e \in Entries, InPlay(d, e)'
             PROVE  Meets(d, e, want'[d])
  BY DEF PristineInv, PristineAt
<1>1. touched \subseteq touched' /\ ~FromHand(d, e) /\ want'[d] = want[d]
  <2>1. ASSUME NEW s \in Sections, Slide(s)
        PROVE  touched \subseteq touched' /\ want'[d] = want[d] /\ Device(s) # d
    <3>1. PICK setting \in Settings, wished \in Entries : Chosen(s, setting, wished)
      BY <2>1, SlideIs
    <3>2. QED BY <3>1, ChosenType DEF Chosen
  <2>2. ASSUME Choose
        PROVE  touched \subseteq touched' /\ want'[d] = want[d] /\ Device("lighting") # d
    <3>1. PICK setting \in Settings, wished \in Entries : Chosen("lighting", setting, wished)
      BY <2>2, ChooseIs
    <3>2. "lighting" \in Sections
      BY DEF Sections
    <3>3. QED BY <3>1, <3>2, ChosenType DEF Chosen
  <2>3. ~FromHand(d, e)
    BY <2>1, <2>2 DEF FromHand
  <2>4. CASE RunRead
    <3>1. touched' = touched /\ (want' = want \/
             want' = [c \in Devices |-> IF c \in touched THEN hw[c] ELSE want[c]])
      BY <2>4, RunReadIs
    <3>2. QED BY <2>3, <3>1
  <2>5. QED BY <2>1, <2>2, <2>3, <2>4
        DEF Next, vars, controls, history, Expire, RunApply, SelectTab, Reach, Fail, ReadState,
            PostRead
<1>2. PICK x \in Entries : InPlay(d, x) /\ Descends(d, e, x)
  BY <1>1, InPlayStep
<1>3. Meets(d, x, want[d]) /\ want[d] \in Entries
  BY <1>1, <1>2 DEF PristineInv, PristineAt, Shape, Snapshots
<1>4. QED BY <1>1, <1>2, <1>3, DescendantMeets

(* In the beginning whatever is in play is the device's entry, or the       *)
(* controls filled from it.                                                 *)
LEMMA InitInPlay ==
  ASSUME Init, NEW d \in Devices, NEW e, InPlay(d, e)
  PROVE  Descends(d, e, hw[d]) /\ hw[d] \in Entries
<1>1. Shape
  BY InitShape
<1>2. PICK before \in [mode : {DefaultEffect}, color : Colors, level : {MaxLevel}] :
        shown = [s \in Sections |-> Fill(s, hw[Device(s)], before)]
  BY DEF Init
<1>3. before \in Settings
  BY DEF Settings, Modes
<1>4. hw[d] \in Entries
  BY <1>1 DEF Shape, Snapshots
<1>5. e = hw[d] \/ \E s \in Sections : Device(s) = d /\ e = Fill(s, hw[d], before)
  BY <1>2 DEF Init, InPlay
<1>6. \A s \in Sections : Device(s) = d => (s = "battery" <=> d = "battery")
  BY <1>1 DEF Shape, Device, Sections, Tabs
<1>7. QED BY <1>3, <1>4, <1>5, <1>6 DEF Descends

LEMMA InitPristine ==
  ASSUME Init
  PROVE  PristineInv
<1> SUFFICES ASSUME NEW d \in Devices, NEW e \in Entries, InPlay(d, e)
             PROVE  Meets(d, e, want[d])
  BY DEF PristineInv, PristineAt
<1>1. Descends(d, e, hw[d]) /\ hw[d] \in Entries /\ want = hw
  BY InitInPlay DEF Init
<1>2. QED BY <1>1, MeetsItself, DescendantMeets

(* A device the user has not touched keeps all that the daemon stated of    *)
(* it, whichever tab is in front when a timer runs out, whatever snapshots  *)
(* fill the controls, and whatever was left open and filled in.             *)
THEOREM UntouchedStay == Spec => []UntouchedKeepsSetting
<1>1. Init => PristineInv
  BY InitPristine
<1>2. Shape /\ PristineInv /\ [Next]_vars => PristineInv'
  BY PristineStep
<1>3. Shape /\ PristineInv => UntouchedKeepsSetting
  BY InPlayType DEF PristineInv, PristineAt, InPlay, UntouchedKeepsSetting
<1>4. QED BY <1>1, <1>2, <1>3, ShapeHolds, PTL DEF Spec

-----------------------------------------------------------------------------
(* The devices that are on and dark.                                        *)

Lit(e) == e.mode = "off" \/ e.level # 0
LitAt(d) ==
  /\ \A e \in Entries : InPlay(d, e) => Lit(e)
  /\ \A s \in Sections : Device(s) = d => shown[s].level # 0
LitInv == \A d \in Tabs \ dimmed : LitAt(d)

(* What fills the controls of a tab, off or not, leaves them above 0.       *)
LEMMA FillLit ==
  ASSUME NEW s \in Sections, s # "battery", NEW e \in Entries, Lit(e), NEW now \in Settings
  PROVE  Fill(s, e, now).level # 0
BY FillType DEF Lit

LEMMA LitStep ==
  ASSUME Shape, LitInv, [Next]_vars
  PROVE  LitInv'
<1> SUFFICES ASSUME NEW d \in Tabs, d \notin dimmed' PROVE LitAt(d)'
  BY DEF LitInv
<1>1. d \in Devices /\ d # "battery" /\ LitAt(d)
  <2>1. d \notin dimmed
    BY SlideIs, RunReadIs DEF Next, vars, controls, history, Expire, Choose, RunApply, SelectTab, Reach, Fail,
       ReadState, PostRead
  <2>2. QED BY <2>1 DEF LitInv, Devices, Tabs
<1>2. \A s \in Sections : Device(s) = d => s # "battery" /\ shown[s] \in Settings
  BY <1>1 DEF Device, Shape
<1>3. ASSUME NEW s \in Sections, Device(s)' = d PROVE shown'[s].level # 0
  <2>1. ASSUME NEW r \in Sections, Slide(r) PROVE shown'[s].level # 0
    <3>1. Device(s) = d
      BY <1>3, <2>1 DEF Slide, Device
    <3>2. PICK setting \in Settings, wished \in Entries :
            /\ Chosen(r, setting, wished)
            /\ \/ \E v \in 0..MaxLevel :
                    /\ setting = [shown[r] EXCEPT !.level = v]
                    /\ dimmed' = dimmed \cup {c \in {Device(r)} : v = 0}
               \/ \E c \in Colors : setting = [shown[r] EXCEPT !.color = c]
      BY <2>1, SlideIs
    <3>3. shown'[r] = setting /\ \A q \in Sections \ {r} : shown'[q] = shown[q]
      BY <3>2, ChosenType
    <3>4. shown[s].level # 0
      BY <1>1, <3>1 DEF LitAt
    <3>5. CASE s = r
      <4>1. shown[r] \in Settings
        BY DEF Shape
      <4>2. \A v : setting = [shown[r] EXCEPT !.level = v] => setting.level = v
        BY <4>1 DEF Settings
      <4>3. \A c : setting = [shown[r] EXCEPT !.color = c] => setting.level = shown[r].level
        BY <4>1 DEF Settings
      <4>4. QED BY <3>1, <3>2, <3>3, <3>4, <3>5, <4>2, <4>3
    <3>6. QED BY <3>3, <3>4, <3>5
  <2>2. CASE Choose
    <3>1. Device(s) = d
      BY <1>3, <2>2 DEF Choose, Device
    <3>2. PICK setting \in Settings, wished \in Entries :
            /\ Chosen("lighting", setting, wished)
            /\ \/ \E m \in Modes : setting = [shown["lighting"] EXCEPT !.mode = m]
               \/ \E c \in Colors : setting = [shown["lighting"] EXCEPT !.color = c]
      BY <2>2, ChooseIs
    <3>3. "lighting" \in Sections /\ shown["lighting"] \in Settings
      BY DEF Sections, Shape
    <3>4. /\ shown'["lighting"] = setting
          /\ \A q \in Sections \ {"lighting"} : shown'[q] = shown[q]
      BY <3>2, <3>3, ChosenType
    <3>5. setting.level = shown["lighting"].level
      BY <3>2, <3>3 DEF Settings
    <3>6. shown[s].level # 0
      BY <1>1, <3>1 DEF LitAt
    <3>7. QED BY <3>4, <3>5, <3>6
  <2>3. CASE RunRead
    <3> DEFINE got == Head(idle).got
    <3>1. /\ idle # <<>> /\ Head(idle).do # "apply" /\ got \in Snapshots /\ UNCHANGED tab
          /\ \/ shown' = shown
             \/ shown' = [q \in Sections |-> Fill(q, got[Device(q)], shown[q])]
      BY <2>3, RunReadIs
    <3>2. idle[1] = Head(idle) /\ 1 \in 1..Len(idle)
      BY <3>1 DEF Shape
    <3>3. Device(s) = d
      BY <1>3, <3>1 DEF Device
    <3>4. got[d] \in Entries /\ Lit(got[d])
      BY <1>1, <3>1, <3>2 DEF LitAt, InPlay, Snapshots
    <3> HIDE DEF got
    <3>5. Fill(s, got[d], shown[s]).level # 0
      BY <1>2, <3>3, <3>4, FillLit
    <3>6. QED BY <1>1, <3>1, <3>3, <3>5 DEF LitAt
  <2>4. ASSUME NEW t \in Tabs, SelectTab(t) PROVE shown'[s].level # 0
    <3> DEFINE filled == Fill("lighting", state[t], shown["lighting"])
    <3>1. tab' = t /\ shown' = [shown EXCEPT !["lighting"] = filled]
      BY <2>4 DEF SelectTab
    <3>2. s # "battery" /\ s = "lighting" /\ t = d
      BY <1>1, <1>3, <3>1 DEF Device, Sections
    <3>3. state[t] \in Entries /\ Lit(state[t]) /\ shown["lighting"] \in Settings
      BY <1>1, <3>2 DEF LitAt, InPlay, Shape, Snapshots
    <3>4. filled.level # 0
      BY <3>2, <3>3, FillLit
    <3> HIDE DEF filled
    <3>5. QED BY <3>1, <3>2, <3>4 DEF Shape
  <2>5. CASE UNCHANGED <<tab, shown>>
    BY <1>1, <1>3, <2>5 DEF LitAt, Device
  <2>6. QED BY <2>1, <2>2, <2>3, <2>4, <2>5
        DEF Next, vars, controls, Expire, RunApply, Reach, Fail, ReadState, PostRead
<1>4. ASSUME NEW e \in Entries, InPlay(d, e)' PROVE Lit(e)
  <2>1. CASE FromHand(d, e)
    BY <1>3, <2>1 DEF FromHand, Lit
  <2>2. ASSUME NEW x \in Entries, InPlay(d, x), Descends(d, e, x) PROVE Lit(e)
    <3>1. Lit(x)
      BY <1>1, <2>2 DEF LitAt
    <3>2. QED BY <1>1, <2>2, <3>1, FillLit, OffType DEF Descends, Lit
  <2>3. QED BY <1>1, <1>4, <2>1, <2>2, InPlayStep
<1>5. QED BY <1>3, <1>4 DEF LitAt

(* A device is on and dark only if the user had it so, or it came so: off,  *)
(* and on again, brings it back lit, through any tabs and snapshots.        *)
THEOREM DarkByChoice == Spec => []DarkOnlyByChoice
<1>1. Init => LitInv
  <2> SUFFICES ASSUME Init, NEW d \in Tabs \ dimmed PROVE LitAt(d)
    BY DEF LitInv
  <2>1. d \in Devices /\ d # "battery" /\ Shape
    BY InitShape DEF Devices, Tabs
  <2>2. Lit(hw[d]) /\ hw[d] \in Entries
    BY <2>1 DEF Init, Lit, Shape, Snapshots
  <2>3. ASSUME NEW e \in Entries, InPlay(d, e) PROVE Lit(e)
    <3>1. Descends(d, e, hw[d])
      BY <2>1, <2>3, InitInPlay
    <3>2. QED BY <2>1, <2>2, <3>1, FillLit, OffType DEF Descends, Lit
  <2>4. ASSUME NEW s \in Sections, Device(s) = d PROVE shown[s].level # 0
    <3>1. PICK before \in [mode : {DefaultEffect}, color : Colors, level : {MaxLevel}] :
            shown = [r \in Sections |-> Fill(r, hw[Device(r)], before)]
      BY DEF Init
    <3>2. before \in Settings
      BY DEF Settings, Modes
    <3>3. s # "battery" /\ shown[s] = Fill(s, hw[d], before)
      BY <2>1, <2>4, <3>1 DEF Device
    <3>4. QED BY <2>2, <3>2, <3>3, FillLit
  <2>5. QED BY <2>3, <2>4 DEF LitAt
<1>2. Shape /\ LitInv /\ [Next]_vars => LitInv'
  BY LitStep
<1>3. Shape /\ LitInv => DarkOnlyByChoice
  BY DEF LitInv, LitAt, Lit, InPlay, DarkOnlyByChoice, Shape, Snapshots, Devices
<1>4. QED BY <1>1, <1>2, <1>3, ShapeHolds, PTL DEF Spec

-----------------------------------------------------------------------------
(* What the user chose arrives.  As long as no excuse has come up, the      *)
(* controls show the choices for the devices they stand for, no device has  *)
(* two applies under way, and a choice not in force is on its way: it waits *)
(* in the controls, or an apply has it.                                     *)

Queued(s) == \E i \in 1..Len(idle) : idle[i].do = "apply" /\ idle[i].section = s

Underway(d) ==
  \/ \E s \in Sections : Device(s) = d /\ Pending(s)
  \/ \E a \in applies : a.device = d /\ Meets(d, a.setting, want[d])
  \/ (\A a \in applies : a.device # d) /\ Meets(d, hw[d], want[d])

ControlsMeet == \A s \in Sections : Meets(Device(s), shown[s], want[Device(s)])
OneAtATime == \A a, b \in applies : a.device = b.device => a = b
Arriving == ControlsMeet /\ OneAtATime /\ \A d \in Devices : Underway(d)

EffectInv == excuses = {} => Arriving

LEMMA PendingIs == \A s : Pending(s) <=> s \in timers \/ Queued(s)
BY DEF Pending, Queued

LEMMA QueuedAppend ==
  ASSUME Shape, NEW cb \in Callback, idle' = Append(idle, cb), NEW s
  PROVE  /\ Queued(s) => Queued(s)'
         /\ cb.do = "apply" /\ cb.section = s => Queued(s)'
<1>1. Len(idle') = Len(idle) + 1 /\ Len(idle) \in Nat
  BY DEF Shape
<1>2. \A i \in 1..Len(idle) : idle'[i] = idle[i] /\ i \in 1..Len(idle')
  BY <1>1 DEF Shape
<1>3. idle'[Len(idle) + 1] = cb /\ Len(idle) + 1 \in 1..Len(idle')
  BY <1>1 DEF Shape
<1>4. QED BY <1>2, <1>3 DEF Queued

LEMMA QueuedTail ==
  ASSUME Shape, idle # <<>>, idle' = Tail(idle), NEW s,
         ~(Head(idle).do = "apply" /\ Head(idle).section = s),
         Queued(s)
  PROVE  Queued(s)'
<1>1. Len(idle') = Len(idle) - 1 /\ Len(idle) \in Nat \ {0} /\ idle[1] = Head(idle)
  BY DEF Shape
<1>2. \A i \in 1..Len(idle') : idle'[i] = idle[i + 1]
  BY DEF Shape
<1>3. PICK i \in 1..Len(idle) : idle[i].do = "apply" /\ idle[i].section = s
  BY DEF Queued
<1>4. i # 1
  BY <1>1, <1>3
<1>5. i - 1 \in 1..Len(idle') /\ (i - 1) + 1 = i
  BY <1>1, <1>3, <1>4
<1>6. idle'[i - 1] = idle[i]
  BY <1>2, <1>5
<1>7. QED BY <1>3, <1>5, <1>6 DEF Queued

(* An apply sent while there is no excuse is the only one to its device.    *)
LEMMA SentAlone ==
  ASSUME NEW s, NEW setting, send(s, setting), excuses' = {}, OneAtATime
  PROVE  /\ OneAtATime' /\ applies \subseteq applies'
         /\ \E a \in applies' : a.device = Device(s) /\ a.setting = setting
         /\ \A a \in applies' : a \in applies \/ a.device = Device(s)
<1> DEFINE new == [device |-> Device(s), setting |-> setting, id |-> sent']
<1>1. applies' = applies \cup {new} /\ new.device = Device(s) /\ new.setting = setting
  BY DEF send
<1>2. \A a \in applies : a.device # Device(s)
  BY DEF send, Excuse
<1> HIDE DEF new
<1>3. OneAtATime'
  BY <1>1, <1>2 DEF OneAtATime
<1>4. QED BY <1>1, <1>3

(* The user's hand changes the controls and the wish alike.                 *)
LEMMA SlideMeets ==
  ASSUME Shape, NEW s \in Sections, Slide(s), Meets(Device(s), shown[s], want[Device(s)])
  PROVE  Meets(Device(s), shown'[s], want'[Device(s)])
<1> DEFINE now == shown[s]
           old == want[Device(s)]
<1>1. now \in Settings /\ old \in Entries
  BY DeviceType DEF Shape, Snapshots
<1>2. PICK setting \in Settings, wished \in Entries :
        /\ Chosen(s, setting, wished)
        /\ s = "lighting" => now.mode # "off"
        /\ \/ \E v \in 0..MaxLevel : /\ setting = [now EXCEPT !.level = v]
                                   /\ wished = [old EXCEPT !.level = v]
           \/ \E c \in Colors : /\ setting = [now EXCEPT !.color = c]
                                /\ wished = [old EXCEPT !.color = c]
                                /\ s = "lighting"
  BY SlideIs
<1>3. shown'[s] = setting /\ want'[Device(s)] = wished
  BY <1>2, ChosenType
<1>4. \/ /\ setting.mode = now.mode /\ wished.mode = old.mode
         /\ setting.color = now.color /\ wished.color = old.color
         /\ setting.level = wished.level
      \/ /\ setting.mode = now.mode /\ wished.mode = old.mode
         /\ setting.level = now.level /\ wished.level = old.level
         /\ setting.color = wished.color /\ s = "lighting"
  BY <1>1, <1>2 DEF Settings, Entries
<1>5. (s = "lighting" => Device(s) # "battery") /\ (s # "lighting" => Device(s) = "battery")
  BY DEF Shape, Device, Tabs
<1> HIDE DEF now, old
<1>6. Meets(Device(s), now, old)
  BY DEF now, old
<1>7. Meets(Device(s), setting, wished)
  BY <1>2, <1>4, <1>5, <1>6 DEF Meets
<1>8. QED BY <1>3, <1>7

LEMMA ChooseMeets ==
  ASSUME Shape, Choose, Meets(tab, shown["lighting"], want[tab])
  PROVE  Meets(tab, shown'["lighting"], want'[tab])
<1> DEFINE now == shown["lighting"]
<1>1. "lighting" \in Sections /\ now \in Settings /\ Device("lighting") = tab /\ tab # "battery"
  BY DEF Sections, Shape, Device, Tabs
<1>2. PICK setting \in Settings, wished \in Entries, old \in Entries :
        /\ Chosen("lighting", setting, wished)
        /\ old = IF now.mode = "off" THEN now ELSE want[tab]
        /\ \/ \E m \in Modes : /\ setting = [now EXCEPT !.mode = m]
                              /\ wished = [old EXCEPT !.mode = m]
           \/ /\ now.mode # "off"
              /\ \E c \in Colors : /\ setting = [now EXCEPT !.color = c]
                                   /\ wished = [old EXCEPT !.color = c]
  BY ChooseIs
<1>3. shown'["lighting"] = setting /\ want'[tab] = wished
  BY <1>1, <1>2, ChosenType
<1>4. Meets(tab, now, old)
  BY <1>2, MeetsItself
<1>5. \/ /\ setting.mode = wished.mode
         /\ setting.color = now.color /\ wished.color = old.color
         /\ setting.level = now.level /\ wished.level = old.level
      \/ /\ setting.mode = now.mode /\ wished.mode = old.mode
         /\ setting.level = now.level /\ wished.level = old.level
         /\ setting.color = wished.color
  BY <1>1, <1>2 DEF Settings, Entries
<1>6. now.mode = "off" => old = now
  BY <1>2
<1> HIDE DEF now
<1>7. Meets(tab, setting, wished)
  BY <1>1, <1>4, <1>5, <1>6 DEF Meets
<1>8. QED BY <1>3, <1>7

LEMMA SlideArrives ==
  ASSUME Shape, Arriving, NEW s \in Sections, Slide(s)
  PROVE  Arriving'
<1> DEFINE D == Device(s)
<1>1. PICK setting \in Settings, wished \in Entries : Chosen(s, setting, wished)
  BY SlideIs
<1>2. timers' = timers \cup {s} /\ UNCHANGED <<tab, idle, applies, hw>>
  BY DEF Slide, ValueChanged
<1>3. D \in Devices /\ \A r \in Sections \ {s} : Device(r) # D
  BY DeviceType DEF Shape, Sections, Device, Tabs
<1>4. \A r : Device(r)' = Device(r)
  BY <1>2 DEF Device
<1>5. /\ \A r \in Sections \ {s} : shown'[r] = shown[r]
      /\ \A d \in Devices \ {D} : want'[d] = want[d]
  BY <1>1, ChosenType
<1>6. ControlsMeet'
  <2>1. Meets(D, shown'[s], want'[D])
    BY SlideMeets DEF Arriving, ControlsMeet
  <2>2. \A r \in Sections \ {s} : Meets(Device(r), shown'[r], want'[Device(r)])
    BY <1>3, <1>5, DeviceType DEF Arriving, ControlsMeet, Shape
  <2>3. QED BY <1>4, <2>1, <2>2 DEF ControlsMeet
<1>7. OneAtATime'
  BY <1>2 DEF Arriving, OneAtATime
<1>8. ASSUME NEW d \in Devices PROVE Underway(d)'
  <2>1. CASE d = D
    BY <1>2, <1>4, <2>1 DEF Underway, Pending
  <2>2. CASE d # D
    <3>1. \A r \in Sections : Pending(r) => Pending(r)'
      BY <1>2 DEF Pending
    <3>2. want'[d] = want[d] /\ Underway(d)
      BY <1>5, <2>2 DEF Arriving
    <3>3. QED BY <1>2, <1>4, <3>1, <3>2 DEF Underway
  <2>3. QED BY <2>1, <2>2
<1>9. QED BY <1>6, <1>7, <1>8 DEF Arriving

LEMMA ChooseArrives ==
  ASSUME Shape, Arriving, Choose, excuses' = {}
  PROVE  Arriving'
<1>1. PICK setting \in Settings, wished \in Entries :
        Chosen("lighting", setting, wished) /\ send("lighting", setting)
  BY ChooseIs
<1>2. UNCHANGED <<tab, timers, idle, hw>>
  BY DEF Choose
<1>3. /\ "lighting" \in Sections /\ Device("lighting") = tab /\ tab \in Devices
      /\ \A r \in Sections \ {"lighting"} : Device(r) # tab
  BY DEF Shape, Sections, Device, Devices, Tabs
<1>4. \A r : Device(r)' = Device(r) /\ (Pending(r) => Pending(r)')
  BY <1>2 DEF Device, Pending
<1>5. /\ shown'["lighting"] = setting
      /\ \A r \in Sections \ {"lighting"} : shown'[r] = shown[r]
      /\ \A d \in Devices \ {tab} : want'[d] = want[d]
  BY <1>1, <1>3, ChosenType
<1>6. Meets(tab, shown'["lighting"], want'[tab])
  BY <1>3, ChooseMeets DEF Arriving, ControlsMeet
<1>7. ControlsMeet'
  <2>1. \A r \in Sections \ {"lighting"} : Meets(Device(r), shown'[r], want'[Device(r)])
    BY <1>3, <1>5, DeviceType DEF Arriving, ControlsMeet, Shape
  <2>2. QED BY <1>3, <1>4, <1>6, <2>1 DEF ControlsMeet
<1>8. /\ OneAtATime' /\ applies \subseteq applies'
      /\ \E a \in applies' : a.device = tab /\ a.setting = shown'["lighting"]
      /\ \A a \in applies' : a \in applies \/ a.device = tab
  BY <1>1, <1>3, <1>5, SentAlone DEF Arriving
<1>9. ASSUME NEW d \in Devices PROVE Underway(d)'
  <2>1. CASE d = tab
    BY <1>6, <1>8, <2>1 DEF Underway
  <2>2. CASE d # tab
    <3>1. want'[d] = want[d] /\ Underway(d) /\ hw' = hw
      BY <1>2, <1>5, <2>2 DEF Arriving
    <3>2. QED BY <1>4, <1>8, <2>2, <3>1 DEF Underway
  <2>3. QED BY <2>1, <2>2
<1>10. QED BY <1>7, <1>8, <1>9 DEF Arriving

LEMMA RunApplyArrives ==
  ASSUME Shape, Arriving, RunApply, excuses' = {}
  PROVE  Arriving'
<1> DEFINE s == Head(idle).section
<1>1. /\ idle # <<>> /\ idle' = Tail(idle) /\ Head(idle).do = "apply" /\ send(s, shown[s])
      /\ UNCHANGED <<tab, shown, timers, hw, want>>
  BY DEF RunApply, controls
<1>2. s \in Sections
  BY <1>1, HeadType DEF Shape
<1>3. \A r \in Sections \ {s} : Queued(r) => Queued(r)'
  BY <1>1, QueuedTail
<1> HIDE DEF s
<1>4. \A r \in Sections \ {s} : Pending(r) => Pending(r)'
  BY <1>1, <1>3 DEF Pending, Queued
<1>5. \A r : Device(r)' = Device(r)
  BY <1>1 DEF Device
<1>6. \A r \in Sections \ {s} : Device(r) # Device(s)
  BY <1>2 DEF Shape, Sections, Device, Tabs
<1>7. /\ OneAtATime' /\ applies \subseteq applies'
      /\ \E a \in applies' : a.device = Device(s) /\ a.setting = shown[s]
      /\ \A a \in applies' : a \in applies \/ a.device = Device(s)
  BY <1>1, SentAlone DEF Arriving
<1>8. ControlsMeet'
  BY <1>1, <1>5 DEF Arriving, ControlsMeet
<1>9. ASSUME NEW d \in Devices PROVE Underway(d)'
  <2>1. CASE d = Device(s)
    <3>1. Meets(d, shown[s], want'[d])
      BY <1>1, <1>2, <2>1 DEF Arriving, ControlsMeet
    <3>2. QED BY <1>7, <2>1, <3>1 DEF Underway
  <2>2. CASE d # Device(s)
    <3>1. Underway(d) /\ \A r \in Sections : Device(r) = d => r # s
      BY <2>2 DEF Arriving
    <3>2. QED BY <1>1, <1>4, <1>5, <1>7, <2>2, <3>1 DEF Underway
  <2>3. QED BY <2>1, <2>2
<1>10. QED BY <1>7, <1>8, <1>9 DEF Arriving

LEMMA ReachArrives ==
  ASSUME Shape, Arriving, NEW a \in applies, Reach(a)
  PROVE  Arriving'
<1> DEFINE x == IF a.device \in Tabs /\ a.setting.mode = "off" THEN Off ELSE a.setting
<1>1. /\ applies' = applies \ {a} /\ hw' = [hw EXCEPT ![a.device] = x]
      /\ UNCHANGED <<tab, shown, timers, idle, want>>
  BY DEF Reach, controls, history
<1>2. a.device \in Devices /\ hw \in Snapshots
  BY DEF Shape
<1>3. \A w : Meets(a.device, a.setting, w) => Meets(a.device, x, w)
  BY OffMeets
<1> HIDE DEF x
<1>4. hw'[a.device] = x /\ \A d \in Devices \ {a.device} : hw'[d] = hw[d]
  BY <1>1, <1>2 DEF Snapshots
<1>5. \A r : Device(r)' = Device(r) /\ (Pending(r) => Pending(r)')
  BY <1>1 DEF Device, Pending
<1>6. ControlsMeet' /\ OneAtATime'
  BY <1>1, <1>5 DEF Arriving, ControlsMeet, OneAtATime
<1>7. \A b \in applies' : b.device # a.device
  BY <1>1 DEF Arriving, OneAtATime
<1>8. ASSUME NEW d \in Devices PROVE Underway(d)'
  <2>1. Underway(d)
    BY DEF Arriving
  <2>2. CASE \E s \in Sections : Device(s) = d /\ Pending(s)
    BY <1>5, <2>2 DEF Underway
  <2>3. CASE \E b \in applies : b.device = d /\ Meets(d, b.setting, want[d])
    <3>1. PICK b \in applies : b.device = d /\ Meets(d, b.setting, want[d])
      BY <2>3
    <3>2. CASE b = a
      <4>1. Meets(d, hw'[d], want'[d])
        BY <1>1, <1>3, <1>4, <3>1, <3>2
      <4>2. QED BY <1>7, <3>1, <3>2, <4>1 DEF Underway
    <3>3. CASE b # a
      BY <1>1, <3>1, <3>3 DEF Underway
    <3>4. QED BY <3>2, <3>3
  <2>4. CASE (\A b \in applies : b.device # d) /\ Meets(d, hw[d], want[d])
    <3>1. a.device # d
      BY <2>4
    <3>2. QED BY <1>1, <1>4, <2>4, <3>1 DEF Underway
  <2>5. QED BY <2>1, <2>2, <2>3, <2>4 DEF Underway
<1>9. QED BY <1>6, <1>8 DEF Arriving

(* Steps that leave the choices and the applies alone.                      *)
LEMMA OthersArrive ==
  ASSUME Arriving, UNCHANGED <<applies, hw, want>>, ControlsMeet',
         \A r \in Sections : Pending(r) => Device(r)' = Device(r) /\ Pending(r)'
  PROVE  Arriving'
<1>1. OneAtATime'
  BY DEF Arriving, OneAtATime
<1>2. ASSUME NEW d \in Devices PROVE Underway(d)'
  <2>1. Underway(d)
    BY DEF Arriving
  <2>2. QED BY <2>1 DEF Underway
<1>3. QED BY <1>1, <1>2 DEF Arriving

(* An answer leaves the wishes and what is on its way alone, or, in quiet,  *)
(* starts the account anew from what the daemon has.                        *)
LEMMA ReadArrives ==
  ASSUME Shape, EffectInv, PristineInv, RunRead, excuses' = {}
  PROVE  Arriving'
<1> DEFINE got == Head(idle).got
<1>1. /\ idle # <<>> /\ idle' = Tail(idle) /\ Head(idle).do # "apply" /\ got \in Snapshots
      /\ UNCHANGED <<tab, timers, applies, hw>>
      /\ \/ UNCHANGED <<shown, want, excuses>>
         \/ /\ shown' = [s \in Sections |-> Fill(s, got[Device(s)], shown[s])]
            /\ \/ /\ Quiet /\ got = hw
                  /\ want' = [d \in Devices |-> IF d \in touched THEN hw[d] ELSE want[d]]
               \/ /\ Excuse("sync", \E d \in Devices : ~Meets(d, got[d], want[d]))
                  /\ UNCHANGED want
  BY RunReadIs
<1> HIDE DEF got
<1>2. \A r : Device(r)' = Device(r)
  BY <1>1 DEF Device
<1>3. \A r \in Sections : Pending(r) => Pending(r)'
  <2>1. \A r \in Sections : Queued(r) => Queued(r)'
    BY <1>1, QueuedTail
  <2>2. QED BY <1>1, <2>1 DEF Pending, Queued
<1>4. ASSUME NEW s \in Sections, NEW w \in Entries, Meets(Device(s), got[Device(s)], w)
      PROVE  Meets(Device(s), Fill(s, got[Device(s)], shown[s]), w)
  <2>1. /\ got[Device(s)] \in Entries /\ shown[s] \in Settings
        /\ s = "battery" <=> Device(s) = "battery"
    BY <1>1, DeviceType DEF Shape, Snapshots, Device, Sections, Tabs
  <2>2. QED BY <1>4, <2>1, FillMeets
<1>5. want \in Snapshots /\ want' \in Snapshots
  BY RunReadType DEF Shape
<1>6. CASE UNCHANGED <<shown, want, excuses>>
  <2>1. Arriving
    BY <1>6 DEF EffectInv
  <2>2. ControlsMeet'
    BY <1>2, <1>6, <2>1 DEF Arriving, ControlsMeet
  <2>3. QED BY <1>1, <1>2, <1>3, <1>6, <2>1, <2>2, OthersArrive
<1>7. CASE /\ shown' = [s \in Sections |-> Fill(s, got[Device(s)], shown[s])]
           /\ Excuse("sync", \E d \in Devices : ~Meets(d, got[d], want[d]))
           /\ UNCHANGED want
  <2>1. Arriving /\ \A d \in Devices : Meets(d, got[d], want[d])
    BY <1>7 DEF Excuse, EffectInv
  <2>2. \A s \in Sections : /\ Meets(Device(s), got[Device(s)], want[Device(s)])
                            /\ want[Device(s)] \in Entries
    BY <1>5, <2>1, DeviceType DEF Shape, Snapshots
  <2>3. ControlsMeet'
    BY <1>2, <1>4, <1>7, <2>2 DEF ControlsMeet
  <2>4. QED BY <1>1, <1>2, <1>3, <1>7, <2>1, <2>3, OthersArrive
<1>8. CASE /\ shown' = [s \in Sections |-> Fill(s, got[Device(s)], shown[s])]
           /\ Quiet /\ got = hw
           /\ want' = [d \in Devices |-> IF d \in touched THEN hw[d] ELSE want[d]]
  <2>1. \A d \in Devices : Meets(d, hw[d], want'[d]) /\ want'[d] \in Entries
    <3> TAKE d \in Devices
    <3>1. want'[d] = IF d \in touched THEN hw[d] ELSE want[d]
      BY <1>8
    <3>2. d \notin touched => Meets(d, hw[d], want[d])
      BY InPlayType DEF PristineInv, PristineAt, InPlay
    <3>3. QED BY <1>5, <3>1, <3>2, MeetsItself DEF Snapshots
  <2>2. \A s \in Sections : /\ Meets(Device(s), got[Device(s)], want'[Device(s)])
                            /\ want'[Device(s)] \in Entries
    BY <1>8, <2>1, DeviceType DEF Shape
  <2>3. ControlsMeet'
    BY <1>2, <1>4, <1>8, <2>2 DEF ControlsMeet
  <2>4. applies' = {}
    BY <1>1, <1>8 DEF Quiet
  <2>5. OneAtATime' /\ \A d \in Devices : Underway(d)'
    BY <1>1, <2>1, <2>4 DEF OneAtATime, Underway
  <2>6. QED BY <2>3, <2>5 DEF Arriving
<1>9. QED BY <1>1, <1>6, <1>7, <1>8

LEMMA EffectStep ==
  ASSUME Shape, EffectInv, PristineInv, [Next]_vars
  PROVE  EffectInv'
<1> SUFFICES ASSUME excuses' = {} PROVE Arriving'
  BY DEF EffectInv
<1>1. CASE RunRead
  BY <1>1, ReadArrives
<1>2. ASSUME ~RunRead PROVE Arriving
  <2>1. excuses \subseteq excuses'
    BY <1>2 DEF Next, vars, controls, history, Slide, Expire, Choose, send, RunApply,
                SelectTab, Reach, Fail, ReadState, PostRead, Excuse
  <2>2. QED BY <2>1 DEF EffectInv
<1> SUFFICES ASSUME ~RunRead PROVE Arriving'
  BY <1>1
<1>3. CASE \E s \in Sections : Slide(s)
  BY <1>2, <1>3, SlideArrives
<1>4. CASE Choose
  BY <1>2, <1>4, ChooseArrives
<1>5. CASE RunApply
  BY <1>2, <1>5, RunApplyArrives
<1>6. CASE \E a \in applies : Reach(a)
  BY <1>2, <1>6, ReachArrives
<1>7. ASSUME NEW a \in applies, Fail(a) PROVE FALSE
  BY <1>7 DEF Fail, Excuse
<1>8. ASSUME NEW s \in Sections, Expire(s) PROVE Arriving'
  <2> DEFINE cb == [do |-> "apply", section |-> s]
  <2>1. cb \in Callback /\ cb.do = "apply" /\ cb.section = s
    BY DEF Callback
  <2>2. /\ idle' = Append(idle, cb) /\ timers' = timers \ {s}
        /\ UNCHANGED <<tab, shown, applies, hw, want>>
    BY <1>8 DEF Expire, history
  <2> HIDE DEF cb
  <2>3. \A r \in Sections : (Queued(r) => Queued(r)') /\ Queued(s)'
    BY <2>1, <2>2, QueuedAppend
  <2>4. \A r \in Sections : Pending(r) => Pending(r)'
    <3> TAKE r \in Sections
    <3>1. Pending(r) => r \in timers' \/ Queued(r)'
      BY <2>2, <2>3, PendingIs
    <3>2. QED BY <3>1 DEF Pending, Queued
  <2>5. \A r : Device(r)' = Device(r)
    BY <2>2 DEF Device
  <2>6. ControlsMeet'
    BY <1>2, <2>2, <2>5 DEF Arriving, ControlsMeet
  <2>7. QED BY <1>2, <2>2, <2>4, <2>5, <2>6, OthersArrive
<1>9. ASSUME NEW t \in Tabs, SelectTab(t) PROVE Arriving'
  <2> DEFINE filled == Fill("lighting", state[t], shown["lighting"])
  <2>1. /\ tab' = t /\ shown' = [shown EXCEPT !["lighting"] = filled]
        /\ UNCHANGED <<timers, idle, applies, hw, want>>
    BY <1>9 DEF SelectTab, ValueChanged
  <2>2. ~Pending("lighting") /\ Meets(t, filled, want[t])
    <3>1. ~Pending("lighting") /\ Meets(t, state[t], want[t])
      BY <1>9 DEF SelectTab
    <3>2. /\ state[t] \in Entries /\ want[t] \in Entries /\ shown["lighting"] \in Settings
          /\ "lighting" \in Sections /\ t # "battery"
      BY DEF Shape, Snapshots, Devices, Sections, Tabs
    <3>3. QED BY <3>1, <3>2, FillMeets
  <2> HIDE DEF filled
  <2>3. /\ Device("lighting")' = t
        /\ \A r \in Sections \ {"lighting"} : Device(r)' = Device(r)
    BY <2>1 DEF Device
  <2>4. /\ shown'["lighting"] = filled
        /\ \A r \in Sections \ {"lighting"} : shown'[r] = shown[r]
    BY <2>1 DEF Shape, Sections
  <2>5. ControlsMeet'
    BY <1>2, <2>1, <2>2, <2>3, <2>4 DEF Arriving, ControlsMeet
  <2>6. \A r : Pending(r) => Pending(r)'
    BY <2>1 DEF Pending
  <2>7. QED BY <1>2, <2>1, <2>2, <2>3, <2>5, <2>6, OthersArrive
<1>10. CASE (\E do \in {"sync", "state"} : ReadState(do)) \/ UNCHANGED vars
  <2>1. UNCHANGED <<tab, shown, timers, idle, applies, hw, want>>
    BY <1>10 DEF ReadState, vars, controls, history
  <2>2. \A r : Device(r)' = Device(r) /\ (Pending(r) => Pending(r)')
    BY <2>1 DEF Device, Pending
  <2>3. ControlsMeet'
    BY <1>2, <2>1, <2>2 DEF Arriving, ControlsMeet
  <2>4. QED BY <1>2, <2>1, <2>2, <2>3, OthersArrive
<1>11. ASSUME NEW r \in reads, PostRead(r) PROVE Arriving'
  <2>1. r \in Callback
    BY DEF Shape, Callback
  <2>2. /\ idle' = Append(idle, r)
        /\ UNCHANGED <<tab, shown, timers, applies, hw, want>>
    BY <1>11 DEF PostRead, controls, history
  <2>3. \A s \in Sections : Queued(s) => Queued(s)'
    BY <2>1, <2>2, QueuedAppend
  <2>4. \A s \in Sections : Pending(s) => Pending(s)'
    BY <2>2, <2>3 DEF Pending, Queued
  <2>5. \A s : Device(s)' = Device(s)
    BY <2>2 DEF Device
  <2>6. ControlsMeet'
    BY <1>2, <2>2, <2>5 DEF Arriving, ControlsMeet
  <2>7. QED BY <1>2, <2>2, <2>4, <2>5, <2>6, OthersArrive
<1>12. QED BY <1>3, <1>4, <1>5, <1>6, <1>7, <1>8, <1>9, <1>10, <1>11 DEF Next

(* What the user chose for each device is in force once everything is       *)
(* quiet, unless one of the excuses came up since the last open in quiet.   *)
THEOREM ChangesArrive == Spec => []ChangesTakeEffect
<1>1. Init => EffectInv /\ PristineInv
  <2> SUFFICES ASSUME Init PROVE Arriving /\ PristineInv
    BY DEF EffectInv
  <2>1. PristineInv
    BY InitPristine
  <2>2. Shape /\ touched = {} /\ applies = {} /\ want = hw
    BY InitShape DEF Init
  <2>3. \A d \in Devices : Underway(d)
    BY <2>2, MeetsItself DEF Underway
  <2>4. ControlsMeet
    <3> SUFFICES ASSUME NEW s \in Sections PROVE Meets(Device(s), shown[s], want[Device(s)])
      BY DEF ControlsMeet
    <3>1. Device(s) \in Devices \ touched /\ shown[s] \in Entries
      BY <2>2, DeviceType, SettingType DEF Shape
    <3>2. QED BY <2>1, <3>1 DEF PristineInv, PristineAt, InPlay
  <2>5. QED BY <2>1, <2>2, <2>3, <2>4 DEF Arriving, OneAtATime
<1>2. Shape /\ EffectInv /\ PristineInv /\ [Next]_vars => EffectInv' /\ PristineInv'
  BY EffectStep, PristineStep
<1>3. EffectInv => ChangesTakeEffect
  BY DEF EffectInv, Arriving, Underway, Pending, ChangesTakeEffect, AppliedDespite, Quiet
<1>4. QED BY <1>1, <1>2, <1>3, ShapeHolds, PTL DEF Spec
=============================================================================
