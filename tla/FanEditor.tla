----------------------------- MODULE FanEditor ------------------------------
(***************************************************************************)
(* The fan curve editor of the custom view (internal/gui/tdp.go) and the   *)
(* device rules behind it: points dragged on the chart, the floor that     *)
(* follows the applied sustained limit, saves and resets, and a daemon     *)
(* that refuses a curve below its floor and, while there is a floor,       *)
(* refuses to release the fans.                                            *)
(*                                                                         *)
(* A refresh, its request and its reply, is one step here (StateSync has   *)
(* what comes in between), and one save is under way at a time.            *)
(***************************************************************************)
EXTENDS FanCurve

CONSTANTS
  Described,       \* device descriptions, as a daemon may one day serve them
  Placeholder,     \* the curve DefaultCurve starts from
  ForeignCurves,   \* curves found in the registers: another device's, an older one's
  Watts,           \* sustained limits
  MaxDrags,        \* bound on the movements of the user's finger
  MaxWrites        \* bound on the changes made at the daemon

VARIABLES
  limits,       \* Window.limits
  front,        \* the custom view is in front
  points,       \* the curve drawn
  dragging,     \* the point under the finger, 0 for none
  resetOn,      \* Reset Fans is sensitive
  state,        \* Window.state, as far as the view needs it; pl1 = 0 for nil
  saving,       \* the save under way
  daemon,       \* external: the applied limit, the curve registers, the fan mode
  drawnFor,     \* history: the sustained limit the curve was last repaired for
  drags, writes \* counters for the bounds

vars == <<limits, front, points, dragging, resetOn, state, saving, daemon,
          drawnFor, drags, writes>>

Devices == {Sanitized(l) : l \in Described}

DefaultCurve(l) == EnforceCurve(l, Placeholder, 1, <<>>)

Curves == [Indices -> [temp : Int, pwm : Int]]
Snapshot == [pl1 : Watts, curve : Curves, custom : BOOLEAN]
Idle == [tdp |-> 0, curve |-> <<>>, drawnFor |-> 0]

TypeOK ==
  /\ limits \in Devices
  /\ {front, resetOn} \subseteq BOOLEAN
  /\ points \in Curves
  /\ dragging \in {0} \cup Indices
  /\ daemon \in Snapshot
  /\ state \in [pl1 : {0} \cup Watts, curve : Curves, custom : BOOLEAN]
  /\ drawnFor \in {0} \cup Watts
  /\ saving \in [tdp : {0} \cup Watts, curve : Curves \cup {<<>>}, drawnFor : {0} \cup Watts]

ASSUME FanEditorAssumption ==
  /\ Described \subseteq Description
  /\ Placeholder \in Curves /\ ForeignCurves \subseteq Curves
  /\ Watts \subseteq Nat \ {0}

(* FanCurveIsCustom: the registers keep the last curve even on firmware auto*)
Init ==
  /\ limits \in Devices
  /\ front = FALSE
  /\ points = DefaultCurve(limits)
  /\ dragging = 0
  /\ resetOn = TRUE
  /\ daemon \in [pl1 : Watts, curve : ForeignCurves, custom : BOOLEAN]
  /\ state = [daemon EXCEPT !.pl1 = 0]
  /\ saving = Idle
  /\ drawnFor = 0
  /\ drags = 0 /\ writes = 0

-----------------------------------------------------------------------------
floorOf(snapshot) == ActiveFloor(limits, snapshot.pl1)

(* syncFanResetSensitivity, from the state s.                               *)
syncFanResetSensitivity(s) == resetOn' = ~(FanFloorPWM(limits, s.pl1) > 0)

(* Mutant: what the daemon reports is drawn as it is.                       *)
BugSyncDrawsAsIs(s) ==
  /\ points' = IF s.custom THEN s.curve ELSE DefaultCurve(limits)
  /\ drawnFor' = s.pl1
  /\ syncFanResetSensitivity(s)

(* syncCustomView, from the state s, its fan curve: the curve in force, or  *)
(* the placeholder, lifted above the floor.                                 *)
syncCustomView(s) ==
  /\ LET shown == IF s.custom THEN s.curve ELSE DefaultCurve(limits)
     IN points' = EnforceCurve(limits, shown, 1, floorOf(s))
  /\ drawnFor' = s.pl1
  /\ syncFanResetSensitivity(s)

(* showCustomView: filled from the state there is, if any.                  *)
ShowCustomView ==
  /\ ~front
  /\ front' = TRUE
  /\ IF state.pl1 = 0 THEN UNCHANGED <<points, drawnFor, resetOn>>
                      ELSE syncCustomView(state)
  /\ UNCHANGED <<limits, dragging, state, saving, daemon, drags, writes>>

(* The view goes to the back; GTK ends a gesture on a widget that is hidden.*)
ShowMainView ==
  /\ front
  /\ front' = FALSE
  /\ dragging' = 0
  /\ UNCHANGED <<limits, points, resetOn, state, saving, daemon, drawnFor, drags, writes>>

(* Toggle's fetch, and refreshState after an event.                         *)
Refresh ==
  /\ state' = daemon
  /\ syncCustomView(daemon)
  /\ UNCHANGED <<limits, front, dragging, saving, daemon, drags, writes>>

(* Mutant: the poll leaves the button alone.                                *)
BugPollKeepsButton ==
  /\ state' = daemon
  /\ UNCHANGED <<limits, front, points, dragging, resetOn, saving, daemon, drawnFor, drags, writes>>

(* A telemetry poll: new state, a new floor line, but the curve stays as it *)
(* is drawn.                                                                *)
Poll ==
  /\ state' = daemon
  /\ IF front THEN syncFanResetSensitivity(daemon) ELSE UNCHANGED resetOn
  /\ UNCHANGED <<limits, front, points, dragging, saving, daemon, drawnFor, drags, writes>>

-----------------------------------------------------------------------------
(* Mutant: an index counted from one, as if from zero.                      *)
BugDragBeginNext(i) ==
  /\ front
  /\ dragging = 0
  /\ dragging' = i + 1
  /\ UNCHANGED <<limits, front, points, resetOn, state, saving, daemon, drawnFor, drags, writes>>

DragBegin(i) ==
  /\ front
  /\ dragging = 0
  /\ dragging' = i
  /\ UNCHANGED <<limits, front, points, resetOn, state, saving, daemon, drawnFor, drags, writes>>

(* The finger is somewhere on the chart (xToTemp and yToPWM clamp to it).   *)
DragUpdate(temp, pwm) ==
  /\ dragging # 0
  /\ drags < MaxDrags
  /\ drags' = drags + 1
  /\ temp \in limits.tempMin..limits.tempMax
  /\ points' = EnforceCurve(limits, [points EXCEPT ![dragging] = Point(temp, pwm)],
                            dragging, floorOf(state))
  /\ drawnFor' = state.pl1
  /\ UNCHANGED <<limits, front, dragging, resetOn, state, saving, daemon, writes>>

DragEnd ==
  /\ dragging # 0
  /\ dragging' = 0
  /\ UNCHANGED <<limits, front, points, resetOn, state, saving, daemon, drawnFor, drags, writes>>

-----------------------------------------------------------------------------
(* Save Fans, with tdp = 0, and Save Both: the widgets are read on the GTK  *)
(* thread, the writes happen later.                                         *)
Save(tdp) ==
  /\ front
  /\ saving = Idle
  /\ writes < MaxWrites
  /\ writes' = writes + 1
  /\ tdp \in {0} \cup Watts
  /\ saving' = [tdp |-> tdp, curve |-> points, drawnFor |-> drawnFor]
  /\ UNCHANGED <<limits, front, points, dragging, resetOn, state, daemon, drawnFor, drags>>

(* The force flag goes with every limit that needs it, so only a failing    *)
(* daemon refuses one; it may take over the fans, but the curve in the      *)
(* registers stays, even below the floor.                                   *)
TakesLimit(pl1) ==
  {[daemon EXCEPT !.pl1 = pl1, !.custom = custom] : custom \in {daemon.custom, TRUE}}

WriteTDP ==
  /\ saving.tdp # 0
  /\ daemon' \in {daemon} \cup TakesLimit(saving.tdp)
  /\ saving' = [saving EXCEPT !.tdp = 0]
  /\ UNCHANGED <<limits, front, points, dragging, resetOn, state, drawnFor, drags, writes>>

(* The daemon takes a curve that it finds acceptable, unless the call fails,*)
(* and refuses others.                                                      *)
WriteCurve ==
  /\ saving # Idle /\ saving.tdp = 0
  /\ \/ daemon' = daemon
     \/ /\ Acceptable(limits, saving.curve, floorOf(daemon))
        /\ daemon' = [daemon EXCEPT !.curve = saving.curve, !.custom = TRUE]
  /\ saving' = Idle
  /\ UNCHANGED <<limits, front, points, dragging, resetOn, state, drawnFor, drags, writes>>

(* Reset Fans: refused while the floor is in force.                         *)
ResetFans ==
  /\ front /\ resetOn
  /\ writes < MaxWrites
  /\ writes' = writes + 1
  /\ floorOf(daemon) = <<>>
  /\ daemon' = [daemon EXCEPT !.custom = FALSE]
  /\ UNCHANGED <<limits, front, points, dragging, resetOn, state, saving, drawnFor, drags>>

(* Save TDP, Reset TDP, another client: a new sustained limit, or a stock   *)
(* profile, which releases the fans.                                        *)
LimitChange ==
  /\ writes < MaxWrites
  /\ writes' = writes + 1
  /\ \E pl1 \in Watts :
       \/ daemon' \in TakesLimit(pl1)
       \/ /\ ~ForceRequired(limits, pl1)
          /\ daemon' = [daemon EXCEPT !.pl1 = pl1, !.custom = FALSE]
  /\ UNCHANGED <<limits, front, points, dragging, resetOn, state, saving, drawnFor, drags>>

Next ==
  \/ ShowCustomView \/ ShowMainView \/ Refresh \/ Poll
  \/ \E i \in Indices : DragBegin(i)
  \/ \E temp \in limits.tempMin..limits.tempMax, pwm \in PWMMin..PWMMax :
       DragUpdate(temp, pwm)
  \/ DragEnd
  \/ \E tdp \in {0} \cup Watts : Save(tdp)
  \/ WriteTDP \/ WriteCurve
  \/ ResetFans \/ LimitChange

Spec == Init /\ [][Next]_vars

-----------------------------------------------------------------------------
(* Any description is repaired into one the drawer can work with, and a     *)
(* repaired one stays as it is (power.go Sanitized).                        *)
LimitsUsable ==
  Usable(limits) /\ Sanitized(limits) = limits

(* Whatever was dragged where, read from the daemon or left over from       *)
(* another device, the curve drawn is one that the daemon would take under  *)
(* the limit it was last repaired for (power.go EnforceCurve).              *)
DrawnCurveAcceptable ==
  drawnFor # 0 => Acceptable(limits, points, ActiveFloor(limits, drawnFor))

(* A saved curve is refused only if the floor came into force after it was  *)
(* drawn: by a limit set elsewhere, or by the other half of Save Both       *)
(* ("a drag the editor allows is a curve the daemon accepts").              *)
RefusedOnlyUnderNewFloor ==
  saving # Idle /\ ~Acceptable(limits, saving.curve, floorOf(daemon)) =>
    ActiveFloor(limits, saving.drawnFor) = <<>> /\ floorOf(daemon) # <<>>

Distance(a, b) == IF a < b THEN b - a ELSE a - b

(* The point under the finger goes as far towards it as the room the others *)
(* need allows, never below it, and without a floor to exactly its PWM; and *)
(* a curve that was acceptable is left alone (EnforceCurve: "so it wins     *)
(* over its neighbours").                                                   *)
MovedPointWins ==
  dragging # 0 =>
    \A temp \in limits.tempMin..limits.tempMax, pwm \in PWMMin..PWMMax :
      LET moved == [points EXCEPT ![dragging] = Point(temp, pwm)]
          new == EnforceCurve(limits, moved, dragging, floorOf(state))
          room == (limits.tempMin + dragging - 1)
                    ..(limits.tempMax - (CurvePoints - dragging))
      IN /\ \A t \in room :
              Distance(new[dragging].temp, temp) <= Distance(t, temp)
         /\ new[dragging].pwm >= pwm
         /\ floorOf(state) = <<>> => new[dragging].pwm = pwm
         /\ Acceptable(limits, moved, floorOf(state)) => new = moved

(* In front of the user Reset Fans is on offer exactly while no floor is in *)
(* force, however the state was learned (tdp.go syncFanResetSensitivity);   *)
(* a floor that starts at zero does not count for the button.               *)
ResetFollowsFloor ==
  front /\ state.pl1 # 0 =>
    (resetOn <=> floorOf(state) = <<>> \/ limits.highTDPMinPWM = PWMMin)
=============================================================================
