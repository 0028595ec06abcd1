------------------------------ MODULE FanCurve ------------------------------
(***************************************************************************)
(* The fan curve rules of internal/power: what a device description is     *)
(* made of after Sanitized, which floor the daemon holds the fans to, and  *)
(* how EnforceCurve repairs a curve after one of its points has moved.     *)
(*                                                                         *)
(* A curve is a function from 1..CurvePoints (Go: 0..7) to points; a floor *)
(* is a sequence of points of any length, empty for none.                  *)
(***************************************************************************)
EXTENDS Integers, Sequences, FiniteSetsExt

CONSTANTS
  CurvePoints,    \* points in a curve
  PWMMax,         \* top of the hwmon range
  DefaultLimits   \* the compiled-in device description

PWMMin == 0

Point(temp, pwm) == [temp |-> temp, pwm |-> pwm]
Within(x, lo, hi) == Max({lo, Min({x, hi})})

-----------------------------------------------------------------------------
(* Device limits, as compiled in or as a daemon serves them.                *)
Description ==
  [tdpMin : Int, tdpMaxSafe : Int, tdpMaxForced : Int, tempMin : Int, tempMax : Int,
   highTDPMinPWM : Int, floorCurve : Seq([temp : Int, pwm : Int])]

Ascends(floor) ==
  \A i \in 2..Len(floor) :
    floor[i - 1].temp < floor[i].temp /\ floor[i - 1].pwm <= floor[i].pwm

(* A floor that is not a curve is replaced whole.                           *)
sanitizedFloor(floor, minPWM) ==
  LET flat == IF minPWM <= PWMMin THEN <<>> ELSE <<Point(0, minPWM)>>
      out == [i \in DOMAIN floor |->
                [floor[i] EXCEPT !.pwm = Within(@, PWMMin, PWMMax)]]
  IN IF floor = <<>> \/ ~Ascends(out) THEN flat ELSE out

(* l with the given fields back at their defaults.                          *)
Fallback(l, fields) ==
  [f \in DOMAIN l |-> IF f \in fields THEN DefaultLimits[f] ELSE l[f]]

TDPGroup == {"tdpMin", "tdpMaxSafe", "tdpMaxForced"}
TempGroup == {"tempMin", "tempMax"}

SanitizedTDP(l) ==
  IF l.tdpMin >= l.tdpMaxSafe \/ l.tdpMaxSafe > l.tdpMaxForced
  THEN Fallback(l, TDPGroup) ELSE l

SanitizedTemps(l) ==
  IF l.tempMax - l.tempMin < CurvePoints - 1 THEN Fallback(l, TempGroup) ELSE l

SanitizedFloorGroup(l) ==
  LET floor == sanitizedFloor(l.floorCurve, Within(l.highTDPMinPWM, PWMMin, PWMMax))
  IN [l EXCEPT !.floorCurve = floor,
               !.highTDPMinPWM = IF floor # <<>> THEN floor[1].pwm
                                 ELSE Within(@, PWMMin, PWMMax)]

Sanitized(l) ==
  LET unset == {f \in TDPGroup \cup TempGroup : l[f] <= 0}
  IN SanitizedFloorGroup(SanitizedTemps(SanitizedTDP(Fallback(l, unset))))

ForceRequired(l, pl1) == pl1 > l.tdpMaxSafe

ActiveFloor(l, pl1) == IF pl1 <= l.tdpMaxSafe THEN <<>> ELSE l.floorCurve

FanFloorPWM(l, pl1) ==
  LET floor == ActiveFloor(l, pl1)
  IN IF floor = <<>> THEN PWMMin ELSE floor[1].pwm

(* Below the first point its PWM, above the last the last one's, linear in  *)
(* between (Go's division and \div agree: floors ascend).                   *)
FloorPWMAt(floor, temp) ==
  LET above == {i \in DOMAIN floor : temp <= floor[i].temp}
      hi == floor[Min(above)]
      lo == floor[Min(above) - 1]
  IN CASE floor = <<>> -> PWMMin
       [] floor # <<>> /\ above = {} -> floor[Len(floor)].pwm
       [] 1 \in above -> floor[1].pwm
       [] OTHER -> lo.pwm + ((hi.pwm - lo.pwm) * (temp - lo.temp))
                              \div (hi.temp - lo.temp)

-----------------------------------------------------------------------------
Indices == 1..CurvePoints

(* The four cascades away from point idx, so that temperatures strictly     *)
(* increase and PWM never decreases: a point is moved just as far as the    *)
(* nearest of those between it and idx that is in its way.                  *)
WarmerAbove(t, idx) ==
  [i \in Indices |-> IF i <= idx THEN t[i] ELSE Max({t[j] + (i - j) : j \in idx..i})]
CoolerBelow(t, idx) ==
  [i \in Indices |-> IF i >= idx THEN t[i] ELSE Min({t[j] - (j - i) : j \in i..idx})]
(* Mutant: the cascade starts at the first point, not at the moved one.     *)
BugFasterFromStart(p, idx) == [i \in Indices |-> Max({p[j] : j \in 1..i})]
FasterAbove(p, idx) ==
  [i \in Indices |-> IF i <= idx THEN p[i] ELSE Max({p[j] : j \in idx..i})]
SlowerBelow(p, idx) ==
  [i \in Indices |-> IF i >= idx THEN p[i] ELSE Min({p[j] : j \in i..idx})]

Temps(c) == [i \in Indices |-> c[i].temp]
PWMs(c) == [i \in Indices |-> c[i].pwm]
Lifted(floor, temp, pwm) == Max({pwm, FloorPWMAt(floor, temp)})
Clamp(l, floor, temp, pwm) ==
  Min({Lifted(floor, Within(temp, l.tempMin, l.tempMax), pwm), PWMMax})

(* Where the moved point ends up: room is left for its neighbours.          *)
MovedTemp(l, temp, idx) ==
  Within(temp, l.tempMin + idx - 1, l.tempMax - (CurvePoints - idx))

(* The last pass over the temperatures: spread upwards again, and pull the  *)
(* tail back below the maximum.                                             *)
Respread(l, t) ==
  LET up == WarmerAbove(t, 1)
  IN CoolerBelow([up EXCEPT ![CurvePoints] = Min({@, l.tempMax})], CurvePoints)

(* Mutant: only the moved point is lifted to the floor, not its neighbours. *)
BugEnforceLiftsMoved(l, c, idx, floor) ==
  LET t == CoolerBelow(WarmerAbove(
             [Temps(c) EXCEPT ![idx] = MovedTemp(l, @, idx)], idx), idx)
      p == SlowerBelow(FasterAbove(
             [PWMs(c) EXCEPT ![idx] = Clamp(l, floor, c[idx].temp, @)], idx), idx)
      clamped == [i \in Indices |-> Within(t[i], l.tempMin, l.tempMax)]
      spread == Respread(l, clamped)
  IN [i \in Indices |-> Point(spread[i], p[i])]

EnforceCurve(l, c, idx, floor) ==
  LET t == CoolerBelow(WarmerAbove(
             [Temps(c) EXCEPT ![idx] = MovedTemp(l, @, idx)], idx), idx)
      p == SlowerBelow(FasterAbove(
             [PWMs(c) EXCEPT ![idx] = Clamp(l, floor, c[idx].temp, @)], idx), idx)
      clamped == [i \in Indices |-> Within(t[i], l.tempMin, l.tempMax)]
      spread == Respread(l, clamped)
  IN [i \in Indices |->
        Point(spread[i], Lifted(floor, spread[i], Clamp(l, floor, t[i], p[i])))]

-----------------------------------------------------------------------------
(* What the daemon and the firmware require of a curve (power_test.go       *)
(* assertCurveValid): the reference EnforceCurve is measured against.       *)
Acceptable(l, c, floor) ==
  /\ \A i \in Indices : /\ c[i].temp \in l.tempMin..l.tempMax
                        /\ c[i].pwm \in FloorPWMAt(floor, c[i].temp)..PWMMax
  /\ \A i \in Indices \ {1} : /\ c[i - 1].temp < c[i].temp
                              /\ c[i - 1].pwm <= c[i].pwm

(* What the rest of the drawer assumes of a device (assertLimitsUsable).    *)
Usable(l) ==
  /\ l.tdpMin < l.tdpMaxSafe /\ l.tdpMaxSafe <= l.tdpMaxForced
  /\ l.tempMax - l.tempMin >= CurvePoints - 1
  /\ l.highTDPMinPWM \in PWMMin..PWMMax
  /\ l.floorCurve # <<>> => l.highTDPMinPWM = l.floorCurve[1].pwm
  /\ Ascends(l.floorCurve)
  /\ \A i \in DOMAIN l.floorCurve : l.floorCurve[i].pwm \in PWMMin..PWMMax

ASSUME FanCurveAssumption ==
  /\ CurvePoints \in Nat \ {0}
  /\ PWMMax \in Nat \ {0}
  /\ DefaultLimits \in Description /\ Usable(DefaultLimits)
  /\ DefaultLimits.tdpMin > 0
=============================================================================
