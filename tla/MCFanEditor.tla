---------------------------- MODULE MCFanEditor -----------------------------
(* FanEditor with three points on narrow and wide axes, every kind of floor *)
(* a description can carry, and curves that fit none of the devices.        *)
EXTENDS FanEditor

Device(temps, floor, minPWM) ==
  [tdpMin |-> 1, tdpMaxSafe |-> 2, tdpMaxForced |-> 3,
   tempMin |-> temps[1], tempMax |-> temps[2],
   highTDPMinPWM |-> minPWM, floorCurve |-> floor]

(* A ramp, rising by half a step per degree.                                *)
Ramp == <<Point(2, 1), Point(4, 2)>>

Scaled == Device(<<2, 5>>, Ramp, 1)

Axes == {<<3, 5>>, <<3, 4>>, <<0, 5>>, <<5, 0>>}

Floors ==
  {<<>>, Ramp, <<Point(1, -1), Point(5, 9)>>,
   <<Point(3, 1), Point(2, 2)>>, <<Point(2, 2), Point(3, 1)>>}

(* Every floor, every axis, every order of the three limits.                *)
Descriptions ==
  {Device(<<2, 5>>, floor, 1) : floor \in Floors}
  \cup {Device(<<2, 5>>, <<>>, minPWM) : minPWM \in {-1, 9}}
  \cup {Device(axis, Ramp, -1) : axis \in Axes}
  \cup {[Scaled EXCEPT !.tdpMin = a, !.tdpMaxSafe = b, !.tdpMaxForced = c] :
          a \in {0, 2}, b, c \in {0, 1}}

Rising == <<Point(2, 0), Point(3, 0), Point(5, 2)>>

Foreign ==
  {Rising, <<Point(5, 2), Point(9, 0), Point(1, 7)>>}

Limits == {1, 3}
=============================================================================
