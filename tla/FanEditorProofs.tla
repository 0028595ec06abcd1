--------------------------- MODULE FanEditorProofs --------------------------
(***************************************************************************)
(* Proofs about FanCurve and FanEditor, for any number of points in a      *)
(* curve and of points in a floor, any range of PWM, any device            *)
(* descriptions, any curves found in the registers and any bounds.         *)
(*                                                                         *)
(* First the numbers: Max and Min of a range of a function are what they   *)
(* are called.  Then the floor (how it rises between its points), the      *)
(* cascades (what a moved point does to its neighbours), EnforceCurve      *)
(* (what comes out is acceptable, and the moved point has its way), the    *)
(* device descriptions, and last the editor.                               *)
(***************************************************************************)
EXTENDS FanEditor, WellFoundedInduction, TLAPS

LEMMA Sizes ==
  /\ CurvePoints \in Nat \ {0} /\ PWMMax \in Nat \ {0}
  /\ DefaultLimits \in Description /\ Usable(DefaultLimits) /\ DefaultLimits.tdpMin > 0
BY FanCurveAssumption DEF FanCurveAssumption

-----------------------------------------------------------------------------
(* Greatest and least members.                                              *)

LEMMA MinBounded ==
  ASSUME NEW S \in SUBSET Int, S # {}, NEW b \in Int, \A x \in S : b <= x
  PROVE  Min(S) \in S /\ \A y \in S : Min(S) <= y
<1> DEFINE T == {n \in Nat : n + b \in S}
<1>1. T \in SUBSET Nat /\ T # {}
  <2>1. PICK x \in S : TRUE
    OBVIOUS
  <2>2. x - b \in Nat /\ (x - b) + b = x
    OBVIOUS
  <2>3. QED BY <2>1, <2>2
<1>2. PICK t \in T : \A y \in T : ~ (<<y, t>> \in OpToRel(<, Nat))
  <2> HIDE DEF T
  <2>1. QED BY <1>1, WFMin, NatLessThanWellFounded
<1>3. \A y \in T : ~ (y < t)
  BY <1>1, <1>2 DEF OpToRel
<1>4. \A y \in S : t + b <= y
  <2> TAKE y \in S
  <2>1. y - b \in Nat /\ (y - b) + b = y
    OBVIOUS
  <2>2. ~ (y - b < t)
    BY <1>3, <2>1
  <2>3. QED BY <2>1, <2>2
<1>5. t + b \in S
  OBVIOUS
<1> HIDE DEF T
<1>6. QED BY <1>4, <1>5 DEF Min

LEMMA MinOfNats ==
  ASSUME NEW S \in SUBSET Nat, S # {}
  PROVE  Min(S) \in S /\ \A y \in S : Min(S) <= y
<1>1. S \in SUBSET Int /\ 0 \in Int /\ \A x \in S : 0 <= x
  OBVIOUS
<1>2. QED BY <1>1, MinBounded

LEMMA MaxBounded ==
  ASSUME NEW S \in SUBSET Int, S # {}, NEW b \in Int, \A x \in S : x <= b
  PROVE  Max(S) \in S /\ \A y \in S : y <= Max(S)
<1> DEFINE N == {0 - x : x \in S}
           m == Min(N)
<1>1. m \in N /\ \A y \in N : m <= y
  <2> DEFINE c == 0 - b
  <2>1. c \in Int /\ \A x \in S : 0 - x \in Int /\ c <= 0 - x
    OBVIOUS
  <2> HIDE DEF c
  <2>2. N \in SUBSET Int /\ N # {} /\ \A x \in N : c <= x
    BY <2>1
  <2> HIDE DEF N
  <2>3. QED BY <2>1, <2>2, MinBounded
<1> HIDE DEF m
<1>2. PICK x \in S : m = 0 - x
  BY <1>1
<1>3. \A y \in S : x >= y
  <2> TAKE y \in S
  <2>1. m <= 0 - y
    BY <1>1
  <2>2. QED BY <1>2, <2>1
<1>4. QED BY <1>3 DEF Max

(* The values of a function on 1..n have a bound on either side: otherwise  *)
(* there is a shortest prefix without one.                                  *)
LEMMA HasBound ==
  ASSUME NEW n \in Nat, NEW f \in [1..n -> Int]
  PROVE  \E b \in Nat : \A i \in 1..n : f[i] <= b /\ 0 - b <= f[i]
<1> DEFINE Bounds(k, b) == \A i \in 1..k : f[i] <= b /\ 0 - b <= f[i]
           Unbounded == {k \in 0..n : ~ \E b \in Nat : Bounds(k, b)}
           k == Min(Unbounded)
<1>1. SUFFICES ASSUME Unbounded # {} PROVE FALSE
  <2>1. n \in 0..n
    OBVIOUS
  <2>2. n \notin Unbounded
    OBVIOUS
  <2>3. QED BY <2>1, <2>2
<1>2. k \in Unbounded /\ \A j \in Unbounded : k <= j
  <2>1. Unbounded \in SUBSET Nat
    OBVIOUS
  <2> HIDE DEF Unbounded
  <2>2. QED BY <1>1, <2>1, MinOfNats
<1> HIDE DEF k
<1>3. k # 0
  <2>1. Bounds(0, 0)
    OBVIOUS
  <2>2. QED BY <1>2, <2>1
<1>4. k \in 1..n /\ k - 1 \in 0..n /\ f[k] \in Int
  BY <1>2, <1>3
<1>5. PICK b \in Nat : Bounds(k - 1, b)
  <2>1. k - 1 \notin Unbounded
    <3> HIDE DEF Unbounded
    <3>1. QED BY <1>2, <1>4
  <2>2. QED BY <1>4, <2>1
<1> DEFINE c == IF f[k] < 0 THEN b - f[k] ELSE b + f[k]
<1>6. c \in Nat /\ b <= c /\ f[k] <= c /\ 0 - c <= f[k]
  BY <1>4
<1> HIDE DEF c
<1>7. Bounds(k, c)
  <2> SUFFICES ASSUME NEW i \in 1..k PROVE f[i] <= c /\ 0 - c <= f[i]
    OBVIOUS
  <2>1. CASE i = k
    BY <1>6, <2>1
  <2>2. CASE i \in 1..(k - 1)
    <3>1. f[i] \in Int /\ f[i] <= b /\ 0 - b <= f[i]
      BY <1>4, <1>5, <2>2
    <3>2. QED BY <1>6, <3>1
  <2>3. QED BY <1>4, <2>1, <2>2
<1>8. QED BY <1>2, <1>6, <1>7

(* So the maximum and the minimum of any of them are values, and extreme.   *)
LEMMA Extremes ==
  ASSUME NEW n \in Nat, NEW f \in [1..n -> Int], NEW S, S # {},
         S \subseteq {f[i] : i \in 1..n}
  PROVE  /\ Max(S) \in S /\ \A y \in S : y <= Max(S)
         /\ Min(S) \in S /\ \A y \in S : Min(S) <= y
<1>1. PICK b \in Nat : \A i \in 1..n : f[i] <= b /\ 0 - b <= f[i]
  BY HasBound
<1> DEFINE c == 0 - b
<1>2. S \in SUBSET Int /\ b \in Int /\ c \in Int
  OBVIOUS
<1>3. \A x \in S : x <= b
  BY <1>1
<1>4. \A x \in S : c <= x
  BY <1>1
<1> HIDE DEF c
<1>5. QED BY <1>2, <1>3, <1>4, MaxBounded, MinBounded

LEMMA MaxOfTwo ==
  ASSUME NEW a \in Int, NEW b \in Int
  PROVE  Max({a, b}) = IF a >= b THEN a ELSE b
BY DEF Max

LEMMA MinOfTwo ==
  ASSUME NEW a \in Int, NEW b \in Int
  PROVE  Min({a, b}) = IF a <= b THEN a ELSE b
BY DEF Min

LEMMA WithinIs ==
  ASSUME NEW x \in Int, NEW lo \in Int, NEW hi \in Int, lo <= hi
  PROVE  Within(x, lo, hi) = IF x < lo THEN lo ELSE IF x > hi THEN hi ELSE x
BY MaxOfTwo, MinOfTwo DEF Within

(* What holds from each member to the next holds from any to any later one: *)
(* otherwise there is a nearest one for which it does not.                  *)
LEMMA NeverDrops ==
  ASSUME NEW n \in Nat, NEW f \in [1..n -> Int],
         \A i \in 2..n : f[i - 1] <= f[i]
  PROVE  \A i, j \in 1..n : i <= j => f[i] <= f[j]
<1> SUFFICES ASSUME NEW i \in 1..n, NEW m \in 1..n, i <= m, ~ (f[i] <= f[m])
             PROVE  FALSE
  OBVIOUS
<1> DEFINE Later == {j \in i..n : ~ (f[i] <= f[j])}
           k == Min(Later)
<1>1. k \in Later /\ \A j \in Later : k <= j
  <2>1. Later \in SUBSET Nat
    OBVIOUS
  <2>2. m \in Later
    OBVIOUS
  <2> HIDE DEF Later
  <2>3. QED BY <2>1, <2>2, MinOfNats
<1> HIDE DEF k
<1>2. k \in i..n /\ k # i
  BY <1>1
<1>3. k - 1 \in i..n /\ k \in 2..n
  BY <1>2
<1>4. k - 1 \notin Later
  <2> HIDE DEF Later
  <2>1. QED BY <1>1, <1>3
<1>5. f[i] <= f[k - 1] /\ f[k - 1] <= f[k]
  BY <1>3, <1>4
<1>6. f[i] \in Int /\ f[k - 1] \in Int /\ f[k] \in Int
  BY <1>3
<1>7. QED BY <1>1, <1>5, <1>6

(* And numbers that rise at every step rise by a step's one at least.       *)
LEMMA RisesByOne ==
  ASSUME NEW n \in Nat, NEW f \in [1..n -> Int],
         \A i \in 2..n : f[i - 1] < f[i]
  PROVE  \A i, j \in 1..n : i <= j => f[i] + (j - i) <= f[j]
<1> DEFINE g == [i \in 1..n |-> f[i] - i]
<1>1. g \in [1..n -> Int] /\ \A i \in 1..n : g[i] = f[i] - i
  OBVIOUS
<1>2. \A i \in 2..n : g[i - 1] <= g[i]
  <2> TAKE i \in 2..n
  <2>1. i \in 1..n /\ i - 1 \in 1..n /\ f[i - 1] < f[i]
    OBVIOUS
  <2>2. f[i] \in Int /\ f[i - 1] \in Int
    BY <2>1
  <2> HIDE DEF g
  <2>3. g[i] = f[i] - i /\ g[i - 1] = f[i - 1] - (i - 1)
    BY <1>1, <2>1
  <2>4. QED BY <2>1, <2>2, <2>3
<1> HIDE DEF g
<1>3. \A i, j \in 1..n : i <= j => g[i] <= g[j]
  BY <1>1, <1>2, NeverDrops
<1>4. SUFFICES ASSUME NEW i \in 1..n, NEW j \in 1..n, i <= j
               PROVE  f[i] + (j - i) <= f[j]
  OBVIOUS
<1>5. f[i] \in Int /\ f[j] \in Int
  OBVIOUS
<1>6. g[i] = f[i] - i /\ g[j] = f[j] - j /\ g[i] <= g[j]
  BY <1>1, <1>3, <1>4
<1>7. QED BY <1>5, <1>6

-----------------------------------------------------------------------------
(* The floor.                                                               *)

IsFloor(floor) ==
  /\ floor \in Seq([temp : Int, pwm : Int])
  /\ Ascends(floor)
  /\ \A i \in DOMAIN floor : floor[i].pwm \in PWMMin..PWMMax

(* The floor's points at temp or above it.                                  *)
Above(floor, temp) == {i \in DOMAIN floor : temp <= floor[i].temp}

LEMMA FloorPoint ==
  ASSUME NEW floor, IsFloor(floor)
  PROVE  /\ Len(floor) \in Nat /\ DOMAIN floor = 1..Len(floor)
         /\ floor # <<>> => Len(floor) >= 1
         /\ \A i \in 1..Len(floor) :
              floor[i].temp \in Int /\ floor[i].pwm \in Nat /\ floor[i].pwm <= PWMMax
<1>1. Len(floor) \in Nat /\ DOMAIN floor = 1..Len(floor) /\ (floor # <<>> => Len(floor) >= 1)
  BY DEF IsFloor
<1>2. ASSUME NEW i \in 1..Len(floor)
      PROVE  floor[i].temp \in Int /\ floor[i].pwm \in Nat /\ floor[i].pwm <= PWMMax
  <2>1. floor[i] \in [temp : Int, pwm : Int]
    <3> DEFINE S == [temp : Int, pwm : Int]
    <3>1. floor \in Seq(S)
      BY DEF IsFloor
    <3> HIDE DEF S
    <3>2. floor[i] \in S
      BY <1>2, <3>1
    <3>3. QED BY <3>2 DEF S
  <2>2. floor[i].pwm \in 0..PWMMax
    <3>1. i \in DOMAIN floor
      BY <1>1
    <3>2. QED BY <3>1 DEF IsFloor, PWMMin
  <2>3. QED BY <2>1, <2>2, Sizes
<1>3. QED BY <1>1, <1>2

LEMMA FloorRises ==
  ASSUME NEW floor, IsFloor(floor)
  PROVE  \A i, j \in 1..Len(floor) :
           i <= j => /\ floor[i].temp <= floor[j].temp
                     /\ floor[i].pwm <= floor[j].pwm
                     /\ i # j => floor[i].temp < floor[j].temp
<1> DEFINE n == Len(floor)
           t == [i \in 1..n |-> floor[i].temp]
           p == [i \in 1..n |-> floor[i].pwm]
<1>1. n \in Nat /\ t \in [1..n -> Int] /\ p \in [1..n -> Int]
  BY FloorPoint
<1>2. \A i \in 2..n : t[i - 1] < t[i] /\ p[i - 1] <= p[i]
  BY <1>1 DEF IsFloor, Ascends
<1>3. \A i \in 1..n : t[i] = floor[i].temp /\ p[i] = floor[i].pwm
  OBVIOUS
<1> HIDE DEF n, t, p
<1>4. \A i, j \in 1..n : i <= j => p[i] <= p[j]
  BY <1>1, <1>2, NeverDrops
<1>5. \A i, j \in 1..n : i <= j => t[i] + (j - i) <= t[j]
  BY <1>1, <1>2, RisesByOne
<1>6. SUFFICES ASSUME NEW i \in 1..n, NEW j \in 1..n, i <= j
               PROVE  t[i] <= t[j] /\ p[i] <= p[j] /\ (i # j => t[i] < t[j])
  BY <1>3 DEF n
<1>7. t[i] \in Int /\ t[j] \in Int /\ i \in Int /\ j \in Int
  BY <1>1
<1>8. t[i] + (j - i) <= t[j]
  BY <1>5, <1>6
<1>9. QED BY <1>4, <1>6, <1>7, <1>8

(* Between two points the floor is between theirs, and it does not fall.    *)
LEMMA Interpolated ==
  ASSUME NEW rise \in Nat, NEW run \in Nat \ {0}, NEW d \in 0..run
  PROVE  (rise * d) \div run \in 0..rise
<1>1. rise * d \in Int /\ 0 <= rise * d /\ rise * d <= rise * run
  OBVIOUS
<1> DEFINE a == rise * d
           q == a \div run
<1>2. a \in Nat /\ a <= rise * run
  BY <1>1
<1> HIDE DEF a
<1>3. q \in Int /\ run * q <= a /\ a < run * q + run
  BY <1>2
<1> HIDE DEF q
<1>4. 0 <= q
  <2> SUFFICES ASSUME q <= -1 PROVE FALSE
    BY <1>3
  <2>1. run * q <= run * (-1)
    BY <1>3
  <2>2. QED BY <1>2, <1>3, <2>1
<1>5. q <= rise
  <2> SUFFICES ASSUME rise + 1 <= q PROVE FALSE
    BY <1>3
  <2>1. run * (rise + 1) <= run * q /\ run * (rise + 1) = rise * run + run
    BY <1>3
  <2>2. rise * run \in Int /\ run * q \in Int
    BY <1>3
  <2>3. QED BY <1>2, <1>3, <2>1, <2>2
<1>6. QED BY <1>3, <1>4, <1>5 DEF q, a

LEMMA InterpolatedRises ==
  ASSUME NEW rise \in Nat, NEW run \in Nat \ {0}, NEW d \in Int, NEW e \in Int, d <= e
  PROVE  (rise * d) \div run <= (rise * e) \div run
<1> DEFINE a == rise * d
           b == rise * e
<1>1. a \in Int /\ b \in Int /\ a <= b
  OBVIOUS
<1> HIDE DEF a, b
<1>2. a \div run <= b \div run
  BY <1>1
<1>3. QED BY <1>2 DEF a, b

(* Where temp falls among the floor's points.                               *)
LEMMA FloorCases ==
  ASSUME NEW floor, IsFloor(floor), NEW temp \in Int
  PROVE  LET n == Len(floor)
             above == Above(floor, temp)
             k == Min(above)
             lo == floor[k - 1]
             hi == floor[k]
         IN /\ floor = <<>> => FloorPWMAt(floor, temp) = 0
            /\ floor # <<>> /\ above = {} => FloorPWMAt(floor, temp) = floor[n].pwm
            /\ floor # <<>> /\ above # {} =>
                 k \in above /\ k \in 1..n /\ \A i \in above : k <= i
            /\ floor # <<>> /\ above # {} /\ k = 1 =>
                 FloorPWMAt(floor, temp) = floor[1].pwm
            /\ floor # <<>> /\ above # {} /\ k # 1 =>
                 /\ k \in 2..n /\ lo.temp < temp /\ temp <= hi.temp
                 /\ FloorPWMAt(floor, temp)
                      = lo.pwm + ((hi.pwm - lo.pwm) * (temp - lo.temp))
                                   \div (hi.temp - lo.temp)
<1> DEFINE n == Len(floor)
           above == Above(floor, temp)
           k == Min(above)
           lo == floor[k - 1]
           hi == floor[k]
<1>1. n \in Nat /\ DOMAIN floor = 1..n /\ above \subseteq 1..n
  BY FloorPoint DEF Above
<1>2. CASE floor = <<>>
  <2>1. FloorPWMAt(floor, temp) = 0
    BY <1>2 DEF FloorPWMAt, PWMMin
  <2>2. QED BY <1>2, <2>1
<1>3. CASE floor # <<>> /\ above = {}
  <2>1. FloorPWMAt(floor, temp) = floor[n].pwm
    BY <1>3 DEF FloorPWMAt, Above
  <2>2. QED BY <1>3, <2>1
<1>4. CASE floor # <<>> /\ above # {}
  <2>1. k \in above /\ \A i \in above : k <= i
    <3>1. above \in SUBSET Nat
      BY <1>1
    <3> HIDE DEF above
    <3>2. QED BY <1>4, <3>1, MinOfNats
  <2>2. k \in 1..n /\ temp <= hi.temp
    BY <1>1, <2>1 DEF Above
  <2>3. CASE k = 1
    <3>1. FloorPWMAt(floor, temp) = floor[1].pwm
      BY <1>4, <2>1, <2>3 DEF FloorPWMAt, Above
    <3>2. QED BY <1>4, <2>1, <2>2, <2>3, <3>1
  <2>4. CASE k # 1
    <3>1. k \in 2..n /\ k - 1 \in 1..n /\ k - 1 \notin above /\ 1 \notin above
      <4> HIDE DEF above
      <4>1. QED BY <1>1, <2>1, <2>2, <2>4
    <3>2. lo.temp < temp
      BY <1>1, <3>1, FloorPoint DEF Above
    <3>3. FloorPWMAt(floor, temp)
            = lo.pwm + ((hi.pwm - lo.pwm) * (temp - lo.temp)) \div (hi.temp - lo.temp)
      BY <1>4, <3>1 DEF FloorPWMAt, Above
    <3>4. QED BY <1>4, <2>1, <2>2, <2>4, <3>1, <3>2, <3>3
  <2>5. QED BY <2>3, <2>4
<1>5. QED BY <1>2, <1>3, <1>4

(* The same, seen from outside: the floor lies between two of its points.   *)
LEMMA FloorBetween ==
  ASSUME NEW floor, IsFloor(floor), floor # <<>>, NEW temp \in Int, Above(floor, temp) # {}
  PROVE  LET k == Min(Above(floor, temp))
         IN /\ k \in 1..Len(floor) /\ FloorPWMAt(floor, temp) \in Int
            /\ FloorPWMAt(floor, temp) <= floor[k].pwm
            /\ k # 1 => floor[k - 1].pwm <= FloorPWMAt(floor, temp)
            /\ k = 1 => FloorPWMAt(floor, temp) = floor[1].pwm
<1> DEFINE k == Min(Above(floor, temp))
           lo == floor[k - 1]
           hi == floor[k]
           rise == hi.pwm - lo.pwm
           run == hi.temp - lo.temp
           d == temp - lo.temp
<1>1. k \in 1..Len(floor) /\ k \in Nat /\ Len(floor) \in Nat
  BY FloorCases, FloorPoint
<1>2. hi.temp \in Int /\ hi.pwm \in Nat
  BY <1>1, FloorPoint
<1>3. CASE k = 1
  BY <1>1, <1>2, <1>3, FloorCases
<1>4. CASE k # 1
  <2>1. k - 1 \in 1..Len(floor) /\ k - 1 <= k
    BY <1>1, <1>4
  <2>2. lo.temp \in Int /\ lo.pwm \in Nat
    BY <2>1, FloorPoint
  <2>3. lo.temp < temp /\ temp <= hi.temp
    BY <1>4, FloorCases
  <2>4. lo.pwm <= hi.pwm
    BY <1>1, <2>1, FloorRises
  <2>5. FloorPWMAt(floor, temp) = lo.pwm + (rise * d) \div run
    BY <1>4, FloorCases
  <2>6. rise \in Nat /\ run \in Nat \ {0} /\ d \in 0..run
    BY <1>2, <2>2, <2>3, <2>4
  <2>7. hi.pwm = lo.pwm + rise
    BY <1>2, <2>2
  <2> HIDE DEF rise, run, d, lo, hi, k
  <2>8. (rise * d) \div run \in 0..rise
    BY <2>6, Interpolated
  <2> DEFINE q == (rise * d) \div run
  <2>9. q \in 0..rise /\ FloorPWMAt(floor, temp) = lo.pwm + q
    BY <2>5, <2>8
  <2> HIDE DEF q
  <2>10. FloorPWMAt(floor, temp) \in Int /\ FloorPWMAt(floor, temp) <= hi.pwm
           /\ lo.pwm <= FloorPWMAt(floor, temp)
    BY <2>2, <2>6, <2>7, <2>9
  <2>11. QED BY <1>1, <1>4, <2>10 DEF k, lo, hi
<1>5. QED BY <1>3, <1>4

(* The floor is a PWM,                                                      *)
LEMMA FloorIsPWM ==
  ASSUME NEW floor, IsFloor(floor), NEW temp \in Int
  PROVE  FloorPWMAt(floor, temp) \in 0..PWMMax
<1> DEFINE v == FloorPWMAt(floor, temp)
           k == Min(Above(floor, temp))
<1>1. CASE floor = <<>>
  BY <1>1, FloorCases, Sizes
<1>2. CASE floor # <<>> /\ Above(floor, temp) = {}
  <2>1. v = floor[Len(floor)].pwm /\ Len(floor) \in 1..Len(floor)
    BY <1>2, FloorCases, FloorPoint
  <2>2. QED BY <2>1, FloorPoint, Sizes
<1>3. CASE floor # <<>> /\ Above(floor, temp) # {}
  <2>1. k \in 1..Len(floor) /\ v \in Int /\ v <= floor[k].pwm
          /\ (k # 1 => floor[k - 1].pwm <= v) /\ (k = 1 => v = floor[1].pwm)
    BY <1>3, FloorBetween
  <2>2. floor[k].pwm \in Nat /\ floor[k].pwm <= PWMMax
    BY <2>1, FloorPoint
  <2>3. k # 1 => floor[k - 1].pwm \in Nat
    BY <2>1, FloorPoint
  <2> HIDE DEF v, k
  <2>4. QED BY <2>1, <2>2, <2>3, Sizes DEF v
<1>4. QED BY <1>1, <1>2, <1>3

(* and it never falls as it gets warmer.                                    *)
THEOREM FloorNeverFalls ==
  ASSUME NEW floor, IsFloor(floor), NEW x \in Int, NEW y \in Int, x <= y
  PROVE  FloorPWMAt(floor, x) <= FloorPWMAt(floor, y)
<1> DEFINE k == Min(Above(floor, x))
           m == Min(Above(floor, y))
           vx == FloorPWMAt(floor, x)
           vy == FloorPWMAt(floor, y)
           n == Len(floor)
<1>1. vx \in Int /\ vy \in Int
  BY FloorIsPWM
<1>2. CASE floor = <<>>
  BY <1>2, FloorCases
<1>3. CASE floor # <<>> /\ Above(floor, x) = {}
  <2>1. Above(floor, y) = {}
    <3> SUFFICES ASSUME NEW i \in Above(floor, y) PROVE FALSE
      OBVIOUS
    <3>1. i \in 1..n /\ y <= floor[i].temp /\ floor[i].temp \in Int
      BY FloorPoint DEF Above
    <3>2. i \in Above(floor, x)
      BY <3>1, FloorPoint DEF Above
    <3>3. QED BY <1>3, <3>2
  <2>2. vx = floor[n].pwm /\ vy = floor[n].pwm
    BY <1>3, <2>1, FloorCases
  <2>3. QED BY <1>1, <2>2
<1>4. CASE floor # <<>> /\ Above(floor, x) # {} /\ Above(floor, y) = {}
  <2>1. k \in 1..n /\ vx <= floor[k].pwm /\ vy = floor[n].pwm
    BY <1>4, FloorBetween, FloorCases
  <2>2. n \in 1..n /\ k <= n
    BY <2>1, FloorPoint
  <2>3. floor[k].pwm <= floor[n].pwm /\ floor[k].pwm \in Int /\ floor[n].pwm \in Int
    BY <2>1, <2>2, FloorRises, FloorPoint
  <2> HIDE DEF vx, vy, k, n
  <2>4. vx <= vy
    BY <1>1, <2>1, <2>3
  <2>5. QED BY <2>4 DEF vx, vy
<1>5. CASE floor # <<>> /\ Above(floor, x) # {} /\ Above(floor, y) # {}
  <2>1. /\ k \in 1..n /\ k \in Above(floor, x) /\ \A i \in Above(floor, x) : k <= i
        /\ m \in 1..n /\ m \in Above(floor, y)
    BY <1>5, FloorCases
  <2>2. m \in Above(floor, x)
    <3>1. y <= floor[m].temp /\ floor[m].temp \in Int
      BY <2>1, FloorPoint DEF Above
    <3>2. QED BY <2>1, <3>1, FloorPoint DEF Above
  <2>3. k <= m
    BY <2>1, <2>2
  <2>4. CASE k # m
    <3>1. m - 1 \in 1..n /\ k <= m - 1 /\ m # 1
      BY <2>1, <2>3, <2>4
    <3>2. vx <= floor[k].pwm /\ floor[m - 1].pwm <= vy
      BY <1>5, <3>1, FloorBetween
    <3>3. floor[k].pwm <= floor[m - 1].pwm /\ floor[k].pwm \in Int /\ floor[m - 1].pwm \in Int
      BY <2>1, <3>1, FloorRises, FloorPoint
    <3> HIDE DEF vx, vy, k, m
    <3>4. vx <= vy
      BY <1>1, <3>2, <3>3
    <3>5. QED BY <3>4 DEF vx, vy
  <2>5. CASE k = m /\ k = 1
    <3>1. vx = floor[1].pwm /\ vy = floor[1].pwm
      BY <1>5, <2>5, FloorBetween
    <3>2. QED BY <1>1, <3>1
  <2>6. CASE k = m /\ k # 1
    <3> DEFINE lo == floor[k - 1]
               hi == floor[k]
               rise == hi.pwm - lo.pwm
               run == hi.temp - lo.temp
               d == x - lo.temp
               e == y - lo.temp
    <3>1. k - 1 \in 1..n /\ k \in 1..n /\ k - 1 <= k /\ k - 1 # k
      BY <2>1, <2>6
    <3>2. lo.temp \in Int /\ lo.pwm \in Nat /\ hi.temp \in Int /\ hi.pwm \in Nat
      BY <3>1, FloorPoint
    <3>3. lo.pwm <= hi.pwm /\ lo.temp < hi.temp
      BY <3>1, FloorRises
    <3>4. vx = lo.pwm + (rise * d) \div run
      BY <1>5, <2>6, FloorCases
    <3>5. vy = lo.pwm + (rise * e) \div run
      BY <1>5, <2>6, FloorCases
    <3>6. rise \in Nat /\ run \in Nat \ {0} /\ d \in Int /\ e \in Int /\ d <= e
      BY <3>2, <3>3
    <3> HIDE DEF rise, run, d, e, lo, hi, k, m
    <3> DEFINE q == (rise * d) \div run
               r == (rise * e) \div run
    <3>7. q \in Int /\ r \in Int /\ q <= r
      BY <3>6, InterpolatedRises
    <3>8. vx = lo.pwm + q /\ vy = lo.pwm + r
      BY <3>4, <3>5
    <3> HIDE DEF q, r, vx, vy
    <3>9. vx <= vy
      BY <3>2, <3>7, <3>8
    <3>10. QED BY <3>9 DEF vx, vy
  <2>7. QED BY <2>4, <2>5, <2>6
<1>6. QED BY <1>2, <1>3, <1>4, <1>5

-----------------------------------------------------------------------------
(* The cascades.                                                            *)

Numbers == [Indices -> Int]
Rises(t) == \A i \in 2..CurvePoints : t[i - 1] < t[i]
Ascending(p) == \A i \in 2..CurvePoints : p[i - 1] <= p[i]

LEMMA Index ==
  /\ CurvePoints \in Nat /\ CurvePoints >= 1
  /\ Indices = 1..CurvePoints /\ 1 \in Indices /\ CurvePoints \in Indices
  /\ Indices \subseteq Nat
BY Sizes DEF Indices

(* Maximum and minimum of a part of a curve.                                *)
LEMMA Part ==
  ASSUME NEW f \in Numbers, NEW a \in Indices, NEW b \in Indices, a <= b
  PROVE  LET S == {f[j] : j \in a..b}
         IN /\ Max(S) \in Int /\ \E j \in a..b : Max(S) = f[j]
            /\ \A j \in a..b : f[j] <= Max(S)
            /\ Min(S) \in Int /\ \E j \in a..b : Min(S) = f[j]
            /\ \A j \in a..b : Min(S) <= f[j]
<1> DEFINE S == {f[j] : j \in a..b}
<1>1. f \in [1..CurvePoints -> Int] /\ CurvePoints \in Nat
  BY Index DEF Numbers
<1>2. a..b \subseteq 1..CurvePoints /\ a \in a..b
  BY Index
<1>3. S \subseteq {f[j] : j \in 1..CurvePoints} /\ S # {}
  BY <1>2
<1>4. \A j \in a..b : f[j] \in S /\ f[j] \in Int
  BY <1>1, <1>2
<1>5. \A y \in S : \E j \in a..b : y = f[j]
  OBVIOUS
<1> HIDE DEF S
<1>6. /\ Max(S) \in S /\ \A y \in S : y <= Max(S)
      /\ Min(S) \in S /\ \A y \in S : Min(S) <= y
  BY <1>1, <1>3, Extremes
<1>7. (\E j \in a..b : Max(S) = f[j]) /\ (\E j \in a..b : Min(S) = f[j])
  BY <1>5, <1>6
<1>8. Max(S) \in Int /\ Min(S) \in Int
  BY <1>4, <1>7
<1>9. QED BY <1>4, <1>6, <1>7, <1>8 DEF S

LEMMA Warmer ==
  ASSUME NEW t \in Numbers, NEW idx \in Indices
  PROVE  LET w == WarmerAbove(t, idx)
         IN /\ w \in Numbers
            /\ \A i \in 1..idx : w[i] = t[i]
            /\ \A i \in idx..CurvePoints :
                 /\ \A j \in idx..i : t[j] + (i - j) <= w[i]
                 /\ \E j \in idx..i : w[i] = t[j] + (i - j)
<1> DEFINE w == WarmerAbove(t, idx)
<1>1. \A i \in Indices : t[i] \in Int
  BY DEF Numbers
<1>2. \A i \in 1..idx : i \in Indices /\ i <= idx /\ w[i] = t[i]
  BY Index DEF WarmerAbove
<1>3. ASSUME NEW i \in idx..CurvePoints
      PROVE  /\ w[i] \in Int
             /\ \A j \in idx..i : t[j] + (i - j) <= w[i]
             /\ \E j \in idx..i : w[i] = t[j] + (i - j)
  <2> DEFINE f == [j \in Indices |-> t[j] + (i - j)]
  <2>1. i \in Indices /\ idx <= i /\ idx..i \subseteq Indices
    BY Index
  <2>2. CASE i = idx
    <3>1. w[i] = t[i] /\ t[i] \in Int /\ i \in Int
      BY <1>1, <2>1, <2>2, Index DEF WarmerAbove
    <3>2. \A j \in idx..i : j = i
      BY <2>2, <3>1
    <3>3. t[i] + (i - i) = t[i] /\ i \in idx..i
      BY <2>2, <3>1
    <3>4. QED BY <3>1, <3>2, <3>3
  <2>3. CASE i # idx
    <3>1. ~ (i <= idx)
      BY <2>1, <2>3, Index
    <3>2. w[i] = Max({t[j] + (i - j) : j \in idx..i})
      BY <2>1, <3>1 DEF WarmerAbove
    <3>3. {t[j] + (i - j) : j \in idx..i} = {f[j] : j \in idx..i}
      BY <2>1
    <3>4. f \in Numbers /\ \A j \in Indices : f[j] = t[j] + (i - j)
      BY <1>1, <2>1, Index DEF Numbers
    <3> DEFINE m == Max({f[j] : j \in idx..i})
    <3>5. w[i] = m
      BY <3>2, <3>3
    <3> HIDE DEF f, w
    <3>6. m \in Int /\ (\A j \in idx..i : f[j] <= m) /\ \E j \in idx..i : m = f[j]
      BY <2>1, <3>4, Part
    <3> HIDE DEF m
    <3>7. \A j \in idx..i : f[j] = t[j] + (i - j)
      BY <2>1, <3>4
    <3>8. QED BY <3>5, <3>6, <3>7
  <2>4. QED BY <2>2, <2>3
<1>4. w \in Numbers
  <2>1. \A i \in Indices : w[i] \in Int
    <3> TAKE i \in Indices
    <3>1. CASE i <= idx
      <4>1. i \in 1..idx
        BY <3>1, Index
      <4>2. QED BY <1>1, <1>2, <4>1
    <3>2. CASE ~ (i <= idx)
      <4>1. i \in idx..CurvePoints
        BY <3>2, Index
      <4>2. QED BY <1>3, <4>1
    <3>3. QED BY <3>1, <3>2
  <2>2. w = [i \in Indices |-> w[i]]
    BY DEF WarmerAbove
  <2> HIDE DEF w
  <2>3. QED BY <2>1, <2>2 DEF Numbers
<1>5. QED BY <1>2, <1>3, <1>4

(* Downwards it is the same with the signs and the order reversed.          *)
LEMMA Cooler ==
  ASSUME NEW t \in Numbers, NEW idx \in Indices
  PROVE  LET w == CoolerBelow(t, idx)
         IN /\ w \in Numbers
            /\ \A i \in idx..CurvePoints : w[i] = t[i]
            /\ \A i \in 1..idx :
                 /\ \A j \in i..idx : w[i] <= t[j] - (j - i)
                 /\ \E j \in i..idx : w[i] = t[j] - (j - i)
<1> DEFINE w == CoolerBelow(t, idx)
<1>1. \A i \in Indices : t[i] \in Int
  BY DEF Numbers
<1>2. \A i \in idx..CurvePoints : i \in Indices /\ i >= idx /\ w[i] = t[i]
  BY Index DEF CoolerBelow
<1>3. ASSUME NEW i \in 1..idx
      PROVE  /\ w[i] \in Int
             /\ \A j \in i..idx : w[i] <= t[j] - (j - i)
             /\ \E j \in i..idx : w[i] = t[j] - (j - i)
  <2> DEFINE f == [j \in Indices |-> t[j] - (j - i)]
  <2>1. i \in Indices /\ i <= idx /\ i..idx \subseteq Indices
    BY Index
  <2>2. CASE i = idx
    <3>1. w[i] = t[i] /\ t[i] \in Int /\ i \in Int
      BY <1>1, <2>1, <2>2, Index DEF CoolerBelow
    <3>2. \A j \in i..idx : j = i
      BY <2>2, <3>1
    <3>3. t[i] - (i - i) = t[i] /\ i \in i..idx
      BY <2>2, <3>1
    <3>4. QED BY <3>1, <3>2, <3>3
  <2>3. CASE i # idx
    <3>1. ~ (i >= idx)
      BY <2>1, <2>3, Index
    <3>2. w[i] = Min({t[j] - (j - i) : j \in i..idx})
      BY <2>1, <3>1 DEF CoolerBelow
    <3>3. {t[j] - (j - i) : j \in i..idx} = {f[j] : j \in i..idx}
      BY <2>1
    <3>4. f \in Numbers /\ \A j \in Indices : f[j] = t[j] - (j - i)
      BY <1>1, <2>1, Index DEF Numbers
    <3> DEFINE m == Min({f[j] : j \in i..idx})
    <3>5. w[i] = m
      BY <3>2, <3>3
    <3> HIDE DEF f, w
    <3>6. m \in Int /\ (\A j \in i..idx : m <= f[j]) /\ \E j \in i..idx : m = f[j]
      BY <2>1, <3>4, Part
    <3> HIDE DEF m
    <3>7. \A j \in i..idx : f[j] = t[j] - (j - i)
      BY <2>1, <3>4
    <3>8. QED BY <3>5, <3>6, <3>7
  <2>4. QED BY <2>2, <2>3
<1>4. w \in Numbers
  <2>1. \A i \in Indices : w[i] \in Int
    <3> TAKE i \in Indices
    <3>1. CASE i >= idx
      <4>1. i \in idx..CurvePoints
        BY <3>1, Index
      <4>2. QED BY <1>1, <1>2, <4>1
    <3>2. CASE ~ (i >= idx)
      <4>1. i \in 1..idx
        BY <3>2, Index
      <4>2. QED BY <1>3, <4>1
    <3>3. QED BY <3>1, <3>2
  <2>2. w = [i \in Indices |-> w[i]]
    BY DEF CoolerBelow
  <2> HIDE DEF w
  <2>3. QED BY <2>1, <2>2 DEF Numbers
<1>5. QED BY <1>2, <1>3, <1>4

(* The PWMs follow without a step.                                          *)
LEMMA Faster ==
  ASSUME NEW p \in Numbers, NEW idx \in Indices
  PROVE  LET w == FasterAbove(p, idx)
         IN /\ w \in Numbers
            /\ \A i \in 1..idx : w[i] = p[i]
            /\ \A i \in idx..CurvePoints :
                 /\ \A j \in idx..i : p[j] <= w[i]
                 /\ \E j \in idx..i : w[i] = p[j]
<1> DEFINE w == FasterAbove(p, idx)
<1>1. \A i \in Indices : p[i] \in Int
  BY DEF Numbers
<1>2. \A i \in 1..idx : i \in Indices /\ i <= idx /\ w[i] = p[i]
  BY Index DEF FasterAbove
<1>3. ASSUME NEW i \in idx..CurvePoints
      PROVE  /\ w[i] \in Int
             /\ \A j \in idx..i : p[j] <= w[i]
             /\ \E j \in idx..i : w[i] = p[j]
  <2> DEFINE f == [j \in Indices |-> p[j]]
  <2>1. i \in Indices /\ idx <= i /\ idx..i \subseteq Indices
    BY Index
  <2>2. CASE i = idx
    <3>1. w[i] = p[i] /\ p[i] \in Int /\ i \in Int
      BY <1>1, <2>1, <2>2, Index DEF FasterAbove
    <3>2. \A j \in idx..i : j = i
      BY <2>2, <3>1
    <3>3. i \in idx..i
      BY <2>2, <3>1
    <3>4. QED BY <3>1, <3>2, <3>3
  <2>3. CASE i # idx
    <3>1. ~ (i <= idx)
      BY <2>1, <2>3, Index
    <3>2. w[i] = Max({p[j] : j \in idx..i})
      BY <2>1, <3>1 DEF FasterAbove
    <3>3. {p[j] : j \in idx..i} = {f[j] : j \in idx..i}
      BY <2>1
    <3>4. f \in Numbers /\ \A j \in Indices : f[j] = p[j]
      BY <1>1, <2>1, Index DEF Numbers
    <3> DEFINE m == Max({f[j] : j \in idx..i})
    <3>5. w[i] = m
      BY <3>2, <3>3
    <3> HIDE DEF f, w
    <3>6. m \in Int /\ (\A j \in idx..i : f[j] <= m) /\ \E j \in idx..i : m = f[j]
      BY <2>1, <3>4, Part
    <3> HIDE DEF m
    <3>7. \A j \in idx..i : f[j] = p[j]
      BY <2>1, <3>4
    <3>8. QED BY <3>5, <3>6, <3>7
  <2>4. QED BY <2>2, <2>3
<1>4. w \in Numbers
  <2>1. \A i \in Indices : w[i] \in Int
    <3> TAKE i \in Indices
    <3>1. CASE i <= idx
      <4>1. i \in 1..idx
        BY <3>1, Index
      <4>2. QED BY <1>1, <1>2, <4>1
    <3>2. CASE ~ (i <= idx)
      <4>1. i \in idx..CurvePoints
        BY <3>2, Index
      <4>2. QED BY <1>3, <4>1
    <3>3. QED BY <3>1, <3>2
  <2>2. w = [i \in Indices |-> w[i]]
    BY DEF FasterAbove
  <2> HIDE DEF w
  <2>3. QED BY <2>1, <2>2 DEF Numbers
<1>5. QED BY <1>2, <1>3, <1>4

LEMMA Slower ==
  ASSUME NEW p \in Numbers, NEW idx \in Indices
  PROVE  LET w == SlowerBelow(p, idx)
         IN /\ w \in Numbers
            /\ \A i \in idx..CurvePoints : w[i] = p[i]
            /\ \A i \in 1..idx :
                 /\ \A j \in i..idx : w[i] <= p[j]
                 /\ \E j \in i..idx : w[i] = p[j]
<1> DEFINE w == SlowerBelow(p, idx)
<1>1. \A i \in Indices : p[i] \in Int
  BY DEF Numbers
<1>2. \A i \in idx..CurvePoints : i \in Indices /\ i >= idx /\ w[i] = p[i]
  BY Index DEF SlowerBelow
<1>3. ASSUME NEW i \in 1..idx
      PROVE  /\ w[i] \in Int
             /\ \A j \in i..idx : w[i] <= p[j]
             /\ \E j \in i..idx : w[i] = p[j]
  <2> DEFINE f == [j \in Indices |-> p[j]]
  <2>1. i \in Indices /\ i <= idx /\ i..idx \subseteq Indices
    BY Index
  <2>2. CASE i = idx
    <3>1. w[i] = p[i] /\ p[i] \in Int /\ i \in Int
      BY <1>1, <2>1, <2>2, Index DEF SlowerBelow
    <3>2. \A j \in i..idx : j = i
      BY <2>2, <3>1
    <3>3. i \in i..idx
      BY <2>2, <3>1
    <3>4. QED BY <3>1, <3>2, <3>3
  <2>3. CASE i # idx
    <3>1. ~ (i >= idx)
      BY <2>1, <2>3, Index
    <3>2. w[i] = Min({p[j] : j \in i..idx})
      BY <2>1, <3>1 DEF SlowerBelow
    <3>3. {p[j] : j \in i..idx} = {f[j] : j \in i..idx}
      BY <2>1
    <3>4. f \in Numbers /\ \A j \in Indices : f[j] = p[j]
      BY <1>1, <2>1, Index DEF Numbers
    <3> DEFINE m == Min({f[j] : j \in i..idx})
    <3>5. w[i] = m
      BY <3>2, <3>3
    <3> HIDE DEF f, w
    <3>6. m \in Int /\ (\A j \in i..idx : m <= f[j]) /\ \E j \in i..idx : m = f[j]
      BY <2>1, <3>4, Part
    <3> HIDE DEF m
    <3>7. \A j \in i..idx : f[j] = p[j]
      BY <2>1, <3>4
    <3>8. QED BY <3>5, <3>6, <3>7
  <2>4. QED BY <2>2, <2>3
<1>4. w \in Numbers
  <2>1. \A i \in Indices : w[i] \in Int
    <3> TAKE i \in Indices
    <3>1. CASE i >= idx
      <4>1. i \in idx..CurvePoints
        BY <3>1, Index
      <4>2. QED BY <1>1, <1>2, <4>1
    <3>2. CASE ~ (i >= idx)
      <4>1. i \in 1..idx
        BY <3>2, Index
      <4>2. QED BY <1>3, <4>1
    <3>3. QED BY <3>1, <3>2
  <2>2. w = [i \in Indices |-> w[i]]
    BY DEF SlowerBelow
  <2> HIDE DEF w
  <2>3. QED BY <2>1, <2>2 DEF Numbers
<1>5. QED BY <1>2, <1>3, <1>4

(* What a cascade leaves behind rises, and a point that has nothing in its  *)
(* way stays.                                                               *)
LEMMA WarmerRises ==
  ASSUME NEW t \in Numbers, NEW idx \in Indices
  PROVE  \A i \in (idx + 1)..CurvePoints : WarmerAbove(t, idx)[i - 1] < WarmerAbove(t, idx)[i]
<1> DEFINE w == WarmerAbove(t, idx)
<1> SUFFICES ASSUME NEW i \in (idx + 1)..CurvePoints PROVE w[i - 1] < w[i]
  OBVIOUS
<1>1. i \in Nat /\ i \in idx..CurvePoints /\ i - 1 \in idx..CurvePoints
        /\ i \in Indices /\ i - 1 \in Indices
  BY Index
<1>2. PICK j \in idx..(i - 1) : w[i - 1] = t[j] + ((i - 1) - j)
  BY <1>1, Warmer
<1>3. j \in Nat /\ j \in idx..i /\ j \in Indices
  BY <1>1, Index
<1>4. t[j] + (i - j) <= w[i]
  BY <1>1, <1>3, Warmer
<1>5. w[i] \in Int /\ w[i - 1] \in Int /\ t[j] \in Int
  BY <1>1, <1>3, Warmer DEF Numbers
<1> HIDE DEF w
<1>6. QED BY <1>1, <1>2, <1>3, <1>4, <1>5

LEMMA CoolerRises ==
  ASSUME NEW t \in Numbers, NEW idx \in Indices
  PROVE  \A i \in 2..idx : CoolerBelow(t, idx)[i - 1] < CoolerBelow(t, idx)[i]
<1> DEFINE w == CoolerBelow(t, idx)
<1> SUFFICES ASSUME NEW i \in 2..idx PROVE w[i - 1] < w[i]
  OBVIOUS
<1>1. i \in Nat /\ i \in 1..idx /\ i - 1 \in 1..idx /\ i \in Indices /\ i - 1 \in Indices
  BY Index
<1>2. PICK j \in i..idx : w[i] = t[j] - (j - i)
  BY <1>1, Cooler
<1>3. j \in Nat /\ j \in (i - 1)..idx /\ j \in Indices
  BY <1>1, Index
<1>4. w[i - 1] <= t[j] - (j - (i - 1))
  BY <1>1, <1>3, Cooler
<1>5. w[i] \in Int /\ w[i - 1] \in Int /\ t[j] \in Int
  BY <1>1, <1>3, Cooler DEF Numbers
<1> HIDE DEF w
<1>6. QED BY <1>1, <1>2, <1>3, <1>4, <1>5

LEMMA FasterRises ==
  ASSUME NEW p \in Numbers, NEW idx \in Indices
  PROVE  \A i \in (idx + 1)..CurvePoints : FasterAbove(p, idx)[i - 1] <= FasterAbove(p, idx)[i]
<1> DEFINE w == FasterAbove(p, idx)
<1> SUFFICES ASSUME NEW i \in (idx + 1)..CurvePoints PROVE w[i - 1] <= w[i]
  OBVIOUS
<1>1. i \in idx..CurvePoints /\ i - 1 \in idx..CurvePoints
  BY Index
<1>2. PICK j \in idx..(i - 1) : w[i - 1] = p[j]
  BY <1>1, Faster
<1>3. j \in idx..i
  BY <1>1, Index
<1>4. p[j] <= w[i]
  BY <1>1, <1>3, Faster
<1> HIDE DEF w
<1>5. QED BY <1>2, <1>4

LEMMA SlowerRises ==
  ASSUME NEW p \in Numbers, NEW idx \in Indices
  PROVE  \A i \in 2..idx : SlowerBelow(p, idx)[i - 1] <= SlowerBelow(p, idx)[i]
<1> DEFINE w == SlowerBelow(p, idx)
<1> SUFFICES ASSUME NEW i \in 2..idx PROVE w[i - 1] <= w[i]
  OBVIOUS
<1>1. i \in 1..idx /\ i - 1 \in 1..idx
  BY Index
<1>2. PICK j \in i..idx : w[i] = p[j]
  BY <1>1, Slower
<1>3. j \in (i - 1)..idx
  BY <1>1, Index
<1>4. w[i - 1] <= p[j]
  BY <1>1, <1>3, Slower
<1> HIDE DEF w
<1>5. QED BY <1>2, <1>4

(* Away from point idx in both directions, the whole curve rises, and idx   *)
(* stays.                                                                   *)
LEMMA TempCascade ==
  ASSUME NEW t \in Numbers, NEW idx \in Indices
  PROVE  LET x == CoolerBelow(WarmerAbove(t, idx), idx)
         IN x \in Numbers /\ Rises(x) /\ x[idx] = t[idx]
<1> DEFINE w == WarmerAbove(t, idx)
           x == CoolerBelow(w, idx)
<1>1. /\ w \in Numbers /\ w[idx] = t[idx]
      /\ \A i \in (idx + 1)..CurvePoints : w[i - 1] < w[i]
  <2>1. idx \in 1..idx
    BY Index
  <2>2. QED BY <2>1, Warmer, WarmerRises
<1> HIDE DEF w
<1>2. /\ x \in Numbers /\ \A i \in idx..CurvePoints : x[i] = w[i]
      /\ \A i \in 2..idx : x[i - 1] < x[i]
  BY <1>1, Cooler, CoolerRises
<1> HIDE DEF x
<1>3. idx \in idx..CurvePoints
  BY Index
<1>4. ASSUME NEW i \in 2..CurvePoints PROVE x[i - 1] < x[i]
  <2>1. CASE i <= idx
    <3>1. i \in 2..idx
      BY <2>1, Index
    <3>2. QED BY <1>2, <3>1
  <2>2. CASE ~ (i <= idx)
    <3>1. i \in (idx + 1)..CurvePoints /\ i \in idx..CurvePoints /\ i - 1 \in idx..CurvePoints
      BY <2>2, Index
    <3>2. w[i - 1] < w[i] /\ x[i] = w[i] /\ x[i - 1] = w[i - 1]
      BY <1>1, <1>2, <3>1
    <3>3. QED BY <3>2
  <2>3. QED BY <2>1, <2>2
<1>5. QED BY <1>1, <1>2, <1>3, <1>4 DEF x, w, Rises

LEMMA PWMCascade ==
  ASSUME NEW p \in Numbers, NEW idx \in Indices
  PROVE  LET x == SlowerBelow(FasterAbove(p, idx), idx)
         IN x \in Numbers /\ Ascending(x) /\ x[idx] = p[idx]
<1> DEFINE w == FasterAbove(p, idx)
           x == SlowerBelow(w, idx)
<1>1. /\ w \in Numbers /\ w[idx] = p[idx]
      /\ \A i \in (idx + 1)..CurvePoints : w[i - 1] <= w[i]
  <2>1. idx \in 1..idx
    BY Index
  <2>2. QED BY <2>1, Faster, FasterRises
<1> HIDE DEF w
<1>2. /\ x \in Numbers /\ \A i \in idx..CurvePoints : x[i] = w[i]
      /\ \A i \in 2..idx : x[i - 1] <= x[i]
  BY <1>1, Slower, SlowerRises
<1> HIDE DEF x
<1>3. idx \in idx..CurvePoints
  BY Index
<1>4. ASSUME NEW i \in 2..CurvePoints PROVE x[i - 1] <= x[i]
  <2>1. CASE i <= idx
    <3>1. i \in 2..idx
      BY <2>1, Index
    <3>2. QED BY <1>2, <3>1
  <2>2. CASE ~ (i <= idx)
    <3>1. i \in (idx + 1)..CurvePoints /\ i \in idx..CurvePoints /\ i - 1 \in idx..CurvePoints
      BY <2>2, Index
    <3>2. w[i - 1] <= w[i] /\ x[i] = w[i] /\ x[i - 1] = w[i - 1]
      BY <1>1, <1>2, <3>1
    <3>3. QED BY <3>2
  <2>3. QED BY <2>1, <2>2
<1>5. QED BY <1>1, <1>2, <1>3, <1>4 DEF x, w, Ascending

(* A curve that rises is left alone.                                        *)
LEMMA SameNumbers ==
  ASSUME NEW f \in Numbers, NEW g \in Numbers, \A i \in Indices : f[i] = g[i]
  PROVE  f = g
BY DEF Numbers

LEMMA Spans ==
  ASSUME NEW t \in Numbers, Rises(t)
  PROVE  \A i, j \in Indices : i <= j => t[i] + (j - i) <= t[j]
<1>1. CurvePoints \in Nat /\ t \in [1..CurvePoints -> Int]
      /\ \A i \in 2..CurvePoints : t[i - 1] < t[i]
  BY Index DEF Numbers, Rises
<1>2. \A i, j \in 1..CurvePoints : i <= j => t[i] + (j - i) <= t[j]
  BY <1>1, RisesByOne
<1>3. QED BY <1>2, Index

LEMMA NeverFalls ==
  ASSUME NEW p \in Numbers, Ascending(p)
  PROVE  \A i, j \in Indices : i <= j => p[i] <= p[j]
<1>1. CurvePoints \in Nat /\ p \in [1..CurvePoints -> Int]
      /\ \A i \in 2..CurvePoints : p[i - 1] <= p[i]
  BY Index DEF Numbers, Ascending
<1>2. \A i, j \in 1..CurvePoints : i <= j => p[i] <= p[j]
  BY <1>1, NeverDrops
<1>3. QED BY <1>2, Index

LEMMA TempCascadeStays ==
  ASSUME NEW t \in Numbers, Rises(t), NEW idx \in Indices
  PROVE  WarmerAbove(t, idx) = t /\ CoolerBelow(t, idx) = t
<1> DEFINE w == WarmerAbove(t, idx)
           c == CoolerBelow(t, idx)
<1>1. w \in Numbers /\ c \in Numbers
  BY Warmer, Cooler
<1>2. ASSUME NEW i \in Indices PROVE w[i] = t[i] /\ c[i] = t[i]
  <2>1. i \in Nat /\ idx \in Nat /\ t[i] \in Int /\ w[i] \in Int /\ c[i] \in Int
    BY <1>1, Index DEF Numbers
  <2>2. CASE i \in 1..idx
    <3>1. w[i] = t[i]
      BY <2>2, Warmer
    <3>2. PICK j \in i..idx : c[i] = t[j] - (j - i)
      BY <2>2, Cooler
    <3>3. c[i] <= t[i] - (i - i)
      <4>1. i \in i..idx
        BY <2>1, <2>2
      <4>2. QED BY <2>2, <4>1, Cooler
    <3>4. j \in Indices /\ i <= j /\ t[j] \in Int
      BY Index DEF Numbers
    <3>5. t[i] + (j - i) <= t[j]
      BY <3>4, Spans
    <3> HIDE DEF w, c
    <3>6. j \in Nat
      BY <3>4, Index
    <3>7. QED BY <2>1, <3>1, <3>2, <3>3, <3>4, <3>5, <3>6
  <2>3. CASE i \in idx..CurvePoints
    <3>1. c[i] = t[i]
      BY <2>3, Cooler
    <3>2. PICK j \in idx..i : w[i] = t[j] + (i - j)
      BY <2>3, Warmer
    <3>3. t[i] + (i - i) <= w[i]
      <4>1. i \in idx..i
        BY <2>1, <2>3
      <4>2. QED BY <2>3, <4>1, Warmer
    <3>4. j \in Indices /\ j <= i /\ t[j] \in Int
      BY Index DEF Numbers
    <3>5. t[j] + (i - j) <= t[i]
      BY <3>4, Spans
    <3> HIDE DEF w, c
    <3>6. j \in Nat
      BY <3>4, Index
    <3>7. QED BY <2>1, <3>1, <3>2, <3>3, <3>4, <3>5, <3>6
  <2>4. i \in 1..idx \/ i \in idx..CurvePoints
    BY Index
  <2>5. QED BY <2>2, <2>3, <2>4
<1> HIDE DEF w, c
<1>3. w = t /\ c = t
  BY <1>1, <1>2, SameNumbers
<1>4. QED BY <1>3 DEF w, c

LEMMA PWMCascadeStays ==
  ASSUME NEW p \in Numbers, Ascending(p), NEW idx \in Indices
  PROVE  FasterAbove(p, idx) = p /\ SlowerBelow(p, idx) = p
<1> DEFINE w == FasterAbove(p, idx)
           c == SlowerBelow(p, idx)
<1>1. w \in Numbers /\ c \in Numbers
  BY Faster, Slower
<1>2. ASSUME NEW i \in Indices PROVE w[i] = p[i] /\ c[i] = p[i]
  <2>1. i \in Nat /\ idx \in Nat /\ p[i] \in Int /\ w[i] \in Int /\ c[i] \in Int
    BY <1>1, Index DEF Numbers
  <2>2. CASE i \in 1..idx
    <3>1. w[i] = p[i]
      BY <2>2, Faster
    <3>2. PICK j \in i..idx : c[i] = p[j]
      BY <2>2, Slower
    <3>3. c[i] <= p[i]
      BY <2>2, <2>1, Slower
    <3>4. j \in Indices /\ i <= j /\ p[j] \in Int
      BY Index DEF Numbers
    <3>5. p[i] <= p[j]
      BY <3>4, NeverFalls
    <3> HIDE DEF w, c
    <3>6. QED BY <2>1, <3>1, <3>2, <3>3, <3>4, <3>5
  <2>3. CASE i \in idx..CurvePoints
    <3>1. c[i] = p[i]
      BY <2>3, Slower
    <3>2. PICK j \in idx..i : w[i] = p[j]
      BY <2>3, Faster
    <3>3. p[i] <= w[i]
      BY <2>3, <2>1, Faster
    <3>4. j \in Indices /\ j <= i /\ p[j] \in Int
      BY Index DEF Numbers
    <3>5. p[j] <= p[i]
      BY <3>4, NeverFalls
    <3> HIDE DEF w, c
    <3>6. QED BY <2>1, <3>1, <3>2, <3>3, <3>4, <3>5
  <2>4. i \in 1..idx \/ i \in idx..CurvePoints
    BY Index
  <2>5. QED BY <2>2, <2>3, <2>4
<1> HIDE DEF w, c
<1>3. w = p /\ c = p
  BY <1>1, <1>2, SameNumbers
<1>4. QED BY <1>3 DEF w, c

-----------------------------------------------------------------------------
(* EnforceCurve.                                                            *)

(* An axis has a degree for every point.                                    *)
IsAxis(l) ==
  l.tempMin \in Int /\ l.tempMax \in Int /\ l.tempMax - l.tempMin >= CurvePoints - 1

LEMMA MovedIs ==
  ASSUME NEW l, IsAxis(l), NEW temp \in Int, NEW idx \in Indices
  PROVE  LET lo == l.tempMin + idx - 1
             hi == l.tempMax - (CurvePoints - idx)
         IN /\ lo \in Int /\ hi \in Int /\ lo <= hi
            /\ MovedTemp(l, temp, idx) = IF temp < lo THEN lo ELSE IF temp > hi THEN hi ELSE temp
            /\ MovedTemp(l, temp, idx) \in lo..hi
            /\ l.tempMin <= lo /\ hi <= l.tempMax
<1> DEFINE lo == l.tempMin + idx - 1
           hi == l.tempMax - (CurvePoints - idx)
<1>1. lo \in Int /\ hi \in Int /\ lo <= hi /\ l.tempMin <= lo /\ hi <= l.tempMax
  BY Index DEF IsAxis
<1>2. MovedTemp(l, temp, idx) = Within(temp, lo, hi)
  BY DEF MovedTemp
<1> HIDE DEF lo, hi
<1>3. MovedTemp(l, temp, idx) = IF temp < lo THEN lo ELSE IF temp > hi THEN hi ELSE temp
  BY <1>1, <1>2, WithinIs
<1>4. MovedTemp(l, temp, idx) \in lo..hi
  BY <1>1, <1>3
<1>5. QED BY <1>1, <1>3, <1>4 DEF lo, hi

(* The last pass brings any temperatures on the axis to an order.           *)
LEMMA RespreadRises ==
  ASSUME NEW l, IsAxis(l), NEW t \in Numbers,
         \A i \in Indices : t[i] \in l.tempMin..l.tempMax
  PROVE  /\ Respread(l, t) \in Numbers /\ Rises(Respread(l, t))
         /\ \A i \in Indices : Respread(l, t)[i] \in l.tempMin..l.tempMax
<1> DEFINE N == CurvePoints
           up == WarmerAbove(t, 1)
           last == Min({up[N], l.tempMax})
           x == [up EXCEPT ![N] = last]
           s == CoolerBelow(x, N)
<1>1. l.tempMin \in Int /\ l.tempMax \in Int /\ l.tempMax - l.tempMin >= N - 1
      /\ N \in Nat /\ N >= 1 /\ Indices = 1..N
  BY Index DEF IsAxis
<1>2. s = Respread(l, t)
  BY DEF Respread
<1>3. up \in Numbers /\ \A i \in Indices : t[1] + (i - 1) <= up[i]
  <2>1. 1 \in Indices /\ \A i \in Indices : i \in 1..N /\ 1 \in 1..i
    BY Index
  <2>2. QED BY <2>1, Warmer
<1> HIDE DEF up
<1>4. t[1] \in Int /\ l.tempMin <= t[1] /\ N \in Indices /\ up[N] \in Int
  BY <1>1, <1>3, Index DEF Numbers
<1>5. last = IF up[N] <= l.tempMax THEN up[N] ELSE l.tempMax
  BY <1>1, <1>4, MinOfTwo
<1> HIDE DEF last
<1>6. last \in Int /\ last <= l.tempMax /\ l.tempMin + (N - 1) <= last
  <2>1. t[1] + (N - 1) <= up[N]
    BY <1>3, <1>4
  <2>2. QED BY <1>1, <1>4, <1>5, <2>1
<1>7. x \in Numbers /\ x[N] = last /\ \A i \in Indices : i # N => x[i] = up[i]
  BY <1>3, <1>4, <1>6 DEF Numbers
<1> HIDE DEF x
<1>8. \A i \in Indices : l.tempMin + (i - 1) <= x[i]
  <2> SUFFICES ASSUME NEW i \in Indices, i # N PROVE l.tempMin + (i - 1) <= x[i]
    BY <1>6, <1>7
  <2>1. i \in Int /\ up[i] \in Int
    BY <1>3, Index DEF Numbers
  <2>2. t[1] + (i - 1) <= up[i] /\ x[i] = up[i]
    BY <1>3, <1>7
  <2>3. QED BY <1>1, <1>4, <2>1, <2>2
<1>9. s \in Numbers /\ Rises(s)
  BY <1>4, <1>7, Cooler, CoolerRises DEF Rises
<1>10. ASSUME NEW i \in Indices PROVE s[i] \in l.tempMin..l.tempMax
  <2>1. i \in 1..N /\ i \in Int /\ i >= 1 /\ i <= N /\ N \in i..N
    BY <1>1
  <2>2. s[i] <= x[N] - (N - i)
    BY <1>4, <1>7, <2>1, Cooler
  <2>3. PICK j \in i..N : s[i] = x[j] - (j - i)
    BY <1>4, <1>7, <2>1, Cooler
  <2>4. j \in Indices /\ j \in Int /\ x[j] \in Int
    BY <1>1, <1>7, <2>1 DEF Numbers
  <2>5. l.tempMin + (j - 1) <= x[j]
    BY <1>8, <2>4
  <2> HIDE DEF s
  <2>6. s[i] \in Int /\ l.tempMin <= s[i]
    BY <1>1, <2>1, <2>3, <2>4, <2>5
  <2>7. s[i] <= l.tempMax
    BY <1>1, <1>6, <1>7, <2>1, <2>2, <2>6
  <2>8. QED BY <1>1, <2>6, <2>7
<1>11. QED BY <1>2, <1>9, <1>10

(* And a point with room on both sides stays where it is.                   *)
LEMMA RespreadKeeps ==
  ASSUME NEW l, IsAxis(l), NEW t \in Numbers, NEW idx \in Indices,
         \A j \in 1..idx : t[j] <= t[idx] - (idx - j),
         t[idx] <= l.tempMax - (CurvePoints - idx)
  PROVE  Respread(l, t)[idx] = t[idx]
<1> DEFINE N == CurvePoints
           m == t[idx]
           up == WarmerAbove(t, 1)
           last == Min({up[N], l.tempMax})
           x == [up EXCEPT ![N] = last]
           s == CoolerBelow(x, N)
<1>1. l.tempMax \in Int /\ N \in Nat /\ N >= 1 /\ Indices = 1..N /\ m \in Int
      /\ idx \in Nat /\ idx >= 1 /\ idx <= N /\ N \in Indices
  BY Index DEF IsAxis, Numbers
<1>2. up \in Numbers /\ \A i \in idx..N : m + (i - idx) <= up[i]
  <2>1. 1 \in Indices /\ \A i \in idx..N : i \in 1..N /\ idx \in 1..i
    BY <1>1
  <2>2. QED BY <2>1, Warmer
<1>3. up[idx] = m
  <2>1. idx \in 1..N /\ 1 \in Indices /\ idx \in idx..N
    BY <1>1
  <2>2. PICK j \in 1..idx : up[idx] = t[j] + (idx - j)
    BY <2>1, Warmer
  <2>3. t[j] <= m - (idx - j) /\ t[j] \in Int /\ j \in Int
    BY <1>1 DEF Numbers
  <2>4. m + (idx - idx) <= up[idx]
    BY <1>2, <2>1
  <2> HIDE DEF up, m
  <2>5. QED BY <1>1, <2>2, <2>3, <2>4
<1> HIDE DEF up
<1>4. up[N] \in Int
  BY <1>1, <1>2 DEF Numbers
<1>5. last = IF up[N] <= l.tempMax THEN up[N] ELSE l.tempMax
  BY <1>1, <1>4, MinOfTwo
<1> HIDE DEF last
<1>6. last \in Int /\ m + (N - idx) <= last /\ (idx = N => last = m)
  <2>1. N \in idx..N
    BY <1>1
  <2>2. m + (N - idx) <= up[N]
    BY <1>2, <2>1
  <2>3. m <= l.tempMax - (N - idx)
    OBVIOUS
  <2> HIDE DEF m
  <2>4. QED BY <1>1, <1>3, <1>4, <1>5, <2>2, <2>3
<1>7. x \in Numbers /\ x[N] = last /\ \A i \in Indices : i # N => x[i] = up[i]
  BY <1>1, <1>2, <1>6 DEF Numbers
<1> HIDE DEF x
<1>8. x[idx] = m
  BY <1>3, <1>6, <1>7
<1>9. \A j \in idx..N : m + (j - idx) <= x[j] /\ x[j] \in Int
  <2> TAKE j \in idx..N
  <2>1. j \in Indices
    BY <1>1
  <2>2. QED BY <1>2, <1>6, <1>7, <2>1 DEF Numbers
<1>10. idx \in 1..N /\ idx \in idx..N
  BY <1>1
<1>11. s[idx] <= x[idx] - (idx - idx)
  BY <1>1, <1>7, <1>10, Cooler
<1>12. PICK j \in idx..N : s[idx] = x[j] - (j - idx)
  BY <1>1, <1>7, <1>10, Cooler
<1>13. m + (j - idx) <= x[j] /\ x[j] \in Int /\ j \in Int
  BY <1>1, <1>9
<1> HIDE DEF m, s
<1>14. s[idx] = m
  BY <1>1, <1>8, <1>11, <1>12, <1>13
<1>15. QED BY <1>14 DEF m, s, x, last, up, Respread

(* EnforceCurve lifts and clamps the PWMs it has cascaded.                  *)
LEMMA LiftedIs ==
  ASSUME NEW floor, IsFloor(floor), NEW temp \in Int, NEW pwm \in Int
  PROVE  /\ FloorPWMAt(floor, temp) \in 0..PWMMax
         /\ Lifted(floor, temp, pwm)
              = IF pwm >= FloorPWMAt(floor, temp) THEN pwm ELSE FloorPWMAt(floor, temp)
         /\ Lifted(floor, temp, pwm) \in Int
<1>1. FloorPWMAt(floor, temp) \in 0..PWMMax
  BY FloorIsPWM
<1>2. FloorPWMAt(floor, temp) \in Int
  BY <1>1
<1>3. QED BY <1>1, <1>2, MaxOfTwo DEF Lifted

LEMMA ClampIs ==
  ASSUME NEW l, IsAxis(l), NEW floor, IsFloor(floor), NEW temp \in Int, NEW pwm \in Int
  PROVE  LET on == Within(temp, l.tempMin, l.tempMax)
             up == Lifted(floor, on, pwm)
         IN /\ on \in Int
            /\ on = IF temp < l.tempMin THEN l.tempMin
                    ELSE IF temp > l.tempMax THEN l.tempMax ELSE temp
            /\ Clamp(l, floor, temp, pwm) = IF up <= PWMMax THEN up ELSE PWMMax
            /\ Clamp(l, floor, temp, pwm) \in 0..PWMMax
<1> DEFINE on == Within(temp, l.tempMin, l.tempMax)
           up == Lifted(floor, on, pwm)
           v == FloorPWMAt(floor, on)
<1>1. l.tempMin \in Int /\ l.tempMax \in Int /\ l.tempMin <= l.tempMax
  BY Index DEF IsAxis
<1>2. on = IF temp < l.tempMin THEN l.tempMin ELSE IF temp > l.tempMax THEN l.tempMax ELSE temp
  BY <1>1, WithinIs
<1>3. on \in Int
  BY <1>1, <1>2
<1>4. Clamp(l, floor, temp, pwm) = Min({up, PWMMax})
  BY DEF Clamp
<1> HIDE DEF on
<1>5. v \in 0..PWMMax /\ (up = IF pwm >= v THEN pwm ELSE v) /\ up \in Int
  BY <1>3, LiftedIs
<1> HIDE DEF up, v
<1>6. Clamp(l, floor, temp, pwm) = IF up <= PWMMax THEN up ELSE PWMMax
  BY <1>4, <1>5, MinOfTwo, Sizes
<1>7. Clamp(l, floor, temp, pwm) \in 0..PWMMax
  BY <1>5, <1>6, Sizes
<1>8. QED BY <1>2, <1>3, <1>6, <1>7 DEF on, up

(* The clamp keeps an order: its floor rises with the temperature.          *)
LEMMA LiftedRises ==
  ASSUME NEW floor, IsFloor(floor), NEW x \in Int, NEW y \in Int, x <= y,
         NEW p \in Int, NEW q \in Int, p <= q
  PROVE  Lifted(floor, x, p) <= Lifted(floor, y, q)
<1> DEFINE v == FloorPWMAt(floor, x)
           u == FloorPWMAt(floor, y)
<1>1. v \in 0..PWMMax /\ (Lifted(floor, x, p) = IF p >= v THEN p ELSE v)
  BY LiftedIs
<1>2. u \in 0..PWMMax /\ (Lifted(floor, y, q) = IF q >= u THEN q ELSE u)
  BY LiftedIs
<1>3. v <= u
  BY FloorNeverFalls
<1> HIDE DEF v, u
<1>4. QED BY <1>1, <1>2, <1>3, Sizes

LEMMA ClampRises ==
  ASSUME NEW l, IsAxis(l), NEW floor, IsFloor(floor), NEW x \in Int, NEW y \in Int, x <= y,
         NEW p \in Int, NEW q \in Int, p <= q
  PROVE  Clamp(l, floor, x, p) <= Clamp(l, floor, y, q)
<1> DEFINE a == Within(x, l.tempMin, l.tempMax)
           b == Within(y, l.tempMin, l.tempMax)
           u == Lifted(floor, a, p)
           v == Lifted(floor, b, q)
<1>1. /\ a \in Int /\ a = IF x < l.tempMin THEN l.tempMin
                          ELSE IF x > l.tempMax THEN l.tempMax ELSE x
      /\ Clamp(l, floor, x, p) = IF u <= PWMMax THEN u ELSE PWMMax
  BY ClampIs
<1>2. /\ b \in Int /\ b = IF y < l.tempMin THEN l.tempMin
                          ELSE IF y > l.tempMax THEN l.tempMax ELSE y
      /\ Clamp(l, floor, y, q) = IF v <= PWMMax THEN v ELSE PWMMax
  BY ClampIs
<1>3. l.tempMin \in Int /\ l.tempMax \in Int /\ l.tempMin <= l.tempMax
  BY Index DEF IsAxis
<1> HIDE DEF a, b
<1>4. a <= b
  BY <1>1, <1>2, <1>3
<1>5. u <= v
  BY <1>1, <1>2, <1>4, LiftedRises
<1>6. u \in Int /\ v \in Int
  BY <1>1, <1>2, LiftedIs
<1> HIDE DEF u, v
<1>7. QED BY <1>1, <1>2, <1>5, <1>6, Sizes

(* The four stages of EnforceCurve: temperatures and PWMs as cascaded, as   *)
(* put on the axis, as respread.                                            *)
CascadedTemps(l, c, idx) ==
  CoolerBelow(WarmerAbove([Temps(c) EXCEPT ![idx] = MovedTemp(l, @, idx)], idx), idx)
CascadedPWMs(l, c, idx, floor) ==
  SlowerBelow(FasterAbove([PWMs(c) EXCEPT ![idx] = Clamp(l, floor, c[idx].temp, @)], idx), idx)
OnAxis(l, t) == [i \in Indices |-> Within(t[i], l.tempMin, l.tempMax)]
SpreadTemps(l, c, idx) == Respread(l, OnAxis(l, CascadedTemps(l, c, idx)))

LEMMA CurveNumbers ==
  ASSUME NEW c \in Curves
  PROVE  /\ Temps(c) \in Numbers /\ PWMs(c) \in Numbers
         /\ \A i \in Indices : /\ c[i].temp \in Int /\ c[i].pwm \in Int
                               /\ Temps(c)[i] = c[i].temp /\ PWMs(c)[i] = c[i].pwm
<1>1. \A i \in Indices : c[i].temp \in Int /\ c[i].pwm \in Int
  BY DEF Curves
<1>2. QED BY <1>1 DEF Temps, PWMs, Numbers

LEMMA Cascaded ==
  ASSUME NEW l, IsAxis(l), NEW c \in Curves, NEW idx \in Indices, NEW floor, IsFloor(floor)
  PROVE  LET t == CascadedTemps(l, c, idx)
             p == CascadedPWMs(l, c, idx, floor)
         IN /\ t \in Numbers /\ Rises(t) /\ t[idx] = MovedTemp(l, c[idx].temp, idx)
            /\ p \in Numbers /\ Ascending(p)
            /\ p[idx] = Clamp(l, floor, c[idx].temp, c[idx].pwm)
<1> DEFINE t0 == [Temps(c) EXCEPT ![idx] = MovedTemp(l, @, idx)]
           p0 == [PWMs(c) EXCEPT ![idx] = Clamp(l, floor, c[idx].temp, @)]
           m == MovedTemp(l, c[idx].temp, idx)
           q == Clamp(l, floor, c[idx].temp, c[idx].pwm)
<1>1. c[idx].temp \in Int /\ c[idx].pwm \in Int /\ Temps(c) \in Numbers /\ PWMs(c) \in Numbers
      /\ Temps(c)[idx] = c[idx].temp /\ PWMs(c)[idx] = c[idx].pwm
  BY CurveNumbers
<1>2. m \in Int
  <2> DEFINE lo == l.tempMin + idx - 1
             hi == l.tempMax - (CurvePoints - idx)
  <2>1. lo \in Int /\ hi \in Int /\ m \in lo..hi
    BY <1>1, MovedIs
  <2> HIDE DEF lo, hi
  <2>2. QED BY <2>1
<1>3. q \in Int
  <2>1. q \in 0..PWMMax
    BY <1>1, ClampIs
  <2>2. QED BY <2>1
<1>4. t0 = [Temps(c) EXCEPT ![idx] = m] /\ p0 = [PWMs(c) EXCEPT ![idx] = q]
  BY <1>1
<1> HIDE DEF m, q
<1>5. t0 \in Numbers /\ t0[idx] = m /\ p0 \in Numbers /\ p0[idx] = q
  BY <1>1, <1>2, <1>3, <1>4 DEF Numbers
<1> HIDE DEF t0, p0
<1>6. LET x == CoolerBelow(WarmerAbove(t0, idx), idx)
      IN x \in Numbers /\ Rises(x) /\ x[idx] = m
  BY <1>5, TempCascade
<1>7. LET x == SlowerBelow(FasterAbove(p0, idx), idx)
      IN x \in Numbers /\ Ascending(x) /\ x[idx] = q
  BY <1>5, PWMCascade
<1>8. QED BY <1>6, <1>7 DEF CascadedTemps, CascadedPWMs, t0, p0, m, q

LEMMA AxisRange ==
  ASSUME NEW l, IsAxis(l), NEW t \in Numbers
  PROVE  /\ OnAxis(l, t) \in Numbers
         /\ \A i \in Indices :
              /\ OnAxis(l, t)[i] \in l.tempMin..l.tempMax
              /\ OnAxis(l, t)[i] = IF t[i] < l.tempMin THEN l.tempMin
                                   ELSE IF t[i] > l.tempMax THEN l.tempMax ELSE t[i]
<1>1. l.tempMin \in Int /\ l.tempMax \in Int /\ l.tempMin <= l.tempMax
  BY Index DEF IsAxis
<1>2. ASSUME NEW i \in Indices
      PROVE  LET w == Within(t[i], l.tempMin, l.tempMax)
             IN /\ w \in l.tempMin..l.tempMax /\ w \in Int
                /\ w = IF t[i] < l.tempMin THEN l.tempMin
                       ELSE IF t[i] > l.tempMax THEN l.tempMax ELSE t[i]
  <2>1. t[i] \in Int
    BY DEF Numbers
  <2>2. QED BY <1>1, <2>1, WithinIs
<1>3. QED BY <1>2 DEF OnAxis, Numbers

LEMMA Spread ==
  ASSUME NEW l, IsAxis(l), NEW c \in Curves, NEW idx \in Indices, NEW floor, IsFloor(floor)
  PROVE  LET s == SpreadTemps(l, c, idx)
         IN /\ s \in Numbers /\ Rises(s)
            /\ \A i \in Indices : s[i] \in l.tempMin..l.tempMax
            /\ s[idx] = MovedTemp(l, c[idx].temp, idx)
<1> DEFINE t == CascadedTemps(l, c, idx)
           a == OnAxis(l, t)
           m == MovedTemp(l, c[idx].temp, idx)
           s == Respread(l, a)
<1>1. t \in Numbers /\ Rises(t) /\ t[idx] = m
  BY Cascaded
<1> HIDE DEF t
<1>2. /\ a \in Numbers
      /\ \A i \in Indices : /\ a[i] \in l.tempMin..l.tempMax
                            /\ a[i] = IF t[i] < l.tempMin THEN l.tempMin
                                      ELSE IF t[i] > l.tempMax THEN l.tempMax ELSE t[i]
  BY <1>1, AxisRange
<1> HIDE DEF a
<1>3. s \in Numbers /\ Rises(s) /\ \A i \in Indices : s[i] \in l.tempMin..l.tempMax
  BY <1>2, RespreadRises
<1>4. /\ l.tempMin \in Int /\ l.tempMax \in Int /\ m \in Int
      /\ l.tempMin + idx - 1 <= m /\ m <= l.tempMax - (CurvePoints - idx)
      /\ l.tempMin <= m /\ m <= l.tempMax
  <2> DEFINE lo == l.tempMin + idx - 1
             hi == l.tempMax - (CurvePoints - idx)
  <2>1. c[idx].temp \in Int
    BY CurveNumbers
  <2>2. lo \in Int /\ hi \in Int /\ m \in lo..hi /\ l.tempMin <= lo /\ hi <= l.tempMax
    BY <2>1, MovedIs
  <2>3. l.tempMin \in Int /\ l.tempMax \in Int
    BY DEF IsAxis
  <2> HIDE DEF lo, hi, m
  <2>4. m \in Int /\ lo <= m /\ m <= hi /\ l.tempMin <= m /\ m <= l.tempMax
    BY <2>2, <2>3
  <2>5. QED BY <2>3, <2>4 DEF lo, hi
<1> HIDE DEF m
<1>5. a[idx] = m
  BY <1>1, <1>2, <1>4
<1>6. ASSUME NEW j \in 1..idx PROVE a[j] <= a[idx] - (idx - j)
  <2>1. j \in Indices /\ j <= idx /\ j \in Int /\ idx \in Int /\ j >= 1
    BY Index
  <2>2. t[j] + (idx - j) <= t[idx] /\ t[j] \in Int
    BY <1>1, <2>1, Spans DEF Numbers
  <2>3. a[j] = IF t[j] < l.tempMin THEN l.tempMin
               ELSE IF t[j] > l.tempMax THEN l.tempMax ELSE t[j]
    BY <1>2, <2>1
  <2>4. QED BY <1>1, <1>4, <1>5, <2>1, <2>2, <2>3
<1>7. s[idx] = m
  BY <1>2, <1>4, <1>5, <1>6, RespreadKeeps
<1>8. QED BY <1>3, <1>7 DEF SpreadTemps, s, a, t, m

LEMMA Enforced ==
  ASSUME NEW l, IsAxis(l), NEW c \in Curves, NEW idx \in Indices, NEW floor, IsFloor(floor)
  PROVE  LET new == EnforceCurve(l, c, idx, floor)
             s == SpreadTemps(l, c, idx)
             t == CascadedTemps(l, c, idx)
             p == CascadedPWMs(l, c, idx, floor)
         IN /\ new \in Curves
            /\ \A i \in Indices :
                 /\ new[i] = Point(s[i], Lifted(floor, s[i], Clamp(l, floor, t[i], p[i])))
                 /\ new[i].temp = s[i]
                 /\ new[i].pwm = Lifted(floor, s[i], Clamp(l, floor, t[i], p[i]))
<1> DEFINE s == SpreadTemps(l, c, idx)
           t == CascadedTemps(l, c, idx)
           p == CascadedPWMs(l, c, idx, floor)
           f(i) == Lifted(floor, s[i], Clamp(l, floor, t[i], p[i]))
<1>1. EnforceCurve(l, c, idx, floor) = [i \in Indices |-> Point(s[i], f(i))]
  BY DEF EnforceCurve, SpreadTemps, CascadedTemps, CascadedPWMs, OnAxis
<1>2. s \in Numbers /\ t \in Numbers /\ p \in Numbers
  BY Spread, Cascaded
<1>3. ASSUME NEW i \in Indices PROVE s[i] \in Int /\ f(i) \in Int
  <2> DEFINE a == Clamp(l, floor, t[i], p[i])
  <2>1. s[i] \in Int /\ t[i] \in Int /\ p[i] \in Int
    BY <1>2 DEF Numbers
  <2>2. a \in 0..PWMMax
    BY <2>1, ClampIs
  <2>3. a \in Int
    BY <2>2
  <2> HIDE DEF a, s, t, p
  <2>4. Lifted(floor, s[i], a) \in Int
    BY <2>1, <2>3, LiftedIs
  <2>5. QED BY <2>1, <2>4 DEF a
<1> HIDE DEF s, t, p, f
<1>4. QED BY <1>1, <1>3 DEF Curves, Point, s, t, p, f

(* Whatever curve is repaired, from whatever device, and whichever point of *)
(* it was moved wherever: what comes out is a curve the firmware and the    *)
(* daemon accept on this device under this floor.                           *)
THEOREM EnforcedIsAcceptable ==
  ASSUME NEW l, IsAxis(l), NEW c \in Curves, NEW idx \in Indices, NEW floor, IsFloor(floor)
  PROVE  Acceptable(l, EnforceCurve(l, c, idx, floor), floor)
<1> DEFINE new == EnforceCurve(l, c, idx, floor)
           s == SpreadTemps(l, c, idx)
           t == CascadedTemps(l, c, idx)
           p == CascadedPWMs(l, c, idx, floor)
           a == [i \in Indices |-> Clamp(l, floor, t[i], p[i])]
<1>1. \A i \in Indices : new[i].temp = s[i] /\ new[i].pwm = Lifted(floor, s[i], a[i])
  BY Enforced
<1>2. /\ s \in Numbers /\ Rises(s) /\ \A i \in Indices : s[i] \in l.tempMin..l.tempMax
      /\ t \in Numbers /\ Rises(t) /\ p \in Numbers /\ Ascending(p)
  BY Spread, Cascaded
<1> HIDE DEF new, s, t, p
<1>3. \A i \in Indices : s[i] \in Int /\ t[i] \in Int /\ p[i] \in Int
  BY <1>2 DEF Numbers
<1>4. \A i \in Indices : a[i] \in 0..PWMMax /\ a[i] \in Int
  <2> TAKE i \in Indices
  <2>1. Clamp(l, floor, t[i], p[i]) \in 0..PWMMax
    BY <1>3, ClampIs
  <2>2. QED BY <2>1
<1>5. ASSUME NEW i \in Indices
      PROVE  /\ new[i].temp \in l.tempMin..l.tempMax
             /\ new[i].pwm \in FloorPWMAt(floor, new[i].temp)..PWMMax
  <2> DEFINE v == FloorPWMAt(floor, s[i])
             b == a[i]
  <2>1. b \in 0..PWMMax /\ b \in Int /\ s[i] \in Int
    BY <1>3, <1>4
  <2> HIDE DEF a, b
  <2>2. v \in 0..PWMMax /\ (Lifted(floor, s[i], b) = IF b >= v THEN b ELSE v)
    BY <2>1, LiftedIs
  <2>3. new[i].temp = s[i] /\ new[i].pwm = Lifted(floor, s[i], b)
    BY <1>1 DEF b
  <2> HIDE DEF v
  <2>4. new[i].pwm \in v..PWMMax
    BY <2>1, <2>2, <2>3, Sizes
  <2>5. QED BY <1>2, <2>3, <2>4 DEF v
<1>6. ASSUME NEW i \in Indices \ {1}
      PROVE  new[i - 1].temp < new[i].temp /\ new[i - 1].pwm <= new[i].pwm
  <2>1. i \in 2..CurvePoints /\ i - 1 \in Indices
    BY Index
  <2>2. s[i - 1] < s[i] /\ t[i - 1] < t[i] /\ p[i - 1] <= p[i]
    BY <1>2, <2>1 DEF Rises, Ascending
  <2>3. s[i - 1] <= s[i] /\ t[i - 1] <= t[i]
    BY <1>3, <2>1, <2>2
  <2>4. a[i - 1] <= a[i]
    BY <1>3, <2>1, <2>2, <2>3, ClampRises
  <2>5. a[i - 1] \in Int /\ a[i] \in Int
    BY <1>4, <2>1
  <2> HIDE DEF a
  <2>6. Lifted(floor, s[i - 1], a[i - 1]) <= Lifted(floor, s[i], a[i])
    BY <1>3, <2>1, <2>3, <2>4, <2>5, LiftedRises
  <2>7. QED BY <1>1, <2>1, <2>2, <2>6
<1> HIDE DEF a
<1>7. QED BY <1>5, <1>6 DEF Acceptable, new

(* The moved point has its way: it goes where it was put, but for the room  *)
(* that the points on either side of it need, it is never lowered, and      *)
(* without a floor it is not lifted either.                                 *)
THEOREM MovedHasItsWay ==
  ASSUME NEW l, IsAxis(l), NEW c \in Curves, NEW idx \in Indices, NEW floor, IsFloor(floor),
         c[idx].pwm \in 0..PWMMax
  PROVE  LET new == EnforceCurve(l, c, idx, floor)
         IN /\ new[idx].temp = MovedTemp(l, c[idx].temp, idx)
            /\ new[idx].pwm >= c[idx].pwm
            /\ floor = <<>> => new[idx].pwm = c[idx].pwm
<1> DEFINE new == EnforceCurve(l, c, idx, floor)
           s == SpreadTemps(l, c, idx)[idx]
           t == CascadedTemps(l, c, idx)[idx]
           x == c[idx].temp
           q == c[idx].pwm
           p == Clamp(l, floor, x, q)
           a == Clamp(l, floor, t, p)
<1>1. CascadedPWMs(l, c, idx, floor)[idx] = p /\ t = MovedTemp(l, x, idx)
      /\ s = MovedTemp(l, x, idx)
  BY Cascaded, Spread
<1>2. new[idx].temp = s /\ new[idx].pwm = Lifted(floor, s, a)
  BY <1>1, Enforced
<1>3. x \in Int /\ q \in Int /\ q >= 0 /\ q <= PWMMax /\ s \in Int /\ t \in Int
  <2>1. x \in Int /\ q \in Int
    BY CurveNumbers
  <2>2. SpreadTemps(l, c, idx) \in Numbers /\ CascadedTemps(l, c, idx) \in Numbers
    BY Spread, Cascaded
  <2>3. QED BY <2>1, <2>2, Sizes DEF Numbers
<1> HIDE DEF new, s, t, x, q
<1>4. /\ p \in 0..PWMMax /\ p \in Int
      /\ p >= q /\ (floor = <<>> => p = q)
  <2> DEFINE on == Within(x, l.tempMin, l.tempMax)
             v == FloorPWMAt(floor, on)
             up == Lifted(floor, on, q)
  <2>1. /\ on \in Int /\ p \in 0..PWMMax /\ p = IF up <= PWMMax THEN up ELSE PWMMax
    BY <1>3, ClampIs
  <2> HIDE DEF on, p
  <2>2. v \in 0..PWMMax /\ up = IF q >= v THEN q ELSE v
    BY <1>3, <2>1, LiftedIs
  <2>3. floor = <<>> => v = 0
    BY <2>1, FloorCases
  <2> HIDE DEF v, up
  <2>4. QED BY <1>3, <2>1, <2>2, <2>3, Sizes
<1> HIDE DEF p
<1>5. /\ a \in 0..PWMMax /\ a \in Int
      /\ a >= q /\ (floor = <<>> => a = q)
  <2> DEFINE on == Within(t, l.tempMin, l.tempMax)
             v == FloorPWMAt(floor, on)
             up == Lifted(floor, on, p)
  <2>1. /\ on \in Int /\ a \in 0..PWMMax /\ a = IF up <= PWMMax THEN up ELSE PWMMax
    BY <1>3, <1>4, ClampIs
  <2> HIDE DEF on, a
  <2>2. v \in 0..PWMMax /\ up = IF p >= v THEN p ELSE v
    BY <1>4, <2>1, LiftedIs
  <2>3. floor = <<>> => v = 0
    BY <2>1, FloorCases
  <2> HIDE DEF v, up
  <2>4. QED BY <1>3, <1>4, <2>1, <2>2, <2>3, Sizes
<1> HIDE DEF a
<1>6. new[idx].pwm >= q /\ (floor = <<>> => new[idx].pwm = q)
  <2> DEFINE v == FloorPWMAt(floor, s)
  <2>1. v \in 0..PWMMax /\ Lifted(floor, s, a) = IF a >= v THEN a ELSE v
    BY <1>3, <1>5, LiftedIs
  <2>2. floor = <<>> => v = 0
    BY <1>3, FloorCases
  <2> HIDE DEF v
  <2>3. QED BY <1>2, <1>3, <1>5, <2>1, <2>2, Sizes
<1>7. new[idx].temp = MovedTemp(l, x, idx)
  BY <1>1, <1>2
<1>8. QED BY <1>6, <1>7 DEF new, q, x

(* A curve that is acceptable as it is is left alone.                       *)
THEOREM AcceptableStays ==
  ASSUME NEW l, IsAxis(l), NEW c \in Curves, NEW idx \in Indices, NEW floor, IsFloor(floor),
         Acceptable(l, c, floor)
  PROVE  EnforceCurve(l, c, idx, floor) = c
<1> DEFINE t == Temps(c)
           p == PWMs(c)
           new == EnforceCurve(l, c, idx, floor)
<1>1. /\ t \in Numbers /\ p \in Numbers
      /\ \A i \in Indices : /\ c[i].temp \in Int /\ c[i].pwm \in Int
                            /\ t[i] = c[i].temp /\ p[i] = c[i].pwm
  BY CurveNumbers
<1>2. l.tempMin \in Int /\ l.tempMax \in Int
  BY DEF IsAxis
<1> HIDE DEF t, p
<1>3. Rises(t) /\ Ascending(p)
  <2>1. \A i \in 2..CurvePoints : i \in Indices \ {1} /\ i - 1 \in Indices
    BY Index
  <2>2. QED BY <1>1, <2>1 DEF Acceptable, Rises, Ascending
<1>4. \A i \in Indices : t[i] \in Int /\ l.tempMin <= t[i] /\ t[i] <= l.tempMax
  BY <1>1, <1>2 DEF Acceptable
<1>5. \A i \in Indices : Clamp(l, floor, t[i], p[i]) = p[i] /\ Lifted(floor, t[i], p[i]) = p[i]
  <2> TAKE i \in Indices
  <2> DEFINE x == t[i]
             q == p[i]
             on == Within(x, l.tempMin, l.tempMax)
             v == FloorPWMAt(floor, x)
             up == Lifted(floor, on, q)
  <2>1. x \in Int /\ q \in Int /\ v \in 0..PWMMax
    BY <1>1, FloorIsPWM
  <2>2. q \in v..PWMMax
    BY <1>1 DEF Acceptable
  <2>3. on \in Int /\ on = x /\ Clamp(l, floor, x, q) = IF up <= PWMMax THEN up ELSE PWMMax
    <3>1. /\ on \in Int
          /\ on = IF x < l.tempMin THEN l.tempMin ELSE IF x > l.tempMax THEN l.tempMax ELSE x
          /\ Clamp(l, floor, x, q) = IF up <= PWMMax THEN up ELSE PWMMax
      BY <2>1, ClampIs
    <3> HIDE DEF on, up
    <3>2. QED BY <1>2, <1>4, <3>1
  <2>4. Lifted(floor, x, q) = IF q >= v THEN q ELSE v
    BY <2>1, LiftedIs
  <2>5. up = Lifted(floor, x, q)
    BY <2>3
  <2> HIDE DEF x, q, on, v, up
  <2>6. Lifted(floor, x, q) = q /\ Clamp(l, floor, x, q) = q
    BY <2>1, <2>2, <2>3, <2>4, <2>5, Sizes
  <2>7. QED BY <2>6 DEF x, q
<1>6. MovedTemp(l, t[idx], idx) = t[idx]
  <2> DEFINE lo == l.tempMin + idx - 1
             hi == l.tempMax - (CurvePoints - idx)
             x == t[idx]
  <2>1. lo \in Int /\ hi \in Int /\ MovedTemp(l, x, idx) = IF x < lo THEN lo ELSE IF x > hi THEN hi ELSE x
    BY <1>1, MovedIs
  <2>2. t[1] + (idx - 1) <= t[idx] /\ t[idx] + (CurvePoints - idx) <= t[CurvePoints]
    <3>1. 1 <= idx /\ idx <= CurvePoints
      BY Index
    <3>2. QED BY <1>1, <1>3, <3>1, Index, Spans
  <2>3. t[1] \in Int /\ t[CurvePoints] \in Int /\ l.tempMin <= t[1] /\ t[CurvePoints] <= l.tempMax
    BY <1>4, Index
  <2>4. lo <= x /\ x <= hi
    BY <1>2, <1>4, <2>2, <2>3, Index
  <2> HIDE DEF lo, hi
  <2>5. QED BY <1>4, <2>1, <2>4
<1>7. CascadedTemps(l, c, idx) = t
  <2>1. [Temps(c) EXCEPT ![idx] = MovedTemp(l, @, idx)] = t
    <3>1. MovedTemp(l, Temps(c)[idx], idx) = t[idx] /\ Temps(c) = t
      BY <1>6 DEF t
    <3>2. QED BY <1>1, <3>1 DEF Numbers
  <2>2. QED BY <1>1, <1>3, <2>1, TempCascadeStays DEF CascadedTemps
<1>8. CascadedPWMs(l, c, idx, floor) = p
  <2>1. [PWMs(c) EXCEPT ![idx] = Clamp(l, floor, c[idx].temp, @)] = p
    <3>1. Clamp(l, floor, c[idx].temp, PWMs(c)[idx]) = p[idx] /\ PWMs(c) = p
      BY <1>1, <1>5 DEF p
    <3>2. QED BY <1>1, <3>1 DEF Numbers
  <2>2. QED BY <1>1, <1>3, <2>1, PWMCascadeStays DEF CascadedPWMs
<1>9. OnAxis(l, t) = t
  <2>1. OnAxis(l, t) \in Numbers /\ \A i \in Indices : OnAxis(l, t)[i] = t[i]
    <3>1. /\ OnAxis(l, t) \in Numbers
          /\ \A i \in Indices :
               OnAxis(l, t)[i] = IF t[i] < l.tempMin THEN l.tempMin
                                 ELSE IF t[i] > l.tempMax THEN l.tempMax ELSE t[i]
      BY <1>1, AxisRange
    <3>2. QED BY <1>2, <1>4, <3>1
  <2>2. QED BY <1>1, <2>1, SameNumbers
<1>10. Respread(l, t) = t
  <2>1. WarmerAbove(t, 1) = t /\ CoolerBelow(t, CurvePoints) = t
    BY <1>1, <1>3, Index, TempCascadeStays
  <2>2. Min({t[CurvePoints], l.tempMax}) = t[CurvePoints]
    BY <1>2, <1>4, Index, MinOfTwo
  <2>3. [t EXCEPT ![CurvePoints] = Min({@, l.tempMax})] = t
    BY <1>1, <2>2 DEF Numbers
  <2>4. QED BY <2>1, <2>3 DEF Respread
<1>11. SpreadTemps(l, c, idx) = t
  BY <1>7, <1>9, <1>10 DEF SpreadTemps
<1>12. ASSUME NEW i \in Indices PROVE new[i] = c[i]
  <2>1. new[i] = Point(t[i], Lifted(floor, t[i], Clamp(l, floor, t[i], p[i])))
    BY <1>7, <1>8, <1>11, Enforced
  <2>2. new[i] = Point(t[i], p[i])
    BY <1>5, <2>1
  <2>3. c[i] \in [temp : Int, pwm : Int]
    BY DEF Curves
  <2>4. QED BY <1>1, <2>2, <2>3 DEF Point
<1>13. new \in Curves
  BY Enforced
<1> HIDE DEF new
<1>14. new = c
  BY <1>12, <1>13 DEF Curves
<1>15. QED BY <1>14 DEF new

-----------------------------------------------------------------------------
(* Device descriptions.                                                     *)

(* A fallback changes the fields it is told to, and no others.              *)
LEMMA FallbackIs ==
  ASSUME NEW l \in Description, NEW fields
  PROVE  LET m == Fallback(l, fields)
         IN /\ m \in Description
            /\ \A f \in TDPGroup \cup TempGroup :
                 m[f] = IF f \in fields THEN DefaultLimits[f] ELSE l[f]
            /\ fields \subseteq TDPGroup \cup TempGroup =>
                 m.highTDPMinPWM = l.highTDPMinPWM /\ m.floorCurve = l.floorCurve
            /\ (\A f \in TDPGroup \cup TempGroup : f \in fields => l[f] = DefaultLimits[f])
                 /\ fields \subseteq TDPGroup \cup TempGroup => m = l
<1> DEFINE S == Seq([temp : Int, pwm : Int])
           m == Fallback(l, fields)
<1>1. DefaultLimits \in Description
  BY Sizes
<1>2. DOMAIN l = {"tdpMin", "tdpMaxSafe", "tdpMaxForced", "tempMin", "tempMax",
                  "highTDPMinPWM", "floorCurve"}
  BY DEF Description
<1>3. \A f \in DOMAIN l : m[f] = IF f \in fields THEN DefaultLimits[f] ELSE l[f]
  BY DEF Fallback
<1>4. m = [tdpMin |-> m.tdpMin, tdpMaxSafe |-> m.tdpMaxSafe, tdpMaxForced |-> m.tdpMaxForced,
           tempMin |-> m.tempMin, tempMax |-> m.tempMax, highTDPMinPWM |-> m.highTDPMinPWM,
           floorCurve |-> m.floorCurve]
  BY <1>2 DEF Fallback
<1>5. l = [tdpMin |-> l.tdpMin, tdpMaxSafe |-> l.tdpMaxSafe, tdpMaxForced |-> l.tdpMaxForced,
           tempMin |-> l.tempMin, tempMax |-> l.tempMax, highTDPMinPWM |-> l.highTDPMinPWM,
           floorCurve |-> l.floorCurve]
  BY DEF Description
<1> HIDE DEF m
<1>6. m \in Description
  BY <1>1, <1>2, <1>3, <1>4 DEF Description
<1>7. ASSUME fields \subseteq TDPGroup \cup TempGroup
      PROVE  m.highTDPMinPWM = l.highTDPMinPWM /\ m.floorCurve = l.floorCurve
  BY <1>2, <1>3, <1>7 DEF TDPGroup, TempGroup
<1>8. ASSUME fields \subseteq TDPGroup \cup TempGroup,
             \A f \in TDPGroup \cup TempGroup : f \in fields => l[f] = DefaultLimits[f]
      PROVE  m = l
  <2>1. \A f \in DOMAIN l : m[f] = l[f]
    BY <1>3, <1>8
  <2>2. QED BY <1>2, <1>4, <1>5, <2>1
<1>9. \A f \in TDPGroup \cup TempGroup : f \in DOMAIN l
  BY <1>2 DEF TDPGroup, TempGroup
<1>10. QED BY <1>3, <1>6, <1>7, <1>8, <1>9 DEF m

(* What a floor is made of is a floor, and a floor is left alone.           *)
LEMMA FloorStays ==
  ASSUME NEW floor, IsFloor(floor), floor # <<>>, NEW minPWM
  PROVE  sanitizedFloor(floor, minPWM) = floor
<1> DEFINE S == [temp : Int, pwm : Int]
           out == [i \in DOMAIN floor |-> [floor[i] EXCEPT !.pwm = Within(@, PWMMin, PWMMax)]]
<1>1. Len(floor) \in Nat /\ DOMAIN floor = 1..Len(floor) /\ floor \in Seq(S)
  BY FloorPoint DEF IsFloor
<1>2. ASSUME NEW i \in DOMAIN floor
      PROVE  [floor[i] EXCEPT !.pwm = Within(@, PWMMin, PWMMax)] = floor[i]
  <2>1. floor[i] \in S
    <3> HIDE DEF S
    <3>1. QED BY <1>1, <1>2
  <2>2. floor[i].pwm \in Nat /\ floor[i].pwm <= PWMMax
    BY <1>1, FloorPoint
  <2>3. Within(floor[i].pwm, PWMMin, PWMMax) = floor[i].pwm
    BY <2>2, Sizes, WithinIs DEF PWMMin
  <2>4. QED BY <2>1, <2>3
<1>3. out = [i \in DOMAIN floor |-> floor[i]]
  BY <1>2
<1>4. floor = [i \in DOMAIN floor |-> floor[i]]
  <2> HIDE DEF S
  <2>1. QED BY <1>1
<1>5. out = floor
  BY <1>3, <1>4
<1>6. sanitizedFloor(floor, minPWM)
        = IF floor = <<>> \/ ~Ascends(out)
          THEN (IF minPWM <= PWMMin THEN <<>> ELSE <<Point(0, minPWM)>>) ELSE out
  BY DEF sanitizedFloor
<1> HIDE DEF out
<1>7. QED BY <1>5, <1>6 DEF IsFloor

LEMMA FloorMade ==
  ASSUME NEW floor \in Seq([temp : Int, pwm : Int]), NEW minPWM \in 0..PWMMax
  PROVE  LET made == sanitizedFloor(floor, minPWM)
         IN IsFloor(made) /\ (made = <<>> => minPWM = 0)
<1> DEFINE S == [temp : Int, pwm : Int]
           out == [i \in DOMAIN floor |-> [floor[i] EXCEPT !.pwm = Within(@, PWMMin, PWMMax)]]
           flat == IF minPWM <= PWMMin THEN <<>> ELSE <<Point(0, minPWM)>>
           n == Len(floor)
<1>1. n \in Nat /\ DOMAIN floor = 1..n /\ floor \in Seq(S)
  OBVIOUS
<1>2. ASSUME NEW i \in DOMAIN floor
      PROVE  out[i] \in S /\ out[i].pwm \in PWMMin..PWMMax
  <2> DEFINE q == Within(floor[i].pwm, PWMMin, PWMMax)
  <2>1. floor[i] \in S
    <3> HIDE DEF S
    <3>1. QED BY <1>1, <1>2
  <2>2. q \in Int /\ q \in PWMMin..PWMMax
    BY <2>1, Sizes, WithinIs DEF PWMMin
  <2> HIDE DEF q
  <2>3. [floor[i] EXCEPT !.pwm = q] \in S /\ [floor[i] EXCEPT !.pwm = q].pwm = q
    BY <2>1, <2>2
  <2>4. out[i] = [floor[i] EXCEPT !.pwm = q]
    BY DEF q
  <2>5. QED BY <2>2, <2>3, <2>4
<1>3. out = [i \in 1..n |-> out[i]]
  BY <1>1
<1>4. sanitizedFloor(floor, minPWM) = IF floor = <<>> \/ ~Ascends(out) THEN flat ELSE out
  BY DEF sanitizedFloor
<1>5. DOMAIN out = 1..n
  BY <1>1
<1> HIDE DEF out, S
<1>6. \A i \in 1..n : out[i] \in S
  BY <1>1, <1>2
<1>7. out \in Seq(S) /\ Len(out) = n
  BY <1>1, <1>3, <1>6
<1>8. IsFloor(flat) /\ (flat = <<>> => minPWM = 0)
  <2>1. CASE minPWM <= PWMMin
    <3>1. flat = <<>> /\ minPWM = 0
      BY <2>1, Sizes DEF PWMMin
    <3>2. IsFloor(<<>>)
      BY DEF IsFloor, Ascends
    <3>3. QED BY <3>1, <3>2
  <2>2. CASE ~ (minPWM <= PWMMin)
    <3> DEFINE q == Point(0, minPWM)
               one == <<q>>
    <3>1. q \in S /\ q.pwm \in PWMMin..PWMMax
      BY Sizes DEF Point, S, PWMMin
    <3>2. flat = one
      BY <2>2
    <3> HIDE DEF q, flat
    <3>3. one \in Seq(S) /\ Len(one) = 1 /\ DOMAIN one = {1} /\ one[1] = q /\ one # <<>>
      BY <3>1
    <3>4. Ascends(one)
      BY <3>3 DEF Ascends
    <3>5. IsFloor(one)
      <4>1. \A i \in DOMAIN one : one[i].pwm \in PWMMin..PWMMax
        BY <3>1, <3>3
      <4> HIDE DEF one
      <4>2. QED BY <3>3, <3>4, <4>1 DEF IsFloor, S
    <3>6. QED BY <3>2, <3>3, <3>5
  <2>3. QED BY <2>1, <2>2
<1> HIDE DEF flat
<1>9. floor # <<>> => out # <<>>
  <2>1. floor # <<>> => n # 0
    OBVIOUS
  <2>2. out # <<>>  \/ n = 0
    BY <1>7
  <2>3. QED BY <2>1, <2>2
<1>10. Ascends(out) => IsFloor(out)
  BY <1>1, <1>2, <1>5, <1>7 DEF IsFloor, S
<1>11. QED BY <1>4, <1>8, <1>9, <1>10

(* The stages of Sanitized, each with what the later ones rest on.          *)
Settled(l, f) == l[f] > 0 \/ l[f] = DefaultLimits[f]
Repaired(l, fields) == l \in Description /\ \A f \in fields : Settled(l, f)
TDPOrdered(l) == l.tdpMin < l.tdpMaxSafe /\ l.tdpMaxSafe <= l.tdpMaxForced
FloorGroupSound(l) ==
  /\ l.highTDPMinPWM \in PWMMin..PWMMax
  /\ IsFloor(l.floorCurve)
  /\ l.floorCurve # <<>> => l.highTDPMinPWM = l.floorCurve[1].pwm
  /\ l.floorCurve = <<>> => l.highTDPMinPWM = PWMMin

LEMMA DefaultsSound ==
  DefaultLimits \in Description /\ TDPOrdered(DefaultLimits) /\ IsAxis(DefaultLimits)
BY Sizes DEF Usable, TDPOrdered, IsAxis, Description

LEMMA UnsetRepaired ==
  ASSUME NEW l \in Description
  PROVE  LET unset == {f \in TDPGroup \cup TempGroup : l[f] <= 0}
             m == Fallback(l, unset)
         IN /\ Repaired(m, TDPGroup \cup TempGroup)
            /\ Repaired(l, TDPGroup \cup TempGroup) => m = l
<1> DEFINE fields == TDPGroup \cup TempGroup
           unset == {f \in fields : l[f] <= 0}
           m == Fallback(l, unset)
<1>1. \A f \in fields : l[f] \in Int
  BY DEF Description, TDPGroup, TempGroup
<1>2. unset \subseteq fields
  OBVIOUS
<1>3. m \in Description /\ \A f \in fields : m[f] = IF f \in unset THEN DefaultLimits[f] ELSE l[f]
  BY FallbackIs
<1>4. \A f \in fields : Settled(m, f)
  BY <1>1, <1>3 DEF Settled
<1>5. ASSUME Repaired(l, fields) PROVE m = l
  <2>1. \A f \in fields : f \in unset => l[f] = DefaultLimits[f]
    BY <1>1, <1>5 DEF Repaired, Settled
  <2> HIDE DEF unset
  <2>2. QED BY <1>2, <2>1, FallbackIs
<1>6. QED BY <1>3, <1>4, <1>5 DEF Repaired

LEMMA TDPRepaired ==
  ASSUME NEW l, Repaired(l, TDPGroup \cup TempGroup)
  PROVE  LET m == SanitizedTDP(l)
         IN /\ Repaired(m, TDPGroup \cup TempGroup) /\ TDPOrdered(m)
            /\ TDPOrdered(l) => m = l
<1> DEFINE m == SanitizedTDP(l)
<1>1. l \in Description /\ l.tdpMin \in Int /\ l.tdpMaxSafe \in Int /\ l.tdpMaxForced \in Int
  BY DEF Repaired, Description
<1>2. CASE TDPOrdered(l)
  BY <1>1, <1>2 DEF SanitizedTDP, TDPOrdered
<1>3. CASE ~TDPOrdered(l)
  <2>1. m = Fallback(l, TDPGroup)
    BY <1>1, <1>3 DEF SanitizedTDP, TDPOrdered
  <2>2. /\ m \in Description
        /\ \A f \in TDPGroup \cup TempGroup :
             m[f] = IF f \in TDPGroup THEN DefaultLimits[f] ELSE l[f]
    BY <1>1, <2>1, FallbackIs
  <2> HIDE DEF m
  <2>3. Repaired(m, TDPGroup \cup TempGroup)
    BY <2>2 DEF Repaired, Settled
  <2>4. m.tdpMin = DefaultLimits.tdpMin /\ m.tdpMaxSafe = DefaultLimits.tdpMaxSafe
          /\ m.tdpMaxForced = DefaultLimits.tdpMaxForced
    BY <2>2 DEF TDPGroup
  <2>5. QED BY <1>3, <2>3, <2>4, DefaultsSound DEF TDPOrdered, m
<1>4. QED BY <1>2, <1>3

LEMMA TempsRepaired ==
  ASSUME NEW l, Repaired(l, TDPGroup \cup TempGroup), TDPOrdered(l)
  PROVE  LET m == SanitizedTemps(l)
         IN /\ Repaired(m, TDPGroup \cup TempGroup) /\ TDPOrdered(m) /\ IsAxis(m)
            /\ IsAxis(l) => m = l
<1> DEFINE m == SanitizedTemps(l)
<1>1. l \in Description /\ l.tempMin \in Int /\ l.tempMax \in Int /\ CurvePoints \in Nat
  BY Index DEF Repaired, Description
<1>2. CASE IsAxis(l)
  BY <1>1, <1>2 DEF SanitizedTemps, IsAxis
<1>3. CASE ~IsAxis(l)
  <2>1. m = Fallback(l, TempGroup)
    BY <1>1, <1>3 DEF SanitizedTemps, IsAxis
  <2>2. /\ m \in Description
        /\ \A f \in TDPGroup \cup TempGroup :
             m[f] = IF f \in TempGroup THEN DefaultLimits[f] ELSE l[f]
    BY <1>1, <2>1, FallbackIs
  <2> HIDE DEF m
  <2>3. Repaired(m, TDPGroup \cup TempGroup)
    BY <2>2 DEF Repaired, Settled
  <2>4. m.tempMin = DefaultLimits.tempMin /\ m.tempMax = DefaultLimits.tempMax
    BY <2>2 DEF TempGroup
  <2>5. m.tdpMin = l.tdpMin /\ m.tdpMaxSafe = l.tdpMaxSafe /\ m.tdpMaxForced = l.tdpMaxForced
    BY <2>2 DEF TempGroup, TDPGroup
  <2>6. TDPOrdered(m)
    BY <2>5 DEF TDPOrdered
  <2>7. QED BY <1>3, <2>3, <2>4, <2>6, DefaultsSound DEF IsAxis, m
<1>4. QED BY <1>2, <1>3

LEMMA FloorGroupRepaired ==
  ASSUME NEW l, Repaired(l, TDPGroup \cup TempGroup), TDPOrdered(l), IsAxis(l)
  PROVE  LET m == SanitizedFloorGroup(l)
         IN /\ Repaired(m, TDPGroup \cup TempGroup) /\ TDPOrdered(m) /\ IsAxis(m)
            /\ FloorGroupSound(m)
            /\ FloorGroupSound(l) => m = l
<1> DEFINE min == Within(l.highTDPMinPWM, PWMMin, PWMMax)
           floor == sanitizedFloor(l.floorCurve, min)
           high == IF floor # <<>> THEN floor[1].pwm ELSE min
           m == SanitizedFloorGroup(l)
<1>1. l \in Description /\ l.highTDPMinPWM \in Int
      /\ l.floorCurve \in Seq([temp : Int, pwm : Int])
  BY DEF Repaired, Description
<1>2. m = [l EXCEPT !.floorCurve = floor, !.highTDPMinPWM = high]
  BY DEF SanitizedFloorGroup
<1>3. min \in 0..PWMMax /\ min \in Int
      /\ (l.highTDPMinPWM \in PWMMin..PWMMax => min = l.highTDPMinPWM)
  BY <1>1, Sizes, WithinIs DEF PWMMin
<1> HIDE DEF min
<1>4. IsFloor(floor) /\ (floor = <<>> => min = 0)
  BY <1>1, <1>3, FloorMade
<1> HIDE DEF m
<1>5. high \in Int /\ high \in PWMMin..PWMMax
  <2>1. CASE floor = <<>>
    BY <1>3, <2>1 DEF PWMMin
  <2>2. CASE floor # <<>>
    <3> HIDE DEF floor
    <3>1. 1 \in 1..Len(floor)
      BY <1>4, <2>2, FloorPoint
    <3>2. floor[1].pwm \in Nat /\ floor[1].pwm <= PWMMax
      BY <1>4, <3>1, FloorPoint
    <3>3. QED BY <2>2, <3>2, Sizes DEF PWMMin
  <2>3. QED BY <2>1, <2>2
<1>6. floor # <<>> => high = floor[1].pwm
  OBVIOUS
<1>7. floor = <<>> => high = PWMMin
  BY <1>4 DEF PWMMin
<1>8. ASSUME FloorGroupSound(l) PROVE floor = l.floorCurve /\ high = l.highTDPMinPWM
  <2>1. CASE l.floorCurve # <<>>
    <3>1. floor = l.floorCurve
      BY <1>8, <2>1, FloorStays DEF FloorGroupSound
    <3> HIDE DEF floor
    <3>2. QED BY <1>8, <2>1, <3>1 DEF FloorGroupSound
  <2>2. CASE l.floorCurve = <<>>
    <3>1. min = PWMMin
      BY <1>3, <1>8, <2>2 DEF FloorGroupSound
    <3>2. floor = <<>>
      BY <2>2, <3>1, Sizes DEF sanitizedFloor, PWMMin
    <3> HIDE DEF floor
    <3>3. QED BY <1>8, <2>2, <3>1, <3>2 DEF FloorGroupSound
  <2>3. QED BY <2>1, <2>2
<1> HIDE DEF floor, high
<1>9. floor \in Seq([temp : Int, pwm : Int])
  BY <1>4 DEF IsFloor
<1>10. /\ m \in Description /\ m.floorCurve = floor /\ m.highTDPMinPWM = high
       /\ \A f \in TDPGroup \cup TempGroup : m[f] = l[f]
  BY <1>1, <1>2, <1>5, <1>9 DEF Description, TDPGroup, TempGroup
<1>11. Repaired(m, TDPGroup \cup TempGroup)
  BY <1>10 DEF Repaired, Settled
<1>12. m.tdpMin = l.tdpMin /\ m.tdpMaxSafe = l.tdpMaxSafe /\ m.tdpMaxForced = l.tdpMaxForced
       /\ m.tempMin = l.tempMin /\ m.tempMax = l.tempMax
  BY <1>10 DEF TDPGroup, TempGroup
<1>13. TDPOrdered(m) /\ IsAxis(m)
  BY <1>12 DEF TDPOrdered, IsAxis
<1>14. FloorGroupSound(m)
  BY <1>4, <1>5, <1>6, <1>7, <1>10 DEF FloorGroupSound
<1>15. FloorGroupSound(l) => m = l
  BY <1>1, <1>2, <1>8 DEF Description
<1>16. QED BY <1>11, <1>13, <1>14, <1>15 DEF m

(* Any description is repaired into one the drawer can work with, and a     *)
(* repaired one is left alone.                                              *)
THEOREM SanitizedIsUsable ==
  ASSUME NEW d \in Description
  PROVE  LET l == Sanitized(d)
         IN /\ l \in Description /\ Usable(l) /\ Sanitized(l) = l
            /\ IsAxis(l) /\ IsFloor(l.floorCurve) /\ l.tdpMaxSafe > 0
<1> DEFINE unset(x) == {f \in TDPGroup \cup TempGroup : x[f] <= 0}
           a(x) == Fallback(x, unset(x))
           b(x) == SanitizedTDP(a(x))
           c(x) == SanitizedTemps(b(x))
           l == Sanitized(d)
<1>1. \A x : Sanitized(x) = SanitizedFloorGroup(c(x))
  BY DEF Sanitized
<1>2. Repaired(a(d), TDPGroup \cup TempGroup)
  BY UnsetRepaired
<1>3. Repaired(b(d), TDPGroup \cup TempGroup) /\ TDPOrdered(b(d))
  <2> HIDE DEF a
  <2>1. QED BY <1>2, TDPRepaired
<1>4. Repaired(c(d), TDPGroup \cup TempGroup) /\ TDPOrdered(c(d)) /\ IsAxis(c(d))
  <2> HIDE DEF b
  <2>1. QED BY <1>3, TempsRepaired
<1>5. /\ Repaired(l, TDPGroup \cup TempGroup) /\ TDPOrdered(l) /\ IsAxis(l)
      /\ FloorGroupSound(l)
  <2> HIDE DEF c
  <2>1. QED BY <1>1, <1>4, FloorGroupRepaired
<1> HIDE DEF l
<1>6. l \in Description
  BY <1>5 DEF Repaired
<1>7. a(l) = l
  BY <1>5, <1>6, UnsetRepaired
<1>8. b(l) = l
  <2> HIDE DEF a
  <2>1. QED BY <1>5, <1>7, TDPRepaired
<1>9. c(l) = l
  <2> HIDE DEF b
  <2>1. QED BY <1>5, <1>8, TempsRepaired
<1>10. Sanitized(l) = l
  <2> HIDE DEF c
  <2>1. SanitizedFloorGroup(l) = l
    BY <1>5, FloorGroupRepaired
  <2>2. QED BY <1>1, <1>9, <2>1
<1>11. Usable(l)
  BY <1>5 DEF Usable, TDPOrdered, IsAxis, FloorGroupSound, IsFloor
<1>12. l.tdpMaxSafe > 0
  <2>1. Settled(l, "tdpMaxSafe")
    BY <1>5 DEF Repaired, TDPGroup
  <2>2. DefaultLimits.tdpMin \in Int /\ DefaultLimits.tdpMaxSafe \in Int
        /\ DefaultLimits.tdpMin < DefaultLimits.tdpMaxSafe /\ DefaultLimits.tdpMin > 0
    BY Sizes, DefaultsSound DEF TDPOrdered, Description
  <2>3. QED BY <2>1, <2>2 DEF Settled
<1>13. IsFloor(l.floorCurve)
  BY <1>5 DEF FloorGroupSound
<1>14. QED BY <1>5, <1>6, <1>10, <1>11, <1>12, <1>13 DEF l

-----------------------------------------------------------------------------
(* The editor.                                                              *)

LEMMA DeviceIs ==
  ASSUME limits \in Devices
  PROVE  /\ limits \in Description /\ Usable(limits) /\ Sanitized(limits) = limits
         /\ IsAxis(limits) /\ IsFloor(limits.floorCurve) /\ limits.tdpMaxSafe > 0
<1>1. PICK d \in Described : limits = Sanitized(d)
  BY DEF Devices
<1>2. d \in Description
  BY FanEditorAssumption DEF FanEditorAssumption
<1>3. QED BY <1>1, <1>2, SanitizedIsUsable

LEMMA Given ==
  /\ Placeholder \in Curves /\ ForeignCurves \subseteq Curves
  /\ \A x \in {0} \cup Watts : x \in Nat
  /\ Idle \in [tdp : {0} \cup Watts, curve : Curves \cup {<<>>}, drawnFor : {0} \cup Watts]
BY FanEditorAssumption DEF FanEditorAssumption, Idle

(* The floor in force under a limit: none, or the device's.                 *)
LEMMA FloorOf ==
  ASSUME limits \in Devices, NEW x \in {0} \cup Watts
  PROVE  /\ IsFloor(ActiveFloor(limits, x))
         /\ ActiveFloor(limits, x) \in {<<>>, limits.floorCurve}
         /\ x = 0 => ActiveFloor(limits, x) = <<>>
<1>1. IsFloor(<<>>)
  <2>1. <<>> \in Seq([temp : Int, pwm : Int]) /\ Len(<<>>) = 0 /\ DOMAIN <<>> = {}
    OBVIOUS
  <2>2. QED BY <2>1 DEF IsFloor, Ascends
<1>2. limits.tdpMaxSafe \in Int /\ limits.tdpMaxSafe > 0 /\ IsFloor(limits.floorCurve)
  BY DeviceIs DEF Description
<1>3. QED BY <1>1, <1>2 DEF ActiveFloor

(* The button's condition is about the floor of the device.                 *)
LEMMA ButtonFloor ==
  ASSUME limits \in Devices, NEW x \in {0} \cup Watts
  PROVE  ~(FanFloorPWM(limits, x) > 0)
           <=> ActiveFloor(limits, x) = <<>> \/ limits.highTDPMinPWM = PWMMin
<1>1. CASE ActiveFloor(limits, x) = <<>>
  BY <1>1 DEF FanFloorPWM, PWMMin
<1>2. CASE ActiveFloor(limits, x) # <<>>
  <2>1. ActiveFloor(limits, x) = limits.floorCurve /\ limits.floorCurve # <<>>
    BY <1>2, FloorOf
  <2>2. limits.highTDPMinPWM = limits.floorCurve[1].pwm /\ limits.highTDPMinPWM \in 0..PWMMax
    BY <2>1, DeviceIs DEF Usable, PWMMin
  <2>3. FanFloorPWM(limits, x) = limits.highTDPMinPWM
    BY <2>1, <2>2 DEF FanFloorPWM
  <2>4. QED BY <1>2, <2>2, <2>3, Sizes DEF PWMMin
<1>3. QED BY <1>1, <1>2

LEMMA NoFloorAt == \A temp : FloorPWMAt(<<>>, temp) = 0
BY DEF FloorPWMAt, PWMMin

(* What a curve keeps under a floor it keeps without one.                   *)
LEMMA WithoutFloor ==
  ASSUME NEW l, NEW c, NEW floor, IsFloor(floor),
         \A i \in Indices : c[i].pwm \in Int,
         Acceptable(l, c, floor)
  PROVE  Acceptable(l, c, <<>>)
<1>1. ASSUME NEW i \in Indices
      PROVE  c[i].pwm \in FloorPWMAt(<<>>, c[i].temp)..PWMMax
  <2>1. c[i].temp \in Int /\ c[i].pwm \in FloorPWMAt(floor, c[i].temp)..PWMMax
    BY DEF Acceptable
  <2>2. FloorPWMAt(floor, c[i].temp) \in 0..PWMMax
    BY <2>1, FloorIsPWM
  <2>3. FloorPWMAt(<<>>, c[i].temp) = 0
    BY NoFloorAt
  <2>4. QED BY <2>1, <2>2, <2>3, Sizes
<1>2. QED BY <1>1 DEF Acceptable

(* Whatever is repaired is a curve that is acceptable.                      *)
LEMMA RepairedCurve ==
  ASSUME limits \in Devices, NEW c \in Curves, NEW idx \in Indices, NEW x \in {0} \cup Watts
  PROVE  LET new == EnforceCurve(limits, c, idx, ActiveFloor(limits, x))
         IN new \in Curves /\ Acceptable(limits, new, ActiveFloor(limits, x))
<1>1. IsAxis(limits) /\ IsFloor(ActiveFloor(limits, x))
  BY DeviceIs, FloorOf
<1>2. EnforceCurve(limits, c, idx, ActiveFloor(limits, x)) \in Curves
  BY <1>1, Enforced
<1>3. QED BY <1>1, <1>2, EnforcedIsAcceptable

LEMMA DefaultIs ==
  ASSUME limits \in Devices
  PROVE  DefaultCurve(limits) \in Curves /\ Acceptable(limits, DefaultCurve(limits), <<>>)
<1>1. ActiveFloor(limits, 0) = <<>>
  BY FloorOf
<1>2. QED BY <1>1, RepairedCurve, Given, Index DEF DefaultCurve

(* What syncCustomView leaves behind.                                       *)
LEMMA Synced ==
  ASSUME limits \in Devices, NEW s, s.pl1 \in {0} \cup Watts, s.curve \in Curves,
         syncCustomView(s)
  PROVE  /\ points' \in Curves /\ Acceptable(limits, points', ActiveFloor(limits, s.pl1))
         /\ drawnFor' = s.pl1
         /\ resetOn' = ~(FanFloorPWM(limits, s.pl1) > 0) /\ resetOn' \in BOOLEAN
<1> DEFINE shown == IF s.custom THEN s.curve ELSE DefaultCurve(limits)
<1>1. shown \in Curves
  BY DefaultIs
<1>2. points' = EnforceCurve(limits, shown, 1, ActiveFloor(limits, s.pl1))
  BY DEF syncCustomView, floorOf
<1>3. points' \in Curves /\ Acceptable(limits, points', ActiveFloor(limits, s.pl1))
  <2> HIDE DEF shown
  <2>1. QED BY <1>1, <1>2, RepairedCurve, Index
<1>4. QED BY <1>3 DEF syncCustomView, syncFanResetSensitivity

(* The curve with the point under the finger moved to temp and pwm.         *)
LEMMA MovedCurve ==
  ASSUME TypeOK, dragging # 0, NEW temp \in Int, NEW pwm \in Int
  PROVE  LET moved == [points EXCEPT ![dragging] = Point(temp, pwm)]
         IN /\ dragging \in Indices /\ moved \in Curves
            /\ moved[dragging].temp = temp /\ moved[dragging].pwm = pwm
BY DEF TypeOK, Curves, Point

-----------------------------------------------------------------------------
(* The inductive invariant: the types, and that the curve drawn, like a     *)
(* curve on its way to the daemon, is acceptable under the limit it was     *)
(* last repaired for, or without a floor while there was none to go by.     *)

SavingSound ==
  saving # Idle =>
    /\ saving.curve \in Curves
    /\ Acceptable(limits, saving.curve, ActiveFloor(limits, saving.drawnFor))

DrawnSound ==
  Acceptable(limits, points, ActiveFloor(limits, drawnFor)) /\ SavingSound

Repairing ==
  \/ ShowCustomView \/ Refresh
  \/ \E temp \in limits.tempMin..limits.tempMax, pwm \in PWMMin..PWMMax :
       DragUpdate(temp, pwm)

(* What a step may do to the curve: nothing, or replace it by one that is   *)
(* acceptable under the limit known then.                                   *)
LEMMA Redrawn ==
  ASSUME TypeOK, Repairing
  PROVE  /\ points' \in Curves /\ drawnFor' \in {0} \cup Watts /\ resetOn' \in BOOLEAN
         /\ \/ UNCHANGED <<points, drawnFor>>
            \/ Acceptable(limits, points', ActiveFloor(limits, drawnFor'))
<1>1. CASE ShowCustomView
  <2>1. CASE state.pl1 = 0
    BY <1>1, <2>1 DEF ShowCustomView, TypeOK
  <2>2. CASE state.pl1 # 0
    <3>1. state.pl1 \in {0} \cup Watts /\ state.curve \in Curves /\ syncCustomView(state)
      BY <1>1, <2>2 DEF ShowCustomView, TypeOK
    <3>2. QED BY <3>1, Synced DEF TypeOK
  <2>3. QED BY <2>1, <2>2
<1>2. CASE Refresh
  <2>1. daemon.pl1 \in {0} \cup Watts /\ daemon.curve \in Curves /\ syncCustomView(daemon)
    BY <1>2 DEF Refresh, TypeOK, Snapshot
  <2>2. QED BY <2>1, Synced DEF TypeOK
<1>3. ASSUME NEW temp \in limits.tempMin..limits.tempMax, NEW pwm \in PWMMin..PWMMax,
             DragUpdate(temp, pwm)
      PROVE  /\ points' \in Curves
             /\ Acceptable(limits, points', ActiveFloor(limits, drawnFor'))
             /\ drawnFor' = state.pl1 /\ resetOn' = resetOn
  <2> DEFINE moved == [points EXCEPT ![dragging] = Point(temp, pwm)]
  <2>1. dragging # 0 /\ temp \in Int /\ pwm \in Int
    BY <1>3 DEF DragUpdate
  <2>2. dragging \in Indices /\ moved \in Curves
    BY <2>1, MovedCurve
  <2>3. /\ points' = EnforceCurve(limits, moved, dragging, ActiveFloor(limits, state.pl1))
        /\ drawnFor' = state.pl1 /\ resetOn' = resetOn
    BY <1>3 DEF DragUpdate, floorOf
  <2>4. state.pl1 \in {0} \cup Watts
    BY DEF TypeOK
  <2> HIDE DEF moved
  <2>5. QED BY <2>2, <2>3, <2>4, RepairedCurve DEF TypeOK
<1>4. CASE \E temp \in limits.tempMin..limits.tempMax, pwm \in PWMMin..PWMMax :
             DragUpdate(temp, pwm)
  <2>1. points' \in Curves /\ Acceptable(limits, points', ActiveFloor(limits, drawnFor'))
    BY <1>3, <1>4
  <2>2. drawnFor' = state.pl1 /\ resetOn' = resetOn
    BY <1>3, <1>4
  <2>3. QED BY <2>1, <2>2 DEF TypeOK
<1>5. QED BY <1>1, <1>2, <1>4 DEF Repairing

(* The daemon answers a write with one of its states.                       *)
LEMMA Taken ==
  ASSUME TypeOK, NEW pl1 \in Watts
  PROVE  TakesLimit(pl1) \subseteq Snapshot
BY DEF TypeOK, TakesLimit, Snapshot

LEMMA DaemonTyped ==
  ASSUME TypeOK, WriteTDP \/ WriteCurve \/ ResetFans \/ LimitChange,
         SavingSound
  PROVE  daemon' \in Snapshot
<1>1. CASE WriteTDP
  <2>1. saving.tdp \in Watts /\ daemon' \in {daemon} \cup TakesLimit(saving.tdp)
    BY <1>1 DEF WriteTDP, TypeOK
  <2>2. QED BY <2>1, Taken DEF TypeOK
<1>2. CASE WriteCurve
  <2>1. saving.curve \in Curves
    BY <1>2 DEF WriteCurve, SavingSound
  <2>2. \/ daemon' = daemon
        \/ daemon' = [daemon EXCEPT !.curve = saving.curve, !.custom = TRUE]
    BY <1>2 DEF WriteCurve
  <2>3. QED BY <2>1, <2>2 DEF TypeOK, Snapshot
<1>3. CASE ResetFans
  BY <1>3 DEF ResetFans, TypeOK, Snapshot
<1>4. CASE LimitChange
  <2>1. PICK pl1 \in Watts :
          \/ daemon' \in TakesLimit(pl1)
          \/ daemon' = [daemon EXCEPT !.pl1 = pl1, !.custom = FALSE]
    BY <1>4 DEF LimitChange
  <2>2. QED BY <2>1, Taken DEF TypeOK, Snapshot
<1>5. QED BY <1>1, <1>2, <1>3, <1>4

LEMMA InitInv == Init => TypeOK /\ DrawnSound
<1> SUFFICES ASSUME Init PROVE TypeOK /\ DrawnSound
  OBVIOUS
<1>1. limits \in Devices /\ points = DefaultCurve(limits) /\ saving = Idle /\ drawnFor = 0
  BY DEF Init
<1>2. points \in Curves /\ Acceptable(limits, points, <<>>)
  BY <1>1, DefaultIs
<1>3. daemon \in Snapshot
  BY Given DEF Init, Snapshot
<1>4. state \in [pl1 : {0} \cup Watts, curve : Curves, custom : BOOLEAN]
  BY <1>3 DEF Init, Snapshot
<1>5. TypeOK
  BY <1>1, <1>2, <1>3, <1>4, Given DEF Init, TypeOK
<1>6. DrawnSound
  BY <1>1, <1>2, FloorOf DEF DrawnSound, SavingSound
<1>7. QED BY <1>5, <1>6

LEMMA InvStep == TypeOK /\ DrawnSound /\ [Next]_vars => TypeOK' /\ DrawnSound'
<1> SUFFICES ASSUME TypeOK, DrawnSound, [Next]_vars PROVE TypeOK' /\ DrawnSound'
  OBVIOUS
<1>1. CASE Repairing
  <2>1. limits' = limits /\ saving' = saving /\ daemon' = daemon /\ dragging' = dragging
    BY <1>1 DEF Repairing, ShowCustomView, Refresh, DragUpdate
  <2>2. front' \in BOOLEAN /\ state' \in {state, daemon}
    BY <1>1 DEF Repairing, ShowCustomView, Refresh, DragUpdate, TypeOK
  <2>3. state' \in [pl1 : {0} \cup Watts, curve : Curves, custom : BOOLEAN]
    BY <2>2 DEF TypeOK, Snapshot
  <2>4. points' \in Curves /\ drawnFor' \in {0} \cup Watts /\ resetOn' \in BOOLEAN
    BY <1>1, Redrawn
  <2>5. TypeOK'
    BY <2>1, <2>2, <2>3, <2>4 DEF TypeOK
  <2>6. Acceptable(limits, points', ActiveFloor(limits, drawnFor'))
    BY <1>1, Redrawn DEF DrawnSound
  <2>7. QED BY <2>1, <2>5, <2>6 DEF DrawnSound, SavingSound
<1>2. CASE ShowMainView \/ Poll \/ (\E i \in Indices : DragBegin(i)) \/ DragEnd
  <2>1. /\ UNCHANGED <<limits, points, saving, daemon, drawnFor>>
        /\ front' \in BOOLEAN /\ resetOn' \in BOOLEAN /\ dragging' \in {0} \cup Indices
        /\ state' \in {state, daemon}
    BY <1>2 DEF ShowMainView, Poll, DragBegin, DragEnd, syncFanResetSensitivity, TypeOK
  <2>2. state' \in [pl1 : {0} \cup Watts, curve : Curves, custom : BOOLEAN]
    BY <2>1 DEF TypeOK, Snapshot
  <2>3. QED BY <2>1, <2>2 DEF TypeOK, DrawnSound, SavingSound
<1>3. CASE \E tdp \in {0} \cup Watts : Save(tdp)
  <2>1. PICK tdp \in {0} \cup Watts : Save(tdp)
    BY <1>3
  <2>2. /\ UNCHANGED <<limits, front, points, dragging, resetOn, state, daemon, drawnFor>>
        /\ saving' = [tdp |-> tdp, curve |-> points, drawnFor |-> drawnFor]
    BY <2>1 DEF Save
  <2>3. TypeOK'
    BY <2>2 DEF TypeOK
  <2>4. QED BY <2>2, <2>3 DEF TypeOK, DrawnSound, SavingSound
<1>4. CASE WriteTDP \/ WriteCurve \/ ResetFans \/ LimitChange
  <2>1. UNCHANGED <<limits, front, points, dragging, resetOn, state, drawnFor>>
    BY <1>4 DEF WriteTDP, WriteCurve, ResetFans, LimitChange
  <2>2. daemon' \in Snapshot
    BY <1>4, DaemonTyped DEF DrawnSound
  <2>3. \/ saving' \in {saving, Idle}
        \/ saving.tdp # 0 /\ saving' = [saving EXCEPT !.tdp = 0]
    BY <1>4 DEF WriteTDP, WriteCurve, ResetFans, LimitChange
  <2>4. saving' \in [tdp : {0} \cup Watts, curve : Curves \cup {<<>>}, drawnFor : {0} \cup Watts]
    BY <2>3, Given DEF TypeOK
  <2>5. saving' # Idle =>
          saving # Idle /\ saving'.curve = saving.curve /\ saving'.drawnFor = saving.drawnFor
    BY <2>3 DEF TypeOK, Idle
  <2>6. TypeOK'
    BY <2>1, <2>2, <2>4 DEF TypeOK
  <2>7. SavingSound'
    BY <2>1, <2>5 DEF DrawnSound, SavingSound
  <2>8. QED BY <2>1, <2>6, <2>7 DEF DrawnSound
<1>5. CASE UNCHANGED vars
  BY <1>5 DEF vars, TypeOK, DrawnSound, SavingSound
<1>6. QED BY <1>1, <1>2, <1>3, <1>4, <1>5 DEF Next, Repairing

(* The editor's state is well typed: the device is a sanitized one, what is *)
(* drawn is a curve, and so is what the daemon and a save under way hold.   *)
THEOREM TypeCorrect == Spec => []TypeOK
BY InitInv, InvStep, PTL DEF Spec

LEMMA DrawnInv == Spec => [](TypeOK /\ DrawnSound)
BY InitInv, InvStep, PTL DEF Spec

(* Whatever description the daemon serves, the drawer works with a usable   *)
(* one that another Sanitized would leave alone.                            *)
THEOREM DeviceUsable == Spec => []LimitsUsable
<1>1. TypeOK => LimitsUsable
  BY DeviceIs DEF TypeOK, LimitsUsable
<1>2. QED BY <1>1, TypeCorrect, PTL

(* The curve drawn is always one that the daemon would take under the limit *)
(* it was repaired for.                                                     *)
THEOREM DrawnIsAcceptable == Spec => []DrawnCurveAcceptable
<1>1. TypeOK /\ DrawnSound => DrawnCurveAcceptable
  BY DEF DrawnSound, DrawnCurveAcceptable
<1>2. QED BY <1>1, DrawnInv, PTL

(* A saved curve is refused only under a floor that was not in force when   *)
(* it was drawn.                                                            *)
THEOREM OnlyNewFloorRefuses == Spec => []RefusedOnlyUnderNewFloor
<1>1. TypeOK /\ DrawnSound => RefusedOnlyUnderNewFloor
  <2> DEFINE then == ActiveFloor(limits, saving.drawnFor)
             now == ActiveFloor(limits, daemon.pl1)
  <2> SUFFICES ASSUME TypeOK, DrawnSound, saving # Idle,
                      ~Acceptable(limits, saving.curve, now)
               PROVE  then = <<>> /\ now # <<>>
    BY DEF RefusedOnlyUnderNewFloor, floorOf
  <2>1. saving.curve \in Curves /\ Acceptable(limits, saving.curve, then)
    BY DEF DrawnSound, SavingSound
  <2>2. \A i \in Indices : saving.curve[i].pwm \in Int
    BY <2>1 DEF Curves
  <2>3. /\ limits \in Devices /\ saving.drawnFor \in {0} \cup Watts
        /\ daemon.pl1 \in {0} \cup Watts
    BY DEF TypeOK, Snapshot
  <2>4. /\ IsFloor(then) /\ then \in {<<>>, limits.floorCurve}
        /\ now \in {<<>>, limits.floorCurve}
    BY <2>3, FloorOf
  <2> HIDE DEF then, now
  <2>5. Acceptable(limits, saving.curve, <<>>)
    BY <2>1, <2>2, <2>4, WithoutFloor
  <2>6. QED BY <2>1, <2>4, <2>5
<1>2. QED BY <1>1, DrawnInv, PTL

(* The point under the finger goes where the finger is, as near as the room *)
(* for its neighbours allows, and only a floor lifts it.                    *)
THEOREM PointFollowsFinger == Spec => []MovedPointWins
<1>1. TypeOK => MovedPointWins
  <2> SUFFICES ASSUME TypeOK, dragging # 0,
                      NEW temp \in limits.tempMin..limits.tempMax, NEW pwm \in PWMMin..PWMMax
               PROVE  LET moved == [points EXCEPT ![dragging] = Point(temp, pwm)]
                          new == EnforceCurve(limits, moved, dragging, floorOf(state))
                          room == (limits.tempMin + dragging - 1)
                                    ..(limits.tempMax - (CurvePoints - dragging))
                      IN /\ \A t \in room :
                              Distance(new[dragging].temp, temp) <= Distance(t, temp)
                         /\ new[dragging].pwm >= pwm
                         /\ floorOf(state) = <<>> => new[dragging].pwm = pwm
                         /\ Acceptable(limits, moved, floorOf(state)) => new = moved
    BY DEF MovedPointWins
  <2> DEFINE moved == [points EXCEPT ![dragging] = Point(temp, pwm)]
             new == EnforceCurve(limits, moved, dragging, floorOf(state))
             lo == limits.tempMin + dragging - 1
             hi == limits.tempMax - (CurvePoints - dragging)
  <2>1. temp \in Int /\ pwm \in Int /\ pwm \in 0..PWMMax
    BY DEF PWMMin
  <2>2. /\ dragging \in Indices /\ moved \in Curves
        /\ moved[dragging].temp = temp /\ moved[dragging].pwm = pwm
    BY <2>1, MovedCurve
  <2>3. state.pl1 \in {0} \cup Watts /\ limits \in Devices
    BY DEF TypeOK
  <2>4. IsAxis(limits) /\ IsFloor(floorOf(state))
    BY <2>3, DeviceIs, FloorOf DEF floorOf
  <2> HIDE DEF moved
  <2>5. /\ new[dragging].temp = MovedTemp(limits, temp, dragging)
        /\ new[dragging].pwm >= pwm
        /\ floorOf(state) = <<>> => new[dragging].pwm = pwm
    BY <2>1, <2>2, <2>4, MovedHasItsWay
  <2>6. Acceptable(limits, moved, floorOf(state)) => new = moved
    BY <2>2, <2>4, AcceptableStays
  <2>7. /\ lo \in Int /\ hi \in Int /\ lo <= hi
        /\ MovedTemp(limits, temp, dragging)
             = IF temp < lo THEN lo ELSE IF temp > hi THEN hi ELSE temp
    BY <2>1, <2>2, <2>4, MovedIs
  <2> HIDE DEF new
  <2>8. ASSUME NEW t \in lo..hi
        PROVE  Distance(new[dragging].temp, temp) <= Distance(t, temp)
    <3> HIDE DEF lo, hi
    <3>1. QED BY <2>1, <2>5, <2>7 DEF Distance
  <2>9. QED BY <2>5, <2>6, <2>8 DEF moved, new
<1>2. QED BY <1>1, TypeCorrect, PTL

-----------------------------------------------------------------------------
(* The button is set whenever the state or the view changes.                *)
ButtonInv ==
  front /\ state.pl1 # 0 => resetOn = ~(FanFloorPWM(limits, state.pl1) > 0)

LEMMA ButtonStep == TypeOK /\ ButtonInv /\ [Next]_vars => ButtonInv'
<1> SUFFICES ASSUME TypeOK, ButtonInv, [Next]_vars PROVE ButtonInv'
  OBVIOUS
<1>1. CASE ShowCustomView
  <2>1. CASE state.pl1 = 0
    BY <1>1, <2>1 DEF ShowCustomView, ButtonInv
  <2>2. CASE state.pl1 # 0
    <3>1. /\ state' = state /\ limits' = limits
          /\ resetOn' = ~(FanFloorPWM(limits, state.pl1) > 0)
      BY <1>1, <2>2 DEF ShowCustomView, syncCustomView, syncFanResetSensitivity
    <3>2. QED BY <3>1 DEF ButtonInv
  <2>3. QED BY <2>1, <2>2
<1>2. CASE Refresh
  BY <1>2 DEF Refresh, syncCustomView, syncFanResetSensitivity, ButtonInv
<1>3. CASE Poll
  <2>1. state' = daemon /\ front' = front /\ limits' = limits
    BY <1>3 DEF Poll
  <2>2. front => resetOn' = ~(FanFloorPWM(limits, daemon.pl1) > 0)
    BY <1>3 DEF Poll, syncFanResetSensitivity
  <2>3. QED BY <2>1, <2>2 DEF ButtonInv
<1>4. CASE ShowMainView
  BY <1>4 DEF ShowMainView, ButtonInv
<1>5. CASE \/ \E i \in Indices : DragBegin(i)
           \/ \E temp \in limits.tempMin..limits.tempMax, pwm \in PWMMin..PWMMax :
                DragUpdate(temp, pwm)
           \/ DragEnd \/ \E tdp \in {0} \cup Watts : Save(tdp)
  BY <1>5 DEF DragBegin, DragUpdate, DragEnd, Save, ButtonInv
<1>6. CASE WriteTDP \/ WriteCurve \/ ResetFans \/ LimitChange
  BY <1>6 DEF WriteTDP, WriteCurve, ResetFans, LimitChange, ButtonInv
<1>7. CASE UNCHANGED vars
  BY <1>7 DEF vars, ButtonInv
<1>8. QED BY <1>1, <1>2, <1>3, <1>4, <1>5, <1>6, <1>7 DEF Next

(* Whichever way the state was learned, Reset Fans is on offer in front of  *)
(* the user exactly while no floor is in force.                             *)
THEOREM ButtonFollowsFloor == Spec => []ResetFollowsFloor
<1>1. Init => ButtonInv
  BY DEF Init, ButtonInv
<1>2. TypeOK /\ ButtonInv => ResetFollowsFloor
  <2> SUFFICES ASSUME TypeOK, ButtonInv, front, state.pl1 # 0
               PROVE  resetOn <=> floorOf(state) = <<>> \/ limits.highTDPMinPWM = PWMMin
    BY DEF ResetFollowsFloor
  <2>1. state.pl1 \in {0} \cup Watts /\ limits \in Devices
    BY DEF TypeOK
  <2>2. resetOn <=> ~(FanFloorPWM(limits, state.pl1) > 0)
    BY DEF ButtonInv
  <2>3. QED BY <2>1, <2>2, ButtonFloor DEF floorOf
<1>3. QED BY <1>1, <1>2, ButtonStep, TypeCorrect, PTL DEF Spec
=============================================================================
