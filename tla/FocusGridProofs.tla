-------------------------- MODULE FocusGridProofs ---------------------------
(***************************************************************************)
(* Proofs about FocusGrid and GridWalk, for focus lists of any length,     *)
(* rows, columns and sections, showing any groups: a move stays in the     *)
(* list, if it goes anywhere it goes to a visible item, and the opposite   *)
(* move undoes it; and so on any walk, whatever is shown or hidden between *)
(* its presses.  The D-pad alone reaches every visible item.               *)
(*                                                                         *)
(* All of it rests on Least and Greatest being what they are called.  That *)
(* a set of numbers has a least member is WFMin; a greatest one is the     *)
(* least of its bounds; and that the rows of a list have a bound is an     *)
(* induction, by way of the least prefix of the list that has none.        *)
(* Opposite moves undo each other because Turn does (TurnBack), and because*)
(* a place in the order belongs to one item only (PlaceIsUnique).  The     *)
(* D-pad reaches all because every round of presses adds an item or is the *)
(* last that could, and what no press leaves is everything: turning on and *)
(* on goes through all the rows, and in each through all its items         *)
(* (TurningReachesAll).                                                    *)
(***************************************************************************)
EXTENDS GridWalk, SequenceTheorems, FiniteSetTheorems, WellFoundedInduction, TLAPS

-----------------------------------------------------------------------------
(* Least and greatest members.                                              *)

LEMMA LeastIsLeast ==
  ASSUME NEW S \in SUBSET Nat, S # {}
  PROVE  Least(S) \in S /\ \A y \in S : Least(S) <= y
<1>1. \E x \in S : \A y \in S : ~ (<<y, x>> \in OpToRel(<, Nat))
  BY WFMin, NatLessThanWellFounded
<1>2. PICK x \in S : \A y \in S : ~ (<<y, x>> \in OpToRel(<, Nat))
  BY <1>1
<1>3. \A y \in S : ~ (y < x)
  BY <1>2 DEF OpToRel
<1>4. \A y \in S : x <= y
  BY <1>3
<1>5. QED BY <1>4 DEF Least

LEMMA GreatestIsGreatest ==
  ASSUME NEW S \in SUBSET Nat, S # {}, NEW b \in Nat, \A x \in S : x <= b
  PROVE  Greatest(S) \in S /\ \A y \in S : y <= Greatest(S)
<1> DEFINE T == {n \in Nat : \A x \in S : x <= n}
           t == Least(T)
<1>1. t \in T /\ \A n \in T : t <= n
  <2>1. T \in SUBSET Nat /\ T # {}
    OBVIOUS
  <2> HIDE DEF T
  <2>2. QED BY <2>1, LeastIsLeast
<1> HIDE DEF t
<1>2. t \in S
  <2>1. SUFFICES ASSUME t \notin S PROVE FALSE
    OBVIOUS
  <2>2. \A x \in S : x < t
    BY <1>1, <2>1
  <2>3. t - 1 \in T
    <3>1. t \in Nat /\ \E x \in S : x \in Nat /\ x < t
      BY <1>1, <2>2
    <3>2. t - 1 \in Nat
      BY <3>1
    <3>3. ASSUME NEW x \in S PROVE x <= t - 1
      <4>1. x \in Nat /\ x < t
        BY <2>2
      <4>2. QED BY <3>1, <4>1
    <3>4. QED BY <3>2, <3>3
  <2>4. QED BY <1>1, <2>3
<1>3. \E x \in S : \A y \in S : y <= x
  BY <1>1, <1>2
<1>4. QED BY <1>3 DEF Greatest

(* The numbers of a list have a bound.                                      *)
LEMMA HasBound ==
  ASSUME NEW n \in Nat, NEW f \in [1..n -> Nat]
  PROVE  \E b \in Nat : \A i \in 1..n : f[i] <= b
<1> DEFINE Unbounded == {k \in 0..n : ~ \E b \in Nat : \A i \in 1..k : f[i] <= b}
<1>1. SUFFICES ASSUME Unbounded # {} PROVE FALSE
  <2>1. n \in 0..n
    OBVIOUS
  <2>2. n \notin Unbounded => \E b \in Nat : \A i \in 1..n : f[i] <= b
    BY <2>1
  <2>3. QED BY <2>2
<1> DEFINE k == Least(Unbounded)
<1>2. k \in Unbounded /\ \A j \in Unbounded : k <= j
  <2>1. Unbounded \in SUBSET Nat
    OBVIOUS
  <2> HIDE DEF Unbounded
  <2>2. QED BY <1>1, <2>1, LeastIsLeast
<1> HIDE DEF k
<1>3. k # 0
  <2>1. \A i \in 1..0 : f[i] <= 0
    OBVIOUS
  <2>2. QED BY <1>2, <2>1
<1>4. PICK b \in Nat : \A i \in 1..(k - 1) : f[i] <= b
  <2>1. k \in 0..n
    BY <1>2
  <2>2. k - 1 \in 0..n
    BY <1>3, <2>1
  <2>3. k - 1 \notin Unbounded
    <3> HIDE DEF Unbounded
    <3>1. QED BY <1>2, <2>1, <2>2
  <2>4. QED BY <2>2, <2>3
<1>5. k \in 1..n /\ f[k] \in Nat
  BY <1>2, <1>3
<1>6. \A i \in 1..k : f[i] <= b + f[k]
  <2> TAKE i \in 1..k
  <2>1. CASE i = k
    BY <1>5, <2>1
  <2>2. CASE i \in 1..(k - 1)
    <3>1. f[i] \in Nat /\ f[i] <= b
      BY <1>4, <1>5, <2>2
    <3>2. QED BY <1>5, <3>1
  <2>3. QED BY <1>5, <2>1, <2>2
<1>7. b + f[k] \in Nat
  BY <1>5
<1>8. QED BY <1>2, <1>6, <1>7

(* The members of a set that a list of numbers covers, and the turn in it.  *)
LEMMA TurnStays ==
  ASSUME NEW n \in Nat, NEW f \in [1..n -> Nat],
         NEW S \in SUBSET {f[i] : i \in 1..n}, S # {},
         NEW x, NEW dir \in Dirs
  PROVE  Turn(S, x, dir) \in S
<1>1. PICK b \in Nat : \A i \in 1..n : f[i] <= b
  BY HasBound
<1>2. S \in SUBSET Nat /\ \A y \in S : y <= b
  BY <1>1
<1> DEFINE beyond == {y \in S : dir * y > dir * x}
           from == IF beyond = {} THEN S ELSE beyond
<1>3. from \in SUBSET S /\ from # {}
  OBVIOUS
<1> HIDE DEF from
<1>4. Least(from) \in from /\ Greatest(from) \in from
  BY <1>2, <1>3, LeastIsLeast, GreatestIsGreatest
<1>5. Turn(S, x, dir) \in {Least(from), Greatest(from)}
  BY DEF Turn, from
<1>6. QED BY <1>3, <1>4, <1>5

(* One turn: the neighbour on that side, or from the last the first.        *)
LEMMA TurnUp ==
  ASSUME NEW n \in Nat, NEW f \in [1..n -> Nat],
         NEW S \in SUBSET {f[i] : i \in 1..n}, NEW x \in S
  PROVE  LET y == Turn(S, x, 1)
         IN /\ y \in S
            /\ \/ x < y /\ \A z \in S : x < z => y <= z
               \/ \A z \in S : z <= x /\ y <= z
<1> DEFINE beyond == {z \in S : 1 * z > 1 * x}
           from == IF beyond = {} THEN S ELSE beyond
           y == Turn(S, x, 1)
<1>1. S \in SUBSET Nat
  OBVIOUS
<1>2. y = Least(from)
  BY DEF Turn
<1>3. \A z \in S : z \in beyond <=> x < z
  BY <1>1
<1>4. beyond \in SUBSET S
  OBVIOUS
<1> HIDE DEF beyond
<1>5. from \in SUBSET Nat /\ from # {} /\ from \in SUBSET S
  BY <1>1, <1>4
<1> HIDE DEF from
<1>6. y \in from /\ \A z \in from : y <= z
  BY <1>2, <1>5, LeastIsLeast
<1> HIDE DEF y
<1>7. CASE beyond = {}
  <2>1. from = S
    BY <1>7 DEF from
  <2>2. \A z \in S : z <= x
    BY <1>1, <1>3, <1>7
  <2>3. QED BY <1>6, <2>1, <2>2 DEF y
<1>8. CASE beyond # {}
  <2>1. from = beyond
    BY <1>8 DEF from
  <2>2. QED BY <1>3, <1>4, <1>6, <2>1 DEF y
<1>9. QED BY <1>7, <1>8

LEMMA TurnDown ==
  ASSUME NEW n \in Nat, NEW f \in [1..n -> Nat],
         NEW S \in SUBSET {f[i] : i \in 1..n}, NEW x \in S, NEW dir \in Dirs, dir # 1
  PROVE  LET y == Turn(S, x, dir)
         IN /\ y \in S
            /\ \/ y < x /\ \A z \in S : z < x => z <= y
               \/ \A z \in S : x <= z /\ z <= y
<1> DEFINE beyond == {z \in S : dir * z > dir * x}
           from == IF beyond = {} THEN S ELSE beyond
           y == Turn(S, x, dir)
<1>1. S \in SUBSET Nat
  OBVIOUS
<1>2. y = Greatest(from)
  BY DEF Turn
<1>3. \A z \in S : z \in beyond <=> z < x
  <2>1. dir = -1
    BY DEF Dirs
  <2>2. \A z \in Int : -1 * z = -z
    OBVIOUS
  <2>3. \A z \in S : dir * z > dir * x <=> -z > -x
    BY <1>1, <2>1, <2>2
  <2>4. QED BY <1>1, <2>3
<1>4. beyond \in SUBSET S
  OBVIOUS
<1>5. PICK b \in Nat : \A i \in 1..n : f[i] <= b
  BY HasBound
<1>6. \A z \in S : z <= b
  BY <1>5
<1> HIDE DEF beyond
<1>7. from \in SUBSET Nat /\ from # {} /\ from \in SUBSET S
  BY <1>1, <1>4
<1> HIDE DEF from
<1>8. y \in from /\ \A z \in from : z <= y
  BY <1>2, <1>6, <1>7, GreatestIsGreatest
<1> HIDE DEF y
<1>9. CASE beyond = {}
  <2>1. from = S
    BY <1>9 DEF from
  <2>2. \A z \in S : x <= z
    BY <1>1, <1>3, <1>9
  <2>3. QED BY <1>8, <2>1, <2>2 DEF y
<1>10. CASE beyond # {}
  <2>1. from = beyond
    BY <1>10 DEF from
  <2>2. QED BY <1>3, <1>4, <1>8, <2>1 DEF y
<1>11. QED BY <1>9, <1>10

(* A turn back undoes a turn.                                               *)
LEMMA TurnBack ==
  ASSUME NEW n \in Nat, NEW f \in [1..n -> Nat],
         NEW S \in SUBSET {f[i] : i \in 1..n}, NEW x \in S, NEW dir \in Dirs
  PROVE  Turn(S, Turn(S, x, dir), -dir) = x
<1>1. S \in SUBSET Nat
  OBVIOUS
<1>2. CASE dir = 1
  <2> DEFINE y == Turn(S, x, 1)
             w == Turn(S, y, -dir)
  <2>1. /\ y \in S
        /\ (x < y /\ \A z \in S : x < z => y <= z) \/ \A z \in S : z <= x /\ y <= z
    BY TurnUp
  <2> HIDE DEF y
  <2>2. /\ w \in S
        /\ (w < y /\ \A z \in S : z < y => z <= w) \/ \A z \in S : y <= z /\ z <= w
    <3>1. -dir \in Dirs /\ -dir # 1
      BY <1>2 DEF Dirs
    <3>2. QED BY <2>1, <3>1, TurnDown
  <2> HIDE DEF w
  <2>3. x \in Nat /\ y \in Nat /\ w \in Nat
    BY <1>1, <2>1, <2>2
  <2>4. w = x
    BY <2>1, <2>2, <2>3
  <2>5. QED BY <1>2, <2>4 DEF y, w
<1>3. CASE dir # 1
  <2> DEFINE y == Turn(S, x, dir)
             w == Turn(S, y, 1)
  <2>1. /\ y \in S
        /\ (y < x /\ \A z \in S : z < x => z <= y) \/ \A z \in S : x <= z /\ z <= y
    BY <1>3, TurnDown
  <2> HIDE DEF y
  <2>2. /\ w \in S
        /\ (y < w /\ \A z \in S : y < z => w <= z) \/ \A z \in S : z <= y /\ w <= z
    BY <2>1, TurnUp
  <2> HIDE DEF w
  <2>3. x \in Nat /\ y \in Nat /\ w \in Nat
    BY <1>1, <2>1, <2>2
  <2>4. w = x
    BY <2>1, <2>2, <2>3
  <2>5. -dir = 1
    BY <1>3 DEF Dirs
  <2>6. QED BY <1>3, <2>4, <2>5 DEF y, w
<1>4. QED BY <1>2, <1>3

-----------------------------------------------------------------------------
(* What the moves are made of.                                              *)

LEMMA PlaceType ==
  ASSUME NEW items, Len(items) \in Nat, NEW major \in Nat, NEW i \in Nat
  PROVE  Place(items, major, i) \in Nat
<1>1. major * Len(items) \in Nat
  OBVIOUS
<1>2. QED BY <1>1 DEF Place

LEMMA PlacesType ==
  ASSUME NEW items, IsGrid(items), NEW i \in 1..Len(items)
  PROVE  /\ Len(items) \in Nat
         /\ Place(items, items[i].row, i) \in Nat
         /\ Place(items, items[i].col, i) \in Nat
<1>1. Len(items) \in Nat /\ items[i].row \in Nat /\ items[i].col \in Nat /\ i \in Nat
  BY DEF IsGrid
<1>2. QED BY <1>1, PlaceType

(* A place tells what it is the place of.                                   *)
LEMMA PlaceIsUnique ==
  ASSUME NEW items, Len(items) \in Nat, NEW i \in 1..Len(items), NEW j \in 1..Len(items),
         NEW a \in Nat, NEW b \in Nat, Place(items, a, i) = Place(items, b, j)
  PROVE  i = j
<1> DEFINE n == Len(items)
<1>1. n \in Nat /\ i \in 1..n /\ j \in 1..n /\ a * n + i = b * n + j
  BY DEF Place
<1> HIDE DEF n
<1>2. ASSUME NEW x \in Nat, NEW y \in Nat, x < y, NEW k \in 1..n, NEW m \in 1..n
      PROVE  x * n + k < y * n + m
  <2>1. y - x - 1 \in Nat
    BY <1>2
  <2>2. y * n = x * n + n + (y - x - 1) * n
    BY <1>1
  <2>3. (y - x - 1) * n \in Nat /\ x * n \in Nat
    BY <1>1, <2>1
  <2>4. QED BY <1>1, <2>2, <2>3
<1>3. ~ (a < b) /\ ~ (b < a)
  <2>1. a < b => a * n + i < b * n + j
    BY <1>1, <1>2
  <2>2. b < a => b * n + j < a * n + i
    BY <1>1, <1>2
  <2>3. a * n \in Int /\ b * n \in Int
    BY <1>1
  <2>4. QED BY <1>1, <2>1, <2>2, <2>3
<1>4. a = b
  BY <1>3
<1>5. a * n \in Int
  BY <1>1
<1>6. QED BY <1>1, <1>4, <1>5

LEMMA VisibleType ==
  ASSUME NEW items, IsGrid(items)
  PROVE  Visible(items) \subseteq 1..Len(items) /\ Visible(items) \in SUBSET Nat
BY DEF IsGrid, Visible

LEMMA FirstVisibleIsVisible ==
  ASSUME NEW items, IsGrid(items), Visible(items) # {}
  PROVE  FirstVisible(items) \in Visible(items)
BY VisibleType, LeastIsLeast DEF FirstVisible

LEMMA NearestIsCandidate ==
  ASSUME NEW items, IsGrid(items), NEW candidates \in SUBSET DOMAIN items,
         candidates # {}, NEW col \in Nat
  PROVE  Nearest(items, candidates, col) \in candidates
<1> DEFINE dist(i) == Distance(col, items[i].col)
           dists == {dist(i) : i \in candidates}
           closest == {i \in candidates : \A j \in candidates : dist(i) <= dist(j)}
           cols == {items[i].col : i \in closest}
           lowest == {i \in closest : \A j \in closest : items[i].col <= items[j].col}
<1>1. closest \in SUBSET candidates /\ closest # {}
  <2>1. \A i \in candidates : dist(i) \in Nat
    BY DEF IsGrid, Distance
  <2>2. dists \in SUBSET Nat /\ dists # {}
    BY <2>1
  <2>3. PICK d \in dists : \A e \in dists : d <= e
    BY <2>2, LeastIsLeast
  <2>4. PICK i \in candidates : d = dist(i)
    BY <2>3
  <2>5. \A j \in candidates : dist(i) <= dist(j)
    BY <2>3, <2>4
  <2>6. QED BY <2>4, <2>5
<1> HIDE DEF closest
<1>2. lowest \in SUBSET closest /\ lowest # {}
  <2>1. cols \in SUBSET Nat /\ cols # {}
    BY <1>1 DEF IsGrid
  <2>2. PICK c \in cols : \A e \in cols : c <= e
    BY <2>1, LeastIsLeast
  <2>3. PICK i \in closest : c = items[i].col
    BY <2>2
  <2>4. i \in lowest
    BY <2>2, <2>3
  <2>5. QED BY <2>4
<1>3. Nearest(items, candidates, col) = Least(lowest)
  BY DEF Nearest, closest
<1> HIDE DEF lowest
<1>4. lowest \in SUBSET Nat
  BY <1>1, <1>2 DEF IsGrid
<1>5. QED BY <1>1, <1>2, <1>3, <1>4, LeastIsLeast

-----------------------------------------------------------------------------
(* The moves.                                                               *)

(* A vertical move stays or goes to a visible item; from a hidden row it    *)
(* always goes, when there are two rows to go to.                           *)
THEOREM VerticalLandsOnVisible ==
  ASSUME NEW items, IsGrid(items), NEW idx \in DOMAIN items, NEW dir \in Dirs
  PROVE  /\ MoveVertical(items, idx, dir) \in Visible(items) \cup {idx}
         /\ ~AtMostOne(visibleRows(items)) =>
              MoveVertical(items, idx, dir) \in Visible(items)
         /\ idx \in Visible(items) /\ ~AtMostOne(visibleRows(items)) =>
              items[MoveVertical(items, idx, dir)].row
                = Turn(visibleRows(items), items[idx].row, dir)
<1> DEFINE rows == visibleRows(items)
           target == Turn(rows, items[idx].row, dir)
           candidates == {i \in Visible(items) : items[i].row = target}
<1>1. CASE AtMostOne(rows)
  BY <1>1 DEF MoveVertical
<1>2. CASE ~AtMostOne(rows)
  <2>1. rows # {} /\ Visible(items) # {}
    BY <1>2 DEF AtMostOne, visibleRows
  <2>2. FirstVisible(items) \in Visible(items)
    BY <2>1, FirstVisibleIsVisible
  <2>3. target \in rows
    <3> DEFINE f == [i \in 1..Len(items) |-> items[i].row]
    <3>1. f \in [1..Len(items) -> Nat] /\ Len(items) \in Nat
      BY DEF IsGrid
    <3>2. rows \in SUBSET {f[i] : i \in 1..Len(items)}
      BY VisibleType DEF visibleRows
    <3> HIDE DEF f, rows
    <3>3. QED BY <2>1, <3>1, <3>2, TurnStays
  <2>4. candidates # {} /\ candidates \in SUBSET DOMAIN items
    BY <2>3 DEF visibleRows, Visible
  <2>5. items[idx].col \in Nat
    BY DEF IsGrid
  <2>6. Nearest(items, candidates, items[idx].col) \in candidates
    <3> HIDE DEF candidates
    <3>1. QED BY <2>4, <2>5, NearestIsCandidate
  <2>7. MoveVertical(items, idx, dir) \in
          {FirstVisible(items), Nearest(items, candidates, items[idx].col)}
    BY <1>2 DEF MoveVertical
  <2>8. idx \in Visible(items) =>
          MoveVertical(items, idx, dir) = Nearest(items, candidates, items[idx].col)
    BY <1>2 DEF MoveVertical, visibleRows
  <2>9. QED BY <1>2, <2>2, <2>6, <2>7, <2>8
<1>3. QED BY <1>1, <1>2

(* The visible items of i's row, and their places in the order of columns.  *)
InRow(items, i) == {j \in Visible(items) : items[j].row = items[i].row}
PlacesInRow(items, i) == {Place(items, items[j].col, j) : j \in InRow(items, i)}

(* A horizontal move stays or goes to a visible item of the same row.       *)
THEOREM HorizontalStaysInRow ==
  ASSUME NEW items, IsGrid(items), NEW idx \in DOMAIN items, NEW dir \in Dirs
  PROVE  /\ MoveHorizontal(items, idx, dir) \in Visible(items) \cup {idx}
         /\ items[MoveHorizontal(items, idx, dir)].row = items[idx].row
         /\ idx \in Visible(items) /\ ~AtMostOne(InRow(items, idx)) =>
              LET to == MoveHorizontal(items, idx, dir)
              IN Place(items, items[to].col, to)
                   = Turn(PlacesInRow(items, idx), Place(items, items[idx].col, idx), dir)
<1> DEFINE rowItems == {i \in Visible(items) : items[i].row = items[idx].row}
           place(i) == Place(items, items[i].col, i)
           places == {place(i) : i \in rowItems}
           target == IF idx \in rowItems THEN Turn(places, place(idx), dir)
                                         ELSE Least(places)
<1>1. CASE AtMostOne(rowItems)
  BY <1>1 DEF MoveHorizontal, InRow
<1>2. CASE ~AtMostOne(rowItems)
  <2> DEFINE f == [i \in 1..Len(items) |-> place(i)]
  <2>1. rowItems # {} /\ rowItems \subseteq 1..Len(items)
    BY <1>2, VisibleType DEF AtMostOne
  <2>2. Len(items) \in Nat /\ \A i \in 1..Len(items) : place(i) \in Nat
    BY PlacesType DEF IsGrid
  <2>3. f \in [1..Len(items) -> Nat]
    BY <2>2
  <2>4. places \in SUBSET {f[i] : i \in 1..Len(items)} /\ places \in SUBSET Nat /\ places # {}
    BY <2>1, <2>2
  <2>5. target \in places
    <3> HIDE DEF f, places, place
    <3>1. QED BY <2>2, <2>3, <2>4, TurnStays, LeastIsLeast
  <2>6. \E i \in rowItems : place(i) = target
    BY <2>5
  <2>7. MoveHorizontal(items, idx, dir) = CHOOSE i \in rowItems : place(i) = target
    BY <1>2 DEF MoveHorizontal
  <2>8. /\ MoveHorizontal(items, idx, dir) \in rowItems
        /\ place(MoveHorizontal(items, idx, dir)) = target
    <3> HIDE DEF rowItems, target, place
    <3>1. QED BY <2>6, <2>7
  <2>9. idx \in Visible(items) =>
          target = Turn(PlacesInRow(items, idx), Place(items, items[idx].col, idx), dir)
    BY DEF PlacesInRow, InRow
  <2>10. QED BY <2>8, <2>9
<1>3. QED BY <1>1, <1>2

(* The visible items of a section, the place of the first of them in the    *)
(* order of rows, and these places for all the sections there are.          *)
InSection(items, s) == {i \in Visible(items) : items[i].section = s}
SectionsOf(items) == {items[i].section : i \in Visible(items)}
HeadOf(items, s) == Least({Place(items, items[i].row, i) : i \in InSection(items, s)})
Heads(items) == {HeadOf(items, s) : s \in SectionsOf(items)}

(* A shoulder button stays or goes to a visible item; from a hidden section *)
(* it always goes, when there are two sections to go to.                    *)
THEOREM JumpLandsOnVisible ==
  ASSUME NEW items, IsGrid(items), NEW idx \in DOMAIN items, NEW dir \in Dirs
  PROVE  /\ JumpSection(items, idx, dir) \in Visible(items) \cup {idx}
         /\ ~AtMostOne({items[i].section : i \in Visible(items)}) =>
              JumpSection(items, idx, dir) \in Visible(items)
         /\ idx \in Visible(items) /\ ~AtMostOne({items[i].section : i \in Visible(items)}) =>
              HeadOf(items, items[JumpSection(items, idx, dir)].section)
                = Turn(Heads(items), HeadOf(items, items[idx].section), dir)
<1> DEFINE in(s) == {i \in Visible(items) : items[i].section = s}
           sections == {items[i].section : i \in Visible(items)}
           head(s) == Least({Place(items, items[i].row, i) : i \in in(s)})
           heads == {head(s) : s \in sections}
           target == Turn(heads, head(items[idx].section), dir)
           there == CHOOSE s \in sections : head(s) = target
<1>1. CASE AtMostOne(sections)
  BY <1>1 DEF JumpSection
<1>2. CASE ~AtMostOne(sections)
  <2> DEFINE f == [i \in 1..Len(items) |-> Place(items, items[i].row, i)]
  <2>1. sections # {} /\ Visible(items) # {}
    BY <1>2 DEF AtMostOne
  <2>2. FirstVisible(items) \in Visible(items)
    BY <2>1, FirstVisibleIsVisible
  <2>3. Len(items) \in Nat /\ \A i \in 1..Len(items) : Place(items, items[i].row, i) \in Nat
    <3> HIDE DEF in, sections, head, heads, target, there, f
    <3>1. QED BY PlacesType DEF IsGrid
  <2>4. f \in [1..Len(items) -> Nat]
    BY <2>3
  <2>5. \A s \in sections : head(s) \in {f[i] : i \in 1..Len(items)}
    <3> TAKE s \in sections
    <3> DEFINE places == {Place(items, items[i].row, i) : i \in in(s)}
    <3>1. in(s) # {} /\ in(s) \subseteq 1..Len(items)
      BY VisibleType
    <3>2. places \in SUBSET {f[i] : i \in 1..Len(items)}
          /\ places \in SUBSET Nat /\ places # {}
      BY <2>3, <3>1
    <3> HIDE DEF places, f
    <3>3. Least(places) \in {f[i] : i \in 1..Len(items)}
      BY <3>2, LeastIsLeast
    <3>4. QED BY <3>3 DEF places
  <2>6. heads # {} /\ heads \in SUBSET {f[i] : i \in 1..Len(items)}
    <3> HIDE DEF head, f, sections
    <3>1. QED BY <2>1, <2>5
  <2>7. target \in heads
    <3> HIDE DEF heads, f, head
    <3>1. QED BY <2>3, <2>4, <2>6, TurnStays
  <2>8. there \in sections /\ head(there) = target
    <3> HIDE DEF head, sections, target
    <3>1. \E s \in sections : head(s) = target
      BY <2>7
    <3>2. QED BY <3>1
  <2>9. Least(in(there)) \in Visible(items) /\ items[Least(in(there))].section = there
    <3>1. in(there) # {} /\ in(there) \in SUBSET Nat /\ in(there) \subseteq Visible(items)
      <4> HIDE DEF there
      <4>1. QED BY <2>8, VisibleType
    <3> HIDE DEF there
    <3>2. Least(in(there)) \in in(there)
      <4> HIDE DEF in
      <4>1. QED BY <3>1, LeastIsLeast
    <3>3. QED BY <3>2
  <2>10. JumpSection(items, idx, dir) \in {FirstVisible(items), Least(in(there))}
    BY <1>2 DEF JumpSection
  <2>11. idx \in Visible(items) => JumpSection(items, idx, dir) = Least(in(there))
    BY <1>2 DEF JumpSection
  <2>12. /\ head(there) = HeadOf(items, there)
         /\ target = Turn(Heads(items), HeadOf(items, items[idx].section), dir)
    BY DEF HeadOf, InSection, Heads, SectionsOf
  <2> HIDE DEF head, target, there, in
  <2>13. idx \in Visible(items) =>
           HeadOf(items, items[JumpSection(items, idx, dir)].section)
             = Turn(Heads(items), HeadOf(items, items[idx].section), dir)
    BY <2>8, <2>9, <2>11, <2>12
  <2>14. QED BY <2>2, <2>9, <2>10, <2>13
<1>3. QED BY <1>1, <1>2

-----------------------------------------------------------------------------
(* gridSnapshot makes a grid of a focus list.                               *)
LEMMA SnapshotIsGrid ==
  ASSUME NEW list, IsGrid(list), NEW groups
  PROVE  IsGrid(Snapshot(list, groups)) /\ DOMAIN Snapshot(list, groups) = DOMAIN list
<1> DEFINE n == Len(list)
           s == Snapshot(list, groups)
           R == {s[i] : i \in 1..n}
<1>1. n \in Nat /\ DOMAIN list = 1..n
  BY DEF IsGrid
<1>2. s = [i \in 1..n |-> [row |-> list[i].row, col |-> list[i].col,
                          section |-> list[i].section,
                          visible |-> list[i].group \in groups]]
  BY <1>1 DEF Snapshot
<1>3. \A i \in 1..n : s[i].row = list[i].row /\ s[i].col = list[i].col
  BY <1>2
<1>4. s \in [1..n -> R]
  BY <1>2
<1>5. DOMAIN s = 1..n
  BY <1>2
<1> HIDE DEF n, s, R
<1>6. s \in Seq(R)
  BY <1>1, <1>4, SeqDef
<1>7. Len(s) \in Nat /\ DOMAIN s = 1..Len(s)
  BY <1>6, LenProperties
<1>8. \A i \in DOMAIN s : s[i].row \in Nat /\ s[i].col \in Nat
  BY <1>1, <1>3, <1>5 DEF IsGrid
<1>9. QED BY <1>1, <1>5, <1>7, <1>8 DEF IsGrid, s

-----------------------------------------------------------------------------
(* Opposite moves, from any visible item of any grid.                       *)

(* Left undoes Right, and Right Left.                                       *)
THEOREM HorizontalUndone ==
  ASSUME NEW items, IsGrid(items), NEW idx \in Visible(items), NEW dir \in Dirs
  PROVE  MoveHorizontal(items, MoveHorizontal(items, idx, dir), -dir) = idx
<1> DEFINE n == Len(items)
           place(i) == Place(items, items[i].col, i)
           f == [i \in 1..n |-> place(i)]
           S == PlacesInRow(items, idx)
           to == MoveHorizontal(items, idx, dir)
           back == MoveHorizontal(items, to, -dir)
<1>1. idx \in DOMAIN items /\ -dir \in Dirs
  BY DEF Visible, Dirs
<1>2. CASE AtMostOne(InRow(items, idx))
  <2>1. \A d \in Dirs : MoveHorizontal(items, idx, d) = idx
    BY <1>2 DEF MoveHorizontal, InRow
  <2>2. QED BY <1>1, <2>1
<1>3. CASE ~AtMostOne(InRow(items, idx))
  <2>1. to \in Visible(items) /\ items[to].row = items[idx].row /\ to \in DOMAIN items
    BY <1>1, HorizontalStaysInRow DEF Visible
  <2>2. place(to) = Turn(S, place(idx), dir)
    BY <1>1, <1>3, HorizontalStaysInRow
  <2>3. InRow(items, to) = InRow(items, idx) /\ PlacesInRow(items, to) = S
    BY <2>1 DEF InRow, PlacesInRow
  <2>4. /\ back \in Visible(items) /\ place(back) = Turn(S, place(to), -dir)
    <3> HIDE DEF to, S, place
    <3>1. back \in Visible(items) \cup {to}
      BY <1>1, <2>1, HorizontalStaysInRow
    <3>2. Place(items, items[back].col, back)
            = Turn(PlacesInRow(items, to), Place(items, items[to].col, to), -dir)
      BY <1>1, <1>3, <2>1, <2>3, HorizontalStaysInRow
    <3>3. QED BY <2>1, <2>3, <3>1, <3>2 DEF place
  <2>5. n \in Nat /\ \A i \in 1..n : place(i) \in Nat /\ items[i].col \in Nat
    BY PlacesType DEF IsGrid
  <2>6. f \in [1..n -> Nat]
    BY <2>5
  <2>7. S \in SUBSET {f[i] : i \in 1..n} /\ place(idx) \in S
    BY VisibleType DEF PlacesInRow, InRow
  <2>8. place(back) = place(idx)
    <3> HIDE DEF f, S, place, back, n
    <3>1. QED BY <2>2, <2>4, <2>5, <2>6, <2>7, TurnBack
  <2>9. back \in 1..n /\ idx \in 1..n
    BY <2>4, VisibleType
  <2> HIDE DEF back
  <2>10. QED BY <2>5, <2>8, <2>9, PlaceIsUnique DEF back
<1>4. QED BY <1>2, <1>3

(* Up returns to the row that Down left, and Down to the one Up left.       *)
THEOREM VerticalUndone ==
  ASSUME NEW items, IsGrid(items), NEW idx \in Visible(items), NEW dir \in Dirs
  PROVE  items[MoveVertical(items, MoveVertical(items, idx, dir), -dir)].row = items[idx].row
<1> DEFINE n == Len(items)
           f == [i \in 1..n |-> items[i].row]
           S == visibleRows(items)
           to == MoveVertical(items, idx, dir)
           back == MoveVertical(items, to, -dir)
<1>1. idx \in DOMAIN items /\ -dir \in Dirs
  BY DEF Visible, Dirs
<1>2. CASE AtMostOne(S)
  BY <1>2 DEF MoveVertical
<1>3. CASE ~AtMostOne(S)
  <2>1. to \in Visible(items) /\ items[to].row = Turn(S, items[idx].row, dir) /\ to \in DOMAIN items
    BY <1>1, <1>3, VerticalLandsOnVisible DEF Visible
  <2> HIDE DEF to
  <2>2. items[back].row = Turn(S, items[to].row, -dir)
    BY <1>1, <1>3, <2>1, VerticalLandsOnVisible
  <2>3. n \in Nat /\ f \in [1..n -> Nat]
    BY DEF IsGrid
  <2>4. S \in SUBSET {f[i] : i \in 1..n} /\ items[idx].row \in S
    BY VisibleType DEF visibleRows
  <2> HIDE DEF f, S, n, back
  <2>5. QED BY <2>1, <2>2, <2>3, <2>4, TurnBack DEF back, to
<1>4. QED BY <1>2, <1>3

(* A section's first item is one of its own, and so no two sections have it *)
(* at the same place.                                                       *)
LEMMA HeadIsPlace ==
  ASSUME NEW items, IsGrid(items), NEW s \in SectionsOf(items)
  PROVE  \E i \in 1..Len(items) :
           items[i].section = s /\ HeadOf(items, s) = Place(items, items[i].row, i)
<1> DEFINE places == {Place(items, items[i].row, i) : i \in InSection(items, s)}
<1>1. Len(items) \in Nat /\ \A i \in 1..Len(items) : Place(items, items[i].row, i) \in Nat
  BY PlacesType DEF IsGrid
<1>2. InSection(items, s) # {} /\ InSection(items, s) \subseteq 1..Len(items)
  BY VisibleType DEF InSection, SectionsOf
<1>3. places \in SUBSET Nat /\ places # {}
  BY <1>1, <1>2
<1> HIDE DEF places
<1>4. Least(places) \in places
  BY <1>3, LeastIsLeast
<1>5. PICK i \in InSection(items, s) : Least(places) = Place(items, items[i].row, i)
  BY <1>4 DEF places
<1>6. HeadOf(items, s) = Least(places)
  BY DEF HeadOf, places
<1>7. QED BY <1>2, <1>5, <1>6 DEF InSection

LEMMA HeadIsUnique ==
  ASSUME NEW items, IsGrid(items),
         NEW s \in SectionsOf(items), NEW t \in SectionsOf(items),
         HeadOf(items, s) = HeadOf(items, t)
  PROVE  s = t
<1>1. PICK i \in 1..Len(items) :
        items[i].section = s /\ HeadOf(items, s) = Place(items, items[i].row, i)
  BY HeadIsPlace
<1>2. PICK j \in 1..Len(items) :
        items[j].section = t /\ HeadOf(items, t) = Place(items, items[j].row, j)
  BY HeadIsPlace
<1>3. Len(items) \in Nat /\ items[i].row \in Nat /\ items[j].row \in Nat
  BY DEF IsGrid
<1>4. QED BY <1>1, <1>2, <1>3, PlaceIsUnique

(* One shoulder button returns to the section that the other one left.      *)
THEOREM JumpUndone ==
  ASSUME NEW items, IsGrid(items), NEW idx \in Visible(items), NEW dir \in Dirs
  PROVE  items[JumpSection(items, JumpSection(items, idx, dir), -dir)].section
           = items[idx].section
<1> DEFINE n == Len(items)
           f == [i \in 1..n |-> Place(items, items[i].row, i)]
           S == Heads(items)
           h(i) == HeadOf(items, items[i].section)
           to == JumpSection(items, idx, dir)
           back == JumpSection(items, to, -dir)
<1>1. idx \in DOMAIN items /\ -dir \in Dirs
  BY DEF Visible, Dirs
<1>2. CASE AtMostOne(SectionsOf(items))
  <2>1. \A d \in Dirs : JumpSection(items, idx, d) = idx
    BY <1>2 DEF JumpSection, SectionsOf
  <2>2. QED BY <1>1, <2>1
<1>3. CASE ~AtMostOne(SectionsOf(items))
  <2>0. ~AtMostOne({items[i].section : i \in Visible(items)})
    BY <1>3 DEF SectionsOf
  <2>1. to \in Visible(items) /\ h(to) = Turn(S, h(idx), dir) /\ to \in DOMAIN items
    BY <1>1, <2>0, JumpLandsOnVisible DEF Visible
  <2> HIDE DEF to
  <2>2. back \in Visible(items) /\ h(back) = Turn(S, h(to), -dir)
    BY <1>1, <2>0, <2>1, JumpLandsOnVisible
  <2>3. n \in Nat /\ \A i \in 1..n : Place(items, items[i].row, i) \in Nat
    BY PlacesType DEF IsGrid
  <2>4. f \in [1..n -> Nat]
    BY <2>3
  <2>5. S \in SUBSET {f[i] : i \in 1..n}
    BY HeadIsPlace DEF Heads
  <2>6. items[idx].section \in SectionsOf(items) /\ h(idx) \in S
    BY DEF SectionsOf, Heads
  <2>7. h(back) = h(idx)
    <3> HIDE DEF f, S, h, back, n
    <3>1. QED BY <2>1, <2>2, <2>3, <2>4, <2>5, <2>6, TurnBack
  <2>8. items[back].section \in SectionsOf(items)
    BY <2>2 DEF SectionsOf
  <2> HIDE DEF back
  <2>9. QED BY <2>6, <2>7, <2>8, HeadIsUnique DEF back, to
<1>4. QED BY <1>2, <1>3

-----------------------------------------------------------------------------
(* The D-pad alone, on any grid.                                            *)

(* A turn in S does not lead out of R.                                      *)
ClosedUnder(S, R) == \A x \in R : Turn(S, x, 1) \in R

(* Turning on and on in one direction leaves no member out: the turns come  *)
(* to the greatest, from there to the least, and from one to the next.      *)
LEMMA TurningReachesAll ==
  ASSUME NEW n \in Nat, NEW f \in [1..n -> Nat],
         NEW S \in SUBSET {f[i] : i \in 1..n},
         NEW R \in SUBSET S, R # {}, ClosedUnder(S, R)
  PROVE  R = S
<1> USE DEF ClosedUnder
<1>1. S \in SUBSET Nat /\ R \in SUBSET Nat
  OBVIOUS
<1>2. \A x \in S : \/ x < Turn(S, x, 1) /\ \A z \in S : x < z => Turn(S, x, 1) <= z
                   \/ \A z \in S : z <= x /\ Turn(S, x, 1) <= z
  BY TurnUp
<1>3. PICK b \in Nat : \A i \in 1..n : f[i] <= b
  BY HasBound
<1>4. PICK least \in R : \A z \in S : least <= z
  <2> DEFINE g == Greatest(R)
             next == Turn(S, g, 1)
  <2>1. g \in R /\ \A z \in R : z <= g
    <3>1. \A z \in R : z <= b
      BY <1>3
    <3>2. QED BY <1>1, <3>1, GreatestIsGreatest
  <2>2. next \in R
    BY <2>1
  <2>3. g < next \/ \A z \in S : next <= z
    BY <1>2, <2>1
  <2> HIDE DEF g, next
  <2>4. ~ (g < next)
    BY <1>1, <2>1, <2>2
  <2>5. QED BY <2>2, <2>3, <2>4
<1>5. SUFFICES ASSUME S \ R # {} PROVE FALSE
  OBVIOUS
<1> DEFINE y == Least(S \ R)
<1>6. y \in S \ R /\ \A z \in S \ R : y <= z
  <2>1. S \ R \in SUBSET Nat
    BY <1>1
  <2>2. QED BY <1>5, <2>1, LeastIsLeast
<1> HIDE DEF y
<1> DEFINE below == {z \in R : z < y}
           p == Greatest(below)
<1>7. p \in below /\ \A z \in below : z <= p
  <2>1. least < y
    BY <1>1, <1>4, <1>6
  <2>2. below \in SUBSET Nat /\ below # {} /\ \A z \in below : z <= b
    BY <1>1, <1>3, <1>4, <2>1
  <2> HIDE DEF below
  <2>3. QED BY <2>2, GreatestIsGreatest
<1>8. p \in R /\ p < y /\ \A z \in S : z < y => z <= p
  <2>1. \A z \in S : z < y => z \in below
    BY <1>1, <1>6
  <2>2. QED BY <1>7, <2>1
<1> HIDE DEF below, p
<1> DEFINE t == Turn(S, p, 1)
<1>9. t \in R /\ p < t /\ t <= y
  <2>1. ~ \A z \in S : z <= p
    BY <1>1, <1>6, <1>8
  <2>2. QED BY <1>2, <1>6, <1>8, <2>1
<1> HIDE DEF t
<1>10. t = y
  BY <1>1, <1>6, <1>8, <1>9
<1>11. QED BY <1>6, <1>9, <1>10

(* A set of items that every press stays in is missing no visible one.      *)
LEMMA ClosedHasAll ==
  ASSUME NEW items, IsGrid(items), NEW idx \in Visible(items),
         NEW closed, idx \in closed,
         \A j \in closed \cap Visible(items) :
           MoveVertical(items, j, 1) \in closed /\ MoveHorizontal(items, j, 1) \in closed
  PROVE  Visible(items) \subseteq closed
<1> DEFINE n == Len(items)
           V == closed \cap Visible(items)
           rows == visibleRows(items)
           R == {items[j].row : j \in V}
<1>1. n \in Nat /\ Visible(items) \subseteq DOMAIN items /\ Visible(items) \subseteq 1..n
      /\ 1 \in Dirs
  BY VisibleType DEF IsGrid, Visible, Dirs
<1>2. \A j \in V : MoveVertical(items, j, 1) \in V /\ MoveHorizontal(items, j, 1) \in V
  <2> TAKE j \in V
  <2>1. MoveVertical(items, j, 1) \in Visible(items) \cup {j}
    BY <1>1, VerticalLandsOnVisible
  <2>2. MoveHorizontal(items, j, 1) \in Visible(items) \cup {j}
    BY <1>1, HorizontalStaysInRow
  <2>3. QED BY <2>1, <2>2
<1>3. R = rows
  <2>1. R \in SUBSET rows /\ R # {}
    BY DEF visibleRows
  <2>2. CASE AtMostOne(rows)
    BY <2>1, <2>2 DEF AtMostOne
  <2>3. CASE ~AtMostOne(rows)
    <3> DEFINE f == [i \in 1..n |-> items[i].row]
    <3>1. f \in [1..n -> Nat] /\ rows \in SUBSET {f[i] : i \in 1..n}
      BY <1>1 DEF IsGrid, visibleRows
    <3>2. ASSUME NEW j \in V PROVE Turn(rows, items[j].row, 1) \in R
      <4>1. items[MoveVertical(items, j, 1)].row = Turn(rows, items[j].row, 1)
        BY <1>1, <2>3, VerticalLandsOnVisible
      <4>2. MoveVertical(items, j, 1) \in V
        BY <1>2
      <4>3. QED BY <4>1, <4>2
    <3>3. ClosedUnder(rows, R)
      BY <3>2 DEF ClosedUnder
    <3> HIDE DEF f, R, rows, n
    <3>4. QED BY <1>1, <2>1, <3>1, <3>3, TurningReachesAll
  <2>4. QED BY <2>2, <2>3
<1>4. ASSUME NEW i \in Visible(items) PROVE i \in closed
  <2> DEFINE place(m) == Place(items, items[m].col, m)
             P == PlacesInRow(items, i)
             Q == {place(m) : m \in V \cap InRow(items, i)}
  <2>1. PICK j \in V : items[j].row = items[i].row
    BY <1>3, <1>4 DEF visibleRows
  <2>2. i \in InRow(items, i) /\ j \in InRow(items, i)
    BY <2>1 DEF InRow
  <2>3. CASE AtMostOne(InRow(items, i))
    BY <2>1, <2>2, <2>3 DEF AtMostOne
  <2>4. CASE ~AtMostOne(InRow(items, i))
    <3> DEFINE f == [m \in 1..n |-> place(m)]
    <3>1. \A m \in 1..n : place(m) \in Nat /\ items[m].col \in Nat
      BY PlacesType DEF IsGrid
    <3>2. f \in [1..n -> Nat]
      BY <3>1
    <3>3. P \in SUBSET {f[m] : m \in 1..n} /\ Q \in SUBSET P /\ Q # {}
      BY <1>1, <2>1, <2>2 DEF PlacesInRow, InRow
    <3>4. ASSUME NEW m \in V \cap InRow(items, i) PROVE Turn(P, place(m), 1) \in Q
      <4> DEFINE to == MoveHorizontal(items, m, 1)
      <4>1. InRow(items, m) = InRow(items, i) /\ PlacesInRow(items, m) = P
        BY DEF InRow, PlacesInRow
      <4>2. items[to].row = items[m].row /\ to \in V
        BY <1>1, <1>2, HorizontalStaysInRow
      <4>3. to \in V \cap InRow(items, i)
        BY <4>2 DEF InRow
      <4>4. place(to) = Turn(P, place(m), 1)
        BY <1>1, <2>4, <4>1, HorizontalStaysInRow
      <4> HIDE DEF to, place
      <4>5. QED BY <4>3, <4>4
    <3>5. ClosedUnder(P, Q)
      BY <3>4 DEF ClosedUnder
    <3>6. Q = P
      <4> HIDE DEF f, P, Q, n
      <4>1. QED BY <1>1, <3>2, <3>3, <3>5, TurningReachesAll
    <3>7. place(i) \in Q
      BY <2>2, <3>6 DEF PlacesInRow
    <3>8. PICK m \in V \cap InRow(items, i) : place(i) = place(m)
      BY <3>7
    <3>9. i = m
      BY <1>1, <3>1, <3>8, PlaceIsUnique
    <3>10. QED BY <3>8, <3>9
  <2>5. QED BY <2>3, <2>4
<1>5. QED BY <1>4

(* What the focus can be on after each round of presses.                    *)
Rounds(items, i, f) ==
  /\ f[0] = {i} /\ f[Len(items)] = Reach(items, i)
  /\ \A k \in 1..Len(items) : f[k] = Pressed(items, f[k - 1])

(* Reach's recursion has the solution it describes.                         *)
LEMMA ReachRecursion ==
  ASSUME NEW items, Len(items) \in Nat, NEW i
  PROVE  \E f : Rounds(items, i, f)
<1> DEFINE n == Len(items)
           Solves(g, k) == g[0] = {i} /\ \A m \in 1..k : g[m] = Pressed(items, g[m - 1])
           W(f) == [m \in 0..n |-> IF m = 0 THEN {i} ELSE Pressed(items, f[m - 1])]
           within == CHOOSE f : f = W(f)
           Unsolved == {k \in 0..n : ~ \E g : Solves(g, k)}
<1>1. Reach(items, i) = within[n]
  BY DEF Reach
<1>2. Unsolved = {}
  <2> SUFFICES ASSUME Unsolved # {} PROVE FALSE
    OBVIOUS
  <2> DEFINE k == Least(Unsolved)
  <2>1. k \in Unsolved /\ \A m \in Unsolved : k <= m
    <3>1. Unsolved \in SUBSET Nat
      OBVIOUS
    <3> HIDE DEF Unsolved
    <3>2. QED BY <3>1, LeastIsLeast
  <2> HIDE DEF k
  <2>2. k # 0
    <3>1. Solves([m \in 0..n |-> {i}], 0)
      OBVIOUS
    <3> HIDE DEF Solves
    <3>2. QED BY <2>1, <3>1
  <2>3. k \in 0..n /\ k - 1 \in 0..n /\ k - 1 \notin Unsolved
    <3>1. k \in 0..n
      BY <2>1
    <3>2. k - 1 \in 0..n /\ ~ (k <= k - 1)
      BY <2>2, <3>1
    <3> HIDE DEF Unsolved
    <3>3. QED BY <2>1, <3>1, <3>2
  <2>4. PICK g : Solves(g, k - 1)
    BY <2>3
  <2> DEFINE h == [m \in 0..n |-> IF m = k THEN Pressed(items, g[k - 1]) ELSE g[m]]
  <2>5. h[0] = {i} /\ h[k] = Pressed(items, g[k - 1])
    BY <2>2, <2>3, <2>4
  <2>6. \A m \in 0..(k - 1) : h[m] = g[m]
    BY <2>3
  <2>7. ASSUME NEW m \in 1..k PROVE h[m] = Pressed(items, h[m - 1])
    <3>1. m - 1 \in 0..(k - 1) /\ (m = k \/ m \in 1..(k - 1))
      BY <2>3
    <3>2. h[m - 1] = g[m - 1]
      BY <2>6, <3>1
    <3>3. CASE m = k
      BY <2>5, <3>2, <3>3
    <3>4. CASE m \in 1..(k - 1)
      <4>1. g[m] = Pressed(items, g[m - 1]) /\ h[m] = g[m]
        BY <2>4, <2>6, <3>4
      <4>2. QED BY <3>2, <4>1
    <3>5. QED BY <3>1, <3>3, <3>4
  <2> HIDE DEF h
  <2>8. Solves(h, k)
    BY <2>5, <2>7
  <2> HIDE DEF Solves
  <2>9. QED BY <2>1, <2>8
<1>3. PICK g : Solves(g, n)
  <2>1. n \in 0..n
    OBVIOUS
  <2> HIDE DEF Solves
  <2>2. QED BY <1>2, <2>1
<1> DEFINE f == [m \in 0..n |-> g[m]]
<1>4. \A m \in 0..n : f[m] = IF m = 0 THEN {i} ELSE Pressed(items, f[m - 1])
  <2> TAKE m \in 0..n
  <2>1. m = 0 \/ (m \in 1..n /\ m - 1 \in 0..n)
    OBVIOUS
  <2>2. QED BY <1>3, <2>1
<1>5. f = W(f)
  <2>1. f = [m \in 0..n |-> f[m]]
    OBVIOUS
  <2> HIDE DEF f
  <2>2. QED BY <1>4, <2>1
<1>6. within = W(within)
  <2> HIDE DEF W, f
  <2>1. QED BY <1>5
<1> HIDE DEF within
<1>7. \A m \in 0..n : within[m] = IF m = 0 THEN {i} ELSE Pressed(items, within[m - 1])
  BY <1>6
<1>8. 0 \in 0..n /\ \A m \in 1..n : m \in 0..n /\ m # 0
  OBVIOUS
<1>9. QED BY <1>1, <1>7, <1>8 DEF Rounds

(* As many rounds of presses as there are items take the focus everywhere:  *)
(* every round adds an item, until one round adds none.                     *)
THEOREM DPadReachesAll ==
  ASSUME NEW items, IsGrid(items), NEW idx \in Visible(items)
  PROVE  Visible(items) \subseteq Reach(items, idx)
<1> DEFINE n == Len(items)
<1>1. n \in Nat /\ DOMAIN items = 1..n /\ idx \in 1..n
  BY VisibleType DEF IsGrid
<1>2. PICK f : /\ f[0] = {idx} /\ f[n] = Reach(items, idx)
               /\ \A k \in 1..n : f[k] = Pressed(items, f[k - 1])
  <2>1. \E g : Rounds(items, idx, g)
    BY <1>1, ReachRecursion
  <2>2. QED BY <2>1 DEF Rounds
<1>3. ASSUME NEW from \in SUBSET (1..n)
      PROVE  from \subseteq Pressed(items, from) /\ Pressed(items, from) \subseteq 1..n
  <2>1. ASSUME NEW j \in from, NEW d \in Dirs
        PROVE  MoveVertical(items, j, d) \in 1..n /\ MoveHorizontal(items, j, d) \in 1..n
    BY <1>1, <2>1, VisibleType, VerticalLandsOnVisible, HorizontalStaysInRow
  <2>2. QED BY <2>1 DEF Pressed
<1> DEFINE Good(k) == /\ f[k] \in SUBSET (1..n) /\ idx \in f[k]
                      /\ Cardinality(f[k]) > k \/ Pressed(items, f[k]) = f[k]
           Bad == {k \in 0..n : ~Good(k)}
<1>4. \A s \in SUBSET (1..n) : IsFiniteSet(s) /\ Cardinality(s) \in Nat /\ Cardinality(s) <= n
  <2>1. IsFiniteSet(1..n) /\ Cardinality(1..n) = n
    BY <1>1, FS_Interval
  <2>2. QED BY <2>1, FS_Subset, FS_CardinalityType
<1>5. Bad = {}
  <2> SUFFICES ASSUME Bad # {} PROVE FALSE
    OBVIOUS
  <2> DEFINE k == Least(Bad)
  <2>1. k \in Bad /\ \A m \in Bad : k <= m
    <3>1. Bad \in SUBSET Nat
      OBVIOUS
    <3> HIDE DEF Bad
    <3>2. QED BY <3>1, LeastIsLeast
  <2> HIDE DEF k
  <2>2. k # 0
    <3>1. Cardinality(f[0]) = 1
      BY <1>2, FS_Singleton
    <3>2. Good(0)
      BY <1>1, <1>2, <3>1
    <3> HIDE DEF Good
    <3>3. QED BY <2>1, <3>2
  <2>3. k \in 1..n /\ k - 1 \in 0..n /\ Good(k - 1)
    <3>1. k \in 0..n
      BY <2>1
    <3>2. k \in 1..n /\ k - 1 \in 0..n /\ ~ (k <= k - 1)
      BY <2>2, <3>1
    <3> HIDE DEF Good
    <3>3. QED BY <2>1, <3>1, <3>2
  <2> DEFINE a == f[k - 1]
             b == f[k]
  <2>4. b = Pressed(items, a)
    BY <1>2, <2>3
  <2>5. /\ a \in SUBSET (1..n) /\ idx \in a
        /\ Cardinality(a) > k - 1 \/ Pressed(items, a) = a
    BY <2>3
  <2>6. ~ (/\ b \in SUBSET (1..n) /\ idx \in b
           /\ Cardinality(b) > k \/ Pressed(items, b) = b)
    BY <2>1
  <2> HIDE DEF a, b, Good, Bad
  <2>7. a \subseteq b /\ b \subseteq 1..n
    BY <1>3, <2>4, <2>5
  <2>8. CASE Pressed(items, a) = a
    BY <2>4, <2>5, <2>6, <2>7, <2>8
  <2>9. CASE Pressed(items, a) # a
    <3>1. a # b
      BY <2>4, <2>9
    <3>2. Cardinality(a) < Cardinality(b)
      <4>1. IsFiniteSet(b) /\ Cardinality(a) \in Nat /\ Cardinality(b) \in Nat
        BY <1>4, <2>5, <2>7
      <4>2. Cardinality(a) <= Cardinality(b) /\ Cardinality(b) # Cardinality(a)
        BY <2>7, <3>1, <4>1, FS_Subset
      <4>3. QED BY <4>1, <4>2
    <3>3. Cardinality(a) > k - 1 /\ Cardinality(a) \in Nat /\ Cardinality(b) \in Nat
      BY <1>4, <2>5, <2>7, <2>9
    <3>4. Cardinality(b) > k
      BY <2>3, <3>2, <3>3
    <3>5. QED BY <2>5, <2>6, <2>7, <3>4
  <2>10. QED BY <2>8, <2>9
<1> DEFINE all == f[n]
<1>6. all \in SUBSET (1..n) /\ idx \in all /\ (Cardinality(all) > n \/ Pressed(items, all) = all)
  <2>1. n \in 0..n
    BY <1>1
  <2>2. Good(n)
    <3> HIDE DEF Good
    <3>1. QED BY <1>5, <2>1
  <2>3. QED BY <2>2
<1> HIDE DEF all, n
<1>7. Pressed(items, all) = all
  BY <1>1, <1>4, <1>6
<1>8. 1 \in Dirs
  BY DEF Dirs
<1>9. \A j \in all : MoveVertical(items, j, 1) \in all /\ MoveHorizontal(items, j, 1) \in all
  BY <1>7, <1>8 DEF Pressed
<1>10. Visible(items) \subseteq all
  BY <1>6, <1>9, ClosedHasAll
<1>11. QED BY <1>2, <1>10 DEF all, n

-----------------------------------------------------------------------------
(* Walks: the invariant is that the focus stays in the list.                *)

LEMMA ItemsAreGrid ==
  ASSUME WalkTypeOK
  PROVE  IsGrid(grid) /\ DOMAIN grid = DOMAIN layout.items
BY SnapshotIsGrid, LayoutsAssumption DEF WalkTypeOK, grid, LayoutsAssumption

LEMMA MoveLands ==
  ASSUME WalkTypeOK, Vertical \/ Horizontal \/ Section
  PROVE  focusIdx' \in Visible(grid) \cup {focusIdx} /\ UNCHANGED <<layout, shown>>
<1>1. IsGrid(grid) /\ focusIdx \in DOMAIN grid
  BY ItemsAreGrid DEF WalkTypeOK
<1>2. \A d \in Dirs : MoveVertical(grid, focusIdx, d) \in Visible(grid) \cup {focusIdx}
  BY <1>1, VerticalLandsOnVisible
<1>3. \A d \in Dirs : MoveHorizontal(grid, focusIdx, d) \in Visible(grid) \cup {focusIdx}
  BY <1>1, HorizontalStaysInRow
<1>4. \A d \in Dirs : JumpSection(grid, focusIdx, d) \in Visible(grid) \cup {focusIdx}
  BY <1>1, JumpLandsOnVisible
<1>5. QED BY <1>2, <1>3, <1>4 DEF Vertical, Horizontal, Section, Land

(* The focus is always on an item of the list, and what is shown is one of  *)
(* the things the layout can show.                                          *)
THEOREM WalkTypeCorrect == WalkSpec => []WalkTypeOK
<1>1. WalkInit => WalkTypeOK
  <2> SUFFICES ASSUME WalkInit PROVE WalkTypeOK
    OBVIOUS
  <2>1. IsGrid(grid)
    BY SnapshotIsGrid, LayoutsAssumption DEF WalkInit, grid, LayoutsAssumption
  <2>2. Visible(grid) # {}
    BY DEF WalkInit, FirstVisible
  <2>3. focusIdx \in Visible(grid)
    BY <2>1, <2>2, FirstVisibleIsVisible DEF WalkInit
  <2>4. QED BY <2>3 DEF WalkInit, WalkTypeOK, Visible
<1>2. WalkTypeOK /\ [WalkNext]_walkVars => WalkTypeOK'
  <2> SUFFICES ASSUME WalkTypeOK, [WalkNext]_walkVars PROVE WalkTypeOK'
    OBVIOUS
  <2>1. CASE Vertical \/ Horizontal \/ Section
    <3>1. focusIdx' \in DOMAIN grid /\ UNCHANGED <<layout, shown>>
      BY <2>1, MoveLands DEF Visible, WalkTypeOK
    <3>2. grid' = grid
      BY <3>1 DEF grid
    <3>3. QED BY <3>1, <3>2 DEF WalkTypeOK
  <2>2. CASE ChangeShown
    <3>1. layout' = layout /\ shown' \in layout.shows /\ focusIdx' = focusIdx
      BY <2>2 DEF ChangeShown
    <3>2. DOMAIN grid' = DOMAIN grid
      BY <3>1 DEF grid, Snapshot
    <3>3. QED BY <3>1, <3>2 DEF WalkTypeOK
  <2>3. CASE UNCHANGED walkVars
    BY <2>3 DEF walkVars, WalkTypeOK, grid
  <2>4. QED BY <2>1, <2>2, <2>3 DEF WalkNext
<1>3. QED BY <1>1, <1>2, PTL DEF WalkSpec

(* No press of any walk moves the focus to a hidden item.                   *)
THEOREM NeverToHidden == WalkSpec => MovesLandOnVisible
<1>1. WalkTypeOK /\ [WalkNext]_walkVars => [focusIdx' # focusIdx => grid[focusIdx'].visible]_walkVars
  <2> SUFFICES ASSUME WalkTypeOK, [WalkNext]_walkVars, focusIdx' # focusIdx PROVE grid[focusIdx'].visible
    OBVIOUS
  <2>1. Vertical \/ Horizontal \/ Section
    BY DEF WalkNext, ChangeShown, walkVars
  <2>2. focusIdx' \in Visible(grid)
    BY <2>1, MoveLands
  <2>3. QED BY <2>2 DEF Visible
<1>2. QED BY <1>1, WalkTypeCorrect, PTL DEF WalkSpec, MovesLandOnVisible

(* From an item that was hidden under the focus there is always a way out.  *)
THEOREM HiddenFocusIsFree == WalkSpec => []HiddenFocusEscapes
<1>1. WalkTypeOK => HiddenFocusEscapes
  <2> SUFFICES ASSUME WalkTypeOK PROVE HiddenFocusEscapes
    OBVIOUS
  <2>1. IsGrid(grid) /\ focusIdx \in DOMAIN grid
    BY ItemsAreGrid DEF WalkTypeOK
  <2>2. QED BY <2>1, VerticalLandsOnVisible, JumpLandsOnVisible DEF HiddenFocusEscapes
<1>2. QED BY <1>1, WalkTypeCorrect, PTL

(* Opposite presses undo each other, wherever the walk has led.             *)
THEOREM OppositesUndo == WalkSpec => []OppositeMovesUndo
<1>1. WalkTypeOK => OppositeMovesUndo
  <2> SUFFICES ASSUME WalkTypeOK, grid[focusIdx].visible PROVE OppositeMovesUndo
    BY DEF OppositeMovesUndo
  <2>1. IsGrid(grid) /\ focusIdx \in Visible(grid)
    BY ItemsAreGrid DEF WalkTypeOK, Visible
  <2>2. QED BY <2>1, HorizontalUndone, VerticalUndone, JumpUndone DEF OppositeMovesUndo
<1>2. QED BY <1>1, WalkTypeCorrect, PTL
(* Nothing the drawer shows is out of the D-pad's reach, wherever the walk  *)
(* has led.                                                                 *)
THEOREM NothingOutOfReach == WalkSpec => []EveryItemReachable
<1>1. WalkTypeOK => EveryItemReachable
  <2> SUFFICES ASSUME WalkTypeOK, grid[focusIdx].visible PROVE EveryItemReachable
    BY DEF EveryItemReachable
  <2>1. IsGrid(grid) /\ focusIdx \in Visible(grid)
    BY ItemsAreGrid DEF WalkTypeOK, Visible
  <2>2. QED BY <2>1, DPadReachesAll DEF EveryItemReachable
<1>2. QED BY <1>1, WalkTypeCorrect, PTL
=============================================================================
