--------------------------- MODULE FocusNavProofs ---------------------------
(***************************************************************************)
(* Proofs about FocusNav, for any focus lists with two rows and sections   *)
(* that are always shown, any range of the sliders and any length of the   *)
(* queue.                                                                  *)
(*                                                                         *)
(* The methods take a window to a window, so the proof speaks of windows:  *)
(*   Good      its fields have their types, the focus is in the list       *)
(*   Front     EditIsOfTheViewInFront of that window                       *)
(*   Evolves   what one step may do to an edit: end it, begin one with the *)
(*             slider's value captured, or carry it on at the same slider, *)
(*             other sliders moving only if something else moves them      *)
(* The last invariant, CancelInv, says what Evolves adds up to over steps. *)
(***************************************************************************)
EXTENDS FocusNav, FocusGridProofs

USE FocusNavAssumption DEF FocusNavAssumption

Good(n) == n \in Window /\ n.focusIdx \in DOMAIN Lists[n.list]

Front(n) ==
  /\ n.list = n.view
  /\ n.focusEditing => n.gamepadActive /\ FocusedSlider(n) \in Sliders

Evolves(n, m, foreign) ==
  m.focusEditing =>
    IF n.focusEditing
      THEN /\ FocusedSlider(m) = FocusedSlider(n)
           /\ m.editOriginalValue = n.editOriginalValue
           /\ \A s \in Sliders \ foreign :
                s # FocusedSlider(n) => m.value[s] = n.value[s]
      ELSE m.editOriginalValue = m.value[FocusedSlider(m)]

-----------------------------------------------------------------------------
(* The focus lists.                                                         *)

LEMMA ListIsGrid ==
  ASSUME NEW v \in Views
  PROVE  IsGrid(Lists[v]) /\ 1 \in DOMAIN Lists[v]
<1> DEFINE Item == [row : Nat, col : Nat, section : STRING, group : STRING, does : STRING]
<1>1. Lists[v] \in Seq(Item)
  OBVIOUS
<1> HIDE DEF Item
<1>2. Len(Lists[v]) \in Nat /\ DOMAIN Lists[v] = 1..Len(Lists[v])
  BY <1>1, LenProperties
<1>3. \A i \in DOMAIN Lists[v] : Lists[v][i] \in Item
  BY <1>1, <1>2, ElementOfSeq
<1>4. DOMAIN Lists[v] # {}
  OBVIOUS
<1>5. QED BY <1>2, <1>3, <1>4 DEF IsGrid, Item

LEMMA SnapshotGood ==
  ASSUME NEW n \in Window
  PROVE  IsGrid(gridSnapshot(n)) /\ DOMAIN gridSnapshot(n) = DOMAIN Lists[n.list]
<1>1. n.list \in Views
  BY DEF Window
<1>2. QED BY <1>1, ListIsGrid, SnapshotIsGrid DEF gridSnapshot

-----------------------------------------------------------------------------
(* The methods of focus.go.                                                 *)

LEMMA MovedFocus ==
  ASSUME NEW n \in Window, NEW k \in DOMAIN Lists[n.list]
  PROVE  LET m == [n EXCEPT !.focusIdx = k]
         IN Good(m) /\ m.view = n.view /\ m.list = n.list /\ m.focusIdx = k
            /\ m.gamepadActive = n.gamepadActive /\ m.focusEditing = n.focusEditing
<1>1. k \in Nat
  <2>1. n.list \in Views
    BY DEF Window
  <2>2. IsGrid(Lists[n.list])
    BY <2>1, ListIsGrid
  <2>3. QED BY <2>2 DEF IsGrid
<1>2. QED BY <1>1 DEF Good, Window

LEMMA FocusFirst ==
  ASSUME NEW n, Good(n)
  PROVE  LET m == focusFirstVisible(n)
         IN Good(m) /\ m.view = n.view /\ m.list = n.list
            /\ m.gamepadActive = n.gamepadActive /\ m.focusEditing = n.focusEditing
<1> DEFINE first == FirstVisible(gridSnapshot(n))
<1>1. CASE first = 0
  BY <1>1 DEF focusFirstVisible
<1>2. CASE first # 0
  <2>1. Visible(gridSnapshot(n)) # {}
    BY <1>2 DEF FirstVisible
  <2>2. first \in DOMAIN Lists[n.list]
    BY <2>1, SnapshotGood, FirstVisibleIsVisible DEF Good, Visible
  <2>3. focusFirstVisible(n) = [n EXCEPT !.focusIdx = first]
    BY <1>2 DEF focusFirstVisible
  <2> HIDE DEF first
  <2> DEFINE m == [n EXCEPT !.focusIdx = first]
  <2>4. Good(m) /\ m.view = n.view /\ m.list = n.list
        /\ m.gamepadActive = n.gamepadActive /\ m.focusEditing = n.focusEditing
    BY <2>2, MovedFocus DEF Good
  <2> HIDE DEF m
  <2>5. QED BY <2>3, <2>4 DEF m
<1>3. QED BY <1>1, <1>2

LEMMA Shown ==
  ASSUME NEW n, Good(n), Front(n)
  PROVE  LET m == showGamepadFocus(n)
         IN Good(m) /\ Front(m) /\ m.view = n.view /\ m.gamepadActive
            /\ m.focusEditing = n.focusEditing /\ (n.focusEditing => m = n)
<1>1. CASE n.gamepadActive
  BY <1>1 DEF showGamepadFocus
<1>2. CASE ~n.gamepadActive
  <2> DEFINE a == [n EXCEPT !.gamepadActive = TRUE]
  <2>1. Good(a) /\ a.view = n.view /\ a.list = n.list /\ a.gamepadActive
        /\ a.focusEditing = n.focusEditing
    BY DEF Good, Window
  <2>2. ~n.focusEditing
    BY <1>2 DEF Front
  <2>3. showGamepadFocus(n) = focusFirstVisible(a)
    BY <1>2 DEF showGamepadFocus
  <2> HIDE DEF a
  <2>4. QED BY <2>1, <2>2, <2>3, FocusFirst DEF Front
<1>3. QED BY <1>1, <1>2

LEMMA Entered ==
  ASSUME NEW n, Good(n), Front(n), n.gamepadActive, ~n.focusEditing,
         FocusedSlider(n) \in Sliders
  PROVE  LET m == enterEditMode(n)
         IN Good(m) /\ Front(m) /\ Evolves(n, m, {})
<1>1. n.value[FocusedSlider(n)] \in Values
  BY DEF Good, Window
<1>2. Good(enterEditMode(n))
  BY <1>1 DEF Good, Window, enterEditMode
<1>3. QED BY <1>2 DEF enterEditMode, Good, Window, Front, Evolves, FocusedSlider

LEMMA Exited ==
  ASSUME NEW n, Good(n), Front(n), NEW commit \in BOOLEAN
  PROVE  LET m == exitEditMode(n, commit)
         IN Good(m) /\ Front(m) /\ ~m.focusEditing /\ m.view = n.view /\ m.list = n.list
            /\ m.focusIdx = n.focusIdx /\ m.gamepadActive = n.gamepadActive
<1>1. CASE ~n.focusEditing
  BY <1>1 DEF exitEditMode
<1>2. CASE n.focusEditing
  <2> DEFINE val == IF commit \/ FocusedSlider(n) \notin Sliders THEN n.value
                    ELSE [n.value EXCEPT ![FocusedSlider(n)] = n.editOriginalValue]
  <2>1. val \in [Sliders -> Values]
    BY DEF Good, Window
  <2>2. exitEditMode(n, commit) = [n EXCEPT !.focusEditing = FALSE, !.value = val]
    BY <1>2 DEF exitEditMode
  <2> HIDE DEF val
  <2> DEFINE m == [n EXCEPT !.focusEditing = FALSE, !.value = val]
  <2>3. m \in Window
    BY <2>1 DEF Good, Window
  <2>4. /\ m.list = n.list /\ m.view = n.view /\ m.focusIdx = n.focusIdx
        /\ m.gamepadActive = n.gamepadActive /\ ~m.focusEditing
    BY DEF Good, Window
  <2>5. exitEditMode(n, commit) = m
    BY <2>2
  <2> HIDE DEF m
  <2>6. QED BY <2>3, <2>4, <2>5 DEF Good, Front
<1>3. QED BY <1>1, <1>2

LEMMA Adjusted ==
  ASSUME NEW n, Good(n), Front(n), NEW dir \in Dirs
  PROVE  LET m == adjustFocus(n, dir)
         IN Good(m) /\ Front(m) /\ (n.focusEditing => Evolves(n, m, {}))
<1> DEFINE f == FocusedSlider(n)
           v == n.value[f] + dir
<1>1. CASE f \in Sliders /\ v \in Values
  <2>1. adjustFocus(n, dir) = [n EXCEPT !.value = [n.value EXCEPT ![f] = v]]
    BY <1>1 DEF adjustFocus
  <2>2. [n.value EXCEPT ![f] = v] \in [Sliders -> Values]
    BY <1>1 DEF Good, Window
  <2>3. \A s \in Sliders : s # f => [n.value EXCEPT ![f] = v][s] = n.value[s]
    BY DEF Good, Window
  <2> DEFINE w == [n.value EXCEPT ![f] = v]
  <2> HIDE DEF w, v
  <2>4. QED BY <2>1, <2>2, <2>3 DEF Good, Window, Front, Evolves, FocusedSlider, w
<1>2. CASE ~(f \in Sliders /\ v \in Values)
  BY <1>2 DEF adjustFocus, Evolves
<1>3. QED BY <1>1, <1>2

LEMMA HiddenFocus ==
  ASSUME NEW n, Good(n), Front(n)
  PROVE  LET m == hideGamepadFocus(n)
         IN Good(m) /\ Front(m) /\ ~m.focusEditing /\ m.view = n.view
<1>1. CASE ~n.gamepadActive
  BY <1>1 DEF hideGamepadFocus, Front
<1>2. CASE n.gamepadActive
  <2> DEFINE m == exitEditMode(n, TRUE)
  <2>1. Good(m) /\ Front(m) /\ ~m.focusEditing /\ m.view = n.view
    BY Exited
  <2>2. hideGamepadFocus(n) = [m EXCEPT !.gamepadActive = FALSE]
    BY <1>2 DEF hideGamepadFocus
  <2> HIDE DEF m
  <2>3. QED BY <2>1, <2>2 DEF Good, Window, Front
<1>3. QED BY <1>1, <1>2

LEMMA Swapped ==
  ASSUME NEW n \in Window, NEW v \in Views, n.view = v
  PROVE  LET m == swapFocusList(n, v)
         IN Good(m) /\ Front(m) /\ ~m.focusEditing /\ m.view = v
<1> DEFINE a == [n EXCEPT !.focusEditing = FALSE, !.list = v, !.focusIdx = 1]
<1>1. Good(a) /\ a.list = v /\ a.view = v /\ ~a.focusEditing
      /\ a.gamepadActive = n.gamepadActive
  BY ListIsGrid DEF Good, Window
<1>2. swapFocusList(n, v) = IF n.gamepadActive THEN focusFirstVisible(a) ELSE a
  BY DEF swapFocusList
<1> HIDE DEF a
<1>3. QED BY <1>1, <1>2, FocusFirst DEF Front

LEMMA ViewShown ==
  ASSUME NEW n \in Window, NEW v \in Views
  PROVE  LET m == showView(n, v)
         IN Good(m) /\ Front(m) /\ ~m.focusEditing /\ m.view = v
<1> DEFINE a == [n EXCEPT !.view = v]
<1>1. a \in Window /\ a.view = v
  BY DEF Window
<1>2. showView(n, v) = swapFocusList(a, v)
  BY DEF showView
<1> HIDE DEF a
<1> DEFINE m == swapFocusList(a, v)
<1>3. Good(m) /\ Front(m) /\ ~m.focusEditing /\ m.view = v
  BY <1>1, Swapped
<1> HIDE DEF m
<1>4. QED BY <1>2, <1>3 DEF m

LEMMA MainShown ==
  ASSUME NEW n \in Window
  PROVE  LET m == showMainView(n)
         IN Good(m) /\ Front(m) /\ ~m.focusEditing /\ m.view = "main"
BY ViewShown DEF showMainView, Views

LEMMA Closed ==
  ASSUME NEW n, Good(n), Front(n)
  PROVE  LET m == hide(n)
         IN Good(m) /\ Front(m) /\ ~m.focusEditing /\ m.view = "main"
<1> DEFINE a == hideGamepadFocus(n)
           b == [a EXCEPT !.error = FALSE]
<1>1. Good(a)
  BY HiddenFocus
<1> HIDE DEF a
<1>2. b \in Window
  BY <1>1 DEF Good, Window
<1>3. hide(n) = showMainView(b)
  BY DEF hide, a
<1> HIDE DEF b
<1>4. QED BY <1>2, <1>3, MainShown

LEMMA Navigated ==
  ASSUME NEW n, Good(n), Front(n), NEW a \in Actions \ {"accept", "back"}
  PROVE  LET m == Navigate(n, a)
         IN Good(m) /\ Front(m) /\ Evolves(n, m, {})
<1> DEFINE m == exitEditMode(n, TRUE)
           snap == gridSnapshot(n)
           To(idx) == [m EXCEPT !.focusIdx = idx]
<1>1. Good(m) /\ Front(m) /\ ~m.focusEditing /\ m.list = n.list
  BY Exited
<1>2. IsGrid(snap) /\ DOMAIN snap = DOMAIN Lists[n.list] /\ n.focusIdx \in DOMAIN snap
  BY SnapshotGood DEF Good
<1>3. \A idx \in DOMAIN Lists[n.list] :
        Good(To(idx)) /\ Front(To(idx)) /\ Evolves(n, To(idx), {})
  <2> HIDE DEF m
  <2>1. TAKE idx \in DOMAIN Lists[n.list]
  <2>2. m \in Window /\ idx \in DOMAIN Lists[m.list]
    BY <1>1 DEF Good
  <2>3. Good(To(idx)) /\ To(idx).view = m.view /\ To(idx).list = m.list
        /\ To(idx).focusEditing = m.focusEditing
    BY <2>2, MovedFocus
  <2>4. QED BY <1>1, <2>3 DEF Front, Evolves
<1>4. \A dir \in Dirs : MoveVertical(snap, n.focusIdx, dir) \in DOMAIN Lists[n.list]
  <2> HIDE DEF snap
  <2>1. QED BY <1>2, VerticalLandsOnVisible DEF Visible
<1>5. \A dir \in Dirs : MoveHorizontal(snap, n.focusIdx, dir) \in DOMAIN Lists[n.list]
  <2> HIDE DEF snap
  <2>1. QED BY <1>2, HorizontalStaysInRow DEF Visible
<1>6. \A dir \in Dirs : JumpSection(snap, n.focusIdx, dir) \in DOMAIN Lists[n.list]
  <2> HIDE DEF snap
  <2>1. QED BY <1>2, JumpLandsOnVisible DEF Visible
<1>7. CASE n.focusEditing /\ a \in {"left", "right"}
  <2>1. \E dir \in Dirs : Navigate(n, a) = adjustFocus(n, dir)
    BY <1>7 DEF Navigate, Dirs
  <2>2. QED BY <1>7, <2>1, Adjusted
<1>8. CASE ~(n.focusEditing /\ a \in {"left", "right"})
  <2>1. \E idx \in DOMAIN Lists[n.list] : Navigate(n, a) = To(idx)
    <3> HIDE DEF m, snap
    <3>1. a \in {"up", "down", "left", "right", "bumpL", "bumpR"} /\ {1, -1} = Dirs
      BY DEF Actions, Dirs
    <3>2. \E dir \in Dirs : Navigate(n, a) \in
            {To(MoveVertical(snap, n.focusIdx, dir)), To(MoveHorizontal(snap, n.focusIdx, dir)),
             To(JumpSection(snap, n.focusIdx, dir))}
      BY <1>8, <3>1 DEF Navigate, m, snap
    <3> HIDE DEF To
    <3>3. QED BY <1>4, <1>5, <1>6, <3>2
  <2> HIDE DEF To
  <2>2. QED BY <1>3, <2>1
<1>9. QED BY <1>7, <1>8

-----------------------------------------------------------------------------
(* The view switches and the controls.                                      *)

LEMMA FilledValues ==
  ASSUME NEW S, NEW val \in [S -> Values], NEW n \in Window
  PROVE  /\ Filled(n, val) \in [Sliders -> Values]
         /\ \A s \in Sliders \ S : Filled(n, val)[s] = n.value[s]
BY DEF Filled, Window

LEMMA SlidersOfViews ==
  ASSUME NEW views \in SUBSET Views
  PROVE  UNION {SlidersOf(v) : v \in views} \in SUBSET Sliders
BY DEF Sliders

LEMMA ColorShown ==
  ASSUME NEW n \in Window, NEW m \in showColorView(n)
  PROVE  Good(m) /\ Front(m) /\ ~m.focusEditing
<1>1. PICK val \in [SlidersOf("color") -> Values] :
        m = showView([n EXCEPT !.value = Filled(n, val)], "color")
  BY DEF showColorView
<1>2. "color" \in Views
  BY DEF Views
<1>3. Filled(n, val) \in [Sliders -> Values]
  BY <1>2, FilledValues
<1> DEFINE w == Filled(n, val)
           a == [n EXCEPT !.value = w]
<1>4. a \in Window
  <2> HIDE DEF w
  <2>1. w \in [Sliders -> Values]
    BY <1>3 DEF w
  <2>2. QED BY <2>1 DEF Window
<1>5. m = showView(a, "color")
  BY <1>1
<1> HIDE DEF a, w
<1>6. QED BY <1>2, <1>4, <1>5, ViewShown

LEMMA SyncedGood ==
  ASSUME NEW n \in Window, NEW views \in SUBSET Views, NEW m \in Synced(n, views)
  PROVE  /\ m \in Window
         /\ m.list = n.list /\ m.view = n.view /\ m.focusIdx = n.focusIdx
         /\ m.gamepadActive = n.gamepadActive /\ m.focusEditing = n.focusEditing
         /\ m.editOriginalValue = n.editOriginalValue
         /\ \A s \in Sliders \ UNION {SlidersOf(v) : v \in views} : m.value[s] = n.value[s]
<1> DEFINE sliders == UNION {SlidersOf(v) : v \in views}
<1>1. PICK val \in [sliders -> Values], s \in Shows :
        m = [n EXCEPT !.value = Filled(n, val), !.shown = s]
  <2> DEFINE groups == {t \in Shows : "advanced" \in n.shown => "advanced" \in t}
             Of(s) == {[n EXCEPT !.value = Filled(n, val), !.shown = s] : val \in [sliders -> Values]}
  <2>1. m \in UNION {Of(s) : s \in groups}
    BY Zenon DEF Synced
  <2> HIDE DEF Of, groups
  <2>2. PICK s \in groups : m \in Of(s)
    BY <2>1
  <2>3. PICK val \in [sliders -> Values] : m = [n EXCEPT !.value = Filled(n, val), !.shown = s]
    BY <2>2, Zenon DEF Of
  <2>4. s \in Shows
    BY DEF groups
  <2>5. QED BY <2>3, <2>4
<1>2. sliders \in SUBSET Sliders
  BY SlidersOfViews
<1> HIDE DEF sliders
<1> DEFINE w == Filled(n, val)
<1>3. w \in [Sliders -> Values] /\ \A x \in Sliders \ sliders : w[x] = n.value[x]
  BY <1>2, FilledValues
<1>4. m = [n EXCEPT !.value = w, !.shown = s]
  BY <1>1
<1> HIDE DEF w
<1>5. m.value = w
  BY <1>4 DEF Window
<1>6. QED BY <1>3, <1>4, <1>5 DEF Window, sliders

LEMMA CustomShown ==
  ASSUME NEW n \in Window, NEW m \in showCustomView(n)
  PROVE  Good(m) /\ Front(m) /\ ~m.focusEditing
<1>1. CASE n.view = "custom"
  BY <1>1, MainShown DEF showCustomView
<1>2. CASE n.view # "custom"
  <2>1. PICK x \in Synced(n, {"custom"}) : m = showView(x, "custom")
    BY <1>2 DEF showCustomView
  <2>2. {"custom"} \in SUBSET Views /\ "custom" \in Views
    BY DEF Views
  <2>3. x \in Window
    BY <2>1, <2>2, SyncedGood
  <2>4. QED BY <2>1, <2>2, <2>3, ViewShown
<1>3. QED BY <1>1, <1>2

(* A control either leaves for another view, or stays and moves no slider.  *)
LEMMA Operated ==
  ASSUME NEW n, Good(n), Front(n), NEW does, NEW m \in Operate(n, does)
  PROVE  Good(m) /\ Front(m) /\ Evolves(n, m, {})
<1>1. n \in Window
  BY DEF Good
<1>2. CASE Good(m) /\ Front(m) /\ ~m.focusEditing
  BY <1>2 DEF Evolves
<1>3. ASSUME m \in Window, m.value = n.value,
             m.list = n.list, m.view = n.view, m.focusIdx = n.focusIdx,
             m.gamepadActive = n.gamepadActive, m.focusEditing = n.focusEditing,
             m.editOriginalValue = n.editOriginalValue
      PROVE  Good(m) /\ Front(m) /\ Evolves(n, m, {})
  <2>1. FocusedSlider(m) = FocusedSlider(n)
    BY <1>3 DEF FocusedSlider
  <2>2. QED BY <1>3, <2>1 DEF Good, Front, Evolves
<1>4. CASE does = "main"
  <2>1. m = showMainView(n)
    BY <1>4 DEF Operate
  <2>2. QED BY <1>1, <1>2, <2>1, MainShown
<1>5. CASE does = "theme"
  <2>1. m = showMainView(n) \/ m = showView(n, "theme")
    BY <1>5 DEF Operate, showThemeView
  <2>2. "theme" \in Views
    BY DEF Views
  <2>3. QED BY <1>1, <1>2, <2>1, <2>2, MainShown, ViewShown
<1>6. CASE does = "color"
  <2>1. m \in showColorView(n)
    BY <1>6 DEF Operate
  <2>2. QED BY <1>1, <1>2, <2>1, ColorShown
<1>7. CASE does = "custom"
  <2>1. m \in showCustomView(n)
    BY <1>7 DEF Operate
  <2>2. QED BY <1>1, <1>2, <2>1, CustomShown
<1>8. CASE does \notin {"main", "theme", "color", "custom"}
  <2>1. \/ m = n
        \/ m = [n EXCEPT !.error = FALSE]
        \/ \E s \in Shows : m = [n EXCEPT !.shown = s]
    BY <1>8 DEF Operate
  <2>2. CASE m = n
    BY <1>1, <1>3, <2>2
  <2>3. CASE m = [n EXCEPT !.error = FALSE]
    <3>1. m \in Window /\ m.value = n.value
          /\ m.list = n.list /\ m.view = n.view /\ m.focusIdx = n.focusIdx
          /\ m.gamepadActive = n.gamepadActive /\ m.focusEditing = n.focusEditing
          /\ m.editOriginalValue = n.editOriginalValue
      BY <1>1, <2>3 DEF Window
    <3>2. QED BY <1>3, <3>1
  <2>4. ASSUME NEW s \in Shows, m = [n EXCEPT !.shown = s]
        PROVE  Good(m) /\ Front(m) /\ Evolves(n, m, {})
    <3>1. m \in Window /\ m.value = n.value
          /\ m.list = n.list /\ m.view = n.view /\ m.focusIdx = n.focusIdx
          /\ m.gamepadActive = n.gamepadActive /\ m.focusEditing = n.focusEditing
          /\ m.editOriginalValue = n.editOriginalValue
      BY <1>1, <2>4 DEF Window
    <3>2. QED BY <1>3, <3>1
  <2>5. QED BY <2>1, <2>2, <2>3, <2>4
<1>9. QED BY <1>4, <1>5, <1>6, <1>7, <1>8

-----------------------------------------------------------------------------
(* The steps.                                                               *)

(* A handler first shows the focus; that does not touch an edit.            *)
LEMMA EvolvesAsShown ==
  ASSUME Good(win), Front(win), NEW m, Evolves(showGamepadFocus(win), m, {})
  PROVE  Evolves(win, m, {})
<1> DEFINE n == showGamepadFocus(win)
<1>1. n.focusEditing = win.focusEditing /\ (win.focusEditing => n = win)
  BY Shown
<1> HIDE DEF n
<1>2. Evolves(n, m, {})
  BY DEF n
<1>3. QED BY <1>1, <1>2 DEF Evolves

LEMMA HandlerEvolves ==
  ASSUME Good(win), Front(win),
         HandleAccept \/ HandleBack \/ \E a \in Actions : HandleNavigate(a)
  PROVE  Good(win') /\ Front(win') /\ Evolves(win, win', {}) /\ Remember({})
<1> DEFINE n == showGamepadFocus(win)
<1>1. Good(n) /\ Front(n) /\ n.gamepadActive
  BY Shown
<1>2. SUFFICES ASSUME Remember({})
               PROVE  Good(win') /\ Front(win') /\ Evolves(n, win', {})
  <2>1. Remember({})
    BY DEF HandleAccept, HandleBack, HandleNavigate
  <2>2. QED BY <2>1, EvolvesAsShown
<1>3. CASE \E a \in Actions : HandleNavigate(a)
  <2>1. PICK a \in Actions \ {"accept", "back"} : win' = Navigate(n, a)
    BY <1>3 DEF HandleNavigate
  <2> HIDE DEF n
  <2>2. QED BY <1>1, <2>1, Navigated
<1>4. ASSUME NEW commit \in BOOLEAN, win' = exitEditMode(n, commit)
      PROVE  Good(win') /\ Front(win') /\ Evolves(n, win', {})
  <2> HIDE DEF n
  <2>1. Good(win') /\ Front(win') /\ ~win'.focusEditing
    BY <1>1, <1>4, Exited
  <2>2. QED BY <2>1 DEF Evolves
<1>5. CASE HandleAccept
  <2>1. \/ win' = exitEditMode(n, TRUE)
        \/ ~n.focusEditing /\ Focused(n).does = "edit" /\ win' = enterEditMode(n)
        \/ win' = n
        \/ win' \in Operate(n, Focused(n).does)
    BY <1>5 DEF HandleAccept
  <2>2. Focused(n).does = "edit" => FocusedSlider(n) \in Sliders
    <3> HIDE DEF n
    <3>1. n.list \in Views /\ n.focusIdx \in DOMAIN Lists[n.list]
      BY <1>1 DEF Good, Window
    <3>2. QED BY <3>1 DEF Focused, FocusedSlider, Sliders, SlidersOf
  <2> HIDE DEF n
  <2>3. CASE ~n.focusEditing /\ Focused(n).does = "edit" /\ win' = enterEditMode(n)
    BY <1>1, <2>2, <2>3, Entered
  <2>4. CASE win' = n
    <3>1. n.focusEditing => \A s \in Sliders : n.value[s] = n.value[s]
      OBVIOUS
    <3>2. CASE n.focusEditing
      BY <1>1, <2>4, <3>2 DEF Evolves
    <3>3. CASE ~n.focusEditing
      BY <1>1, <2>4, <3>3 DEF Evolves
    <3>4. QED BY <3>2, <3>3
  <2>5. CASE win' \in Operate(n, Focused(n).does)
    BY <1>1, <2>5, Operated
  <2>6. QED BY <1>4, <2>1, <2>3, <2>4, <2>5
<1>6. CASE HandleBack
  <2>1. win' = exitEditMode(n, FALSE) \/ win' = showMainView(n) \/ win' = hide(n)
    BY <1>6 DEF HandleBack
  <2> HIDE DEF n
  <2>2. n \in Window
    BY <1>1 DEF Good
  <2>3. CASE win' = showMainView(n)
    <3>1. Good(win') /\ Front(win') /\ ~win'.focusEditing
      BY <2>2, <2>3, MainShown
    <3>2. QED BY <3>1 DEF Evolves
  <2>4. CASE win' = hide(n)
    <3>1. Good(win') /\ Front(win') /\ ~win'.focusEditing
      BY <1>1, <2>4, Closed
    <3>2. QED BY <3>1 DEF Evolves
  <2>5. QED BY <1>4, <2>1, <2>3, <2>4
<1>7. QED BY <1>3, <1>5, <1>6

(* Fields that a step leaves alone.                                         *)
LEMMA Untouched ==
  ASSUME NEW n, Good(n), Front(n), NEW m \in Window, NEW foreign,
         m.list = n.list, m.view = n.view, m.focusIdx = n.focusIdx,
         m.gamepadActive = n.gamepadActive, m.focusEditing = n.focusEditing,
         m.editOriginalValue = n.editOriginalValue,
         \A s \in Sliders \ foreign : m.value[s] = n.value[s]
  PROVE  Good(m) /\ Front(m) /\ Evolves(n, m, foreign)
<1>1. FocusedSlider(m) = FocusedSlider(n)
  BY DEF FocusedSlider
<1>2. QED BY <1>1 DEF Good, Front, Evolves

LEMMA PointEvolves ==
  ASSUME Good(win), Front(win), Point
  PROVE  Good(win') /\ Front(win')
         /\ \E foreign \in SUBSET Sliders : Evolves(win, win', foreign) /\ Remember(foreign)
<1>1. PICK i \in DOMAIN Lists[win.view] :
        IF <<win.view, i>> \in Sliders
          THEN /\ win' \in {[win EXCEPT !.value[<<win.view, i>>] = v] : v \in Values}
               /\ Remember({<<win.view, i>>})
          ELSE /\ win' \in Operate(win, Lists[win.view][i].does)
               /\ Remember({})
  BY DEF Point
<1>2. CASE <<win.view, i>> \notin Sliders
  <2>1. win' \in Operate(win, Lists[win.view][i].does) /\ Remember({})
    BY <1>1, <1>2
  <2>2. Good(win') /\ Front(win') /\ Evolves(win, win', {})
    BY <2>1, Operated
  <2>3. {} \in SUBSET Sliders
    OBVIOUS
  <2>4. QED BY <2>1, <2>2, <2>3
<1>3. CASE <<win.view, i>> \in Sliders
  <2> DEFINE f == <<win.view, i>>
  <2>1. PICK v \in Values : win' = [win EXCEPT !.value = [win.value EXCEPT ![f] = v]]
    BY <1>1, <1>3
  <2>2. f \in Sliders /\ Remember({f})
    BY <1>1, <1>3
  <2> HIDE DEF f
  <2> DEFINE w == [win.value EXCEPT ![f] = v]
  <2>3. w \in [Sliders -> Values] /\ \A s \in Sliders \ {f} : w[s] = win.value[s]
    BY <2>2 DEF Good, Window
  <2>4. win' = [win EXCEPT !.value = w]
    BY <2>1
  <2> HIDE DEF w
  <2>5. win' \in Window /\ win'.value = w
        /\ win'.list = win.list /\ win'.view = win.view /\ win'.focusIdx = win.focusIdx
        /\ win'.gamepadActive = win.gamepadActive /\ win'.focusEditing = win.focusEditing
        /\ win'.editOriginalValue = win.editOriginalValue
    BY <2>3, <2>4 DEF Good, Window
  <2>6. Good(win') /\ Front(win') /\ Evolves(win, win', {f})
    BY <2>3, <2>5, Untouched
  <2>7. QED BY <2>2, <2>6
<1>4. QED BY <1>2, <1>3

LEMMA StepEvolves ==
  ASSUME Good(win), Front(win), [Next]_vars
  PROVE  /\ Good(win') /\ Front(win')
         /\ \/ UNCHANGED <<win, before, others>>
            \/ \E foreign \in SUBSET Sliders : Evolves(win, win', foreign) /\ Remember(foreign)
<1>1. {} \in SUBSET Sliders
  OBVIOUS
<1>2. ASSUME Good(win'), Front(win'), ~win'.focusEditing, Remember({})
      PROVE  \E foreign \in SUBSET Sliders : Evolves(win, win', foreign) /\ Remember(foreign)
  BY <1>1, <1>2 DEF Evolves
<1>3. CASE UNCHANGED <<win, before, others>>
  BY <1>3
<1>4. CASE HandleAccept \/ HandleBack \/ \E a \in Actions : HandleNavigate(a)
  BY <1>1, <1>4, HandlerEvolves
<1>5. CASE CustomClicked
  <2>1. win' \in Operate(win, "custom") /\ Remember({})
    BY <1>5 DEF CustomClicked
  <2>2. QED BY <1>1, <2>1, Operated
<1>6. CASE Hide
  BY <1>2, <1>6, Closed DEF Hide
<1>7. CASE Motion
  BY <1>2, <1>7, HiddenFocus DEF Motion
<1>8. CASE Point
  BY <1>8, PointEvolves
<1>9. CASE Sync
  <2> DEFINE views == {"main", "custom"}
             foreign == UNION {SlidersOf(v) : v \in views}
  <2>1. views \in SUBSET Views
    BY DEF Views
  <2>2. foreign \in SUBSET Sliders
    BY <2>1, SlidersOfViews
  <2>3. win' \in Synced(win, views) /\ Remember(foreign)
    <3>1. foreign = SlidersOf("main") \cup SlidersOf("custom")
      OBVIOUS
    <3> HIDE DEF foreign
    <3>2. QED BY <1>9, <3>1 DEF Sync
  <2>4. win \in Window
    BY DEF Good
  <2>5. win' \in Window
        /\ win'.list = win.list /\ win'.view = win.view /\ win'.focusIdx = win.focusIdx
        /\ win'.gamepadActive = win.gamepadActive /\ win'.focusEditing = win.focusEditing
        /\ win'.editOriginalValue = win.editOriginalValue
        /\ \A s \in Sliders \ foreign : win'.value[s] = win.value[s]
    <3> HIDE DEF views
    <3>1. QED BY <2>1, <2>3, <2>4, SyncedGood
  <2> HIDE DEF foreign, views
  <2>6. Good(win') /\ Front(win') /\ Evolves(win, win', foreign)
    BY <2>5, Untouched
  <2>7. QED BY <2>2, <2>3, <2>6
<1>10. CASE Report \/ ClearError
  <2>1. Remember({}) /\ \E e \in {TRUE, FALSE, visible \/ win.error} : win' = [win EXCEPT !.error = e]
    BY <1>10 DEF Report, ClearError
  <2>2. PICK e \in {TRUE, FALSE, visible \/ win.error} : win' = [win EXCEPT !.error = e]
    BY <2>1
  <2>3. e \in BOOLEAN
    OBVIOUS
  <2>4. win' \in Window /\ win'.value = win.value
        /\ win'.list = win.list /\ win'.view = win.view /\ win'.focusIdx = win.focusIdx
        /\ win'.gamepadActive = win.gamepadActive /\ win'.focusEditing = win.focusEditing
        /\ win'.editOriginalValue = win.editOriginalValue
    BY <2>2, <2>3 DEF Good, Window
  <2>5. Good(win') /\ Front(win') /\ Evolves(win, win', {})
    BY <2>4, Untouched
  <2>6. QED BY <1>1, <2>1, <2>5
<1>11. CASE Show \/ \E a \in Actions : Press(a)
  BY <1>11 DEF Show, Press
<1>12. QED BY <1>3, <1>4, <1>5, <1>6, <1>7, <1>8, <1>9, <1>10, <1>11 DEF Next, vars

-----------------------------------------------------------------------------
(* Types, and the focus list.                                               *)

TypeInv == TypeOK /\ Front(win)

LEMMA InitType ==
  ASSUME Init
  PROVE  TypeInv
<1>1. PICK s \in Shows, val \in [Sliders -> {0}] :
        /\ win = [view |-> "main", list |-> "main", focusIdx |-> 1,
                  gamepadActive |-> FALSE, focusEditing |-> FALSE,
                  editOriginalValue |-> 0, value |-> val, shown |-> s, error |-> FALSE]
        /\ before = val
  BY DEF Init
<1>2. 0 \in Values /\ "main" \in Views
  BY DEF Values, Views
<1>3. val \in [Sliders -> Values]
  BY <1>2
<1>4. win \in Window /\ win.list = "main" /\ win.view = "main" /\ win.focusIdx = 1
      /\ ~win.focusEditing
  BY <1>1, <1>2, <1>3 DEF Window
<1>5. win.focusIdx \in DOMAIN Lists[win.list]
  BY <1>2, <1>4, ListIsGrid
<1>6. queue \in Seq(Actions) /\ Len(queue) <= MaxQueue
  BY DEF Init
<1>7. QED BY <1>1, <1>3, <1>4, <1>5, <1>6 DEF Init, TypeInv, TypeOK, Front

LEMMA StepType ==
  ASSUME TypeInv, [Next]_vars
  PROVE  TypeInv'
<1>1. Good(win) /\ Front(win)
  BY DEF TypeInv, TypeOK, Good
<1>2. Good(win') /\ Front(win')
  BY <1>1, StepEvolves
<1>3. before' \in [Sliders -> Values] /\ others' \subseteq Sliders
  <2>1. CASE UNCHANGED <<win, before, others>>
    BY <2>1 DEF TypeInv, TypeOK
  <2>2. ASSUME NEW foreign \in SUBSET Sliders, Remember(foreign)
        PROVE  before' \in [Sliders -> Values] /\ others' \subseteq Sliders
    <3>1. win'.value \in [Sliders -> Values]
      BY <1>2 DEF Good, Window
    <3>2. QED BY <2>2, <3>1 DEF Remember, TypeInv, TypeOK
  <2>3. QED BY <1>1, <2>1, <2>2, StepEvolves
<1>4. visible' \in BOOLEAN /\ customClick' \in BOOLEAN
  <2> USE DEF TypeInv, TypeOK
  <2>1. visible' = visible \/ visible' = TRUE \/ visible' = FALSE
    BY DEF Next, vars, Press, HandleNavigate, HandleAccept, HandleBack, CustomClicked, Show,
           Hide, Motion, Point, Sync, Report, ClearError
  <2>2. customClick' = customClick \/ customClick' = TRUE \/ customClick' = FALSE
    BY DEF Next, vars, Press, HandleNavigate, HandleAccept, HandleBack, CustomClicked, Show,
           Hide, Motion, Point, Sync, Report, ClearError
  <2>3. QED BY <2>1, <2>2
<1>5. queue' \in Seq(Actions) /\ Len(queue') <= MaxQueue
  <2>1. queue \in Seq(Actions) /\ Len(queue) <= MaxQueue
    BY DEF TypeInv, TypeOK
  <2>2. ASSUME NEW a \in Actions, Press(a)
        PROVE  queue' \in Seq(Actions) /\ Len(queue') <= MaxQueue
    <3>1. Len(queue) < MaxQueue /\ queue' = Append(queue, a)
      BY <2>2 DEF Press
    <3>2. QED BY <2>1, <3>1
  <2>3. ASSUME NEW a \in Actions, Handle(a)
        PROVE  queue' \in Seq(Actions) /\ Len(queue') <= MaxQueue
    <3>1. queue # <<>> /\ queue' = Tail(queue)
      BY <2>3 DEF Handle
    <3>2. QED BY <2>1, <3>1
  <2>4. \/ UNCHANGED queue
        \/ \E a \in Actions : Press(a) \/ Handle(a)
    BY DEF Next, vars, HandleNavigate, HandleAccept, HandleBack, CustomClicked, Show,
           Hide, Motion, Point, Sync, Report, ClearError, Actions
  <2>5. QED BY <2>1, <2>2, <2>3, <2>4
<1>6. QED BY <1>2, <1>3, <1>4, <1>5 DEF TypeInv, TypeOK, Good

(* Types; the focus is always on an item of the list in front.              *)
THEOREM TypeCorrect == Spec => [](TypeOK /\ Front(win))
<1>1. Init => TypeInv
  BY InitType
<1>2. TypeInv /\ [Next]_vars => TypeInv'
  BY StepType
<1>3. QED BY <1>1, <1>2, PTL DEF Spec, TypeInv

(* Whatever switches views, in whatever order with the presses still in the *)
(* queue, an edit is of a slider of the view in front.                      *)
THEOREM EditInFront == Spec => []EditIsOfTheViewInFront
<1>1. TypeOK /\ Front(win) => EditIsOfTheViewInFront
  BY DEF Front, EditIsOfTheViewInFront
<1>2. QED BY <1>1, TypeCorrect, PTL

(* Nothing slides another control under an edit, or another value to go     *)
(* back to.                                                                 *)
THEOREM EditStays == Spec => EditKeepsItsSlider
<1>1. TypeInv /\ [Next]_vars =>
        [win.focusEditing /\ win'.focusEditing =>
           /\ FocusedSlider(win') = FocusedSlider(win)
           /\ win'.editOriginalValue = win.editOriginalValue]_vars
  <2> SUFFICES ASSUME TypeInv, [Next]_vars, win.focusEditing, win'.focusEditing
               PROVE  /\ FocusedSlider(win') = FocusedSlider(win)
                      /\ win'.editOriginalValue = win.editOriginalValue
    OBVIOUS
  <2>1. Good(win) /\ Front(win)
    BY DEF TypeInv, TypeOK, Good
  <2>2. \/ UNCHANGED win
        \/ \E foreign \in SUBSET Sliders : Evolves(win, win', foreign)
    BY <2>1, StepEvolves
  <2>3. CASE UNCHANGED win
    BY <2>3
  <2>4. CASE \E foreign \in SUBSET Sliders : Evolves(win, win', foreign)
    BY <2>4 DEF Evolves
  <2>5. QED BY <2>2, <2>3, <2>4
<1>2. QED BY <1>1, TypeCorrect, PTL DEF Spec, TypeInv, EditKeepsItsSlider

-----------------------------------------------------------------------------
(* The B button.                                                            *)

(* What an edit has kept of the moment it began.                            *)
CancelInv ==
  win.focusEditing =>
    /\ win.editOriginalValue = before[FocusedSlider(win)]
    /\ \A s \in Sliders \ others : s # FocusedSlider(win) => win.value[s] = before[s]

LEMMA CancelStep ==
  ASSUME TypeInv, CancelInv, [Next]_vars
  PROVE  CancelInv'
<1>1. Good(win) /\ Front(win)
  BY DEF TypeInv, TypeOK, Good
<1>2. CASE UNCHANGED <<win, before, others>>
  BY <1>2 DEF CancelInv
<1>3. ASSUME NEW foreign \in SUBSET Sliders, Evolves(win, win', foreign), Remember(foreign)
      PROVE  CancelInv'
  <2>1. CASE ~win'.focusEditing
    BY <2>1 DEF CancelInv
  <2>2. CASE win'.focusEditing /\ win.focusEditing
    <3>1. before' = before /\ others' = others \cup foreign
      BY <1>3, <2>2 DEF Remember
    <3>2. FocusedSlider(win') = FocusedSlider(win)
          /\ win'.editOriginalValue = win.editOriginalValue
          /\ \A s \in Sliders \ foreign : s # FocusedSlider(win) => win'.value[s] = win.value[s]
      BY <1>3, <2>2 DEF Evolves
    <3>3. QED BY <2>2, <3>1, <3>2 DEF CancelInv
  <2>3. CASE win'.focusEditing /\ ~win.focusEditing
    <3>1. before' = win'.value
      BY <1>3, <2>3 DEF Remember
    <3>2. win'.editOriginalValue = win'.value[FocusedSlider(win')]
      BY <1>3, <2>3 DEF Evolves
    <3>3. QED BY <3>1, <3>2 DEF CancelInv
  <2>4. QED BY <2>1, <2>2, <2>3
<1>4. QED BY <1>1, <1>2, <1>3, StepEvolves

(* A B press is handled by HandleBack and by nothing else.                  *)
LEMMA BackIsHandled ==
  ASSUME TypeOK, [Next]_vars, Handles({"back"})
  PROVE  HandleBack
<1>1. queue \in Seq(Actions) /\ queue # <<>> /\ queue' = Tail(queue) /\ Head(queue) = "back"
  BY DEF TypeOK, Handles
<1>2. Len(queue') = Len(queue) - 1 /\ Len(queue) \in Nat
  BY <1>1
<1>3. queue' # queue
  BY <1>2
<1>4. \A a \in Actions : queue' # Append(queue, a)
  <2> SUFFICES ASSUME NEW a \in Actions, queue' = Append(queue, a) PROVE FALSE
    OBVIOUS
  <2> DEFINE S == Actions
  <2>1. queue \in Seq(S) /\ a \in S
    BY <1>1
  <2> HIDE DEF S
  <2>2. Len(Append(queue, a)) = Len(queue) + 1
    BY <2>1, AppendProperties
  <2>3. QED BY <2>2, <1>2
<1>5. QED BY <1>1, <1>3, <1>4
          DEF Next, vars, Press, Handle, HandleNavigate, HandleAccept, CustomClicked, Show,
              Hide, Motion, Point, Sync, Report, ClearError

(* B during an edit undoes the edit, and nothing but the edit.              *)
THEOREM CancelGivesBack == Spec => CancelRestores
<1>1. Init => CancelInv
  BY DEF Init, CancelInv
<1>2. TypeInv /\ CancelInv /\ [Next]_vars => CancelInv'
  BY CancelStep
<1>3. TypeInv /\ CancelInv /\ [Next]_vars =>
        [win.focusEditing /\ Handles({"back"}) =>
           \A s \in Sliders \ others : win'.value[s] = before[s]]_vars
  <2> SUFFICES ASSUME TypeInv, CancelInv, [Next]_vars, win.focusEditing, Handles({"back"}),
                      NEW s \in Sliders \ others
               PROVE  win'.value[s] = before[s]
    OBVIOUS
  <2>1. Good(win) /\ Front(win) /\ FocusedSlider(win) \in Sliders
    BY DEF TypeInv, TypeOK, Good, Front
  <2>2. showGamepadFocus(win) = win
    BY <2>1, Shown
  <2>3. HandleBack
    BY BackIsHandled DEF TypeInv
  <2>4. win' = exitEditMode(win, FALSE)
    BY <2>2, <2>3 DEF HandleBack
  <2>5. win' = [win EXCEPT !.focusEditing = FALSE,
                           !.value = [win.value EXCEPT ![FocusedSlider(win)] = win.editOriginalValue]]
    BY <2>1, <2>4 DEF exitEditMode
  <2>6. win'.value = [win.value EXCEPT ![FocusedSlider(win)] = win.editOriginalValue]
    BY <2>1, <2>5 DEF Good, Window
  <2>7. win.value \in [Sliders -> Values]
    BY <2>1 DEF Good, Window
  <2>8. QED BY <2>6, <2>7 DEF CancelInv
<1>4. QED BY <1>1, <1>2, <1>3, TypeCorrect, PTL DEF Spec, TypeInv, CancelRestores

(* B always gets the user one level further out.                            *)
THEOREM BackGoesOut == Spec => BackUnwinds
<1>1. TypeInv /\ [Next]_vars =>
        [Handles({"back"}) =>
           Depth(visible', win') = IF Depth(visible, win) = 0 THEN 0
                                   ELSE Depth(visible, win) - 1]_vars
  <2> SUFFICES ASSUME TypeInv, [Next]_vars, Handles({"back"})
               PROVE  Depth(visible', win') = IF Depth(visible, win) = 0 THEN 0
                                              ELSE Depth(visible, win) - 1
    OBVIOUS
  <2> DEFINE n == showGamepadFocus(win)
  <2>1. Good(win) /\ Front(win)
    BY DEF TypeInv, TypeOK, Good
  <2>2. Good(n) /\ Front(n) /\ n.view = win.view /\ n.focusEditing = win.focusEditing
    BY <2>1, Shown
  <2>3. HandleBack
    BY BackIsHandled DEF TypeInv
  <2>4. CASE n.focusEditing /\ win' = exitEditMode(n, FALSE) /\ UNCHANGED visible
    <3> HIDE DEF n
    <3>1. ~win'.focusEditing /\ win'.view = n.view
      BY <2>2, <2>4, Exited
    <3> DEFINE inWindow == IF visible THEN 1 ELSE 0
               inView == IF win.view # "main" THEN 1 ELSE 0
    <3>2. inWindow \in {0, 1} /\ inView \in {0, 1}
      OBVIOUS
    <3>3. win'.view = win.view /\ visible' = visible /\ win.focusEditing
      BY <2>2, <2>4, <3>1
    <3>4. Depth(visible, win) = inWindow + inView + 1
      BY <3>3, Zenon DEF Depth
    <3>5. Depth(visible', win') = inWindow + inView + 0
      BY <3>1, <3>3, Zenon DEF Depth
    <3> HIDE DEF inWindow, inView
    <3>6. QED BY <3>2, <3>4, <3>5
  <2>5. CASE ~n.focusEditing /\ n.view # "main" /\ win' = showMainView(n) /\ UNCHANGED visible
    <3> HIDE DEF n
    <3>1. ~win'.focusEditing /\ win'.view = "main"
      BY <2>2, <2>5, MainShown DEF Good
    <3>2. QED BY <2>2, <2>5, <3>1 DEF Depth
  <2>6. CASE ~n.focusEditing /\ n.view = "main" /\ win' = hide(n) /\ visible' = FALSE
    <3> HIDE DEF n
    <3>1. ~win'.focusEditing /\ win'.view = "main"
      BY <2>2, <2>6, Closed
    <3>2. QED BY <2>2, <2>6, <3>1 DEF Depth
  <2>7. QED BY <2>3, <2>4, <2>5, <2>6 DEF HandleBack
<1>2. QED BY <1>1, TypeCorrect, PTL DEF Spec, TypeInv, BackUnwinds
=============================================================================
