------------------------------ MODULE FocusNav ------------------------------
(***************************************************************************)
(* The drawer under a gamepad: view stack, focus list and modal slider     *)
(* editing (internal/gui/focus.go, handleGamepadAction in gui.go, the view *)
(* switches in controls.go and color.go).                                  *)
(*                                                                         *)
(* A press is tested against Window.visible by the reader goroutine (emit) *)
(* and then joins the GTK idle queue; its handler runs later on the GTK    *)
(* thread, among everything else that runs there: mouse motion, clicks and *)
(* touches, daemon state, error reports, Toggle and Escape.                *)
(*                                                                         *)
(* Pointer input reaches the drawer while it is open; the tail of a        *)
(* slide-out, when a backend may still deliver a click, is left out.       *)
(***************************************************************************)
EXTENDS FocusGrid

CONSTANTS
  Lists,      \* the focus list of each view (see FocusLists)
  Shows,      \* the sets of widget groups the daemon's state can show
  MaxValue,   \* a slider ranges over 0..MaxValue, in steps of 1
  MaxQueue    \* bound on the presses waiting in the idle queue

Views == {"main", "theme", "color", "custom"}
Actions == {"up", "down", "left", "right", "accept", "back", "bumpL", "bumpR"}
Values == 0..MaxValue

(* A slider is named by its view and its place in the view's list.          *)
SlidersOf(v) == {<<v, i>> : i \in {j \in DOMAIN Lists[v] : Lists[v][j].does = "edit"}}
Sliders == UNION {SlidersOf(v) : v \in Views}

ASSUME FocusNavAssumption ==
  /\ Lists \in [Views -> Seq([row : Nat, col : Nat, section : STRING,
                              group : STRING, does : STRING])]
  /\ \A v \in Views :
       \E i, j \in DOMAIN Lists[v] :
         /\ Lists[v][i].group = "always" /\ Lists[v][j].group = "always"
         /\ Lists[v][i].row # Lists[v][j].row
         /\ Lists[v][i].section # Lists[v][j].section
  /\ Shows \in SUBSET SUBSET STRING
  /\ MaxValue \in Nat
  /\ MaxQueue \in Nat

VARIABLES
  visible,      \* Window.visible
  win,          \* the GTK thread's own fields, below
  queue,        \* idle queue: gamepad actions that passed the emit gate
  customClick,  \* external: a GtkButton activation whose clicked is to come
  before,       \* history: the slider values when the current edit began
  others        \* history: sliders moved since by something else

vars == <<visible, win, queue, customClick, before, others>>

Window ==
  [view : Views,              \* viewStack.VisibleChildName
   list : Views,              \* focusItems: which view's list it is
   focusIdx : Nat,
   gamepadActive : BOOLEAN,
   focusEditing : BOOLEAN,
   editOriginalValue : Values,
   value : [Sliders -> Values],
   shown : Shows,             \* widget groups shown, beside the error bar
   error : BOOLEAN]           \* errBar is visible

TypeOK ==
  /\ visible \in BOOLEAN
  /\ win \in Window
  /\ win.focusIdx \in DOMAIN Lists[win.list]
  /\ queue \in Seq(Actions) /\ Len(queue) <= MaxQueue
  /\ customClick \in BOOLEAN
  /\ before \in [Sliders -> Values]
  /\ others \subseteq Sliders

Init ==
  /\ visible = FALSE
  /\ \E s \in Shows, val \in [Sliders -> {0}] :
       /\ win = [view |-> "main", list |-> "main", focusIdx |-> 1,
                 gamepadActive |-> FALSE, focusEditing |-> FALSE,
                 editOriginalValue |-> 0, value |-> val, shown |-> s,
                 error |-> FALSE]
       /\ before = val
  /\ queue = <<>>
  /\ customClick = FALSE
  /\ others = {}

-----------------------------------------------------------------------------
(* The methods of focus.go, each taking the window to the window after it.  *)

gridSnapshot(n) ==
  Snapshot(Lists[n.list], n.shown \cup {"always"} \cup {x \in {"error"} : n.error})

Focused(n) == Lists[n.list][n.focusIdx]
FocusedSlider(n) == <<n.list, n.focusIdx>>

focusFirstVisible(n) ==
  LET first == FirstVisible(gridSnapshot(n))
  IN IF first = 0 THEN n ELSE [n EXCEPT !.focusIdx = first]

(* Mutant: the value to restore is not captured.                            *)
BugEnterForgets(n) == [n EXCEPT !.focusEditing = TRUE]

enterEditMode(n) ==
  [n EXCEPT !.editOriginalValue = n.value[FocusedSlider(n)], !.focusEditing = TRUE]

exitEditMode(n, commit) ==
  IF ~n.focusEditing THEN n
  ELSE [n EXCEPT !.focusEditing = FALSE,
                 !.value = IF commit \/ FocusedSlider(n) \notin Sliders THEN @
                           ELSE [@ EXCEPT ![FocusedSlider(n)] = n.editOriginalValue]]

(* onLeft and onRight of scaleAdjust: one step, stopping at the ends.       *)
adjustFocus(n, dir) ==
  LET moved == n.value[FocusedSlider(n)] + dir
  IN IF FocusedSlider(n) \in Sliders /\ moved \in Values
       THEN [n EXCEPT !.value[FocusedSlider(n)] = moved]
       ELSE n

showGamepadFocus(n) ==
  IF n.gamepadActive THEN n
  ELSE focusFirstVisible([n EXCEPT !.gamepadActive = TRUE])

(* Mutant: the focus goes, the edit stays.                                  *)
BugHideKeepsEdit(n) == [n EXCEPT !.gamepadActive = FALSE]

hideGamepadFocus(n) ==
  IF ~n.gamepadActive THEN n
  ELSE [exitEditMode(n, TRUE) EXCEPT !.gamepadActive = FALSE]

(* Mutants: the edit outlives the list; the index does.                     *)
BugSwapKeepsEdit(n, v) ==
  LET m == [n EXCEPT !.list = v, !.focusIdx = 1]
  IN IF n.gamepadActive THEN focusFirstVisible(m) ELSE m
BugSwapKeepsIndex(n, v) ==
  LET m == [n EXCEPT !.focusEditing = FALSE, !.list = v]
  IN IF n.gamepadActive THEN focusFirstVisible(m) ELSE m

(* An edit under way is dropped where it stands: not restored.              *)
swapFocusList(n, v) ==
  LET m == [n EXCEPT !.focusEditing = FALSE, !.list = v, !.focusIdx = 1]
  IN IF n.gamepadActive THEN focusFirstVisible(m) ELSE m

(* The handler's D-pad and shoulder cases: outside the horizontal ones an   *)
(* edit is committed first.                                                 *)
Navigate(n, a) ==
  LET m == exitEditMode(n, TRUE)
      snap == gridSnapshot(n)
      To(idx) == [m EXCEPT !.focusIdx = idx]
  IN CASE a = "up"    -> To(MoveVertical(snap, n.focusIdx, -1))
       [] a = "down"  -> To(MoveVertical(snap, n.focusIdx, 1))
       [] a = "bumpL" -> To(JumpSection(snap, n.focusIdx, -1))
       [] a = "bumpR" -> To(JumpSection(snap, n.focusIdx, 1))
       [] a = "left"  -> IF n.focusEditing THEN adjustFocus(n, -1)
                         ELSE To(MoveHorizontal(snap, n.focusIdx, -1))
       [] a = "right" -> IF n.focusEditing THEN adjustFocus(n, 1)
                         ELSE To(MoveHorizontal(snap, n.focusIdx, 1))

-----------------------------------------------------------------------------
(* The view switches.                                                       *)
showView(n, v) == swapFocusList([n EXCEPT !.view = v], v)

showMainView(n) == showView(n, "main")

showThemeView(n) ==
  IF n.view = "theme" THEN showMainView(n) ELSE showView(n, "theme")

(* n's slider values, with those of val in their place.                     *)
Filled(n, val) == [s \in Sliders |-> IF s \in DOMAIN val THEN val[s] ELSE n.value[s]]

(* The picker's sliders take the colour being edited, whatever it is.       *)
showColorView(n) ==
  {showView([n EXCEPT !.value = Filled(n, val)], "color")
     : val \in [SlidersOf("color") -> Values]}

(* The values and the groups a synchronisation with the daemon can leave.   *)
(* It may force the advanced TDP controls on, never off.                    *)
Synced(n, views) ==
  LET sliders == UNION {SlidersOf(v) : v \in views}
      groups == {t \in Shows : "advanced" \in n.shown => "advanced" \in t}
  IN UNION {{[n EXCEPT !.value = Filled(n, val), !.shown = s]
               : val \in [sliders -> Values]} : s \in groups}

(* The groups of the main view do not change when only the custom one is    *)
(* synchronised.                                                            *)
CustomGroups == {"basic", "advanced", "undervolt"}

showCustomView(n) ==
  IF n.view = "custom" THEN {showMainView(n)}
  ELSE {showView(m, "custom") : m \in {x \in Synced(n, {"custom"}) :
          x.shown \ CustomGroups = n.shown \ CustomGroups}}

hide(n) ==
  showMainView([hideGamepadFocus(n) EXCEPT !.error = FALSE])

-----------------------------------------------------------------------------
(* What a slider is allowed to be moved by, for the history variables.      *)
Remember(foreign) ==
  LET same == win.focusEditing /\ win'.focusEditing
  IN /\ before' = IF same THEN before ELSE win'.value
     /\ others' = IF same THEN others \cup foreign ELSE {}

(* emit, on a reader goroutine: ignored while the drawer is hidden.         *)
Press(a) ==
  /\ visible
  /\ Len(queue) < MaxQueue
  /\ queue' = Append(queue, a)
  /\ UNCHANGED <<visible, win, customClick, before, others>>

(* What a control does when it is operated on window n: by the A button, or *)
(* by a click or a touch.                                                   *)
Operate(n, does) ==
  CASE does = "main" -> {showMainView(n)}
    [] does = "theme" -> {showThemeView(n)}
    [] does = "color" -> showColorView(n)
    [] does = "custom" -> showCustomView(n)
    [] does = "dismiss" -> {[n EXCEPT !.error = FALSE]}
    [] does = "advanced" ->
         {[n EXCEPT !.shown = s] : s \in {t \in Shows :
             ("advanced" \in t) = ("advanced" \notin n.shown)
             /\ t \ CustomGroups = n.shown \ CustomGroups}}
    [] does = "press" -> \* a mode button changes which lighting controls show
         {[n EXCEPT !.shown = s] : s \in {t \in Shows :
             t \cap CustomGroups = n.shown \cap CustomGroups}}
    [] OTHER -> {n}

(* handleGamepadAction, first of the idle queue.  It does not look at       *)
(* visible again.                                                           *)
Handle(a) ==
  /\ queue # <<>>
  /\ a = Head(queue)
  /\ queue' = Tail(queue)

HandleNavigate(a) ==
  /\ Handle(a)
  /\ a \notin {"accept", "back"}
  /\ win' = Navigate(showGamepadFocus(win), a)
  /\ Remember({})
  /\ UNCHANGED <<visible, customClick>>

(* A: commits an edit, starts one, or activates the control.  GTK emits     *)
(* clicked for an activated button only after its 250ms press animation.    *)
HandleAccept ==
  LET n == showGamepadFocus(win)
      does == Focused(n).does
  IN /\ Handle("accept")
     /\ \/ /\ n.focusEditing
           /\ win' = exitEditMode(n, TRUE)
           /\ UNCHANGED customClick
        \/ /\ ~n.focusEditing /\ does = "edit"
           /\ win' = enterEditMode(n)
           /\ UNCHANGED customClick
        \/ /\ ~n.focusEditing /\ does = "custom"
           /\ win' = n
           /\ customClick' = TRUE
        \/ /\ ~n.focusEditing /\ does \notin {"edit", "custom"}
           /\ win' \in Operate(n, does)
           /\ UNCHANGED customClick
     /\ Remember({})
     /\ UNCHANGED visible

(* Mutant: the view is left before the edit.                                *)
BugBackLeavesView ==
  LET n == showGamepadFocus(win)
  IN /\ Handle("back")
     /\ \/ n.view # "main" /\ win' = showMainView(n) /\ UNCHANGED visible
        \/ n.view = "main" /\ win' = hide(n) /\ visible' = FALSE
     /\ Remember({})
     /\ UNCHANGED customClick

(* B: cancels an edit, else leaves a sub-view, else closes the drawer.      *)
HandleBack ==
  LET n == showGamepadFocus(win)
  IN /\ Handle("back")
     /\ \/ /\ n.focusEditing
           /\ win' = exitEditMode(n, FALSE)
           /\ UNCHANGED visible
        \/ /\ ~n.focusEditing /\ n.view # "main"
           /\ win' = showMainView(n)
           /\ UNCHANGED visible
        \/ /\ ~n.focusEditing /\ n.view = "main"
           /\ win' = hide(n)
           /\ visible' = FALSE
     /\ Remember({})
     /\ UNCHANGED customClick

(* The clicked signal of the Custom profile button.                         *)
CustomClicked ==
  /\ customClick
  /\ customClick' = FALSE
  /\ win' \in Operate(win, "custom")
  /\ Remember({})
  /\ UNCHANGED <<visible, queue>>

-----------------------------------------------------------------------------
(* Everything else on the GTK thread.                                       *)
Show ==
  /\ ~visible
  /\ visible' = TRUE
  /\ UNCHANGED <<win, queue, customClick, before, others>>

(* Toggle, Escape, a lost focus.                                            *)
Hide ==
  /\ visible
  /\ visible' = FALSE
  /\ win' = hide(win)
  /\ Remember({})
  /\ UNCHANGED <<queue, customClick>>

Motion ==
  /\ visible
  /\ win.gamepadActive
  /\ win' = hideGamepadFocus(win)
  /\ Remember({})
  /\ UNCHANGED <<visible, queue, customClick>>

(* A click or a touch on a control of the view in front, or a drag of one   *)
(* of its sliders.  A touch moves no pointer, so the focus may be shown and *)
(* an edit under way.                                                       *)
Point ==
  /\ visible
  /\ \E i \in DOMAIN Lists[win.view] :
       /\ Snapshot(Lists[win.view], win.shown \cup {"always"}
                     \cup {x \in {"error"} : win.error})[i].visible
       /\ IF <<win.view, i>> \in Sliders
            THEN /\ win' \in {[win EXCEPT !.value[<<win.view, i>>] = v] : v \in Values}
                 /\ Remember({<<win.view, i>>})
            ELSE /\ win' \in Operate(win, Lists[win.view][i].does)
                 /\ Remember({})
  /\ UNCHANGED <<visible, queue, customClick>>

(* syncState with a new snapshot of the daemon's state.                     *)
Sync ==
  /\ win' \in Synced(win, {"main", "custom"})
  /\ Remember(SlidersOf("main") \cup SlidersOf("custom"))
  /\ UNCHANGED <<visible, queue, customClick>>

(* reportError's idle callback, suppressed when the drawer has closed, and  *)
(* clearErrorAsync's.                                                       *)
Report ==
  /\ win' = [win EXCEPT !.error = visible \/ @]
  /\ Remember({})
  /\ UNCHANGED <<visible, queue, customClick>>

ClearError ==
  /\ win' = [win EXCEPT !.error = FALSE]
  /\ Remember({})
  /\ UNCHANGED <<visible, queue, customClick>>

Next ==
  \/ \E a \in Actions : Press(a) \/ HandleNavigate(a)
  \/ HandleAccept \/ HandleBack \/ CustomClicked
  \/ Show \/ Hide \/ Motion \/ Point \/ Sync \/ Report \/ ClearError

Spec == Init /\ [][Next]_vars

-----------------------------------------------------------------------------
(* A gamepad action is being handled in this step.                          *)
Handles(as) == queue # <<>> /\ queue' = Tail(queue) /\ Head(queue) \in as

(* The focus list is that of the view in front, whatever switched views,    *)
(* and an edit belongs to a shown focus on a slider of that view.           *)
EditIsOfTheViewInFront ==
  /\ win.list = win.view
  /\ win.focusEditing => win.gamepadActive /\ FocusedSlider(win) \in Sliders

(* While one edit lasts, the slider being edited and the value to restore   *)
(* stay those it began with: no press, click, update or view switch slides  *)
(* another control under it.                                                *)
EditKeepsItsSlider ==
  [][win.focusEditing /\ win'.focusEditing =>
       /\ FocusedSlider(win') = FocusedSlider(win)
       /\ win'.editOriginalValue = win.editOriginalValue]_vars

(* B during an edit leaves every slider where it was when the edit began,   *)
(* but for those the daemon or a finger has moved since ("If commit is      *)
(* false, restores the original value before editing started", focus.go).   *)
CancelRestores ==
  [][win.focusEditing /\ Handles({"back"}) =>
       \A s \in Sliders \ others : win'.value[s] = before[s]]_vars

(* How many times B has to be pressed to leave.                             *)
Depth(v, n) == (IF v THEN 1 ELSE 0) + (IF n.view # "main" THEN 1 ELSE 0)
               + (IF n.focusEditing THEN 1 ELSE 0)

(* B always gets the user one level further out, and never back in.         *)
BackUnwinds ==
  [][Handles({"back"}) =>
       Depth(visible', win') = IF Depth(visible, win) = 0 THEN 0
                               ELSE Depth(visible, win) - 1]_vars
=============================================================================
