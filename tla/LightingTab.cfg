\* A tab switch within 150ms of a slider's movement.
SPECIFICATION Spec
CONSTANTS
  Effects = {"static", "cycle"}
  DefaultEffect = "static"
  Colors = {"red", "blue"}
  Initially <- MCInitially
  MaxLevel = 2
  MaxChanges = 1
INVARIANT TabSwitchLosesNothing
