\* Two changes among tab switches and snapshots, from settings full and partial.
SPECIFICATION Spec
CONSTANTS
  Effects = {"static", "cycle"}
  DefaultEffect = "static"
  Colors = {"red", "blue"}
  Initially <- MCInitially
  MaxLevel = 2
  MaxChanges = 2
INVARIANTS
  ChangesTakeEffect
  NoEcho
  UntouchedKeepsSetting
  DarkOnlyByChoice
