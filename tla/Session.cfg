\* A closed overlay window rests until somebody opens it again.
SPECIFICATION FairSpec
CONSTANTS
  MaxGen = 3
  MaxTimers = 1
INVARIANTS
  RestsInPlace
  FreezeRecorded
  StoppedHasOwner
PROPERTIES
  FollowsWindow
  FocusLossDismisses
  SteamRunsAgain
CHECK_DEADLOCK FALSE
