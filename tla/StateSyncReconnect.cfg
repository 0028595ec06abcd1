\* The daemon restarts under an open drawer.
SPECIFICATION Spec
CONSTANTS
  MaxVersion = 2
  MaxGen = 1
  MaxSaves = 0
  MaxDowns = 1
INVARIANT ReconnectCatchesUp
