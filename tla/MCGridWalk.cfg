\* Every layout of three items, each shown or hidden on its own, and the
\* focus lists of the four views.
SPECIFICATION WalkSpec
CONSTANTS
  Accents <- TwoRowsThenNone
  Layouts <- AllLayouts
INVARIANTS
  HiddenFocusEscapes
  EveryItemReachable
  OppositeMovesUndo
PROPERTY
  MovesLandOnVisible
