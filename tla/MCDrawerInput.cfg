SPECIFICATION FairSpec
CONSTANTS
  Paths = {p1, p2}
  Contested = {p2}
  MaxGen = 3
INVARIANTS
  TypeOK
  GrabMatchesFlag
  NewestIntent
  ClosedReleasesAll
  OpenHoldsControllers
  BlockHasOwner
PROPERTIES
  ClosedEventuallyReleases
  GrabsInOrder
