\* A re-open within the 200ms of the previous release.
SPECIFICATION Spec
CONSTANTS
  Paths = {p1}
  Contested = {}
  MaxGen = 3
INVARIANT OpenSuppressesSteam
