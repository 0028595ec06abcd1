\* A controller that reports up and down on a hat, up and left also as keys.
SPECIFICATION FairSpec
CONSTANTS
  Buttons = {"up", "left"}
  Hats = {"vertical"}
  MaxGen = 4
INVARIANTS
  TypeOK
  RepeatIsHeld
  OnlyOwnerArmed
PROPERTY
  OwnerRepeatsForever
\* A controller may be unplugged for good.
CHECK_DEADLOCK FALSE
