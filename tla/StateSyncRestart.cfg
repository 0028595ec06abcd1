\* A close and a re-open around a poll in flight, and a daemon that goes away
\* and comes back.
SPECIFICATION FairSpec
CONSTANTS
  MaxVersion = 1
  MaxGen = 3
  MaxSaves = 0
  MaxDowns = 1
INVARIANT
  BusyIsOwned
PROPERTIES
  PollGoesOn
  SubscriptionReturns
