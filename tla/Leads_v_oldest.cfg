SPECIFICATION FairSpec
CONSTANTS
  Contact = {c1, c2}
  Time = {1, 3}
  Start = 2
  Limit = 1
  None = None
  MaxChanges = 3
PROPERTY VerdictsFollowEvidence
CHECK_DEADLOCK FALSE
