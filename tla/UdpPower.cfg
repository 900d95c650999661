SPECIFICATION FairSpec
CONSTANTS
  Byte = 4
  Prompt = TRUE
  Deviations = {}
INVARIANTS
  TypeOK
  SleepsOnlyInSuspend
  ClocksSound
PROPERTY PowerFollowsBus
