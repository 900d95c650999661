SPECIFICATION Spec
CONSTANTS
  Banks = 2
  JobSize = 2
  Rewinds = TRUE
INVARIANTS
  TypeOK
  BankInSyncUntilReset
  IsrRunIsAnswered
  ArmedJobListens
