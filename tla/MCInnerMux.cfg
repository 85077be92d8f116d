SPECIFICATION FairSpec
CONSTANTS
  Requests = {r1, r2, r3}
  None = None
INVARIANTS
  TypeOK
  LockDiscipline
  OneSessionUntilTrouble
PROPERTY LockHeldOnlyForPeers
