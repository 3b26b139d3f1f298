\* Three workers contend for four jobs: a worker can sleep, spin on qMutex and
\* work at the same time.  No symmetry: liveness is checked.
SPECIFICATION FairSpec
CONSTANTS
  Workers = {w1, w2, w3}
  Jobs = {j1, j2, j3, j4}
  Main = Main
  None = None
INVARIANTS
  TypeOK
  JobConservation
  FlagCoversQueue
  NoEarlyExit
  JoinMeansDone
PROPERTIES
  JoinReturns
  ImplementsJobPool
CHECK_DEADLOCK FALSE
