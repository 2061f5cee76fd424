SPECIFICATION EngineSpec
CONSTANTS
  Node = {n1, n2}
  Worker = {w1, w2}
  Id = {1, 2, 3}
  Ticket = {t1}
  Item = {i1}
  StatusInput = {"IN_PROGRESS", "CLOSED"}
  EntryInput = {"SHELL_STARTED"}
  MaxBatch = 1
  MaxCrashes = 1
SYMMETRY Names
INVARIANTS HeadsExact NeverRejected AppendIsLast StateIsReduction AckedSurvives
PROPERTY LifecycleRefined
CHECK_DEADLOCK FALSE
