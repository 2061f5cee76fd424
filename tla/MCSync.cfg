SPECIFICATION SyncSpec
CONSTANTS
  Client = client
  Operator = operator
  StatusInput = {"IN_PROGRESS"}
  ReqId = {r1, r2}
  MaxCopies = 2
  MaxEntries = 2
  MaxCrashes = 1
INVARIANTS AppliedAtMostOnce KeptUntilHandled OperatorNeverAhead
PROPERTY OutboxDrains
