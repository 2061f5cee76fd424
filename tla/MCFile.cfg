SPECIFICATION FileSpec
CONSTANTS
  Once = once
  Twice = twice
  File <- Files
  Size <- OneEach
  Tries <- TriesOf
  Deaf <- DeafFiles
  Slots = 2
  MaxFileSize = 1
  Quota = 1
  NextStates = {"CLOSED"}
  MaxCrashes = 1
INVARIANTS RecordBacked KeptUntilStored StorageBounded
PROPERTIES SlotsReturned
CHECK_DEADLOCK FALSE
