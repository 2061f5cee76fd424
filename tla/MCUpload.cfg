SPECIFICATION UploadSpec
CONSTANTS
  Proc = {p1}
  Kinds = {"daemon"}
  Obj = {o1}
  MaxStarts = 2
  Upload = {u1}
  MaxSize = 1
  ChannelCap = 2
INVARIANTS UploadBacked
PROPERTY UploadAnswered
CHECK_DEADLOCK FALSE
