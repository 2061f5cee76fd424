SPECIFICATION ChatSpec
CONSTANTS
  Client = client
  Operator = operator
  Msg = {m1, m2}
  MaxCrashes = 1
SYMMETRY MsgSymmetry
INVARIANT AnswersMean
