SPECIFICATION TermSpec
CONSTANTS
  Half = 8
  Char = {"x"}
  Width = {0, 1, 2}
  Height = {1, 2}
  Args = {0, 1, 2, 7, 8}
  MaxLines = 4
INVARIANTS ScreenShape ShowsOutput PanicOnlyWild
CHECK_DEADLOCK FALSE
