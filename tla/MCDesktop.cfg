SPECIFICATION DesktopSpec
CONSTANTS
  Session = {s1, s2}
  Deaf = {s2}
  None = none
  CmdCap = 1
  TextCap = 1
  EventCap = 1
PROPERTIES ActorReturns SupersededStops EndReported
