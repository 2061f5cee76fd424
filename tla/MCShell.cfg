CONSTANTS
  Session = {s1, s2}
  Ticket = {t1}
  NoTicketId = nt
  NoSession = ns
  QueueCap = 1
CHECK_DEADLOCK FALSE
SPECIFICATION ShellSpec
INVARIANT FlagExact
PROPERTIES ClosedEndsSession BrokenReleased LoopReturns
