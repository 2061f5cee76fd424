SPECIFICATION OpSpec
CONSTANTS
  Session = {s1, s2}
  Terminal = {t1, t2}
  NoSession = none
INVARIANT SlotExact
PROPERTIES OnlyLapsedDropped TerminalsEnd SessionsExpire
