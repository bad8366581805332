SPECIFICATION Spec
CONSTANTS
  Thread = {main, worker}
  Main = main
  Session = {s1, s2}
  Cond = {in}
  Hup = hup
  Fd = {3, 4}
  StartMayFail = TRUE
  Poller = poller
  Nobody = nobody
  Home <- HomeDefault
INVARIANTS TypeOK NoFreedSessionUsed RefAccounting SessionNotTakenForPipe DelWakesPoller NoLostCondition
CHECK_DEADLOCK FALSE
SYMMETRY Sessions
CONSTRAINT OneAsks
