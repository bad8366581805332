SPECIFICATION Spec
CONSTANTS
  Thread = {main, worker}
  Main = main
  Session = {s1}
  Cond = {in}
  Hup = hup
  Fd = {3, 4}
  StartMayFail = FALSE
  Poller = poller
  Nobody = nobody
  Home <- HomeOwn
INVARIANT NoFreedSessionUsed
CHECK_DEADLOCK FALSE
