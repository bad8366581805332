SPECIFICATION MCSpec
CONSTANTS
  Parts = {"socket", "throttle", "poll"}
  MaxOps = 2
  MaxBacklog = 2
  Handlers = {TRUE, FALSE}
  G_USEC_PER_SEC = 1000000
  Bandwidths = {0, 2}
  Latencies = {0, 600000}
  Sizes = {1, 3}
  Steps = {400500, 999500}
  LastSecond = 3
  MaxBytes = 4
  Thread = {main, worker}
  Main = main
  Session = {s1}
  Cond = {in}
  Hup = hup
  Fd = {3, 4}
  StartMayFail = TRUE
  Poller = poller
  Nobody = nobody
  Home <- HomeDefault
INVARIANTS TypesOK OperationsKept LimitsKept
PROPERTIES NoResurrection OpsAnswered DeliveryEnds
CHECK_DEADLOCK FALSE
