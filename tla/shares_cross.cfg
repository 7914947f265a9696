SPECIFICATION Spec
CONSTANTS
  Pools = {p1, p2}
  MainPool = p1
  Threads = {t1, t2}
  Nonces = {n1}
  Net = net
  Other = other
  Subscribe = subscribe
  Authorize = authorize
  Nobody = nobody
  MaxEpochs = 2
  MaxJobs = 1
INVARIANT SharesStayWithTheirPool
CHECK_DEADLOCK FALSE
