SPECIFICATION FairSpec
CONSTANTS
  Pools = {p1, p2}
  MainPool = p1
  Threads = {t1, t2}
  Nonces = {n1}
  Net = net
  Other = other
  Subscribe = subscribe
  Authorize = authorize
  Nobody = nobody
  MaxEpochs = 2
  MaxJobs = 1
INVARIANT TypeOK
INVARIANT AnswersMatchCalls
INVARIANT SharesSentOnce
INVARIANT NoncesSubmittedOnce
PROPERTY AnswersAreCounted
CHECK_DEADLOCK FALSE
