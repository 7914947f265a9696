------------------------ MODULE StratumInStep_proofs ------------------------
(* What is proved of StratumClient when miner threads reconnect next to    *)
(* the network thread: what can bring the connection out of step with the  *)
(* active pool, what the list of pools keeps until then, and what the      *)
(* retries are spent on. No assumption is made on the pools, the number of *)
(* miners, or what is left in the buffer.                                  *)
EXTENDS StratumClient_proofs

-----------------------------------------------------------------------------
(* Where the network thread is when there is a connection.                 *)

LinkInv ==
  /\ connected => InLoop("post") \/ InLoop("read")
  /\ login # NoPool => InLoop("read")
  /\ dialled # NoPool => net = "connecting" /\ rc[Net] = "idle"
  /\ farmWork # NoPool => InLoop("read")

LEMMA LinkInit == Init => LinkInv
BY DEF Init, LinkInv

\* What a step of Reconnect does to the places of the threads.
LEMMA ReconnectMoves ==
  ASSUME TypeOK, NEW t \in Threads, Reconnect(t)
  PROVE  /\ t # Net => rc'[Net] = rc[Net] /\ net' = net
         /\ t = Net => \/ rc[Net] = "want" /\ ReconnectEnter(t)
                       \/ rc[Net] \in {"inside", "switch", "close"}
         /\ t = Net => (rc'[Net] \in {"inside", "switch", "close"} /\ net' = net)
                         \/ net' = "connect"
         /\ Running /\ dialled' = dialled
<1>1. rc \in [Threads -> {"idle", "want", "inside", "switch", "close"}] /\ Net \in Threads
  BY DEF TypeOK, ThreadTypes, Threads
<1>2. \E x \in {"inside", "switch", "close", "idle"} :
        rc' = [rc EXCEPT ![t] = x] /\ (x = "idle" /\ t = Net => net' = "connect")
  BY DEF Reconnect, ReconnectEnter, ReconnectDecide, ReconnectSwitch, ReconnectReturn
<1>3. Running /\ dialled' = dialled /\ (net' = net \/ (t = Net /\ net' = "connect"))
  BY DEF Reconnect, ReconnectEnter, ReconnectDecide, ReconnectSwitch, ReconnectReturn
<1>4. t = Net => \/ rc[Net] = "want" /\ ReconnectEnter(t)
                 \/ rc[Net] \in {"inside", "switch", "close"}
  BY DEF Reconnect, ReconnectEnter, ReconnectDecide, ReconnectSwitch, ReconnectReturn
<1>5. t # Net => rc'[Net] = rc[Net]
  BY <1>1, <1>2
<1>6. t = Net => rc'[Net] \in {"inside", "switch", "close"} \/ net' = "connect"
  BY <1>1, <1>2
<1> QED
  BY <1>3, <1>4, <1>5, <1>6

\* The client thread, the probe, the pools and the clock leave all this alone; a miner that
\* stalls only asks for a reconnect.
LEMMA Elsewhere ==
  ASSUME TypeOK,
         \/ ClientStep \/ ProbeAnswers \/ (\E m \in Miners : MinerStalls(m))
         \/ WriteFails \/ PoolDrops \/ TimePasses \/ Exited \/ UNCHANGED vars
  PROVE  /\ sock'.pool = sock.pool
         /\ rc'[Net] = rc[Net]
         /\ MinerInside' => MinerInside
         /\ UNCHANGED <<connected, net, dialled, activeIdx, login, exited, leftover, sessionPool,
                        refusedMask, refusers, farmWork, retries, fails, asked, reason>>
<1>1. CASE ClientStep
  <2>1. sock'.pool = sock.pool
    BY <1>1, SamePool
    DEF ClientStep, ClientShutdown, WorkTimeout, WorkTimeoutForce, FailbackTimer, FailbackCheck,
        FailbackFound, FailbackRequest, FailbackFlag, PortDecision, PortRequest, PortFlag, connVars
  <2>2. CASE ClientShutdown \/ WorkTimeout \/ WorkTimeoutForce
    BY <2>1, <2>2 DEF ClientShutdown, WorkTimeout, WorkTimeoutForce,
                connVars, threadVars, poolVars, historyVars, MinerInside
  <2>3. CASE FailbackTimer \/ FailbackCheck \/ FailbackFound \/ FailbackRequest \/ FailbackFlag
    BY <2>1, <2>3 DEF FailbackTimer, FailbackCheck, FailbackFound, FailbackRequest, FailbackFlag,
                connVars, threadVars, poolVars, historyVars, MinerInside
  <2>4. CASE PortDecision \/ PortRequest \/ PortFlag
    BY <2>1, <2>4 DEF PortDecision, PortRequest, PortFlag,
                connVars, threadVars, poolVars, historyVars, MinerInside
  <2> QED
    BY <1>1, <2>2, <2>3, <2>4 DEF ClientStep
<1>2. CASE ProbeAnswers \/ WriteFails \/ PoolDrops \/ TimePasses \/ Exited \/ UNCHANGED vars
  <2>1. sock'.pool = sock.pool
    BY <1>2, SamePool DEF ProbeAnswers, WriteFails, PoolDrops, TimePasses, Exited, vars, connVars
  <2> QED
    BY <1>2, <2>1 DEF ProbeAnswers, WriteFails, PoolDrops, TimePasses, Exited, vars,
                connVars, threadVars, poolVars, historyVars, MinerInside
<1>3. ASSUME NEW m \in Miners, MinerStalls(m)
      PROVE  /\ sock'.pool = sock.pool
             /\ rc'[Net] = rc[Net]
             /\ MinerInside' => MinerInside
             /\ UNCHANGED <<connected, net, dialled, activeIdx, login, exited, leftover,
                            sessionPool, refusedMask, refusers, farmWork, retries, fails, asked,
                            reason>>
  <2>1. rc' = [rc EXCEPT ![m] = "want"]
    BY <1>3 DEF MinerStalls
  <2>2. rc \in [Threads -> {"idle", "want", "inside", "switch", "close"}] /\ m # Net
    BY ConstantsAssumption DEF TypeOK, ThreadTypes
  <2>3. rc'[Net] = rc[Net] /\ (MinerInside' => MinerInside)
    BY <2>1, <2>2 DEF MinerInside, Threads
  <2> QED
    BY <1>3, <2>3 DEF MinerStalls, connVars, poolVars, historyVars
<1> QED
  BY <1>1, <1>2, <1>3

\* What a line that is read leaves alone.
LEMMA ReadMoves ==
  ASSUME TypeOK, NetRead \/ NetReadError
  PROVE  /\ net = "read" /\ rc[Net] = "idle" /\ Running
         /\ UNCHANGED <<net, dialled, activeIdx, login, retries, fails, asked, reason>>
         /\ rc'[Net] \in {"idle", "want"}
         /\ \A m \in Miners : rc'[m] = rc[m]
         /\ exited' \in {exited, "refused"}
         /\ sock'.pool = sock.pool
<1>1. net = "read" /\ rc[Net] = "idle" /\ Running
  BY DEF NetRead, NetReadError, ReadSession, ReadAccept, ReadRefuse, ReadWork, ReadOther,
         ReadGarbage, TakeLine, NetAt
<1>2. UNCHANGED <<net, dialled, activeIdx, login, retries, fails, asked, reason>>
  BY DEF NetRead, NetReadError, ReadSession, ReadAccept, ReadRefuse, ReadWork, ReadOther,
         ReadGarbage, threadVars, poolVars, historyVars
<1>3. rc' = rc \/ rc' = [rc EXCEPT ![Net] = "want"]
  BY DEF NetRead, NetReadError, ReadSession, ReadAccept, ReadRefuse, ReadWork, ReadOther,
         ReadGarbage, NetThrows, threadVars
<1>4. rc \in [Threads -> {"idle", "want", "inside", "switch", "close"}] /\ Net \notin Miners
  BY ConstantsAssumption DEF TypeOK, ThreadTypes
<1>5. rc'[Net] \in {"idle", "want"} /\ \A m \in Miners : rc'[m] = rc[m]
  BY <1>1, <1>3, <1>4 DEF Threads
<1>6. exited' \in {exited, "refused"}
  BY DEF NetRead, NetReadError, ReadSession, ReadAccept, ReadRefuse, ReadWork, ReadOther,
         ReadGarbage
<1>7. sock'.pool = sock.pool
  BY SamePool DEF NetRead, NetReadError, ReadSession, ReadAccept, ReadRefuse, ReadWork,
                  ReadOther, ReadGarbage
<1> QED
  BY <1>1, <1>2, <1>5, <1>6, <1>7

LEMMA LinkReconnect ==
  ASSUME TypeOK, LinkInv, NEW t \in Threads, Reconnect(t)
  PROVE  LinkInv'
<1> USE DEF LinkInv, InLoop
<1>1. CASE ReconnectEnter(t)
  <2>1. ~connected' /\ login' = NoPool /\ farmWork' = NoPool
    BY <1>1 DEF ReconnectEnter, PauseMiners
  <2>2. dialled' # NoPool => rc'[Net] = "idle" /\ net' = "connecting"
    <3>1. t = Net => dialled = NoPool
      BY <1>1 DEF ReconnectEnter
    <3> QED
      BY <3>1, ReconnectMoves
  <2> QED
    BY <2>1, <2>2
<1>2. CASE ReconnectDecide(t) \/ ReconnectSwitch(t) \/ ReconnectReturn(t)
  <2>1. UNCHANGED <<connected, login, farmWork>> /\ rc[t] \in {"inside", "switch", "close"}
    BY <1>2 DEF ReconnectDecide, ReconnectSwitch, ReconnectReturn, connVars, historyVars
  <2>2. CASE t = Net
    BY <2>1, <2>2, ReconnectMoves
  <2>3. CASE t # Net
    BY <2>1, <2>3, ReconnectMoves
  <2> QED
    BY <2>2, <2>3
<1> QED
  BY <1>1, <1>2 DEF Reconnect

LEMMA LinkNetConnect ==
  ASSUME TypeOK, LinkInv, NetConnect
  PROVE  LinkInv'
<1> USE DEF LinkInv, InLoop
<1>1. net # "read" /\ rc[Net] = "idle" /\ farmWork' = farmWork
  BY DEF NetConnect, NetApply, NetClear, NetDial, NetDialOk, NetDialFails, NetPost, NetAt
<1>2. CASE NetApply \/ NetClear
  <2>1. net \in {"connect", "clear"} /\ UNCHANGED <<connected, login, dialled, rc>>
    BY <1>2 DEF NetApply, NetClear, NetAt, connVars, historyVars
  <2> QED
    BY <1>1, <2>1
<1>3. CASE NetDial
  <2>1. net = "dial" /\ net' = "connecting" /\ UNCHANGED <<connected, login, rc>>
    BY <1>3 DEF NetDial, NetAt, connVars, historyVars
  <2> QED
    BY <1>1, <2>1
<1>4. CASE NetDialOk
  BY <1>1, <1>4 DEF NetDialOk
<1>5. CASE NetDialFails
  <2>1. net = "connecting" /\ dialled' = NoPool /\ UNCHANGED <<connected, login>>
    BY <1>5 DEF NetDialFails, NetAt
  <2> QED
    BY <1>1, <2>1
<1>6. CASE NetPost
  <2>1. net = "post" /\ UNCHANGED <<rc, dialled>>
    BY <1>6 DEF NetPost, NetAt
  <2>2. \/ net' = "read"
        \/ ~connected' /\ login' = login
    BY <1>6 DEF NetPost
  <2> QED
    BY <1>1, <2>1, <2>2
<1> QED
  BY <1>2, <1>3, <1>4, <1>5, <1>6 DEF NetConnect

LEMMA LinkNext == TypeOK /\ LinkInv /\ [Next]_vars => LinkInv'
<1> SUFFICES ASSUME TypeOK, LinkInv, [Next]_vars PROVE LinkInv'
  OBVIOUS
<1>1. CASE NetRead \/ NetReadError
  <2>1. InLoop("read")' /\ dialled' = NoPool
    BY <1>1, ReadMoves DEF LinkInv, InLoop
  <2> QED
    BY <2>1 DEF LinkInv
<1>2. CASE \/ ClientStep \/ ProbeAnswers \/ (\E m \in Miners : MinerStalls(m))
           \/ WriteFails \/ PoolDrops \/ TimePasses \/ Exited \/ UNCHANGED vars
  BY <1>2, Elsewhere DEF LinkInv, InLoop
<1> QED
  BY <1>1, <1>2, LinkReconnect, LinkNetConnect DEF Next

LEMMA LinkAlways == Spec => [](TypeOK /\ LinkInv)
BY LinkInit, LinkNext, TypeCorrect, PTL DEF Spec

-----------------------------------------------------------------------------
(* In step with the active pool.                                           *)

\* A miner that switches the pool is what the theorem excepts; every other step of Reconnect,
\* the network thread's switch among them, comes while there is no connection.
LEMMA StepReconnect ==
  ASSUME TypeOK, LinkInv, InStep, NEW t \in Threads, Reconnect(t),
         t = Net \/ ~ReconnectSwitch(t)
  PROVE  InStep'
<1>1. UNCHANGED <<refusedMask, refusers>>
  BY DEF Reconnect, ReconnectEnter, ReconnectDecide, ReconnectSwitch, ReconnectReturn, poolVars,
         historyVars
<1>2. CASE ReconnectEnter(t)
  <2>1. /\ login' = NoPool /\ farmWork' = NoPool
        /\ UNCHANGED <<activeIdx, sock, sessionPool, net, dialled>>
    BY <1>2 DEF ReconnectEnter, PauseMiners, poolVars
  <2>2. rc'[Net] \in {"idle", "want"} => rc[Net] \in {"idle", "want"}
    BY <2>1, ReconnectMoves, <1>2 DEF ReconnectEnter
  <2> QED
    BY <1>1, <2>1, <2>2 DEF InStep
<1>3. CASE ReconnectDecide(t) \/ ReconnectReturn(t)
  <2>1. /\ UNCHANGED <<activeIdx, sessionPool, login, farmWork, dialled>>
        /\ rc[t] \in {"inside", "switch", "close"}
    BY <1>3 DEF ReconnectDecide, ReconnectReturn, poolVars, historyVars
  <2>2. net' \in {"post", "read"} /\ rc'[Net] \in {"idle", "want"} => sock'.pool = activeIdx
    <3>1. CASE t = Net
      BY <3>1, ReconnectMoves
    <3>2. CASE t # Net
      <4>1. sock' = sock \/ sock' = [state |-> "closed", pool |-> sock.pool]
        BY <1>3, <3>2 DEF ReconnectDecide, ReconnectReturn, connVars
      <4>2. sock'.pool = sock.pool
        BY <4>1
      <4> QED
        BY <3>2, <4>2, ReconnectMoves DEF InStep
    <3> QED
      BY <3>1, <3>2
  <2>3. MinerInside' => MinerInside
    <3>1. \E x : rc' = [rc EXCEPT ![t] = x]
      BY <1>3 DEF ReconnectDecide, ReconnectReturn
    <3>2. ASSUME NEW m \in Miners, rc'[m] \in {"inside", "switch", "close"} PROVE MinerInside
      <4>1. m \in Threads /\ rc \in [Threads -> {"idle", "want", "inside", "switch", "close"}]
        BY DEF Threads, TypeOK, ThreadTypes
      <4>2. m # t => rc[m] = rc'[m]
        BY <3>1, <4>1
      <4> QED
        BY <2>1, <3>2, <4>2 DEF MinerInside
    <3> QED
      BY <3>2 DEF MinerInside
  <2> QED
    BY <1>1, <2>1, <2>2, <2>3 DEF InStep
<1>4. CASE t = Net /\ ReconnectSwitch(t)
  <2>1. rc[Net] = "switch" /\ rc' = [rc EXCEPT ![Net] = "close"]
    BY <1>4 DEF ReconnectSwitch
  <2>2. rc \in [Threads -> {"idle", "want", "inside", "switch", "close"}] /\ Net \notin Miners
    BY ConstantsAssumption DEF TypeOK, ThreadTypes
  <2>3. rc'[Net] = "close" /\ (MinerInside' => MinerInside)
    BY <2>1, <2>2 DEF MinerInside, Threads
  <2>4. /\ UNCHANGED <<login, farmWork, dialled>>
        /\ sessionPool' = IF activeIdx' # activeIdx THEN NoPool ELSE sessionPool
    BY <1>4 DEF ReconnectSwitch, SetActivePool
  <2>5. dialled = NoPool /\ login = NoPool
    BY <2>1 DEF LinkInv, InLoop
  <2> QED
    BY <1>1, <2>3, <2>4, <2>5 DEF InStep
<1> QED
  BY <1>2, <1>3, <1>4 DEF Reconnect

LEMMA StepNetConnect ==
  ASSUME TypeOK, LinkInv, InStep, NetConnect
  PROVE  InStep'
<1>1. UNCHANGED <<refusedMask, refusers, farmWork>>
  BY DEF NetConnect, NetApply, NetClear, NetDial, NetDialOk, NetDialFails, NetPost, poolVars,
         historyVars
<1>2. net \in {"connect", "clear", "dial", "connecting", "post"} /\ rc[Net] = "idle"
  BY DEF NetConnect, NetApply, NetClear, NetDial, NetDialOk, NetDialFails, NetPost, NetAt
<1>3. login = NoPool /\ farmWork = NoPool
  BY <1>2 DEF LinkInv, InLoop
<1>4. CASE NetApply
  <2>1. net = "connect" /\ net' = "clear" /\ UNCHANGED <<dialled, login>>
    BY <1>4 DEF NetApply, NetAt
  <2>2. \/ sessionPool' = sessionPool /\ activeIdx' = activeIdx
        \/ sessionPool' = IF activeIdx' # activeIdx THEN NoPool ELSE sessionPool
    BY <1>4 DEF NetApply, SetActivePool
  <2>3. dialled = NoPool
    BY <2>1 DEF LinkInv
  <2> QED
    BY <1>1, <1>3, <2>1, <2>2, <2>3 DEF InStep
<1>5. CASE NetClear \/ NetDial
  <2>1. /\ net' \in {"dial", "connecting"} /\ dialled' \in {dialled, activeIdx}
        /\ UNCHANGED <<activeIdx, sessionPool, login>>
    BY <1>5 DEF NetClear, NetDial, poolVars, historyVars
  <2> QED
    BY <1>1, <1>3, <2>1 DEF InStep
<1>6. CASE NetDialOk
  <2>1. dialled \in Pools
    BY <1>6 DEF NetDialOk, NetAt, TypeOK, ThreadTypes
  <2>2. dialled = activeIdx
    BY <2>1 DEF InStep, Pools, NoPool
  <2>3. /\ sock'.pool = dialled /\ dialled' = NoPool /\ login' = NoPool
        /\ UNCHANGED <<activeIdx, sessionPool>>
    BY <1>6 DEF NetDialOk, poolVars
  <2> QED
    BY <1>1, <1>3, <2>2, <2>3 DEF InStep
<1>7. CASE NetDialFails
  <2>1. /\ net = "connecting" /\ dialled' = NoPool
        /\ UNCHANGED <<net, activeIdx, sessionPool, login>>
    BY <1>7 DEF NetDialFails, NetAt, poolVars
  <2> QED
    BY <1>1, <1>3, <2>1 DEF InStep
<1>8. CASE NetPost
  <2>1. net = "post" /\ sock'.pool = sock.pool
    BY <1>8, SamePool DEF NetPost, NetAt
  <2>2. login' \in {login, activeIdx} /\ UNCHANGED <<activeIdx, sessionPool, dialled>>
    BY <1>8 DEF NetPost
  <2> QED
    BY <1>1, <1>2, <1>3, <2>1, <2>2 DEF InStep
<1> QED
  BY <1>4, <1>5, <1>6, <1>7, <1>8 DEF NetConnect

\* A line comes from the pool of the connection, unless another one was left in the buffer.
LEMMA LineOfActivePool ==
  ASSUME InStep, leftover = NoLine \/ leftover.pool = activeIdx, NEW l \in Line, TakeLine(l)
  PROVE  l.pool = activeIdx
<1>1. CASE leftover # NoLine
  BY <1>1 DEF TakeLine, NextLine
<1>2. CASE leftover = NoLine
  BY <1>2 DEF TakeLine, NextLine, MaySend, NetAt, InStep
<1> QED
  BY <1>1, <1>2

LEMMA StepRead ==
  ASSUME TypeOK, LinkInv, InStep, NetRead \/ NetReadError,
         ~(MinerInside /\ \E l \in Line : ReadWork(l)),
         leftover = NoLine \/ leftover.pool = activeIdx
  PROVE  InStep'
<1>1. sock'.pool = activeIdx /\ dialled = NoPool
  BY ReadMoves DEF InStep, LinkInv
<1>2. MinerInside' => MinerInside
  BY ReadMoves DEF MinerInside
<1>3. CASE NetReadError
  BY <1>1, <1>2, <1>3, ReadMoves DEF NetReadError, poolVars, historyVars, InStep
<1>4. ASSUME NEW l \in Line, ReadSession(l) PROVE InStep'
  <2>1. sessionPool' = activeIdx
    BY <1>4, LineOfActivePool DEF ReadSession
  <2> QED
    BY <1>1, <1>2, <1>4, <2>1, ReadMoves DEF ReadSession, historyVars, InStep
<1>5. ASSUME NEW l \in Line, ReadAccept(l) PROVE InStep'
  BY <1>1, <1>2, <1>5, ReadMoves DEF ReadAccept, InStep
<1>6. ASSUME NEW l \in Line, ReadRefuse(l) PROVE InStep'
  <2>1. refusers' = refusers \cup {activeIdx}
    BY <1>6, LineOfActivePool DEF ReadRefuse
  <2>2. refusedMask' = IF NPools > 1 THEN refusedMask \cup {activeIdx} ELSE refusedMask
    BY <1>6 DEF ReadRefuse
  <2>3. sessionPool' = sessionPool /\ farmWork' \in {farmWork, NoPool}
    BY <1>6 DEF ReadRefuse, PauseMiners
  <2>4. NPools > 1 => refusedMask' = refusers'
    BY <2>1, <2>2 DEF InStep
  <2> QED
    BY <1>1, <1>2, <2>3, <2>4, ReadMoves DEF InStep
<1>7. ASSUME NEW l \in Line, ReadWork(l) PROVE InStep'
  BY <1>1, <1>2, <1>7, ReadMoves DEF ReadWork, poolVars, InStep
<1>8. ASSUME NEW l \in Line, ReadOther(l) \/ ReadGarbage(l) PROVE InStep'
  BY <1>1, <1>2, <1>8, ReadMoves DEF ReadOther, ReadGarbage, poolVars, historyVars, InStep
<1> QED
  BY <1>3, <1>4, <1>5, <1>6, <1>7, <1>8 DEF NetRead

LEMMA StepNext ==
  TypeOK /\ LinkInv /\ [Next]_vars =>
    (InStep /\ ~InStep' =>
       \/ \E m \in Miners : ReconnectSwitch(m)
       \/ MinerInside /\ \E l \in Line : ReadWork(l)
       \/ leftover # NoLine /\ leftover.pool # activeIdx)
<1> SUFFICES ASSUME TypeOK, LinkInv, [Next]_vars, InStep,
                    ~\E m \in Miners : ReconnectSwitch(m),
                    ~(MinerInside /\ \E l \in Line : ReadWork(l)),
                    leftover = NoLine \/ leftover.pool = activeIdx
             PROVE  InStep'
  OBVIOUS
<1>1. CASE \E t \in Threads : Reconnect(t)
  BY <1>1, StepReconnect DEF Threads
<1>2. CASE NetConnect
  BY <1>2, StepNetConnect
<1>3. CASE NetRead \/ NetReadError
  BY <1>3, StepRead
<1>4. CASE \/ ClientStep \/ ProbeAnswers \/ (\E m \in Miners : MinerStalls(m))
           \/ WriteFails \/ PoolDrops \/ TimePasses \/ Exited \/ UNCHANGED vars
  BY <1>4, Elsewhere DEF InStep
<1> QED
  BY <1>1, <1>2, <1>3, <1>4 DEF Next

\* Whatever the client thread, the probe, the failback, the port selection, the drops and the
\* network thread's own reconnects do, and in whatever order, what is kept about a pool stays
\* about the active one. A miner thread that switches the pool (Reconnect from
\* GenericCLMiner.cpp:280) ends it, a job that arrives while it reconnects, and a line of
\* another pool left in m_responseBuffer; nothing else does.
THEOREM OnlyMinersCross == Spec => OnlyMinersCrossPools
BY LinkAlways, StepNext, PTL DEF Spec, OnlyMinersCrossPools

\* In step, a connection in use is the active pool's, with its account and its session.
LEMMA InStepIsEnough ==
  ASSUME LinkInv, InStep
  PROVE  ConnectionMatchesPool /\ SessionStaysWithItsPool
BY DEF LinkInv, InStep, InLoop, ConnectionMatchesPool, SessionStaysWithItsPool

-----------------------------------------------------------------------------
(* The list of pools: in step, each step of the connection manager is a    *)
(* step of Failover or changes nothing there, whoever reconnects.          *)

listVars == <<activeIdx, farmWork, refusers, MainAnswered, exited>>
ListStep == PoolList!Next \/ UNCHANGED listVars

LEMMA AnswerKept ==
  ASSUME UNCHANGED <<probe, client, pendingPool>>
  PROVE  MainAnswered' = MainAnswered
BY DEF MainAnswered

\* Whoever is in Reconnect, the miners are paused: by LinkInv if it is the network thread, and
\* in step also if it is a miner.
LEMMA PausedInside ==
  ASSUME LinkInv, InStep, NEW t \in Threads, rc[t] \in {"inside", "switch", "close"}
  PROVE  farmWork = PoolList!NoPool
BY DEF LinkInv, InLoop, InStep, MinerInside, Threads, NoPool, PoolList!NoPool

LEMMA ListReconnect ==
  ASSUME LinkInv, InStep, NEW t \in Threads, Reconnect(t)
  PROVE  ListStep
<1>1. Running /\ PoolList!Going
  BY DEF Reconnect, ReconnectEnter, ReconnectDecide, ReconnectSwitch, ReconnectReturn, Running,
         PoolList!Going
<1>2. refusers' = refusers
  BY DEF Reconnect, ReconnectEnter, ReconnectDecide, ReconnectSwitch, ReconnectReturn, historyVars
<1>3. CASE ReconnectEnter(t)
  <2>1. /\ farmWork' = PoolList!NoPool
        /\ UNCHANGED <<activeIdx, exited, probe, client, pendingPool>>
    BY <1>3 DEF ReconnectEnter, PauseMiners, NoPool, PoolList!NoPool, poolVars, clientVars,
                requestVars
  <2> QED
    BY <1>1, <1>2, <2>1, AnswerKept DEF ListStep, PoolList!Next, PoolList!Pause
<1>4. CASE ReconnectDecide(t)
  <2>1. farmWork = PoolList!NoPool
    BY <1>4, PausedInside DEF ReconnectDecide
  <2>2. UNCHANGED <<activeIdx, farmWork, probe, client, pendingPool>>
    BY <1>4 DEF ReconnectDecide, clientVars
  <2>3. MainAnswered' = MainAnswered
    BY <2>2, AnswerKept
  <2>4. CASE exited' = exited
    BY <1>2, <2>2, <2>3, <2>4 DEF ListStep, listVars
  <2>5. CASE exited' # exited
    <3>1. exited' = "retries" /\ ~(NPools > 1)
      BY <1>4, <2>5 DEF ReconnectDecide
    <3>2. NPools = 1
      BY <3>1, ConstantsAssumption
    <3> QED
      BY <1>1, <1>2, <2>1, <2>2, <2>3, <3>1, <3>2 DEF ListStep, PoolList!Next, PoolList!End
  <2> QED
    BY <2>4, <2>5
<1>5. CASE ReconnectSwitch(t)
  <2>1. farmWork = PoolList!NoPool
    BY <1>5, PausedInside DEF ReconnectSwitch
  <2>2. activeIdx' = (activeIdx + 1) % NPools /\ UNCHANGED <<farmWork, exited>>
    BY <1>5 DEF ReconnectSwitch, SetActivePool, NextPool
  <2>3. UNCHANGED <<probe, client>> /\ pendingPool' = NoPool
    BY <1>5 DEF ReconnectSwitch
  <2>4. MainAnswered' = MainAnswered \/ MainAnswered' = FALSE
    BY <2>3 DEF MainAnswered
  <2> QED
    BY <1>1, <1>2, <2>1, <2>2, <2>4 DEF ListStep, PoolList!Next, PoolList!GiveUp
<1>6. CASE ReconnectReturn(t)
  <2>1. farmWork = PoolList!NoPool
    BY <1>6, PausedInside DEF ReconnectReturn
  <2>2. UNCHANGED <<activeIdx, farmWork, probe, client, pendingPool>>
    BY <1>6 DEF ReconnectReturn, clientVars, requestVars, poolVars
  <2>3. MainAnswered' = MainAnswered
    BY <2>2, AnswerKept
  <2>4. exited' = exited \/ (DisableAutoReconnect /\ exited' = "dropped")
    BY <1>6 DEF ReconnectReturn
  <2> QED
    BY <1>1, <1>2, <2>1, <2>2, <2>3, <2>4 DEF ListStep, listVars, PoolList!Next, PoolList!End
<1> QED
  BY <1>3, <1>4, <1>5, <1>6 DEF Reconnect

\* Only Preconnect changes the pool here: it goes back to the main pool, which answered.
LEMMA ListNetConnect ==
  ASSUME TypeOK, LinkInv, NetConnect
  PROVE  ListStep
<1>1. CASE NetApply
  <2>1. PoolList!Going /\ farmWork = PoolList!NoPool
    BY <1>1 DEF NetApply, NetAt, LinkInv, InLoop, Running, NoPool, PoolList!NoPool, PoolList!Going
  <2>2. UNCHANGED <<farmWork, exited, refusers, probe, client>> /\ pendingPool' = NoPool
    BY <1>1 DEF NetApply
  <2>3. CASE pendingPool # NoPool
    <3>1. activeIdx' = 0
      BY <1>1, <2>3 DEF NetApply, SetActivePool, TypeOK, RequestTypes
    <3>2. MainAnswered
      BY <2>3 DEF MainAnswered
    <3>3. MainAnswered' \in BOOLEAN
      BY DEF MainAnswered
    <3> QED
      BY <2>1, <2>2, <3>1, <3>2, <3>3 DEF ListStep, PoolList!Next, PoolList!GoBack
  <2>4. CASE pendingPool = NoPool
    <3>1. activeIdx' = activeIdx
      BY <1>1, <2>4 DEF NetApply
    <3>2. MainAnswered' = MainAnswered
      BY <2>2, <2>4, AnswerKept
    <3> QED
      BY <2>2, <3>1, <3>2 DEF ListStep, listVars
  <2> QED
    BY <2>3, <2>4
<1>2. CASE NetClear \/ NetDial \/ NetDialOk \/ NetDialFails \/ NetPost
  <2>1. UNCHANGED <<activeIdx, farmWork, refusers, exited, probe, client, pendingPool>>
    BY <1>2 DEF NetClear, NetDial, NetDialOk, NetDialFails, NetPost, poolVars, requestVars,
                clientVars, historyVars
  <2> QED
    BY <2>1, AnswerKept DEF ListStep, listVars
<1> QED
  BY <1>1, <1>2 DEF NetConnect

\* A refusal ends the process exactly when it is the one of the last pool.
LEMMA ListRefuse ==
  ASSUME TypeOK, InStep, leftover = NoLine, NEW l \in Line, ReadRefuse(l)
  PROVE  PoolList!Next
<1>1. PoolList!Going /\ l.pool = activeIdx
  BY LineOfActivePool DEF ReadRefuse, TakeLine, NetAt, Running, PoolList!Going
<1>2. refusers' = refusers \cup {activeIdx} /\ UNCHANGED <<activeIdx, probe, client, pendingPool>>
  BY <1>1 DEF ReadRefuse, clientVars
<1>3. MainAnswered' = MainAnswered
  BY <1>2, AnswerKept
<1>4. activeIdx \in Pools /\ PoolList!Pools = Pools /\ NPools \in Nat \ {0}
  BY ConstantsAssumption DEF TypeOK, PoolTypes, Pools, PoolList!Pools
<1>5. (NPools < 2 \/ AllRefused(refusedMask')) <=> refusers' = PoolList!Pools
  <2>1. CASE NPools > 1
    <3>1. refusedMask' = refusers'
      BY <1>2, <2>1 DEF ReadRefuse, InStep
    <3> QED
      BY <1>4, <2>1, <3>1 DEF AllRefused
  <2>2. CASE ~(NPools > 1)
    <3>1. Pools = {0} /\ NPools < 2
      BY <1>4, <2>2 DEF Pools
    <3>2. refusers' = Pools
      BY <1>2, <1>4, <3>1 DEF TypeOK, HistoryTypes
    <3> QED
      BY <1>4, <3>1, <3>2
  <2> QED
    BY <2>1, <2>2
<1>6. IF refusers' = PoolList!Pools
      THEN farmWork' = PoolList!NoPool /\ exited' = "refused"
      ELSE UNCHANGED <<farmWork, exited>>
  BY <1>5 DEF ReadRefuse, PauseMiners, NoPool, PoolList!NoPool
<1> QED
  BY <1>1, <1>2, <1>3, <1>6 DEF PoolList!Next, PoolList!Refuse

LEMMA ListRead ==
  ASSUME TypeOK, InStep, leftover = NoLine, NetRead \/ NetReadError
  PROVE  ListStep
<1>1. PoolList!Going
  BY DEF NetRead, NetReadError, ReadSession, ReadAccept, ReadRefuse, ReadWork, ReadOther,
         ReadGarbage, TakeLine, NetAt, Running, PoolList!Going
<1>2. MainAnswered' = MainAnswered
  <2>1. UNCHANGED <<probe, client, pendingPool>>
    BY DEF NetRead, NetReadError, ReadSession, ReadAccept, ReadRefuse, ReadWork, ReadOther,
           ReadGarbage, clientVars, requestVars
  <2> QED
    BY <2>1, AnswerKept
<1>3. ASSUME NEW l \in Line, ReadAccept(l) PROVE ListStep
  BY <1>1, <1>2, <1>3 DEF ReadAccept, ListStep, PoolList!Next, PoolList!Accept
<1>4. ASSUME NEW l \in Line, ReadWork(l) PROVE ListStep
  <2>1. farmWork' = activeIdx /\ UNCHANGED <<activeIdx, refusers, exited>>
    BY <1>4, LineOfActivePool DEF ReadWork, poolVars
  <2> QED
    BY <1>1, <1>2, <2>1 DEF ListStep, PoolList!Next, PoolList!Work
<1>5. ASSUME NEW l \in Line, ReadSession(l) \/ ReadOther(l) \/ ReadGarbage(l) PROVE ListStep
  <2>1. UNCHANGED <<activeIdx, farmWork, refusers, exited>>
    BY <1>5 DEF ReadSession, ReadOther, ReadGarbage, poolVars, historyVars
  <2> QED
    BY <1>2, <2>1 DEF ListStep, listVars
<1>6. CASE NetReadError
  <2>1. UNCHANGED <<activeIdx, farmWork, refusers, exited>>
    BY <1>6 DEF NetReadError, poolVars, historyVars
  <2> QED
    BY <1>2, <2>1 DEF ListStep, listVars
<1> QED
  BY <1>3, <1>4, <1>5, <1>6, ListRefuse DEF NetRead, ListStep

\* The answer of the probe goes from the probe to the client thread and on to the request.
LEMMA ListElsewhere ==
  ASSUME TypeOK,
         \/ ClientStep \/ ProbeAnswers \/ (\E m \in Miners : MinerStalls(m))
         \/ WriteFails \/ PoolDrops \/ TimePasses \/ Exited \/ UNCHANGED vars
  PROVE  ListStep
<1>1. UNCHANGED <<activeIdx, refusers, exited, farmWork>>
  BY Elsewhere
<1>2. CASE ClientStep
  <2>1. MainAnswered' = MainAnswered
    <3>1. CASE FailbackFound \/ FailbackRequest
      <4>1. MainAnswered
        BY <3>1 DEF FailbackFound, FailbackRequest, ClientAt, MainAnswered
      <4>2. MainAnswered'
        BY <3>1 DEF FailbackFound, FailbackRequest, MainAnswered, NoPool
      <4> QED
        BY <4>1, <4>2 DEF MainAnswered
    <3>2. CASE FailbackCheck
      BY <3>2 DEF FailbackCheck, MainAnswered, requestVars
    <3>3. CASE ClientShutdown \/ WorkTimeout \/ WorkTimeoutForce \/ FailbackTimer \/ FailbackFlag
      BY <3>3 DEF ClientShutdown, WorkTimeout, WorkTimeoutForce, FailbackTimer, FailbackFlag,
                  ClientAt, MainAnswered, requestVars
    <3>4. CASE PortDecision \/ PortRequest \/ PortFlag
      BY <3>4 DEF PortDecision, PortRequest, PortFlag, ClientAt, MainAnswered, requestVars
    <3> QED
      BY <1>2, <3>1, <3>2, <3>3, <3>4 DEF ClientStep
  <2> QED
    BY <1>1, <2>1 DEF ListStep, listVars
<1>3. CASE ProbeAnswers
  <2>1. PoolList!Going
    BY <1>3 DEF ProbeAnswers, Running, PoolList!Going
  <2>2. MainAnswered' = TRUE \/ MainAnswered' = MainAnswered
    BY <1>3 DEF ProbeAnswers, MainAnswered, requestVars
  <2> QED
    BY <1>1, <2>1, <2>2 DEF ListStep, listVars, PoolList!Next, PoolList!MainAnswers
<1>4. CASE \/ \E m \in Miners : MinerStalls(m)
           \/ WriteFails \/ PoolDrops \/ TimePasses \/ Exited \/ UNCHANGED vars
  <2>1. UNCHANGED <<probe, client, pendingPool>>
    BY <1>4 DEF MinerStalls, WriteFails, PoolDrops, TimePasses, Exited, vars, clientVars,
                requestVars
  <2> QED
    BY <1>1, <2>1, AnswerKept DEF ListStep, listVars
<1> QED
  BY <1>2, <1>3, <1>4

LEMMA ListNext ==
  TypeOK /\ LinkInv /\ [Next]_vars => (InStep /\ leftover = NoLine => ListStep)
<1> SUFFICES ASSUME TypeOK, LinkInv, InStep, leftover = NoLine, [Next]_vars PROVE ListStep
  OBVIOUS
<1> QED
  BY ListReconnect, ListNetConnect, ListRead, ListElsewhere DEF Next

\* In step, and with nothing left in m_responseBuffer, the connection manager keeps what the
\* list of pools promises (README.md:88), also while miner threads reconnect: the miners stop
\* before another pool is taken, the next pool of the list is the one that is taken, the main
\* pool only after it answered, and the process ends for the documented reasons only.
THEOREM KeepsTheList == Spec => KeepsTheListInStep
<1>1. TypeOK /\ LinkInv /\ [Next]_vars
        => (InStep /\ leftover = NoLine
              => PoolList!Next \/ UNCHANGED <<activeIdx, farmWork, refusers, MainAnswered, exited>>)
  BY ListNext DEF ListStep, listVars
<1> QED
  BY <1>1, LinkAlways, PTL DEF Spec, KeepsTheListInStep

-----------------------------------------------------------------------------
(* The retries are spent on failed attempts and on the reconnects that     *)
(* miner threads asked for, never on anything else.                        *)

SpentInv ==
  /\ retries <= fails + asked + 1
  /\ rc[Net] \in {"want", "inside"} => retries <= fails + asked
  /\ net = "read" /\ rc[Net] = "idle" => retries <= fails + asked

LEMMA SpentInit == Init => SpentInv
BY DEF Init, SpentInv, Threads

LEMMA SpentReconnect ==
  ASSUME TypeOK, SpentInv, NEW t \in Threads, Reconnect(t)
  PROVE  SpentInv' /\ (NotReachable => fails' + asked' >= MaxRetries - 1)
<1>1. /\ retries \in Nat /\ fails \in Nat /\ asked \in Nat /\ MaxRetries \in Nat
      /\ rc \in [Threads -> {"idle", "want", "inside", "switch", "close"}]
      /\ Net \in Threads
  BY ConstantsAssumption DEF TypeOK, PoolTypes, HistoryTypes, ThreadTypes, Threads
<1>2. CASE ReconnectEnter(t)
  <2>1. rc'[Net] = (IF t = Net THEN "inside" ELSE rc[Net]) /\ (t = Net => rc[Net] = "want")
    BY <1>1, <1>2 DEF ReconnectEnter
  <2>2. UNCHANGED <<retries, fails, asked, net, reason, exited>>
    BY <1>2 DEF ReconnectEnter, poolVars
  <2> QED
    BY <2>1, <2>2 DEF SpentInv, NotReachable, Running
<1>3. CASE ReconnectDecide(t)
  <2>1. /\ rc[t] = "inside" /\ Running /\ UNCHANGED <<fails, net>>
        /\ retries' = IF VoluntarySwitch THEN retries ELSE retries + 1
        /\ asked' = IF VoluntarySwitch \/ t = Net THEN asked ELSE asked + 1
    BY <1>3 DEF ReconnectDecide
  <2>2. rc'[t] \in {"switch", "close"} /\ (t # Net => rc'[Net] = rc[Net])
    BY <1>1, <1>3 DEF ReconnectDecide
  <2>3. retries' <= fails' + asked' + 1
    BY <1>1, <2>1 DEF SpentInv
  <2>4. t # Net => SpentInv'
    BY <1>1, <2>1, <2>2, <2>3 DEF SpentInv
  <2>5. t = Net => SpentInv'
    BY <2>2, <2>3 DEF SpentInv
  <2>6. NotReachable => retries' >= MaxRetries
    BY <1>3 DEF ReconnectDecide, NotReachable, GiveUp, Running
  <2>7. retries' \in Nat /\ asked' \in Nat
    BY <1>1, <2>1
  <2> QED
    BY <1>1, <2>1, <2>3, <2>4, <2>5, <2>6, <2>7
<1>4. CASE ReconnectSwitch(t)
  <2>1. retries' = 0 /\ fails' = 0 /\ asked' = 0
    BY <1>4 DEF ReconnectSwitch, SetActivePool
  <2>2. reason' = "none" /\ exited' = exited
    BY <1>4 DEF ReconnectSwitch
  <2> QED
    BY <2>1, <2>2 DEF SpentInv, NotReachable, Running
<1>5. CASE ReconnectReturn(t)
  <2>1. UNCHANGED <<retries, fails, asked, reason>> /\ exited' \in {exited, "dropped"}
    BY <1>5 DEF ReconnectReturn, poolVars, historyVars
  <2>2. IF t = Net THEN rc'[Net] = "idle" /\ net' = "connect" ELSE rc'[Net] = rc[Net] /\ net' = net
    BY <1>1, <1>5 DEF ReconnectReturn
  <2> QED
    BY <2>1, <2>2 DEF SpentInv, NotReachable, Running
<1> QED
  BY <1>2, <1>3, <1>4, <1>5 DEF Reconnect

LEMMA SpentNetConnect ==
  ASSUME TypeOK, SpentInv, NetConnect
  PROVE  SpentInv' /\ ~NotReachable
<1>1. retries \in Nat /\ fails \in Nat /\ asked \in Nat /\ retries <= fails + asked + 1
  BY DEF TypeOK, PoolTypes, HistoryTypes, SpentInv
<1>2. rc[Net] = "idle" /\ UNCHANGED <<reason, exited>>
  BY DEF NetConnect, NetApply, NetClear, NetDial, NetDialOk, NetDialFails, NetPost, NetAt
<1>3. ~NotReachable
  BY <1>2 DEF NotReachable, Running
<1>4. CASE NetApply
  <2>1. net' = "clear" /\ rc' = rc
    BY <1>4 DEF NetApply
  <2>2. \/ retries' = 0 /\ fails' = 0 /\ asked' = 0
        \/ UNCHANGED <<retries, fails, asked>>
    BY <1>4 DEF NetApply, SetActivePool
  <2>3. retries' <= fails' + asked' + 1
    BY <1>1, <2>2
  <2> QED
    BY <1>2, <1>3, <2>1, <2>3 DEF SpentInv
<1>5. CASE NetClear \/ NetDial \/ NetDialOk
  <2>1. net' \in {"dial", "connecting", "post"} /\ UNCHANGED <<rc, retries, fails, asked>>
    BY <1>5 DEF NetClear, NetDial, NetDialOk, poolVars, historyVars
  <2> QED
    BY <1>2, <1>3, <2>1 DEF SpentInv
<1>6. CASE NetDialFails
  <2>1. fails' = fails + 1 /\ asked' = asked /\ retries' = retries
    BY <1>6 DEF NetDialFails, poolVars
  <2>2. retries' <= fails' + asked' + 1 /\ retries' <= fails' + asked'
    BY <1>1, <2>1
  <2> QED
    BY <1>3, <2>2 DEF SpentInv
<1>7. CASE NetPost
  <2>1. rc' = rc
    BY <1>7 DEF NetPost
  <2>2. CASE connected /\ sock.state # "closed"
    <3>1. retries' = 0 /\ fails' = 0 /\ asked' = 0
      BY <1>7, <2>2 DEF NetPost
    <3> QED
      BY <1>3, <3>1 DEF SpentInv
  <2>3. CASE ~(connected /\ sock.state # "closed")
    <3>1. (retries' = 0 \/ retries' = retries) /\ fails' = fails /\ asked' = asked
      BY <1>7, <2>3 DEF NetPost
    <3>2. net' = "connect"
      BY <1>7, <2>3 DEF NetPost
    <3>3. retries' <= fails' + asked' + 1
      BY <1>1, <3>1
    <3> QED
      BY <1>2, <1>3, <2>1, <3>2, <3>3 DEF SpentInv
  <2> QED
    BY <2>2, <2>3
<1> QED
  BY <1>4, <1>5, <1>6, <1>7 DEF NetConnect

LEMMA SpentNext ==
  TypeOK /\ SpentInv /\ [Next]_vars =>
    SpentInv' /\ (NotReachable => fails' + asked' >= MaxRetries - 1)
<1> SUFFICES ASSUME TypeOK, SpentInv, [Next]_vars
             PROVE  SpentInv' /\ (NotReachable => fails' + asked' >= MaxRetries - 1)
  OBVIOUS
<1>1. CASE \E t \in Threads : Reconnect(t)
  BY <1>1, SpentReconnect
<1>2. CASE NetConnect
  BY <1>2, SpentNetConnect
<1>3. CASE NetRead \/ NetReadError
  BY <1>3, ReadMoves DEF SpentInv, NotReachable, Running
<1>4. CASE \/ ClientStep \/ ProbeAnswers \/ (\E m \in Miners : MinerStalls(m))
           \/ WriteFails \/ PoolDrops \/ TimePasses \/ Exited \/ UNCHANGED vars
  BY <1>4, Elsewhere DEF SpentInv, NotReachable, Running
<1> QED
  BY <1>1, <1>2, <1>3, <1>4 DEF Next

\* A pool is called not reachable, and the process ends for it, only after the retries that the
\* option -r asks for were spent on attempts to connect that failed or on reconnects that miner
\* threads asked for: no drop, forced switch, failback or port switch uses one up (Reconnect
\* counts, OnPostConnect and SetActivePool reset).
THEOREM RetriesAreSpent == Spec => GivesUpAfterRetries
BY SpentInit, SpentNext, TypeCorrect, PTL DEF Spec, GivesUpAfterRetries

=============================================================================
