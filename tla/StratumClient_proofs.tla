------------------------ MODULE StratumClient_proofs ------------------------
(* What is proved of StratumClient for every number of pools and retries, *)
(* every set of pool behaviours and, where a theorem says no more, any    *)
(* number of miner threads.                                               *)
EXTENDS StratumClient, TLAPS

\* The next pool is a pool, whatever the length of the list.
LEMMA NextPoolIsPool ==
  ASSUME activeIdx \in Pools
  PROVE  NextPool \in Pools
BY ConstantsAssumption DEF Pools, NextPool

\* A pool sends lines.
LEMMA MaySendIsLine ==
  ASSUME NEW p \in Pools, NEW unanswered
  PROVE  MaySend(p, unanswered) \subseteq Line
BY DEF MaySend, Line, LineKinds

\* What is left behind a line is a line, or nothing.
LEMMA BehindIsLine ==
  ASSUME NEW l \in Line, NEW unanswered
  PROVE  Behind(l, unanswered) \subseteq Line \cup {NoLine}
<1>1. l.pool \in Pools
  BY DEF Line
<1>2. MaySend(l.pool, unanswered) \subseteq Line
  BY <1>1, MaySendIsLine
<1> QED
  BY <1>2 DEF Behind

-----------------------------------------------------------------------------
(* Type correctness, group by group of variables.                          *)

LEMMA InitType == Init => TypeOK
<1> SUFFICES ASSUME Init PROVE TypeOK
  OBVIOUS
<1> USE DEF Init
<1>1. 0 \in Pools
  BY ConstantsAssumption DEF Pools
<1>2. PoolTypes
  BY <1>1 DEF PoolTypes
<1>3. RequestTypes
  BY DEF RequestTypes
<1>4. ConnTypes
  BY DEF ConnTypes
<1>5. ThreadTypes
  BY DEF ThreadTypes
<1>6. ClientTypes /\ FarmTypes /\ HistoryTypes
  BY DEF ClientTypes, FarmTypes, HistoryTypes
<1> QED
  BY <1>2, <1>3, <1>4, <1>5, <1>6 DEF TypeOK

\* A group of variables that does not change keeps its types.
LEMMA UnchangedTypes ==
  /\ PoolTypes /\ UNCHANGED poolVars => PoolTypes'
  /\ RequestTypes /\ UNCHANGED requestVars => RequestTypes'
  /\ ConnTypes /\ UNCHANGED connVars => ConnTypes'
  /\ ThreadTypes /\ UNCHANGED threadVars => ThreadTypes'
  /\ ClientTypes /\ UNCHANGED clientVars => ClientTypes'
  /\ FarmTypes /\ UNCHANGED <<farmWork, exited>> => FarmTypes'
  /\ HistoryTypes /\ UNCHANGED historyVars => HistoryTypes'
<1>1. PoolTypes /\ UNCHANGED poolVars => PoolTypes'
  BY DEF PoolTypes, poolVars
<1>2. RequestTypes /\ UNCHANGED requestVars => RequestTypes'
  BY DEF RequestTypes, requestVars
<1>3. ConnTypes /\ UNCHANGED connVars => ConnTypes'
  BY DEF ConnTypes, connVars
<1>4. ThreadTypes /\ UNCHANGED threadVars => ThreadTypes'
  BY DEF ThreadTypes, threadVars
<1>5. ClientTypes /\ UNCHANGED clientVars => ClientTypes'
  BY DEF ClientTypes, clientVars
<1>6. FarmTypes /\ UNCHANGED <<farmWork, exited>> => FarmTypes'
  BY DEF FarmTypes
<1>7. HistoryTypes /\ UNCHANGED historyVars => HistoryTypes'
  BY DEF HistoryTypes, historyVars
<1> QED
  BY <1>1, <1>2, <1>3, <1>4, <1>5, <1>6, <1>7

\* A thread that is moved in Reconnect leaves the dial as it is, unless it is the network thread
\* on its way back to Connect.
LEMMA MoveThread ==
  ASSUME ThreadTypes, NEW t \in Threads, NEW x \in {"idle", "want", "inside", "switch", "close"},
         rc' = [rc EXCEPT ![t] = x], UNCHANGED dialled,
         net' = net \/ net' = "connect", x = "idle" /\ t = Net => net' = "connect",
         wasConnected' \in [Threads -> BOOLEAN], reason' \in {"none", "not usable", "not reachable"}
  PROVE  ThreadTypes'
<1>1. Net \in Threads /\ rc \in [Threads -> {"idle", "want", "inside", "switch", "close"}]
  BY DEF ThreadTypes, Threads
<1>2. rc' \in [Threads -> {"idle", "want", "inside", "switch", "close"}]
  BY <1>1
<1>3. rc'[Net] = "idle" => rc[Net] = "idle" \/ net' = "connect"
  BY <1>1
<1>4. net' = "connecting" /\ rc'[Net] = "idle" => dialled' \in Pools
  BY <1>3 DEF ThreadTypes
<1> QED
  BY <1>2, <1>4 DEF ThreadTypes

\* Reconnect, by any thread.
LEMMA ReconnectType ==
  ASSUME TypeOK, NEW t \in Threads, Reconnect(t)
  PROVE  TypeOK'
<1> USE DEF TypeOK
<1>1. CASE ReconnectEnter(t)
  <2>1. ConnTypes'
    BY <1>1 DEF ReconnectEnter, ConnTypes
  <2>2. ThreadTypes'
    <3>1. rc' = [rc EXCEPT ![t] = "inside"]
      BY <1>1 DEF ReconnectEnter
    <3> QED
      BY <1>1, <3>1, MoveThread DEF ReconnectEnter, ThreadTypes, ConnTypes
  <2>3. FarmTypes'
    BY <1>1 DEF ReconnectEnter, FarmTypes, PauseMiners
  <2>4. HistoryTypes'
    BY <1>1 DEF ReconnectEnter, HistoryTypes
  <2>5. UNCHANGED <<poolVars, requestVars, clientVars>>
    BY <1>1 DEF ReconnectEnter
  <2> QED
    BY <2>1, <2>2, <2>3, <2>4, <2>5, UnchangedTypes
<1>2. CASE ReconnectDecide(t)
  <2>1. PoolTypes'
    <3>1. UNCHANGED <<activeIdx, portOf, sessionPool, poolsFailedInRow, refusedMask>>
      BY <1>2 DEF ReconnectDecide
    <3>2. retries' = IF VoluntarySwitch THEN retries ELSE retries + 1
      BY <1>2 DEF ReconnectDecide
    <3> QED
      BY <3>1, <3>2 DEF PoolTypes
  <2>2. RequestTypes'
    BY <1>2 DEF ReconnectDecide, RequestTypes
  <2>3. ThreadTypes'
    <3>1. \E x \in {"switch", "close"} : rc' = [rc EXCEPT ![t] = x]
      BY <1>2 DEF ReconnectDecide
    <3> QED
      BY <1>2, <3>1, MoveThread DEF ReconnectDecide, ThreadTypes
  <2>4. FarmTypes'
    BY <1>2 DEF ReconnectDecide, FarmTypes
  <2>5. HistoryTypes'
    <3>1. UNCHANGED <<login, fails, refusers, probeFresh>>
      BY <1>2 DEF ReconnectDecide
    <3>2. asked' = IF VoluntarySwitch \/ t = Net THEN asked ELSE asked + 1
      BY <1>2 DEF ReconnectDecide
    <3> QED
      BY <3>1, <3>2 DEF HistoryTypes
  <2>6. UNCHANGED <<connVars, clientVars>>
    BY <1>2 DEF ReconnectDecide
  <2> QED
    BY <2>1, <2>2, <2>3, <2>4, <2>5, <2>6, UnchangedTypes
<1>3. CASE ReconnectSwitch(t)
  <2>1. PoolTypes'
    BY <1>3, NextPoolIsPool DEF ReconnectSwitch, PoolTypes, SetActivePool
  <2>2. RequestTypes'
    BY <1>3 DEF ReconnectSwitch, RequestTypes
  <2>3. ThreadTypes'
    <3>1. rc' = [rc EXCEPT ![t] = "close"]
      BY <1>3 DEF ReconnectSwitch
    <3> QED
      BY <1>3, <3>1, MoveThread DEF ReconnectSwitch, ThreadTypes, ConnTypes
  <2>4. ClientTypes'
    BY <1>3 DEF ReconnectSwitch, ClientTypes, SetActivePool
  <2>5. HistoryTypes'
    BY <1>3 DEF ReconnectSwitch, HistoryTypes, SetActivePool
  <2>6. UNCHANGED <<connVars, farmWork, exited>>
    BY <1>3 DEF ReconnectSwitch
  <2> QED
    BY <2>1, <2>2, <2>3, <2>4, <2>5, <2>6, UnchangedTypes
<1>4. CASE ReconnectReturn(t)
  <2>1. ConnTypes'
    BY <1>4 DEF ReconnectReturn, ConnTypes
  <2>2. ThreadTypes'
    <3>1. rc' = [rc EXCEPT ![t] = "idle"]
      BY <1>4 DEF ReconnectReturn
    <3> QED
      BY <1>4, <3>1, MoveThread DEF ReconnectReturn, ThreadTypes, ConnTypes
  <2>3. FarmTypes'
    BY <1>4 DEF ReconnectReturn, FarmTypes
  <2>4. UNCHANGED <<poolVars, requestVars, clientVars, historyVars>>
    BY <1>4 DEF ReconnectReturn
  <2> QED
    BY <2>1, <2>2, <2>3, <2>4, UnchangedTypes
<1> QED
  BY <1>1, <1>2, <1>3, <1>4 DEF Reconnect

\* Connect, by the network thread.
LEMMA NetConnectType ==
  ASSUME TypeOK, NetConnect
  PROVE  TypeOK'
<1> USE DEF TypeOK
<1>1. CASE NetApply
  <2>1. PoolTypes'
    <3>1. 0 \in Pools
      BY ConstantsAssumption DEF Pools
    <3>2. UNCHANGED <<poolsFailedInRow, refusedMask>>
      BY <1>1 DEF NetApply
    <3>3. activeIdx' \in Pools /\ sessionPool' \in Pools \cup {NoPool} /\ retries' \in Nat
      BY <1>1, <3>1 DEF NetApply, SetActivePool, PoolTypes, RequestTypes
    <3>4. portOf' \in [Pools -> Pools \cup {NoPool}]
      <4>1. CASE PortIsFor(activeIdx')
        <5>1. portOf' = [portOf EXCEPT ![activeIdx'] = pendingPort]
          BY <1>1, <4>1 DEF NetApply
        <5> QED
          BY <5>1 DEF PoolTypes, RequestTypes
      <4>2. CASE ~PortIsFor(activeIdx')
        <5>1. portOf' = portOf
          BY <1>1, <4>2 DEF NetApply
        <5> QED
          BY <5>1 DEF PoolTypes
      <4> QED
        BY <4>1, <4>2
    <3> QED
      BY <3>2, <3>3, <3>4 DEF PoolTypes
  <2>2. RequestTypes'
    BY <1>1 DEF NetApply, RequestTypes
  <2>3. ThreadTypes'
    BY <1>1 DEF NetApply, ThreadTypes
  <2>4. ClientTypes'
    BY <1>1 DEF NetApply, ClientTypes, SetActivePool
  <2>5. HistoryTypes'
    <3>1. UNCHANGED <<login, refusers>>
      BY <1>1 DEF NetApply
    <3>2. /\ fails' = 0 \/ fails' = fails
          /\ asked' = 0 \/ asked' = asked
          /\ probeFresh' = (probeFresh /\ pendingPool # 0) \/ probeFresh' = probeFresh
      BY <1>1 DEF NetApply, SetActivePool
    <3>3. probeFresh' \in BOOLEAN
      BY <3>2 DEF HistoryTypes
    <3> QED
      BY <3>1, <3>2, <3>3 DEF HistoryTypes
  <2>6. UNCHANGED <<connVars, farmWork, exited>>
    BY <1>1 DEF NetApply
  <2> QED
    BY <2>1, <2>2, <2>3, <2>4, <2>5, <2>6, UnchangedTypes
<1>2. CASE NetClear
  <2>1. RequestTypes'
    BY <1>2 DEF NetClear, RequestTypes
  <2>2. ThreadTypes'
    BY <1>2 DEF NetClear, ThreadTypes
  <2>3. UNCHANGED <<poolVars, connVars, clientVars, farmWork, exited, historyVars>>
    BY <1>2 DEF NetClear
  <2> QED
    BY <2>1, <2>2, <2>3, UnchangedTypes
<1>3. CASE NetDial
  <2>1. ThreadTypes'
    BY <1>3 DEF NetDial, ThreadTypes, PoolTypes
  <2>2. UNCHANGED <<poolVars, requestVars, connVars, clientVars, farmWork, exited, historyVars>>
    BY <1>3 DEF NetDial
  <2> QED
    BY <2>1, <2>2, UnchangedTypes
<1>4. CASE NetDialOk
  <2>1. dialled \in Pools
    BY <1>4 DEF NetDialOk, NetAt, ThreadTypes
  <2>2. ConnTypes'
    BY <1>4, <2>1 DEF NetDialOk, ConnTypes
  <2>3. ThreadTypes'
    BY <1>4 DEF NetDialOk, ThreadTypes
  <2>4. HistoryTypes'
    BY <1>4 DEF NetDialOk, HistoryTypes
  <2>5. UNCHANGED <<poolVars, requestVars, clientVars, farmWork, exited>>
    BY <1>4 DEF NetDialOk
  <2> QED
    BY <2>2, <2>3, <2>4, <2>5, UnchangedTypes
<1>5. CASE NetDialFails
  <2>1. ConnTypes'
    BY <1>5 DEF NetDialFails, ConnTypes, Closed
  <2>2. ThreadTypes'
    <3>1. rc' = [rc EXCEPT ![Net] = "want"] /\ dialled' = NoPool
          /\ UNCHANGED <<net, wasConnected, reason>>
      BY <1>5 DEF NetDialFails, NetThrows
    <3>2. rc'[Net] = "want"
      BY <3>1 DEF ThreadTypes, Threads
    <3> QED
      BY <3>1, <3>2 DEF ThreadTypes
  <2>3. HistoryTypes'
    BY <1>5 DEF NetDialFails, HistoryTypes
  <2>4. UNCHANGED <<poolVars, requestVars, clientVars, farmWork, exited>>
    BY <1>5 DEF NetDialFails
  <2> QED
    BY <2>1, <2>2, <2>3, <2>4, UnchangedTypes
<1>6. CASE NetPost
  <2>1. PoolTypes'
    BY <1>6 DEF NetPost, PoolTypes
  <2>2. ConnTypes'
    BY <1>6 DEF NetPost, ConnTypes, Closed, PoolTypes
  <2>3. ThreadTypes'
    BY <1>6 DEF NetPost, ThreadTypes
  <2>4. HistoryTypes'
    BY <1>6 DEF NetPost, HistoryTypes, PoolTypes
  <2>5. UNCHANGED <<requestVars, clientVars, farmWork, exited>>
    BY <1>6 DEF NetPost
  <2> QED
    BY <2>1, <2>2, <2>3, <2>4, <2>5, UnchangedTypes
<1> QED
  BY <1>1, <1>2, <1>3, <1>4, <1>5, <1>6 DEF NetConnect

\* A line the network thread reads.
LEMMA NetReadType ==
  ASSUME TypeOK, NEW l \in Line,
         \/ ReadSession(l) \/ ReadAccept(l) \/ ReadRefuse(l)
         \/ ReadWork(l) \/ ReadOther(l) \/ ReadGarbage(l)
  PROVE  TypeOK'
<1> USE DEF TypeOK
<1>1. CASE ReadSession(l)
  <2>1. PoolTypes'
    BY <1>1 DEF ReadSession, PoolTypes, Line
  <2>2. ConnTypes'
    BY <1>1 DEF ReadSession, ConnTypes, TakeLine
  <2>3. UNCHANGED <<requestVars, threadVars, clientVars, farmWork, exited, historyVars>>
    BY <1>1 DEF ReadSession
  <2> QED
    BY <2>1, <2>2, <2>3, UnchangedTypes
<1>2. CASE ReadAccept(l)
  <2>1. PoolTypes'
    BY <1>2 DEF ReadAccept, PoolTypes
  <2>2. ConnTypes'
    BY <1>2 DEF ReadAccept, ConnTypes, TakeLine
  <2>3. HistoryTypes'
    BY <1>2 DEF ReadAccept, HistoryTypes, Line
  <2>4. UNCHANGED <<requestVars, threadVars, clientVars, farmWork, exited>>
    BY <1>2 DEF ReadAccept
  <2> QED
    BY <2>1, <2>2, <2>3, <2>4, UnchangedTypes
<1>3. CASE ReadRefuse(l)
  <2>1. PoolTypes'
    BY <1>3 DEF ReadRefuse, PoolTypes
  <2>2. RequestTypes'
    BY <1>3 DEF ReadRefuse, RequestTypes
  <2>3. ConnTypes'
    BY <1>3, BehindIsLine DEF ReadRefuse, ConnTypes, TakeLine, Closed
  <2>4. ThreadTypes'
    BY <1>3 DEF ReadRefuse, ThreadTypes, NetThrows
  <2>5. FarmTypes'
    BY <1>3 DEF ReadRefuse, FarmTypes, PauseMiners
  <2>6. HistoryTypes'
    BY <1>3 DEF ReadRefuse, HistoryTypes, Line
  <2>7. UNCHANGED <<clientVars>>
    BY <1>3 DEF ReadRefuse
  <2> QED
    BY <2>1, <2>2, <2>3, <2>4, <2>5, <2>6, <2>7, UnchangedTypes
<1>4. CASE ReadWork(l)
  <2>1. ConnTypes'
    BY <1>4 DEF ReadWork, ConnTypes, TakeLine
  <2>2. FarmTypes'
    BY <1>4 DEF ReadWork, FarmTypes, Line
  <2>3. HistoryTypes'
    BY <1>4 DEF ReadWork, HistoryTypes
  <2>4. UNCHANGED <<poolVars, requestVars, threadVars, clientVars>>
    BY <1>4 DEF ReadWork
  <2> QED
    BY <2>1, <2>2, <2>3, <2>4, UnchangedTypes
<1>5. CASE ReadOther(l)
  <2>1. ConnTypes'
    BY <1>5 DEF ReadOther, ConnTypes, TakeLine
  <2>2. UNCHANGED <<poolVars, requestVars, threadVars, clientVars, farmWork, exited, historyVars>>
    BY <1>5 DEF ReadOther
  <2> QED
    BY <2>1, <2>2, UnchangedTypes
<1>6. CASE ReadGarbage(l)
  <2>1. ConnTypes'
    BY <1>6, BehindIsLine DEF ReadGarbage, ConnTypes, TakeLine
  <2>2. ThreadTypes'
    BY <1>6 DEF ReadGarbage, ThreadTypes, NetThrows
  <2>3. UNCHANGED <<poolVars, requestVars, clientVars, farmWork, exited, historyVars>>
    BY <1>6 DEF ReadGarbage
  <2> QED
    BY <2>1, <2>2, <2>3, UnchangedTypes
<1> QED
  BY <1>1, <1>2, <1>3, <1>4, <1>5, <1>6 DEF TypeOK

\* A step of the miner client thread.
LEMMA ClientType ==
  ASSUME TypeOK, ClientStep
  PROVE  TypeOK'
<1> USE DEF TypeOK
<1>1. CASE ClientShutdown
  <2>1. ConnTypes'
    BY <1>1 DEF ClientShutdown, ConnTypes
  <2>2. ClientTypes'
    BY <1>1 DEF ClientShutdown, ClientTypes
  <2>3. UNCHANGED <<poolVars, requestVars, threadVars, farmWork, exited, historyVars>>
    BY <1>1 DEF ClientShutdown
  <2> QED
    BY <2>1, <2>2, <2>3, UnchangedTypes
<1>2. CASE WorkTimeout
  <2>1. ClientTypes'
    BY <1>2 DEF WorkTimeout, ClientTypes
  <2>2. HistoryTypes'
    BY <1>2 DEF WorkTimeout, HistoryTypes, ConnTypes
  <2>3. UNCHANGED <<poolVars, requestVars, connVars, threadVars, farmWork, exited>>
    BY <1>2 DEF WorkTimeout
  <2> QED
    BY <2>1, <2>2, <2>3, UnchangedTypes
<1>3. CASE WorkTimeoutForce
  <2>1. RequestTypes'
    BY <1>3 DEF WorkTimeoutForce, RequestTypes
  <2>2. ClientTypes'
    BY <1>3 DEF WorkTimeoutForce, ClientTypes
  <2>3. UNCHANGED <<poolVars, connVars, threadVars, farmWork, exited, historyVars>>
    BY <1>3 DEF WorkTimeoutForce
  <2> QED
    BY <2>1, <2>2, <2>3, UnchangedTypes
<1>4. CASE FailbackTimer
  <2>1. ClientTypes'
    BY <1>4 DEF FailbackTimer, ClientTypes, OnBackup
  <2>2. UNCHANGED <<poolVars, requestVars, connVars, threadVars, farmWork, exited, historyVars>>
    BY <1>4 DEF FailbackTimer
  <2> QED
    BY <2>1, <2>2, UnchangedTypes
<1>5. CASE FailbackCheck
  <2>1. ClientTypes'
    BY <1>5 DEF FailbackCheck, ClientTypes
  <2>2. HistoryTypes'
    BY <1>5 DEF FailbackCheck, HistoryTypes
  <2>3. UNCHANGED <<poolVars, requestVars, connVars, threadVars, farmWork, exited>>
    BY <1>5 DEF FailbackCheck
  <2> QED
    BY <2>1, <2>2, <2>3, UnchangedTypes
<1>6. CASE FailbackFound
  <2>1. ClientTypes'
    BY <1>6 DEF FailbackFound, ClientTypes
  <2>2. UNCHANGED <<poolVars, requestVars, connVars, threadVars, farmWork, exited, historyVars>>
    BY <1>6 DEF FailbackFound
  <2> QED
    BY <2>1, <2>2, UnchangedTypes
<1>7. CASE FailbackRequest
  <2>1. RequestTypes'
    BY <1>7 DEF FailbackRequest, RequestTypes
  <2>2. ClientTypes'
    BY <1>7 DEF FailbackRequest, ClientTypes
  <2>3. UNCHANGED <<poolVars, connVars, threadVars, farmWork, exited, historyVars>>
    BY <1>7 DEF FailbackRequest
  <2> QED
    BY <2>1, <2>2, <2>3, UnchangedTypes
<1>8. CASE FailbackFlag
  <2>1. RequestTypes'
    BY <1>8 DEF FailbackFlag, RequestTypes
  <2>2. ClientTypes'
    BY <1>8 DEF FailbackFlag, ClientTypes
  <2>3. UNCHANGED <<poolVars, connVars, threadVars, farmWork, exited, historyVars>>
    BY <1>8 DEF FailbackFlag
  <2> QED
    BY <2>1, <2>2, <2>3, UnchangedTypes
<1>9. CASE PortDecision
  <2>1. ClientTypes'
    BY <1>9 DEF PortDecision, ClientTypes, PoolTypes
  <2>2. UNCHANGED <<poolVars, requestVars, connVars, threadVars, farmWork, exited, historyVars>>
    BY <1>9 DEF PortDecision
  <2> QED
    BY <2>1, <2>2, UnchangedTypes
<1>10. CASE PortRequest
  <2>1. RequestTypes'
    BY <1>10 DEF PortRequest, RequestTypes, ClientTypes, PoolTypes
  <2>2. ClientTypes'
    BY <1>10 DEF PortRequest, ClientTypes
  <2>3. UNCHANGED <<poolVars, connVars, threadVars, farmWork, exited, historyVars>>
    BY <1>10 DEF PortRequest
  <2> QED
    BY <2>1, <2>2, <2>3, UnchangedTypes
<1>11. CASE PortFlag
  <2>1. RequestTypes'
    BY <1>11 DEF PortFlag, RequestTypes
  <2>2. ClientTypes'
    BY <1>11 DEF PortFlag, ClientTypes
  <2>3. UNCHANGED <<poolVars, connVars, threadVars, farmWork, exited, historyVars>>
    BY <1>11 DEF PortFlag
  <2> QED
    BY <2>1, <2>2, <2>3, UnchangedTypes
<1> QED
  BY <1>1, <1>2, <1>3, <1>4, <1>5, <1>6, <1>7, <1>8, <1>9, <1>10, <1>11 DEF ClientStep

\* A step of any other thread, of a pool or of the clock.
LEMMA EnvironmentType ==
  ASSUME TypeOK,
         \/ NetReadError \/ ProbeAnswers \/ (\E m \in Miners : MinerStalls(m))
         \/ WriteFails \/ PoolDrops \/ TimePasses \/ Exited
  PROVE  TypeOK'
<1> USE DEF TypeOK
<1>1. CASE NetReadError
  <2>1. ConnTypes'
    BY <1>1 DEF NetReadError, ConnTypes, Line, LineKinds
  <2>2. ThreadTypes'
    BY <1>1 DEF NetReadError, ThreadTypes, NetThrows
  <2>3. UNCHANGED <<poolVars, requestVars, clientVars, farmWork, exited, historyVars>>
    BY <1>1 DEF NetReadError
  <2> QED
    BY <2>1, <2>2, <2>3, UnchangedTypes
<1>2. CASE ProbeAnswers
  <2>1. ClientTypes'
    BY <1>2 DEF ProbeAnswers, ClientTypes
  <2>2. UNCHANGED <<poolVars, requestVars, connVars, threadVars, farmWork, exited, historyVars>>
    BY <1>2 DEF ProbeAnswers
  <2> QED
    BY <2>1, <2>2, UnchangedTypes
<1>3. CASE \E m \in Miners : MinerStalls(m)
  <2>1. ThreadTypes'
    <3>1. PICK m \in Miners : MinerStalls(m)
      BY <1>3
    <3> QED
      BY <3>1, MoveThread DEF MinerStalls, ThreadTypes, Threads
  <2>2. UNCHANGED <<poolVars, requestVars, connVars, clientVars, farmWork, exited, historyVars>>
    BY <1>3 DEF MinerStalls
  <2> QED
    BY <2>1, <2>2, UnchangedTypes
<1>4. CASE WriteFails
  <2>1. ConnTypes'
    BY <1>4 DEF WriteFails, ConnTypes, Closed
  <2>2. UNCHANGED <<poolVars, requestVars, threadVars, clientVars, farmWork, exited, historyVars>>
    BY <1>4 DEF WriteFails
  <2> QED
    BY <2>1, <2>2, UnchangedTypes
<1>5. CASE PoolDrops
  <2>1. ConnTypes'
    BY <1>5 DEF PoolDrops, ConnTypes
  <2>2. UNCHANGED <<poolVars, requestVars, threadVars, clientVars, farmWork, exited, historyVars>>
    BY <1>5 DEF PoolDrops
  <2> QED
    BY <2>1, <2>2, UnchangedTypes
<1>6. CASE TimePasses
  <2>1. ConnTypes'
    BY <1>6 DEF TimePasses, ConnTypes
  <2>2. UNCHANGED <<poolVars, requestVars, threadVars, clientVars, farmWork, exited, historyVars>>
    BY <1>6 DEF TimePasses
  <2> QED
    BY <2>1, <2>2, UnchangedTypes
<1>7. CASE Exited
  <2>1. UNCHANGED <<poolVars, requestVars, connVars, threadVars, clientVars, farmWork, exited, historyVars>>
    BY <1>7 DEF Exited, vars
  <2> QED
    BY <2>1, UnchangedTypes
<1> QED
  BY <1>1, <1>2, <1>3, <1>4, <1>5, <1>6, <1>7 DEF TypeOK
LEMMA NextType == TypeOK /\ [Next]_vars => TypeOK'
<1> SUFFICES ASSUME TypeOK, [Next]_vars PROVE TypeOK'
  OBVIOUS
<1>1. CASE \E t \in Threads : Reconnect(t)
  BY <1>1, ReconnectType
<1>2. CASE NetConnect
  BY <1>2, NetConnectType
<1>3. CASE NetRead
  BY <1>3, NetReadType DEF NetRead
<1>4. CASE ClientStep
  BY <1>4, ClientType
<1>5. CASE \/ NetReadError \/ ProbeAnswers \/ (\E m \in Miners : MinerStalls(m))
           \/ WriteFails \/ PoolDrops \/ TimePasses \/ Exited
  BY <1>5, EnvironmentType
<1>6. CASE UNCHANGED vars
  BY <1>6, UnchangedTypes DEF vars, TypeOK
<1> QED
  BY <1>1, <1>2, <1>3, <1>4, <1>5, <1>6 DEF Next

\* Every variable keeps its type: in particular m_activeIdx, m_pendingPool and m_pendingPortPool
\* stay inside m_pools whatever the threads do (StratumClient.cpp:114 indexes without a check).
THEOREM TypeCorrect == Spec => []TypeOK
BY InitType, NextType, PTL DEF Spec

-----------------------------------------------------------------------------
(* An attempt is always left, with any number of miner threads.            *)

\* The threads that hold m_reconnMutex.
Holding == {"inside", "switch", "close"}

\* The mutex has one holder; the retries are at their limit only while the holder is about to
\* switch the pool, which resets them; the other two counters are never at theirs.
MutexInv == \A s, t \in Threads : rc[s] \in Holding /\ rc[t] \in Holding => s = t

RetryInv == Running => (retries < MaxRetries \/ \E t \in Threads : rc[t] = "switch")

RoundInv ==
  /\ poolsFailedInRow < NPools
  /\ Running /\ NPools > 1 => refusedMask # Pools
  /\ forceNextPool => NPools > 1

AttemptInv == MutexInv /\ RetryInv /\ RoundInv

LEMMA AttemptInit == Init => AttemptInv
<1> SUFFICES ASSUME Init PROVE AttemptInv
  OBVIOUS
<1>1. MutexInv
  BY DEF Init, MutexInv, Holding
<1>2. RetryInv
  BY ConstantsAssumption DEF Init, RetryInv
<1>3. RoundInv
  <2>1. 0 \in Pools
    BY ConstantsAssumption DEF Pools
  <2> QED
    BY <2>1, ConstantsAssumption DEF Init, RoundInv
<1> QED
  BY <1>1, <1>2, <1>3 DEF AttemptInv

\* What the invariant is about stays as it is.
LEMMA AttemptUnchanged ==
  ASSUME AttemptInv, UNCHANGED <<rc, retries, poolsFailedInRow, refusedMask, forceNextPool, exited>>
  PROVE  AttemptInv'
BY DEF AttemptInv, MutexInv, RetryInv, RoundInv, Running

\* A thread outside Reconnect that asks for it holds nothing yet.
LEMMA AttemptWant ==
  ASSUME TypeOK, AttemptInv, NEW t \in Threads, rc[t] = "idle", rc' = [rc EXCEPT ![t] = "want"],
         UNCHANGED <<retries, poolsFailedInRow, refusedMask, forceNextPool, exited>>
  PROVE  AttemptInv'
<1>1. rc \in [Threads -> {"idle", "want", "inside", "switch", "close"}]
  BY DEF TypeOK, ThreadTypes
<1>2. \A s \in Threads : rc'[s] \in Holding <=> rc[s] \in Holding
  BY <1>1 DEF Holding
<1>3. \A s \in Threads : rc[s] = "switch" => rc'[s] = "switch"
  BY <1>1
<1>4. MutexInv'
  BY <1>2 DEF AttemptInv, MutexInv
<1>5. RetryInv'
  BY <1>3 DEF AttemptInv, RetryInv, Running
<1>6. RoundInv'
  BY DEF AttemptInv, RoundInv, Running
<1> QED
  BY <1>4, <1>5, <1>6 DEF AttemptInv

LEMMA AttemptReconnect ==
  ASSUME TypeOK, AttemptInv, NEW t \in Threads, Reconnect(t)
  PROVE  AttemptInv'
<1>1. rc \in [Threads -> {"idle", "want", "inside", "switch", "close"}]
  BY DEF TypeOK, ThreadTypes
<1>2. retries \in Nat /\ MaxRetries \in Nat \ {0}
  BY ConstantsAssumption DEF TypeOK, PoolTypes
<1>3. CASE ReconnectEnter(t)
  <2>1. rc' = [rc EXCEPT ![t] = "inside"] /\ \A s \in Threads : rc[s] \in {"idle", "want"}
    BY <1>3 DEF ReconnectEnter, ReconnectFree
  <2>2. UNCHANGED <<retries, poolsFailedInRow, refusedMask, forceNextPool, exited>> /\ Running
    BY <1>3 DEF ReconnectEnter, poolVars, requestVars
  <2>3. MutexInv'
    BY <1>1, <2>1 DEF MutexInv, Holding
  <2>4. RetryInv' /\ RoundInv'
    BY <2>1, <2>2 DEF AttemptInv, RetryInv, RoundInv, Running
  <2> QED
    BY <2>3, <2>4 DEF AttemptInv
<1>4. CASE ReconnectDecide(t)
  <2>1. rc[t] = "inside" /\ (\A s \in Threads : rc[s] = "switch" => s = t)
    BY <1>4 DEF ReconnectDecide, AttemptInv, MutexInv, Holding
  <2>2. retries < MaxRetries
    BY <1>4, <2>1 DEF ReconnectDecide, AttemptInv, RetryInv
  <2>3. UNCHANGED <<poolsFailedInRow, refusedMask>> /\ forceNextPool' = FALSE /\ Running
    BY <1>4 DEF ReconnectDecide
  <2>4. rc' = [rc EXCEPT ![t] = "switch"] \/ rc' = [rc EXCEPT ![t] = "close"]
    BY <1>4 DEF ReconnectDecide
  <2>5. MutexInv'
    BY <1>1, <2>1, <2>4 DEF AttemptInv, MutexInv, Holding
  <2>6. RetryInv'
    <3>1. CASE GiveUp(retries') /\ NPools > 1
      <4>1. rc' = [rc EXCEPT ![t] = "switch"]
        BY <1>4, <3>1 DEF ReconnectDecide
      <4> QED
        BY <4>1, <1>1 DEF RetryInv
    <3>2. CASE GiveUp(retries') /\ ~(NPools > 1)
      <4>1. ~forceNextPool
        BY <3>2 DEF AttemptInv, RoundInv
      <4>2. exited' = "retries"
        BY <1>4, <3>2, <4>1 DEF ReconnectDecide
      <4> QED
        BY <4>2 DEF RetryInv, Running
    <3>3. CASE ~GiveUp(retries')
      <4>1. retries' = IF VoluntarySwitch THEN retries ELSE retries + 1
        BY <1>4 DEF ReconnectDecide
      <4>2. retries' \in Nat
        BY <1>2, <4>1
      <4> QED
        BY <1>2, <3>3, <4>2 DEF RetryInv, GiveUp
    <3> QED
      BY <3>1, <3>2, <3>3
  <2>7. RoundInv'
    BY <2>3 DEF AttemptInv, RoundInv, Running
  <2> QED
    BY <2>5, <2>6, <2>7 DEF AttemptInv
<1>5. CASE ReconnectSwitch(t)
  <2>1. rc[t] = "switch" /\ rc' = [rc EXCEPT ![t] = "close"] /\ retries' = 0
    BY <1>5 DEF ReconnectSwitch, SetActivePool
  <2>2. UNCHANGED <<refusedMask, forceNextPool, exited>>
    BY <1>5 DEF ReconnectSwitch
  <2>3. poolsFailedInRow' < NPools
    BY <1>5, ConstantsAssumption DEF ReconnectSwitch, TypeOK, PoolTypes
  <2>4. MutexInv'
    BY <1>1, <2>1 DEF AttemptInv, MutexInv, Holding
  <2>5. RetryInv' /\ RoundInv'
    BY <1>2, <2>1, <2>2, <2>3 DEF AttemptInv, RetryInv, RoundInv, Running
  <2> QED
    BY <2>4, <2>5 DEF AttemptInv
<1>6. CASE ReconnectReturn(t)
  <2>1. rc[t] = "close" /\ rc' = [rc EXCEPT ![t] = "idle"] /\ Running
    BY <1>6 DEF ReconnectReturn
  <2>2. UNCHANGED <<retries, poolsFailedInRow, refusedMask, forceNextPool>>
    BY <1>6 DEF ReconnectReturn, poolVars, requestVars
  <2>3. MutexInv'
    BY <1>1, <2>1 DEF AttemptInv, MutexInv, Holding
  <2>4. RetryInv' /\ RoundInv'
    BY <1>1, <2>1, <2>2 DEF AttemptInv, MutexInv, Holding, RetryInv, RoundInv, Running
  <2> QED
    BY <2>3, <2>4 DEF AttemptInv
<1> QED
  BY <1>3, <1>4, <1>5, <1>6 DEF Reconnect

LEMMA AttemptNetConnect ==
  ASSUME TypeOK, AttemptInv, NetConnect
  PROVE  AttemptInv'
<1>1. retries \in Nat /\ MaxRetries \in Nat \ {0}
  BY ConstantsAssumption DEF TypeOK, PoolTypes
<1>2. CASE NetApply \/ NetPost
  <2>1. retries' = 0 \/ retries' = retries
    BY <1>2 DEF NetApply, NetPost, SetActivePool
  <2>2. UNCHANGED <<rc, poolsFailedInRow, refusedMask, forceNextPool, exited>>
    BY <1>2 DEF NetApply, NetPost, requestVars
  <2> QED
    BY <1>1, <2>1, <2>2 DEF AttemptInv, MutexInv, RetryInv, RoundInv, Running
<1>3. CASE NetClear \/ NetDial \/ NetDialOk
  <2>1. UNCHANGED <<rc, poolVars, forceNextPool, exited>>
    BY <1>3 DEF NetClear, NetDial, NetDialOk, requestVars
  <2> QED
    BY <2>1, AttemptUnchanged DEF poolVars
<1>4. CASE NetDialFails
  <2>1. rc[Net] = "idle" /\ rc' = [rc EXCEPT ![Net] = "want"]
    BY <1>4 DEF NetDialFails, NetAt, NetThrows
  <2>2. UNCHANGED <<poolVars, requestVars, exited>>
    BY <1>4 DEF NetDialFails
  <2> QED
    BY <2>1, <2>2, AttemptWant DEF poolVars, requestVars, Threads
<1> QED
  BY <1>2, <1>3, <1>4 DEF NetConnect

LEMMA AttemptRead ==
  ASSUME TypeOK, AttemptInv, NEW l \in Line,
         \/ ReadSession(l) \/ ReadAccept(l) \/ ReadRefuse(l)
         \/ ReadWork(l) \/ ReadOther(l) \/ ReadGarbage(l)
  PROVE  AttemptInv'
<1>1. CASE ReadSession(l) \/ ReadWork(l) \/ ReadOther(l)
  <2>1. UNCHANGED <<rc, retries, poolsFailedInRow, refusedMask, forceNextPool, exited>>
    BY <1>1 DEF ReadSession, ReadWork, ReadOther, poolVars, threadVars, requestVars
  <2> QED
    BY <2>1, AttemptUnchanged
<1>2. CASE ReadAccept(l)
  <2>1. UNCHANGED <<rc, retries, forceNextPool, exited>> /\ poolsFailedInRow' = 0 /\ refusedMask' = {}
    BY <1>2 DEF ReadAccept, threadVars, requestVars
  <2>2. 0 \in Pools /\ 0 < NPools
    BY ConstantsAssumption DEF Pools
  <2> QED
    BY <2>1, <2>2 DEF AttemptInv, MutexInv, RetryInv, RoundInv, Running
<1>3. CASE ReadRefuse(l)
  <2>1. rc[Net] = "idle" /\ Running
    BY <1>3 DEF ReadRefuse, TakeLine, NetAt
  <2>2. UNCHANGED <<retries, poolsFailedInRow>>
    BY <1>3 DEF ReadRefuse
  <2>3. CASE NPools < 2 \/ AllRefused(refusedMask')
    <3>1. UNCHANGED <<rc, forceNextPool>> /\ exited' = "refused"
      BY <1>3, <2>3 DEF ReadRefuse
    <3> QED
      BY <2>2, <3>1 DEF AttemptInv, MutexInv, RetryInv, RoundInv, Running
  <2>4. CASE ~(NPools < 2 \/ AllRefused(refusedMask'))
    <3>1. rc' = [rc EXCEPT ![Net] = "want"] /\ forceNextPool' = TRUE /\ UNCHANGED exited
      BY <1>3, <2>4 DEF ReadRefuse, NetThrows
    <3>2. rc \in [Threads -> {"idle", "want", "inside", "switch", "close"}] /\ Net \in Threads
      BY DEF TypeOK, ThreadTypes, Threads
    <3>3. MutexInv'
      BY <2>1, <3>1, <3>2 DEF AttemptInv, MutexInv, Holding
    <3>4. RetryInv'
      BY <2>1, <2>2, <3>1, <3>2 DEF AttemptInv, RetryInv, Running
    <3>5. RoundInv'
      BY <2>2, <2>4, <3>1, ConstantsAssumption DEF AttemptInv, RoundInv, AllRefused
    <3> QED
      BY <3>3, <3>4, <3>5 DEF AttemptInv
  <2> QED
    BY <2>3, <2>4
<1>4. CASE ReadGarbage(l)
  <2>1. rc[Net] = "idle" /\ rc' = [rc EXCEPT ![Net] = "want"]
    BY <1>4 DEF ReadGarbage, TakeLine, NetAt, NetThrows
  <2>2. UNCHANGED <<poolVars, requestVars, exited>>
    BY <1>4 DEF ReadGarbage
  <2> QED
    BY <2>1, <2>2, AttemptWant DEF poolVars, requestVars, Threads
<1> QED
  BY <1>1, <1>2, <1>3, <1>4

LEMMA AttemptClient ==
  ASSUME TypeOK, AttemptInv, ClientStep
  PROVE  AttemptInv'
<1>1. CASE WorkTimeoutForce
  <2>1. UNCHANGED <<rc, poolVars, exited>> /\ forceNextPool' = (forceNextPool \/ NPools > 1)
    BY <1>1 DEF WorkTimeoutForce, threadVars
  <2> QED
    BY <2>1 DEF poolVars, AttemptInv, MutexInv, RetryInv, RoundInv, Running
<1>2. CASE ClientStep /\ ~WorkTimeoutForce
  <2>1. UNCHANGED <<rc, poolVars, forceNextPool, exited>>
    BY <1>2
    DEF ClientStep, ClientShutdown, WorkTimeout, FailbackTimer, FailbackCheck, FailbackFound,
        FailbackRequest, FailbackFlag, PortDecision, PortRequest, PortFlag, threadVars, requestVars
  <2> QED
    BY <2>1, AttemptUnchanged DEF poolVars
<1> QED
  BY <1>1, <1>2

LEMMA AttemptEnvironment ==
  ASSUME TypeOK, AttemptInv,
         \/ NetReadError \/ ProbeAnswers \/ (\E m \in Miners : MinerStalls(m))
         \/ WriteFails \/ PoolDrops \/ TimePasses \/ Exited
  PROVE  AttemptInv'
<1>1. CASE NetReadError
  <2>1. rc[Net] = "idle" /\ rc' = [rc EXCEPT ![Net] = "want"]
    BY <1>1 DEF NetReadError, NetAt, NetThrows
  <2>2. UNCHANGED <<poolVars, requestVars, exited>>
    BY <1>1 DEF NetReadError
  <2> QED
    BY <2>1, <2>2, AttemptWant DEF poolVars, requestVars, Threads
<1>2. CASE \E m \in Miners : MinerStalls(m)
  <2>1. PICK m \in Miners : MinerStalls(m)
    BY <1>2
  <2>2. rc[m] = "idle" /\ rc' = [rc EXCEPT ![m] = "want"]
    BY <2>1 DEF MinerStalls
  <2>3. UNCHANGED <<poolVars, requestVars, exited>>
    BY <2>1 DEF MinerStalls
  <2> QED
    BY <2>2, <2>3, AttemptWant DEF poolVars, requestVars, Threads
<1>3. CASE ProbeAnswers \/ WriteFails \/ PoolDrops \/ TimePasses \/ Exited
  <2>1. UNCHANGED <<threadVars, poolVars, requestVars, exited>>
    BY <1>3 DEF ProbeAnswers, WriteFails, PoolDrops, TimePasses, Exited, vars
  <2> QED
    BY <2>1, AttemptUnchanged DEF threadVars, poolVars, requestVars
<1> QED
  BY <1>1, <1>2, <1>3

LEMMA AttemptNext == TypeOK /\ AttemptInv /\ [Next]_vars => AttemptInv'
<1> SUFFICES ASSUME TypeOK, AttemptInv, [Next]_vars PROVE AttemptInv'
  OBVIOUS
<1>1. CASE \E t \in Threads : Reconnect(t)
  BY <1>1, AttemptReconnect
<1>2. CASE NetConnect
  BY <1>2, AttemptNetConnect
<1>3. CASE NetRead
  BY <1>3, AttemptRead DEF NetRead
<1>4. CASE ClientStep
  BY <1>4, AttemptClient
<1>5. CASE \/ NetReadError \/ ProbeAnswers \/ (\E m \in Miners : MinerStalls(m))
           \/ WriteFails \/ PoolDrops \/ TimePasses \/ Exited
  BY <1>5, AttemptEnvironment
<1>6. CASE UNCHANGED vars
  BY <1>6, AttemptUnchanged DEF vars, poolVars, requestVars, threadVars
<1> QED
  BY <1>1, <1>2, <1>3, <1>4, <1>5, <1>6 DEF Next

\* Between two reconnects, of however many threads, the retries, the round of failed pools and
\* the refused mask are below their limits: no later drop skips a pool or ends the process
\* because of a counter somebody left behind (Reconnect, SwitchToNextPool, RespondAuthorize).
THEOREM AttemptIsLeft == Spec => []AttemptLeft
<1>1. AttemptInv => AttemptLeft
  BY DEF AttemptInv, RetryInv, RoundInv, AttemptLeft
<1> QED
  BY <1>1, AttemptInit, AttemptNext, TypeCorrect, PTL DEF Spec
-----------------------------------------------------------------------------
(* The ports, with any number of pools in auto mode.                       *)

\* The step that RequestPortSwitch guards against ("never apply it to another pool") is taken by
\* nothing but RequestPortSwitch itself, when the pool changed since the hashrate was measured:
\* no switch of the pool, failback or reconnect, and not the order in which Preconnect applies
\* the pool and the port, ever makes the port of a pool one that was chosen for another.
THEOREM PortsCrossByRequestOnly == Spec => PortsCrossOnlyByRequest
<1>1. TypeOK /\ [Next]_vars
        => (PortsKept /\ ~PortsKept' => PortRequest /\ clientPool # activeIdx)
  <2> SUFFICES ASSUME TypeOK, [Next]_vars, PortsKept
               PROVE  PortsKept' \/ (PortRequest /\ clientPool # activeIdx)
    OBVIOUS
  <2>1. ASSUME UNCHANGED portOf,
               pendingPort' = NoPool \/ UNCHANGED <<pendingPort, pendingPortPool>>
        PROVE  PortsKept'
    BY <2>1 DEF PortsKept, PortsStayWithTheirPool
  <2>2. ASSUME NEW t \in Threads, Reconnect(t) PROVE PortsKept'
    BY <2>1, <2>2 DEF Reconnect, ReconnectEnter, ReconnectDecide, ReconnectSwitch,
                      ReconnectReturn, poolVars, requestVars
  <2>3. CASE NetApply
    <3>1. pendingPort' = NoPool
      BY <2>3 DEF NetApply
    <3>2. CASE PortIsFor(activeIdx')
      <4>1. portOf' = [portOf EXCEPT ![activeIdx'] = pendingPort]
        BY <2>3, <3>2 DEF NetApply
      <4>2. pendingPort = activeIdx'
        BY <3>2 DEF PortIsFor, PortsKept
      <4> QED
        BY <3>1, <4>1, <4>2 DEF PortsKept, PortsStayWithTheirPool, TypeOK, PoolTypes
    <3>3. CASE ~PortIsFor(activeIdx')
      BY <2>1, <2>3, <3>1, <3>3 DEF NetApply
    <3> QED
      BY <3>2, <3>3
  <2>4. CASE NetClear \/ NetDial \/ NetDialOk \/ NetDialFails \/ NetPost
    BY <2>1, <2>4 DEF NetClear, NetDial, NetDialOk, NetDialFails, NetPost, poolVars, requestVars
  <2>5. CASE NetRead \/ NetReadError
    BY <2>1, <2>5 DEF NetRead, NetReadError, ReadSession, ReadAccept, ReadRefuse, ReadWork,
                      ReadOther, ReadGarbage, poolVars, requestVars
  <2>6. CASE PortRequest
    BY <2>6 DEF PortRequest, poolVars, PortsKept, PortsStayWithTheirPool
  <2>7. CASE ClientStep /\ ~PortRequest
    BY <2>1, <2>7
    DEF ClientStep, ClientShutdown, WorkTimeout, WorkTimeoutForce, FailbackTimer, FailbackCheck,
        FailbackFound, FailbackRequest, FailbackFlag, PortDecision, PortFlag, poolVars, requestVars
  <2>8. CASE \/ ProbeAnswers \/ (\E m \in Miners : MinerStalls(m))
             \/ WriteFails \/ PoolDrops \/ TimePasses \/ Exited \/ UNCHANGED vars
    BY <2>1, <2>8 DEF ProbeAnswers, MinerStalls, WriteFails, PoolDrops, TimePasses, Exited, vars,
                      poolVars, requestVars
  <2> QED
    BY <2>2, <2>3, <2>4, <2>5, <2>6, <2>7, <2>8 DEF Next, NetConnect
<1> QED
  BY <1>1, TypeCorrect, PTL DEF Spec, PortsCrossOnlyByRequest
-----------------------------------------------------------------------------
(* The job of the miners is the connected pool's, with any number of miner *)
(* threads, when no line is left behind by a connection that was given up: *)
(* the network thread alone opens a connection, and it passed Reconnect,   *)
(* which pauses the miners, since it read the last job.                    *)

\* The network thread uses the connection, or is about to give it up.
InLoop(where) == net = where /\ rc[Net] \in {"idle", "want"}

LineInv == leftover = NoLine

JobInv == farmWork # NoPool => InLoop("read") /\ farmWork = sock.pool

LEMMA JobInit == Init => LineInv /\ JobInv
BY DEF Init, LineInv, JobInv

\* Closing or shutting a socket down does not change the pool it was connected to.
LEMMA SamePool ==
  ASSUME TypeOK
  PROVE  Closed.pool = sock.pool /\ [sock EXCEPT !.state = "shut"].pool = sock.pool
BY DEF TypeOK, ConnTypes, Closed

LEMMA JobUnchanged ==
  ASSUME LineInv, JobInv, sock'.pool = sock.pool, UNCHANGED <<net, rc, leftover, farmWork>>
  PROVE  LineInv' /\ JobInv'
BY DEF LineInv, JobInv, InLoop

LEMMA JobReconnect ==
  ASSUME TypeOK, LineInv, JobInv, NEW t \in Threads, Reconnect(t)
  PROVE  LineInv' /\ JobInv'
<1>1. LineInv'
  BY DEF Reconnect, ReconnectEnter, ReconnectDecide, ReconnectSwitch, ReconnectReturn, connVars,
         LineInv
<1>2. CASE ReconnectEnter(t)
  BY <1>1, <1>2 DEF ReconnectEnter, PauseMiners, JobInv
<1>3. CASE ReconnectDecide(t) \/ ReconnectSwitch(t) \/ ReconnectReturn(t)
  <2>1. farmWork' = farmWork
    BY <1>3 DEF ReconnectDecide, ReconnectSwitch, ReconnectReturn
  <2>2. CASE t = Net
    <3>1. farmWork = NoPool
      BY <1>3, <2>2 DEF ReconnectDecide, ReconnectSwitch, ReconnectReturn, JobInv, InLoop
    <3> QED
      BY <1>1, <2>1, <3>1 DEF JobInv
  <2>3. CASE t # Net
    <3>1. rc'[Net] = rc[Net]
      BY <1>3, <2>3 DEF ReconnectDecide, ReconnectSwitch, ReconnectReturn, TypeOK, ThreadTypes,
                        Threads
    <3>2. net' = net
      BY <1>3, <2>3 DEF ReconnectDecide, ReconnectSwitch, ReconnectReturn
    <3>3. sock' = sock \/ sock' = [state |-> "closed", pool |-> sock.pool]
      BY <1>3, <2>3 DEF ReconnectDecide, ReconnectSwitch, ReconnectReturn, connVars
    <3>4. sock'.pool = sock.pool
      BY <3>3
    <3> QED
      BY <1>1, <2>1, <3>1, <3>2, <3>4 DEF JobInv, InLoop
  <2> QED
    BY <2>2, <2>3
<1> QED
  BY <1>2, <1>3 DEF Reconnect

\* A new connection is only opened while the miners are paused.
LEMMA JobConnect ==
  ASSUME TypeOK, LineInv, JobInv, NetConnect
  PROVE  LineInv' /\ JobInv'
<1>1. UNCHANGED <<leftover, farmWork>>
  BY DEF NetConnect, NetApply, NetClear, NetDial, NetDialOk, NetDialFails, NetPost, connVars
<1>2. farmWork = NoPool
  BY DEF NetConnect, NetApply, NetClear, NetDial, NetDialOk, NetDialFails, NetPost, NetAt, JobInv, InLoop
<1> QED
  BY <1>1, <1>2 DEF LineInv, JobInv

\* With nothing left in the buffer a job comes from the pool of the connection.
LEMMA JobRead ==
  ASSUME ~Coalesce, TypeOK, LineInv, JobInv, NetRead \/ NetReadError
  PROVE  LineInv' /\ JobInv'
<1>1. \A l, u : Behind(l, u) = {NoLine}
  BY DEF Behind
<1>2. LineInv'
  BY <1>1 DEF NetRead, NetReadError, ReadSession, ReadAccept, ReadRefuse, ReadWork, ReadOther,
              ReadGarbage, LineInv
<1>3. net = "read" /\ rc[Net] = "idle" /\ net' = net
  BY DEF NetRead, NetReadError, ReadSession, ReadAccept, ReadRefuse, ReadWork, ReadOther,
         ReadGarbage, TakeLine, NetAt, threadVars
<1>4. rc' = rc \/ NetThrows
  BY DEF NetRead, NetReadError, ReadSession, ReadAccept, ReadRefuse, ReadWork, ReadOther,
         ReadGarbage, threadVars
<1>5. InLoop("read")'
  BY <1>3, <1>4 DEF InLoop, NetThrows, TypeOK, ThreadTypes, Threads
<1>6. sock'.pool = sock.pool
  BY SamePool DEF NetRead, NetReadError, ReadSession, ReadAccept, ReadRefuse, ReadWork, ReadOther,
                  ReadGarbage
<1>7. farmWork' \in {farmWork, NoPool, sock.pool}
  <2>1. ASSUME NEW l \in Line, ReadWork(l) PROVE farmWork' = sock.pool
    <3>1. l \in MaySend(sock.pool, calls)
      BY <2>1 DEF ReadWork, TakeLine, NextLine, LineInv
    <3>2. l.pool = sock.pool
      BY <3>1 DEF MaySend
    <3> QED
      BY <2>1, <3>2 DEF ReadWork
  <2>2. ASSUME NEW l \in Line, ~ReadWork(l),
               \/ ReadSession(l) \/ ReadAccept(l) \/ ReadRefuse(l) \/ ReadWork(l) \/ ReadOther(l)
               \/ ReadGarbage(l)
        PROVE  farmWork' \in {farmWork, NoPool}
    BY <2>2 DEF ReadSession, ReadAccept, ReadRefuse, ReadOther, ReadGarbage, PauseMiners
  <2>3. NetReadError => farmWork' = farmWork
    BY DEF NetReadError
  <2> QED
    BY <2>1, <2>2, <2>3 DEF NetRead
<1> QED
  BY <1>2, <1>3, <1>5, <1>6, <1>7 DEF JobInv

LEMMA JobElsewhere ==
  ASSUME TypeOK, LineInv, JobInv,
         \/ ClientStep \/ ProbeAnswers \/ (\E m \in Miners : MinerStalls(m))
         \/ WriteFails \/ PoolDrops \/ TimePasses \/ Exited \/ UNCHANGED vars
  PROVE  LineInv' /\ JobInv'
<1>1. CASE ClientStep
  <2>1. sock'.pool = sock.pool
    BY <1>1, SamePool
    DEF ClientStep, ClientShutdown, WorkTimeout, WorkTimeoutForce, FailbackTimer, FailbackCheck,
        FailbackFound, FailbackRequest, FailbackFlag, PortDecision, PortRequest, PortFlag, connVars
  <2>2. UNCHANGED <<net, rc, leftover, farmWork>>
    BY <1>1
    DEF ClientStep, ClientShutdown, WorkTimeout, WorkTimeoutForce, FailbackTimer, FailbackCheck,
        FailbackFound, FailbackRequest, FailbackFlag, PortDecision, PortRequest, PortFlag,
        connVars, threadVars
  <2> QED
    BY <2>1, <2>2, JobUnchanged
<1>2. ASSUME NEW m \in Miners, MinerStalls(m) PROVE LineInv' /\ JobInv'
  <2>1. rc'[Net] = rc[Net]
    BY <1>2, ConstantsAssumption DEF MinerStalls, TypeOK, ThreadTypes, Threads
  <2> QED
    BY <1>2, <2>1 DEF MinerStalls, connVars, LineInv, JobInv, InLoop
<1>3. CASE ProbeAnswers \/ WriteFails \/ PoolDrops \/ TimePasses \/ Exited \/ UNCHANGED vars
  <2>1. sock'.pool = sock.pool
    BY <1>3, SamePool DEF ProbeAnswers, WriteFails, PoolDrops, TimePasses, Exited, vars, connVars
  <2>2. UNCHANGED <<net, rc, leftover, farmWork>>
    BY <1>3 DEF ProbeAnswers, WriteFails, PoolDrops, TimePasses, Exited, vars, connVars, threadVars
  <2> QED
    BY <2>1, <2>2, JobUnchanged
<1> QED
  BY <1>1, <1>2, <1>3

LEMMA JobNext ==
  ASSUME ~Coalesce
  PROVE  TypeOK /\ LineInv /\ JobInv /\ [Next]_vars => LineInv' /\ JobInv'
<1> SUFFICES ASSUME TypeOK, LineInv, JobInv, [Next]_vars PROVE LineInv' /\ JobInv'
  OBVIOUS
<1> QED
  BY JobReconnect, JobConnect, JobRead, JobElsewhere DEF Next

LEMMA JobAlways ==
  ASSUME ~Coalesce
  PROVE  Spec => [](TypeOK /\ LineInv /\ JobInv)
<1>1. TypeOK /\ LineInv /\ JobInv /\ [Next]_vars => LineInv' /\ JobInv'
  BY JobNext
<1> QED
  BY <1>1, JobInit, TypeCorrect, PTL DEF Spec

\* The miners never hash a job of another pool than the one a share would be sent to (Reconnect
\* pauses the farm before the pool can change, ProcessWork gives it the next job), however many
\* miners ask for a reconnect of their own.
THEOREM JobIsOfConnectedPool ==
  ASSUME ~Coalesce
  PROVE  Spec => []MinesForConnectedPool
<1>1. JobInv => MinesForConnectedPool
  BY DEF JobInv, MinesForConnectedPool
<1> QED
  BY <1>1, JobAlways, PTL
=============================================================================
