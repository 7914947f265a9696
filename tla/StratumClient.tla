--------------------------- MODULE StratumClient ---------------------------
(***************************************************************************)
(* The connection manager of the miner: the network thread, its reconnect  *)
(* and pool failover (MinersLib/StratumClient.cpp), the requests the miner *)
(* client thread makes of it (work timeout, failback, port switch), the    *)
(* failback probe, and the miner threads that ask for a reconnect when     *)
(* their work is stale (MinersLib/GenericCLMiner.cpp).                     *)
(*                                                                         *)
(* Each action is a stretch of one thread between two accesses to shared   *)
(* state that another thread may see: the steps of Reconnect (l.359) and   *)
(* of Connect (l.322) interleave with everything else. A pool is an index  *)
(* into m_pools. A port is named by the pool it was chosen for. A line of  *)
(* a pool is [pool, kind]: what it is about matters, its text does not.    *)
(* Not here: Disconnect and StopWorking by the client thread (the worker   *)
(* state stays Started), solo mining, the payload of the work.             *)
(***************************************************************************)
EXTENDS Integers, FiniteSets

CONSTANTS
  NPools,              \* m_pools.size(): the main pool 0 and the backup pools
  MaxRetries,          \* m_maxRetries, the option -r plus one
  Net,                 \* the network thread
  Miners,              \* the miner threads, one per device
  AutoPools,           \* the pools configured with the port "auto"
  May,                 \* May[p]: the events pool p may produce
  Coalesce,            \* may a pool's line arrive behind one that ends the connection?
  LongOutage,          \* may an outage last longer than -worktimeout?
  DisableAutoReconnect,\* the option -dar
  Failback             \* the option -failback is not 0

Pools == 0 .. NPools - 1
NoPool == -1
Threads == {Net} \cup Miners

LineKinds == {"session", "accept", "refuse", "work", "other", "garbage"}
Events == LineKinds \cup {"up", "down", "drop", "silence"}
Line == [pool : Pools, kind : LineKinds]
NoLine == [pool |-> NoPool, kind |-> "other"]

ASSUME ConstantsAssumption ==
  /\ NPools \in Nat \ {0}
  /\ MaxRetries \in Nat \ {0}
  /\ Net \notin Miners
  /\ AutoPools \subseteq Pools
  /\ May \in [Pools -> SUBSET Events]
  /\ Coalesce \in BOOLEAN
  /\ LongOutage \in BOOLEAN
  /\ DisableAutoReconnect \in BOOLEAN
  /\ Failback \in BOOLEAN

VARIABLES
  activeIdx,         \* m_activeIdx, and m_active == &m_pools[m_activeIdx]
  portOf,            \* m_pools[p].port: NoPool is the configured port, q one chosen for q
  sessionPool,       \* m_sessionID: the pool that gave it, NoPool when empty
  retries,           \* m_retries
  poolsFailedInRow,  \* m_poolsFailedInRow
  refusedMask,       \* m_refusedMask, as the set of its bits
  pendingPool,       \* m_pendingPool
  pendingPort,       \* m_pendingPort: the pool it was chosen for, NoPool when empty
  pendingPortPool,   \* m_pendingPortPool
  portSwitchPending, \* m_portSwitchPending
  poolSwitchPending, \* m_poolSwitchPending
  forceNextPool,     \* m_forceNextPool
  sock,              \* m_socket: its state and the pool it was connected to
  connected,         \* m_connected
  authorized,        \* m_authorized
  calls,             \* m_lastCalleJSondMethod: the calls without an answer yet
  leftover,          \* the line left in m_responseBuffer when a read loop was abandoned
  lastActiveHost,    \* m_lastActiveHost
  lastLine,          \* age of m_lastReceivedCommandTime against -worktimeout
  net,               \* where the network thread is in WorkLoop / Connect
  dialled,           \* the pool it dials, NoPool when it does not
  rc,                \* rc[t]: where thread t is in Reconnect
  wasConnected,      \* wasConnected[t]: the local of Reconnect
  reason,            \* the argument of the SwitchToNextPool under way
  client,            \* where the miner client thread is in one of its requests
  clientPool,        \* the pool HandleAutoPort measured
  probe,             \* m_failbackProbe
  backupSince,       \* m_backupSinceMS # 0
  farmWork,          \* the pool whose job the miners hash, NoPool when paused
  exited             \* how the process ended

\* History, read by properties only.
VARIABLES
  login,             \* the pool whose account was sent on this connection
  fails,             \* attempts to connect that failed since one succeeded or the pool was chosen
  asked,             \* reconnects that miner threads asked for and were counted, since then
  refusers,          \* the pools that refused a login since one was accepted
  probeFresh         \* the probe was started in the present stay on the backup pools

poolVars == <<activeIdx, portOf, sessionPool, retries, poolsFailedInRow, refusedMask>>
requestVars == <<pendingPool, pendingPort, pendingPortPool,
                 portSwitchPending, poolSwitchPending, forceNextPool>>
connVars == <<sock, connected, authorized, calls, leftover, lastActiveHost, lastLine>>
threadVars == <<net, dialled, rc, wasConnected, reason>>
clientVars == <<client, clientPool, probe, backupSince>>
historyVars == <<login, fails, asked, refusers, probeFresh>>
vars == <<poolVars, requestVars, connVars, threadVars, clientVars, farmWork, exited, historyVars>>

PoolTypes ==
  /\ activeIdx \in Pools
  /\ portOf \in [Pools -> Pools \cup {NoPool}]
  /\ sessionPool \in Pools \cup {NoPool}
  /\ retries \in Nat
  /\ poolsFailedInRow \in Nat
  /\ refusedMask \subseteq Pools

RequestTypes ==
  /\ pendingPool \in {NoPool, 0}
  /\ pendingPort \in Pools \cup {NoPool}
  /\ pendingPortPool \in Pools \cup {NoPool}
  /\ portSwitchPending \in BOOLEAN
  /\ poolSwitchPending \in BOOLEAN
  /\ forceNextPool \in BOOLEAN

ConnTypes ==
  /\ sock \in [state : {"closed", "open", "shut"}, pool : Pools \cup {NoPool}]
  /\ sock.state # "closed" => sock.pool \in Pools
  /\ connected \in BOOLEAN
  /\ authorized \in BOOLEAN
  /\ calls \subseteq {"subscribe", "authorize"}
  /\ leftover \in Line \cup {NoLine}
  /\ lastActiveHost \in Pools \cup {NoPool}
  /\ lastLine \in {"never", "recent", "aging", "old"}

ThreadTypes ==
  /\ net \in {"connect", "clear", "dial", "connecting", "post", "read"}
  /\ dialled \in Pools \cup {NoPool}
  /\ net = "connecting" /\ rc[Net] = "idle" => dialled \in Pools
  /\ rc \in [Threads -> {"idle", "want", "inside", "switch", "close"}]
  /\ wasConnected \in [Threads -> BOOLEAN]
  /\ reason \in {"none", "not usable", "not reachable"}

ClientTypes ==
  /\ client \in {"idle", "timeout", "failback", "failbackFlag", "port", "portFlag", "shutdown"}
  /\ clientPool \in Pools \cup {NoPool}
  /\ probe \in {"idle", "running", "reachable", "unreachable"}
  /\ backupSince \in BOOLEAN

FarmTypes ==
  /\ farmWork \in Pools \cup {NoPool}
  /\ exited \in {"no", "retries", "refused", "dropped"}

HistoryTypes ==
  /\ login \in Pools \cup {NoPool}
  /\ fails \in Nat
  /\ asked \in Nat
  /\ refusers \subseteq Pools
  /\ probeFresh \in BOOLEAN

\* Every variable has its type; in particular m_activeIdx stays inside m_pools, which is never
\* resized (StratumClient.cpp:67).
TypeOK ==
  PoolTypes /\ RequestTypes /\ ConnTypes /\ ThreadTypes /\ ClientTypes /\ FarmTypes /\ HistoryTypes

Init ==
  /\ activeIdx = 0
  /\ portOf = [p \in Pools |-> NoPool]
  /\ sessionPool = NoPool
  /\ retries = 0
  /\ poolsFailedInRow = 0
  /\ refusedMask = {}
  /\ pendingPool = NoPool
  /\ pendingPort = NoPool
  /\ pendingPortPool = NoPool
  /\ portSwitchPending = FALSE
  /\ poolSwitchPending = FALSE
  /\ forceNextPool = FALSE
  /\ sock = [state |-> "closed", pool |-> NoPool]
  /\ connected = FALSE
  /\ authorized = FALSE
  /\ calls = {}
  /\ leftover = NoLine
  /\ lastActiveHost = NoPool
  /\ lastLine = "never"
  /\ net = "connect"
  /\ dialled = NoPool
  /\ rc = [t \in Threads |-> "idle"]
  /\ wasConnected = [t \in Threads |-> FALSE]
  /\ reason = "none"
  /\ client = "idle"
  /\ clientPool = NoPool
  /\ probe = "idle"
  /\ backupSince = FALSE
  /\ farmWork = NoPool
  /\ exited = "no"
  /\ login = NoPool
  /\ fails = 0
  /\ asked = 0
  /\ refusers = {}
  /\ probeFresh = FALSE

Running == exited = "no"
Closed == [sock EXCEPT !.state = "closed"]

-----------------------------------------------------------------------------
(* Pool selection.                                                         *)

\* MUTANT: the session id of the old pool is kept.
SetActivePool_KeepsSession(i) ==
  /\ activeIdx' = i
  /\ sessionPool' = sessionPool
  /\ retries' = 0
  /\ backupSince' = FALSE
  /\ fails' = 0
  /\ asked' = 0
  /\ probeFresh' = (probeFresh /\ i # 0)

\* MUTANT: the retries of the old pool are kept.
SetActivePool_KeepsRetries(i) ==
  /\ activeIdx' = i
  /\ sessionPool' = IF i # activeIdx THEN NoPool ELSE sessionPool
  /\ retries' = retries
  /\ backupSince' = FALSE
  /\ fails' = 0
  /\ asked' = 0
  /\ probeFresh' = (probeFresh /\ i # 0)

\* The session id is only valid on the pool that gave it; a new pool starts with
\* fresh retries and a fresh failback timer.
SetActivePool(i) ==
  /\ activeIdx' = i
  /\ sessionPool' = IF i # activeIdx THEN NoPool ELSE sessionPool
  /\ retries' = 0
  /\ backupSince' = FALSE
  /\ fails' = 0
  /\ asked' = 0
  /\ probeFresh' = (probeFresh /\ i # 0)

\* MUTANT: no wrap after the last pool.
NextPool_NoWrap == activeIdx + 1

\* MUTANT: a backup pool is always followed by the main pool.
NextPool_Alternates == IF activeIdx = 0 THEN 1 % NPools ELSE 0

\* After the last pool comes the main pool again.
NextPool == (activeIdx + 1) % NPools

\* A voluntary switch (auto port, back to the main pool) is not a connection failure.
VoluntarySwitch == portSwitchPending \/ poolSwitchPending

\* MUTANT: one attempt too few.
GiveUp_OneEarly(tried) == tried + 1 >= MaxRetries \/ forceNextPool

\* The active pool is given up: not reachable, or not usable.
GiveUp(tried) == tried >= MaxRetries \/ forceNextPool

\* MUTANT: the mask of one pool less.
AllRefused_OneLess(mask) == Cardinality(mask) >= NPools - 1

AllRefused(mask) == mask = Pools

\* The pending port is for pool p, which is the one that is active now and is in auto mode.
PortIsFor(p) == pendingPort # NoPool /\ pendingPortPool = p /\ p \in AutoPools

-----------------------------------------------------------------------------
(* Reconnect, by the network thread or a miner thread t. m_reconnMutex is  *)
(* held from "inside" on.                                                  *)

\* MUTANT: the miners go on with the job they have.
PauseMiners_Forgotten == farmWork' = farmWork

\* Farm::Pause: the miners have no job until the next one comes.
PauseMiners == farmWork' = NoPool

ReconnectFree == \A t \in Threads : rc[t] \in {"idle", "want"}

\* The miners are paused and the connection is given up. The sleeps come next.
ReconnectEnter(t) ==
  /\ Running
  /\ rc[t] = "want"
  /\ ReconnectFree
  /\ rc' = [rc EXCEPT ![t] = "inside"]
  /\ wasConnected' = [wasConnected EXCEPT ![t] = connected]
  /\ connected' = FALSE
  /\ authorized' = FALSE
  /\ PauseMiners
  /\ login' = NoPool
  /\ UNCHANGED <<poolVars, requestVars, sock, calls, leftover, lastActiveHost, lastLine,
                 net, dialled, reason, clientVars, exited, fails, asked, refusers,
                 probeFresh>>

\* Count the failure, unless it is a voluntary switch, and see whether the pool is given up.
ReconnectDecide(t) ==
  /\ Running
  /\ rc[t] = "inside"
  /\ forceNextPool' = FALSE
  /\ retries' = IF VoluntarySwitch THEN retries ELSE retries + 1
  /\ asked' = IF VoluntarySwitch \/ t = Net THEN asked ELSE asked + 1
  /\ IF GiveUp(retries') /\ NPools > 1
     THEN /\ rc' = [rc EXCEPT ![t] = "switch"]
          /\ reason' = IF forceNextPool THEN "not usable" ELSE "not reachable"
          /\ UNCHANGED exited
     ELSE /\ rc' = [rc EXCEPT ![t] = "close"]
          /\ exited' = IF GiveUp(retries') /\ ~forceNextPool THEN "retries" ELSE exited
          /\ UNCHANGED reason
  /\ UNCHANGED <<activeIdx, portOf, sessionPool, poolsFailedInRow, refusedMask,
                 pendingPool, pendingPort, pendingPortPool, portSwitchPending,
                 poolSwitchPending, connVars, net, dialled, wasConnected, clientVars, farmWork,
                 login, fails, refusers, probeFresh>>

\* SwitchToNextPool. When every pool failed in a row the thread sleeps 30 s, holding the mutex.
ReconnectSwitch(t) ==
  /\ Running
  /\ rc[t] = "switch"
  /\ SetActivePool(NextPool)
  /\ pendingPort' = NoPool
  /\ pendingPool' = NoPool
  /\ poolsFailedInRow' = IF poolsFailedInRow + 1 >= NPools THEN 0 ELSE poolsFailedInRow + 1
  /\ rc' = [rc EXCEPT ![t] = "close"]
  /\ reason' = "none"
  /\ UNCHANGED <<portOf, refusedMask, pendingPortPool, portSwitchPending, poolSwitchPending,
                 forceNextPool, connVars, net, dialled, wasConnected, client, clientPool, probe,
                 farmWork, exited, login, refusers>>

\* Close the connection there was, or exit with -dar; then back to the caller.
ReconnectReturn(t) ==
  /\ Running
  /\ rc[t] = "close"
  /\ exited' = IF wasConnected[t] /\ DisableAutoReconnect THEN "dropped" ELSE exited
  /\ sock' = IF wasConnected[t] /\ ~DisableAutoReconnect
             THEN [state |-> "closed", pool |-> IF t = Net THEN NoPool ELSE sock.pool]
             ELSE sock
  /\ rc' = [rc EXCEPT ![t] = "idle"]
  /\ wasConnected' = [wasConnected EXCEPT ![t] = FALSE]
  /\ net' = IF t = Net THEN "connect" ELSE net
  /\ UNCHANGED <<poolVars, requestVars, connected, authorized, calls, leftover, lastActiveHost,
                 lastLine, dialled, reason, clientVars, farmWork, historyVars>>

Reconnect(t) ==
  \/ ReconnectEnter(t)
  \/ ReconnectDecide(t)
  \/ ReconnectSwitch(t)
  \/ ReconnectReturn(t)

-----------------------------------------------------------------------------
(* The network thread: Connect with its Preconnect, then the read loop.    *)

NetAt(where) == Running /\ net = where /\ rc[Net] = "idle"

\* A reply or a feed line that makes the read loop throw ends in Reconnect.
NetThrows == rc' = [rc EXCEPT ![Net] = "want"]

\* Preconnect, under m_portMutex: the failback first, then the port, if it is for the
\* pool that is active now.
NetApply ==
  /\ NetAt("connect")
  /\ IF pendingPool # NoPool
     THEN SetActivePool(pendingPool)
     ELSE UNCHANGED <<activeIdx, sessionPool, retries, backupSince, fails, asked, probeFresh>>
  /\ portOf' = IF PortIsFor(activeIdx') THEN [portOf EXCEPT ![activeIdx'] = pendingPort] ELSE portOf
  /\ pendingPool' = NoPool
  /\ pendingPort' = NoPool
  /\ pendingPortPool' = NoPool
  /\ net' = "clear"
  /\ UNCHANGED <<poolsFailedInRow, refusedMask, portSwitchPending, poolSwitchPending,
                 forceNextPool, connVars, dialled, rc, wasConnected, reason, client, clientPool,
                 probe, farmWork, exited, login, refusers>>

\* The two flags are reset after the lock is released.
NetClear ==
  /\ NetAt("clear")
  /\ portSwitchPending' = FALSE
  /\ poolSwitchPending' = FALSE
  /\ net' = "dial"
  /\ UNCHANGED <<poolVars, pendingPool, pendingPort, pendingPortPool, forceNextPool, connVars,
                 dialled, rc, wasConnected, reason, clientVars, farmWork, exited, historyVars>>

\* Host and port are read from the active pool, which another thread may change from here on.
NetDial ==
  /\ NetAt("dial")
  /\ dialled' = activeIdx
  /\ net' = "connecting"
  /\ UNCHANGED <<poolVars, requestVars, connVars, rc, wasConnected, reason, clientVars, farmWork,
                 exited, historyVars>>

NetDialOk ==
  /\ NetAt("connecting")
  /\ "up" \in May[dialled]
  /\ sock' = [state |-> "open", pool |-> dialled]
  /\ dialled' = NoPool
  /\ connected' = TRUE
  /\ login' = NoPool
  /\ net' = "post"
  /\ UNCHANGED <<poolVars, requestVars, authorized, calls, leftover, lastActiveHost, lastLine,
                 rc, wasConnected, reason, clientVars, farmWork, exited,
                 fails, asked, refusers, probeFresh>>

\* The name does not resolve (the old socket is left alone) or no endpoint answers.
NetDialFails ==
  /\ NetAt("connecting")
  /\ "down" \in May[dialled]
  /\ dialled' = NoPool
  /\ sock' \in {sock, Closed}
  /\ fails' = fails + 1
  /\ NetThrows
  /\ UNCHANGED <<poolVars, requestVars, connected, authorized, calls, leftover, lastActiveHost,
                 lastLine, net, wasConnected, reason, clientVars, farmWork, exited,
                 login, asked, refusers, probeFresh>>

\* The rest of Connect: the socket may have been closed since, else the login is sent.
NetPost ==
  /\ NetAt("post")
  /\ LET usable == connected /\ sock.state # "closed"
     IN  /\ retries' = IF usable \/ (connected /\ lastActiveHost # activeIdx) THEN 0 ELSE retries
         /\ lastActiveHost' = IF connected THEN activeIdx ELSE lastActiveHost
         /\ connected' = usable
         /\ sock' \in IF usable /\ sock.state = "shut" THEN {sock, Closed} ELSE {sock}
         /\ lastLine' = IF usable THEN "recent" ELSE lastLine
         /\ calls' = IF usable THEN {"subscribe", "authorize"} ELSE calls
         /\ login' = IF usable THEN activeIdx ELSE login
         /\ fails' = IF usable THEN 0 ELSE fails
         /\ asked' = IF usable THEN 0 ELSE asked
         /\ net' = IF usable THEN "read" ELSE "connect"
  /\ UNCHANGED <<activeIdx, portOf, sessionPool, poolsFailedInRow, refusedMask, requestVars,
                 authorized, leftover, dialled, rc, wasConnected, reason, clientVars, farmWork,
                 exited, refusers, probeFresh>>

\* The lines pool p may send next when the calls in unanswered have not had their reply: a
\* reply comes once.
MaySend(p, unanswered) ==
  LET replies == (IF "subscribe" \in unanswered THEN {"session"} ELSE {})
                   \cup (IF "authorize" \in unanswered THEN {"accept", "refuse"} ELSE {})
  IN  [pool : {p}, kind : (replies \cup {"work", "other", "garbage"}) \cap May[p]]

\* The next line: the one left in the buffer, even by an earlier connection, comes first.
NextLine(l) ==
  IF leftover # NoLine
  THEN l = leftover
  ELSE sock.pool \in Pools /\ l \in MaySend(sock.pool, calls)

\* What may be queued behind the line l that makes the read loop throw.
Behind(l, unanswered) ==
  {NoLine} \cup (IF Coalesce THEN MaySend(l.pool, unanswered) ELSE {})

\* What every line does before it is looked at.
TakeLine(l) ==
  /\ NetAt("read")
  /\ NextLine(l)
  /\ lastLine' = "recent"

ReadSession(l) ==
  /\ TakeLine(l)
  /\ l.kind = "session"
  /\ "subscribe" \in calls
  /\ calls' = calls \ {"subscribe"}
  /\ sessionPool' = l.pool
  /\ leftover' = NoLine
  /\ UNCHANGED <<activeIdx, portOf, retries, poolsFailedInRow, refusedMask, requestVars, sock,
                 connected, authorized, lastActiveHost, threadVars, clientVars, farmWork,
                 exited, historyVars>>

ReadAccept(l) ==
  /\ TakeLine(l)
  /\ l.kind = "accept"
  /\ "authorize" \in calls
  /\ calls' = calls \ {"authorize"}
  /\ authorized' = TRUE
  /\ refusedMask' = {}
  /\ poolsFailedInRow' = 0
  /\ leftover' = NoLine
  /\ refusers' = {}
  /\ UNCHANGED <<activeIdx, portOf, sessionPool, retries, requestVars, sock, connected,
                 lastActiveHost, threadVars, clientVars, farmWork, exited, login, fails, asked,
                 probeFresh>>

\* RespondAuthorize: go to the next pool, or exit when all of them refused.
ReadRefuse(l) ==
  /\ TakeLine(l)
  /\ l.kind = "refuse"
  /\ "authorize" \in calls
  /\ calls' = calls \ {"authorize"}
  /\ authorized' = FALSE
  /\ refusers' = refusers \cup {l.pool}
  /\ refusedMask' = IF NPools > 1 THEN refusedMask \cup {activeIdx} ELSE refusedMask
  /\ IF NPools < 2 \/ AllRefused(refusedMask')
     THEN /\ connected' = FALSE
          /\ sock' = Closed
          /\ PauseMiners
          /\ exited' = "refused"
          /\ UNCHANGED <<forceNextPool, rc, leftover>>
     ELSE /\ forceNextPool' = TRUE
          /\ NetThrows
          /\ leftover' \in Behind(l, calls')
          /\ UNCHANGED <<connected, sock, farmWork, exited>>
  /\ UNCHANGED <<activeIdx, portOf, sessionPool, retries, poolsFailedInRow, pendingPool,
                 pendingPort, pendingPortPool, portSwitchPending, poolSwitchPending,
                 lastActiveHost, net, dialled, wasConnected, reason, clientVars, login, fails,
                 asked, probeFresh>>

\* mining.notify: some pools do not answer the login, so it also authorizes.
ReadWork(l) ==
  /\ TakeLine(l)
  /\ l.kind = "work"
  /\ authorized' = TRUE
  /\ farmWork' = l.pool
  /\ leftover' = NoLine
  /\ UNCHANGED <<poolVars, requestVars, sock, connected, calls, lastActiveHost, threadVars,
                 clientVars, exited, login, fails, asked, refusers, probeFresh>>

\* A difficulty, the result of a share, a repeated notify.
ReadOther(l) ==
  /\ TakeLine(l)
  /\ l.kind = "other"
  /\ leftover' = NoLine
  /\ UNCHANGED <<poolVars, requestVars, sock, connected, authorized, calls, lastActiveHost,
                 threadVars, clientVars, farmWork, exited, historyVars>>

\* "Invalid Request", or a line that does not parse.
ReadGarbage(l) ==
  /\ TakeLine(l)
  /\ l.kind = "garbage"
  /\ NetThrows
  /\ leftover' \in Behind(l, calls)
  /\ UNCHANGED <<poolVars, requestVars, sock, connected, authorized, calls, lastActiveHost,
                 net, dialled, wasConnected, reason, clientVars, farmWork, exited, historyVars>>

\* The socket is shut or closed and the buffer holds no complete line; half a line stays
\* in the buffer and spoils the first line of the next connection.
NetReadError ==
  /\ NetAt("read")
  /\ sock.state # "open"
  /\ NetThrows
  /\ leftover' \in {leftover} \cup IF Coalesce /\ leftover = NoLine /\ sock.pool \in Pools
                                   THEN {[pool |-> sock.pool, kind |-> "garbage"]}
                                   ELSE {}
  /\ UNCHANGED <<poolVars, requestVars, sock, connected, authorized, calls, lastActiveHost,
                 lastLine, net, dialled, wasConnected, reason, clientVars, farmWork, exited,
                 historyVars>>

NetConnect == NetApply \/ NetClear \/ NetDial \/ NetDialOk \/ NetDialFails \/ NetPost

NetRead ==
  \E l \in Line :
    ReadSession(l) \/ ReadAccept(l) \/ ReadRefuse(l) \/ ReadWork(l) \/ ReadOther(l)
      \/ ReadGarbage(l)

-----------------------------------------------------------------------------
(* The miner client thread, once a second. Each request ends by shutting   *)
(* the socket down, to break the read the network thread is blocked in.    *)

ClientAt(where) == Running /\ client = where

\* IsWorkTimedOut, and the test that no reconnect is due already.
WorkTimeout ==
  /\ ClientAt("idle")
  /\ connected
  /\ lastLine = "old"
  /\ ~(forceNextPool \/ portSwitchPending \/ poolSwitchPending)
  /\ client' = "timeout"
  /\ UNCHANGED <<poolVars, requestVars, connVars, threadVars, clientPool, probe, backupSince,
                 farmWork, exited, login, fails, asked, refusers, probeFresh>>

WorkTimeoutForce ==
  /\ ClientAt("timeout")
  /\ forceNextPool' = (forceNextPool \/ NPools > 1)
  /\ client' = "shutdown"
  /\ UNCHANGED <<poolVars, pendingPool, pendingPort, pendingPortPool, portSwitchPending,
                 poolSwitchPending, connVars, threadVars, clientPool, probe, backupSince,
                 farmWork, exited, historyVars>>

\* Only an open socket can be shut down; on any other the call fails and is ignored.
ClientShutdown ==
  /\ ClientAt("shutdown")
  /\ sock' = IF sock.state = "open" THEN [sock EXCEPT !.state = "shut"] ELSE sock
  /\ client' = "idle"
  /\ UNCHANGED <<poolVars, requestVars, connected, authorized, calls, leftover, lastActiveHost,
                 lastLine, threadVars, clientPool, probe, backupSince, farmWork, exited,
                 historyVars>>

\* MUTANT: only the first backup pool goes back.
OnBackup_OnlyFirst ==
  NPools > 1 /\ Failback /\ activeIdx = 1 /\ connected /\ authorized /\ ~poolSwitchPending

\* CheckFailback has something to do.
OnBackup ==
  NPools > 1 /\ Failback /\ activeIdx # 0 /\ connected /\ authorized /\ ~poolSwitchPending

FailbackTimer ==
  /\ ClientAt("idle")
  /\ IF OnBackup THEN ~backupSince ELSE backupSince
  /\ backupSince' = OnBackup
  /\ UNCHANGED <<poolVars, requestVars, connVars, threadVars, client, clientPool, probe,
                 farmWork, exited, historyVars>>

\* No probe is running and none succeeded; when the interval is over a new one starts.
FailbackCheck ==
  /\ ClientAt("idle")
  /\ OnBackup /\ backupSince
  /\ \/ /\ probe \in {"idle", "unreachable"}
        /\ probe' = "running"
        /\ probeFresh' = TRUE
     \/ /\ probe = "unreachable"
        /\ probe' = "idle"
        /\ UNCHANGED probeFresh
  /\ UNCHANGED <<poolVars, requestVars, connVars, threadVars, client, clientPool, backupSince,
                 farmWork, exited, login, fails, asked, refusers>>

FailbackFound ==
  /\ ClientAt("idle")
  /\ OnBackup /\ backupSince
  /\ probe = "reachable"
  /\ probe' = "idle"
  /\ client' = "failback"
  /\ UNCHANGED <<poolVars, requestVars, connVars, threadVars, clientPool, backupSince,
                 farmWork, exited, historyVars>>

\* MUTANT: the client thread switches the pool itself.
FailbackRequest_Direct ==
  /\ ClientAt("failback")
  /\ SetActivePool(0)
  /\ client' = "failbackFlag"
  /\ UNCHANGED <<portOf, poolsFailedInRow, refusedMask, requestVars, connVars, threadVars,
                 clientPool, probe, farmWork, exited, login, refusers>>

\* The main pool answered the probe: the network thread is to go back to it.
FailbackRequest ==
  /\ ClientAt("failback")
  /\ pendingPool' = 0
  /\ client' = "failbackFlag"
  /\ UNCHANGED <<poolVars, pendingPort, pendingPortPool, portSwitchPending, poolSwitchPending,
                 forceNextPool, connVars, threadVars, clientPool, probe, backupSince,
                 farmWork, exited, historyVars>>

FailbackFlag ==
  /\ ClientAt("failbackFlag")
  /\ poolSwitchPending' = TRUE
  /\ client' = "shutdown"
  /\ UNCHANGED <<poolVars, pendingPool, pendingPort, pendingPortPool, portSwitchPending,
                 forceNextPool, connVars, threadVars, clientPool, probe, backupSince,
                 farmWork, exited, historyVars>>

\* HandleAutoPort found another port for the pool that is active now.
PortDecision ==
  /\ ClientAt("idle")
  /\ connected /\ authorized
  /\ activeIdx \in AutoPools
  /\ client' = "port"
  /\ clientPool' = activeIdx
  /\ UNCHANGED <<poolVars, requestVars, connVars, threadVars, probe, backupSince, farmWork,
                 exited, historyVars>>

PortRequest ==
  /\ ClientAt("port")
  /\ pendingPort' = clientPool
  /\ pendingPortPool' = activeIdx
  /\ client' = "portFlag"
  /\ clientPool' = NoPool
  /\ UNCHANGED <<poolVars, pendingPool, portSwitchPending, poolSwitchPending, forceNextPool,
                 connVars, threadVars, probe, backupSince, farmWork, exited, historyVars>>

PortFlag ==
  /\ ClientAt("portFlag")
  /\ portSwitchPending' = TRUE
  /\ client' = "shutdown"
  /\ UNCHANGED <<poolVars, pendingPool, pendingPort, pendingPortPool, poolSwitchPending,
                 forceNextPool, connVars, threadVars, clientPool, probe, backupSince,
                 farmWork, exited, historyVars>>

ClientStep ==
  \/ ClientShutdown
  \/ WorkTimeout \/ WorkTimeoutForce
  \/ FailbackTimer \/ FailbackCheck \/ FailbackFound \/ FailbackRequest \/ FailbackFlag
  \/ PortDecision \/ PortRequest \/ PortFlag

-----------------------------------------------------------------------------
(* The probe thread, the miner and submit threads, the pools and the clock. *)

ProbeAnswers ==
  /\ Running
  /\ probe = "running"
  /\ \/ "up" \in May[0] /\ probe' = "reachable"
     \/ "down" \in May[0] /\ probe' = "unreachable"
  /\ UNCHANGED <<poolVars, requestVars, connVars, threadVars, client, clientPool, backupSince,
                 farmWork, exited, historyVars>>

\* A miner that has had the same work for five minutes asks for a reconnect.
MinerStalls(m) ==
  /\ Running
  /\ rc[m] = "idle"
  /\ farmWork # NoPool
  /\ rc' = [rc EXCEPT ![m] = "want"]
  /\ UNCHANGED <<poolVars, requestVars, connVars, net, dialled, wasConnected, reason, clientVars,
                 farmWork, exited, historyVars>>

\* A thread submitting a share fails to write and closes the socket.
WriteFails ==
  /\ Running
  /\ connected
  /\ sock.state = "shut"
  /\ sock' = Closed
  /\ UNCHANGED <<poolVars, requestVars, connected, authorized, calls, leftover, lastActiveHost,
                 lastLine, threadVars, clientVars, farmWork, exited, historyVars>>

PoolDrops ==
  /\ Running
  /\ sock.state = "open"
  /\ "drop" \in May[sock.pool]
  /\ sock' = [sock EXCEPT !.state = "shut"]
  /\ UNCHANGED <<poolVars, requestVars, connected, authorized, calls, leftover, lastActiveHost,
                 lastLine, threadVars, clientVars, farmWork, exited, historyVars>>

\* -worktimeout passes without a line: on a silent pool, or in a long outage. Less than that
\* passes between the lines of a pool that goes on talking.
TimePasses ==
  /\ Running
  /\ LET reading == net = "read" /\ rc[Net] = "idle" /\ sock.pool \in Pools
     IN  \/ /\ lastLine \in {"recent", "aging"}
            /\ IF reading THEN "silence" \in May[sock.pool] ELSE LongOutage
            /\ lastLine' = "old"
         \/ /\ lastLine = "recent"
            /\ reading /\ "other" \in May[sock.pool]
            /\ lastLine' = "aging"
  /\ UNCHANGED <<poolVars, requestVars, sock, connected, authorized, calls, leftover,
                 lastActiveHost, threadVars, clientVars, farmWork, exited, historyVars>>

\* After exit() nothing happens any more.
Exited == ~Running /\ UNCHANGED vars

Next ==
  \/ \E t \in Threads : Reconnect(t)
  \/ NetConnect
  \/ NetRead
  \/ NetReadError
  \/ ClientStep
  \/ ProbeAnswers
  \/ \E m \in Miners : MinerStalls(m)
  \/ WriteFails
  \/ PoolDrops
  \/ TimePasses
  \/ Exited

Spec == Init /\ [][Next]_vars
-----------------------------------------------------------------------------
(* Fairness. The network thread never stops by itself, the client thread   *)
(* loops once a second, the probe has a deadline of 15 s, a thread in      *)
(* Reconnect goes on, and time passes. A pool that may answer a login or   *)
(* send work does so if it is connected to again and again (strong         *)
(* fairness: it may drop the connection first, but not for ever), and a    *)
(* main pool that may be reached does answer if it is probed again and     *)
(* again; a pool that sends other lines goes on sending them. Nothing      *)
(* makes a pool drop, a miner stall or a port change.                      *)

NetProgress == NetConnect \/ NetReadError \/ Reconnect(Net)
PoolAnswers == \E l \in Line : ReadAccept(l) \/ ReadRefuse(l)
PoolSendsWork == \E l \in Line : ReadWork(l)
MainReachable == ProbeAnswers /\ probe' = "reachable"
PoolTalks == \E l \in Line : ReadOther(l)
FailbackStep == FailbackTimer \/ FailbackCheck \/ FailbackFound \/ FailbackRequest \/ FailbackFlag
TimeoutStep == WorkTimeout \/ WorkTimeoutForce

FairSpec ==
  /\ Spec
  /\ WF_vars(NetProgress)
  /\ \A m \in Miners : WF_vars(Reconnect(m))
  /\ SF_vars(PoolAnswers)
  /\ SF_vars(PoolSendsWork)
  /\ WF_vars(PoolTalks)
  /\ WF_vars(FailbackStep)
  /\ WF_vars(TimeoutStep)
  /\ WF_vars(ClientShutdown)
  /\ WF_vars(PortRequest \/ PortFlag)
  /\ WF_vars(ProbeAnswers)
  /\ SF_vars(MainReachable)
  /\ WF_vars(TimePasses)

-----------------------------------------------------------------------------
(* Properties.                                                             *)

\* While a connection is in use it is to the active pool and carries that pool's account.
ConnectionMatchesPool ==
  connected => sock.pool = activeIdx /\ login \in {NoPool, activeIdx}

\* The session id offered in the next subscribe was given by the pool of the connection
\* ("a stratum session id is only valid on the pool that gave it", StratumClient.cpp:118).
SessionStaysWithItsPool == connected => sessionPool \in {NoPool, sock.pool}

\* With backup pools the miner "only stops when every pool refused the login" (README.md:94).
StopsOnlyWhenAllRefused ==
  /\ exited = "refused" => refusers = Pools
  /\ exited = "retries" => NPools = 1

\* The step of Reconnect that calls the pool not reachable, or ends the process over it.
NotReachable ==
  \/ reason # "not reachable" /\ reason' = "not reachable"
  \/ Running /\ exited' = "retries"

\* A pool is called not reachable, and the process exits for it when it is the only one, only
\* after as many retries as the option -r asks for, each one a failed attempt to connect or a
\* reconnect that a miner thread asked for, since there was a connection or the pool was taken.
GivesUpAfterRetries == [][NotReachable => fails' + asked' >= MaxRetries - 1]_vars

\* The same for failed attempts alone (README.md:92, "not reachable after -r retries").
FailsBeforeGivingUp == [][NotReachable => fails' >= MaxRetries - 1]_vars

\* Outside Reconnect there is always an attempt left on the active pool, the round of failed
\* pools is not over, and some pool has not refused: no counter is left at its limit where
\* the next drop would skip a pool or the process.
AttemptLeft ==
  (Running /\ \A t \in Threads : rc[t] \in {"idle", "want"}) =>
    /\ retries < MaxRetries
    /\ poolsFailedInRow < NPools
    /\ NPools > 1 => refusedMask # Pools

\* The work timeout forces the next pool only while the network thread waits for a line on a
\* connection: in a reconnect under way ("already reconnecting", StratumClient.cpp:158) the flag
\* would skip a pool.
ForcesOnlyWhileReading ==
  [][WorkTimeoutForce => connected /\ net = "read" /\ rc[Net] = "idle"]_vars

\* A port chosen for one pool is never applied to another ("never apply it to another pool").
PortsStayWithTheirPool == \A p \in Pools : portOf[p] \in {NoPool, p}

PortsKept == PortsStayWithTheirPool /\ pendingPort \in {NoPool, pendingPortPool}

\* Only one step leads there: RequestPortSwitch reads the active pool when the hashrate was
\* measured for an earlier one (StratumClient.cpp:261).
PortsCrossOnlyByRequest ==
  [][PortsKept /\ ~PortsKept' => PortRequest /\ clientPool # activeIdx]_vars

\* The failback goes by a probe started in the present stay on the backup pools, that is after
\* the -failback minutes were over.
FailbackIsFresh == [][FailbackFound => probeFresh]_vars

\* A request that makes ReportWorkTimeout return ("already reconnecting") is one the network
\* thread is about to see: it never reads on, on an open connection, with the request pending
\* and nobody left to break the read.
PendingMeansReconnecting ==
  (forceNextPool \/ portSwitchPending \/ poolSwitchPending) =>
    ~(net = "read" /\ rc[Net] = "idle" /\ sock.state = "open" /\ client = "idle"
        /\ connected)

\* The miners hash a job of the pool they are connected to ("prevent cross-over share
\* submissions").
MinesForConnectedPool ==
  (connected /\ farmWork # NoPool) => farmWork = sock.pool

\* With the network thread alone in Reconnect, and nothing left behind in the buffer, the
\* connection manager keeps what the list of pools promises (README.md:88). What the main pool
\* answered is made use of by the next Preconnect, unless the pool is given up first.
MainAnswered == probe = "reachable" \/ client = "failback" \/ pendingPool # NoPool

PoolList == INSTANCE Failover
  WITH active <- activeIdx, job <- farmWork, refused <- refusers, answered <- MainAnswered,
       ended <- exited, EndsWhenDropped <- DisableAutoReconnect

ImplementsFailover == PoolList!Spec

MinerInside == \E m \in Miners : rc[m] \in {"inside", "switch", "close"}

\* Everything the connection manager keeps about a pool is about the active one: the pool that
\* is dialled, the connection in use, the account sent on it, the session id; the mask says who
\* refused; and the miners are paused while one of them reconnects.
InStep ==
  /\ dialled \in {NoPool, activeIdx}
  /\ net \in {"post", "read"} /\ rc[Net] \in {"idle", "want"} => sock.pool = activeIdx
  /\ login \in {NoPool, activeIdx}
  /\ sessionPool \in {NoPool, activeIdx}
  /\ NPools > 1 => refusedMask = refusers
  /\ MinerInside => farmWork = NoPool

\* Only two things end that: a miner thread in Reconnect, when it switches the pool under the
\* network thread or the network thread takes a job meanwhile, and a line of another pool that
\* was left in the buffer. The client thread, the probe, the failback, the port, the drops and
\* the network thread's own reconnects never do.
OnlyMinersCrossPools ==
  [][InStep /\ ~InStep' =>
       \/ \E m \in Miners : ReconnectSwitch(m)
       \/ MinerInside /\ \E l \in Line : ReadWork(l)
       \/ leftover # NoLine /\ leftover.pool # activeIdx]_vars

\* And as long as it is so, the connection manager keeps what the list of pools promises, with
\* any number of miner threads that reconnect.
KeepsTheListInStep ==
  [][InStep /\ leftover = NoLine =>
       PoolList!Next \/ UNCHANGED <<activeIdx, farmWork, refusers, MainAnswered, exited>>]_vars

\* A pool that is never reachable, refuses every login or never sends work does not stay the
\* active one (README.md:92: "goes to the next pool when the current one is not reachable
\* after -r retries, refuses the login, or sends no new work").
LeavesUselessPool ==
  \A p \in Pools : "work" \notin May[p] => ((activeIdx = p) ~> (activeIdx # p))

\* When some pool works whenever it is connected to, and every pool that accepts the login works
\* unless it drops the connection, the miners get work again and again: the round over the
\* pools, with the failback in between, reaches one that works.
WorksAlways(p) ==
  /\ {"up", "accept", "work"} \subseteq May[p]
  /\ {"down", "drop", "silence", "refuse", "garbage"} \cap May[p] = {}

MiningResumes ==
  (/\ \E p \in Pools : WorksAlways(p)
   /\ \A q \in Pools : "accept" \in May[q] => "work" \in May[q])
  => []<>(farmWork # NoPool)

\* "While on a backup pool it checks every -failback minutes if the main pool is reachable
\* again and goes back to it" (README.md:95), for a main pool that, probed again and again, is.
ReturnsToMain == (activeIdx # 0) ~> (activeIdx = 0)
=============================================================================
