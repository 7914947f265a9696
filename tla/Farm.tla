-------------------------------- MODULE Farm --------------------------------
(***************************************************************************)
(* The lives of the threads (corelib/Worker.cpp), the event a miner waits  *)
(* for (corelib/utils.cpp) and the farm that makes, wakes, pauses and      *)
(* kills the miners (MinersLib/Farm.cpp), between the network thread, which*)
(* starts the miners when it connects, and the client thread, which buries *)
(* them when all have died and starts the network thread again.            *)
(*                                                                         *)
(* Not here: pools and retries (StratumClient), what a miner does with its *)
(* work (CpuMiner, CudaMiner), the restart from a configuration file, which*)
(* nothing asks for.                                                       *)
(***************************************************************************)
EXTENDS Naturals

CONSTANTS
  Devices,   \* GpuManager::Gpus, as far as they are enabled at the start
  Fragile,   \* the devices that may fail
  Jobs,      \* the lines mining.notify of the pools
  NoJob,
  Repeats    \* may a pool send its last line again on another connection?

Net == "network"
Client == "client"
Nobody == "nobody"

Workers == Devices \cup {Net}

ASSUME ConstantsAssumption ==
  /\ Fragile \subseteq Devices
  /\ NoJob \notin Jobs
  /\ Repeats \in BOOLEAN
  /\ Devices \cap {Net, Client, Nobody} = {}

VARIABLES
  state,       \* state[w]: m_state of a worker
  at,          \* at[w]: where its thread is
  running,     \* StratumClient: m_running
  connected,   \* m_connected
  authorized,  \* m_authorized
  link,        \* m_socket: open or closed
  line,        \* the line that waits in it
  lastNotify,  \* m_lastReceivedMiningNotify
  toDo,        \* the miners the network thread has not reached in its loop
  client,      \* where the client thread is
  toKill,      \* the miners it has not killed
  lock,        \* the holder of the farm's m_minerWorkMutex
  mining,      \* m_isMining
  miners,      \* m_miners
  enabled,     \* the devices that are enabled
  done,        \* done[d]: m_isDone of the miner's m_workReadyEvent
  template,    \* template[d]: m_workTemplate of the miner
  exited       \* has the program ended, and why?

netVars == <<running, connected, authorized, link, line, lastNotify, toDo>>
clientVars == <<client, toKill>>
farmVars == <<lock, mining, miners, enabled>>
minerVars == <<done, template>>
vars == <<state, at, netVars, clientVars, farmVars, minerVars, exited>>

States == {"Starting", "Started", "Stopping", "Stopped", "Killing"}
NetPlaces == {"loop", "redial", "dial", "failed", "start", "starting", "login", "read", "setwork",
              "dropped"}
ClientPlaces == {"start", "starting", "progress", "kill", "join", "look", "watch", "pause",
                 "disconnect", "close", "stop", "stopping"}
MinerPlaces == {"test", "block", "asleep", "work", "stall"}

\* "none": no thread; "parked": outside of WorkLoop; "leave": WorkLoop is over; "gone": ended.
ThreadPlaces == {"none", "parked", "leave", "gone"}

ThreadsTypeOK ==
  /\ state \in [Workers -> States]
  /\ at \in [Workers -> NetPlaces \cup MinerPlaces \cup ThreadPlaces]
  /\ at[Net] \notin MinerPlaces
  /\ \A d \in Devices : at[d] \notin NetPlaces

DataTypeOK ==
  /\ running \in BOOLEAN /\ connected \in BOOLEAN /\ authorized \in BOOLEAN
  /\ link \in {"open", "closed"}
  /\ line \in Jobs \cup {NoJob}
  /\ lastNotify \in Jobs \cup {NoJob}
  /\ toDo \subseteq Devices
  /\ client \in ClientPlaces
  /\ toKill \subseteq miners
  /\ lock \in {Nobody, Client, Net}
  /\ mining \in BOOLEAN
  /\ miners \subseteq Devices
  /\ enabled \subseteq Devices
  /\ done \in [Devices -> BOOLEAN]
  /\ template \in [Devices -> Jobs \cup {NoJob}]
  /\ exited \in {"no", "no device", "crash"}

\* Every variable has its type; the miners to kill are miners of the farm.
TypeOK == ThreadsTypeOK /\ DataTypeOK

Init ==
  /\ state = [w \in Workers |-> "Starting"]
  /\ at = [w \in Workers |-> "none"]
  /\ running = TRUE
  /\ connected = FALSE
  /\ authorized = FALSE
  /\ link = "closed"
  /\ line = NoJob
  /\ lastNotify = NoJob
  /\ toDo = {}
  /\ client = "start"
  /\ toKill = {}
  /\ lock = Nobody
  /\ mining = FALSE
  /\ miners = {}
  /\ enabled = Devices
  /\ done = [d \in Devices |-> FALSE]
  /\ template = [d \in Devices |-> NoJob]
  /\ exited = "no"

Running == exited = "no"

\* Worker w's thread goes from one place to another.
Goes(w, place) == at' = [at EXCEPT ![w] = place]

-----------------------------------------------------------------------------
(* Worker.                                                                 *)

\* The thread enters WorkLoop, at its first statement.
WorkLoopBegins(w) ==
  /\ at[w] = "parked"
  /\ state[w] \notin {"Stopped", "Killing"}
  /\ state' = [state EXCEPT ![w] = IF @ = "Starting" THEN "Started" ELSE @]
  /\ Goes(w, IF w = Net THEN "loop" ELSE "test")
  /\ UNCHANGED <<netVars, clientVars, farmVars, minerVars, exited>>

\* WorkLoop is over: the thread has stopped, unless it was asked to start or to end meanwhile.
WorkLoopEnds(w) ==
  /\ at[w] = "leave"
  /\ state' = [state EXCEPT ![w] = IF @ \in {"Starting", "Killing"} THEN @ ELSE "Stopped"]
  /\ Goes(w, "parked")
  /\ UNCHANGED <<netVars, clientVars, farmVars, minerVars, exited>>

ThreadEnds(w) ==
  /\ at[w] = "parked"
  /\ state[w] = "Killing"
  /\ Goes(w, "gone")
  /\ UNCHANGED <<state, netVars, clientVars, farmVars, minerVars, exited>>

WorkerStep(w) == WorkLoopBegins(w) \/ WorkLoopEnds(w) \/ ThreadEnds(w)

-----------------------------------------------------------------------------
(* The event of a miner: waiting is a test and, later, falling asleep; setting and resetting   *)
(* it wake who sleeps, and do not take the mutex that makes the two one.                       *)

\* MUTANT: nobody is notified.
Notified_Nobody(ds, places) == places

\* Places of the threads, after the events of the miners in ds were set or reset.
Notified(ds, places) ==
  [w \in Workers |-> IF w \in ds /\ places[w] = "asleep" THEN "test" ELSE places[w]]

\* Farm::Pause, if the farm is mining, by a thread that takes the others to be at places.
FarmPause(places) ==
  IF mining
  THEN /\ lock = Nobody
       /\ done' = [d \in Devices |-> done[d] /\ d \notin miners]
       /\ at' = Notified(miners, places)
  ELSE done' = done /\ at' = places

-----------------------------------------------------------------------------
(* The miner client thread.                                                *)

\* MUTANT: a client that is started again goes on with m_running as it was.
RunsAgain_Not == running

\* StratumClient::StartWorking lets the network thread run again.
RunsAgain == TRUE

\* StartWorking: the first time the thread is made, later it is let out of its sleep.
ClientStarts ==
  /\ client = "start"
  /\ client' = "starting"
  /\ IF at[Net] = "none"
     THEN Goes(Net, "parked") /\ UNCHANGED <<state, running>>
     ELSE /\ state' = [state EXCEPT ![Net] = IF @ = "Stopped" THEN "Starting" ELSE @]
          /\ running' = IF state[Net] = "Stopped" THEN RunsAgain ELSE running
          /\ UNCHANGED at
  /\ UNCHANGED <<connected, authorized, link, line, lastNotify, toDo, toKill, farmVars,
                 minerVars, exited>>

ClientStarted ==
  /\ client = "starting"
  /\ state[Net] # "Starting"
  /\ client' = "progress"
  /\ UNCHANGED <<state, at, netVars, toKill, farmVars, minerVars, exited>>

\* MUTANT: one dead miner is enough.
AllDead_One == \E d \in miners : state[d] = "Stopped"

AllDead == miners # {} /\ \A d \in miners : state[d] = "Stopped"

\* MUTANT: the devices' miners are killed, whether they were made or not.
ToKill_Devices == Devices

ToKill == miners

\* The client's loop with miningProgress: when all miners have died the farm stops.
MiningProgress ==
  /\ client = "progress"
  /\ lock = Nobody
  /\ IF running /\ AllDead /\ mining
     THEN lock' = Client /\ toKill' = ToKill /\ client' = "kill"
     ELSE client' = (IF running THEN "look" ELSE "start") /\ UNCHANGED <<lock, toKill>>
  /\ UNCHANGED <<state, at, netVars, mining, miners, enabled, minerVars, exited>>

\* Miner::Kill: the event is set, so that the thread is not asleep, and the thread is joined ...
KillBegins(d) ==
  /\ client = "kill"
  /\ d \in toKill
  /\ done' = [done EXCEPT ![d] = TRUE]
  /\ at' = Notified({d}, at)
  /\ state' = [state EXCEPT ![d] = "Killing"]
  /\ client' = "join"
  /\ UNCHANGED <<netVars, toKill, farmVars, template, exited>>

\* ... which takes until it has ended.
KillEnds(d) ==
  /\ client = "join"
  /\ d \in toKill
  /\ at[d] = "gone"
  /\ toKill' = toKill \ {d}
  /\ client' = "kill"
  /\ UNCHANGED <<state, at, netVars, farmVars, minerVars, exited>>

\* internalStop: no miners are left.
FarmStopped ==
  /\ client = "kill"
  /\ toKill = {}
  /\ miners' = {}
  /\ at' = [w \in Workers |-> IF w \in miners THEN "none" ELSE at[w]]
  /\ mining' = FALSE
  /\ lock' = Nobody
  /\ client' = "look"
  /\ UNCHANGED <<state, netVars, toKill, enabled, minerVars, exited>>

\* The client does not look further before there is work, or while a miner initializes.
ClientLooks ==
  /\ client = "look"
  /\ \/ connected /\ authorized /\ lastNotify # NoJob /\ client' = "watch"
     \/ /\ ~connected \/ ~authorized \/ lastNotify = NoJob \/ \E d \in miners : at[d] = "work"
        /\ client' = "progress"
  /\ UNCHANGED <<state, at, netVars, toKill, farmVars, minerVars, exited>>

ClientWatches ==
  /\ client = "watch"
  /\ client' = IF mining THEN "progress" ELSE "pause"
  /\ UNCHANGED <<state, at, netVars, toKill, farmVars, minerVars, exited>>

\* Disconnect: StopFarming, the flags, the socket; the network thread goes on meanwhile.
ClientPauses ==
  /\ client = "pause"
  /\ FarmPause(at)
  /\ client' = "disconnect"
  /\ UNCHANGED <<state, netVars, toKill, farmVars, template, exited>>

Disconnects ==
  /\ client = "disconnect"
  /\ connected' = FALSE
  /\ running' = FALSE
  /\ client' = "close"
  /\ UNCHANGED <<state, at, authorized, link, line, lastNotify, toDo, toKill, farmVars,
                 minerVars, exited>>

ClosesSocket ==
  /\ client = "close"
  /\ link' = "closed"
  /\ line' = NoJob
  /\ client' = "stop"
  /\ UNCHANGED <<state, at, running, connected, authorized, lastNotify, toDo, toKill, farmVars,
                 minerVars, exited>>

\* Worker::StopWorking of the network thread: asked once, then waited for.
StopBegins ==
  /\ client = "stop"
  /\ state' = [state EXCEPT ![Net] = IF @ = "Started" THEN "Stopping" ELSE @]
  /\ client' = "stopping"
  /\ UNCHANGED <<at, netVars, toKill, farmVars, minerVars, exited>>

StopEnds ==
  /\ client = "stopping"
  /\ state[Net] = "Stopped"
  /\ client' = "start"
  /\ UNCHANGED <<state, at, netVars, toKill, farmVars, minerVars, exited>>

ClientStep ==
  \/ ClientStarts \/ ClientStarted
  \/ MiningProgress \/ FarmStopped
  \/ \E d \in Devices : KillBegins(d) \/ KillEnds(d)
  \/ ClientLooks \/ ClientWatches
  \/ ClientPauses \/ Disconnects \/ ClosesSocket \/ StopBegins \/ StopEnds

-----------------------------------------------------------------------------
(* The network thread: its loop, ...                                       *)

NetLoops ==
  /\ at[Net] = "loop"
  /\ Goes(Net, IF running THEN "redial" ELSE "leave")
  /\ UNCHANGED <<state, netVars, clientVars, farmVars, minerVars, exited>>

NetRedials ==
  /\ at[Net] = "redial"
  /\ Goes(Net, IF connected THEN "read" ELSE "dial")
  /\ UNCHANGED <<state, netVars, clientVars, farmVars, minerVars, exited>>

\* Preconnect: the new connection, and the farm is started if it is not mining.
DialOk ==
  /\ at[Net] = "dial"
  /\ link' = "open"
  /\ line' = NoJob
  /\ connected' = TRUE
  /\ Goes(Net, IF mining THEN "login" ELSE "start")
  /\ UNCHANGED <<state, running, authorized, lastNotify, toDo, clientVars, farmVars, minerVars,
                 exited>>

DialFails ==
  /\ at[Net] = "dial"
  /\ link' = "closed"
  /\ line' = NoJob
  /\ Goes(Net, "failed")
  /\ UNCHANGED <<state, running, connected, authorized, lastNotify, toDo, clientVars, farmVars,
                 minerVars, exited>>

\* What Reconnect does with the socket: a thread that is stopping leaves it.
DropsLink ==
  IF connected /\ state[Net] \notin {"Stopping", "Stopped"}
  THEN link' = "closed" /\ line' = NoJob
  ELSE UNCHANGED <<link, line>>

\* Reconnect by the network thread: where it dials again, or looks whether it may run.
NetReconnects ==
  /\ at[Net] \in {"failed", "dropped"}
  /\ FarmPause([at EXCEPT ![Net] = IF @ = "failed" THEN "redial" ELSE "loop"])
  /\ authorized' = FALSE
  /\ connected' = FALSE
  /\ DropsLink
  /\ UNCHANGED <<state, running, lastNotify, toDo, clientVars, farmVars, template, exited>>

\* ... Farm::start: the mutex is held until every miner's thread has started, ...
StartFarm ==
  /\ at[Net] = "start"
  /\ lock = Nobody
  /\ IF mining \/ miners # {}
     THEN Goes(Net, "login") /\ UNCHANGED <<lock, toDo, exited>>
     ELSE IF enabled = {}
     THEN exited' = "no device" /\ UNCHANGED <<at, lock, toDo>>
     ELSE lock' = Net /\ toDo' = enabled /\ Goes(Net, "starting") /\ UNCHANGED exited
  /\ UNCHANGED <<state, running, connected, authorized, link, line, lastNotify, clientVars,
                 mining, miners, enabled, minerVars>>

AllStarted == \A d \in miners : state[d] # "Starting"

\* A new miner, with an event that is not set and no work.
StartMiner(d) ==
  /\ at[Net] = "starting"
  /\ d \in toDo
  /\ AllStarted
  /\ toDo' = toDo \ {d}
  /\ miners' = miners \cup {d}
  /\ state' = [state EXCEPT ![d] = "Starting"]
  /\ Goes(d, "parked")
  /\ done' = [done EXCEPT ![d] = FALSE]
  /\ template' = [template EXCEPT ![d] = NoJob]
  /\ UNCHANGED <<running, connected, authorized, link, line, lastNotify, clientVars, lock,
                 mining, enabled, exited>>

FarmStarted ==
  /\ at[Net] = "starting"
  /\ toDo = {}
  /\ AllStarted
  /\ mining' = TRUE
  /\ lock' = Nobody
  /\ Goes(Net, "login")
  /\ UNCHANGED <<state, netVars, clientVars, miners, enabled, minerVars, exited>>

\* The jobs a pool may send: the one it sent last only if it may repeat itself.
MaySend(repeats) == {j \in Jobs : repeats \/ j # lastNotify}

\* ... OnPostConnect: the pool answers the login with its work, ...
Login ==
  /\ at[Net] = "login"
  /\ link = "open" /\ connected
  /\ line' \in MaySend(Repeats)
  /\ Goes(Net, "redial")
  /\ UNCHANGED <<state, running, connected, authorized, link, lastNotify, toDo, clientVars,
                 farmVars, minerVars, exited>>

\* ... unless the connection is lost again: a socket that was closed here is noticed at once, one
\* that the pool closed when the login is written.
LoginFails ==
  /\ at[Net] = "login"
  /\ link = "closed" \/ ~connected
  /\ \/ connected' = FALSE /\ Goes(Net, "redial")
     \/ connected /\ UNCHANGED connected /\ Goes(Net, "failed")
  /\ UNCHANGED <<state, running, authorized, link, line, lastNotify, toDo, clientVars, farmVars,
                 minerVars, exited>>

\* MUTANT: miners that have work are not given the new one.
WorkFor_New == {d \in miners : template[d] = NoJob}

\* Farm::SetWork gives the work to every miner.
WorkFor == miners

\* ... and the lines: one that is the last mining.notify again is ignored.
ReadLine ==
  /\ at[Net] = "read"
  /\ link = "open"
  /\ line # NoJob
  /\ authorized' = TRUE
  /\ line' = NoJob
  /\ IF line = lastNotify
     THEN UNCHANGED <<at, lastNotify, toDo>>
     ELSE lastNotify' = line /\ toDo' = WorkFor /\ Goes(Net, "setwork")
  /\ UNCHANGED <<state, running, connected, link, clientVars, farmVars, minerVars, exited>>

SetWorkOf(d) ==
  /\ at[Net] = "setwork"
  /\ d \in toDo \cap miners
  /\ template' = [template EXCEPT ![d] = lastNotify]
  /\ done' = [done EXCEPT ![d] = TRUE]
  /\ at' = Notified({d}, at)
  /\ toDo' = toDo \ {d}
  /\ UNCHANGED <<state, running, connected, authorized, link, line, lastNotify, clientVars,
                 farmVars, exited>>

\* The loop over the miners has another mutex than their burial: it goes on in what is left of
\* them, and ends or crashes.
SetWorkRaces ==
  /\ at[Net] = "setwork"
  /\ toDo # {}
  /\ toDo \cap miners = {}
  /\ toDo' = {}
  /\ exited' \in {"no", "crash"}
  /\ UNCHANGED <<state, at, running, connected, authorized, link, line, lastNotify, clientVars,
                 farmVars, minerVars>>

SetWorkDone ==
  /\ at[Net] = "setwork"
  /\ toDo = {}
  /\ Goes(Net, "read")
  /\ UNCHANGED <<state, netVars, clientVars, farmVars, minerVars, exited>>

ReadThrows ==
  /\ at[Net] = "read"
  /\ link = "closed"
  /\ Goes(Net, "dropped")
  /\ UNCHANGED <<state, netVars, clientVars, farmVars, minerVars, exited>>

\* Only an empty line lets the thread see that it is asked to stop.
ReadEmpty ==
  /\ at[Net] = "read"
  /\ link = "open"
  /\ line = NoJob
  /\ Goes(Net, IF state[Net] = "Started" THEN "loop" ELSE "leave")
  /\ UNCHANGED <<state, netVars, clientVars, farmVars, minerVars, exited>>

NetStep ==
  \/ NetLoops \/ NetRedials \/ DialOk \/ DialFails \/ NetReconnects
  \/ StartFarm \/ (\E d \in Devices : StartMiner(d)) \/ FarmStarted
  \/ Login \/ LoginFails \/ ReadLine \/ (\E d \in Devices : SetWorkOf(d)) \/ SetWorkRaces \/ SetWorkDone
  \/ ReadThrows

-----------------------------------------------------------------------------
(* A miner: Event::WaitUntilDone, ...                                      *)

MinerTests(d) ==
  /\ at[d] = "test"
  /\ Goes(d, IF done[d] THEN "work" ELSE "block")
  /\ UNCHANGED <<state, netVars, clientVars, farmVars, minerVars, exited>>

\* Between the test and this step a notification finds nobody asleep.
MinerBlocks(d) ==
  /\ at[d] = "block"
  /\ Goes(d, "asleep")
  /\ UNCHANGED <<state, netVars, clientVars, farmVars, minerVars, exited>>

\* ... WorkLoopStep: it ends without work, or when the thread is asked to stop, ...
MinerWorks(d) ==
  /\ at[d] = "work"
  /\ Goes(d, IF template[d] = NoJob \/ state[d] # "Started" THEN "leave" ELSE "test")
  /\ UNCHANGED <<state, netVars, clientVars, farmVars, minerVars, exited>>

\* MUTANT: the miner that cannot be used is marked as stopped at once.
StateOfUseless_Stopped == "Stopped"

\* QueueStopWorker.
StateOfUseless == "Stopping"

\* ... the device cannot be initialized: it is not used again, ...
InitFails(d) ==
  /\ at[d] = "work"
  /\ d \in Fragile
  /\ template[d] # NoJob
  /\ enabled' = enabled \ {d}
  /\ state' = [state EXCEPT ![d] = StateOfUseless]
  /\ Goes(d, "leave")
  /\ UNCHANGED <<netVars, clientVars, lock, mining, miners, minerVars, exited>>

\* ... it fails while it mines, ...
MinerThrows(d) ==
  /\ at[d] = "work"
  /\ d \in Fragile
  /\ template[d] # NoJob
  /\ Goes(d, "leave")
  /\ UNCHANGED <<state, netVars, clientVars, farmVars, minerVars, exited>>

\* ... or the work is stale: the miner waits for new work and asks for another connection.
WorkStalls(d) ==
  /\ at[d] = "work"
  /\ template[d] # NoJob
  /\ done' = [done EXCEPT ![d] = FALSE]
  /\ Goes(d, "stall")
  /\ UNCHANGED <<state, netVars, clientVars, farmVars, template, exited>>

\* Reconnect by a miner.
MinerReconnects(d) ==
  /\ at[d] = "stall"
  /\ FarmPause([at EXCEPT ![d] = IF state[d] = "Started" THEN "test" ELSE "leave"])
  /\ authorized' = FALSE
  /\ connected' = FALSE
  /\ DropsLink
  /\ UNCHANGED <<state, running, lastNotify, toDo, clientVars, farmVars, template, exited>>

MinerStep(d) ==
  \/ MinerTests(d) \/ MinerBlocks(d) \/ MinerWorks(d)
  \/ InitFails(d) \/ MinerThrows(d) \/ WorkStalls(d) \/ MinerReconnects(d)

-----------------------------------------------------------------------------
(* The pools and the network.                                              *)

PoolSends ==
  /\ link = "open"
  /\ line = NoJob
  /\ at[Net] \in {"read", "setwork"}
  /\ line' \in MaySend(FALSE)
  /\ UNCHANGED <<state, at, running, connected, authorized, link, lastNotify, toDo, clientVars,
                 farmVars, minerVars, exited>>

PoolDrops ==
  /\ link = "open"
  /\ link' = "closed"
  /\ line' = NoJob
  /\ UNCHANGED <<state, at, running, connected, authorized, lastNotify, toDo, clientVars,
                 farmVars, minerVars, exited>>

-----------------------------------------------------------------------------
Exited == ~Running /\ UNCHANGED vars

Next ==
  \/ /\ Running
     /\ \/ NetStep \/ ReadEmpty \/ ClientStep
        \/ \E w \in Workers : WorkerStep(w)
        \/ \E d \in Devices : MinerStep(d)
        \/ PoolSends \/ PoolDrops
  \/ Exited

Spec == Init /\ [][Next]_vars

FairSpec ==
  /\ Spec
  /\ WF_vars(Running /\ NetStep)
  /\ WF_vars(Running /\ ClientStep)
  /\ \A w \in Workers : WF_vars(Running /\ (WorkerStep(w) \/ (w # Net /\ MinerStep(w))))
  /\ SF_vars(Running /\ DialOk)
  /\ SF_vars(Running /\ PoolSends)

-----------------------------------------------------------------------------
(* Properties.                                                             *)

\* A thread that shows "Stopped" is outside of its WorkLoop, where only a new start or the end of
\* the thread takes it on: stopping and failing ask for it, and the thread itself says it is done.
StoppedIsOut == \A w \in Workers : state[w] = "Stopped" => at[w] \in {"parked", "none"}

\* While the client thread waits for the end of a miner, holding the farm's mutex, no miner it
\* has to end is in its work: none can ask for a reconnect, for which it would need that mutex,
\* nor overwrite the order to end.
KilledAreOut ==
  lock = Client => \A d \in toKill : at[d] \in {"parked", "gone"} /\ state[d] \in {"Stopped", "Killing"}

\* Whoever sees the farm unlocked sees it mining exactly if it has miners: Farm::start makes new
\* ones only then.
MiningHasMiners == lock = Nobody => (mining <=> miners # {})

\* Miners pause for a reconnect, or for their stale work, only: while the network thread waits for
\* the next line of a connection that has given its work, they all have work to do.
PausedOnlyForReconnect ==
  ( /\ at[Net] = "read" /\ link = "open" /\ line = NoJob /\ connected /\ client # "disconnect"
    /\ \A d \in Devices : at[d] # "stall" )
  => \A d \in miners : done[d]

Waits(d) == d \in miners /\ state[d] = "Started" /\ at[d] \in {"test", "block", "asleep"}

\* A miner that waits gets to work, although a notification may be lost on it, or the connection is
\* lost: every line wakes it again.
MinersWork ==
  \A d \in Devices :
    Waits(d) ~> (d \notin miners \/ state[d] # "Started" \/ at[d] = "work" \/ ~connected \/ ~Running)

\* The network thread was dialling when the client closed the connection: it has a new one, which
\* it reads without a look at the order to stop, and the client waits until a pool drops it.
StopWaits == client = "stopping" /\ link = "open"

\* When all miners have died they are buried and those that can be used are started again, if any
\* is left, by the network thread as it connects again.
MiningRestarts ==
  (mining /\ AllDead) ~> ((mining /\ ~AllDead) \/ ~Running \/ StopWaits)

=============================================================================
