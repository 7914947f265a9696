---------------------------- MODULE Farm_proofs ----------------------------
(***************************************************************************)
(* What holds of Farm for every set of devices and every pool: the states  *)
(* of the threads mean what they say, a miner that is killed is out of its *)
(* work, and the farm is mining exactly when it has miners.                *)
(*                                                                         *)
(* The farm's mutex carries the argument.  Only the network thread makes   *)
(* miners and only the client thread removes them, each while it holds the *)
(* mutex (LockHolders), so that between the moment the client finds all    *)
(* miners dead and the end of the last one no new miner appears, and the   *)
(* dead ones stay out of their work.                                       *)
(***************************************************************************)
EXTENDS Farm, TLAPS

\* The network thread holds the mutex exactly while it starts miners, the client thread exactly
\* while it ends them.
LockHolders ==
  /\ lock = Net <=> at[Net] = "starting"
  /\ lock = Client <=> client \in {"kill", "join"}

\* Every miner of the farm has a thread.
MinersHaveThreads == \A d \in miners : at[d] # "none"

\* What the holder of the mutex knows of the farm.
LockedFarm ==
  /\ lock = Net => ~mining /\ (toDo # {} \/ miners # {})
  /\ lock = Client => mining

IInv ==
  /\ TypeOK
  /\ StoppedIsOut
  /\ LockHolders
  /\ MinersHaveThreads
  /\ KilledAreOut
  /\ LockedFarm
  /\ MiningHasMiners

Places == NetPlaces \cup MinerPlaces \cup ThreadPlaces

USE DEF Workers, Net, Client, Nobody

-----------------------------------------------------------------------------
\* A notification takes threads from their sleep to their test, and does nothing else to them.
LEMMA NotifiedOnlyWakes ==
  ASSUME NEW ds, NEW places \in [Workers -> Places]
  PROVE /\ Notified(ds, places) \in [Workers -> Places]
        /\ \A w \in Workers :
             \/ Notified(ds, places)[w] = places[w]
             \/ w \in ds /\ places[w] = "asleep" /\ Notified(ds, places)[w] = "test"
BY DEF Notified, Places, MinerPlaces

\* A pause of the farm resets events and wakes threads, while nobody holds the mutex.
LEMMA PauseOnlyWakes ==
  ASSUME IInv, NEW places \in [Workers -> Places], FarmPause(places)
  PROVE /\ done' \in [Devices -> BOOLEAN]
        /\ at' \in [Workers -> Places]
        /\ \A w \in Workers :
             \/ at'[w] = places[w]
             \/ w \in Devices /\ places[w] = "asleep" /\ at'[w] = "test"
        /\ mining => lock = Nobody
<1>1. CASE mining
  <2>1. /\ done' = [d \in Devices |-> done[d] /\ d \notin miners]
        /\ at' = Notified(miners, places)
        /\ lock = Nobody
    BY <1>1 DEF FarmPause
  <2>2. miners \subseteq Devices
    BY DEF IInv, TypeOK, DataTypeOK
  <2>3. done' \in [Devices -> BOOLEAN]
    BY <2>1
  <2> QED
    BY <2>1, <2>2, <2>3, NotifiedOnlyWakes
<1>2. CASE ~mining
  BY <1>2 DEF FarmPause, IInv, TypeOK, DataTypeOK
<1> QED
  BY <1>1, <1>2

-----------------------------------------------------------------------------

LEMMA InitIInv == Init => IInv
BY ConstantsAssumption DEF Init, IInv, TypeOK, ThreadsTypeOK, DataTypeOK, StoppedIsOut,
   LockHolders, MinersHaveThreads, KilledAreOut, LockedFarm, MiningHasMiners, States, NetPlaces, MinerPlaces,
   ThreadPlaces, ClientPlaces

\* A thread enters its WorkLoop, leaves it, or ends.
LEMMA WorkerStepIInv == IInv /\ (\E w \in Workers : WorkerStep(w)) => IInv'
<1> SUFFICES ASSUME IInv, (\E w \in Workers : WorkerStep(w)) PROVE IInv'
  OBVIOUS
<1>0. /\ ThreadsTypeOK /\ DataTypeOK /\ StoppedIsOut /\ MinersHaveThreads
      /\ LockHolders /\ LockedFarm /\ MiningHasMiners /\ KilledAreOut
  BY DEF IInv, TypeOK
<1>1. ASSUME NEW w \in Workers, WorkLoopBegins(w) PROVE IInv'
  <2>1. ThreadsTypeOK'
    BY <1>1, <1>0, ConstantsAssumption DEF WorkLoopBegins, Goes, netVars, clientVars, farmVars,
       minerVars, ThreadsTypeOK, States, NetPlaces, MinerPlaces, ThreadPlaces
  <2>2. DataTypeOK'
    BY <1>1, <1>0 DEF WorkLoopBegins, netVars, clientVars, farmVars, minerVars, DataTypeOK
  <2>3. (StoppedIsOut /\ MinersHaveThreads)'
    BY <1>1, <1>0, ConstantsAssumption DEF WorkLoopBegins, Goes, netVars, clientVars, farmVars,
       minerVars, ThreadsTypeOK, DataTypeOK, StoppedIsOut, MinersHaveThreads
  <2>4. (LockHolders /\ LockedFarm /\ MiningHasMiners)'
    BY <1>1, <1>0, ConstantsAssumption DEF WorkLoopBegins, Goes, netVars, clientVars, farmVars,
       minerVars, ThreadsTypeOK, DataTypeOK, LockHolders, LockedFarm, MiningHasMiners
  <2>5. KilledAreOut'
    BY <1>1, <1>0, ConstantsAssumption DEF WorkLoopBegins, Goes, netVars, clientVars, farmVars,
       minerVars, ThreadsTypeOK, DataTypeOK, KilledAreOut, StoppedIsOut, MinersHaveThreads,
       LockHolders
  <2> QED
    BY <2>1, <2>2, <2>3, <2>4, <2>5 DEF IInv, TypeOK
<1>2. ASSUME NEW w \in Workers, WorkLoopEnds(w) PROVE IInv'
  <2>1. ThreadsTypeOK'
    BY <1>2, <1>0, ConstantsAssumption DEF WorkLoopEnds, Goes, netVars, clientVars, farmVars,
       minerVars, ThreadsTypeOK, States, NetPlaces, MinerPlaces, ThreadPlaces
  <2>2. DataTypeOK'
    BY <1>2, <1>0 DEF WorkLoopEnds, netVars, clientVars, farmVars, minerVars, DataTypeOK
  <2>3. (StoppedIsOut /\ MinersHaveThreads)'
    BY <1>2, <1>0, ConstantsAssumption DEF WorkLoopEnds, Goes, netVars, clientVars, farmVars,
       minerVars, ThreadsTypeOK, DataTypeOK, StoppedIsOut, MinersHaveThreads
  <2>4. (LockHolders /\ LockedFarm /\ MiningHasMiners)'
    BY <1>2, <1>0, ConstantsAssumption DEF WorkLoopEnds, Goes, netVars, clientVars, farmVars,
       minerVars, ThreadsTypeOK, DataTypeOK, LockHolders, LockedFarm, MiningHasMiners
  <2>5. KilledAreOut'
    BY <1>2, <1>0, ConstantsAssumption DEF WorkLoopEnds, Goes, netVars, clientVars, farmVars,
       minerVars, ThreadsTypeOK, DataTypeOK, KilledAreOut, StoppedIsOut, MinersHaveThreads,
       LockHolders
  <2> QED
    BY <2>1, <2>2, <2>3, <2>4, <2>5 DEF IInv, TypeOK
<1>3. ASSUME NEW w \in Workers, ThreadEnds(w) PROVE IInv'
  <2>1. ThreadsTypeOK'
    BY <1>3, <1>0, ConstantsAssumption DEF ThreadEnds, Goes, netVars, clientVars, farmVars,
       minerVars, ThreadsTypeOK, States, NetPlaces, MinerPlaces, ThreadPlaces
  <2>2. DataTypeOK'
    BY <1>3, <1>0 DEF ThreadEnds, netVars, clientVars, farmVars, minerVars, DataTypeOK
  <2>3. (StoppedIsOut /\ MinersHaveThreads)'
    BY <1>3, <1>0, ConstantsAssumption DEF ThreadEnds, Goes, netVars, clientVars, farmVars,
       minerVars, ThreadsTypeOK, DataTypeOK, StoppedIsOut, MinersHaveThreads
  <2>4. (LockHolders /\ LockedFarm /\ MiningHasMiners)'
    BY <1>3, <1>0, ConstantsAssumption DEF ThreadEnds, Goes, netVars, clientVars, farmVars,
       minerVars, ThreadsTypeOK, DataTypeOK, LockHolders, LockedFarm, MiningHasMiners
  <2>5. KilledAreOut'
    BY <1>3, <1>0, ConstantsAssumption DEF ThreadEnds, Goes, netVars, clientVars, farmVars,
       minerVars, ThreadsTypeOK, DataTypeOK, KilledAreOut, StoppedIsOut, MinersHaveThreads,
       LockHolders
  <2> QED
    BY <2>1, <2>2, <2>3, <2>4, <2>5 DEF IInv, TypeOK
<1> QED
  BY <1>1, <1>2, <1>3 DEF WorkerStep

\* The client thread starts and stops the network thread, and buries the dead miners.
LEMMA ClientStepIInv == IInv /\ ClientStep => IInv'
<1> SUFFICES ASSUME IInv, ClientStep PROVE IInv'
  OBVIOUS
<1>0. /\ ThreadsTypeOK /\ DataTypeOK /\ StoppedIsOut /\ MinersHaveThreads
      /\ LockHolders /\ LockedFarm /\ MiningHasMiners /\ KilledAreOut
  BY DEF IInv, TypeOK
<1>1. CASE ClientStarts
  <2>1. ThreadsTypeOK'
    BY <1>1, <1>0, ConstantsAssumption DEF ClientStarts, RunsAgain, Goes, farmVars, minerVars,
       ThreadsTypeOK, States, NetPlaces, MinerPlaces, ThreadPlaces
  <2>2. DataTypeOK'
    BY <1>1, <1>0 DEF ClientStarts, RunsAgain, farmVars, minerVars, DataTypeOK, ClientPlaces
  <2>3. (StoppedIsOut /\ MinersHaveThreads)'
    BY <1>1, <1>0, ConstantsAssumption DEF ClientStarts, RunsAgain, Goes, farmVars, minerVars,
       ThreadsTypeOK, DataTypeOK, StoppedIsOut, MinersHaveThreads
  <2>4. (LockHolders /\ LockedFarm /\ MiningHasMiners)'
    BY <1>1, <1>0, ConstantsAssumption DEF ClientStarts, RunsAgain, Goes, farmVars, minerVars,
       ThreadsTypeOK, DataTypeOK, LockHolders, LockedFarm, MiningHasMiners
  <2>5. KilledAreOut'
    BY <1>1, <1>0, ConstantsAssumption DEF ClientStarts, RunsAgain, Goes, farmVars, minerVars,
       ThreadsTypeOK, DataTypeOK, KilledAreOut, StoppedIsOut, MinersHaveThreads, LockHolders
  <2> QED
    BY <2>1, <2>2, <2>3, <2>4, <2>5 DEF IInv, TypeOK
<1>2. CASE ClientStarted
  <2>1. ThreadsTypeOK'
    BY <1>2, <1>0 DEF ClientStarted, netVars, farmVars, minerVars, ThreadsTypeOK
  <2>2. DataTypeOK'
    BY <1>2, <1>0 DEF ClientStarted, netVars, farmVars, minerVars, DataTypeOK, ClientPlaces
  <2>3. (StoppedIsOut /\ MinersHaveThreads)'
    BY <1>2, <1>0, ConstantsAssumption DEF ClientStarted, netVars, farmVars, minerVars,
       ThreadsTypeOK, DataTypeOK, StoppedIsOut, MinersHaveThreads
  <2>4. (LockHolders /\ LockedFarm /\ MiningHasMiners)'
    BY <1>2, <1>0, ConstantsAssumption DEF ClientStarted, netVars, farmVars, minerVars,
       ThreadsTypeOK, DataTypeOK, LockHolders, LockedFarm, MiningHasMiners
  <2>5. KilledAreOut'
    BY <1>2, <1>0, ConstantsAssumption DEF ClientStarted, netVars, farmVars, minerVars,
       ThreadsTypeOK, DataTypeOK, KilledAreOut, StoppedIsOut, MinersHaveThreads, LockHolders
  <2> QED
    BY <2>1, <2>2, <2>3, <2>4, <2>5 DEF IInv, TypeOK
<1>3. CASE MiningProgress
  <2>1. ThreadsTypeOK'
    BY <1>3, <1>0 DEF MiningProgress, AllDead, ToKill, netVars, minerVars, ThreadsTypeOK
  <2>2. DataTypeOK'
    BY <1>3, <1>0 DEF MiningProgress, AllDead, ToKill, netVars, minerVars, DataTypeOK,
       ClientPlaces
  <2>3. (StoppedIsOut /\ MinersHaveThreads)'
    BY <1>3, <1>0, ConstantsAssumption DEF MiningProgress, AllDead, ToKill, netVars, minerVars,
       ThreadsTypeOK, DataTypeOK, StoppedIsOut, MinersHaveThreads
  <2>4. (LockHolders /\ LockedFarm /\ MiningHasMiners)'
    BY <1>3, <1>0, ConstantsAssumption DEF MiningProgress, AllDead, ToKill, netVars, minerVars,
       ThreadsTypeOK, DataTypeOK, LockHolders, LockedFarm, MiningHasMiners
  <2>5. KilledAreOut'
    BY <1>3, <1>0, ConstantsAssumption DEF MiningProgress, AllDead, ToKill, netVars, minerVars,
       ThreadsTypeOK, DataTypeOK, KilledAreOut, StoppedIsOut, MinersHaveThreads, LockHolders
  <2> QED
    BY <2>1, <2>2, <2>3, <2>4, <2>5 DEF IInv, TypeOK
<1>4. CASE FarmStopped
  <2>1. ThreadsTypeOK'
    BY <1>4, <1>0, ConstantsAssumption DEF FarmStopped, netVars, minerVars, ThreadsTypeOK,
       States, NetPlaces, MinerPlaces, ThreadPlaces
  <2>2. DataTypeOK'
    BY <1>4, <1>0 DEF FarmStopped, netVars, minerVars, DataTypeOK, ClientPlaces
  <2>3. (StoppedIsOut /\ MinersHaveThreads)'
    BY <1>4, <1>0, ConstantsAssumption DEF FarmStopped, netVars, minerVars, ThreadsTypeOK,
       DataTypeOK, StoppedIsOut, MinersHaveThreads
  <2>4. (LockHolders /\ LockedFarm /\ MiningHasMiners)'
    BY <1>4, <1>0, ConstantsAssumption DEF FarmStopped, netVars, minerVars, ThreadsTypeOK,
       DataTypeOK, LockHolders, LockedFarm, MiningHasMiners
  <2>5. KilledAreOut'
    BY <1>4, <1>0, ConstantsAssumption DEF FarmStopped, netVars, minerVars, ThreadsTypeOK,
       DataTypeOK, KilledAreOut, StoppedIsOut, MinersHaveThreads, LockHolders
  <2> QED
    BY <2>1, <2>2, <2>3, <2>4, <2>5 DEF IInv, TypeOK
<1>5. ASSUME NEW d \in Devices, KillBegins(d) PROVE IInv'
  <2> DEFINE f == at
  <2>a. /\ f \in [Workers -> Places]
        /\ f[Net] \notin MinerPlaces /\ \A e \in Devices : f[e] \notin NetPlaces
    BY <1>5, <1>0, ConstantsAssumption DEF KillBegins, ThreadsTypeOK, Places, NetPlaces,
       MinerPlaces, ThreadPlaces
  <2>b. at' = Notified({d}, f)
    BY <1>5 DEF KillBegins
  <2>c. /\ at' \in [Workers -> Places]
        /\ \A v \in Workers :
             at'[v] = f[v] \/ (v \in Devices /\ f[v] = "asleep" /\ at'[v] = "test")
    BY <2>a, <2>b, NotifiedOnlyWakes, ConstantsAssumption
  <2>1. ThreadsTypeOK'
    BY <1>5, <2>a, <2>c, <1>0, ConstantsAssumption DEF KillBegins, netVars, farmVars,
       ThreadsTypeOK, States, NetPlaces, MinerPlaces, ThreadPlaces, Places
  <2>2. DataTypeOK'
    BY <1>5, <1>0 DEF KillBegins, netVars, farmVars, DataTypeOK, ClientPlaces
  <2>3. (StoppedIsOut /\ MinersHaveThreads)'
    BY <1>5, <2>a, <2>c, <1>0, ConstantsAssumption DEF KillBegins, netVars, farmVars,
       ThreadsTypeOK, DataTypeOK, StoppedIsOut, MinersHaveThreads, NetPlaces, MinerPlaces,
       ThreadPlaces, Places
  <2>4. (LockHolders /\ LockedFarm /\ MiningHasMiners)'
    BY <1>5, <2>a, <2>c, <1>0, ConstantsAssumption DEF KillBegins, netVars, farmVars,
       ThreadsTypeOK, DataTypeOK, LockHolders, LockedFarm, MiningHasMiners, NetPlaces,
       MinerPlaces, ThreadPlaces, Places
  <2>5. KilledAreOut'
    BY <1>5, <2>a, <2>c, <1>0, ConstantsAssumption DEF KillBegins, netVars, farmVars,
       ThreadsTypeOK, DataTypeOK, KilledAreOut, StoppedIsOut, MinersHaveThreads, LockHolders,
       NetPlaces, MinerPlaces, ThreadPlaces, Places
  <2> QED
    BY <2>1, <2>2, <2>3, <2>4, <2>5 DEF IInv, TypeOK
<1>6. ASSUME NEW d \in Devices, KillEnds(d) PROVE IInv'
  <2>1. ThreadsTypeOK'
    BY <1>6, <1>0 DEF KillEnds, netVars, farmVars, minerVars, ThreadsTypeOK
  <2>2. DataTypeOK'
    BY <1>6, <1>0 DEF KillEnds, netVars, farmVars, minerVars, DataTypeOK, ClientPlaces
  <2>3. (StoppedIsOut /\ MinersHaveThreads)'
    BY <1>6, <1>0, ConstantsAssumption DEF KillEnds, netVars, farmVars, minerVars, ThreadsTypeOK,
       DataTypeOK, StoppedIsOut, MinersHaveThreads
  <2>4. (LockHolders /\ LockedFarm /\ MiningHasMiners)'
    BY <1>6, <1>0, ConstantsAssumption DEF KillEnds, netVars, farmVars, minerVars, ThreadsTypeOK,
       DataTypeOK, LockHolders, LockedFarm, MiningHasMiners
  <2>5. KilledAreOut'
    BY <1>6, <1>0, ConstantsAssumption DEF KillEnds, netVars, farmVars, minerVars, ThreadsTypeOK,
       DataTypeOK, KilledAreOut, StoppedIsOut, MinersHaveThreads, LockHolders
  <2> QED
    BY <2>1, <2>2, <2>3, <2>4, <2>5 DEF IInv, TypeOK
<1>7. CASE ClientLooks
  <2>1. ThreadsTypeOK'
    BY <1>7, <1>0 DEF ClientLooks, netVars, farmVars, minerVars, ThreadsTypeOK
  <2>2. DataTypeOK'
    BY <1>7, <1>0 DEF ClientLooks, netVars, farmVars, minerVars, DataTypeOK, ClientPlaces
  <2>3. (StoppedIsOut /\ MinersHaveThreads)'
    BY <1>7, <1>0, ConstantsAssumption DEF ClientLooks, netVars, farmVars, minerVars,
       ThreadsTypeOK, DataTypeOK, StoppedIsOut, MinersHaveThreads
  <2>4. (LockHolders /\ LockedFarm /\ MiningHasMiners)'
    BY <1>7, <1>0, ConstantsAssumption DEF ClientLooks, netVars, farmVars, minerVars,
       ThreadsTypeOK, DataTypeOK, LockHolders, LockedFarm, MiningHasMiners
  <2>5. KilledAreOut'
    BY <1>7, <1>0, ConstantsAssumption DEF ClientLooks, netVars, farmVars, minerVars,
       ThreadsTypeOK, DataTypeOK, KilledAreOut, StoppedIsOut, MinersHaveThreads, LockHolders
  <2> QED
    BY <2>1, <2>2, <2>3, <2>4, <2>5 DEF IInv, TypeOK
<1>8. CASE ClientWatches
  <2>1. ThreadsTypeOK'
    BY <1>8, <1>0 DEF ClientWatches, netVars, farmVars, minerVars, ThreadsTypeOK
  <2>2. DataTypeOK'
    BY <1>8, <1>0 DEF ClientWatches, netVars, farmVars, minerVars, DataTypeOK, ClientPlaces
  <2>3. (StoppedIsOut /\ MinersHaveThreads)'
    BY <1>8, <1>0, ConstantsAssumption DEF ClientWatches, netVars, farmVars, minerVars,
       ThreadsTypeOK, DataTypeOK, StoppedIsOut, MinersHaveThreads
  <2>4. (LockHolders /\ LockedFarm /\ MiningHasMiners)'
    BY <1>8, <1>0, ConstantsAssumption DEF ClientWatches, netVars, farmVars, minerVars,
       ThreadsTypeOK, DataTypeOK, LockHolders, LockedFarm, MiningHasMiners
  <2>5. KilledAreOut'
    BY <1>8, <1>0, ConstantsAssumption DEF ClientWatches, netVars, farmVars, minerVars,
       ThreadsTypeOK, DataTypeOK, KilledAreOut, StoppedIsOut, MinersHaveThreads, LockHolders
  <2> QED
    BY <2>1, <2>2, <2>3, <2>4, <2>5 DEF IInv, TypeOK
<1>9. CASE ClientPauses
  <2> DEFINE f == at
  <2>a. /\ f \in [Workers -> Places]
        /\ f[Net] \notin MinerPlaces /\ \A e \in Devices : f[e] \notin NetPlaces
    BY <1>9, <1>0, ConstantsAssumption DEF ClientPauses, ThreadsTypeOK, Places, NetPlaces,
       MinerPlaces, ThreadPlaces
  <2>b. FarmPause(f)
    BY <1>9 DEF ClientPauses
  <2>c. /\ at' \in [Workers -> Places]
        /\ done' \in [Devices -> BOOLEAN] /\ (mining => lock = Nobody)
        /\ \A v \in Workers :
             at'[v] = f[v] \/ (v \in Devices /\ f[v] = "asleep" /\ at'[v] = "test")
    BY <2>a, <2>b, PauseOnlyWakes
  <2>1. ThreadsTypeOK'
    BY <1>9, <2>a, <2>c, <1>0, ConstantsAssumption DEF ClientPauses, netVars, farmVars,
       ThreadsTypeOK, States, NetPlaces, MinerPlaces, ThreadPlaces, Places
  <2>2. DataTypeOK'
    BY <1>9, <2>c, <1>0 DEF ClientPauses, netVars, farmVars, DataTypeOK, ClientPlaces
  <2>3. (StoppedIsOut /\ MinersHaveThreads)'
    BY <1>9, <2>a, <2>c, <1>0, ConstantsAssumption DEF ClientPauses, netVars, farmVars,
       ThreadsTypeOK, DataTypeOK, StoppedIsOut, MinersHaveThreads, NetPlaces, MinerPlaces,
       ThreadPlaces, Places
  <2>4. (LockHolders /\ LockedFarm /\ MiningHasMiners)'
    BY <1>9, <2>a, <2>c, <1>0, ConstantsAssumption DEF ClientPauses, netVars, farmVars,
       ThreadsTypeOK, DataTypeOK, LockHolders, LockedFarm, MiningHasMiners, NetPlaces,
       MinerPlaces, ThreadPlaces, Places
  <2>5. KilledAreOut'
    BY <1>9, <2>a, <2>c, <1>0, ConstantsAssumption DEF ClientPauses, netVars, farmVars,
       ThreadsTypeOK, DataTypeOK, KilledAreOut, StoppedIsOut, MinersHaveThreads, LockHolders,
       NetPlaces, MinerPlaces, ThreadPlaces, Places
  <2> QED
    BY <2>1, <2>2, <2>3, <2>4, <2>5 DEF IInv, TypeOK
<1>10. CASE Disconnects
  <2>1. ThreadsTypeOK'
    BY <1>10, <1>0 DEF Disconnects, farmVars, minerVars, ThreadsTypeOK
  <2>2. DataTypeOK'
    BY <1>10, <1>0 DEF Disconnects, farmVars, minerVars, DataTypeOK, ClientPlaces
  <2>3. (StoppedIsOut /\ MinersHaveThreads)'
    BY <1>10, <1>0, ConstantsAssumption DEF Disconnects, farmVars, minerVars, ThreadsTypeOK,
       DataTypeOK, StoppedIsOut, MinersHaveThreads
  <2>4. (LockHolders /\ LockedFarm /\ MiningHasMiners)'
    BY <1>10, <1>0, ConstantsAssumption DEF Disconnects, farmVars, minerVars, ThreadsTypeOK,
       DataTypeOK, LockHolders, LockedFarm, MiningHasMiners
  <2>5. KilledAreOut'
    BY <1>10, <1>0, ConstantsAssumption DEF Disconnects, farmVars, minerVars, ThreadsTypeOK,
       DataTypeOK, KilledAreOut, StoppedIsOut, MinersHaveThreads, LockHolders
  <2> QED
    BY <2>1, <2>2, <2>3, <2>4, <2>5 DEF IInv, TypeOK
<1>11. CASE ClosesSocket
  <2>1. ThreadsTypeOK'
    BY <1>11, <1>0 DEF ClosesSocket, farmVars, minerVars, ThreadsTypeOK
  <2>2. DataTypeOK'
    BY <1>11, <1>0 DEF ClosesSocket, farmVars, minerVars, DataTypeOK, ClientPlaces
  <2>3. (StoppedIsOut /\ MinersHaveThreads)'
    BY <1>11, <1>0, ConstantsAssumption DEF ClosesSocket, farmVars, minerVars, ThreadsTypeOK,
       DataTypeOK, StoppedIsOut, MinersHaveThreads
  <2>4. (LockHolders /\ LockedFarm /\ MiningHasMiners)'
    BY <1>11, <1>0, ConstantsAssumption DEF ClosesSocket, farmVars, minerVars, ThreadsTypeOK,
       DataTypeOK, LockHolders, LockedFarm, MiningHasMiners
  <2>5. KilledAreOut'
    BY <1>11, <1>0, ConstantsAssumption DEF ClosesSocket, farmVars, minerVars, ThreadsTypeOK,
       DataTypeOK, KilledAreOut, StoppedIsOut, MinersHaveThreads, LockHolders
  <2> QED
    BY <2>1, <2>2, <2>3, <2>4, <2>5 DEF IInv, TypeOK
<1>12. CASE StopBegins
  <2>1. ThreadsTypeOK'
    BY <1>12, <1>0, ConstantsAssumption DEF StopBegins, netVars, farmVars, minerVars,
       ThreadsTypeOK, States, NetPlaces, MinerPlaces, ThreadPlaces
  <2>2. DataTypeOK'
    BY <1>12, <1>0 DEF StopBegins, netVars, farmVars, minerVars, DataTypeOK, ClientPlaces
  <2>3. (StoppedIsOut /\ MinersHaveThreads)'
    BY <1>12, <1>0, ConstantsAssumption DEF StopBegins, netVars, farmVars, minerVars,
       ThreadsTypeOK, DataTypeOK, StoppedIsOut, MinersHaveThreads
  <2>4. (LockHolders /\ LockedFarm /\ MiningHasMiners)'
    BY <1>12, <1>0, ConstantsAssumption DEF StopBegins, netVars, farmVars, minerVars,
       ThreadsTypeOK, DataTypeOK, LockHolders, LockedFarm, MiningHasMiners
  <2>5. KilledAreOut'
    BY <1>12, <1>0, ConstantsAssumption DEF StopBegins, netVars, farmVars, minerVars,
       ThreadsTypeOK, DataTypeOK, KilledAreOut, StoppedIsOut, MinersHaveThreads, LockHolders
  <2> QED
    BY <2>1, <2>2, <2>3, <2>4, <2>5 DEF IInv, TypeOK
<1>13. CASE StopEnds
  <2>1. ThreadsTypeOK'
    BY <1>13, <1>0 DEF StopEnds, netVars, farmVars, minerVars, ThreadsTypeOK
  <2>2. DataTypeOK'
    BY <1>13, <1>0 DEF StopEnds, netVars, farmVars, minerVars, DataTypeOK, ClientPlaces
  <2>3. (StoppedIsOut /\ MinersHaveThreads)'
    BY <1>13, <1>0, ConstantsAssumption DEF StopEnds, netVars, farmVars, minerVars,
       ThreadsTypeOK, DataTypeOK, StoppedIsOut, MinersHaveThreads
  <2>4. (LockHolders /\ LockedFarm /\ MiningHasMiners)'
    BY <1>13, <1>0, ConstantsAssumption DEF StopEnds, netVars, farmVars, minerVars,
       ThreadsTypeOK, DataTypeOK, LockHolders, LockedFarm, MiningHasMiners
  <2>5. KilledAreOut'
    BY <1>13, <1>0, ConstantsAssumption DEF StopEnds, netVars, farmVars, minerVars,
       ThreadsTypeOK, DataTypeOK, KilledAreOut, StoppedIsOut, MinersHaveThreads, LockHolders
  <2> QED
    BY <2>1, <2>2, <2>3, <2>4, <2>5 DEF IInv, TypeOK
<1> QED
  BY <1>1, <1>2, <1>3, <1>4, <1>5, <1>6, <1>7, <1>8, <1>9, <1>10, <1>11, <1>12, <1>13 DEF
     ClientStep

\* The network thread connects, starts the miners and gives them their work.
LEMMA NetStepIInv == IInv /\ (NetStep \/ ReadEmpty) => IInv'
<1> SUFFICES ASSUME IInv, (NetStep \/ ReadEmpty) PROVE IInv'
  OBVIOUS
<1>0. /\ ThreadsTypeOK /\ DataTypeOK /\ StoppedIsOut /\ MinersHaveThreads
      /\ LockHolders /\ LockedFarm /\ MiningHasMiners /\ KilledAreOut
  BY DEF IInv, TypeOK
<1>1. CASE NetLoops
  <2>1. ThreadsTypeOK'
    BY <1>1, <1>0, ConstantsAssumption DEF NetLoops, Goes, netVars, clientVars, farmVars,
       minerVars, ThreadsTypeOK, States, NetPlaces, MinerPlaces, ThreadPlaces
  <2>2. DataTypeOK'
    BY <1>1, <1>0 DEF NetLoops, netVars, clientVars, farmVars, minerVars, DataTypeOK
  <2>3. (StoppedIsOut /\ MinersHaveThreads)'
    BY <1>1, <1>0, ConstantsAssumption DEF NetLoops, Goes, netVars, clientVars, farmVars,
       minerVars, ThreadsTypeOK, DataTypeOK, StoppedIsOut, MinersHaveThreads
  <2>4. (LockHolders /\ LockedFarm /\ MiningHasMiners)'
    BY <1>1, <1>0, ConstantsAssumption DEF NetLoops, Goes, netVars, clientVars, farmVars,
       minerVars, ThreadsTypeOK, DataTypeOK, LockHolders, LockedFarm, MiningHasMiners
  <2>5. KilledAreOut'
    BY <1>1, <1>0, ConstantsAssumption DEF NetLoops, Goes, netVars, clientVars, farmVars,
       minerVars, ThreadsTypeOK, DataTypeOK, KilledAreOut, StoppedIsOut, MinersHaveThreads,
       LockHolders
  <2> QED
    BY <2>1, <2>2, <2>3, <2>4, <2>5 DEF IInv, TypeOK
<1>2. CASE NetRedials
  <2>1. ThreadsTypeOK'
    BY <1>2, <1>0, ConstantsAssumption DEF NetRedials, Goes, netVars, clientVars, farmVars,
       minerVars, ThreadsTypeOK, States, NetPlaces, MinerPlaces, ThreadPlaces
  <2>2. DataTypeOK'
    BY <1>2, <1>0 DEF NetRedials, netVars, clientVars, farmVars, minerVars, DataTypeOK
  <2>3. (StoppedIsOut /\ MinersHaveThreads)'
    BY <1>2, <1>0, ConstantsAssumption DEF NetRedials, Goes, netVars, clientVars, farmVars,
       minerVars, ThreadsTypeOK, DataTypeOK, StoppedIsOut, MinersHaveThreads
  <2>4. (LockHolders /\ LockedFarm /\ MiningHasMiners)'
    BY <1>2, <1>0, ConstantsAssumption DEF NetRedials, Goes, netVars, clientVars, farmVars,
       minerVars, ThreadsTypeOK, DataTypeOK, LockHolders, LockedFarm, MiningHasMiners
  <2>5. KilledAreOut'
    BY <1>2, <1>0, ConstantsAssumption DEF NetRedials, Goes, netVars, clientVars, farmVars,
       minerVars, ThreadsTypeOK, DataTypeOK, KilledAreOut, StoppedIsOut, MinersHaveThreads,
       LockHolders
  <2> QED
    BY <2>1, <2>2, <2>3, <2>4, <2>5 DEF IInv, TypeOK
<1>3. CASE DialOk
  <2>1. ThreadsTypeOK'
    BY <1>3, <1>0, ConstantsAssumption DEF DialOk, Goes, clientVars, farmVars, minerVars,
       ThreadsTypeOK, States, NetPlaces, MinerPlaces, ThreadPlaces
  <2>2. DataTypeOK'
    BY <1>3, <1>0 DEF DialOk, clientVars, farmVars, minerVars, DataTypeOK
  <2>3. (StoppedIsOut /\ MinersHaveThreads)'
    BY <1>3, <1>0, ConstantsAssumption DEF DialOk, Goes, clientVars, farmVars, minerVars,
       ThreadsTypeOK, DataTypeOK, StoppedIsOut, MinersHaveThreads
  <2>4. (LockHolders /\ LockedFarm /\ MiningHasMiners)'
    BY <1>3, <1>0, ConstantsAssumption DEF DialOk, Goes, clientVars, farmVars, minerVars,
       ThreadsTypeOK, DataTypeOK, LockHolders, LockedFarm, MiningHasMiners
  <2>5. KilledAreOut'
    BY <1>3, <1>0, ConstantsAssumption DEF DialOk, Goes, clientVars, farmVars, minerVars,
       ThreadsTypeOK, DataTypeOK, KilledAreOut, StoppedIsOut, MinersHaveThreads, LockHolders
  <2> QED
    BY <2>1, <2>2, <2>3, <2>4, <2>5 DEF IInv, TypeOK
<1>4. CASE DialFails
  <2>1. ThreadsTypeOK'
    BY <1>4, <1>0, ConstantsAssumption DEF DialFails, Goes, clientVars, farmVars, minerVars,
       ThreadsTypeOK, States, NetPlaces, MinerPlaces, ThreadPlaces
  <2>2. DataTypeOK'
    BY <1>4, <1>0 DEF DialFails, clientVars, farmVars, minerVars, DataTypeOK
  <2>3. (StoppedIsOut /\ MinersHaveThreads)'
    BY <1>4, <1>0, ConstantsAssumption DEF DialFails, Goes, clientVars, farmVars, minerVars,
       ThreadsTypeOK, DataTypeOK, StoppedIsOut, MinersHaveThreads
  <2>4. (LockHolders /\ LockedFarm /\ MiningHasMiners)'
    BY <1>4, <1>0, ConstantsAssumption DEF DialFails, Goes, clientVars, farmVars, minerVars,
       ThreadsTypeOK, DataTypeOK, LockHolders, LockedFarm, MiningHasMiners
  <2>5. KilledAreOut'
    BY <1>4, <1>0, ConstantsAssumption DEF DialFails, Goes, clientVars, farmVars, minerVars,
       ThreadsTypeOK, DataTypeOK, KilledAreOut, StoppedIsOut, MinersHaveThreads, LockHolders
  <2> QED
    BY <2>1, <2>2, <2>3, <2>4, <2>5 DEF IInv, TypeOK
<1>5. CASE NetReconnects
  <2> DEFINE f == [at EXCEPT ![Net] = IF @ = "failed" THEN "redial" ELSE "loop"]
  <2>a. /\ f \in [Workers -> Places]
        /\ f[Net] \notin MinerPlaces /\ \A e \in Devices : f[e] \notin NetPlaces
    BY <1>5, <1>0, ConstantsAssumption DEF NetReconnects, DropsLink, ThreadsTypeOK, Places,
       NetPlaces, MinerPlaces, ThreadPlaces
  <2>b. FarmPause(f)
    BY <1>5 DEF NetReconnects, DropsLink
  <2>c. /\ at' \in [Workers -> Places]
        /\ done' \in [Devices -> BOOLEAN] /\ (mining => lock = Nobody)
        /\ \A v \in Workers :
             at'[v] = f[v] \/ (v \in Devices /\ f[v] = "asleep" /\ at'[v] = "test")
    BY <2>a, <2>b, PauseOnlyWakes
  <2>1. ThreadsTypeOK'
    BY <1>5, <2>a, <2>c, <1>0, ConstantsAssumption DEF NetReconnects, DropsLink, clientVars,
       farmVars, ThreadsTypeOK, States, NetPlaces, MinerPlaces, ThreadPlaces, Places
  <2>2. DataTypeOK'
    BY <1>5, <2>c, <1>0 DEF NetReconnects, DropsLink, clientVars, farmVars, DataTypeOK
  <2>3. (StoppedIsOut /\ MinersHaveThreads)'
    BY <1>5, <2>a, <2>c, <1>0, ConstantsAssumption DEF NetReconnects, DropsLink, clientVars,
       farmVars, ThreadsTypeOK, DataTypeOK, StoppedIsOut, MinersHaveThreads, NetPlaces,
       MinerPlaces, ThreadPlaces, Places
  <2>4. (LockHolders /\ LockedFarm /\ MiningHasMiners)'
    BY <1>5, <2>a, <2>c, <1>0, ConstantsAssumption DEF NetReconnects, DropsLink, clientVars,
       farmVars, ThreadsTypeOK, DataTypeOK, LockHolders, LockedFarm, MiningHasMiners, NetPlaces,
       MinerPlaces, ThreadPlaces, Places
  <2>5. KilledAreOut'
    BY <1>5, <2>a, <2>c, <1>0, ConstantsAssumption DEF NetReconnects, DropsLink, clientVars,
       farmVars, ThreadsTypeOK, DataTypeOK, KilledAreOut, StoppedIsOut, MinersHaveThreads,
       LockHolders, NetPlaces, MinerPlaces, ThreadPlaces, Places
  <2> QED
    BY <2>1, <2>2, <2>3, <2>4, <2>5 DEF IInv, TypeOK
<1>6. CASE StartFarm
  <2>1. ThreadsTypeOK'
    BY <1>6, <1>0, ConstantsAssumption DEF StartFarm, Goes, clientVars, minerVars, ThreadsTypeOK,
       States, NetPlaces, MinerPlaces, ThreadPlaces
  <2>2. DataTypeOK'
    BY <1>6, <1>0 DEF StartFarm, clientVars, minerVars, DataTypeOK
  <2>3. (StoppedIsOut /\ MinersHaveThreads)'
    <3>1. CASE at' = at
      BY <1>6, <3>1, <1>0, ConstantsAssumption DEF StartFarm, farmVars, StoppedIsOut,
         MinersHaveThreads
    <3>2. CASE Goes(Net, "login") \/ Goes(Net, "starting")
      BY <1>6, <3>2, <1>0, ConstantsAssumption DEF StartFarm, Goes, ThreadsTypeOK, DataTypeOK,
         StoppedIsOut,
         MinersHaveThreads
    <3> QED
      BY <1>6, <3>1, <3>2 DEF StartFarm
  <2>4. (LockHolders /\ LockedFarm /\ MiningHasMiners)'
    BY <1>6, <1>0, ConstantsAssumption DEF StartFarm, Goes, clientVars, minerVars, ThreadsTypeOK,
       DataTypeOK, LockHolders, LockedFarm, MiningHasMiners
  <2>5. KilledAreOut'
    BY <1>6, <1>0, ConstantsAssumption DEF StartFarm, Goes, clientVars, minerVars, ThreadsTypeOK,
       DataTypeOK, KilledAreOut, StoppedIsOut, MinersHaveThreads, LockHolders
  <2> QED
    BY <2>1, <2>2, <2>3, <2>4, <2>5 DEF IInv, TypeOK
<1>7. ASSUME NEW d \in Devices, StartMiner(d) PROVE IInv'
  <2>1. ThreadsTypeOK'
    BY <1>7, <1>0, ConstantsAssumption DEF StartMiner, AllStarted, Goes, clientVars,
       ThreadsTypeOK, States, NetPlaces, MinerPlaces, ThreadPlaces
  <2>2. DataTypeOK'
    BY <1>7, <1>0 DEF StartMiner, AllStarted, clientVars, DataTypeOK
  <2>3. (StoppedIsOut /\ MinersHaveThreads)'
    BY <1>7, <1>0, ConstantsAssumption DEF StartMiner, AllStarted, Goes, clientVars,
       ThreadsTypeOK, DataTypeOK, StoppedIsOut, MinersHaveThreads
  <2>4. (LockHolders /\ LockedFarm /\ MiningHasMiners)'
    BY <1>7, <1>0, ConstantsAssumption DEF StartMiner, AllStarted, Goes, clientVars,
       ThreadsTypeOK, DataTypeOK, LockHolders, LockedFarm, MiningHasMiners
  <2>5. KilledAreOut'
    BY <1>7, <1>0, ConstantsAssumption DEF StartMiner, AllStarted, Goes, clientVars,
       ThreadsTypeOK, DataTypeOK, KilledAreOut, StoppedIsOut, MinersHaveThreads, LockHolders
  <2> QED
    BY <2>1, <2>2, <2>3, <2>4, <2>5 DEF IInv, TypeOK
<1>8. CASE FarmStarted
  <2>1. ThreadsTypeOK'
    BY <1>8, <1>0, ConstantsAssumption DEF FarmStarted, AllStarted, Goes, netVars, clientVars,
       minerVars, ThreadsTypeOK, States, NetPlaces, MinerPlaces, ThreadPlaces
  <2>2. DataTypeOK'
    BY <1>8, <1>0 DEF FarmStarted, AllStarted, netVars, clientVars, minerVars, DataTypeOK
  <2>3. (StoppedIsOut /\ MinersHaveThreads)'
    BY <1>8, <1>0, ConstantsAssumption DEF FarmStarted, AllStarted, Goes, netVars, clientVars,
       minerVars, ThreadsTypeOK, DataTypeOK, StoppedIsOut, MinersHaveThreads
  <2>4. (LockHolders /\ LockedFarm /\ MiningHasMiners)'
    BY <1>8, <1>0, ConstantsAssumption DEF FarmStarted, AllStarted, Goes, netVars, clientVars,
       minerVars, ThreadsTypeOK, DataTypeOK, LockHolders, LockedFarm, MiningHasMiners
  <2>5. KilledAreOut'
    BY <1>8, <1>0, ConstantsAssumption DEF FarmStarted, AllStarted, Goes, netVars, clientVars,
       minerVars, ThreadsTypeOK, DataTypeOK, KilledAreOut, StoppedIsOut, MinersHaveThreads,
       LockHolders
  <2> QED
    BY <2>1, <2>2, <2>3, <2>4, <2>5 DEF IInv, TypeOK
<1>9. CASE Login
  <2>1. ThreadsTypeOK'
    BY <1>9, <1>0, ConstantsAssumption DEF Login, MaySend, Goes, clientVars, farmVars, minerVars,
       ThreadsTypeOK, States, NetPlaces, MinerPlaces, ThreadPlaces
  <2>2. DataTypeOK'
    BY <1>9, <1>0 DEF Login, MaySend, clientVars, farmVars, minerVars, DataTypeOK
  <2>3. (StoppedIsOut /\ MinersHaveThreads)'
    BY <1>9, <1>0, ConstantsAssumption DEF Login, MaySend, Goes, clientVars, farmVars, minerVars,
       ThreadsTypeOK, DataTypeOK, StoppedIsOut, MinersHaveThreads
  <2>4. (LockHolders /\ LockedFarm /\ MiningHasMiners)'
    BY <1>9, <1>0, ConstantsAssumption DEF Login, MaySend, Goes, clientVars, farmVars, minerVars,
       ThreadsTypeOK, DataTypeOK, LockHolders, LockedFarm, MiningHasMiners
  <2>5. KilledAreOut'
    BY <1>9, <1>0, ConstantsAssumption DEF Login, MaySend, Goes, clientVars, farmVars, minerVars,
       ThreadsTypeOK, DataTypeOK, KilledAreOut, StoppedIsOut, MinersHaveThreads, LockHolders
  <2> QED
    BY <2>1, <2>2, <2>3, <2>4, <2>5 DEF IInv, TypeOK
<1>10. CASE LoginFails
  <2>1. ThreadsTypeOK'
    BY <1>10, <1>0, ConstantsAssumption DEF LoginFails, Goes, clientVars, farmVars, minerVars,
       ThreadsTypeOK, States, NetPlaces, MinerPlaces, ThreadPlaces
  <2>2. DataTypeOK'
    BY <1>10, <1>0 DEF LoginFails, clientVars, farmVars, minerVars, DataTypeOK
  <2>3. (StoppedIsOut /\ MinersHaveThreads)'
    BY <1>10, <1>0, ConstantsAssumption DEF LoginFails, Goes, clientVars, farmVars, minerVars,
       ThreadsTypeOK, DataTypeOK, StoppedIsOut, MinersHaveThreads
  <2>4. (LockHolders /\ LockedFarm /\ MiningHasMiners)'
    BY <1>10, <1>0, ConstantsAssumption DEF LoginFails, Goes, clientVars, farmVars, minerVars,
       ThreadsTypeOK, DataTypeOK, LockHolders, LockedFarm, MiningHasMiners
  <2>5. KilledAreOut'
    BY <1>10, <1>0, ConstantsAssumption DEF LoginFails, Goes, clientVars, farmVars, minerVars,
       ThreadsTypeOK, DataTypeOK, KilledAreOut, StoppedIsOut, MinersHaveThreads, LockHolders
  <2> QED
    BY <2>1, <2>2, <2>3, <2>4, <2>5 DEF IInv, TypeOK
<1>11. CASE ReadLine
  <2>1. ThreadsTypeOK'
    BY <1>11, <1>0, ConstantsAssumption DEF ReadLine, WorkFor, Goes, clientVars, farmVars,
       minerVars, ThreadsTypeOK, States, NetPlaces, MinerPlaces, ThreadPlaces
  <2>2. DataTypeOK'
    BY <1>11, <1>0 DEF ReadLine, WorkFor, clientVars, farmVars, minerVars, DataTypeOK
  <2>3. (StoppedIsOut /\ MinersHaveThreads)'
    <3>1. state' = state /\ miners' = miners /\ at[Net] = "read"
      BY <1>11 DEF ReadLine, farmVars
    <3>2. CASE at' = at
      BY <3>1, <3>2, <1>0 DEF StoppedIsOut, MinersHaveThreads
    <3>3. CASE Goes(Net, "setwork")
      BY <3>1, <3>3, <1>0, ConstantsAssumption DEF Goes, ThreadsTypeOK, DataTypeOK, StoppedIsOut,
         MinersHaveThreads
    <3> QED
      BY <1>11, <3>2, <3>3 DEF ReadLine
  <2>4. (LockHolders /\ LockedFarm /\ MiningHasMiners)'
    BY <1>11, <1>0, ConstantsAssumption DEF ReadLine, WorkFor, Goes, clientVars, farmVars,
       minerVars, ThreadsTypeOK, DataTypeOK, LockHolders, LockedFarm, MiningHasMiners
  <2>5. KilledAreOut'
    BY <1>11, <1>0, ConstantsAssumption DEF ReadLine, WorkFor, Goes, clientVars, farmVars,
       minerVars, ThreadsTypeOK, DataTypeOK, KilledAreOut, StoppedIsOut, MinersHaveThreads,
       LockHolders
  <2> QED
    BY <2>1, <2>2, <2>3, <2>4, <2>5 DEF IInv, TypeOK
<1>12. ASSUME NEW d \in Devices, SetWorkOf(d) PROVE IInv'
  <2> DEFINE f == at
  <2>a. /\ f \in [Workers -> Places]
        /\ f[Net] \notin MinerPlaces /\ \A e \in Devices : f[e] \notin NetPlaces
    BY <1>12, <1>0, ConstantsAssumption DEF SetWorkOf, ThreadsTypeOK, Places, NetPlaces,
       MinerPlaces, ThreadPlaces
  <2>b. at' = Notified({d}, f)
    BY <1>12 DEF SetWorkOf
  <2>c. /\ at' \in [Workers -> Places]
        /\ \A v \in Workers :
             at'[v] = f[v] \/ (v \in Devices /\ f[v] = "asleep" /\ at'[v] = "test")
    BY <2>a, <2>b, NotifiedOnlyWakes, ConstantsAssumption
  <2>1. ThreadsTypeOK'
    BY <1>12, <2>a, <2>c, <1>0, ConstantsAssumption DEF SetWorkOf, clientVars, farmVars,
       ThreadsTypeOK, States, NetPlaces, MinerPlaces, ThreadPlaces, Places
  <2>2. DataTypeOK'
    BY <1>12, <1>0 DEF SetWorkOf, clientVars, farmVars, DataTypeOK
  <2>3. (StoppedIsOut /\ MinersHaveThreads)'
    BY <1>12, <2>a, <2>c, <1>0, ConstantsAssumption DEF SetWorkOf, clientVars, farmVars,
       ThreadsTypeOK, DataTypeOK, StoppedIsOut, MinersHaveThreads, NetPlaces, MinerPlaces,
       ThreadPlaces, Places
  <2>4. (LockHolders /\ LockedFarm /\ MiningHasMiners)'
    BY <1>12, <2>a, <2>c, <1>0, ConstantsAssumption DEF SetWorkOf, clientVars, farmVars,
       ThreadsTypeOK, DataTypeOK, LockHolders, LockedFarm, MiningHasMiners, NetPlaces,
       MinerPlaces, ThreadPlaces, Places
  <2>5. KilledAreOut'
    BY <1>12, <2>a, <2>c, <1>0, ConstantsAssumption DEF SetWorkOf, clientVars, farmVars,
       ThreadsTypeOK, DataTypeOK, KilledAreOut, StoppedIsOut, MinersHaveThreads, LockHolders,
       NetPlaces, MinerPlaces, ThreadPlaces, Places
  <2> QED
    BY <2>1, <2>2, <2>3, <2>4, <2>5 DEF IInv, TypeOK
<1>13. CASE SetWorkRaces
  <2>1. ThreadsTypeOK'
    BY <1>13, <1>0 DEF SetWorkRaces, clientVars, farmVars, minerVars, ThreadsTypeOK
  <2>2. DataTypeOK'
    BY <1>13, <1>0 DEF SetWorkRaces, clientVars, farmVars, minerVars, DataTypeOK
  <2>3. (StoppedIsOut /\ MinersHaveThreads)'
    BY <1>13, <1>0, ConstantsAssumption DEF SetWorkRaces, clientVars, farmVars, minerVars,
       ThreadsTypeOK, DataTypeOK, StoppedIsOut, MinersHaveThreads
  <2>4. (LockHolders /\ LockedFarm /\ MiningHasMiners)'
    BY <1>13, <1>0, ConstantsAssumption DEF SetWorkRaces, clientVars, farmVars, minerVars,
       ThreadsTypeOK, DataTypeOK, LockHolders, LockedFarm, MiningHasMiners
  <2>5. KilledAreOut'
    BY <1>13, <1>0, ConstantsAssumption DEF SetWorkRaces, clientVars, farmVars, minerVars,
       ThreadsTypeOK, DataTypeOK, KilledAreOut, StoppedIsOut, MinersHaveThreads, LockHolders
  <2> QED
    BY <2>1, <2>2, <2>3, <2>4, <2>5 DEF IInv, TypeOK
<1>14. CASE SetWorkDone
  <2>1. ThreadsTypeOK'
    BY <1>14, <1>0, ConstantsAssumption DEF SetWorkDone, Goes, netVars, clientVars, farmVars,
       minerVars, ThreadsTypeOK, States, NetPlaces, MinerPlaces, ThreadPlaces
  <2>2. DataTypeOK'
    BY <1>14, <1>0 DEF SetWorkDone, netVars, clientVars, farmVars, minerVars, DataTypeOK
  <2>3. (StoppedIsOut /\ MinersHaveThreads)'
    BY <1>14, <1>0, ConstantsAssumption DEF SetWorkDone, Goes, netVars, clientVars, farmVars,
       minerVars, ThreadsTypeOK, DataTypeOK, StoppedIsOut, MinersHaveThreads
  <2>4. (LockHolders /\ LockedFarm /\ MiningHasMiners)'
    BY <1>14, <1>0, ConstantsAssumption DEF SetWorkDone, Goes, netVars, clientVars, farmVars,
       minerVars, ThreadsTypeOK, DataTypeOK, LockHolders, LockedFarm, MiningHasMiners
  <2>5. KilledAreOut'
    BY <1>14, <1>0, ConstantsAssumption DEF SetWorkDone, Goes, netVars, clientVars, farmVars,
       minerVars, ThreadsTypeOK, DataTypeOK, KilledAreOut, StoppedIsOut, MinersHaveThreads,
       LockHolders
  <2> QED
    BY <2>1, <2>2, <2>3, <2>4, <2>5 DEF IInv, TypeOK
<1>15. CASE ReadThrows
  <2>1. ThreadsTypeOK'
    BY <1>15, <1>0, ConstantsAssumption DEF ReadThrows, Goes, netVars, clientVars, farmVars,
       minerVars, ThreadsTypeOK, States, NetPlaces, MinerPlaces, ThreadPlaces
  <2>2. DataTypeOK'
    BY <1>15, <1>0 DEF ReadThrows, netVars, clientVars, farmVars, minerVars, DataTypeOK
  <2>3. (StoppedIsOut /\ MinersHaveThreads)'
    BY <1>15, <1>0, ConstantsAssumption DEF ReadThrows, Goes, netVars, clientVars, farmVars,
       minerVars, ThreadsTypeOK, DataTypeOK, StoppedIsOut, MinersHaveThreads
  <2>4. (LockHolders /\ LockedFarm /\ MiningHasMiners)'
    BY <1>15, <1>0, ConstantsAssumption DEF ReadThrows, Goes, netVars, clientVars, farmVars,
       minerVars, ThreadsTypeOK, DataTypeOK, LockHolders, LockedFarm, MiningHasMiners
  <2>5. KilledAreOut'
    BY <1>15, <1>0, ConstantsAssumption DEF ReadThrows, Goes, netVars, clientVars, farmVars,
       minerVars, ThreadsTypeOK, DataTypeOK, KilledAreOut, StoppedIsOut, MinersHaveThreads,
       LockHolders
  <2> QED
    BY <2>1, <2>2, <2>3, <2>4, <2>5 DEF IInv, TypeOK
<1>16. CASE ReadEmpty
  <2>1. ThreadsTypeOK'
    BY <1>16, <1>0, ConstantsAssumption DEF ReadEmpty, Goes, netVars, clientVars, farmVars,
       minerVars, ThreadsTypeOK, States, NetPlaces, MinerPlaces, ThreadPlaces
  <2>2. DataTypeOK'
    BY <1>16, <1>0 DEF ReadEmpty, netVars, clientVars, farmVars, minerVars, DataTypeOK
  <2>3. (StoppedIsOut /\ MinersHaveThreads)'
    BY <1>16, <1>0, ConstantsAssumption DEF ReadEmpty, Goes, netVars, clientVars, farmVars,
       minerVars, ThreadsTypeOK, DataTypeOK, StoppedIsOut, MinersHaveThreads
  <2>4. (LockHolders /\ LockedFarm /\ MiningHasMiners)'
    BY <1>16, <1>0, ConstantsAssumption DEF ReadEmpty, Goes, netVars, clientVars, farmVars,
       minerVars, ThreadsTypeOK, DataTypeOK, LockHolders, LockedFarm, MiningHasMiners
  <2>5. KilledAreOut'
    BY <1>16, <1>0, ConstantsAssumption DEF ReadEmpty, Goes, netVars, clientVars, farmVars,
       minerVars, ThreadsTypeOK, DataTypeOK, KilledAreOut, StoppedIsOut, MinersHaveThreads,
       LockHolders
  <2> QED
    BY <2>1, <2>2, <2>3, <2>4, <2>5 DEF IInv, TypeOK
<1> QED
  BY <1>1, <1>2, <1>3, <1>4, <1>5, <1>6, <1>7, <1>8, <1>9, <1>10, <1>11, <1>12, <1>13, <1>14,
     <1>15, <1>16 DEF NetStep

\* A miner waits, works, fails, or asks for a reconnect.
LEMMA MinerStepIInv == IInv /\ (\E d \in Devices : MinerStep(d)) => IInv'
<1> SUFFICES ASSUME IInv, (\E d \in Devices : MinerStep(d)) PROVE IInv'
  OBVIOUS
<1>0. /\ ThreadsTypeOK /\ DataTypeOK /\ StoppedIsOut /\ MinersHaveThreads
      /\ LockHolders /\ LockedFarm /\ MiningHasMiners /\ KilledAreOut
  BY DEF IInv, TypeOK
<1>1. ASSUME NEW d \in Devices, MinerTests(d) PROVE IInv'
  <2>1. ThreadsTypeOK'
    BY <1>1, <1>0, ConstantsAssumption DEF MinerTests, Goes, netVars, clientVars, farmVars,
       minerVars, ThreadsTypeOK, States, NetPlaces, MinerPlaces, ThreadPlaces
  <2>2. DataTypeOK'
    BY <1>1, <1>0 DEF MinerTests, netVars, clientVars, farmVars, minerVars, DataTypeOK
  <2>3. (StoppedIsOut /\ MinersHaveThreads)'
    BY <1>1, <1>0, ConstantsAssumption DEF MinerTests, Goes, netVars, clientVars, farmVars,
       minerVars, ThreadsTypeOK, DataTypeOK, StoppedIsOut, MinersHaveThreads
  <2>4. (LockHolders /\ LockedFarm /\ MiningHasMiners)'
    BY <1>1, <1>0, ConstantsAssumption DEF MinerTests, Goes, netVars, clientVars, farmVars,
       minerVars, ThreadsTypeOK, DataTypeOK, LockHolders, LockedFarm, MiningHasMiners
  <2>5. KilledAreOut'
    BY <1>1, <1>0, ConstantsAssumption DEF MinerTests, Goes, netVars, clientVars, farmVars,
       minerVars, ThreadsTypeOK, DataTypeOK, KilledAreOut, StoppedIsOut, MinersHaveThreads,
       LockHolders
  <2> QED
    BY <2>1, <2>2, <2>3, <2>4, <2>5 DEF IInv, TypeOK
<1>2. ASSUME NEW d \in Devices, MinerBlocks(d) PROVE IInv'
  <2>1. ThreadsTypeOK'
    BY <1>2, <1>0, ConstantsAssumption DEF MinerBlocks, Goes, netVars, clientVars, farmVars,
       minerVars, ThreadsTypeOK, States, NetPlaces, MinerPlaces, ThreadPlaces
  <2>2. DataTypeOK'
    BY <1>2, <1>0 DEF MinerBlocks, netVars, clientVars, farmVars, minerVars, DataTypeOK
  <2>3. (StoppedIsOut /\ MinersHaveThreads)'
    BY <1>2, <1>0, ConstantsAssumption DEF MinerBlocks, Goes, netVars, clientVars, farmVars,
       minerVars, ThreadsTypeOK, DataTypeOK, StoppedIsOut, MinersHaveThreads
  <2>4. (LockHolders /\ LockedFarm /\ MiningHasMiners)'
    BY <1>2, <1>0, ConstantsAssumption DEF MinerBlocks, Goes, netVars, clientVars, farmVars,
       minerVars, ThreadsTypeOK, DataTypeOK, LockHolders, LockedFarm, MiningHasMiners
  <2>5. KilledAreOut'
    BY <1>2, <1>0, ConstantsAssumption DEF MinerBlocks, Goes, netVars, clientVars, farmVars,
       minerVars, ThreadsTypeOK, DataTypeOK, KilledAreOut, StoppedIsOut, MinersHaveThreads,
       LockHolders
  <2> QED
    BY <2>1, <2>2, <2>3, <2>4, <2>5 DEF IInv, TypeOK
<1>3. ASSUME NEW d \in Devices, MinerWorks(d) PROVE IInv'
  <2>1. ThreadsTypeOK'
    BY <1>3, <1>0, ConstantsAssumption DEF MinerWorks, Goes, netVars, clientVars, farmVars,
       minerVars, ThreadsTypeOK, States, NetPlaces, MinerPlaces, ThreadPlaces
  <2>2. DataTypeOK'
    BY <1>3, <1>0 DEF MinerWorks, netVars, clientVars, farmVars, minerVars, DataTypeOK
  <2>3. (StoppedIsOut /\ MinersHaveThreads)'
    BY <1>3, <1>0, ConstantsAssumption DEF MinerWorks, Goes, netVars, clientVars, farmVars,
       minerVars, ThreadsTypeOK, DataTypeOK, StoppedIsOut, MinersHaveThreads
  <2>4. (LockHolders /\ LockedFarm /\ MiningHasMiners)'
    BY <1>3, <1>0, ConstantsAssumption DEF MinerWorks, Goes, netVars, clientVars, farmVars,
       minerVars, ThreadsTypeOK, DataTypeOK, LockHolders, LockedFarm, MiningHasMiners
  <2>5. KilledAreOut'
    BY <1>3, <1>0, ConstantsAssumption DEF MinerWorks, Goes, netVars, clientVars, farmVars,
       minerVars, ThreadsTypeOK, DataTypeOK, KilledAreOut, StoppedIsOut, MinersHaveThreads,
       LockHolders
  <2> QED
    BY <2>1, <2>2, <2>3, <2>4, <2>5 DEF IInv, TypeOK
<1>4. ASSUME NEW d \in Devices, InitFails(d) PROVE IInv'
  <2>1. ThreadsTypeOK'
    BY <1>4, <1>0, ConstantsAssumption DEF InitFails, StateOfUseless, Goes, netVars, clientVars,
       minerVars, ThreadsTypeOK, States, NetPlaces, MinerPlaces, ThreadPlaces
  <2>2. DataTypeOK'
    BY <1>4, <1>0 DEF InitFails, StateOfUseless, netVars, clientVars, minerVars, DataTypeOK
  <2>3. (StoppedIsOut /\ MinersHaveThreads)'
    BY <1>4, <1>0, ConstantsAssumption DEF InitFails, StateOfUseless, Goes, netVars, clientVars,
       minerVars, ThreadsTypeOK, DataTypeOK, StoppedIsOut, MinersHaveThreads
  <2>4. (LockHolders /\ LockedFarm /\ MiningHasMiners)'
    BY <1>4, <1>0, ConstantsAssumption DEF InitFails, StateOfUseless, Goes, netVars, clientVars,
       minerVars, ThreadsTypeOK, DataTypeOK, LockHolders, LockedFarm, MiningHasMiners
  <2>5. KilledAreOut'
    BY <1>4, <1>0, ConstantsAssumption DEF InitFails, StateOfUseless, Goes, netVars, clientVars,
       minerVars, ThreadsTypeOK, DataTypeOK, KilledAreOut, StoppedIsOut, MinersHaveThreads,
       LockHolders
  <2> QED
    BY <2>1, <2>2, <2>3, <2>4, <2>5 DEF IInv, TypeOK
<1>5. ASSUME NEW d \in Devices, MinerThrows(d) PROVE IInv'
  <2>1. ThreadsTypeOK'
    BY <1>5, <1>0, ConstantsAssumption DEF MinerThrows, Goes, netVars, clientVars, farmVars,
       minerVars, ThreadsTypeOK, States, NetPlaces, MinerPlaces, ThreadPlaces
  <2>2. DataTypeOK'
    BY <1>5, <1>0 DEF MinerThrows, netVars, clientVars, farmVars, minerVars, DataTypeOK
  <2>3. (StoppedIsOut /\ MinersHaveThreads)'
    BY <1>5, <1>0, ConstantsAssumption DEF MinerThrows, Goes, netVars, clientVars, farmVars,
       minerVars, ThreadsTypeOK, DataTypeOK, StoppedIsOut, MinersHaveThreads
  <2>4. (LockHolders /\ LockedFarm /\ MiningHasMiners)'
    BY <1>5, <1>0, ConstantsAssumption DEF MinerThrows, Goes, netVars, clientVars, farmVars,
       minerVars, ThreadsTypeOK, DataTypeOK, LockHolders, LockedFarm, MiningHasMiners
  <2>5. KilledAreOut'
    BY <1>5, <1>0, ConstantsAssumption DEF MinerThrows, Goes, netVars, clientVars, farmVars,
       minerVars, ThreadsTypeOK, DataTypeOK, KilledAreOut, StoppedIsOut, MinersHaveThreads,
       LockHolders
  <2> QED
    BY <2>1, <2>2, <2>3, <2>4, <2>5 DEF IInv, TypeOK
<1>6. ASSUME NEW d \in Devices, WorkStalls(d) PROVE IInv'
  <2>1. ThreadsTypeOK'
    BY <1>6, <1>0, ConstantsAssumption DEF WorkStalls, Goes, netVars, clientVars, farmVars,
       ThreadsTypeOK, States, NetPlaces, MinerPlaces, ThreadPlaces
  <2>2. DataTypeOK'
    BY <1>6, <1>0 DEF WorkStalls, netVars, clientVars, farmVars, DataTypeOK
  <2>3. (StoppedIsOut /\ MinersHaveThreads)'
    BY <1>6, <1>0, ConstantsAssumption DEF WorkStalls, Goes, netVars, clientVars, farmVars,
       ThreadsTypeOK, DataTypeOK, StoppedIsOut, MinersHaveThreads
  <2>4. (LockHolders /\ LockedFarm /\ MiningHasMiners)'
    BY <1>6, <1>0, ConstantsAssumption DEF WorkStalls, Goes, netVars, clientVars, farmVars,
       ThreadsTypeOK, DataTypeOK, LockHolders, LockedFarm, MiningHasMiners
  <2>5. KilledAreOut'
    BY <1>6, <1>0, ConstantsAssumption DEF WorkStalls, Goes, netVars, clientVars, farmVars,
       ThreadsTypeOK, DataTypeOK, KilledAreOut, StoppedIsOut, MinersHaveThreads, LockHolders
  <2> QED
    BY <2>1, <2>2, <2>3, <2>4, <2>5 DEF IInv, TypeOK
<1>7. ASSUME NEW d \in Devices, MinerReconnects(d) PROVE IInv'
  <2> DEFINE f == [at EXCEPT ![d] = IF state[d] = "Started" THEN "test" ELSE "leave"]
  <2>a. /\ f \in [Workers -> Places]
        /\ f[Net] \notin MinerPlaces /\ \A e \in Devices : f[e] \notin NetPlaces
    BY <1>7, <1>0, ConstantsAssumption DEF MinerReconnects, DropsLink, ThreadsTypeOK, Places,
       NetPlaces, MinerPlaces, ThreadPlaces
  <2>b. FarmPause(f)
    BY <1>7 DEF MinerReconnects, DropsLink
  <2>c. /\ at' \in [Workers -> Places]
        /\ done' \in [Devices -> BOOLEAN] /\ (mining => lock = Nobody)
        /\ \A v \in Workers :
             at'[v] = f[v] \/ (v \in Devices /\ f[v] = "asleep" /\ at'[v] = "test")
    BY <2>a, <2>b, PauseOnlyWakes
  <2>1. ThreadsTypeOK'
    BY <1>7, <2>a, <2>c, <1>0, ConstantsAssumption DEF MinerReconnects, DropsLink, clientVars,
       farmVars, ThreadsTypeOK, States, NetPlaces, MinerPlaces, ThreadPlaces, Places
  <2>2. DataTypeOK'
    BY <1>7, <2>c, <1>0 DEF MinerReconnects, DropsLink, clientVars, farmVars, DataTypeOK
  <2>3. (StoppedIsOut /\ MinersHaveThreads)'
    BY <1>7, <2>a, <2>c, <1>0, ConstantsAssumption DEF MinerReconnects, DropsLink, clientVars,
       farmVars, ThreadsTypeOK, DataTypeOK, StoppedIsOut, MinersHaveThreads, NetPlaces,
       MinerPlaces, ThreadPlaces, Places
  <2>4. (LockHolders /\ LockedFarm /\ MiningHasMiners)'
    BY <1>7, <2>a, <2>c, <1>0, ConstantsAssumption DEF MinerReconnects, DropsLink, clientVars,
       farmVars, ThreadsTypeOK, DataTypeOK, LockHolders, LockedFarm, MiningHasMiners, NetPlaces,
       MinerPlaces, ThreadPlaces, Places
  <2>5. KilledAreOut'
    BY <1>7, <2>a, <2>c, <1>0, ConstantsAssumption DEF MinerReconnects, DropsLink, clientVars,
       farmVars, ThreadsTypeOK, DataTypeOK, KilledAreOut, StoppedIsOut, MinersHaveThreads,
       LockHolders, NetPlaces, MinerPlaces, ThreadPlaces, Places
  <2> QED
    BY <2>1, <2>2, <2>3, <2>4, <2>5 DEF IInv, TypeOK
<1> QED
  BY <1>1, <1>2, <1>3, <1>4, <1>5, <1>6, <1>7 DEF MinerStep

\* A pool sends a line or drops the connection.
LEMMA PoolStepIInv == IInv /\ (PoolSends \/ PoolDrops) => IInv'
<1> SUFFICES ASSUME IInv, (PoolSends \/ PoolDrops) PROVE IInv'
  OBVIOUS
<1>0. /\ ThreadsTypeOK /\ DataTypeOK /\ StoppedIsOut /\ MinersHaveThreads
      /\ LockHolders /\ LockedFarm /\ MiningHasMiners /\ KilledAreOut
  BY DEF IInv, TypeOK
<1>1. CASE PoolSends
  <2>1. ThreadsTypeOK'
    BY <1>1, <1>0 DEF PoolSends, MaySend, clientVars, farmVars, minerVars, ThreadsTypeOK
  <2>2. DataTypeOK'
    BY <1>1, <1>0 DEF PoolSends, MaySend, clientVars, farmVars, minerVars, DataTypeOK
  <2>3. (StoppedIsOut /\ MinersHaveThreads)'
    BY <1>1, <1>0, ConstantsAssumption DEF PoolSends, MaySend, clientVars, farmVars, minerVars,
       ThreadsTypeOK, DataTypeOK, StoppedIsOut, MinersHaveThreads
  <2>4. (LockHolders /\ LockedFarm /\ MiningHasMiners)'
    BY <1>1, <1>0, ConstantsAssumption DEF PoolSends, MaySend, clientVars, farmVars, minerVars,
       ThreadsTypeOK, DataTypeOK, LockHolders, LockedFarm, MiningHasMiners
  <2>5. KilledAreOut'
    BY <1>1, <1>0, ConstantsAssumption DEF PoolSends, MaySend, clientVars, farmVars, minerVars,
       ThreadsTypeOK, DataTypeOK, KilledAreOut, StoppedIsOut, MinersHaveThreads, LockHolders
  <2> QED
    BY <2>1, <2>2, <2>3, <2>4, <2>5 DEF IInv, TypeOK
<1>2. CASE PoolDrops
  <2>1. ThreadsTypeOK'
    BY <1>2, <1>0 DEF PoolDrops, clientVars, farmVars, minerVars, ThreadsTypeOK
  <2>2. DataTypeOK'
    BY <1>2, <1>0 DEF PoolDrops, clientVars, farmVars, minerVars, DataTypeOK
  <2>3. (StoppedIsOut /\ MinersHaveThreads)'
    BY <1>2, <1>0, ConstantsAssumption DEF PoolDrops, clientVars, farmVars, minerVars,
       ThreadsTypeOK, DataTypeOK, StoppedIsOut, MinersHaveThreads
  <2>4. (LockHolders /\ LockedFarm /\ MiningHasMiners)'
    BY <1>2, <1>0, ConstantsAssumption DEF PoolDrops, clientVars, farmVars, minerVars,
       ThreadsTypeOK, DataTypeOK, LockHolders, LockedFarm, MiningHasMiners
  <2>5. KilledAreOut'
    BY <1>2, <1>0, ConstantsAssumption DEF PoolDrops, clientVars, farmVars, minerVars,
       ThreadsTypeOK, DataTypeOK, KilledAreOut, StoppedIsOut, MinersHaveThreads, LockHolders
  <2> QED
    BY <2>1, <2>2, <2>3, <2>4, <2>5 DEF IInv, TypeOK
<1> QED
  BY <1>1, <1>2 DEF IInv

-----------------------------------------------------------------------------
LEMMA NextIInv == IInv /\ [Next]_vars => IInv'
<1> SUFFICES ASSUME IInv, [Next]_vars PROVE IInv'
  OBVIOUS
<1>1. CASE UNCHANGED vars
  <2>1. UNCHANGED <<state, at, running, connected, authorized, link, line, lastNotify, toDo, client,
                    toKill, lock, mining, miners, enabled, done, template, exited>>
    BY <1>1 DEF vars, netVars, clientVars, farmVars, minerVars
  <2>2. ThreadsTypeOK' /\ DataTypeOK'
    BY <2>1 DEF IInv, TypeOK, ThreadsTypeOK, DataTypeOK
  <2>3. (StoppedIsOut /\ LockHolders /\ MinersHaveThreads /\ KilledAreOut)'
    BY <2>1 DEF IInv, StoppedIsOut, LockHolders, MinersHaveThreads, KilledAreOut
  <2>4. (LockedFarm /\ MiningHasMiners)'
    BY <2>1 DEF IInv, LockedFarm, MiningHasMiners
  <2> QED
    BY <2>2, <2>3, <2>4 DEF IInv, TypeOK
<1> QED
  BY <1>1, WorkerStepIInv, ClientStepIInv, NetStepIInv, MinerStepIInv, PoolStepIInv DEF Next,
     Exited

\* In every run of the program every part of the invariant holds.
THEOREM Invariant == Spec => []IInv
BY InitIInv, NextIInv, PTL DEF Spec

\* The variables have their types, for any devices, jobs and pools that repeat themselves or not.
THEOREM TypeCorrect == Spec => []TypeOK
<1>1. IInv => TypeOK
  BY DEF IInv
<1> QED
  BY <1>1, Invariant, PTL

\* A thread that shows "Stopped" is outside of its WorkLoop (Worker.cpp).
THEOREM StoppedThreadsAreOut == Spec => []StoppedIsOut
<1>1. IInv => StoppedIsOut
  BY DEF IInv
<1> QED
  BY <1>1, Invariant, PTL

\* No miner works while the client thread waits for its end under the farm's mutex.
THEOREM KilledThreadsAreOut == Spec => []KilledAreOut
<1>1. IInv => KilledAreOut
  BY DEF IInv
<1> QED
  BY <1>1, Invariant, PTL

\* Unlocked, the farm is mining exactly when it has miners.
THEOREM FarmMinesWithMiners == Spec => []MiningHasMiners
<1>1. IInv => MiningHasMiners
  BY DEF IInv
<1> QED
  BY <1>1, Invariant, PTL


-----------------------------------------------------------------------------
(* Pauses, with pools that do not send their last line again on a new connection.                *)

\* The line that waits is not the last one that was taken.
LinesAreNew == line # NoJob => line # lastNotify

\* On a connection nobody is about to give up, the miners the network thread has reached with the
\* work, all of them when it is back at its loop, have something to do.
GivenWork ==
  (link = "open" /\ connected /\ client # "disconnect" /\ \A d \in Devices : at[d] # "stall") =>
    /\ (at[Net] \in {"loop", "redial", "read", "leave", "parked", "none"} /\ line = NoJob) =>
         \A d \in miners : done[d]
    /\ at[Net] = "setwork" => \A d \in miners \ toDo : done[d]

PauseInv == LinesAreNew /\ GivenWork

LEMMA InitPauseInv == Init => PauseInv
BY DEF Init, PauseInv, LinesAreNew, GivenWork

\* A thread enters its WorkLoop, leaves it, or ends.
LEMMA WorkerStepPauseInv ==
  IInv /\ ~Repeats /\ PauseInv /\ (\E w \in Workers : WorkerStep(w)) => PauseInv'
<1> SUFFICES ASSUME IInv, ~Repeats, PauseInv, (\E w \in Workers : WorkerStep(w)) PROVE PauseInv'
  OBVIOUS
<1>0. ThreadsTypeOK /\ DataTypeOK /\ MinersHaveThreads
  BY DEF IInv, TypeOK
<1>1. ASSUME NEW w \in Workers, WorkLoopBegins(w) PROVE PauseInv'
  BY <1>1, <1>0, ConstantsAssumption DEF WorkLoopBegins, Goes, netVars, clientVars, farmVars,
     minerVars, ThreadsTypeOK, DataTypeOK, PauseInv, LinesAreNew, GivenWork
<1>2. ASSUME NEW w \in Workers, WorkLoopEnds(w) PROVE PauseInv'
  BY <1>2, <1>0, ConstantsAssumption DEF WorkLoopEnds, Goes, netVars, clientVars, farmVars,
     minerVars, ThreadsTypeOK, DataTypeOK, PauseInv, LinesAreNew, GivenWork
<1>3. ASSUME NEW w \in Workers, ThreadEnds(w) PROVE PauseInv'
  BY <1>3, <1>0, ConstantsAssumption DEF ThreadEnds, Goes, netVars, clientVars, farmVars,
     minerVars, ThreadsTypeOK, DataTypeOK, PauseInv, LinesAreNew, GivenWork
<1> QED
  BY <1>1, <1>2, <1>3 DEF WorkerStep

\* The client thread pauses the farm when it is about to close the connection only.
LEMMA ClientStepPauseInv ==
  IInv /\ ~Repeats /\ PauseInv /\ ClientStep => PauseInv'
<1> SUFFICES ASSUME IInv, ~Repeats, PauseInv, ClientStep PROVE PauseInv'
  OBVIOUS
<1>0. ThreadsTypeOK /\ DataTypeOK /\ MinersHaveThreads
  BY DEF IInv, TypeOK
<1>1. CASE ClientStarts
  BY <1>1, <1>0, ConstantsAssumption DEF ClientStarts, RunsAgain, Goes, farmVars, minerVars,
     ThreadsTypeOK, DataTypeOK, PauseInv, LinesAreNew, GivenWork
<1>2. CASE ClientStarted
  BY <1>2, <1>0, ConstantsAssumption DEF ClientStarted, netVars, farmVars, minerVars,
     ThreadsTypeOK, DataTypeOK, PauseInv, LinesAreNew, GivenWork
<1>3. CASE MiningProgress
  BY <1>3, <1>0, ConstantsAssumption DEF MiningProgress, AllDead, ToKill, netVars, minerVars,
     ThreadsTypeOK, DataTypeOK, PauseInv, LinesAreNew, GivenWork
<1>4. CASE FarmStopped
  BY <1>4, <1>0, ConstantsAssumption DEF FarmStopped, netVars, minerVars, ThreadsTypeOK,
     DataTypeOK, PauseInv, LinesAreNew, GivenWork
<1>5. ASSUME NEW d \in Devices, KillBegins(d) PROVE PauseInv'
  <2> DEFINE f == at
  <2>1. f \in [Workers -> Places]
    BY <1>0 DEF ThreadsTypeOK, Places
  <2>2. at' = Notified({d}, f)
    BY <1>5 DEF KillBegins
  <2>3. \A v \in Workers : at'[v] = f[v] \/ (v \in Devices /\ f[v] = "asleep" /\ at'[v] = "test")
    BY <2>1, <2>2, NotifiedOnlyWakes
  <2>4. at'[Net] = at[Net] /\ \A e \in Devices : at[e] = "stall" => at'[e] = "stall"
    BY <2>3, ConstantsAssumption
  <2> QED
    BY <1>5, <2>4, <1>0 DEF KillBegins, farmVars, clientVars, netVars, DataTypeOK, PauseInv,
       LinesAreNew, GivenWork
<1>6. ASSUME NEW d \in Devices, KillEnds(d) PROVE PauseInv'
  BY <1>6, <1>0, ConstantsAssumption DEF KillEnds, netVars, farmVars, minerVars, ThreadsTypeOK,
     DataTypeOK, PauseInv, LinesAreNew, GivenWork
<1>7. CASE ClientLooks
  BY <1>7, <1>0, ConstantsAssumption DEF ClientLooks, netVars, farmVars, minerVars,
     ThreadsTypeOK, DataTypeOK, PauseInv, LinesAreNew, GivenWork
<1>8. CASE ClientWatches
  BY <1>8, <1>0, ConstantsAssumption DEF ClientWatches, netVars, farmVars, minerVars,
     ThreadsTypeOK, DataTypeOK, PauseInv, LinesAreNew, GivenWork
<1>9. CASE ClientPauses
  BY <1>9 DEF ClientPauses, netVars, PauseInv, LinesAreNew, GivenWork
<1>10. CASE Disconnects
  BY <1>10, <1>0, ConstantsAssumption DEF Disconnects, farmVars, minerVars, ThreadsTypeOK,
     DataTypeOK, PauseInv, LinesAreNew, GivenWork
<1>11. CASE ClosesSocket
  BY <1>11, <1>0, ConstantsAssumption DEF ClosesSocket, farmVars, minerVars, ThreadsTypeOK,
     DataTypeOK, PauseInv, LinesAreNew, GivenWork
<1>12. CASE StopBegins
  BY <1>12, <1>0, ConstantsAssumption DEF StopBegins, netVars, farmVars, minerVars,
     ThreadsTypeOK, DataTypeOK, PauseInv, LinesAreNew, GivenWork
<1>13. CASE StopEnds
  BY <1>13, <1>0, ConstantsAssumption DEF StopEnds, netVars, farmVars, minerVars, ThreadsTypeOK,
     DataTypeOK, PauseInv, LinesAreNew, GivenWork
<1> QED
  BY <1>1, <1>2, <1>3, <1>4, <1>5, <1>6, <1>7, <1>8, <1>9, <1>10, <1>11, <1>12, <1>13 DEF
     ClientStep

\* The network thread gives every line it reads to every miner.
LEMMA NetStepPauseInv ==
  IInv /\ ~Repeats /\ PauseInv /\ (NetStep \/ ReadEmpty) => PauseInv'
<1> SUFFICES ASSUME IInv, ~Repeats, PauseInv, (NetStep \/ ReadEmpty) PROVE PauseInv'
  OBVIOUS
<1>0. ThreadsTypeOK /\ DataTypeOK /\ MinersHaveThreads
  BY DEF IInv, TypeOK
<1>1. CASE NetLoops
  BY <1>1, <1>0, ConstantsAssumption DEF NetLoops, Goes, netVars, clientVars, farmVars,
     minerVars, ThreadsTypeOK, DataTypeOK, PauseInv, LinesAreNew, GivenWork
<1>2. CASE NetRedials
  BY <1>2, <1>0, ConstantsAssumption DEF NetRedials, Goes, netVars, clientVars, farmVars,
     minerVars, ThreadsTypeOK, DataTypeOK, PauseInv, LinesAreNew, GivenWork
<1>3. CASE DialOk
  BY <1>3, <1>0, ConstantsAssumption DEF DialOk, Goes, clientVars, farmVars, minerVars,
     ThreadsTypeOK, DataTypeOK, PauseInv, LinesAreNew, GivenWork
<1>4. CASE DialFails
  BY <1>4, <1>0, ConstantsAssumption DEF DialFails, Goes, clientVars, farmVars, minerVars,
     ThreadsTypeOK, DataTypeOK, PauseInv, LinesAreNew, GivenWork
<1>5. CASE NetReconnects
  <2>1. ~connected' /\ line' \in {line, NoJob} /\ lastNotify' = lastNotify
    BY <1>5 DEF NetReconnects, DropsLink
  <2> QED
    BY <2>1 DEF PauseInv, LinesAreNew, GivenWork
<1>6. CASE StartFarm
  BY <1>6, <1>0, ConstantsAssumption DEF StartFarm, Goes, clientVars, minerVars, ThreadsTypeOK,
     DataTypeOK, PauseInv, LinesAreNew, GivenWork
<1>7. ASSUME NEW d \in Devices, StartMiner(d) PROVE PauseInv'
  BY <1>7, <1>0, ConstantsAssumption DEF StartMiner, AllStarted, Goes, clientVars, ThreadsTypeOK,
     DataTypeOK, PauseInv, LinesAreNew, GivenWork
<1>8. CASE FarmStarted
  BY <1>8, <1>0, ConstantsAssumption DEF FarmStarted, AllStarted, Goes, netVars, clientVars,
     minerVars, ThreadsTypeOK, DataTypeOK, PauseInv, LinesAreNew, GivenWork
<1>9. CASE Login
  BY <1>9, <1>0, ConstantsAssumption DEF Login, MaySend, Goes, clientVars, farmVars, minerVars,
     ThreadsTypeOK, DataTypeOK, PauseInv, LinesAreNew, GivenWork
<1>10. CASE LoginFails
  BY <1>10, <1>0, ConstantsAssumption DEF LoginFails, Goes, clientVars, farmVars, minerVars,
     ThreadsTypeOK, DataTypeOK, PauseInv, LinesAreNew, GivenWork
<1>11. CASE ReadLine
  BY <1>11, <1>0, ConstantsAssumption DEF ReadLine, WorkFor, Goes, clientVars, farmVars,
     minerVars, ThreadsTypeOK, DataTypeOK, PauseInv, LinesAreNew, GivenWork
<1>12. ASSUME NEW d \in Devices, SetWorkOf(d) PROVE PauseInv'
  <2> DEFINE f == at
  <2>1. f \in [Workers -> Places]
    BY <1>0 DEF ThreadsTypeOK, Places
  <2>2. at' = Notified({d}, f)
    BY <1>12 DEF SetWorkOf
  <2>3. \A v \in Workers : at'[v] = f[v] \/ (v \in Devices /\ f[v] = "asleep" /\ at'[v] = "test")
    BY <2>1, <2>2, NotifiedOnlyWakes
  <2>4. at'[Net] = at[Net] /\ \A e \in Devices : at[e] = "stall" => at'[e] = "stall"
    BY <2>3, ConstantsAssumption
  <2> QED
    BY <1>12, <2>4, <1>0 DEF SetWorkOf, farmVars, clientVars, netVars, DataTypeOK, PauseInv,
       LinesAreNew, GivenWork
<1>13. CASE SetWorkRaces
  BY <1>13, <1>0, ConstantsAssumption DEF SetWorkRaces, clientVars, farmVars, minerVars,
     ThreadsTypeOK, DataTypeOK, PauseInv, LinesAreNew, GivenWork
<1>14. CASE SetWorkDone
  BY <1>14, <1>0, ConstantsAssumption DEF SetWorkDone, Goes, netVars, clientVars, farmVars,
     minerVars, ThreadsTypeOK, DataTypeOK, PauseInv, LinesAreNew, GivenWork
<1>15. CASE ReadThrows
  BY <1>15, <1>0, ConstantsAssumption DEF ReadThrows, Goes, netVars, clientVars, farmVars,
     minerVars, ThreadsTypeOK, DataTypeOK, PauseInv, LinesAreNew, GivenWork
<1>16. CASE ReadEmpty
  BY <1>16, <1>0, ConstantsAssumption DEF ReadEmpty, Goes, netVars, clientVars, farmVars,
     minerVars, ThreadsTypeOK, DataTypeOK, PauseInv, LinesAreNew, GivenWork
<1> QED
  BY <1>1, <1>2, <1>3, <1>4, <1>5, <1>6, <1>7, <1>8, <1>9, <1>10, <1>11, <1>12, <1>13, <1>14,
     <1>15, <1>16 DEF NetStep

\* A miner that resets its event is about to give up the connection.
LEMMA MinerStepPauseInv ==
  IInv /\ ~Repeats /\ PauseInv /\ (\E d \in Devices : MinerStep(d)) => PauseInv'
<1> SUFFICES ASSUME IInv, ~Repeats, PauseInv, (\E d \in Devices : MinerStep(d)) PROVE PauseInv'
  OBVIOUS
<1>0. ThreadsTypeOK /\ DataTypeOK /\ MinersHaveThreads
  BY DEF IInv, TypeOK
<1>1. ASSUME NEW d \in Devices, MinerTests(d) PROVE PauseInv'
  BY <1>1, <1>0, ConstantsAssumption DEF MinerTests, Goes, netVars, clientVars, farmVars,
     minerVars, ThreadsTypeOK, DataTypeOK, PauseInv, LinesAreNew, GivenWork
<1>2. ASSUME NEW d \in Devices, MinerBlocks(d) PROVE PauseInv'
  BY <1>2, <1>0, ConstantsAssumption DEF MinerBlocks, Goes, netVars, clientVars, farmVars,
     minerVars, ThreadsTypeOK, DataTypeOK, PauseInv, LinesAreNew, GivenWork
<1>3. ASSUME NEW d \in Devices, MinerWorks(d) PROVE PauseInv'
  BY <1>3, <1>0, ConstantsAssumption DEF MinerWorks, Goes, netVars, clientVars, farmVars,
     minerVars, ThreadsTypeOK, DataTypeOK, PauseInv, LinesAreNew, GivenWork
<1>4. ASSUME NEW d \in Devices, InitFails(d) PROVE PauseInv'
  BY <1>4, <1>0, ConstantsAssumption DEF InitFails, StateOfUseless, Goes, netVars, clientVars,
     minerVars, ThreadsTypeOK, DataTypeOK, PauseInv, LinesAreNew, GivenWork
<1>5. ASSUME NEW d \in Devices, MinerThrows(d) PROVE PauseInv'
  BY <1>5, <1>0, ConstantsAssumption DEF MinerThrows, Goes, netVars, clientVars, farmVars,
     minerVars, ThreadsTypeOK, DataTypeOK, PauseInv, LinesAreNew, GivenWork
<1>6. ASSUME NEW d \in Devices, WorkStalls(d) PROVE PauseInv'
  BY <1>6, <1>0, ConstantsAssumption DEF WorkStalls, Goes, netVars, clientVars, farmVars,
     ThreadsTypeOK, DataTypeOK, PauseInv, LinesAreNew, GivenWork
<1>7. ASSUME NEW d \in Devices, MinerReconnects(d) PROVE PauseInv'
  <2>1. ~connected' /\ line' \in {line, NoJob} /\ lastNotify' = lastNotify
    BY <1>7 DEF MinerReconnects, DropsLink
  <2> QED
    BY <2>1 DEF PauseInv, LinesAreNew, GivenWork
<1> QED
  BY <1>1, <1>2, <1>3, <1>4, <1>5, <1>6, <1>7 DEF MinerStep

\* A pool sends new lines only, or drops the connection.
LEMMA PoolStepPauseInv ==
  IInv /\ ~Repeats /\ PauseInv /\ (PoolSends \/ PoolDrops) => PauseInv'
<1> SUFFICES ASSUME IInv, ~Repeats, PauseInv, (PoolSends \/ PoolDrops) PROVE PauseInv'
  OBVIOUS
<1>0. ThreadsTypeOK /\ DataTypeOK /\ MinersHaveThreads
  BY DEF IInv, TypeOK
<1>1. CASE PoolSends
  BY <1>1, <1>0, ConstantsAssumption DEF PoolSends, MaySend, clientVars, farmVars, minerVars,
     ThreadsTypeOK, DataTypeOK, PauseInv, LinesAreNew, GivenWork
<1>2. CASE PoolDrops
  BY <1>2, <1>0, ConstantsAssumption DEF PoolDrops, clientVars, farmVars, minerVars,
     ThreadsTypeOK, DataTypeOK, PauseInv, LinesAreNew, GivenWork
<1> QED
  BY <1>1, <1>2 DEF IInv

LEMMA NextPauseInv == IInv /\ ~Repeats /\ PauseInv /\ [Next]_vars => PauseInv'
<1> SUFFICES ASSUME IInv, ~Repeats, PauseInv, [Next]_vars PROVE PauseInv'
  OBVIOUS
<1>1. CASE UNCHANGED vars
  BY <1>1 DEF vars, netVars, clientVars, farmVars, minerVars, PauseInv, LinesAreNew, GivenWork
<1> QED
  BY <1>1, WorkerStepPauseInv, ClientStepPauseInv, NetStepPauseInv, MinerStepPauseInv,
     PoolStepPauseInv
     DEF Next, Exited

\* With pools that send a line once, miners are paused for a reconnect or stale work only: the
\* filter of StratumClient.cpp that ignores a mining.notify seen before keeps no miner waiting.
THEOREM PausesEndWithNewLines ==
  ASSUME ~Repeats PROVE Spec => []PausedOnlyForReconnect
<1>1. PauseInv => PausedOnlyForReconnect
  BY DEF PauseInv, GivenWork, PausedOnlyForReconnect
<1>2. IInv /\ PauseInv /\ [Next]_vars => PauseInv'
  BY NextPauseInv
<1> QED
  BY <1>1, <1>2, InitPauseInv, Invariant, PTL DEF Spec

=============================================================================
