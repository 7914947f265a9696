# A TLA+ model of parniancoin-miner

This directory holds TLA+ modules that model the miner's control logic, TLC configurations that
check them on small instances, and theorems about them that TLAPS checks for every value of the
constants. `PROJECT.json` lists the runs, the mutants, the source lines each definition stands
for, the hazards of the code and the findings. Paths below are relative to the repository.

```
tlasany StratumClient.tla                                 # parse
tlc -workers 2 -config miners.cfg MCStratumClient.tla     # check one run
tlapm StratumClient_proofs.tla                            # check the proofs of one module
```

## 1. The system

A C++ program that mines RandomHash for a pool over the stratum protocol (line-based JSON over
TCP), on CPU and GPU devices, with backup pools and an automatic choice of the pool's port.

### Threads

| Thread | Code | What it does |
|---|---|---|
| network | `StratumClient::WorkLoop` | connects, logs in, reads lines, reconnects, changes pools |
| miner client | `GenericMinerClient::doStratum` | starts the client; every second the work timeout and the failback; every few seconds the hashrate and the automatic port |
| miner, one per device | `GenericCLMiner::WorkLoop` | takes the farm's work, hashes, hands solutions on; asks for a reconnect when its work is stale |
| CPU kernel, one per core | `RandomHashCpuKernel` | hashes nonces of the package in its ring |
| submit, one per solution | `Farm::submitProof` | checks a solution and writes it to the socket |
| device, one per GPU | the driver's stream | runs the queued kernels and copies their results, in order |
| failback probe, detached | `StratumClient::CheckFailback` | opens a TCP connection to the main pool, at most 15 s |
| statistics | `miniweb.cpp` | serves one string |

### Components

| Component | State | Operations | Correct when |
|---|---|---|---|
| **StratumClient** | pools, active pool, session id, retries, failed pools in a row, mask of refusals, pending pool/port and three flags, socket, response buffer, unanswered calls | connect, log in, read replies and work, `Reconnect` (network and miner threads), next pool, work timeout, failback, port request, submit | connection, login, session, port and work belong to one pool; a pool is left when and only when it is useless; the program stops only for the documented reasons; mining resumes |
| **AutoPort** | start/check/switch times, candidate, decided, samples | measure, check, switch, start again on another pool | thresholds, confirmation and delay of the README; comes to rest |
| **GenericMinerClient** | speed samples, watchdogs | the client loop | watchdogs fire only when due |
| **Farm** | miners, work, mining flag, solution counters | start, stop, pause, set work, submit | every miner gets the work; no miner is used after stop; counters match replies |
| **Miner / GenericCLMiner** | current work, paused, work-ready event | set work, pause, prepare work, evaluate | a solution is labelled with the work it was found for |
| **Worker / Event** | state of a thread, condition | start, stop, kill; set, reset, wait | no lost wake-up; stop and kill end |
| **RandomHashCPUMiner** | ring of 16 packages per kernel thread | send package, pause, evaluate | a package is not overwritten while in use; a share is not labelled with older work; new work reaches the kernels |
| **RandomHashCudaMiner** | launches in flight, two slots of results, header on the device, next nonce | prepare work, launch, wait, adapt | results come back in order, for the job that was hashed; nonces are tried once |
| **RandomHash** | outputs kept from the last search, two banks of strides | search, set header, round | every hash found is the hash of its nonce under the current header |
| **Share submission** | number of calls, table of unanswered calls, request buffer, nonces submitted | submit, call, write, reply | an answer is taken for its own call; a share is sent once, to its pool |
| **ParnianWork, work feed** | current/previous work, backlog, last notify | notify, same-work test, new nonces | every new job reaches the miners |
| **GlobalMiningPreset** | options | parse, build the pool list | list valid, domains unique |
| CLMinerBase, KernelOffsetManager | nonce offset | take nonces | nonce ranges disjoint |
| hash functions, GpuManager, command line, miniweb, logging, big integers, jsoncpp, build | | | not protocol code |

### How they interact

The network thread makes the miners (`Farm::start`, on a connect), pauses them and sets their work.
Miner threads call `Reconnect` of the client through the farm's callback, and wait for their work
at an event. The client thread buries the miners when all of them have died (`miningProgress`),
stops the network thread and starts it again. A solution gets a submit thread of its own, which
writes to the socket the network thread reads from. The client thread never changes the
connection itself: it leaves a request in a variable (`m_pendingPool`, `m_pendingPort`), sets a
flag (`m_poolSwitchPending`, `m_portSwitchPending`, `m_forceNextPool`) and shuts the socket down,
so that the network thread's blocking read fails and `Reconnect` and `Preconnect` find the
request. `m_reconnMutex` makes `Reconnect` exclusive, `m_portMutex` guards the active pool and the
request's data, nothing guards `m_connected`, the flags together with the data, or the socket.

### What is hard in it

Requests that race with a reconnect under way; `Reconnect` by two threads, both counting; state of
one connection (session id, buffered lines, calls, jobs) that outlives it; a probe read long after
it answered; counters that decide between "retry", "next pool" and "exit"; timeouts that some event
silently restarts; hysteresis with a delay and a confirmation; threads that are joined by a thread
whose mutex they may need; an event that can lose a notification; buffers that one thread overwrites
while another reads them (ring of packages, header on the device, banks of outputs); the label of a
solution, taken when it is found and not when its work was sent. `PROJECT.json` lists these hazards
at their lines.

## 2. What is modelled

### `StratumClient.tla` (MinersLib/StratumClient.cpp)

Actions are the stretches of one thread between two points where another thread may see or change
shared state.

* **Reconnect** (`ReconnectEnter`, `-Decide`, `-Switch`, `-Return`): the four stretches of
  `Reconnect` (l.359-440) for any thread; `rc[t]` is where thread `t` is. The sleeps are between
  them. `m_reconnMutex` is held from `inside` on.
* **Network thread** (`net`): `NetApply` and `NetClear` are the two halves of `Preconnect` (the
  lock, then the two resets outside of it), `NetDial` reads host and port of the active pool
  (`dialled`), `NetDialOk`/`NetDialFails` end the blocking resolve and connect, during which
  another thread may switch the pool, `NetPost` is the rest of `Connect` and the login, then the
  read loop: one action per kind of line (`ReadSession`, `ReadAccept`, `ReadRefuse`, `ReadWork`,
  `ReadOther`, `ReadGarbage`) and `NetReadError`. A line is `[pool, kind]`. A line may wait in
  `m_responseBuffer` behind one that ends the connection (`leftover`), when `Coalesce` is TRUE.
* **Client thread** (`client`): test, flag and shutdown of `ReportWorkTimeout`, `CheckFailback` and
  `RequestPortSwitch` are separate steps, as other threads run between them.
* **Probe, miner and submit threads, pools and clock**: `ProbeAnswers`, `MinerStalls`,
  `WriteFails`, `PoolDrops`, `TimePasses`. `lastLine` says how old `m_lastReceivedCommandTime` is
  against `-worktimeout`; `LongOutage` allows an outage longer than that.
* **History variables** (`login`, `fails`, `asked`, `refusers`, `probeFresh`) record what
  happened for the properties; no guard reads them.

Constants: `NPools`, `MaxRetries`, `Miners`, `AutoPools`, `May` (the events each pool may produce),
`Coalesce`, `LongOutage`, `DisableAutoReconnect`, `Failback`.

`Failover.tla` is what the list of pools promises (README.md:88): the pool in use, the pool whose
job is hashed, who refused the login, whether the main pool answered, and how the program ended.
The miners are paused before a pool is given up; the next of the list follows; back to the main
pool only after it answered; an end only when all pools refused, when the only one is not
reachable, or with `-dar`. `ImplementsFailover` maps `activeIdx`, `farmWork`, `refusers` and
`exited` to it, and "answered" to the probe's answer in any of the places it passes through: the
probe, the client thread on its way to the request, the request (`MainAnswered`). Threads, retries,
flags, sessions and lines of the protocol are not in it.

A miner thread in `Reconnect` may switch the pool while the network thread dials, reads or has just
taken a job, and then the connection is not to the active pool any more; the code has no check for
that. `InStep` says that it has not happened: the pool that is dialled, the connection, its account
and session, and the mask of refusals are of the active pool, and the miners are paused while one
of them reconnects. With miner threads the properties say what ends it (`OnlyMinersCrossPools`) and
that the list of pools is kept as long as it lasts (`KeepsTheListInStep`); with the network thread
alone `ConnectionMatchesPool`, `SessionStaysWithItsPool` and `ImplementsFailover` hold throughout.

### `AutoPort.tla` (MinersLib/AutoPort.h, GenericMinerClient.cpp l.126-182 and l.259-305)

`SelectPoolPortTier` is the table search, with hashrates in kH/s and the two thresholds as exact
percentages. The actions are the outcomes of one round of the client loop: another pool became
active (`NewPool`), only measured (`Measure`, `MeasureFixed`), a check that agrees, waits, or
switches. Time is the minutes since each recorded time, up to the delay it is compared with. The
client's part is abstracted to `PortApplied` and `PoolChanges`; the detailed one, with its races, is
`StratumClient`.

### `CudaMiner.tla` and `LaunchQueue.tla` (MinersLib/Parnian/RandomHashCudaMiner.cpp, GenericCLMiner.cpp)

One GPU: the miner thread goes round `init`, `PrepareWork`, `QueueKernel` and `Collect`; the farm
sets work and pauses at any time; the device moves each launch from `queued` to `hashed` to `ran` to
`copied` on its own (`stage[s]`). The header sits in one buffer on the device and is read when a
kernel runs, so that uploading it (`UploadHeader`) has to wait for the launches before
(`UploadWaits`). `SlotOut` is computed from two counters as in the code. Any driver call may fail
(`DeviceFails`), after which the GPU launches and collects nothing more, for good, as in the code. A
job stands for its header and target; threads are counted in blocks.

`LaunchQueue` is what the comment of `Rh2CudaDevice` promises: a queue of launches, results of the
oldest first, solutions for the job that was hashed. `ImplementsQueue` maps the jobs in `inflight`
to its queue and `MaxPending` (2 with `-gpuoverlap`, else 1) to its depth.

### `CpuMiner.tla` (MinersLib/Parnian/RandomHashCPUMiner.cpp)

The miner thread (`PrepareWork`, `SendWork`), the thread that pauses (`PauseLock`, `PauseSend`,
`PauseDone`) and the kernel threads. `SendWorkPackageToKernels` writes a slot and publishes its
number, one kernel after another, in two steps for each, so that a kernel reads between them. The
share of a kernel is labelled with the work the miner has at that moment. No guard in the code
(RandomHashCPUMiner.cpp:287) keeps the sender from going round the ring while a kernel reads:
`PackageStable` speaks of the states in which the sender is less than a ring ahead, so it covers
the arithmetic of the slots, and a kernel that is slower than 16 packages is outside of it. Jobs
are numbered in the order they are sent.

### `RandomHash.tla` (MinersLib/Parnian/RandomHash_Cpu.cpp)

The search of one kernel: the rounds, the neighbours that are hashed on the way, the outputs kept
for the next search, the two banks. Every hash function, the twister, `Expand` and `Compress` are
one constant `Digest`, a function of a tag and a sequence: what is modelled is which values reach
it and from where. `CalculateRoundOutputs` calls itself: `frame[r]` is its call for round `r`, and
an action is what it does between two calls (`UseKept`, `FirstRound` and `Descend` on entry,
`EndEarly` and `Prepare` back from the parent, `CallNeighbour`, `TakeNeighbour` and `FinishRound`
in the loop over the neighbours). Outputs are lists with the searches whose strides they point to;
one whose bank was overwritten reads junk. `HashOf` is the definition of the hash with nothing
kept, and every reported hash is compared with it. The history variable `redrawn` says that kept
outputs were taken for a neighbour. That step goes wrong in the code (RandomHash_Cpu.cpp:680 gives
the list of the other bank), and leaves the work bytes unprepared for what follows, so that the
next call may write behind the last slot; only the next header sets that right. The properties
therefore say nothing from there to the next header (`HashesCorrectUnlessRedrawn`; section 6 has
the counterexample), and `RedrawnOnlyByTwins` says how rarely it comes to that: two neighbours of
one search with one nonce, or the nonces 0 and U32_Max.

### `Shares.tla` (MinersLib/StratumClient.cpp)

A submit thread goes through `Found`, `CheckNonce`, `Eval`, `CheckPool` and then `CallJsonMethod`
(`Count`, `Record`, `Append`, `Write`) under the mutex of the calls; the login makes the same
calls. The reset of `m_workID` by `Connect` and `Reconnect` (l.324, l.372) does not take that
mutex; the table is cleared under it (l.606). Each is a step of its own. The request buffer
outlives a connection. An answer is taken for the call the table has under its number.

### `Farm.tla` (Farm.cpp, corelib/Worker.cpp, corelib/utils.cpp, GenericMinerClient.cpp, Miner.cpp)

The lives of the threads. `state[w]` is `m_state` of a `Worker` and `at[w]` where its thread is;
the two differ exactly when the code lets them. `StartWorking`, `QueueStopWorker`, `Kill` and the
thread's own loop are separate steps. The event is the flag and the test before the wait: between
`MinerTests` and `MinerBlocks` a notification is lost. `m_minerWorkMutex` is `lock`; `Pause`,
`start`, `internalStop` take it, `SetWork` does not. The network thread is `at[Net]` with the
steps of `Connect`, the inner dial loop that does not look at `m_running`, the farm's `start`, the
login, and a read loop that ends on an empty line or an exception only. `Reconnect` is one step
here, pools and retries are in `StratumClient`.

### MC modules

`MCStratumClient` defines what each pool may do (`MayFail`, `MayLastWorks`, `MayMainTalks`,
`MayMainFails`), `MCAutoPort` the hashrates, `MCRandomHash` a `Digest` and the nonces;
`MCCudaMiner`, `MCCpuMiner`, `MCShares` and `MCFarm` add nothing to their modules. A `.cfg` chooses
constants among them.

## 3. Model checking

| Run | Instance | What it shows |
|---|---|---|
| `miners` | 2 pools, 2 attempts, a miner thread, auto port on pool 0, drops, refusals, silence; 2.4 M states | types; no counter is left at its limit; work belongs to the connected pool; "not reachable" costs its retries; only the miner's reconnect crosses pools, and until then `Failover` is kept |
| `failover` | 3 pools: one that comes, goes and refuses, one dead, one that works; failback; no stale miners; fair; 2.6 k states | connection, login and session belong to the active pool; `Failover` is implemented; mining resumes; the miner goes back to the main pool, from the last backup pool too |
| `autoport` | 2 pools, one with auto port, rates at both sides of the thresholds; fair; 33 k states | thresholds, confirmation, ten minutes, coming to rest |
| `cuda` | 3 jobs, one with a bad header; launches of 1 or 2 blocks, 5 nonces, overlap, failures; fair; 367 k states | solutions are for the job that was hashed, no nonce twice, launches are collected, the queue is implemented |
| `cpu` | 1 kernel, ring of 3, solo mining, 3 jobs, 2 pauses; fair; 107 k states | packages are stable, labels not older, the kernels have the work, new work is mined |
| `randomhash` | 2 to 4 rounds, 1 to 8 neighbours, 3 headers, 8 searches; 127 k states | a hash reported is the one of the definition, except after `redrawn` until the next header; the kept outputs are those of their nonce; no search repeats |
| `shares` | 2 pools, 2 submit threads, 1 nonce, 2 resets, 1 job; fair; 1.3 M states | answers are for their calls, no share twice, answers are counted |
| `farm` | 2 devices that may fail, 2 jobs; fair; 314 k states | thread states are true, killed miners are out, work is not slept over, a dead farm mines again |
| `farm_resume`, `shares_cross`, `ports_cross`, `useless_kept` | as small as the counterexample allows | where the code does not do what its comments say (section 5) |

**Bounds.** Two pools are the smallest list with a switch and a wrap; `failover` takes three, so
that a useless pool lies between the main pool and the good one and the way back skips it. Two
attempts (`-r 1`) tell the first failure from the last one. One miner thread next to the network
thread is enough for every order of two threads in `Reconnect`; the theorems about the counters,
the crossing of pools and the list are for any number. Each rate of `autoport` is the nearest whole
kH/s on one side of a threshold, or one far from all of them; the upper tiers differ in their
numbers only, and the theorems are about every hashrate. In `cuda` two launches of at most two
blocks against five nonces make the next nonce wrap at every offset, and three jobs are one for
each launch in flight and one for the header that waits for them. In `cpu` a ring of three is the
smallest in which a send and a pause can catch up with a kernel; the theorem has the bound for
every ring. In `randomhash` four rounds are enough for a neighbour that ends early, one that is
kept and one of the round after, and for both banks to be used again. In `shares` two threads with
the same nonce meet in every step, and two resets let a number come back in the middle of a call
and again after it. In `farm` two devices tell "one has died" from "all have", and two jobs a new
line from a repeated one. The counters the code leaves unbounded are bounded by the constants
marked as bounds in the modules (`MaxJobs`, `MaxPauses`, `MaxEpochs`, `MaxSearches`); no state
constraint is used. `cpu` and `shares` run out of these and stop, so that deadlock is not checked
there.

**Fairness.** Of the code's threads each goes on when it can: weak fairness for the network thread
(`WorkLoop` has no exit while the worker is started), the threads in `Reconnect`, the client
thread, each miner, each kernel, the host and the device of a GPU, the holder of the mutex of the
calls. The probe has a deadline of 15 s, and time passes. Where an event can be undone over and
over before a thread looks at it, fairness is strong and says that this does not go on for ever: a
pool that may answer, send work or accept a connection does so if it is asked again and again
(`PoolAnswers`, `PoolSends`, `DialOk`), and a miner thread that finds work again and again, with
pauses between, takes it (`PrepareWork`, `MinerSteps`). Nothing makes a pool drop, a device fail, a
miner stall, a hashrate or a port change, and nothing makes a pause; in `cuda` work comes again
after a pause, as `failover` and `farm` show for the pool and the farm. A main pool whose probe may
find it reachable or not is found reachable in the end if it is probed again and again
(`MainReachable`). Liveness of `StratumClient` is checked with `LongOutage = FALSE` and pools whose
faults do not race with the failback; with others the stuck flag of section 6 defeats
`ReturnsToMain`, which says what the failback does when no such race comes between.

**Two exceptions in liveness properties.** `MiningRestarts` leaves out that the client waits in
`StopWorking` for a network thread that has dialled again (`StopWaits`): the read of that
connection has no end of its own, so the wait lasts until the pool drops it.
`AnswersAreCounted` speaks of calls whose number is in the table; one that was cleared in between
is lost, as the code has it.

**Mutants.** Every property of a passing run has a mutant of the model (the definitions after a
`MUTANT` comment), a plausible bug of the code, that makes TLC find it violated. Trying mutants
also showed that the test of the last switch's time (GenericMinerClient.cpp:165) cannot matter: two
checks five minutes apart already make the ten minutes; and that the event's lost notification is
harmless only because every line notifies again.

## 4. Proofs

`StratumClient_proofs`, for any number of pools, retries and miner threads and any behaviour of the
pools:

* `TypeCorrect`: `Spec => []TypeOK`, group by group of variables.
* `AttemptIsLeft`: `Spec => []AttemptLeft`. `AttemptLeft` speaks of states outside `Reconnect`
  only and is not inductive. The invariant adds that at most one thread is between `inside` and
  `close` (`MutexInv`, from `m_reconnMutex`), that the retries may be at the limit only at
  `switch` (`RetryInv`), and what the round of failed pools and the mask of refusals may be
  (`RoundInv`).
* `PortsCrossByRequestOnly`: with any number of pools in auto mode, the one step that can bring a
  port to another pool is `PortRequest` with a pool that changed since the measure
  (`PortsCrossOnlyByRequest`). The run `ports_cross` shows that this step does happen.
* `JobIsOfConnectedPool`: with `~Coalesce` (lines come one at a time) `MinesForConnectedPool`, for
  any number of miner threads, although each of them may switch the pool under the network thread.
  The invariant (`JobInv`) is stronger than the property: whoever reconnects pauses the miners
  first, so that work is there only while the network thread reads, and is of the pool of its
  socket. A line left in the buffer (`LineInv` excludes it) is what breaks this.

`StratumInStep_proofs`, for any number of miner threads in `Reconnect`, any pools, retries and
leftover lines:

* `OnlyMinersCross` (`OnlyMinersCrossPools`): from `LinkInv`, which says where the network thread
  is when there is a connection, a login, a dial or a job. The connection falls out of step with
  the active pool by a miner's `ReconnectSwitch`, by a job that is read while a miner is in
  `Reconnect`, or by a leftover line of another pool; no step of the client thread, the probe, the
  failback, the port, or the network thread's own `Reconnect` does it.
* `KeepsTheList` (`KeepsTheListInStep`): in step, with nothing left in the buffer, each action is
  mapped to a step of `Failover`: `ReadWork` to `Work`, `ReconnectEnter` to `Pause`,
  `ReconnectSwitch` to `GiveUp`, `ReadAccept` and `ReadRefuse` to `Accept` and `Refuse`, the
  probe's answer to `MainAnswers`, `NetApply` with a request for the main pool to `GoBack`, the ends
  in `ReconnectDecide` and `ReconnectReturn` to `End`, and everything else to a step that changes
  nothing. This holds for the steps of miner threads too, the one that ends `InStep` included.
* `RetriesAreSpent` (`GivesUpAfterRetries`): `SpentInv` bounds the retries by the failed connects
  and the reconnects that miners asked for since the pool was taken or connected, wherever a thread
  is in `Reconnect`; so nothing else uses a retry up.

`AutoPort_proofs`: `SelectFits` and `KeptPortsFit` about the selection for every hashrate; then, for
any number of pools, the three promises of the README in one stay on a pool
(`PortsSwitchAtThresholds`, `PortSwitchesAreConfirmed`, `PortSwitchesSeldom`), from an invariant
(`StayInv`) that ties the candidate and the recorded time to the last check and switch of the stay;
and `OnePoolLeavesOnlyBelow85`, where the invariant adds that before the first check the port is the
lowest one.

`CudaMiner_proofs`, for any jobs, size of a launch and nonce space: `TypeCorrect`, `SlotsCorrect`
(`QueueMatchesSlots`: the host's queue and the device's slots agree, two at most) and
`SolutionsCorrect`. The label alone is not inductive: the invariant says, for each launch in flight,
that a result in its slot was hashed with the header of the launch, and that one not yet hashed will
read it, since the header on the device changes only when nothing is left to run. `Implements`
(`Spec => ImplementsQueue`) follows from the same invariant: a launch that is queued appends to the
abstract queue, `Collect` takes its head, and every other step leaves it alone. 
`NoncesAreNew` (`NoncesOnce`): the launches for one job follow each other without a gap, as long as
no driver call has failed (`NonceInv`), and a job never comes back while one of its launches is in
flight (`WorkInv`; only then is the next nonce drawn anew). Two launches of at most `MaxThreads`
nonces that follow each other in a ring of more than `2 * MaxThreads` do not meet; the proof is
arithmetic on the remainders, with the case of the wrap.

`CpuMiner_proofs`, for any number of kernels, jobs and pauses: `TypeCorrect`, `PackagesStable`,
`LabelsNotOlder`, `KernelsInStep`. The invariant has four parts: who may be in
`SendWorkPackageToKernels` and what it has written (`SendInv`, from `m_pauseMutex`), which package a
slot holds (`RingInv`), that packages, kernels and labels are ordered as the jobs are (`LabelInv`)
and which work the last package carries (`WorkInv`).

`RandomHash_proofs`, for any numbers the hash functions give (`Numbers`: they are natural numbers),
any headers, nonces and number of neighbours: `HashesAreCorrectUnlessRedrawn`,
`KeptOutputsAreCorrect` and `WorkBytesAreRight` (a call finds a part of `m_precalcPart2`, and a
first round its own). The invariant is about every call that waits. `Asked(r)` is the nonce its
round is wanted of, known from the call above it; `CallInv` says that the call has the outputs of
the parent and of the first `k` neighbours of that nonce, as the definition gives them, in strides
that are still there; `ResultInv` that a call returns the round it was asked for; `WorkInv` that
the parts of the work bytes hold the hashes of the neighbours that are left; `KeptInv` whose
strides the kept outputs are in, which changes in the middle of a search (`Keeper`). All three stop
at `redrawn`, where the code is wrong; `OnlyTwinsAreRedrawn` bounds that exception, from the nonces
that were asked for so far (`TwinInv`). Only the call for the last round may hold strides of the
search before, and that is why they may be kept for one search and no longer. The definition of the
hash is written out round by round, up to the four of `RH2_MAX_N`, so that no induction is needed.

`Shares_proofs`, for any number of threads, pools and resets: `TypeCorrect`, `CallsAreInStep` (the
call under the mutex is in step with its thread), `SharesOnce`, `NoncesOnceSubmitted`,
`AnswersMatch`. The last one needs that the numbers on the wire, in the buffer and in the table are
used once on a connection, although the number is reset without the mutex: a call that was counted
before the reset is not in the table, or not under a number that is taken.

`Farm_proofs`, for any devices and jobs: `TypeCorrect`, `StoppedThreadsAreOut`,
`KilledThreadsAreOut`, `FarmMinesWithMiners`, `PausesEndWithNewLines`. The invariant ties the holder
of the farm's mutex to the places of the client and network threads (`LockHolders`), a miner's
thread to the farm's list (`MinersHaveThreads`), and mining to that list (`LockedFarm`,
`MiningHasMiners`). `PausesEndWithNewLines` assumes `~Repeats` (no pool sends its last line again)
and adds that a line that waits is new (`LinesAreNew`) and what work a connection in use has given
(`GivenWork`); with repeats TLC refutes it (`farm_resume`).

The assumptions are the named `ASSUME`s on the constants, which TLC evaluates in every run. Only
model-checked: all liveness properties (`MiningResumes`, `ReturnsToMain`,
`PortSettles`, `LaunchesAreCollected`, `NewWorkIsMined`, `AnswersAreCounted`, `MinersWork`,
`MiningRestarts`), as liveness under fairness is out of the prover's reach; and `SearchesAreNew` of
`RandomHash`, which is true of functions that give different nonces only: a search whose last
neighbour has its own nonce would keep that. `ConnectionMatchesPool`, `SessionStaysWithItsPool` and
`ImplementsFailover` are model-checked for the network thread alone; with a miner thread they do not
hold, and the theorems above say how far they do.

## 5. Where code and documents disagree

Each violation run checks one property that states what a comment of the code, or its README, says.

* `farm_resume`: `Farm::SetWork` gives the miners even the work they have, to "resume miners if
  their where paused" (Farm.cpp:29). The filter of repeated lines in `mining.notify`
  (StratumClient.cpp:1362) is not reset with the connection. A pool that sends its current job
  again after a reconnect as the same line is ignored, and the miners `Reconnect` paused wait for
  another job, or for the zero-speed watchdog, which ends the program after 60 s.
* `shares_cross`: the test against "cross-over share submissions" (StratumClient.cpp:1470) comes
  before the write and holds nothing that keeps the connection; with a reconnect between, the share
  goes to the new pool.
* `ports_cross`: `RequestPortSwitch` notes the pool next to the port, to "never apply it to another
  pool" (StratumClient.cpp:261), and "the auto port selection runs separately for each pool"
  (README.md:96, with two `:auto` pools at :85). It notes the pool that is active at the request,
  not the one whose hashrate was measured (GenericMinerClient.cpp:299): with a switch in between,
  the port of the old pool is noted for the new one and applied there.
* `useless_kept`: the miner leaves a pool that "sends no new work for `-worktimeout` seconds"
  (README.md:92). Every line sets the clock of the timeout (StratumClient.cpp:509), so that a pool
  that talks without sending work is never left.

## 6. Other effects TLC shows

With other constants the modules reach states that no document denies, or only in passing. They are
not runs; the properties named are in the modules.

| Property | Constants | Effect |
|---|---|---|
| `PendingMeansReconnecting` | `miners`', `Miners = {}` | the flags of a request stay set on a healthy connection, since they are reset after the lock (StratumClient.cpp:644); the work timeout then does nothing, as "already reconnecting" (:158) |
| `ForcesOnlyWhileReading` | `miners`', also with `Miners = {}` | a work timeout that races with a reconnect (:161) forces the next pool in the middle of it, so that a pool is skipped |
| `FailsBeforeGivingUp` | `miners`' | reconnects asked for by miners use up the retries (:390), so that a pool is "not reachable" without a failed connect |
| `ConnectionMatchesPool`, `SessionStaysWithItsPool` | `miners`' | the network thread goes on with the connection to the old pool, and reads its reply to the subscribe, after a miner switched the pool |
| `ImplementsFailover` | `failover`'s, `Miners = {m1}` | the same effects, against the list of pools |
| `StopsOnlyWhenAllRefused` | `miners`', or with `Miners = {}` and `Coalesce = TRUE` | a refusal read after a miner's switch, or left in the response buffer, counts for the next pool, and the program ends although that one did not refuse |
| `MinesForConnectedPool` | `miners`', `Miners = {}`, `Coalesce = TRUE` | a job left in the response buffer is hashed for the next pool |
| `FailbackIsFresh` | `failover`'s, 2 pools that both work and may drop, the main one may be down | the answer of a probe of an earlier stay is believed at once in a later one (:188) |
| `ReturnsToMain` | `failover`'s with a middle pool that may `drop` or be silent, with `AutoPools = {2}`, with `Miners = {m1}` or with `LongOutage = TRUE` | `SwitchToNextPool` takes the failback's request away between its two statements (:194, :196); the flag then stays set on the healthy last pool, `CheckFailback` returns at once (:171), and the miner never goes back (README.md:95) |
| `LeavesUselessPool` | `useless_kept`'s, `Failback = TRUE`, the main pool accepts and is silent | the same flag, left on the main pool, makes `ReportWorkTimeout` return (:158): a main pool that sends nothing at all is never left either (README.md:92). With `Failback = FALSE` it is left |
| `LeavesOnlyBelow85` | `autoport`'s | back on a pool, its port is judged from scratch (GenericMinerClient.cpp:286) and may be left at 90% of its tier |
| `HashesCorrectUnlessRedrawn` without `~redrawn` | `randomhash`'s, `MCDigest(tag, s) % 23` as `Digest` | two neighbours of a search have the same nonce: the first one's outputs are kept, and for the second one the code copies the list of the other bank (RandomHash_Cpu.cpp:680), which the search before left there; the hash comes out wrong |
| none (`exited = "crash"`) | `farm`'s | `SetWork` walks over the miners while `miningProgress` clears them under another mutex (Farm.cpp:30): undefined, a crash in one of its outcomes |

## 7. Not modelled

* **StratumClient**: `Disconnect` and `StopWorking` by the client thread (they are in `Farm`, with
  the connection as one flag); solo mining (except in `CpuMiner`, where it decides about the label);
  the dev-fee mode (removed from this program: `UpdateToDevModeState` returns false and
  `eInteralRestart` is never set).
* **Shares**: a write is all or nothing, and a socket closed during a write fails it;
  `client.get_version`; taking the number over from the server, and the method `mining.subscribe`
  the first response of a connection has by default (StratumClient.cpp:1286-1298); the counters of
  failed and rejected shares; solutions of several nonces, which differ in the list only.
* **Farm**: pausing CPU miners alone; the restart from a configuration file and the shutdown of the
  client thread, which nothing asks for in this program; the watchdogs of the client thread.
* **CudaMiner**: self tests and benchmarks, loading the driver, the older host miner. **CpuMiner**:
  creation and end of the kernel threads, the throttle.
* The work's payload: parsing, nonce2, difficulty, backlog. A job is a model value.
* Hash functions, device enumeration, sensors, command line, options, web server, logging, jsoncpp:
  numeric or I/O code without a protocol.
* Time is abstract: sleeps are steps another thread may overtake, however long. The tier's
  thresholds are exact percentages; the code multiplies doubles.
* Most of the repository's lines are vendored or numeric (the OpenCL header, jsoncpp, the hash
  functions and their CUDA copies); the modules cover the control logic, which is small beside it.

## 8. Plan

Done: `StratumClient` with `Failover`, `AutoPort`, `CudaMiner` with `LaunchQueue`, `CpuMiner`,
`Shares`, `Farm` and `RandomHash`, each with its proofs. Left:

1. `WorkFeed`: the parsing of repeated notifications, the backlog and the nonce2 of a job.
2. `PoolList`: `BuildPoolList` as an operator, against a reference definition.
3. The counters of accepted, rejected and failed shares.
