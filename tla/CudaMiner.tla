----------------------------- MODULE CudaMiner -----------------------------
(***************************************************************************)
(* One NVIDIA GPU: the miner thread (the steps of GenericCLMiner and of    *)
(* MinersLib/Parnian/RandomHashCudaMiner.cpp) and the device, which works  *)
(* through its stream on its own: kernel, then copy of the results to the  *)
(* host, launch after launch. Two slots of results alternate. The header   *)
(* lives in one buffer on the device, that a kernel reads when it runs and *)
(* not when it is queued. The farm sets the work and pauses the miner at   *)
(* any time.                                                               *)
(*                                                                         *)
(* A job stands for its work package (header, target, job id). Threads are *)
(* counted in blocks, nonces in threads. Not here: how the hashes are      *)
(* computed, the statistics, the self tests.                               *)
(***************************************************************************)
EXTENDS Integers, Sequences

CONSTANTS
  Jobs,        \* the jobs a pool sends
  NoJob,       \* the null work package
  BadHeader,   \* the jobs with a header of another size
  MaxThreads,  \* m_threads, in blocks
  NonceSpace,  \* 2^32, in blocks
  Overlap,     \* the option -gpuoverlap
  DeviceFails  \* may a call of the driver fail?

ASSUME ConstantsAssumption ==
  /\ NoJob \notin Jobs
  /\ BadHeader \subseteq Jobs
  /\ MaxThreads \in Nat \ {0}
  /\ NonceSpace \in Nat \ {0}
  /\ 2 * MaxThreads < NonceSpace
  /\ Overlap \in BOOLEAN
  /\ DeviceFails \in BOOLEAN

VARIABLES
  template,    \* m_workTemplate
  ready,       \* m_workReadyEvent
  at,          \* where the miner thread is
  last,        \* m_lastWorkTemplate
  currentWp,   \* m_currentWp
  launchWp,    \* m_launchWp
  limit,       \* m_target and m_targetFull: the job they were taken from
  nonceBase,   \* m_nonceBase
  active,      \* m_active, in blocks
  failed,      \* m_failed
  inflight,    \* m_inflight, with the nonces of the launch
  slotIn,      \* m_launched % 2
  pending,     \* m_launched - m_completed
  dHeader,     \* m_dHeader: the job whose header is on the device
  stage,       \* stage[s]: how far the device is with the launch of slot s
  result,      \* result[s]: the job whose header the results in slot s were hashed with
  report       \* the last solution handed to submitProof

farmVars == <<template, ready>>
minerVars == <<at, last, currentWp, launchWp, limit, nonceBase, active, failed, inflight>>
deviceVars == <<slotIn, pending, dHeader, stage, result>>
vars == <<farmVars, minerVars, deviceVars, report>>

Slots == {0, 1}
Nonces == 0 .. NonceSpace - 1
Work == Jobs \cup {NoJob}
Inflight == [wp : Jobs, limit : Work, start : Nonces, count : 1 .. MaxThreads]
NoReport == [label |-> NoJob, hashed |-> NoJob, limit |-> NoJob]

\* The results Wait returns next: slot m_completed % 2.
SlotOut == (slotIn + pending) % 2

\* Launches in flight after a step, plus one.
MaxPending == IF Overlap THEN 2 ELSE 1

\* Every variable has its type.
TypeOK ==
  /\ template \in Work
  /\ ready \in BOOLEAN
  /\ at \in {"closed", "wait", "upload", "launch", "collect", "stopped"}
  /\ last \in Work
  /\ currentWp \in Work
  /\ launchWp \in Work
  /\ limit \in Work
  /\ nonceBase \in Nonces
  /\ active \in 1 .. MaxThreads
  /\ failed \in BOOLEAN
  /\ inflight \in Seq(Inflight)
  /\ slotIn \in Slots
  /\ pending \in 0 .. 2
  /\ dHeader \in Work
  /\ stage \in [Slots -> {"free", "queued", "ran", "copied"}]
  /\ result \in [Slots -> Work]
  /\ report \in [label : Work, hashed : Work, limit : Work]

Init ==
  /\ template = NoJob
  /\ ready = FALSE
  /\ at = "closed"
  /\ last = NoJob
  /\ currentWp = NoJob
  /\ launchWp = NoJob
  /\ limit = NoJob
  /\ nonceBase = 0
  /\ active = 1
  /\ failed = FALSE
  /\ inflight = <<>>
  /\ slotIn = 0
  /\ pending = 0
  /\ dHeader = NoJob
  /\ stage = [s \in Slots |-> "free"]
  /\ result = [s \in Slots |-> NoJob]
  /\ report = NoReport

-----------------------------------------------------------------------------
(* The farm.                                                               *)

\* A pool does not send a job again: j stands for another job when nothing of the old j is
\* in flight.
NotInFlight(j) == j = template \/ \A i \in DOMAIN inflight : inflight[i].wp # j

\* MUTANT: work wakes only a miner that never had any.
SetWork_OnlyFirst(j) ==
  /\ NotInFlight(j)
  /\ template' = j
  /\ ready' = (ready \/ template = NoJob)
  /\ UNCHANGED <<minerVars, deviceVars, report>>

\* The farm has new work for the miner, which wakes.
SetWork(j) ==
  /\ NotInFlight(j)
  /\ template' = j
  /\ ready' = TRUE
  /\ UNCHANGED <<minerVars, deviceVars, report>>

Pause ==
  /\ ready' = FALSE
  /\ UNCHANGED <<template, minerVars, deviceVars, report>>

-----------------------------------------------------------------------------
(* The device.                                                             *)

\* Nothing in the stream: a synchronous copy returns.
Drained == \A s \in Slots : stage[s] \in {"free", "copied"}

\* The stream is in order: the launch of slot s is the oldest that is not done.
FirstInStream(s) == s = SlotOut \/ stage[SlotOut] \in {"free", "copied"}

\* The results are reset, then the kernel runs with the header that is on the device now.
KernelRuns(s) ==
  /\ stage[s] = "queued"
  /\ FirstInStream(s)
  /\ stage' = [stage EXCEPT ![s] = "ran"]
  /\ result' = [result EXCEPT ![s] = dHeader]
  /\ UNCHANGED <<farmVars, minerVars, slotIn, pending, dHeader, report>>

\* The results are copied to the host and the event is recorded.
CopyBack(s) ==
  /\ stage[s] = "ran"
  /\ stage' = [stage EXCEPT ![s] = "copied"]
  /\ UNCHANGED <<farmVars, minerVars, slotIn, pending, dHeader, result, report>>

-----------------------------------------------------------------------------
(* The miner thread.                                                       *)

\* The first work: the device is opened, or the thread stops with the device disabled. Half
\* of the threads are launched at first.
Open ==
  /\ at = "closed"
  /\ ready /\ template # NoJob
  /\ \/ at' = "wait" /\ active' \in 1 .. MaxThreads /\ UNCHANGED failed
     \/ DeviceFails /\ at' = "stopped" /\ failed' = TRUE /\ UNCHANGED active
  /\ UNCHANGED <<farmVars, last, currentWp, launchWp, limit, nonceBase, inflight, deviceVars,
                 report>>

\* A header of the wrong size is not launched; else the header is uploaded first.
LaunchWpFor(j) == IF j \in BadHeader THEN NoJob ELSE launchWp

\* WorkLoopStep and PrepareWork: the template is new, or the step goes on with the work it has.
PrepareWork ==
  /\ at = "wait"
  /\ ready
  /\ LET work == IF template # last THEN template ELSE currentWp
     IN  /\ last' = template
         /\ currentWp' = work
         /\ IF work = currentWp \/ failed
            THEN at' = "launch" /\ UNCHANGED launchWp
            ELSE /\ at' = IF work \in BadHeader THEN "launch" ELSE "upload"
                 /\ launchWp' = LaunchWpFor(work)
  /\ UNCHANGED <<farmVars, limit, nonceBase, active, failed, inflight, deviceVars, report>>

\* The work is stale: the step waits for new work (the reconnect it asks for pauses the miner).
WorkStalled ==
  /\ at = "wait"
  /\ ready
  /\ template = last
  /\ ready' = FALSE
  /\ UNCHANGED <<template, minerVars, deviceVars, report>>

\* MUTANT: the copy of the header is put in the stream's way without waiting for it.
UploadWaits_Async == TRUE

\* The copy of the header returns when the kernels queued before it are done.
UploadWaits == Drained

UploadHeader ==
  /\ at = "upload"
  /\ UploadWaits
  /\ \/ /\ dHeader' = currentWp
        /\ limit' = currentWp
        /\ launchWp' = currentWp
        /\ nonceBase' \in Nonces
        /\ UNCHANGED failed
     \/ /\ DeviceFails
        /\ failed' = TRUE
        /\ UNCHANGED <<dHeader, limit, launchWp, nonceBase>>
  /\ at' = "launch"
  /\ UNCHANGED <<farmVars, last, currentWp, active, inflight, slotIn, pending, stage, result,
                 report>>

\* MUTANT: the next launch starts one block too early.
NextNonce_Overlaps == (nonceBase + active - 1) % NonceSpace

\* The next launch starts where this one ends.
NextNonce == (nonceBase + active) % NonceSpace

\* QueueKernel: one more launch, if it can be.
Launch ==
  /\ at = "launch"
  /\ ~failed /\ launchWp # NoJob
  /\ nonceBase' = NextNonce
  /\ \/ /\ pending < 2
        /\ inflight' = Append(inflight, [wp |-> launchWp, limit |-> limit, start |-> nonceBase,
                                         count |-> active])
        /\ stage' = [stage EXCEPT ![slotIn] = "queued"]
        /\ slotIn' = 1 - slotIn
        /\ pending' = pending + 1
        /\ at' = "collect"
        /\ UNCHANGED failed
     \/ /\ pending >= 2 \/ DeviceFails
        /\ failed' = TRUE
        /\ at' = "wait"
        /\ UNCHANGED <<inflight, stage, slotIn, pending>>
  /\ UNCHANGED <<farmVars, last, currentWp, launchWp, limit, active, dHeader, result, report>>

NothingToLaunch ==
  /\ at = "launch"
  /\ failed \/ launchWp = NoJob
  /\ at' = "wait"
  /\ UNCHANGED <<farmVars, last, currentWp, launchWp, limit, nonceBase, active, failed,
                 inflight, deviceVars, report>>

\* MUTANT: one block is halved too.
Halved_Any(n) == n \div 2

\* Never less than one block.
Halved(n) == IF n > 1 THEN n \div 2 ELSE 1

\* Never more than the arenas were made for.
Doubled(n) == IF 2 * n < MaxThreads THEN 2 * n ELSE MaxThreads

\* One launch fits the time between two results: halved above 0.9 s, doubled below 0.3 s.
AdaptLaunch == active' \in {active, Halved(active), Doubled(active)}

\* The work a solution is sent for: m_currentWp is swapped for that of the launch.
Label(done) == done.wp

Limit(done) == done.limit

ResultsThere == stage[SlotOut] = "copied"

\* The works come back in the order of the launches.
Oldest == Head(inflight)

\* Wait for the oldest launch and send what it found, if it is time to.
Collect ==
  /\ at = "collect"
  /\ pending >= MaxPending
  /\ ResultsThere
  /\ LET done == Oldest
     IN  report' \in {report, [label |-> Label(done), hashed |-> result[SlotOut],
                               limit |-> Limit(done)]}
  /\ inflight' = Tail(inflight)
  /\ stage' = [stage EXCEPT ![SlotOut] = "free"]
  /\ pending' = pending - 1
  /\ AdaptLaunch
  /\ UNCHANGED <<farmVars, at, last, currentWp, launchWp, limit, nonceBase, failed, slotIn,
                 dHeader, result>>

\* The driver reports an error: nothing is launched or collected any more.
CollectFails ==
  /\ at = "collect"
  /\ pending >= MaxPending
  /\ DeviceFails
  /\ failed' = TRUE
  /\ at' = "wait"
  /\ UNCHANGED <<farmVars, last, currentWp, launchWp, limit, nonceBase, active, inflight,
                 deviceVars, report>>

StepDone ==
  /\ at = "collect"
  /\ pending < MaxPending
  /\ at' = "wait"
  /\ UNCHANGED <<farmVars, last, currentWp, launchWp, limit, nonceBase, active, failed,
                 inflight, deviceVars, report>>

MinerStep ==
  \/ Open \/ PrepareWork \/ UploadHeader \/ Launch \/ NothingToLaunch
  \/ Collect \/ CollectFails \/ StepDone

DeviceStep == \E s \in Slots : KernelRuns(s) \/ CopyBack(s)

FarmStep == Pause \/ \E j \in Jobs : SetWork(j)

Next == FarmStep \/ WorkStalled \/ MinerStep \/ DeviceStep

Spec == Init /\ [][Next]_vars

\* The thread and the device go on; after a pause work comes again (the run "resumes" of
\* StratumClient shows when), and often enough while the thread is there to take it. The
\* driver need not fail.
FairSpec ==
  /\ Spec
  /\ WF_vars(DeviceStep)
  /\ WF_vars(\E j \in Jobs : SetWork(j))
  /\ SF_vars(PrepareWork)
  /\ WF_vars(UploadHeader \/ Launch \/ NothingToLaunch \/ StepDone)
  /\ WF_vars(Collect)

-----------------------------------------------------------------------------
(* Properties.                                                             *)

\* A solution is sent for the job whose header the GPU hashed and was tested against the
\* target of that job, although the work changes while launches are in flight.
SolutionsNameTheirWork == report.label = report.hashed /\ report.limit = report.label

\* Two launches in flight for the same work never try the same nonces, and the next one will
\* not either, although the number of threads changes between launches.
NoncesOf(start, count) == {(start + i) % NonceSpace : i \in 0 .. count - 1}
NoncesOnce ==
  /\ \A i, k \in DOMAIN inflight :
       i # k /\ inflight[i].wp = inflight[k].wp /\ launchWp = inflight[i].wp =>
         NoncesOf(inflight[i].start, inflight[i].count)
           \cap NoncesOf(inflight[k].start, inflight[k].count) = {}
  /\ \A i \in DOMAIN inflight :
       inflight[i].wp = launchWp => nonceBase \notin NoncesOf(inflight[i].start, inflight[i].count)

\* The host's queue of works and the device's slots agree: as many works as launches in
\* flight, no slot is written while its results wait, and a device that works is never asked
\* for more launches than -gpuoverlap allows.
QueueMatchesSlots ==
  /\ Len(inflight) = pending
  /\ {s \in Slots : stage[s] # "free"}
       = IF pending = 2 THEN Slots ELSE IF pending = 1 THEN {SlotOut} ELSE {}
  /\ LET depth == IF Overlap THEN 2 ELSE 1
     IN  pending <= depth /\ (pending = depth => at = "collect" \/ failed)

\* Every launch is collected in the end, through pauses and new work, unless the driver fails
\* or work of another size comes.
LaunchesAreCollected ==
  \A s \in Slots :
    (pending > 0 /\ SlotOut = s) ~> (SlotOut # s \/ pending = 0 \/ failed \/ launchWp = NoJob)

\* The miner and its device implement the queue of launches.
Queue == INSTANCE LaunchQueue
  WITH queue <- [i \in 1 .. Len(inflight) |-> inflight[i].wp], Depth <- MaxPending

ImplementsQueue == Queue!Spec
=============================================================================
