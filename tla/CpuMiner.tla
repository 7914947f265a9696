------------------------------ MODULE CpuMiner ------------------------------
(***************************************************************************)
(* The CPU miner (MinersLib/Parnian/RandomHashCPUMiner.cpp over the steps  *)
(* of GenericCLMiner): the miner thread takes the work of the farm and     *)
(* hands it, as numbered packages, to kernel threads that hash without     *)
(* ever waiting for it. Each kernel has a ring of Slots packages, written  *)
(* before its number is published. The farm pauses the miner with a        *)
(* package too, under m_pauseMutex.                                        *)
(*                                                                         *)
(* Jobs are numbered in the order the pools send them. Not here: how       *)
(* a kernel hashes (RandomHash), the throttle, the end of the threads.     *)
(***************************************************************************)
EXTENDS Integers

CONSTANTS
  Kernels,    \* m_cpuKernels
  Slots,      \* CPUKernelData::PackagesCount
  Solo,       \* mining for a node of one's own
  MaxJobs,    \* bound: jobs that are sent
  MaxPauses   \* bound: pauses

ASSUME ConstantsAssumption ==
  /\ Slots \in Nat \ {0}
  /\ Solo \in BOOLEAN
  /\ MaxJobs \in Nat
  /\ MaxPauses \in Nat

NoJob == 0
NoThread == "none"

VARIABLES
  template,   \* m_workTemplate
  ready,      \* m_workReadyEvent
  pauses,     \* pauses so far
  farm,       \* where the thread that pauses is
  mutex,      \* the holder of m_pauseMutex
  sender,     \* SendWorkPackageToKernels: the kernels it has not reached
  at,         \* where the miner thread is
  last,       \* m_lastWorkTemplate
  currentWp,  \* m_currentWp
  isPaused,   \* m_isPaused
  sent,       \* SendWorkPackageToKernels: the work it sends
  packageID,  \* packageID[k]: the package that is published to kernel k
  written,    \* written[k]: the package that was written last
  packages,   \* packages[k][s]: the package in slot s
  kernel,     \* kernel[k]: where kernel k is, and its local variables
  share       \* the last solution handed to submitProof

farmVars == <<template, ready, pauses, farm>>
minerVars == <<at, last, currentWp, isPaused>>
sendVars == <<mutex, sender, sent, packageID, written, packages>>
vars == <<farmVars, minerVars, sendVars, kernel, share>>

Jobs == 1 .. MaxJobs
Work == Jobs \cup {NoJob}
NoShare == [label |-> NoJob, nonce2 |-> 0, job |-> NoJob, package |-> 0]

\* A package: its number, its job (none: no header), and the request to pause.
Package == [id : Nat, job : Work, pause : BOOLEAN]
EmptyPackage == [id |-> 0, job |-> NoJob, pause |-> FALSE]

\* Every variable has its type.
TypeOK ==
  /\ template \in Work
  /\ ready \in BOOLEAN
  /\ pauses \in 0 .. MaxPauses
  /\ farm \in {"idle", "lock", "send"}
  /\ mutex \in {NoThread, "farm", "miner"}
  /\ sender \in SUBSET Kernels
  /\ sent \in Work
  /\ at \in {"wait", "lock", "send", "kernel"}
  /\ last \in Work
  /\ currentWp \in Work
  /\ isPaused \in BOOLEAN
  /\ packageID \in [Kernels -> Nat]
  /\ written \in [Kernels -> Nat]
  /\ packages \in [Kernels -> [0 .. Slots - 1 -> Package]]
  /\ kernel \in [Kernels -> [at : {"fetch", "read", "search"}, id : Nat, oldID : Nat \cup {-1},
                             paused : BOOLEAN, job : Work, package : Nat]]
  /\ share \in [label : Work, nonce2 : Nat, job : Work, package : Nat]

Init ==
  /\ template = NoJob
  /\ ready = FALSE
  /\ pauses = 0
  /\ farm = "idle"
  /\ mutex = NoThread
  /\ sender = {}
  /\ sent = NoJob
  /\ at = "wait"
  /\ last = NoJob
  /\ currentWp = NoJob
  /\ isPaused = FALSE
  /\ packageID = [k \in Kernels |-> 0]
  /\ written = [k \in Kernels |-> 0]
  /\ packages = [k \in Kernels |-> [s \in 0 .. Slots - 1 |-> EmptyPackage]]
  /\ kernel = [k \in Kernels |-> [at |-> "fetch", id |-> 0, oldID |-> -1, paused |-> FALSE,
                                  job |-> NoJob, package |-> 0]]
  /\ share = NoShare

-----------------------------------------------------------------------------
(* SendWorkPackageToKernels, under m_pauseMutex.                           *)

\* MUTANT: one slot for every package.
SlotOf_One(id) == 0

SlotOf(id) == id % Slots

\* MUTANT: the packages are numbered downwards.
NextPackage_Down(k) == packageID[k] - 1

NextPackage(k) == packageID[k] + 1

\* MUTANT: the work of the farm is sent, that the miner thread may not have seen yet.
WorkToSend_Template == template

WorkToSend == currentWp

SendBegins(thread) ==
  /\ mutex = NoThread
  /\ mutex' = thread
  /\ sender' = Kernels
  /\ sent' = WorkToSend
  /\ UNCHANGED <<packageID, written, packages>>

\* The package is written to the slot after the published one...
WritePackage(k, pause) ==
  /\ k \in sender
  /\ written[k] = packageID[k]
  /\ written' = [written EXCEPT ![k] = NextPackage(k)]
  /\ packages' = [packages EXCEPT ![k][SlotOf(NextPackage(k))] =
                    [id |-> NextPackage(k), job |-> sent, pause |-> pause]]
  /\ UNCHANGED <<mutex, sender, sent, packageID>>

\* ... and then its number is published.
PublishPackage(k) ==
  /\ k \in sender
  /\ written[k] # packageID[k]
  /\ packageID' = [packageID EXCEPT ![k] = NextPackage(k)]
  /\ sender' = sender \ {k}
  /\ UNCHANGED <<mutex, sent, written, packages>>

SendStep(pause) == \E k \in Kernels : WritePackage(k, pause) \/ PublishPackage(k)

SendEnds ==
  /\ sender = {}
  /\ mutex' = NoThread
  /\ UNCHANGED <<sender, sent, packageID, written, packages>>

-----------------------------------------------------------------------------
(* The farm.                                                               *)

\* The network thread has work for the miner. Every connection draws a new nonce2, so work after
\* a pause has another header than the work before. It sends none while it pauses the miners.
SetWork(j) ==
  /\ farm = "idle"
  /\ j = template + 1
  /\ template' = j
  /\ ready' = TRUE
  /\ UNCHANGED <<pauses, farm, minerVars, sendVars, kernel, share>>

Pause ==
  /\ farm = "idle"
  /\ pauses < MaxPauses
  /\ pauses' = pauses + 1
  /\ ready' = FALSE
  /\ farm' = "lock"
  /\ UNCHANGED <<template, minerVars, sendVars, kernel, share>>

\* PauseCpuKernel: nothing to do when paused, or before the first work.
PauseLock ==
  /\ farm = "lock"
  /\ mutex = NoThread
  /\ IF isPaused \/ currentWp = NoJob
     THEN farm' = "idle" /\ isPaused' = TRUE /\ UNCHANGED sendVars
     ELSE farm' = "send" /\ SendBegins("farm") /\ UNCHANGED isPaused
  /\ UNCHANGED <<template, ready, pauses, at, last, currentWp, kernel, share>>

PauseSend ==
  /\ farm = "send"
  /\ SendStep(TRUE)
  /\ UNCHANGED <<farmVars, minerVars, kernel, share>>

PauseDone ==
  /\ farm = "send"
  /\ SendEnds
  /\ isPaused' = TRUE
  /\ farm' = "idle"
  /\ UNCHANGED <<template, ready, pauses, at, last, currentWp, kernel, share>>

-----------------------------------------------------------------------------
(* The miner thread.                                                       *)

\* WorkLoopStep and GenericCLMiner::PrepareWork: new work is cloned.
PrepareWork ==
  /\ at = "wait"
  /\ ready
  /\ LET work == IF template # last THEN template ELSE currentWp
     IN  /\ last' = template
         /\ IF work # currentWp
            THEN currentWp' = work /\ at' = "lock"
            ELSE UNCHANGED currentWp /\ at' = "kernel"
  /\ UNCHANGED <<isPaused, farmVars, sendVars, kernel, share>>

\* The work is stale: the step asks for a reconnect, that pauses the miners.
WorkStalled ==
  /\ at = "wait"
  /\ ready
  /\ template = last
  /\ ready' = FALSE
  /\ at' = "kernel"
  /\ UNCHANGED <<template, pauses, farm, last, currentWp, isPaused, sendVars, kernel, share>>

\* RandomHashCPUMiner::PrepareWork sends new work to the kernels...
SendLock ==
  /\ at = "lock"
  /\ SendBegins("miner")
  /\ at' = "send"
  /\ UNCHANGED <<farmVars, last, currentWp, isPaused, kernel, share>>

SendWork ==
  /\ at = "send"
  /\ SendStep(FALSE)
  /\ UNCHANGED <<farmVars, minerVars, kernel, share>>

SendDone ==
  /\ at = "send"
  /\ SendEnds
  /\ isPaused' = FALSE
  /\ at' = "wait"
  /\ UNCHANGED <<farmVars, last, currentWp, kernel, share>>

\* ... and forgets the pause even when there is nothing new to send.
NothingNew ==
  /\ at = "kernel"
  /\ mutex = NoThread
  /\ isPaused' = FALSE
  /\ at' = "wait"
  /\ UNCHANGED <<farmVars, last, currentWp, sendVars, kernel, share>>

-----------------------------------------------------------------------------
(* The kernels.                                                            *)

\* The slot the kernel uses, whatever is in it by now.
Slot(k) == packages[k][SlotOf(kernel[k].id)]

Fetch(k) ==
  /\ kernel[k].at = "fetch"
  /\ kernel' = [kernel EXCEPT ![k].at = "read", ![k].id = packageID[k]]
  /\ UNCHANGED <<farmVars, minerVars, sendVars, share>>

IsNew(k) == kernel[k].oldID # kernel[k].id

\* MUTANT: a package does not end the pause.
StaysPaused_Always(k) == kernel[k].paused

\* Any new package ends the pause, unless it asks for one.
StaysPaused(k) == kernel[k].paused /\ ~IsNew(k)

\* The package asks for a pause: the request is taken out of the slot.
ReadPause(k) ==
  /\ kernel[k].at = "read"
  /\ Slot(k).pause
  /\ packages' = [packages EXCEPT ![k][SlotOf(kernel[k].id)].pause = FALSE]
  /\ kernel' = [kernel EXCEPT ![k] = [@ EXCEPT !.at = "fetch", !.paused = TRUE, !.oldID = kernel[k].id]]
  /\ UNCHANGED <<farmVars, minerVars, mutex, sender, sent, packageID, written, share>>

SleepPaused(k) ==
  /\ kernel[k].at = "read"
  /\ ~Slot(k).pause
  /\ StaysPaused(k)
  /\ kernel' = [kernel EXCEPT ![k].at = "fetch"]
  /\ UNCHANGED <<farmVars, minerVars, sendVars, share>>

\* RandomHash_SetHeader with a new package; an empty one is not even remembered.
ReadPackage(k) ==
  /\ kernel[k].at = "read"
  /\ ~Slot(k).pause
  /\ ~StaysPaused(k)
  /\ kernel' = [kernel EXCEPT ![k] =
       IF IsNew(k) /\ Slot(k).job = NoJob
       THEN [@ EXCEPT !.at = "fetch", !.paused = FALSE]
       ELSE IF IsNew(k)
       THEN [@ EXCEPT !.at = "search", !.paused = FALSE, !.job = Slot(k).job,
                      !.package = Slot(k).id]
       ELSE [@ EXCEPT !.at = "search"]]
  /\ UNCHANGED <<farmVars, minerVars, sendVars, share>>

\* RandomHash_Search; a solution is labelled with the work the miner thread has now and with
\* the nonce2 of the slot. On a node one solution is enough.
Search(k) ==
  /\ kernel[k].at = "search"
  /\ \/ /\ share' = [label |-> currentWp, nonce2 |-> Slot(k).id, job |-> kernel[k].job,
                     package |-> kernel[k].package]
        /\ kernel' = [kernel EXCEPT ![k] =
             [@ EXCEPT !.at = "fetch", !.oldID = kernel[k].id, !.paused = Solo]]
     \/ /\ kernel' = [kernel EXCEPT ![k] = [@ EXCEPT !.at = "fetch", !.oldID = kernel[k].id]]
        /\ UNCHANGED share
  /\ UNCHANGED <<farmVars, minerVars, sendVars>>

KernelStep(k) == Fetch(k) \/ ReadPause(k) \/ SleepPaused(k) \/ ReadPackage(k) \/ Search(k)

FarmSteps == PauseLock \/ PauseSend \/ PauseDone

MinerSteps == PrepareWork \/ SendLock \/ SendWork \/ SendDone \/ NothingNew

Next ==
  \/ \E j \in Jobs : SetWork(j)
  \/ Pause \/ FarmSteps
  \/ MinerSteps \/ WorkStalled
  \/ \E k \in Kernels : KernelStep(k)

Spec == Init /\ [][Next]_vars

\* Every thread goes on.
FairSpec ==
  /\ Spec
  /\ WF_vars(FarmSteps)
  /\ SF_vars(MinerSteps)
  /\ \A k \in Kernels : WF_vars(KernelStep(k))

-----------------------------------------------------------------------------
(* Properties.                                                             *)

\* The package a kernel works with is the one it fetched, although the miner thread and the
\* farm go on writing, as long as they are less than a ring ahead.
PackageStable ==
  \A k \in Kernels :
    kernel[k].at # "fetch" /\ written[k] - kernel[k].id < Slots => Slot(k).id = kernel[k].id

\* A solution is never labelled with a job older than the one that was hashed: a share the pool
\* rejects for its label was found for a job that is over.
LabelNotOlder == share.label >= share.job

\* When nothing is being sent, the package that is published to each kernel is of the work the
\* miner has, whoever sent it last.
KernelsHaveTheWork ==
  mutex = NoThread /\ at # "lock" =>
    \A k \in Kernels : packages[k][SlotOf(packageID[k])].job = currentWp

\* New work reaches every kernel, unless other work or a pause comes.
NewWorkIsMined ==
  \A j \in Jobs, k \in Kernels :
    template = j /\ last # j /\ ready /\ farm = "idle"
      ~> \/ kernel[k].job = j /\ kernel[k].at = "search"
         \/ template # j \/ ~ready \/ farm # "idle"
=============================================================================
