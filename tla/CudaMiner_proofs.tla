-------------------------- MODULE CudaMiner_proofs --------------------------
(***************************************************************************)
(* What is proved of CudaMiner for every set of jobs, any number of        *)
(* threads and both settings of -gpuoverlap: the types, the agreement of   *)
(* the host's queue with the slots of the device, that a solution names    *)
(* the work it was found for, that no nonce is tried twice on one header,  *)
(* and that the miner with its device implements LaunchQueue.              *)
(***************************************************************************)
EXTENDS CudaMiner, SequenceTheorems, TLAPS

-----------------------------------------------------------------------------
(* The inductive invariant.                                                *)

\* What is known of launch l, whose results go to slot s: while it is queued the header on the
\* device is that of its work, and when it ran its results are of that work.
LaunchInv(l, s) ==
  /\ stage[s] # "free"
  /\ l.limit = l.wp
  /\ stage[s] = "queued" => dHeader = l.wp
  /\ stage[s] # "queued" => result[s] = l.wp

\* The oldest launch is in the slot Wait reads next, the newer one in the other.
QueueInv ==
  /\ Len(inflight) = pending
  /\ pending <= MaxPending
  /\ pending = MaxPending => at = "collect" \/ failed
  /\ pending = 0 => \A s \in Slots : stage[s] = "free"
  /\ pending = 1 => stage[1 - SlotOut] = "free"
  /\ pending >= 1 => LaunchInv(inflight[1], SlotOut)
  /\ pending = 2 => LaunchInv(inflight[2], 1 - SlotOut)

\* The work of the next launch is the one whose header is on the device.
HeaderInv ==
  launchWp # NoJob => dHeader = launchWp /\ limit = launchWp

IInv == TypeOK /\ QueueInv /\ HeaderInv /\ SolutionsNameTheirWork

-----------------------------------------------------------------------------
(* Lemmas about the slots, the nonces and the queue.                       *)

\* The slot read next, for each number of launches in flight.
LEMMA SlotFacts ==
  ASSUME TypeOK
  PROVE  /\ SlotOut \in Slots /\ 1 - SlotOut \in Slots /\ 1 - slotIn \in Slots
         /\ \A s \in Slots : s = SlotOut \/ s = 1 - SlotOut
         /\ pending \in {0, 2} => SlotOut = slotIn
         /\ pending = 1 => SlotOut = 1 - slotIn
BY DEF TypeOK, Slots, SlotOut

\* The nonce of the next launch is a nonce.
LEMMA NextNonceType ==
  ASSUME TypeOK
  PROVE  NextNonce \in Nonces
BY ConstantsAssumption DEF TypeOK, Nonces, NextNonce

\* The number of threads stays within what the device was opened with.
LEMMA AdaptLaunchType ==
  ASSUME TypeOK, AdaptLaunch
  PROVE  active' \in 1 .. MaxThreads
BY ConstantsAssumption DEF TypeOK, AdaptLaunch, Halved, Doubled

\* A launch that is added, and one that is taken.
LEMMA Appended ==
  ASSUME NEW q \in Seq(Inflight), NEW e \in Inflight
  PROVE  /\ Append(q, e) \in Seq(Inflight)
         /\ Len(Append(q, e)) = Len(q) + 1
         /\ \A i \in 1 .. Len(q) : Append(q, e)[i] = q[i]
         /\ Append(q, e)[Len(q) + 1] = e
OBVIOUS

LEMMA Taken ==
  ASSUME NEW q \in Seq(Inflight), Len(q) > 0
  PROVE  /\ Head(q) = q[1] /\ q[1] \in Inflight
         /\ Tail(q) \in Seq(Inflight)
         /\ Len(Tail(q)) = Len(q) - 1
         /\ \A i \in 1 .. Len(q) - 1 : Tail(q)[i] = q[i + 1]
<1>1. q # <<>>
  OBVIOUS
<1>2. Head(q) = q[1] /\ q[1] \in Inflight
  BY ElementOfSeq, 1 \in 1 .. Len(q)
<1> QED
  BY <1>1, <1>2, HeadTailProperties

-----------------------------------------------------------------------------
(* The types.                                                              *)

\* The first states have the types.
LEMMA TypeInit == Init => TypeOK
BY ConstantsAssumption DEF Init, TypeOK, Work, Nonces, Slots, NoReport, Inflight

\* Every step keeps the types, if the queue is as long as the device says.
LEMMA TypeStep ==
  ASSUME TypeOK, Len(inflight) = pending, [Next]_vars
  PROVE  TypeOK'
<1>1. ASSUME NEW j \in Jobs, SetWork(j) PROVE TypeOK'
  BY <1>1 DEF TypeOK, SetWork, Work, minerVars, deviceVars
<1>2. CASE Pause \/ WorkStalled
  BY <1>2 DEF TypeOK, Pause, WorkStalled, minerVars, deviceVars
<1>3. CASE Open
  BY <1>3 DEF TypeOK, Open, farmVars, deviceVars
<1>4. CASE PrepareWork
  BY <1>4 DEF TypeOK, PrepareWork, LaunchWpFor, Work, farmVars, deviceVars
<1>5. CASE UploadHeader
  BY <1>5 DEF TypeOK, UploadHeader, farmVars
<1>6. CASE Launch
  <2>1. launchWp \in Jobs
    BY <1>6 DEF Launch, TypeOK, Work
  <2>2. CASE UNCHANGED <<inflight, stage, slotIn, pending>>
    BY <1>6, <2>2, NextNonceType DEF TypeOK, Launch, farmVars
  <2>3. CASE pending < 2 /\ inflight' = Append(inflight, [wp |-> launchWp, limit |-> limit,
                                                 start |-> nonceBase, count |-> active])
             /\ stage' = [stage EXCEPT ![slotIn] = "queued"] /\ slotIn' = 1 - slotIn
             /\ pending' = pending + 1 /\ at' = "collect" /\ failed' = failed
    <3>1. [wp |-> launchWp, limit |-> limit, start |-> nonceBase, count |-> active] \in Inflight
      BY <2>1 DEF TypeOK, Inflight
    <3>2. inflight' \in Seq(Inflight)
      BY <2>3, <3>1, Appended DEF TypeOK
    <3>3. slotIn' \in Slots /\ pending' \in 0 .. 2
      BY <2>3 DEF TypeOK, Slots
    <3> QED
      BY <1>6, <2>3, <3>2, <3>3, NextNonceType DEF TypeOK, Launch, farmVars
  <2> QED
    BY <1>6, <2>2, <2>3 DEF Launch
<1>7. CASE NothingToLaunch \/ CollectFails \/ StepDone
  BY <1>7 DEF TypeOK, NothingToLaunch, CollectFails, StepDone, farmVars, deviceVars
<1>8. CASE Collect
  <2>1. Len(inflight) > 0
    BY <1>8 DEF Collect, MaxPending, TypeOK
  <2>2. inflight' \in Seq(Inflight) /\ Oldest \in Inflight
    BY <1>8, <2>1, Taken DEF Collect, TypeOK, Oldest
  <2>3. pending' \in 0 .. 2
    BY <1>8, <2>1 DEF Collect, TypeOK
  <2>4. result[SlotOut] \in Work
    BY SlotFacts DEF TypeOK
  <2>5. report' \in [label : Work, hashed : Work, limit : Work]
    BY <1>8, <2>2, <2>4 DEF Collect, TypeOK, Label, Limit, Inflight, Work
  <2>6. active' \in 1 .. MaxThreads
    BY <1>8, AdaptLaunchType DEF Collect
  <2>7. stage' \in [Slots -> {"free", "queued", "ran", "copied"}]
    BY <1>8 DEF Collect, TypeOK
  <2> QED
    BY <1>8, <2>2, <2>3, <2>5, <2>6, <2>7 DEF TypeOK, Collect, farmVars
<1>9. ASSUME NEW s \in Slots, KernelRuns(s) \/ CopyBack(s) PROVE TypeOK'
  BY <1>9 DEF TypeOK, KernelRuns, CopyBack, farmVars, minerVars
<1>10. CASE UNCHANGED vars
  BY <1>10 DEF TypeOK, vars, farmVars, minerVars, deviceVars
<1> QED
  BY <1>1, <1>2, <1>3, <1>4, <1>5, <1>6, <1>7, <1>8, <1>9, <1>10
  DEF Next, FarmStep, MinerStep, DeviceStep

-----------------------------------------------------------------------------
(* The queue and the slots.                                                *)

LEMMA QueueInit == Init => QueueInv /\ HeaderInv /\ SolutionsNameTheirWork
BY DEF Init, QueueInv, HeaderInv, SolutionsNameTheirWork, Slots, NoReport

\* A step that leaves the device and the queue alone keeps what is known of them.
LEMMA QueueUnchanged ==
  ASSUME QueueInv, UNCHANGED <<inflight, deviceVars>>, at' = "collect" \/ failed' \/ pending # MaxPending
  PROVE  QueueInv'
<1>1. SlotOut' = SlotOut
  BY DEF SlotOut, deviceVars
<1> QED
  BY <1>1 DEF QueueInv, LaunchInv, deviceVars

\* A new launch goes to the free slot, with the header of its work on the device.
LEMMA QueueLaunch ==
  ASSUME TypeOK, QueueInv, HeaderInv, Launch
  PROVE  QueueInv'
<1>1. CASE UNCHANGED <<inflight, stage, slotIn, pending>> /\ failed'
  BY <1>1, QueueUnchanged DEF Launch, deviceVars
<1>2. CASE pending < 2 /\ inflight' = Append(inflight, [wp |-> launchWp, limit |-> limit,
                                               start |-> nonceBase, count |-> active])
           /\ stage' = [stage EXCEPT ![slotIn] = "queued"] /\ slotIn' = 1 - slotIn
           /\ pending' = pending + 1 /\ at' = "collect"
  <2> DEFINE l == [wp |-> launchWp, limit |-> limit, start |-> nonceBase, count |-> active]
  <2>1. launchWp # NoJob /\ UNCHANGED <<dHeader, result>>
    BY Launch DEF Launch
  <2>2. l.wp = dHeader /\ l.limit = l.wp
    BY <2>1 DEF HeaderInv
  <2>3. l \in Inflight
    BY <2>1 DEF TypeOK, Inflight, Work
  <2>4. /\ Len(inflight') = Len(inflight) + 1
        /\ \A i \in 1 .. Len(inflight) : inflight'[i] = inflight[i]
        /\ inflight'[Len(inflight) + 1] = l
    BY <1>2, <2>3, Appended DEF TypeOK
  <2> HIDE DEF l
  <2>5. SlotOut' = SlotOut
    BY <1>2 DEF SlotOut, TypeOK, Slots
  <2>6. CASE pending = 0
    <3>1. SlotOut = slotIn /\ pending' = 1
      BY <2>6, <1>2, SlotFacts
    <3>2. stage'[SlotOut] = "queued" /\ stage'[1 - SlotOut] = "free"
      BY <3>1, <2>6, <1>2 DEF QueueInv, TypeOK, Slots
    <3>3. LaunchInv(inflight[1], SlotOut)'
      BY <3>2, <2>6, <2>5, <2>4, <2>2, <2>1 DEF LaunchInv, QueueInv
    <3> QED
      BY <3>1, <3>2, <3>3, <2>6, <2>5, <2>4, <1>2 DEF QueueInv, MaxPending
  <2>7. CASE pending = 1
    <3>1. slotIn = 1 - SlotOut /\ pending' = 2
      BY <2>7, <1>2, SlotFacts DEF TypeOK, Slots
    <3>2. stage'[SlotOut] = stage[SlotOut] /\ stage'[1 - SlotOut] = "queued"
      BY <3>1, <1>2, SlotFacts DEF TypeOK, Slots
    <3>3. inflight'[1] = inflight[1] /\ inflight'[2] = l
      BY <2>4, <2>7 DEF QueueInv
    <3>4. LaunchInv(inflight[1], SlotOut)'
      BY <3>2, <3>3, <2>7, <2>5, <2>1 DEF LaunchInv, QueueInv
    <3>5. LaunchInv(inflight[2], 1 - SlotOut)'
      BY <3>2, <3>3, <2>5, <2>2, <2>1 DEF LaunchInv
    <3>6. MaxPending = 2
      BY <2>7, Launch DEF Launch, QueueInv, MaxPending
    <3> QED
      BY <3>1, <3>4, <3>5, <3>6, <2>7, <2>4, <1>2 DEF QueueInv, MaxPending
  <2> QED
    BY <1>2, <2>6, <2>7 DEF TypeOK
<1> QED
  BY <1>1, <1>2, Launch DEF Launch

\* Wait takes the oldest launch; the newer one becomes the oldest.
LEMMA QueueCollect ==
  ASSUME TypeOK, QueueInv, Collect
  PROVE  /\ QueueInv'
         /\ Len(inflight) > 0
         /\ report' \in {report, [label |-> inflight[1].wp, hashed |-> inflight[1].wp,
                                  limit |-> inflight[1].wp]}
<1>1. Len(inflight) > 0 /\ pending \in {1, 2}
  BY Collect DEF Collect, MaxPending, TypeOK, QueueInv
<1>2. Oldest = inflight[1] /\ inflight' = Tail(inflight)
      /\ Len(inflight') = Len(inflight) - 1
      /\ \A i \in 1 .. Len(inflight) - 1 : inflight'[i] = inflight[i + 1]
  BY <1>1, Taken, Collect DEF Collect, TypeOK, Oldest
<1>3. pending' = pending - 1 /\ UNCHANGED <<at, failed, slotIn, dHeader, result>>
      /\ stage' = [stage EXCEPT ![SlotOut] = "free"] /\ stage[SlotOut] = "copied"
  BY Collect DEF Collect, ResultsThere
<1>4. LaunchInv(inflight[1], SlotOut)
  BY <1>1 DEF QueueInv
<1>5. report' \in {report, [label |-> inflight[1].wp, hashed |-> inflight[1].wp,
                            limit |-> inflight[1].wp]}
  BY <1>2, <1>3, <1>4, Collect DEF Collect, Label, Limit, LaunchInv
<1>6. stage'[SlotOut] = "free" /\ stage'[1 - SlotOut] = stage[1 - SlotOut]
  BY <1>3, SlotFacts DEF TypeOK, Slots, SlotOut
<1>7. SlotOut' = 1 - SlotOut
  BY <1>1, <1>3 DEF TypeOK, SlotOut, Slots
<1>8. QueueInv'
  <2>1. CASE pending = 1
    <3>1. \A s \in Slots : stage'[s] = "free"
      BY <2>1, <1>6, SlotFacts DEF QueueInv
    <3> QED
      BY <2>1, <3>1, <1>2, <1>3 DEF QueueInv, MaxPending
  <2>2. CASE pending = 2
    <3>1. LaunchInv(inflight[1], SlotOut)'
      BY <2>2, <1>2, <1>3, <1>6, <1>7 DEF LaunchInv, QueueInv
    <3>2. stage'[1 - SlotOut'] = "free"
      BY <1>6, <1>7, SlotFacts DEF TypeOK, Slots
    <3> QED
      BY <2>2, <3>1, <3>2, <1>2, <1>3, Collect DEF QueueInv, MaxPending, Collect
  <2> QED
    BY <2>1, <2>2, <1>1
<1> QED
  BY <1>1, <1>5, <1>8

\* The device works in the order of the stream, so a kernel runs with the header of its work.
LEMMA QueueDevice ==
  ASSUME TypeOK, QueueInv, NEW s \in Slots, KernelRuns(s) \/ CopyBack(s)
  PROVE  QueueInv'
<1>1. SlotOut' = SlotOut /\ UNCHANGED <<inflight, pending, at, failed, dHeader>>
  BY DEF KernelRuns, CopyBack, SlotOut, minerVars
<1>2. stage[s] # "free" /\ stage'[s] \in {"ran", "copied"}
      /\ \A r \in Slots \ {s} : stage'[r] = stage[r] /\ result'[r] = result[r]
  BY DEF KernelRuns, CopyBack, TypeOK
<1>3. stage[s] = "queued" => result'[s] = dHeader
  BY DEF KernelRuns, CopyBack, TypeOK
<1>4. stage[s] # "queued" => result'[s] = result[s]
  BY DEF KernelRuns, CopyBack, TypeOK
<1>5. ASSUME NEW l, NEW r \in Slots, LaunchInv(l, r) PROVE LaunchInv(l, r)'
  <2>1. CASE r = s
    BY <2>1, <1>5, <1>1, <1>2, <1>3, <1>4 DEF LaunchInv
  <2>2. CASE r # s
    BY <2>2, <1>5, <1>1, <1>2 DEF LaunchInv
  <2> QED
    BY <2>1, <2>2
<1>6. pending >= 1 => LaunchInv(inflight[1], SlotOut)'
  BY <1>1, <1>5, SlotFacts DEF QueueInv, LaunchInv
<1>7. pending = 2 => LaunchInv(inflight[2], 1 - SlotOut)'
  BY <1>1, <1>5, SlotFacts DEF QueueInv, LaunchInv
<1>8. pending # 0
  BY <1>2 DEF QueueInv
<1>9. pending = 1 => stage'[1 - SlotOut] = "free"
  BY <1>2, SlotFacts DEF QueueInv
<1> QED
  BY <1>1, <1>6, <1>7, <1>8, <1>9 DEF QueueInv

\* The upload of a header waits for the kernels that were queued with the old one.
LEMMA QueueUpload ==
  ASSUME TypeOK, QueueInv, HeaderInv, UploadHeader
  PROVE  QueueInv' /\ HeaderInv'
<1>1. \A s \in Slots : stage[s] # "queued"
  BY DEF UploadHeader, UploadWaits, Drained
<1>2. SlotOut' = SlotOut /\ UNCHANGED <<inflight, pending, stage, result>>
  BY DEF UploadHeader, SlotOut
<1>3. pending = MaxPending => failed'
  <2>1. pending = MaxPending => failed
    BY DEF QueueInv, UploadHeader
  <2>2. failed => failed'
    BY DEF UploadHeader
  <2> QED
    BY <2>1, <2>2
<1>4. ASSUME NEW l, NEW r \in Slots, LaunchInv(l, r) PROVE LaunchInv(l, r)'
  BY <1>1, <1>2, <1>4 DEF LaunchInv
<1>5. QueueInv'
  BY <1>2, <1>3, <1>4, SlotFacts DEF QueueInv, LaunchInv
<1>6. HeaderInv'
  BY DEF HeaderInv, UploadHeader
<1> QED
  BY <1>5, <1>6

-----------------------------------------------------------------------------
(* The inductive step and the theorems.                                    *)

LEMMA IInvStep ==
  ASSUME IInv, [Next]_vars
  PROVE  IInv'
<1> USE DEF IInv
<1>1. TypeOK'
  BY TypeStep DEF QueueInv
<1>2. ASSUME NEW j \in Jobs, SetWork(j) PROVE IInv'
  BY <1>1, <1>2, QueueUnchanged
  DEF SetWork, minerVars, deviceVars, QueueInv, HeaderInv, SolutionsNameTheirWork
<1>3. CASE Pause \/ WorkStalled
  BY <1>1, <1>3, QueueUnchanged
  DEF Pause, WorkStalled, minerVars, deviceVars, QueueInv, HeaderInv, SolutionsNameTheirWork
<1>4. CASE Open \/ NothingToLaunch
  BY <1>1, <1>4, QueueUnchanged
  DEF Open, NothingToLaunch, deviceVars, QueueInv, HeaderInv, SolutionsNameTheirWork
<1>5. CASE PrepareWork
  <2>1. launchWp' \in {launchWp, NoJob}
    BY <1>5 DEF PrepareWork, LaunchWpFor
  <2> QED
    BY <1>1, <1>5, <2>1, QueueUnchanged
    DEF PrepareWork, deviceVars, QueueInv, HeaderInv, SolutionsNameTheirWork
<1>6. CASE UploadHeader
  BY <1>1, <1>6, QueueUpload DEF UploadHeader, SolutionsNameTheirWork
<1>7. CASE Launch
  BY <1>1, <1>7, QueueLaunch DEF Launch, HeaderInv, SolutionsNameTheirWork
<1>8. CASE Collect
  <2>1. SolutionsNameTheirWork'
    BY <1>8, QueueCollect DEF SolutionsNameTheirWork
  <2>2. HeaderInv'
    BY <1>8 DEF Collect, HeaderInv
  <2> QED
    BY <1>1, <1>8, <2>1, <2>2, QueueCollect
<1>9. CASE CollectFails
  BY <1>1, <1>9, QueueUnchanged
  DEF CollectFails, deviceVars, QueueInv, HeaderInv, SolutionsNameTheirWork
<1>10. CASE StepDone
  <2>1. pending # MaxPending
    BY <1>10 DEF StepDone, TypeOK, MaxPending
  <2> QED
    BY <1>1, <1>10, <2>1, QueueUnchanged
    DEF StepDone, deviceVars, HeaderInv, SolutionsNameTheirWork
<1>11. ASSUME NEW s \in Slots, KernelRuns(s) \/ CopyBack(s) PROVE IInv'
  BY <1>1, <1>11, QueueDevice
  DEF KernelRuns, CopyBack, minerVars, HeaderInv, SolutionsNameTheirWork
<1>12. CASE UNCHANGED vars
  BY <1>1, <1>12, QueueUnchanged
  DEF vars, minerVars, deviceVars, QueueInv, HeaderInv, SolutionsNameTheirWork
<1> QED
  BY <1>2, <1>3, <1>4, <1>5, <1>6, <1>7, <1>8, <1>9, <1>10, <1>11, <1>12
  DEF Next, FarmStep, MinerStep, DeviceStep

\* The invariant holds in every state.
LEMMA Invariant == Spec => []IInv
<1>1. Init => IInv
  BY TypeInit, QueueInit DEF IInv
<1> QED
  BY <1>1, IInvStep, PTL DEF Spec

\* Every variable of the miner and of the device keeps its type.
THEOREM TypeCorrect == Spec => []TypeOK
<1>1. IInv => TypeOK
  BY DEF IInv
<1> QED
  BY <1>1, Invariant, PTL

\* A solution is sent for the job whose header the GPU hashed, and was tested against the
\* target of that job, whatever work comes while launches are in flight.
THEOREM SolutionsCorrect == Spec => []SolutionsNameTheirWork
<1>1. IInv => SolutionsNameTheirWork
  BY DEF IInv
<1> QED
  BY <1>1, Invariant, PTL

\* The host's queue of works and the slots of the device agree, and a device that works is
\* never asked for more launches than -gpuoverlap allows.
THEOREM SlotsCorrect == Spec => []QueueMatchesSlots
<1>1. ASSUME IInv PROVE QueueMatchesSlots
  <2>1. pending = 0 => {s \in Slots : stage[s] # "free"} = {}
    BY <1>1 DEF IInv, QueueInv
  <2>2. pending = 1 => {s \in Slots : stage[s] # "free"} = {SlotOut}
    BY <1>1, SlotFacts DEF IInv, QueueInv, LaunchInv
  <2>3. pending = 2 => {s \in Slots : stage[s] # "free"} = Slots
    BY <1>1, SlotFacts DEF IInv, QueueInv, LaunchInv
  <2>4. Len(inflight) = pending /\ pending <= MaxPending
        /\ (pending = MaxPending => at = "collect" \/ failed)
        /\ pending \in {0, 1, 2}
    BY <1>1 DEF IInv, QueueInv, TypeOK
  <2> QED
    BY <2>1, <2>2, <2>3, <2>4 DEF QueueMatchesSlots, MaxPending
<1> QED
  BY <1>1, Invariant, PTL

-----------------------------------------------------------------------------
(* The nonces. This invariant is inductive with the one above.             *)

\* Nonce n is the one after those of launch l.
Follows(l, n) == n = (l.start + l.count) % NonceSpace

\* The work of the next launch is the miner's, and it is never work that comes back while
\* something of it is in flight: only then may its nonces start anywhere.
WorkInv ==
  /\ last = currentWp
  /\ template # last => \A i \in DOMAIN inflight : inflight[i].wp # template
  /\ at = "upload" => ~failed /\ \A i \in DOMAIN inflight : inflight[i].wp # currentWp
  /\ launchWp \in {NoJob, currentWp} \/ at = "upload" \/ failed

\* The launches for the work of the next launch are the newest, each starts where the one
\* before ends, and the next launch where the newest ends, or further on after a launch that
\* failed.
NonceInv ==
  /\ pending = 1 /\ inflight[1].wp = launchWp =>
       /\ nonceBase \notin NoncesOf(inflight[1].start, inflight[1].count)
       /\ failed \/ Follows(inflight[1], nonceBase)
  /\ pending = 2 /\ inflight[1].wp = launchWp =>
       inflight[2].wp = launchWp /\ Follows(inflight[1], inflight[2].start)
  /\ pending = 2 /\ inflight[2].wp = launchWp => Follows(inflight[2], nonceBase)

\* The remainder of a sum of two nonces.
LEMMA NonceSum ==
  ASSUME NEW a \in Nonces, NEW b \in Nonces
  PROVE  (a + b) % NonceSpace = IF a + b < NonceSpace THEN a + b ELSE a + b - NonceSpace
<1>1. NonceSpace \in Nat \ {0}
  BY ConstantsAssumption
<1>2. CASE a + b < NonceSpace
  BY <1>1, <1>2 DEF Nonces
<1>3. CASE a + b >= NonceSpace
  BY <1>1, <1>3 DEF Nonces
<1> QED
  BY <1>1, <1>2, <1>3 DEF Nonces

\* Two launches in a row, the second with d blocks or none, share no nonce, and the nonce
\* after them is in neither, since together they are smaller than the space of nonces.
LEMMA InARow ==
  ASSUME NEW s \in Nonces, NEW c \in 1 .. MaxThreads, NEW e,
         e = (s + c) % NonceSpace, NEW d \in 0 .. MaxThreads
  PROVE  /\ e \in Nonces /\ (e + d) % NonceSpace \in Nonces
         /\ NoncesOf(s, c) \cap NoncesOf(e, d) = {}
         /\ (e + d) % NonceSpace \notin NoncesOf(s, c)
         /\ d > 0 => (e + d) % NonceSpace \notin NoncesOf(e, d)
<1>1. NonceSpace \in Nat /\ MaxThreads \in Nat /\ 2 * MaxThreads < NonceSpace
  BY ConstantsAssumption
<1>2. c \in Nonces /\ d \in Nonces /\ s \in Nonces
  BY <1>1 DEF Nonces
<1>3. e = IF s + c < NonceSpace THEN s + c ELSE s + c - NonceSpace
  BY <1>2, NonceSum
<1>4. e \in Nonces
  BY <1>1, <1>2, <1>3 DEF Nonces
<1>5. ASSUME NEW i \in 0 .. MaxThreads
      PROVE  /\ (s + i) % NonceSpace = IF s + i < NonceSpace THEN s + i ELSE s + i - NonceSpace
             /\ (e + i) % NonceSpace = IF e + i < NonceSpace THEN e + i ELSE e + i - NonceSpace
  <2>1. i \in Nonces
    BY <1>1 DEF Nonces
  <2> QED
    BY <2>1, <1>2, <1>4, NonceSum
<1>6. (e + d) % NonceSpace \in Nonces
  BY <1>1, <1>2, <1>4, <1>5 DEF Nonces
<1>7. ASSUME NEW i \in 0 .. c - 1, NEW k \in 0 .. d
      PROVE  (s + i) % NonceSpace # (e + k) % NonceSpace
  <2>1. i \in 0 .. MaxThreads /\ k \in 0 .. MaxThreads
    BY <1>1
  <2>2. (s + i) % NonceSpace = IF s + i < NonceSpace THEN s + i ELSE s + i - NonceSpace
    BY <2>1, <1>5
  <2>3. (e + k) % NonceSpace = IF e + k < NonceSpace THEN e + k ELSE e + k - NonceSpace
    BY <2>1, <1>5
  <2>4. ASSUME NEW x, NEW y, x = (IF s + i < NonceSpace THEN s + i ELSE s + i - NonceSpace),
               y = (IF e + k < NonceSpace THEN e + k ELSE e + k - NonceSpace)
        PROVE  x # y
    BY <2>4, <1>1, <1>3 DEF Nonces
  <2> QED
    BY <2>2, <2>3, <2>4
<1>8. ASSUME NEW k \in 0 .. d - 1, d > 0 PROVE (e + d) % NonceSpace # (e + k) % NonceSpace
  <2>1. k \in 0 .. MaxThreads
    BY <1>1
  <2>2. (e + d) % NonceSpace = IF e + d < NonceSpace THEN e + d ELSE e + d - NonceSpace
    BY <1>5
  <2>3. (e + k) % NonceSpace = IF e + k < NonceSpace THEN e + k ELSE e + k - NonceSpace
    BY <2>1, <1>5
  <2>4. ASSUME NEW x, NEW y, x = (IF e + d < NonceSpace THEN e + d ELSE e + d - NonceSpace),
               y = (IF e + k < NonceSpace THEN e + k ELSE e + k - NonceSpace)
        PROVE  x # y
    BY <2>4, <1>1, <1>4, <1>8 DEF Nonces
  <2> QED
    BY <2>2, <2>3, <2>4
<1>9. NoncesOf(s, c) \cap NoncesOf(e, d) = {}
  BY <1>7 DEF NoncesOf
<1>10. (e + d) % NonceSpace \notin NoncesOf(s, c)
  BY <1>7 DEF NoncesOf
<1>11. d > 0 => (e + d) % NonceSpace \notin NoncesOf(e, d)
  BY <1>8 DEF NoncesOf
<1> QED
  BY <1>4, <1>6, <1>9, <1>10, <1>11

\* The nonce after a launch is not one of its own, nor is one that a second launch skips.
LEMMA AfterLaunch ==
  ASSUME NEW l \in Inflight, NEW n, Follows(l, n)
  PROVE  /\ n \notin NoncesOf(l.start, l.count)
         /\ \A d \in 1 .. MaxThreads : (n + d) % NonceSpace \notin NoncesOf(l.start, l.count)
<1>1. l.start \in Nonces /\ l.count \in 1 .. MaxThreads /\ MaxThreads \in Nat
  BY ConstantsAssumption DEF Inflight
<1>2. ASSUME NEW d \in 0 .. MaxThreads
      PROVE  (n + d) % NonceSpace \notin NoncesOf(l.start, l.count)
  BY <1>1, InARow DEF Follows
<1>3. n \in Nonces
  BY <1>1, InARow DEF Follows
<1>4. 0 \in 0 .. MaxThreads /\ (n + 0) % NonceSpace = n
  <2>1. 0 \in Nonces /\ n \in Nat /\ n < NonceSpace
    BY <1>3, ConstantsAssumption DEF Nonces
  <2>2. (n + 0) % NonceSpace = IF n + 0 < NonceSpace THEN n + 0 ELSE n + 0 - NonceSpace
    BY <1>3, <2>1, NonceSum
  <2> QED
    BY <1>1, <2>1, <2>2
<1>5. n \notin NoncesOf(l.start, l.count)
  BY <1>2, <1>4
<1> QED
  BY <1>1, <1>2, <1>5

LEMMA NonceInit == Init => WorkInv /\ NonceInv
BY DEF Init, WorkInv, NonceInv

\* A step that leaves the launches, their nonces and the miner's work alone.
LEMMA NonceUnchanged ==
  ASSUME NonceInv, UNCHANGED <<inflight, pending, nonceBase, launchWp>>, failed => failed'
  PROVE  NonceInv'
BY DEF NonceInv, Follows

\* The launches in flight are launches.
LEMMA InFlight ==
  ASSUME IInv
  PROVE  /\ Len(inflight) = pending /\ DOMAIN inflight = 1 .. pending /\ pending \in {0, 1, 2}
         /\ \A i \in 1 .. pending : inflight[i] \in Inflight /\ inflight[i].wp \in Jobs
<1>1. Len(inflight) = pending /\ pending \in {0, 1, 2} /\ inflight \in Seq(Inflight)
  BY DEF IInv, TypeOK, QueueInv
<1>2. DOMAIN inflight = 1 .. pending
  BY <1>1
<1>3. ASSUME NEW i \in 1 .. pending PROVE inflight[i] \in Inflight
  BY <1>1, <1>3, ElementOfSeq
<1> QED
  BY <1>1, <1>2, <1>3 DEF Inflight

\* A new launch starts where the newest one for the same work ends.
LEMMA NonceLaunch ==
  ASSUME IInv, WorkInv, NonceInv, Launch
  PROVE  WorkInv' /\ NonceInv'
<1> USE DEF IInv
<1>1. launchWp = currentWp /\ launchWp \in Jobs /\ launchWp' = launchWp /\ pending < 2 /\ ~failed
  BY DEF Launch, WorkInv, TypeOK, Work, QueueInv, MaxPending
<1>2. nonceBase \in Nonces /\ active \in 1 .. MaxThreads
      /\ nonceBase' = (nonceBase + active) % NonceSpace
  BY DEF TypeOK, Launch, NextNonce
<1>3. CASE UNCHANGED <<inflight, stage, slotIn, pending>> /\ failed' /\ at' = "wait"
  <2>1. WorkInv'
    BY <1>3, Launch DEF WorkInv, Launch, farmVars
  <2>2. ASSUME pending = 1, inflight[1].wp = launchWp
        PROVE  nonceBase' \notin NoncesOf(inflight[1].start, inflight[1].count)
    <3>1. inflight[1] \in Inflight /\ Follows(inflight[1], nonceBase)
      BY <2>2, <1>1, InFlight DEF NonceInv
    <3> QED
      BY <3>1, <1>2, AfterLaunch
  <2>3. NonceInv'
    BY <2>2, <1>1, <1>3 DEF NonceInv
  <2> QED
    BY <2>1, <2>3
<1>4. CASE pending < 2 /\ inflight' = Append(inflight, [wp |-> launchWp, limit |-> limit,
                                               start |-> nonceBase, count |-> active])
           /\ stage' = [stage EXCEPT ![slotIn] = "queued"] /\ slotIn' = 1 - slotIn
           /\ pending' = pending + 1 /\ at' = "collect" /\ UNCHANGED failed
  <2> DEFINE l == [wp |-> launchWp, limit |-> limit, start |-> nonceBase, count |-> active]
  <2>1. l \in Inflight /\ l.wp = launchWp /\ l.start = nonceBase /\ Follows(l, nonceBase')
    BY <1>1, <1>2 DEF TypeOK, Inflight, Follows
  <2>2. /\ Len(inflight') = Len(inflight) + 1
        /\ \A i \in 1 .. Len(inflight) : inflight'[i] = inflight[i]
        /\ inflight'[Len(inflight) + 1] = l
        /\ inflight' \in Seq(Inflight)
    BY <1>4, <2>1, Appended DEF TypeOK
  <2> HIDE DEF l
  <2>3. l.start \in Nonces /\ l.count \in 1 .. MaxThreads
    BY <2>1 DEF Inflight
  <2>4. WorkInv'
    <3>1. \A i \in DOMAIN inflight' : i \in DOMAIN inflight \/ inflight'[i].wp = currentWp
      BY <2>1, <2>2, <1>1, InFlight
    <3>2. \A i \in DOMAIN inflight : inflight'[i] = inflight[i]
      BY <2>2, InFlight
    <3>3. UNCHANGED <<template, last, currentWp>> /\ at' = "collect"
      BY <1>4, Launch DEF Launch, farmVars
    <3> QED
      BY <3>1, <3>2, <3>3, <1>1 DEF WorkInv
  <2>5. CASE pending = 0
    <3>1. Len(inflight) = 0 /\ pending' = 1
      BY <2>5, <1>4, InFlight
    <3>2. inflight'[1] = l
      BY <3>1, <2>2
    <3> QED
      BY <3>1, <3>2, <2>1, <2>4, <1>1, AfterLaunch DEF NonceInv
  <2>6. CASE pending = 1
    <3>1. pending' = 2 /\ inflight'[1] = inflight[1] /\ inflight'[2] = l
      <4>1. Len(inflight) = 1 /\ pending' = 2
        BY <2>6, <1>4, InFlight
      <4> QED
        BY <4>1, <2>2
    <3>2. inflight[1].wp = launchWp => Follows(inflight[1], l.start)
      BY <2>1, <2>6, <1>1 DEF NonceInv
    <3> QED
      BY <3>1, <3>2, <2>1, <2>4, <1>1 DEF NonceInv, Follows
  <2> QED
    BY <2>5, <2>6, <1>1, InFlight
<1> QED
  BY <1>3, <1>4, Launch DEF Launch

\* The oldest launch goes, the newer one stays next to the nonce of the next.
LEMMA NonceCollect ==
  ASSUME IInv, WorkInv, NonceInv, Collect
  PROVE  WorkInv' /\ NonceInv'
<1> USE DEF IInv
<1>1. Len(inflight) > 0 /\ pending \in {1, 2} /\ pending' = pending - 1
      /\ Len(inflight) = pending /\ inflight \in Seq(Inflight)
  BY InFlight, QueueCollect DEF Collect, TypeOK
<1>2. inflight' = Tail(inflight)
      /\ Len(inflight') = Len(inflight) - 1
      /\ \A i \in 1 .. Len(inflight) - 1 : inflight'[i] = inflight[i + 1]
      /\ inflight' \in Seq(Inflight)
  BY <1>1, Taken, Collect DEF Collect
<1>3. UNCHANGED <<template, at, last, currentWp, launchWp, nonceBase, failed>>
  BY DEF Collect, farmVars
<1>4. \A i \in DOMAIN inflight' : i + 1 \in DOMAIN inflight /\ inflight'[i] = inflight[i + 1]
  BY <1>1, <1>2
<1>5. WorkInv'
  BY <1>3, <1>4 DEF WorkInv
<1>6. ASSUME pending = 2 PROVE NonceInv'
  <2>1. inflight'[1] = inflight[2] /\ inflight[2] \in Inflight /\ pending' = 1
    BY <1>1, <1>2, <1>6, InFlight
  <2>2. inflight[2].wp = launchWp => Follows(inflight[2], nonceBase)
    BY <1>6 DEF NonceInv
  <2>3. inflight[2].wp = launchWp => nonceBase \notin NoncesOf(inflight[2].start, inflight[2].count)
    BY <2>1, <2>2, AfterLaunch
  <2> QED
    BY <2>1, <2>2, <2>3, <1>3 DEF NonceInv, Follows
<1>7. ASSUME pending = 1 PROVE NonceInv'
  BY <1>1, <1>7 DEF NonceInv
<1> QED
  BY <1>1, <1>5, <1>6, <1>7

\* New nonces are drawn only for work that is not in flight.
LEMMA NonceUpload ==
  ASSUME IInv, WorkInv, NonceInv, UploadHeader
  PROVE  WorkInv' /\ NonceInv'
<1>1. UNCHANGED <<template, last, currentWp, inflight, pending>> /\ at = "upload" /\ at' = "launch"
  BY DEF UploadHeader, farmVars
<1>2. \A i \in 1 .. pending : inflight[i].wp # currentWp
  BY <1>1, InFlight DEF WorkInv
<1>3. CASE launchWp' = currentWp /\ UNCHANGED failed
  <2>1. WorkInv'
    BY <1>1, <1>3 DEF WorkInv
  <2>2. NonceInv'
    BY <1>1, <1>2, <1>3 DEF NonceInv
  <2> QED
    BY <2>1, <2>2
<1>4. CASE failed' /\ UNCHANGED <<launchWp, nonceBase>>
  <2>1. WorkInv'
    BY <1>1, <1>4 DEF WorkInv
  <2>2. NonceInv'
    BY <1>1, <1>4, NonceUnchanged
  <2> QED
    BY <2>1, <2>2
<1> QED
  BY <1>3, <1>4 DEF UploadHeader

LEMMA NoncePrepare ==
  ASSUME IInv, WorkInv, NonceInv, PrepareWork
  PROVE  WorkInv' /\ NonceInv'
<1>1. UNCHANGED <<template, failed, inflight, pending, nonceBase>> /\ last' = template
      /\ currentWp' = IF template # last THEN template ELSE currentWp
  BY DEF PrepareWork, farmVars, deviceVars
<1>2. last' = currentWp'
  BY <1>1 DEF WorkInv
<1>3. \/ /\ at' = "launch" /\ launchWp' = launchWp /\ (currentWp' = currentWp \/ failed)
      \/ /\ at' = "launch" /\ launchWp' = NoJob
      \/ /\ at' = "upload" /\ launchWp' = launchWp /\ ~failed /\ currentWp' # currentWp
  BY DEF PrepareWork, LaunchWpFor
<1>4. launchWp' = launchWp \/ launchWp' = NoJob
  BY <1>3
<1>5. at = "wait"
  BY DEF PrepareWork
<1>6. WorkInv'
  BY <1>1, <1>2, <1>3, <1>5 DEF WorkInv
<1>7. CASE launchWp' = launchWp
  BY <1>1, <1>6, <1>7, NonceUnchanged
<1>8. CASE launchWp' = NoJob
  <2>1. \A i \in 1 .. pending : inflight[i].wp # NoJob
    BY InFlight, ConstantsAssumption
  <2> QED
    BY <1>1, <1>6, <1>8, <2>1 DEF NonceInv
<1> QED
  BY <1>4, <1>7, <1>8

LEMMA NonceStep ==
  ASSUME IInv, WorkInv, NonceInv, [Next]_vars
  PROVE  WorkInv' /\ NonceInv'
<1>1. CASE Launch
  BY <1>1, NonceLaunch
<1>2. CASE Collect
  BY <1>2, NonceCollect
<1>3. CASE UploadHeader
  BY <1>3, NonceUpload
<1>4. CASE PrepareWork
  BY <1>4, NoncePrepare
<1>5. ASSUME UNCHANGED <<inflight, pending, nonceBase, launchWp, last, currentWp>>,
             failed => failed', template' = template \/ NotInFlight(template'),
             (at' = at /\ failed' = failed) \/ (at' # "upload" /\ at # "upload")
      PROVE  WorkInv' /\ NonceInv'
  <2>1. template' # last' => \A i \in DOMAIN inflight' : inflight'[i].wp # template'
    BY <1>5 DEF WorkInv, NotInFlight
  <2> QED
    BY <2>1, <1>5, NonceUnchanged DEF WorkInv
<1>6. ASSUME NEW j \in Jobs, SetWork(j) PROVE WorkInv' /\ NonceInv'
  BY <1>5, <1>6 DEF SetWork, minerVars, deviceVars
<1>7. CASE Pause \/ WorkStalled
  BY <1>5, <1>7 DEF Pause, WorkStalled, minerVars, deviceVars
<1>8. CASE Open \/ NothingToLaunch \/ CollectFails \/ StepDone
  BY <1>5, <1>8 DEF Open, NothingToLaunch, CollectFails, StepDone, farmVars, deviceVars
<1>9. ASSUME NEW s \in Slots, KernelRuns(s) \/ CopyBack(s) PROVE WorkInv' /\ NonceInv'
  BY <1>5, <1>9 DEF KernelRuns, CopyBack, farmVars, minerVars
<1>10. CASE UNCHANGED vars
  BY <1>5, <1>10 DEF vars, farmVars, minerVars, deviceVars
<1> QED
  BY <1>1, <1>2, <1>3, <1>4, <1>6, <1>7, <1>8, <1>9, <1>10
  DEF Next, FarmStep, MinerStep, DeviceStep

\* Two launches in flight for the same work never try the same nonces, and the next launch will
\* not either, however the number of threads changes, and after a launch that failed.
THEOREM NoncesAreNew == Spec => []NoncesOnce
<1>1. Init => IInv /\ WorkInv /\ NonceInv
  BY TypeInit, QueueInit, NonceInit DEF IInv
<1>2. IInv /\ WorkInv /\ NonceInv /\ [Next]_vars => (IInv /\ WorkInv /\ NonceInv)'
  BY IInvStep, NonceStep
<1>3. ASSUME IInv, NonceInv PROVE NoncesOnce
  <2>1. ASSUME pending = 2, inflight[1].wp = launchWp
        PROVE  /\ NoncesOf(inflight[1].start, inflight[1].count)
                    \cap NoncesOf(inflight[2].start, inflight[2].count) = {}
               /\ nonceBase \notin NoncesOf(inflight[1].start, inflight[1].count)
    <3>1. inflight[1].start \in Nonces /\ inflight[1].count \in 1 .. MaxThreads
          /\ inflight[2].count \in 0 .. MaxThreads
      BY <2>1, <1>3, InFlight, ConstantsAssumption DEF Inflight
    <3>2. inflight[2].start = (inflight[1].start + inflight[1].count) % NonceSpace
          /\ nonceBase = (inflight[2].start + inflight[2].count) % NonceSpace
      BY <2>1, <1>3 DEF NonceInv, Follows
    <3> QED
      BY <3>1, <3>2, InARow
  <2>2. ASSUME pending = 2, inflight[2].wp = launchWp
        PROVE  nonceBase \notin NoncesOf(inflight[2].start, inflight[2].count)
    BY <2>2, <1>3, InFlight, AfterLaunch DEF NonceInv
  <2>3. ASSUME pending = 1, inflight[1].wp = launchWp
        PROVE  nonceBase \notin NoncesOf(inflight[1].start, inflight[1].count)
    BY <2>3, <1>3 DEF NonceInv
  <2>4. ASSUME NEW i \in DOMAIN inflight, inflight[i].wp = launchWp
        PROVE  nonceBase \notin NoncesOf(inflight[i].start, inflight[i].count)
    BY <2>1, <2>2, <2>3, <2>4, <1>3, InFlight
  <2>5. ASSUME NEW i \in DOMAIN inflight, NEW k \in DOMAIN inflight, i # k,
               inflight[i].wp = inflight[k].wp, launchWp = inflight[i].wp
        PROVE  NoncesOf(inflight[i].start, inflight[i].count)
                 \cap NoncesOf(inflight[k].start, inflight[k].count) = {}
    <3>1. pending = 2 /\ ((i = 1 /\ k = 2) \/ (i = 2 /\ k = 1))
      BY <2>5, <1>3, InFlight
    <3> QED
      BY <3>1, <2>1, <2>5
  <2> QED
    BY <2>4, <2>5 DEF NoncesOnce
<1> QED
  BY <1>1, <1>2, <1>3, PTL DEF Spec

-----------------------------------------------------------------------------
(* The refinement.                                                         *)

\* The jobs of a queue of launches.
JobsOf(q) == [i \in 1 .. Len(q) |-> q[i].wp]

LEMMA JobsOfType ==
  ASSUME NEW q \in Seq(Inflight)
  PROVE  /\ JobsOf(q) \in Seq(Jobs)
         /\ Len(JobsOf(q)) = Len(q)
         /\ \A i \in 1 .. Len(q) : JobsOf(q)[i] = q[i].wp
<1>1. \A i \in 1 .. Len(q) : q[i].wp \in Jobs
  <2> TAKE i \in 1 .. Len(q)
  <2>1. q[i] \in Inflight
    BY ElementOfSeq
  <2> QED
    BY <2>1 DEF Inflight
<1>2. Len(q) \in Nat
  OBVIOUS
<1> QED
  BY <1>1, <1>2 DEF JobsOf

LEMMA JobsOfAppend ==
  ASSUME NEW q \in Seq(Inflight), NEW e \in Inflight
  PROVE  JobsOf(Append(q, e)) = Append(JobsOf(q), e.wp)
<1> DEFINE r == Append(q, e)
           jobs == JobsOf(q)
<1>1. r \in Seq(Inflight) /\ Len(r) = Len(q) + 1 /\ r[Len(q) + 1] = e
      /\ \A i \in 1 .. Len(q) : r[i] = q[i]
  BY Appended
<1>2. e.wp \in Jobs /\ Len(q) \in Nat
  BY DEF Inflight
<1>3. jobs \in Seq(Jobs) /\ Len(jobs) = Len(q)
      /\ \A i \in 1 .. Len(q) : jobs[i] = q[i].wp
  BY JobsOfType
<1> HIDE DEF r, jobs
<1>4. JobsOf(r) \in Seq(Jobs) /\ Len(JobsOf(r)) = Len(q) + 1
      /\ \A i \in 1 .. Len(q) + 1 : JobsOf(r)[i] = r[i].wp
  BY <1>1, JobsOfType
<1>5. \A i \in 1 .. Len(q) + 1 : JobsOf(r)[i] = Append(jobs, e.wp)[i]
  BY <1>1, <1>2, <1>3, <1>4
<1>6. JobsOf(r) = Append(jobs, e.wp)
  BY <1>2, <1>3, <1>4, <1>5, SeqEqual
<1> QED
  BY <1>6 DEF r, jobs

LEMMA JobsOfTail ==
  ASSUME NEW q \in Seq(Inflight), Len(q) > 0
  PROVE  /\ JobsOf(Tail(q)) = Tail(JobsOf(q))
         /\ JobsOf(q) # <<>>
         /\ Head(JobsOf(q)) = q[1].wp
<1> DEFINE r == Tail(q)
           jobs == JobsOf(q)
<1>1. r \in Seq(Inflight) /\ Len(r) = Len(q) - 1
      /\ \A i \in 1 .. Len(q) - 1 : r[i] = q[i + 1]
  BY Taken
<1>2. jobs \in Seq(Jobs) /\ Len(jobs) = Len(q)
      /\ \A i \in 1 .. Len(q) : jobs[i] = q[i].wp
  BY JobsOfType
<1> HIDE DEF r, jobs
<1>3. jobs # <<>> /\ Head(jobs) = q[1].wp /\ Len(q) \in Nat
  BY <1>2
<1>4. Tail(jobs) \in Seq(Jobs) /\ Len(Tail(jobs)) = Len(q) - 1
      /\ \A i \in 1 .. Len(q) - 1 : Tail(jobs)[i] = jobs[i + 1]
  BY <1>2, <1>3
<1>5. JobsOf(r) \in Seq(Jobs) /\ Len(JobsOf(r)) = Len(q) - 1
      /\ \A i \in 1 .. Len(q) - 1 : JobsOf(r)[i] = r[i].wp
  BY <1>1, JobsOfType
<1>6. \A i \in 1 .. Len(q) - 1 : JobsOf(r)[i] = Tail(jobs)[i]
  BY <1>1, <1>2, <1>3, <1>4, <1>5
<1>7. JobsOf(r) = Tail(jobs)
  BY <1>4, <1>5, <1>6, SeqEqual
<1> QED
  BY <1>3, <1>7 DEF r, jobs

\* Every step of the miner and its device is a launch, a result, or nothing, of the queue.
LEMMA QueueStep ==
  ASSUME IInv, [Next]_vars
  PROVE  [Queue!Next]_<<JobsOf(inflight), report>>
<1> USE DEF IInv
<1>1. CASE Launch
  <2>1. CASE UNCHANGED inflight
    BY <1>1, <2>1 DEF Launch, JobsOf
  <2>2. CASE pending < 2 /\ inflight' = Append(inflight, [wp |-> launchWp, limit |-> limit,
                                                 start |-> nonceBase, count |-> active])
    <3> DEFINE l == [wp |-> launchWp, limit |-> limit, start |-> nonceBase, count |-> active]
    <3>1. launchWp \in Jobs
      BY <1>1 DEF Launch, TypeOK, Work
    <3>2. l \in Inflight
      BY <3>1 DEF TypeOK, Inflight
    <3>3. JobsOf(inflight)' = Append(JobsOf(inflight), launchWp)
      BY <2>2, <3>2, JobsOfAppend DEF TypeOK, JobsOf
    <3>4. Len(JobsOf(inflight)) < MaxPending
      <4>1. Len(JobsOf(inflight)) = pending
        BY JobsOfType DEF TypeOK, QueueInv
      <4> QED
        BY <1>1, <4>1 DEF Launch, TypeOK, QueueInv, MaxPending
    <3> QED
      BY <1>1, <3>1, <3>3, <3>4 DEF Queue!Next, Queue!Launch, JobsOf, Launch
  <2> QED
    BY <1>1, <2>1, <2>2 DEF Launch
<1>2. CASE Collect
  <2>1. Len(inflight) > 0
        /\ report' \in {report, [label |-> inflight[1].wp, hashed |-> inflight[1].wp,
                                 limit |-> inflight[1].wp]}
    BY <1>2, QueueCollect
  <2>2. inflight' = Tail(inflight)
    BY <1>2 DEF Collect
  <2>3. JobsOf(inflight)' = Tail(JobsOf(inflight)) /\ JobsOf(inflight) # <<>>
        /\ Head(JobsOf(inflight)) = inflight[1].wp
    BY <2>1, <2>2, JobsOfTail DEF TypeOK, JobsOf
  <2> QED
    BY <2>1, <2>3 DEF Queue!Next, Queue!Wait, Queue!Genuine, JobsOf
<1>3. CASE UNCHANGED <<inflight, report>>
  BY <1>3 DEF JobsOf
<1>4. CASE FarmStep \/ WorkStalled
  BY <1>4, <1>3 DEF FarmStep, SetWork, Pause, WorkStalled, minerVars
<1>5. CASE Open \/ PrepareWork \/ UploadHeader \/ NothingToLaunch \/ CollectFails \/ StepDone
  BY <1>5, <1>3 DEF Open, PrepareWork, UploadHeader, NothingToLaunch, CollectFails, StepDone
<1>6. CASE DeviceStep
  BY <1>6, <1>3 DEF DeviceStep, KernelRuns, CopyBack, minerVars
<1>7. CASE UNCHANGED vars
  BY <1>7, <1>3 DEF vars, minerVars
<1> QED
  BY <1>1, <1>2, <1>4, <1>5, <1>6, <1>7 DEF Next, MinerStep

\* The miner thread and its device, with their slots, their events and the header they share,
\* keep what the queue of launches promises.
THEOREM Implements == Spec => ImplementsQueue
<1>1. Init => Queue!Init
  BY DEF Init, Queue!Init, NoReport
<1>2. IInv /\ [Next]_vars => [Queue!Next]_<<JobsOf(inflight), report>>
  BY QueueStep
<1>3. JobsOf(inflight) = [i \in 1 .. Len(inflight) |-> inflight[i].wp]
  BY DEF JobsOf
<1> QED
  BY <1>1, <1>2, <1>3, Invariant, PTL DEF Spec, ImplementsQueue, Queue!Spec, JobsOf
=============================================================================
