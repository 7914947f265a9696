-------------------------- MODULE CpuMiner_proofs ---------------------------
(***************************************************************************)
(* What is proved of CpuMiner for any number of kernels, slots, jobs and   *)
(* pauses: the types, that a package a kernel works with is not written    *)
(* over within a ring, that a solution is not labelled with an older job,  *)
(* and that the kernels have the work of the miner.                        *)
(***************************************************************************)
EXTENDS CpuMiner, TLAPS

-----------------------------------------------------------------------------
(* Slots of a ring.                                                        *)

LEMMA DivBounds ==
  ASSUME NEW S \in Nat, S > 0, NEW n \in Nat
  PROVE  n \div S \in Int /\ S * (n \div S) <= n /\ n < S * (n \div S) + S
BY Z3

LEMMA ModUnique ==
  ASSUME NEW S \in Nat, S > 0, NEW n \in Nat, NEW q \in Int, NEW r \in 0 .. S - 1, n = S * q + r
  PROVE  n % S = r
BY Z3

LEMMA NoMultipleBetween ==
  ASSUME NEW S \in Int, NEW a \in Int, NEW b \in Int, NEW m \in Int, NEW n \in Int, NEW r \in Int,
         m = S * a + r, n = S * b + r, m < n, n < m + S, S > 0
  PROVE  FALSE
BY SMT

LEMMA DivMod ==
  ASSUME NEW S \in Nat, S > 0, NEW n \in Nat
  PROVE  \E q \in Int : n = S * q + (n % S) /\ n % S \in 0 .. S - 1
<1> DEFINE q == n \div S
           r == n - S * q
<1>1. q \in Int /\ S * q <= n /\ n < S * q + S /\ S * q \in Int
  BY DivBounds
<1> HIDE DEF q
<1>2. r \in 0 .. S - 1 /\ n = S * q + r
  BY <1>1
<1>3. n % S = r
  BY <1>1, <1>2, ModUnique
<1> HIDE DEF r
<1> QED
  BY <1>1, <1>2, <1>3

\* Two packages that are less than a ring apart are in different slots.
LEMMA SlotsDiffer ==
  ASSUME NEW m \in Nat, NEW n \in Nat, m < n, n - m < Slots
  PROVE  SlotOf(m) # SlotOf(n)
<1>0. Slots \in Nat /\ Slots > 0
  BY ConstantsAssumption
<1>1. PICK a \in Int : m = Slots * a + (m % Slots) /\ m % Slots \in 0 .. Slots - 1
  BY <1>0, DivMod
<1>2. PICK b \in Int : n = Slots * b + (n % Slots)
  BY <1>0, DivMod
<1>3. ASSUME NEW r \in Int, m % Slots = r, n % Slots = r PROVE FALSE
  <2>1. m = Slots * a + r /\ n = Slots * b + r /\ n < m + Slots
    BY <1>0, <1>1, <1>2, <1>3
  <2> QED
    BY <1>0, <2>1, NoMultipleBetween
<1> QED
  BY <1>0, <1>1, <1>3 DEF SlotOf

LEMMA SlotType ==
  ASSUME NEW n \in Nat
  PROVE  SlotOf(n) \in 0 .. Slots - 1
BY ConstantsAssumption, DivMod DEF SlotOf

-----------------------------------------------------------------------------
(* The inductive invariant.                                                *)

\* One thread sends at a time; only a kernel that is still to be reached has a package that is
\* written and not published.
SendInv ==
  /\ at = "send" <=> mutex = "miner"
  /\ farm = "send" <=> mutex = "farm"
  /\ mutex = NoThread => sender = {}
  /\ \A k \in Kernels :
       written[k] = packageID[k] \/ (k \in sender /\ written[k] = packageID[k] + 1)

\* The packages of the last ring are in their slots, and a kernel fetched a published one.
RingInv ==
  /\ \A k \in Kernels : \A n \in 0 .. written[k] :
       written[k] - n < Slots => packages[k][SlotOf(n)].id = n
  /\ \A k \in Kernels : kernel[k].id <= packageID[k]

\* Jobs get to the kernels by way of the miner thread.
LabelInv ==
  /\ currentWp <= template
  /\ sent <= currentWp
  /\ \A k \in Kernels : kernel[k].job <= currentWp
  /\ \A k \in Kernels : \A s \in 0 .. Slots - 1 : packages[k][s].job <= currentWp

\* Unless new work waits to be sent, what is sent and what was published is the work in hand.
WorkInv ==
  /\ mutex # NoThread /\ at # "lock" => sent = currentWp
  /\ \A k \in Kernels :
       written[k] # packageID[k] => packages[k][SlotOf(written[k])].job = sent
  /\ at # "lock" =>
       \A k \in Kernels \ sender : packages[k][SlotOf(packageID[k])].job = currentWp

IInv == TypeOK /\ SendInv /\ RingInv /\ LabelInv /\ LabelNotOlder /\ WorkInv

LEMMA InitIInv == Init => IInv
<1> SUFFICES ASSUME Init PROVE IInv
  OBVIOUS
<1>1. TypeOK
  <2>1. EmptyPackage \in Package /\ NoJob \in Work
    BY DEF Work, NoJob, Package, EmptyPackage
  <2>2. packages \in [Kernels -> [0 .. Slots - 1 -> Package]]
    BY <2>1 DEF Init
  <2>3. kernel \in [Kernels -> [at : {"fetch", "read", "search"}, id : Nat,
                               oldID : Nat \cup {-1}, paused : BOOLEAN, job : Work, package : Nat]]
    BY <2>1 DEF Init
  <2>4. packageID \in [Kernels -> Nat] /\ written \in [Kernels -> Nat] /\ pauses \in 0 .. MaxPauses
    BY ConstantsAssumption DEF Init
  <2>5. share \in [label : Work, nonce2 : Nat, job : Work, package : Nat]
    BY <2>1 DEF Init, NoShare
  <2> QED
    BY <2>1, <2>2, <2>3, <2>4, <2>5 DEF Init, TypeOK, NoThread
<1>2. SendInv
  BY DEF Init, SendInv, NoThread
<1>0. 0 \in Nat /\ SlotOf(0) \in 0 .. Slots - 1
  BY SlotType
<1>3. RingInv
  <2>1. ASSUME NEW k \in Kernels, NEW n \in 0 .. written[k]
        PROVE  packages[k][SlotOf(n)].id = n
    <3>1. n = 0
      BY DEF Init
    <3> QED
      BY <1>0, <3>1 DEF Init, EmptyPackage
  <2>2. \A k \in Kernels : kernel[k].id = 0 /\ packageID[k] = 0
    BY DEF Init
  <2> QED
    BY <2>1, <2>2 DEF RingInv
<1>4. LabelInv /\ LabelNotOlder
  BY DEF Init, LabelInv, LabelNotOlder, NoJob, NoShare, EmptyPackage
<1>5. WorkInv
  BY SlotType DEF Init, WorkInv, NoThread, NoJob, EmptyPackage
<1> QED
  BY <1>1, <1>2, <1>3, <1>4, <1>5 DEF IInv

-----------------------------------------------------------------------------
(* Sending.                                                                *)

\* A thread takes the mutex.
LEMMA BeginsStep ==
  ASSUME IInv, NEW t \in {"farm", "miner"}, SendBegins(t),
         UNCHANGED <<template, ready, pauses, last, currentWp, isPaused, kernel, share>>,
         \/ t = "miner" /\ at = "lock" /\ at' = "send" /\ farm' = farm
         \/ t = "farm" /\ farm = "lock" /\ farm' = "send" /\ at' = at
  PROVE  IInv'
<1> USE DEF IInv
<1>1. TypeOK'
  BY DEF TypeOK, SendBegins, WorkToSend
<1>2. SendInv'
  <2>1. (at' = "send" <=> mutex' = "miner") /\ (farm' = "send" <=> mutex' = "farm")
    BY DEF SendInv, SendBegins, NoThread
  <2>2. mutex' # NoThread
    BY DEF SendBegins, NoThread
  <2>3. \A k \in Kernels :
          written'[k] = packageID'[k] \/ (k \in sender' /\ written'[k] = packageID'[k] + 1)
    BY DEF SendInv, SendBegins
  <2> QED
    BY <2>1, <2>2, <2>3 DEF SendInv
<1>3. RingInv'
  BY DEF RingInv, SendBegins
<1>4. LabelInv' /\ LabelNotOlder'
  <2>1. currentWp <= currentWp
    BY ConstantsAssumption DEF TypeOK, Work, Jobs, NoJob
  <2>2. sent' = currentWp
    BY DEF SendBegins, WorkToSend
  <2> QED
    BY <2>1, <2>2 DEF LabelInv, LabelNotOlder, SendBegins
<1>5. WorkInv'
  BY DEF WorkInv, SendInv, SendBegins, WorkToSend, NoThread
<1> QED
  BY <1>1, <1>2, <1>3, <1>4, <1>5

\* The slot of the next package of kernel k is free for it.
LEMMA WriteStep ==
  ASSUME IInv, NEW k \in Kernels, NEW pause \in BOOLEAN, WritePackage(k, pause),
         mutex # NoThread, UNCHANGED <<farmVars, minerVars, kernel, share>>
  PROVE  IInv'
<1> USE DEF IInv
<1> DEFINE n == packageID[k] + 1
           p == [id |-> n, job |-> sent, pause |-> pause]
<1>1. n \in Nat /\ p \in Package /\ SlotOf(n) \in 0 .. Slots - 1
  <2>1. n \in Nat
    BY DEF TypeOK
  <2>2. sent \in Work
    BY DEF TypeOK
  <2> QED
    BY <2>1, <2>2, SlotType DEF Package
<1>2. /\ k \in sender /\ written[k] = packageID[k]
      /\ written' = [written EXCEPT ![k] = n]
      /\ packages' = [packages EXCEPT ![k] = [@ EXCEPT ![SlotOf(n)] = p]]
      /\ UNCHANGED <<mutex, sender, sent, packageID>>
  BY DEF WritePackage, NextPackage
<1>3. /\ \A j \in Kernels \ {k} : packages'[j] = packages[j] /\ written'[j] = written[j]
      /\ written'[k] = n
      /\ packages'[k][SlotOf(n)] = p
      /\ \A s \in 0 .. Slots - 1 : s # SlotOf(n) => packages'[k][s] = packages[k][s]
  BY <1>1, <1>2 DEF TypeOK
<1>4. p.id = n /\ p.job = sent
  OBVIOUS
<1> HIDE DEF p
<1>5. TypeOK'
  <2>1. written' \in [Kernels -> Nat]
    BY <1>1, <1>2 DEF TypeOK
  <2>2. packages' \in [Kernels -> [0 .. Slots - 1 -> Package]]
    BY <1>1, <1>2 DEF TypeOK
  <2> QED
    BY <1>2, <2>1, <2>2 DEF TypeOK, farmVars, minerVars
<1>6. SendInv'
  BY <1>2, <1>3 DEF SendInv, farmVars, minerVars, TypeOK
<1>7. RingInv'
  <2>1. ASSUME NEW j \in Kernels, NEW i \in 0 .. written'[j], written'[j] - i < Slots
        PROVE  packages'[j][SlotOf(i)].id = i
    <3>1. CASE j # k
      BY <2>1, <3>1, <1>3 DEF RingInv
    <3>2. CASE j = k /\ i = n
      BY <3>2, <1>3, <1>4
    <3>3. CASE j = k /\ i # n
      <4>1. i \in 0 .. written[k] /\ written[k] - i < Slots /\ i < n /\ n - i < Slots /\ i \in Nat
        BY <2>1, <3>3, <1>1, <1>2, <1>3, ConstantsAssumption DEF TypeOK
      <4>2. SlotOf(i) # SlotOf(n) /\ SlotOf(i) \in 0 .. Slots - 1
        BY <4>1, <1>1, SlotsDiffer, SlotType
      <4> QED
        BY <3>3, <4>1, <4>2, <1>3 DEF RingInv
    <3> QED
      BY <3>1, <3>2, <3>3
  <2> QED
    BY <2>1, <1>2 DEF RingInv
<1>8. LabelInv' /\ LabelNotOlder'
  <2>1. \A j \in Kernels : \A s \in 0 .. Slots - 1 : packages'[j][s].job <= currentWp
    BY <1>1, <1>3, <1>4 DEF LabelInv
  <2> QED
    BY <2>1, <1>2 DEF LabelInv, LabelNotOlder, farmVars, minerVars
<1>9. WorkInv'
  <2>1. \A j \in Kernels :
          written'[j] # packageID[j] => packages'[j][SlotOf(written'[j])].job = sent
    BY <1>1, <1>2, <1>3, <1>4 DEF WorkInv
  <2> QED
    BY <2>1, <1>2, <1>3 DEF WorkInv, farmVars, minerVars
<1> QED
  BY <1>5, <1>6, <1>7, <1>8, <1>9

LEMMA PublishStep ==
  ASSUME IInv, NEW k \in Kernels, PublishPackage(k), mutex # NoThread,
         UNCHANGED <<farmVars, minerVars, kernel, share>>
  PROVE  IInv'
<1> USE DEF IInv
<1>1. /\ written[k] = packageID[k] + 1
      /\ packageID' = [packageID EXCEPT ![k] = written[k]]
      /\ sender' = sender \ {k}
      /\ UNCHANGED <<mutex, sent, written, packages>>
  BY DEF PublishPackage, NextPackage, SendInv
<1>2. packageID'[k] = written[k] /\ \A j \in Kernels \ {k} : packageID'[j] = packageID[j]
  BY <1>1 DEF TypeOK
<1>3. TypeOK'
  BY <1>1 DEF TypeOK, farmVars, minerVars
<1>4. SendInv'
  BY <1>1, <1>2 DEF SendInv, farmVars, minerVars
<1>5. RingInv'
  <2>1. \A j \in Kernels : kernel[j].id <= packageID'[j]
    BY <1>1, <1>2 DEF RingInv, TypeOK
  <2> QED
    BY <1>1, <2>1 DEF RingInv
<1>6. LabelInv' /\ LabelNotOlder'
  BY <1>1 DEF LabelInv, LabelNotOlder, farmVars, minerVars
<1>7. WorkInv'
  <2>1. at # "lock" => packages[k][SlotOf(written[k])].job = currentWp
    BY <1>1 DEF WorkInv, TypeOK
  <2> QED
    BY <1>1, <1>2, <2>1 DEF WorkInv, farmVars, minerVars
<1> QED
  BY <1>3, <1>4, <1>5, <1>6, <1>7

\* The mutex is given back when every kernel was reached.
LEMMA EndsStep ==
  ASSUME IInv, SendEnds, NEW b \in BOOLEAN, isPaused' = b,
         UNCHANGED <<template, ready, pauses, last, currentWp, kernel, share>>,
         \/ at = "send" /\ at' = "wait" /\ farm' = farm
         \/ farm = "send" /\ farm' = "idle" /\ at' = at
  PROVE  IInv'
<1> USE DEF IInv
<1>1. TypeOK'
  BY DEF TypeOK, SendEnds, NoThread
<1>2. SendInv'
  BY DEF SendInv, SendEnds, NoThread
<1>3. RingInv'
  BY DEF RingInv, SendEnds
<1>4. LabelInv' /\ LabelNotOlder'
  BY DEF LabelInv, LabelNotOlder, SendEnds
<1>5. WorkInv'
  BY DEF WorkInv, SendInv, SendEnds, NoThread
<1> QED
  BY <1>1, <1>2, <1>3, <1>4, <1>5

-----------------------------------------------------------------------------
(* The other steps.                                                        *)

\* A step of a kernel changes its variables, and only takes a request to pause out of a slot.
LEMMA KernelsStep ==
  ASSUME IInv, NEW k \in Kernels, KernelStep(k)
  PROVE  IInv'
<1> USE DEF IInv
<1>1. UNCHANGED <<farmVars, minerVars, mutex, sender, sent, packageID, written>>
  BY DEF KernelStep, Fetch, ReadPause, SleepPaused, ReadPackage, Search, sendVars
<1>2. kernel[k].id \in Nat /\ SlotOf(kernel[k].id) \in 0 .. Slots - 1 /\ Slot(k) \in Package
  BY SlotType DEF TypeOK, Slot
<1>3. /\ packages' \in [Kernels -> [0 .. Slots - 1 -> Package]]
      /\ \A j \in Kernels : \A s \in 0 .. Slots - 1 :
           packages'[j][s].id = packages[j][s].id /\ packages'[j][s].job = packages[j][s].job
  <2>1. CASE ReadPause(k)
    <3> DEFINE i == SlotOf(kernel[k].id)
               p == [packages[k][i] EXCEPT !.pause = FALSE]
    <3>1. packages' = [packages EXCEPT ![k] = [packages[k] EXCEPT ![i] = p]]
      BY <2>1 DEF ReadPause
    <3>2. p \in Package /\ p.id = packages[k][i].id /\ p.job = packages[k][i].job
      BY <1>2 DEF Package, Slot
    <3>3. i \in 0 .. Slots - 1
      BY <1>2
    <3> HIDE DEF i, p
    <3> QED
      BY <3>1, <3>2, <3>3 DEF TypeOK
  <2>2. CASE ~ReadPause(k)
    <3>1. packages' = packages
      BY <2>2 DEF KernelStep, Fetch, SleepPaused, ReadPackage, Search, sendVars
    <3> QED
      BY <3>1 DEF TypeOK
  <2> QED
    BY <2>1, <2>2
<1>4. /\ kernel' \in [Kernels -> [at : {"fetch", "read", "search"}, id : Nat,
                        oldID : Nat \cup {-1}, paused : BOOLEAN, job : Work, package : Nat]]
      /\ \A j \in Kernels \ {k} : kernel'[j] = kernel[j]
      /\ kernel'[k].id \in {kernel[k].id, packageID[k]}
      /\ kernel'[k].job \in {kernel[k].job, Slot(k).job}
  <2> DEFINE KernelType == [at : {"fetch", "read", "search"}, id : Nat,
                            oldID : Nat \cup {-1}, paused : BOOLEAN, job : Work, package : Nat]
  <2>1. kernel \in [Kernels -> KernelType] /\ packageID[k] \in Nat
    BY DEF TypeOK
  <2>2. Slot(k).id \in Nat /\ Slot(k).job \in Work
    BY <1>2 DEF Package
  <2>3. PICK r \in KernelType : /\ kernel' = [kernel EXCEPT ![k] = r]
                                /\ r.id \in {kernel[k].id, packageID[k]}
                                /\ r.job \in {kernel[k].job, Slot(k).job}
    <3>1. CASE Fetch(k)
      <4> DEFINE r == [kernel[k] EXCEPT !.at = "read", !.id = packageID[k]]
      <4>1. kernel' = [kernel EXCEPT ![k] = r]
        BY <3>1 DEF Fetch
      <4>2. r \in KernelType /\ r.id \in {kernel[k].id, packageID[k]} /\ r.job \in {kernel[k].job, Slot(k).job}
        BY <2>1, <2>2
      <4> HIDE DEF r
      <4> QED
        BY <4>1, <4>2
    <3>2. CASE ReadPause(k)
      <4> DEFINE r == [kernel[k] EXCEPT !.at = "fetch", !.paused = TRUE, !.oldID = kernel[k].id]
      <4>1. kernel' = [kernel EXCEPT ![k] = r]
        BY <3>2 DEF ReadPause
      <4>2. r \in KernelType /\ r.id \in {kernel[k].id, packageID[k]} /\ r.job \in {kernel[k].job, Slot(k).job}
        BY <2>1, <2>2
      <4> HIDE DEF r
      <4> QED
        BY <4>1, <4>2
    <3>3. CASE SleepPaused(k)
      <4> DEFINE r == [kernel[k] EXCEPT !.at = "fetch"]
      <4>1. kernel' = [kernel EXCEPT ![k] = r]
        BY <3>3 DEF SleepPaused
      <4>2. r \in KernelType /\ r.id \in {kernel[k].id, packageID[k]} /\ r.job \in {kernel[k].job, Slot(k).job}
        BY <2>1, <2>2
      <4> HIDE DEF r
      <4> QED
        BY <4>1, <4>2
    <3>4. CASE ReadPackage(k)
      <4> DEFINE r1 == [kernel[k] EXCEPT !.at = "fetch", !.paused = FALSE]
                 r2 == [kernel[k] EXCEPT !.at = "search", !.paused = FALSE, !.job = Slot(k).job,
                                         !.package = Slot(k).id]
                 r3 == [kernel[k] EXCEPT !.at = "search"]
      <4>1. kernel' = [kernel EXCEPT ![k] = r1] \/ kernel' = [kernel EXCEPT ![k] = r2]
            \/ kernel' = [kernel EXCEPT ![k] = r3]
        BY <3>4 DEF ReadPackage
      <4>2. \A r \in {r1, r2, r3} : /\ r \in KernelType /\ r.id \in {kernel[k].id, packageID[k]}
                                    /\ r.job \in {kernel[k].job, Slot(k).job}
        BY <2>1, <2>2
      <4> HIDE DEF r1, r2, r3
      <4> QED
        BY <4>1, <4>2
    <3>5. CASE Search(k)
      <4> DEFINE r1 == [kernel[k] EXCEPT !.at = "fetch", !.oldID = kernel[k].id, !.paused = Solo]
                 r2 == [kernel[k] EXCEPT !.at = "fetch", !.oldID = kernel[k].id]
      <4>1. kernel' = [kernel EXCEPT ![k] = r1] \/ kernel' = [kernel EXCEPT ![k] = r2]
        BY <3>5 DEF Search
      <4>2. \A r \in {r1, r2} : /\ r \in KernelType /\ r.id \in {kernel[k].id, packageID[k]}
                                /\ r.job \in {kernel[k].job, Slot(k).job}
        BY <2>1, <2>2, ConstantsAssumption
      <4> HIDE DEF r1, r2
      <4> QED
        BY <4>1, <4>2
    <3> QED
      BY <3>1, <3>2, <3>3, <3>4, <3>5 DEF KernelStep
  <2> QED
    BY <2>1, <2>3
<1>5. /\ share' \in [label : Work, nonce2 : Nat, job : Work, package : Nat]
      /\ share' = share \/ (share'.label = currentWp /\ share'.job = kernel[k].job)
  <2>1. CASE Search(k) /\ share' # share
    <3>1. share' = [label |-> currentWp, nonce2 |-> Slot(k).id, job |-> kernel[k].job,
                    package |-> kernel[k].package]
      BY <2>1 DEF Search
    <3> QED
      BY <1>2, <3>1 DEF TypeOK, Package
  <2>2. CASE share' = share
    BY <2>2 DEF TypeOK
  <2> QED
    BY <2>1, <2>2 DEF KernelStep, Fetch, ReadPause, SleepPaused, ReadPackage
<1>6. TypeOK'
  BY <1>1, <1>3, <1>4, <1>5 DEF TypeOK, farmVars, minerVars
<1>7. SendInv'
  BY <1>1 DEF SendInv, farmVars, minerVars
<1>8. RingInv'
  <2>1. ASSUME NEW j \in Kernels, NEW n \in 0 .. written[j], written[j] - n < Slots
        PROVE  packages'[j][SlotOf(n)].id = n
    <3>1. packages[j][SlotOf(n)].id = n /\ SlotOf(n) \in 0 .. Slots - 1
      BY <2>1, SlotType DEF RingInv, TypeOK
    <3> QED
      BY <1>3, <3>1
  <2>2. ASSUME NEW j \in Kernels PROVE kernel'[j].id <= packageID[j]
    <3>1. kernel[j].id <= packageID[j] /\ packageID[j] <= packageID[j]
      BY DEF RingInv, TypeOK
    <3> QED
      BY <1>4, <3>1
  <2> QED
    BY <1>1, <2>1, <2>2 DEF RingInv
<1>9. LabelInv' /\ LabelNotOlder'
  <2>1. Slot(k).job <= currentWp
    BY <1>2 DEF LabelInv, Slot
  <2>2. share'.label >= share'.job
    BY <1>5 DEF LabelInv, LabelNotOlder, TypeOK, Work, Jobs, NoJob
  <2> QED
    BY <1>1, <1>3, <1>4, <2>1, <2>2 DEF LabelInv, LabelNotOlder, farmVars, minerVars
<1>10. WorkInv'
  <2>1. \A j \in Kernels : /\ packages'[j][SlotOf(written[j])].job = packages[j][SlotOf(written[j])].job
                           /\ packages'[j][SlotOf(packageID[j])].job = packages[j][SlotOf(packageID[j])].job
    BY <1>3, SlotType DEF TypeOK
  <2> QED
    BY <1>1, <2>1 DEF WorkInv, farmVars, minerVars
<1> QED
  BY <1>6, <1>7, <1>8, <1>9, <1>10

\* The network thread sets work and begins a pause.
LEMMA NetworkStep ==
  ASSUME IInv, (\E j \in Jobs : SetWork(j)) \/ Pause
  PROVE  IInv'
<1> USE DEF IInv
<1>1. UNCHANGED <<minerVars, sendVars, kernel, share>>
  BY DEF SetWork, Pause
<1>2. /\ template' \in Work /\ template <= template'
      /\ ready' \in BOOLEAN
      /\ pauses' \in 0 .. MaxPauses
      /\ farm = "idle" /\ farm' \in {"idle", "lock"}
  <2>1. CASE Pause
    <3>1. pauses \in Nat /\ pauses < MaxPauses /\ pauses' = pauses + 1
      BY <2>1 DEF Pause, TypeOK
    <3>2. template \in Work /\ template' = template /\ template <= template
      BY <2>1, ConstantsAssumption DEF Pause, TypeOK, Work, Jobs, NoJob
    <3>3. pauses' \in 0 .. MaxPauses
      BY <3>1, ConstantsAssumption
    <3> QED
      BY <2>1, <3>2, <3>3 DEF Pause
  <2>2. CASE \E j \in Jobs : SetWork(j)
    BY <2>2, ConstantsAssumption DEF SetWork, TypeOK, Work, Jobs, NoJob
  <2> QED
    BY <2>1, <2>2
<1>3. TypeOK'
  BY <1>1, <1>2 DEF TypeOK, minerVars, sendVars
<1>4. SendInv' /\ RingInv' /\ WorkInv' /\ LabelNotOlder'
  BY <1>1, <1>2 DEF SendInv, RingInv, WorkInv, LabelNotOlder, minerVars, sendVars
<1>5. LabelInv'
  <2>1. currentWp <= template'
    BY <1>2, ConstantsAssumption DEF LabelInv, TypeOK, Work, Jobs, NoJob
  <2> QED
    BY <1>1, <2>1 DEF LabelInv, minerVars, sendVars
<1> QED
  BY <1>3, <1>4, <1>5

LEMMA PrepareWorkStep ==
  ASSUME IInv, PrepareWork
  PROVE  IInv'
<1> USE DEF IInv
<1>1. /\ UNCHANGED <<farmVars, sendVars, isPaused, kernel, share>>
      /\ last' = template
      /\ currentWp' \in {currentWp, template}
      /\ at = "wait" /\ at' \in {"lock", "kernel"}
      /\ at' # "lock" => currentWp' = currentWp
  BY DEF PrepareWork
<1>2. TypeOK'
  BY <1>1 DEF TypeOK, farmVars, sendVars
<1>3. SendInv' /\ RingInv' /\ LabelNotOlder'
  BY <1>1 DEF SendInv, RingInv, LabelNotOlder, farmVars, sendVars
<1>4. LabelInv'
  <2>1. currentWp <= currentWp' /\ currentWp' <= template
    BY <1>1, ConstantsAssumption DEF LabelInv, TypeOK, Work, Jobs, NoJob
  <2>2. ASSUME NEW x \in Work, x <= currentWp PROVE x <= currentWp'
    BY <1>1, <2>1, <2>2, ConstantsAssumption DEF TypeOK, Work, Jobs, NoJob
  <2>3. /\ sent \in Work
        /\ \A k \in Kernels : kernel[k].job \in Work
        /\ \A k \in Kernels : \A s \in 0 .. Slots - 1 : packages[k][s].job \in Work
    BY DEF TypeOK, Package
  <2> QED
    BY <1>1, <2>1, <2>2, <2>3 DEF LabelInv, farmVars, sendVars
<1>5. WorkInv'
  BY <1>1 DEF WorkInv, farmVars, sendVars
<1> QED
  BY <1>2, <1>3, <1>4, <1>5

\* The steps that touch neither the packages nor the work.
LEMMA IdleStep ==
  ASSUME IInv, UNCHANGED <<template, pauses, mutex, sender, sent, packageID, written, packages,
                           currentWp, last, kernel, share>>,
         ready' \in BOOLEAN, isPaused' \in BOOLEAN,
         \/ at' = at /\ farm = "lock" /\ farm' = "idle"
         \/ farm' = farm /\ at = "kernel" /\ at' = "wait"
         \/ farm' = farm /\ at = "wait" /\ at' = "kernel"
         \/ farm' = farm /\ at' = at
  PROVE  IInv'
<1> USE DEF IInv
<1>1. TypeOK'
  BY DEF TypeOK
<1>2. SendInv' /\ RingInv' /\ LabelInv' /\ LabelNotOlder'
  BY DEF SendInv, RingInv, LabelInv, LabelNotOlder
<1>3. WorkInv'
  BY DEF WorkInv
<1> QED
  BY <1>1, <1>2, <1>3

LEMMA NextIInv == IInv /\ [Next]_vars => IInv'
<1> SUFFICES ASSUME IInv, [Next]_vars PROVE IInv'
  OBVIOUS
<1> USE DEF farmVars, minerVars, sendVars
<1>0. ready \in BOOLEAN /\ isPaused \in BOOLEAN /\ (at = "send" => mutex = "miner")
      /\ (farm = "send" => mutex = "farm")
  BY DEF IInv, TypeOK, SendInv
<1>1. CASE (\E j \in Jobs : SetWork(j)) \/ Pause
  BY <1>1, NetworkStep
<1>2. CASE PauseLock
  <2>1. CASE isPaused \/ currentWp = NoJob
    BY <1>0, <1>2, <2>1, IdleStep DEF PauseLock
  <2>2. CASE ~(isPaused \/ currentWp = NoJob)
    BY <1>2, <2>2, BeginsStep DEF PauseLock
  <2> QED
    BY <2>1, <2>2
<1>3. CASE PauseSend
  <2>1. mutex # NoThread /\ UNCHANGED <<farmVars, minerVars, kernel, share>>
    BY <1>0, <1>3 DEF PauseSend, NoThread
  <2>2. PICK k \in Kernels : WritePackage(k, TRUE) \/ PublishPackage(k)
    BY <1>3 DEF PauseSend, SendStep
  <2> QED
    BY <2>1, <2>2, WriteStep, PublishStep
<1>4. CASE PauseDone
  BY <1>4, EndsStep DEF PauseDone
<1>5. CASE PrepareWork
  BY <1>5, PrepareWorkStep
<1>6. CASE SendLock
  BY <1>6, BeginsStep DEF SendLock
<1>7. CASE SendWork
  <2>1. mutex # NoThread /\ UNCHANGED <<farmVars, minerVars, kernel, share>>
    BY <1>0, <1>7 DEF SendWork, NoThread
  <2>2. PICK k \in Kernels : WritePackage(k, FALSE) \/ PublishPackage(k)
    BY <1>7 DEF SendWork, SendStep
  <2> QED
    BY <2>1, <2>2, WriteStep, PublishStep
<1>8. CASE SendDone
  BY <1>8, EndsStep DEF SendDone
<1>9. CASE NothingNew
  BY <1>0, <1>9, IdleStep DEF NothingNew
<1>10. CASE WorkStalled
  BY <1>0, <1>10, IdleStep DEF WorkStalled
<1>11. CASE \E k \in Kernels : KernelStep(k)
  BY <1>11, KernelsStep
<1>12. CASE UNCHANGED vars
  BY <1>0, <1>12, IdleStep DEF vars
<1> QED
  BY <1>1, <1>2, <1>3, <1>4, <1>5, <1>6, <1>7, <1>8, <1>9, <1>10, <1>11, <1>12
     DEF Next, FarmSteps, MinerSteps

THEOREM Invariant == Spec => []IInv
BY InitIInv, NextIInv, PTL DEF Spec

-----------------------------------------------------------------------------
(* The theorems.                                                           *)

\* Every variable of the miner thread, of the kernels and of their rings keeps its type.
THEOREM TypeCorrect == Spec => []TypeOK
<1>1. IInv => TypeOK
  BY DEF IInv
<1> QED
  BY <1>1, Invariant, PTL

\* A kernel works with the package it fetched, unless SendWorkPackageToKernels is a ring ahead.
THEOREM PackagesStable == Spec => []PackageStable
<1>1. IInv => PackageStable
  <2> SUFFICES ASSUME IInv, NEW k \in Kernels, written[k] - kernel[k].id < Slots
               PROVE  Slot(k).id = kernel[k].id
    BY DEF PackageStable
  <2>1. kernel[k].id \in Nat /\ packageID[k] \in Nat /\ written[k] \in Nat
    BY DEF IInv, TypeOK
  <2>2. kernel[k].id <= packageID[k] /\ (written[k] = packageID[k] \/ written[k] = packageID[k] + 1)
    BY DEF IInv, RingInv, SendInv
  <2>3. kernel[k].id \in 0 .. written[k]
    BY <2>1, <2>2
  <2> QED
    BY <2>3 DEF IInv, RingInv, Slot
<1> QED
  BY <1>1, Invariant, PTL

\* A solution is never labelled with a job older than the one the kernel hashed.
THEOREM LabelsNotOlder == Spec => []LabelNotOlder
<1>1. IInv => LabelNotOlder
  BY DEF IInv
<1> QED
  BY <1>1, Invariant, PTL

\* Whenever nobody sends, the package published to every kernel is of the work of the miner.
THEOREM KernelsInStep == Spec => []KernelsHaveTheWork
<1>1. IInv => KernelsHaveTheWork
  BY DEF IInv, SendInv, WorkInv, KernelsHaveTheWork
<1> QED
  BY <1>1, Invariant, PTL
=============================================================================
