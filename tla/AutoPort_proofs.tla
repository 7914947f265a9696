--------------------------- MODULE AutoPort_proofs ---------------------------
(* What is proved of AutoPort: the selection of a tier for every hashrate, *)
(* and what the README promises of the port, in every stay on a pool.       *)
EXTENDS AutoPort, TLAPS

\* The tier table is sorted by hashrate.
LEMMA TierTable ==
  /\ TierHashrate \in [Tiers -> Nat]
  /\ \A i, j \in Tiers : i < j => TierHashrate[i] < TierHashrate[j]
<1>1. \A i \in Tiers : TierHashrate[i] = <<10, 50, 200, 500, 1500, 3000, 5000>>[i + 1]
  BY DEF TierHashrate
<1>2. /\ TierHashrate[0] = 10
      /\ TierHashrate[1] = 50
      /\ TierHashrate[2] = 200
      /\ TierHashrate[3] = 500
      /\ TierHashrate[4] = 1500
      /\ TierHashrate[5] = 3000
      /\ TierHashrate[6] = 5000
  BY <1>1 DEF Tiers
<1>3. \A i \in Tiers : i \in {0, 1, 2, 3, 4, 5, 6}
  BY DEF Tiers
<1>4. \A i \in Tiers : TierHashrate[i] \in Nat
  BY <1>2, <1>3
<1>5. TierHashrate = [i \in Tiers |-> TierHashrate[i]]
  BY DEF TierHashrate
<1>6. TierHashrate \in [Tiers -> Nat]
  BY <1>4, <1>5
<1>7. ASSUME NEW i \in Tiers, NEW j \in Tiers, i < j
      PROVE  TierHashrate[i] < TierHashrate[j]
  BY <1>2, <1>3, <1>7
<1> QED
  BY <1>6, <1>7

\* The last tier a hashrate reaches is well defined.
LEMMA SelectSpec ==
  ASSUME NEW h, NEW cur
  PROVE  /\ SelectPoolPortTier(h, cur) \in Tiers
         /\ SelectPoolPortTier(h, cur) = 0 \/ Reaches(h, SelectPoolPortTier(h, cur), cur)
         /\ \A i \in Tiers : i > SelectPoolPortTier(h, cur) => ~Reaches(h, i, cur)
<1> DEFINE Best(b) == /\ b = 0 \/ Reaches(h, b, cur)
                      /\ \A i \in Tiers : i > b => ~Reaches(h, i, cur)
<1>1. \A i \in Tiers : i \in {0, 1, 2, 3, 4, 5, 6}
  BY DEF Tiers
<1>2. {0, 1, 2, 3, 4, 5, 6} \subseteq Tiers
  BY DEF Tiers
<1>3. \E b \in Tiers : Best(b)
  <2>6. CASE Reaches(h, 6, cur)
    BY <1>1, <1>2, <2>6
  <2>5. CASE Reaches(h, 5, cur) /\ ~Reaches(h, 6, cur)
    BY <1>1, <1>2, <2>5
  <2>4. CASE Reaches(h, 4, cur) /\ \A i \in {5, 6} : ~Reaches(h, i, cur)
    BY <1>1, <1>2, <2>4
  <2>3. CASE Reaches(h, 3, cur) /\ \A i \in {4, 5, 6} : ~Reaches(h, i, cur)
    BY <1>1, <1>2, <2>3
  <2>2. CASE Reaches(h, 2, cur) /\ \A i \in {3, 4, 5, 6} : ~Reaches(h, i, cur)
    BY <1>1, <1>2, <2>2
  <2>1. CASE Reaches(h, 1, cur) /\ \A i \in {2, 3, 4, 5, 6} : ~Reaches(h, i, cur)
    BY <1>1, <1>2, <2>1
  <2>0. CASE \A i \in {1, 2, 3, 4, 5, 6} : ~Reaches(h, i, cur)
    BY <1>1, <1>2, <2>0
  <2> QED
    BY <2>0, <2>1, <2>2, <2>3, <2>4, <2>5, <2>6
<1>4. SelectPoolPortTier(h, cur) = CHOOSE b \in Tiers : Best(b)
  BY DEF SelectPoolPortTier
<1> QED
  BY <1>3, <1>4

\* No other tier is the last one reached.
LEMMA SelectUnique ==
  ASSUME NEW h, NEW cur, NEW t \in Tiers,
         t = 0 \/ Reaches(h, t, cur),
         \A i \in Tiers : i > t => ~Reaches(h, i, cur)
  PROVE  SelectPoolPortTier(h, cur) = t
<1> DEFINE s == SelectPoolPortTier(h, cur)
<1>1. /\ s \in Tiers
      /\ s = 0 \/ Reaches(h, s, cur)
      /\ \A i \in Tiers : i > s => ~Reaches(h, i, cur)
  BY SelectSpec
<1> HIDE DEF s
<1>2. ~(s > t) /\ ~(t > s)
  BY <1>1 DEF Tiers
<1>3. s = t
  BY <1>1, <1>2 DEF Tiers
<1> QED
  BY <1>3 DEF s

-----------------------------------------------------------------------------
(* The selection, for every hashrate.                                      *)

\* Wherever the selection starts from, the hashrate keeps the tier it picks.
THEOREM SelectFits ==
  ASSUME NEW h \in Nat, NEW cur \in Tiers \cup {NoTier}
  PROVE  Fits(h, SelectPoolPortTier(h, cur))
<1> DEFINE s == SelectPoolPortTier(h, cur)
<1>1. /\ s \in Tiers
      /\ s = 0 \/ Reaches(h, s, cur)
      /\ \A i \in Tiers : i > s => ~Reaches(h, i, cur)
  BY SelectSpec
<1> HIDE DEF s
<1>2. \A i \in Tiers : TierHashrate[i] \in Nat
  BY TierTable
<1>3. s > 0 => 100 * h >= 85 * TierHashrate[s]
  BY <1>1, <1>2 DEF Reaches, Tiers, NoTier
<1>4. s < 6 => 100 * h < 95 * TierHashrate[s + 1]
  <2> SUFFICES ASSUME s < 6 PROVE 100 * h < 95 * TierHashrate[s + 1]
    OBVIOUS
  <2>1. s + 1 \in Tiers /\ s + 1 > s
    BY <1>1 DEF Tiers
  <2>2. ~Reaches(h, s + 1, cur) /\ TierHashrate[s + 1] \in Nat
    BY <1>1, <1>2, <2>1
  <2> QED
    BY <2>2 DEF Reaches
<1>5. Fits(h, s)
  BY <1>3, <1>4 DEF Fits
<1> QED
  BY <1>5 DEF s

\* A port is left exactly when the hashrate does not keep it: below 85% of its tier, or at 95%
\* of the next one.
THEOREM KeptPortsFit ==
  ASSUME NEW h \in Nat, NEW t \in Tiers
  PROVE  Fits(h, t) <=> SelectPoolPortTier(h, t) = t
<1>1. ASSUME SelectPoolPortTier(h, t) = t PROVE Fits(h, t)
  BY <1>1, SelectFits
<1>2. ASSUME Fits(h, t) PROVE SelectPoolPortTier(h, t) = t
  <2>1. t = 0 \/ Reaches(h, t, t)
    <3>1. TierHashrate[t] \in Nat
      BY TierTable
    <3> QED
      BY <1>2, <3>1 DEF Fits, Reaches, Tiers
  <2>2. ASSUME NEW i \in Tiers, i > t PROVE ~Reaches(h, i, t)
    <3>1. t + 1 \in Tiers /\ t < 6 /\ (i = t + 1 \/ t + 1 < i)
      BY <2>2 DEF Tiers
    <3>2. TierHashrate[t + 1] <= TierHashrate[i] /\ TierHashrate[i] \in Nat
                                               /\ TierHashrate[t + 1] \in Nat
      BY <3>1, TierTable
    <3>3. 100 * h < 95 * TierHashrate[t + 1]
      BY <1>2, <3>1 DEF Fits
    <3>4. ~(i <= t)
      BY <2>2 DEF Tiers
    <3> QED
      BY <3>2, <3>3, <3>4 DEF Reaches
  <2> QED
    BY <2>1, <2>2, SelectUnique
<1> QED
  BY <1>1, <1>2

-----------------------------------------------------------------------------
(* Type correctness.                                                       *)

\* The tier a check points to is in the table.
LEMMA TargetIsTier == Target \in Tiers
BY SelectSpec DEF Target

LEMMA SmallerMoveIsTier ==
  ASSUME candidate \in Tiers \cup {NoTier}, Confirmed
  PROVE  SmallerMove \in Tiers
BY TargetIsTier DEF SmallerMove, Confirmed

LEMMA MoreSamplesType ==
  ASSUME samples \in 0 .. MinSamples
  PROVE  MoreSamples \in 0 .. MinSamples
BY DEF MoreSamples, MinSamples

LEMMA InitType == Init => TypeOK
<1> SUFFICES ASSUME Init PROVE TypeOK
  OBVIOUS
<1>1. 0 \in Pools /\ 0 \in Tiers /\ 0 \in 0 .. MinSamples
      /\ EvalEvery \in 0 .. EvalEvery /\ MinSwitch \in 0 .. MinSwitch
  BY AutoPortAssumption DEF Pools, Tiers, MinSamples, EvalEvery, MinSwitch
<1>2. portOf \in [Pools -> Tiers]
  BY <1>1 DEF Init
<1> QED
  BY <1>1, <1>2 DEF Init, TypeOK

LEMMA TypeStep == TypeOK /\ [Next]_vars => TypeOK'
<1> SUFFICES ASSUME TypeOK, [Next]_vars PROVE TypeOK'
  OBVIOUS
<1> USE DEF TypeOK
<1>0. MoreSamples \in 0 .. MinSamples /\ 0 \in 0 .. MinSamples
  BY MoreSamplesType DEF MinSamples
<1>1. 0 \in Pools /\ 0 \in 0 .. Warmup /\ 0 \in 0 .. EvalEvery /\ EvalEvery \in 0 .. EvalEvery
      /\ 0 \in 0 .. MinSwitch /\ MinSwitch \in 0 .. MinSwitch
  BY AutoPortAssumption DEF Pools, Warmup, EvalEvery, MinSwitch
<1>2. ASSUME NewPool PROVE TypeOK'
  BY <1>0, <1>1, <1>2 DEF NewPool, historyVars
<1>3. ASSUME MeasureFixed PROVE TypeOK'
  BY <1>0, <1>3 DEF MeasureFixed, historyVars
<1>4. ASSUME Measure PROVE TypeOK'
  BY <1>0, <1>1, <1>4 DEF Measure, historyVars
<1>5. ASSUME NEW c \in Tiers \cup {NoTier}, CheckOnly(c), decided' \in BOOLEAN PROVE TypeOK'
  BY <1>0, <1>1, <1>5, TargetIsTier DEF CheckOnly
<1>6. ASSUME NEW t \in Tiers, Switch(t) PROVE TypeOK'
  BY <1>0, <1>1, <1>6 DEF Switch
<1>7. ASSUME CheckAgrees PROVE TypeOK'
  BY <1>5, <1>7 DEF CheckAgrees
<1>8. ASSUME CheckWaits PROVE TypeOK'
  BY <1>5, <1>8, TargetIsTier DEF CheckWaits
<1>9. ASSUME FirstSwitch PROVE TypeOK'
  BY <1>6, <1>9, TargetIsTier DEF FirstSwitch
<1>10. ASSUME ConfirmedSwitch PROVE TypeOK'
  BY <1>6, <1>10, SmallerMoveIsTier DEF ConfirmedSwitch
<1>11. ASSUME PortApplied PROVE TypeOK'
  BY <1>11 DEF PortApplied, selectionVars, historyVars
<1>12. ASSUME PoolChanges PROVE TypeOK'
  BY <1>1, <1>12 DEF PoolChanges, selectionVars, historyVars
<1>13. ASSUME RateChanges PROVE TypeOK'
  BY <1>13 DEF RateChanges, selectionVars, historyVars
<1>14. ASSUME Minute PROVE TypeOK'
  <2>1. startAge' \in 0 .. Warmup \cup {NoTime} /\ evalAge' \in 0 .. EvalEvery
        /\ switchAge' \in 0 .. MinSwitch \cup {NoTime}
    BY <1>14 DEF Minute, Older, NoTime, Warmup, EvalEvery, MinSwitch
  <2>2. sinceSwitch' \in 0 .. MinSwitch
    BY <1>14 DEF Minute, Older, NoTime, MinSwitch
  <2> QED
    BY <1>14, <2>1, <2>2 DEF Minute
<1>15. ASSUME UNCHANGED vars PROVE TypeOK'
  BY <1>15 DEF vars, selectionVars, historyVars
<1> QED
  BY <1>2, <1>3, <1>4, <1>7, <1>8, <1>9, <1>10, <1>11, <1>12, <1>13, <1>14, <1>15
     DEF Next, ClientRound

\* Every variable has its type: no check ever points outside the tier table.
THEOREM TypeCorrect == Spec => []TypeOK
BY InitType, TypeStep, PTL DEF Spec

-----------------------------------------------------------------------------
(* One stay on a pool, for any number of pools.                            *)

\* The last check of the stay was made by the selection that is going on, and left its
\* candidate.
CheckInv ==
  /\ (activePool # statePool \/ ~decided) => lastCheck = NoTier
  /\ (candidate # NoTier /\ lastCheck # NoTier) => candidate = lastCheck

\* A switch in the stay is one m_autoPortLastSwitchMS remembers.
SwitchInv ==
  /\ ~decided => switchAge = NoTime
  /\ activePool # statePool => sinceSwitch = MinSwitch
  /\ sinceSwitch = MinSwitch \/ sinceSwitch = switchAge

StayInv == TypeOK /\ CheckInv /\ SwitchInv

LEMMA StayInit == Init => StayInv
BY InitType DEF Init, StayInv, CheckInv, SwitchInv

LEMMA StayStep == StayInv /\ [Next]_vars => StayInv'
<1> SUFFICES ASSUME StayInv, [Next]_vars PROVE (CheckInv /\ SwitchInv)'
  BY TypeStep DEF StayInv
<1> USE DEF StayInv, CheckInv, SwitchInv
<1>1. TypeOK
  OBVIOUS
<1>2. ASSUME NewPool PROVE (CheckInv /\ SwitchInv)'
  <2>1. UNCHANGED <<activePool, lastCheck, sinceSwitch>> /\ activePool # statePool
    BY <1>2 DEF NewPool, historyVars
  <2>2. candidate' = NoTier /\ switchAge' = NoTime /\ statePool' = activePool
    BY <1>2 DEF NewPool
  <2> QED
    BY <2>1, <2>2
<1>3. ASSUME MeasureFixed \/ Measure \/ PortApplied \/ RateChanges \/ UNCHANGED vars
      PROVE  (CheckInv /\ SwitchInv)'
  BY <1>3 DEF MeasureFixed, Measure, PortApplied, RateChanges, vars, selectionVars, historyVars
<1>4. ASSUME NEW c, CheckOnly(c), decided', c \in {NoTier, Target}, activePool = statePool
      PROVE  (CheckInv /\ SwitchInv)'
  <2>1. UNCHANGED <<activePool, statePool, switchAge, sinceSwitch>>
    BY <1>4 DEF CheckOnly
  <2>2. lastCheck' = Target /\ candidate' = c
    BY <1>4 DEF CheckOnly
  <2> QED
    BY <1>4, <2>1, <2>2
<1>5. ASSUME NEW t, Switch(t), activePool = statePool PROVE (CheckInv /\ SwitchInv)'
  <2>1. UNCHANGED <<activePool, statePool>> /\ decided' /\ candidate' = NoTier
        /\ switchAge' = 0 /\ sinceSwitch' = 0
    BY <1>5 DEF Switch
  <2> QED
    BY <1>5, <2>1
<1>6. ASSUME CheckAgrees \/ CheckWaits PROVE (CheckInv /\ SwitchInv)'
  BY <1>4, <1>6 DEF CheckAgrees, CheckWaits, Due
<1>7. ASSUME FirstSwitch \/ ConfirmedSwitch PROVE (CheckInv /\ SwitchInv)'
  BY <1>5, <1>7 DEF FirstSwitch, ConfirmedSwitch, Due
<1>8. ASSUME PoolChanges PROVE (CheckInv /\ SwitchInv)'
  BY <1>8 DEF PoolChanges, selectionVars
<1>9. ASSUME Minute PROVE (CheckInv /\ SwitchInv)'
  <2>1. UNCHANGED <<activePool, statePool, decided, candidate, lastCheck>>
    BY <1>9 DEF Minute
  <2>2. switchAge' = Older(switchAge, MinSwitch) /\ sinceSwitch' = Older(sinceSwitch, MinSwitch)
    BY <1>9 DEF Minute
  <2>3. sinceSwitch = MinSwitch => sinceSwitch' = MinSwitch
    BY <2>2 DEF Older
  <2>4. sinceSwitch = switchAge => sinceSwitch' = switchAge'
    BY <2>2
  <2>5. switchAge = NoTime => switchAge' = NoTime
    BY <2>2 DEF Older
  <2> QED
    BY <2>1, <2>3, <2>4, <2>5
<1> QED
  BY <1>2, <1>3, <1>6, <1>7, <1>8, <1>9 DEF Next, ClientRound

LEMMA StayInvariant == Spec => []StayInv
BY StayInit, StayStep, PTL DEF Spec

\* The first decision goes to the tier the hashrate enters, and has no check before it.
LEMMA FirstSwitchEnters ==
  ASSUME StayInv, FirstSwitch
  PROVE  /\ pendingPort' = Target /\ Target \in Tiers
         /\ Target = 0 \/ Reaches(rate, Target, NoTier)
         /\ lastCheck = NoTier
BY SelectSpec DEF FirstSwitch, Switch, Target, StayInv, CheckInv

\* A confirmed switch goes no further than the two checks, which point the same way.
LEMMA ConfirmedSwitchIsBetween ==
  ASSUME StayInv, ConfirmedSwitch
  PROVE  /\ pendingPort' \in Tiers /\ CurrentTier \in Tiers
         /\ \/ /\ CurrentTier < pendingPort'
               /\ pendingPort' <= Target
               /\ pendingPort' <= candidate
            \/ /\ pendingPort' < CurrentTier
               /\ Target <= pendingPort'
               /\ candidate <= pendingPort'
<1>1. Target \in Tiers /\ candidate \in Tiers /\ CurrentTier \in Tiers
  BY TargetIsTier DEF StayInv, TypeOK, CurrentTier, ConfirmedSwitch, Confirmed
<1>2. pendingPort' = SmallerMove /\ Target # CurrentTier /\ candidate # CurrentTier
      /\ (candidate > CurrentTier <=> Target > CurrentTier)
  BY DEF ConfirmedSwitch, Switch, Confirmed
<1>3. CASE Target > CurrentTier
  <2>1. SmallerMove = IF candidate < Target THEN candidate ELSE Target
    BY <1>3 DEF SmallerMove
  <2> QED
    BY <1>1, <1>2, <1>3, <2>1 DEF Tiers
<1>4. CASE ~(Target > CurrentTier)
  <2>1. SmallerMove = IF candidate < Target THEN Target ELSE candidate
    BY <1>4 DEF SmallerMove
  <2> QED
    BY <1>1, <1>2, <1>4, <2>1 DEF Tiers
<1> QED
  BY <1>3, <1>4

\* A move up is to a tier the hashrate enters.
LEMMA MoveUpIsEarned ==
  ASSUME StayInv, PortSwitch, pendingPort' > CurrentTier
  PROVE  100 * rate >= 95 * TierHashrate[pendingPort']
<1>0. rate \in Nat /\ CurrentTier \in Tiers /\ \A i \in Tiers : TierHashrate[i] \in Nat
  BY TierTable, AutoPortAssumption DEF StayInv, TypeOK, CurrentTier
<1>1. CASE FirstSwitch
  <2>1. pendingPort' \in Tiers /\ pendingPort' > 0 /\ Reaches(rate, pendingPort', NoTier)
    BY <1>0, <1>1, FirstSwitchEnters DEF Tiers
  <2>2. ~(pendingPort' <= NoTier) /\ TierHashrate[pendingPort'] \in Nat
    BY <1>0, <2>1 DEF Tiers, NoTier
  <2> QED
    BY <1>0, <2>1, <2>2 DEF Reaches
<1>2. CASE ConfirmedSwitch
  <2>1. pendingPort' \in Tiers /\ pendingPort' <= Target
    BY <1>0, <1>2, ConfirmedSwitchIsBetween DEF Tiers
  <2>2. Target \in Tiers /\ (Target = 0 \/ Reaches(rate, Target, CurrentTier))
    BY <1>2, SelectSpec DEF Target, ConfirmedSwitch
  <2>3. pendingPort' = Target \/ pendingPort' < Target
    BY <2>1, <2>2 DEF Tiers
  <2>4. TierHashrate[pendingPort'] <= TierHashrate[Target]
        /\ TierHashrate[Target] \in Nat /\ TierHashrate[pendingPort'] \in Nat
    BY <1>0, <2>1, <2>2, <2>3, TierTable
  <2>5. Reaches(rate, Target, CurrentTier) /\ ~(Target <= CurrentTier)
    BY <1>0, <2>1, <2>2 DEF Tiers
  <2>6. 100 * rate >= 95 * TierHashrate[Target]
    BY <1>0, <2>4, <2>5 DEF Reaches
  <2> QED
    BY <1>0, <2>4, <2>6
<1> QED
  BY <1>1, <1>2 DEF PortSwitch

\* A confirmed move down is from a tier the hashrate left.
LEMMA ConfirmedMoveDownIsEarned ==
  ASSUME StayInv, ConfirmedSwitch, pendingPort' < CurrentTier
  PROVE  100 * rate < 85 * TierHashrate[CurrentTier]
<1>1. rate \in Nat /\ \A i \in Tiers : TierHashrate[i] \in Nat
  BY TierTable, AutoPortAssumption DEF StayInv, TypeOK
<1>2. CurrentTier \in Tiers /\ Target < CurrentTier
  BY ConfirmedSwitchIsBetween, TargetIsTier DEF Tiers
<1>3. \A i \in Tiers : i > Target => ~Reaches(rate, i, CurrentTier)
  BY SelectSpec DEF Target, ConfirmedSwitch
<1>4. ~Reaches(rate, CurrentTier, CurrentTier) /\ CurrentTier <= CurrentTier
  BY <1>2, <1>3, TargetIsTier DEF Tiers
<1> QED
  BY <1>1, <1>2, <1>4 DEF Reaches

\* Whatever the hashrate does and however the pools change, a port is entered from 95% of its
\* tier on and, after the first check of a stay, left downward only below 85% of it.
THEOREM PortsSwitchAtThresholds == Spec => SwitchesAtThresholds
<1>1. StayInv => (PortSwitch =>
        /\ pendingPort' > CurrentTier => 100 * rate >= 95 * TierHashrate[pendingPort']
        /\ (pendingPort' < CurrentTier /\ lastCheck # NoTier) =>
             100 * rate < 85 * TierHashrate[CurrentTier])
  BY MoveUpIsEarned, ConfirmedMoveDownIsEarned, FirstSwitchEnters DEF PortSwitch
<1> QED
  BY <1>1, StayInvariant, PTL DEF SwitchesAtThresholds

\* After the first check of a stay a change is confirmed by two checks in a row.
THEOREM PortSwitchesAreConfirmed == Spec => SwitchesAreConfirmed
<1>1. StayInv => ((PortSwitch /\ lastCheck # NoTier) =>
        \A check \in {lastCheck, Target} :
          /\ pendingPort' > CurrentTier => check >= pendingPort'
          /\ pendingPort' < CurrentTier => check <= pendingPort')
  <2> SUFFICES ASSUME StayInv, PortSwitch, lastCheck # NoTier, NEW check \in {lastCheck, Target}
               PROVE  /\ pendingPort' > CurrentTier => check >= pendingPort'
                      /\ pendingPort' < CurrentTier => check <= pendingPort'
    OBVIOUS
  <2>1. ConfirmedSwitch
    BY FirstSwitchEnters DEF PortSwitch
  <2>2. candidate \in Tiers /\ candidate = lastCheck
    BY <2>1 DEF StayInv, TypeOK, CheckInv, ConfirmedSwitch, Confirmed
  <2>3. check \in {candidate, Target} /\ Target \in Tiers
    BY <2>2, TargetIsTier
  <2> QED
    BY <2>1, <2>2, <2>3, ConfirmedSwitchIsBetween DEF Tiers
<1> QED
  BY <1>1, StayInvariant, PTL DEF SwitchesAreConfirmed

\* There are ten minutes between two switches of the port in one stay.
THEOREM PortSwitchesSeldom == Spec => OneSwitchPerTenMinutes
<1>1. StayInv => (PortSwitch => sinceSwitch >= MinSwitch)
  <2> SUFFICES ASSUME StayInv, PortSwitch PROVE sinceSwitch >= MinSwitch
    OBVIOUS
  <2>1. switchAge = NoTime \/ ~(switchAge < MinSwitch)
    BY DEF PortSwitch, FirstSwitch, ConfirmedSwitch, CoolingDown, StayInv, SwitchInv
  <2>2. switchAge \in 0 .. MinSwitch \cup {NoTime} /\ sinceSwitch \in 0 .. MinSwitch
    BY DEF StayInv, TypeOK
  <2> QED
    BY <2>1, <2>2 DEF StayInv, SwitchInv, MinSwitch, NoTime
<1> QED
  BY <1>1, StayInvariant, PTL DEF OneSwitchPerTenMinutes

-----------------------------------------------------------------------------
(* A single pool: there is one stay, and it began on the lowest port.      *)

\* Before the first check nothing was switched.
StartInv ==
  /\ activePool = 0 /\ statePool = 0
  /\ ~decided => portOf[0] = 0 /\ pendingPort = NoTier

LEMMA StartInit ==
  ASSUME NPools = 1
  PROVE  Init => StartInv
BY DEF Init, StartInv, Pools

LEMMA StartStep ==
  ASSUME NPools = 1
  PROVE  StartInv /\ [Next]_vars => StartInv'
<1> SUFFICES ASSUME StartInv, [Next]_vars PROVE StartInv'
  OBVIOUS
<1> USE DEF StartInv
<1>1. ~NewPool /\ ~PoolChanges
  BY DEF NewPool, PoolChanges, Pools
<1>2. ASSUME MeasureFixed \/ Measure \/ RateChanges \/ Minute \/ UNCHANGED vars PROVE StartInv'
  BY <1>2 DEF MeasureFixed, Measure, RateChanges, Minute, vars, selectionVars
<1>3. ASSUME CheckAgrees \/ CheckWaits PROVE StartInv'
  BY <1>3 DEF CheckAgrees, CheckWaits, CheckOnly
<1>4. ASSUME FirstSwitch \/ ConfirmedSwitch PROVE StartInv'
  BY <1>4 DEF FirstSwitch, ConfirmedSwitch, Switch
<1>5. ASSUME PortApplied PROVE StartInv'
  BY <1>5 DEF PortApplied, selectionVars
<1> QED
  BY <1>1, <1>2, <1>3, <1>4, <1>5 DEF Next, ClientRound

\* With a single pool no port is left downward at 85% of its tier or more: what breaks the
\* promise is only the return to a pool that kept its port.
THEOREM OnePoolLeavesOnlyBelow85 ==
  ASSUME NPools = 1
  PROVE  Spec => LeavesOnlyBelow85
<1>1. Spec => []StartInv
  BY StartInit, StartStep, PTL DEF Spec
<1>2. StayInv /\ StartInv => ((PortSwitch /\ pendingPort' < CurrentTier) =>
        100 * rate < 85 * TierHashrate[CurrentTier])
  <2> SUFFICES ASSUME StayInv, StartInv, PortSwitch, pendingPort' < CurrentTier
               PROVE  ConfirmedSwitch
    BY ConfirmedMoveDownIsEarned
  <2>1. ASSUME FirstSwitch PROVE FALSE
    <3>1. CurrentTier = 0
      BY <2>1 DEF FirstSwitch, StartInv, CurrentTier
    <3>2. pendingPort' \in Tiers
      BY <2>1, FirstSwitchEnters
    <3> QED
      BY <3>1, <3>2 DEF Tiers
  <2> QED
    BY <2>1 DEF PortSwitch
<1> QED
  BY <1>1, <1>2, StayInvariant, PTL DEF LeavesOnlyBelow85
=============================================================================
