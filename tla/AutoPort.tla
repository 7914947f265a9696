------------------------------ MODULE AutoPort ------------------------------
(***************************************************************************)
(* The automatic pool port selection: the tier table (MinersLib/AutoPort.h)*)
(* and HandleAutoPort with the part of doStratum that calls it             *)
(* (MinersLib/GenericMinerClient.cpp), all run by the miner client thread. *)
(*                                                                         *)
(* A port is its index in the tier table, a hashrate is in kH/s, a time is *)
(* the minutes since it, up to the longest delay it is compared with. What *)
(* the stratum client does with the request is left to three actions of    *)
(* the environment: the port is applied, and the active pool changes or a  *)
(* reconnect keeps it (module StratumClient has the details).              *)
(***************************************************************************)
EXTENDS Integers

CONSTANTS
  NPools,        \* m_pools.size()
  AutoPools,     \* the pools configured with the port "auto"
  HashRates      \* the mean hashrates that may be measured

Pools == 0 .. NPools - 1
Tiers == 0 .. 6
NoTier == -1
NoTime == -1

ASSUME AutoPortAssumption ==
  /\ NPools \in Nat \ {0}
  /\ AutoPools \subseteq Pools
  /\ HashRates \subseteq Nat /\ HashRates # {}

\* g_poolPortTiers: the nominal hashrate of each tier.
TierHashrate == [i \in Tiers |-> <<10, 50, 200, 500, 1500, 3000, 5000>>[i + 1]]

\* AUTOPORT_WARMUP_MS, AUTOPORT_EVAL_MS and AUTOPORT_MIN_SWITCH_MS in minutes, and the
\* number of samples the mean needs.
Warmup == 1
EvalEvery == 5
MinSwitch == 10
MinSamples == 6

VARIABLES
  activePool,  \* StratumClient::m_activeIdx
  portOf,      \* m_pools[p].port
  pendingPort, \* m_pendingPort, for the active pool
  rate,        \* the mean of m_speedSMA
  samples,     \* m_speedSMA.size(), up to MinSamples
  statePool,   \* m_autoPortPoolIdx
  startAge,    \* m_autoPortStartMS
  evalAge,     \* m_autoPortLastEvalMS, read when a decision was taken
  switchAge,   \* m_autoPortLastSwitchMS
  candidate,   \* m_autoPortCandidate
  decided      \* m_autoPortDecided

\* History of the present stay on the active pool, read by properties only.
VARIABLES
  sinceSwitch, \* minutes since a port switch
  lastCheck    \* the tier the last check pointed to, or switched to

selectionVars == <<statePool, startAge, evalAge, switchAge, candidate, decided, samples>>
historyVars == <<sinceSwitch, lastCheck>>
vars == <<activePool, portOf, pendingPort, rate, selectionVars, historyVars>>

\* Every variable has its type; the tier of a port is always an index of the table.
TypeOK ==
  /\ activePool \in Pools
  /\ portOf \in [Pools -> Tiers]
  /\ pendingPort \in Tiers \cup {NoTier}
  /\ rate \in HashRates
  /\ samples \in 0 .. MinSamples
  /\ statePool \in Pools
  /\ startAge \in 0 .. Warmup \cup {NoTime}
  /\ evalAge \in 0 .. EvalEvery
  /\ switchAge \in 0 .. MinSwitch \cup {NoTime}
  /\ candidate \in Tiers \cup {NoTier}
  /\ decided \in BOOLEAN
  /\ sinceSwitch \in 0 .. MinSwitch
  /\ lastCheck \in Tiers \cup {NoTier}

Init ==
  /\ activePool = 0
  /\ portOf = [p \in Pools |-> 0]
  /\ pendingPort = NoTier
  /\ rate \in HashRates
  /\ samples = 0
  /\ statePool = 0
  /\ startAge = NoTime
  /\ evalAge = EvalEvery
  /\ switchAge = NoTime
  /\ candidate = NoTier
  /\ decided = FALSE
  /\ sinceSwitch = MinSwitch
  /\ lastCheck = NoTier

-----------------------------------------------------------------------------
(* The tier table. cur = NoTier: no current tier.                          *)

\* MUTANT: the current tier is left below its enter threshold.
Reaches_NoHysteresis(h, i, cur) == 100 * h >= TierHashrate[i] * (IF i < cur THEN 85 ELSE 95)

\* PoolPortTierThreshold: a tier up to the current one is left below 85% of its hashrate, one
\* above it is entered from 95% on.
Reaches(h, i, cur) == 100 * h >= TierHashrate[i] * (IF i <= cur THEN 85 ELSE 95)

\* The last tier the hashrate reaches; the lowest one needs nothing.
SelectPoolPortTier(h, cur) ==
  CHOOSE best \in Tiers :
    /\ best = 0 \/ Reaches(h, best, cur)
    /\ \A i \in Tiers : i > best => ~Reaches(h, i, cur)

-----------------------------------------------------------------------------
(* One round of the client thread's loop.                                  *)

CurrentTier == portOf[activePool]

\* No hysteresis for the first decision.
Target == SelectPoolPortTier(rate, IF decided THEN CurrentTier ELSE NoTier)

\* Another pool became active: its selection starts from scratch.
NewPool ==
  /\ activePool # statePool
  /\ statePool' = activePool
  /\ startAge' = NoTime
  /\ evalAge' = EvalEvery
  /\ switchAge' = NoTime
  /\ candidate' = NoTier
  /\ decided' = FALSE
  /\ samples' = 0
  /\ UNCHANGED <<activePool, portOf, pendingPort, rate, historyVars>>

\* MUTANT: the oldest sample is never erased.
MoreSamples_NeverErased == samples + 1

MoreSamples == IF samples < MinSamples THEN samples + 1 ELSE samples

\* The pool has a fixed port: only the hashrate is measured.
MeasureFixed ==
  /\ activePool = statePool
  /\ activePool \notin AutoPools
  /\ samples' = MoreSamples
  /\ UNCHANGED <<activePool, portOf, pendingPort, rate, statePool, startAge, evalAge,
                 switchAge, candidate, decided, historyVars>>

\* HandleAutoPort has measured long enough, and the last check is long enough ago.
Due ==
  /\ activePool = statePool
  /\ activePool \in AutoPools
  /\ startAge >= Warmup
  /\ MoreSamples >= MinSamples
  /\ decided => evalAge >= EvalEvery

Measure ==
  /\ activePool = statePool
  /\ activePool \in AutoPools
  /\ ~Due
  /\ startAge' = IF startAge = NoTime THEN 0 ELSE startAge
  /\ samples' = MoreSamples
  /\ UNCHANGED <<activePool, portOf, pendingPort, rate, statePool, evalAge, switchAge,
                 candidate, decided, historyVars>>

\* A check that ends without a switch, and leaves the candidate c.
CheckOnly(c) ==
  /\ candidate' = c
  /\ evalAge' = 0
  /\ samples' = MoreSamples
  /\ lastCheck' = Target
  /\ UNCHANGED <<activePool, portOf, pendingPort, rate, statePool, startAge, switchAge,
                 sinceSwitch>>

\* MUTANT: the selection starts again on the new port.
Switch_StartsAgain(t) ==
  /\ pendingPort' = t
  /\ evalAge' = 0
  /\ switchAge' = 0
  /\ decided' = FALSE
  /\ candidate' = NoTier
  /\ samples' = 0
  /\ sinceSwitch' = 0
  /\ lastCheck' = t
  /\ UNCHANGED <<activePool, portOf, rate, statePool, startAge>>

\* A check that ends in RequestPortSwitch(t).
Switch(t) ==
  /\ pendingPort' = t
  /\ evalAge' = 0
  /\ switchAge' = 0
  /\ decided' = TRUE
  /\ candidate' = NoTier
  /\ samples' = 0
  /\ sinceSwitch' = 0
  /\ lastCheck' = t
  /\ UNCHANGED <<activePool, portOf, rate, statePool, startAge>>

\* The port is the best match.
CheckAgrees ==
  /\ Due
  /\ Target = CurrentTier
  /\ CheckOnly(NoTier)
  /\ decided' = TRUE

\* The last check pointed in the same direction, up or down.
Confirmed ==
  /\ candidate # NoTier
  /\ candidate # CurrentTier
  /\ candidate > CurrentTier <=> Target > CurrentTier

CoolingDown == switchAge # NoTime /\ switchAge < MinSwitch

\* MUTANT: the direction of the change is forgotten.
CheckWaits_Forgets ==
  /\ Due
  /\ decided
  /\ Target # CurrentTier
  /\ ~Confirmed \/ CoolingDown
  /\ CheckOnly(NoTier)
  /\ UNCHANGED decided

\* A change that is not confirmed yet, or too early.
CheckWaits ==
  /\ Due
  /\ decided
  /\ Target # CurrentTier
  /\ ~Confirmed \/ CoolingDown
  /\ CheckOnly(Target)
  /\ UNCHANGED decided

FirstSwitch ==
  /\ Due
  /\ ~decided
  /\ Target # CurrentTier
  /\ Switch(Target)

\* MUTANT: the move of the present check is applied, whatever the last one was.
SmallerMove_Last == Target

\* The smaller of the two moves.
SmallerMove == IF (candidate < Target) = (Target > CurrentTier) THEN candidate ELSE Target

ConfirmedSwitch ==
  /\ Due
  /\ decided
  /\ Target # CurrentTier
  /\ Confirmed /\ ~CoolingDown
  /\ Switch(SmallerMove)

ClientRound ==
  NewPool \/ MeasureFixed \/ Measure \/ CheckAgrees \/ CheckWaits \/ FirstSwitch \/ ConfirmedSwitch

-----------------------------------------------------------------------------
(* The environment.                                                        *)

\* The network thread reconnects on the new port.
PortApplied ==
  /\ pendingPort # NoTier
  /\ portOf' = [portOf EXCEPT ![activePool] = pendingPort]
  /\ pendingPort' = NoTier
  /\ UNCHANGED <<activePool, rate, selectionVars, historyVars>>

\* The pool is given up, or the main pool is back: a pending port is dropped.
PoolChanges ==
  /\ \E p \in Pools \ {activePool} : activePool' = p
  /\ pendingPort' = NoTier
  /\ sinceSwitch' = MinSwitch
  /\ lastCheck' = NoTier
  /\ UNCHANGED <<portOf, rate, selectionVars>>

RateChanges ==
  /\ \E h \in HashRates \ {rate} : rate' = h
  /\ UNCHANGED <<activePool, portOf, pendingPort, selectionVars, historyVars>>

Older(age, limit) == IF age = NoTime \/ age = limit THEN age ELSE age + 1

Minute ==
  /\ startAge' = Older(startAge, Warmup)
  /\ evalAge' = Older(evalAge, EvalEvery)
  /\ switchAge' = Older(switchAge, MinSwitch)
  /\ sinceSwitch' = Older(sinceSwitch, MinSwitch)
  /\ UNCHANGED <<activePool, portOf, pendingPort, rate, statePool, candidate, decided, samples,
                 lastCheck>>

Next == ClientRound \/ PortApplied \/ PoolChanges \/ RateChanges \/ Minute

Spec == Init /\ [][Next]_vars

\* The client thread loops while it is connected and has work, the network thread applies what
\* it was asked for, and time passes. Nothing makes the hashrate or the pool change.
FairSpec ==
  /\ Spec
  /\ WF_vars(ClientRound)
  /\ WF_vars(PortApplied)
  /\ WF_vars(Minute)

-----------------------------------------------------------------------------
(* Properties.                                                             *)

PortSwitch == FirstSwitch \/ ConfirmedSwitch

\* "a port is entered when your hashrate reaches 95% of the port's hashrate" (README.md:63); and
\* once the pool had a first check in the present stay, it is left downward only when "the
\* hashrate falls below 85% of it" (:64).
SwitchesAtThresholds ==
  [][PortSwitch =>
       /\ pendingPort' > CurrentTier => 100 * rate >= 95 * TierHashrate[pendingPort']
       /\ (pendingPort' < CurrentTier /\ lastCheck # NoTier) =>
            100 * rate < 85 * TierHashrate[CurrentTier]]_vars

\* The miner "leaves a port downward only when the hashrate falls below 85% of it"
\* (README.md:64): also at the first check after the return to a pool, where the comment of the
\* code has "the miner only sits on the start port to measure" (GenericMinerClient.cpp:142).
LeavesOnlyBelow85 ==
  [][(PortSwitch /\ pendingPort' < CurrentTier) => 100 * rate < 85 * TierHashrate[CurrentTier]]_vars

\* Once the pool had its first check in the present stay, "a change must be confirmed by two
\* checks in a row" (README.md:65), and goes no further than either of them pointed ("The
\* smaller of the two moves is applied", GenericMinerClient.cpp:156).
SwitchesAreConfirmed ==
  [][(PortSwitch /\ lastCheck # NoTier) =>
       \A check \in {lastCheck, Target} :
         /\ pendingPort' > CurrentTier => check >= pendingPort'
         /\ pendingPort' < CurrentTier => check <= pendingPort']_vars

\* "at most one switch per 10 minutes" (README.md:65) of the port, in one stay on a pool.
OneSwitchPerTenMinutes == [][PortSwitch => sinceSwitch >= MinSwitch]_vars

\* A hashrate h keeps the port of tier t: it is not below 85% of it, nor does it reach 95% of
\* the next one.
Fits(h, t) ==
  /\ t > 0 => 100 * h >= 85 * TierHashrate[t]
  /\ t < 6 => 100 * h < 95 * TierHashrate[t + 1]

\* When a pool stays active and the hashrate steady, the selection comes to rest on a port
\* which that hashrate keeps: the candidate, the cool-down and the hysteresis do not keep it
\* moving for ever, nor short of it.
PortSettles ==
  \A p \in AutoPools, h \in HashRates :
    <>[](activePool = p /\ rate = h) => <>[]Fits(h, portOf[p])
=============================================================================
