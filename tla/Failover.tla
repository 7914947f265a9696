------------------------------ MODULE Failover ------------------------------
(***************************************************************************)
(* What the list of pools promises to the user (README.md:88), when one    *)
(* thread manages the connection (StratumClient): the miners work for one  *)
(* pool at a time, and stop before another one is taken; after a pool      *)
(* comes the next of the list, and the main pool when it answered; the     *)
(* miner ends by itself only when every pool refused the login, when the   *)
(* one pool there is cannot be reached, or with -dar.                      *)
(***************************************************************************)
EXTENDS Integers

CONSTANTS
  NPools,               \* how many pools there are; the main pool is 0
  EndsWhenDropped       \* the option -dar

VARIABLES
  active,    \* the pool that is used
  job,       \* the pool the miners work for, NoPool when they are paused
  refused,   \* the pools that refused the login since one was accepted
  answered,  \* the main pool answered, and it was not made use of yet
  ended      \* how the program ended

Pools == 0 .. NPools - 1
NoPool == -1
Going == ended = "no"

Init ==
  /\ active = 0
  /\ job = NoPool
  /\ refused = {}
  /\ answered = FALSE
  /\ ended = "no"

Work == job' = active /\ UNCHANGED <<active, refused, answered, ended>>

Pause == job' = NoPool /\ UNCHANGED <<active, refused, answered, ended>>

\* The pool is given up. What the main pool answered may be forgotten.
GiveUp ==
  /\ job = NoPool
  /\ active' = (active + 1) % NPools
  /\ answered' \in {answered, FALSE}
  /\ UNCHANGED <<job, refused, ended>>

MainAnswers == answered' = TRUE /\ UNCHANGED <<active, job, refused, ended>>

GoBack ==
  /\ answered
  /\ job = NoPool
  /\ active' = 0
  /\ answered' \in BOOLEAN
  /\ UNCHANGED <<job, refused, ended>>

Accept == refused' = {} /\ UNCHANGED <<active, job, answered, ended>>

\* Also the job of a pool that refuses goes on until it is given up, except for the last one.
Refuse ==
  /\ refused' = refused \cup {active}
  /\ IF refused' = Pools
     THEN job' = NoPool /\ ended' = "refused"
     ELSE UNCHANGED <<job, ended>>
  /\ UNCHANGED <<active, answered>>

End ==
  /\ job = NoPool
  /\ \/ NPools = 1 /\ ended' = "retries"
     \/ EndsWhenDropped /\ ended' = "dropped"
  /\ UNCHANGED <<active, job, refused, answered>>

Next ==
  /\ Going
  /\ Work \/ Pause \/ GiveUp \/ MainAnswers \/ GoBack \/ Accept \/ Refuse \/ End

Spec == Init /\ [][Next]_<<active, job, refused, answered, ended>>
=============================================================================
