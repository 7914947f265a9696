---------------------------- MODULE LaunchQueue ----------------------------
(***************************************************************************)
(* What a GPU promises its miner (the comment of Rh2CudaDevice in          *)
(* MinersLib/Parnian/RandomHashCudaMiner.h): launches are queued, at most  *)
(* Depth of them are in flight, the results that come back are those of    *)
(* the oldest one, and a solution is sent for the very job whose header    *)
(* was hashed, after a test against the target of that job.                *)
(***************************************************************************)
EXTENDS Naturals, Sequences

CONSTANTS
  Jobs,     \* the jobs of the pools
  NoReport, \* no solution was sent yet
  Depth     \* launches in flight

VARIABLES
  queue,    \* the jobs of the launches in flight, the oldest first
  report    \* the last solution that was sent

\* A solution of job j, as it should be: labelled j, found with the header of j, tested
\* against the target of j.
Genuine(j) == [label |-> j, hashed |-> j, limit |-> j]

Init == queue = <<>> /\ report = NoReport

Launch ==
  /\ Len(queue) < Depth
  /\ \E j \in Jobs : queue' = Append(queue, j)
  /\ UNCHANGED report

Wait ==
  /\ queue # <<>>
  /\ queue' = Tail(queue)
  /\ report' \in {report, Genuine(Head(queue))}

Next == Launch \/ Wait

Spec == Init /\ [][Next]_<<queue, report>>
=============================================================================
