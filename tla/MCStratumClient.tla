-------------------------- MODULE MCStratumClient --------------------------
(* Instances of StratumClient for TLC. *)
EXTENDS StratumClient

\* The main pool drops connections; the backup pools may be down and fall silent, and never
\* accept a login.
MayFail ==
  [p \in Pools |->
     IF p = 0 THEN {"up", "accept", "refuse", "work", "drop"}
              ELSE {"up", "down", "session", "refuse", "silence"}]

\* The main pool comes and goes and does what it likes with the login, the last pool always
\* works, those between are dead.
MayLastWorks ==
  [p \in Pools |->
     CASE p = 0 -> {"up", "down", "session", "accept", "work", "refuse", "garbage"}
       [] p = NPools - 1 -> {"up", "session", "accept", "work", "other"}
       [] OTHER -> {"down"}]

\* The main pool accepts the login and goes on talking, without work; the others work.
MayMainTalks ==
  [p \in Pools |->
     IF p = 0 THEN {"up", "session", "accept", "other"}
              ELSE {"up", "session", "accept", "work", "other"}]

\* Pools that work, the main one until it drops the connection and cannot be reached.
MayMainFails ==
  [p \in Pools |->
     IF p = 0 THEN {"up", "down", "session", "accept", "work", "drop"}
              ELSE {"up", "session", "accept", "work"}]
=============================================================================
