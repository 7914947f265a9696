------------------------------- MODULE Shares -------------------------------
(***************************************************************************)
(* The way of a share from the miner to the pool and of the answer back    *)
(* (MinersLib/StratumClient.cpp: Submit, CallSubmit, CallJsonMethod, Write *)
(* and ProcessReponse). Farm::submitProof starts a thread for every share, *)
(* and these threads write to the connection of the network thread, that   *)
(* logs in, reads the answers and reconnects. Any thread may reconnect,    *)
(* which resets the number of the requests while others are being made.    *)
(*                                                                         *)
(* A job is the pool that sent it; a solution has one nonce, not 0. Which  *)
(* pool is active after a reconnect is free here: StratumClient says how   *)
(* it is chosen. Not here: solo mining, and client.get_version.            *)
(***************************************************************************)
EXTENDS Integers

CONSTANTS
  Pools,      \* m_pools
  MainPool,   \* m_pools[0]
  Threads,    \* the submit threads: one share each
  Nonces,     \* what a share may be made of
  Net,        \* the network thread
  Other,      \* another thread that reconnects: the client thread or a miner
  Subscribe, Authorize, \* the calls of the login
  Nobody,     \* no thread
  MaxEpochs,  \* bound: no connection is lost after so many resets of m_workID
  MaxJobs     \* bound: jobs the pools send

Calls == Threads \cup {Subscribe, Authorize}
Callers == Threads \cup {Net}

ASSUME ConstantsAssumption ==
  /\ MainPool \in Pools /\ Nonces # {}
  /\ Subscribe \notin Threads /\ Authorize \notin Threads
  /\ Net \notin Threads /\ Nobody \notin Threads \cup {Net, Other}
  /\ Other # Net
  /\ MaxEpochs \in Nat /\ MaxJobs \in Nat

VARIABLES
  active,     \* m_active
  connected,  \* m_connected
  socket,     \* m_socket: its state, and the pool at the other end
  rc,         \* Reconnect: who holds m_reconnMutex, and wasConnected
  net,        \* where the network thread is
  workID,     \* m_workID
  table,      \* m_lastCalleJSondMethod
  call,       \* CallJsonMethod: the holder of m_CallJsonMethodMutex, its call and its step
  buffer,     \* m_requestBuffer
  wire,       \* requests the pool at the other end has not answered
  offered,    \* the pools whose jobs the miners got
  jobs,       \* jobs so far
  submitted,  \* m_submittedNonces of m_current
  share       \* share[t]: where thread t is in Submit, and its share

\* History, read by properties only.
VARIABLES
  epoch,      \* resets of m_workID so far
  sent        \* sent[t]: how often the share of t was written to a connection

connVars == <<active, connected, socket, rc, net, epoch>>
callVars == <<workID, table, call, buffer, wire, sent>>
workVars == <<offered, jobs, submitted>>
vars == <<connVars, callVars, workVars, share>>

\* A request or its entry in the table; the epoch is history.
Entry == [id : Nat, call : Calls, epoch : Nat]
NoCall == [at |-> "free", by |-> Nobody, what |-> Subscribe, id |-> 0]

ShareStates == {"idle", "found", "checked", "valid", "calling", "called", "done"}

\* Every variable has its type; the state of the one call under way names its maker.
TypeOK ==
  /\ active \in Pools
  /\ connected \in BOOLEAN
  /\ socket \in [state : {"open", "dead", "closed"}, pool : Pools]
  /\ rc \in [by : {Nobody, Net, Other}, was : BOOLEAN]
  /\ net \in {"connect", "dial", "post", "clear", "subscribe", "authorize", "read", "reconnect"}
  /\ workID \in Nat
  /\ table \subseteq Entry
  /\ call \in [at : {"free", "count", "record", "append", "write"}, by : Callers \cup {Nobody},
               what : Calls, id : Nat]
  /\ call.at = "free" <=> call.by = Nobody
  /\ buffer \subseteq Entry
  /\ wire \subseteq Entry
  /\ offered \subseteq Pools
  /\ jobs \in 0 .. MaxJobs
  /\ submitted \subseteq Nonces
  /\ share \in [Threads -> [at : ShareStates, nonce : Nonces, pool : Pools, fresh : BOOLEAN,
                            counted : BOOLEAN]]
  /\ epoch \in Nat
  /\ sent \in [Threads -> Nat]

Init ==
  /\ active = MainPool
  /\ connected = FALSE
  /\ socket = [state |-> "closed", pool |-> active]
  /\ rc = [by |-> Nobody, was |-> FALSE]
  /\ net = "connect"
  /\ workID = 0
  /\ table = {}
  /\ call = NoCall
  /\ buffer = {}
  /\ wire = {}
  /\ offered = {}
  /\ jobs = 0
  /\ submitted = {}
  /\ share = [t \in Threads |-> [at |-> "idle", nonce |-> CHOOSE n \in Nonces : TRUE,
                                pool |-> active, fresh |-> FALSE, counted |-> FALSE]]
  /\ epoch = 0
  /\ sent = [t \in Threads |-> 0]

Epochs == epoch < MaxEpochs

-----------------------------------------------------------------------------
(* CallJsonMethod, under m_CallJsonMethodMutex. m_workID is a plain        *)
(* integer, that a reconnect resets without the mutex.                     *)

\* The mutex is taken and the number read...
CallBegins(who, what) ==
  /\ call.at = "free"
  /\ call' = [at |-> "count", by |-> who, what |-> what, id |-> workID]
  /\ UNCHANGED <<workID, table, buffer, wire, sent>>

\* MUTANT: the numbers go down.
NextID_Down(n) == n - 1

NextID(n) == n + 1

\* ... increased...
Count ==
  /\ call.at = "count"
  /\ workID' = NextID(call.id)
  /\ call' = [call EXCEPT !.at = "record"]
  /\ UNCHANGED <<connVars, table, buffer, wire, sent, workVars, share>>

\* ... noted with the call it stands for, in the place of an older one...
Record ==
  /\ call.at = "record"
  /\ table' = {e \in table : e.id # workID}
                \cup {[id |-> workID, call |-> call.what, epoch |-> epoch]}
  /\ call' = [call EXCEPT !.at = "append"]
  /\ UNCHANGED <<connVars, workID, buffer, wire, sent, workVars, share>>

\* ... and written with the request behind what is still in the buffer.
Append ==
  /\ call.at = "append"
  /\ buffer' = buffer \cup {[id |-> workID, call |-> call.what, epoch |-> epoch]}
  /\ call' = [call EXCEPT !.at = "write"]
  /\ UNCHANGED <<connVars, workID, table, wire, sent, workVars, share>>

\* MUTANT: what was written stays in the buffer.
AfterWrite_Kept == buffer

AfterWrite == {}

\* Write: without a connection the request stays in the buffer. When the connection is gone
\* the write fails, and the request stays, or nobody reads it.
WriteBuffer ==
  \/ /\ ~connected
     /\ UNCHANGED <<buffer, wire, sent, socket>>
  \/ /\ connected
     /\ socket.state # "closed"
     /\ wire' = IF socket.state = "open" THEN wire \cup buffer ELSE wire
     /\ sent' = [t \in Threads |-> IF \E r \in buffer : r.call = t THEN sent[t] + 1 ELSE sent[t]]
     /\ buffer' = AfterWrite
     /\ UNCHANGED socket
  \/ /\ connected
     /\ socket.state # "open"
     /\ socket' = [socket EXCEPT !.state = "closed"]
     /\ UNCHANGED <<buffer, wire, sent>>

\* The call returns: a submit thread has ended, the network thread goes on with its login.
Write ==
  /\ call.at = "write"
  /\ WriteBuffer
  /\ call' = NoCall
  /\ share' = [t \in Threads |-> IF t = call.by THEN [share[t] EXCEPT !.at = "done"] ELSE share[t]]
  /\ net' = IF call.by # Net THEN net
            ELSE IF call.what = Subscribe THEN "authorize"
            ELSE IF connected THEN "read" ELSE "connect"
  /\ UNCHANGED <<active, connected, rc, epoch, workID, table, workVars>>

CallStep == Count \/ Record \/ Append \/ Write

-----------------------------------------------------------------------------
(* Submit and CallSubmit: the thread of a share.                           *)

\* Farm::submitProof. The miners may be behind with the work they solve.
Found(t, n, p) ==
  /\ share[t].at = "idle"
  /\ p \in offered
  /\ share' = [share EXCEPT ![t] = [@ EXCEPT !.at = "found", !.nonce = n, !.pool = p]]
  /\ UNCHANGED <<connVars, callVars, workVars>>

\* The share counts as failed, or is dropped.
Ends(t) == share' = [share EXCEPT ![t].at = "done"]

\* MUTANT: the nonce is not noted.
Noted_Not(n) == submitted

Noted(n) == submitted \cup {n}

\* Under m_currentWorkMutex: a nonce that was submitted since the last new work is not again.
CheckNonce(t) ==
  /\ share[t].at = "found"
  /\ IF share[t].nonce \in submitted
     THEN Ends(t) /\ UNCHANGED submitted
     ELSE /\ submitted' = Noted(share[t].nonce)
          /\ share' = [share EXCEPT ![t] = [@ EXCEPT !.at = "checked", !.fresh = TRUE]]
  /\ UNCHANGED <<connVars, callVars, offered, jobs>>

\* Eval, the hash computed again, and then the look at m_connected.
Eval(t) ==
  /\ share[t].at = "checked"
  /\ \/ connected /\ share' = [share EXCEPT ![t].at = "valid"]
     \/ Ends(t)
  /\ UNCHANGED <<connVars, callVars, workVars>>

\* The share of another pool is dropped.
CheckPool(t) ==
  /\ share[t].at = "valid"
  /\ IF active = share[t].pool THEN share' = [share EXCEPT ![t].at = "calling"] ELSE Ends(t)
  /\ UNCHANGED <<connVars, callVars, workVars>>

SubmitCall(t) ==
  /\ share[t].at = "calling"
  /\ CallBegins(t, t)
  /\ share' = [share EXCEPT ![t].at = "called"]
  /\ UNCHANGED <<connVars, workVars>>

SubmitStep(t) == CheckNonce(t) \/ Eval(t) \/ CheckPool(t) \/ SubmitCall(t)

-----------------------------------------------------------------------------
(* Reconnect and Connect.                                                  *)

\* Under m_reconnMutex: the connection is given up...
ReconnectBegins(who) ==
  /\ rc.by = Nobody
  /\ rc' = [by |-> who, was |-> connected]
  /\ connected' = FALSE
  /\ workID' = 0
  /\ epoch' = epoch + 1
  /\ UNCHANGED <<active, socket, table, call, buffer, wire, sent, workVars, share>>

\* ... and closed, perhaps after a switch to another pool.
ReconnectEnds ==
  /\ rc.by # Nobody
  /\ active' \in Pools
  /\ IF rc.was THEN socket' = [socket EXCEPT !.state = "closed"] /\ wire' = {}
               ELSE UNCHANGED <<socket, wire>>
  /\ net' = IF rc.by = Net THEN "connect" ELSE net
  /\ rc' = [by |-> Nobody, was |-> FALSE]
  /\ UNCHANGED <<connected, epoch, workID, table, call, buffer, sent, workVars, share>>

OtherReconnects ==
  /\ Epochs
  /\ ReconnectBegins(Other)
  /\ UNCHANGED net

\* The read loop ends with an exception.
ReadFails ==
  /\ net = "read"
  /\ socket.state # "open"
  /\ ReconnectBegins(Net)
  /\ net' = "reconnect"

\* Connect and Preconnect: a switch of the pool that was asked for is made.
ConnectBegins ==
  /\ net = "connect"
  /\ net' = "dial"
  /\ workID' = 0
  /\ epoch' = epoch + 1
  /\ active' \in Pools
  /\ UNCHANGED <<connected, socket, rc, table, call, buffer, wire, sent, workVars, share>>

Dial ==
  /\ net = "dial"
  /\ net' = "post"
  /\ socket' = [state |-> "open", pool |-> active]
  /\ wire' = {}
  /\ connected' = TRUE
  /\ UNCHANGED <<active, rc, epoch, workID, table, call, buffer, sent, workVars, share>>

DialFails ==
  /\ net = "dial"
  /\ Epochs
  /\ ReconnectBegins(Net)
  /\ net' = "reconnect"

\* A socket that was closed meanwhile is noticed here.
PostConnect ==
  /\ net = "post"
  /\ connected' = (connected /\ socket.state # "closed")
  /\ net' = IF connected' THEN "clear" ELSE "connect"
  /\ UNCHANGED <<active, socket, rc, epoch, callVars, workVars, share>>

\* MUTANT: the numbers start again with the empty table.
IDAfterClear_Zero == 0

IDAfterClear == workID

\* OnPostConnect: the calls of the connection before are forgotten, under the mutex...
ClearTable ==
  /\ net = "clear"
  /\ call.at = "free"
  /\ table' = {}
  /\ workID' = IDAfterClear
  /\ net' = "subscribe"
  /\ UNCHANGED <<active, connected, socket, rc, epoch, call, buffer, wire, sent, workVars, share>>

\* ... and the login is sent.
LoginCall ==
  /\ net \in {"subscribe", "authorize"}
  /\ CallBegins(Net, IF net = "subscribe" THEN Subscribe ELSE Authorize)
  /\ UNCHANGED <<connVars, workVars, share>>

-----------------------------------------------------------------------------
(* The lines of the pool, and the pool.                                    *)

NewWork ==
  /\ submitted' = {}
  /\ share' = [t \in Threads |-> [share[t] EXCEPT !.fresh = FALSE]]

\* mining.notify: the new job is m_current.
Notify ==
  /\ net = "read"
  /\ socket.state = "open"
  /\ jobs < MaxJobs
  /\ jobs' = jobs + 1
  /\ offered' = offered \cup {active}
  /\ NewWork
  /\ UNCHANGED <<connVars, callVars>>

\* InitializeWP for a miner that begins with a job: the nonces of m_current are cleared too.
LocalWork ==
  /\ offered # {}
  /\ NewWork
  /\ UNCHANGED <<connVars, callVars, offered, jobs>>

Answered(r) == {e \in table : e.id = r.id}

\* MUTANT: an answer empties the table.
AfterAnswer_Empty(r) == {}

AfterAnswer(r) == table \ Answered(r)

\* ProcessReponse: the answer counts for the device of the call noted with its number, if any.
ReadReply(r) ==
  /\ net = "read"
  /\ socket.state = "open"
  /\ call.at = "free"
  /\ r \in wire
  /\ wire' = wire \ {r}
  /\ table' = AfterAnswer(r)
  /\ share' = [t \in Threads |-> IF \E e \in Answered(r) : e.call = t
                                 THEN [share[t] EXCEPT !.counted = TRUE] ELSE share[t]]
  /\ UNCHANGED <<connVars, workID, call, buffer, sent, workVars>>

ReadReplyTo(c) == \E r \in wire : r.call = c /\ ReadReply(r)

\* The pool, or the network, is gone; the socket does not know it.
Lose ==
  /\ Epochs
  /\ socket.state = "open"
  /\ socket' = [socket EXCEPT !.state = "dead"]
  /\ wire' = {}
  /\ UNCHANGED <<active, connected, rc, net, epoch, workID, table, call, buffer, sent, workVars, share>>

NetStep == ReadFails \/ ConnectBegins \/ Dial \/ PostConnect \/ ClearTable \/ LoginCall

Next ==
  \/ CallStep
  \/ \E t \in Threads : \/ \E n \in Nonces, p \in Pools : Found(t, n, p)
                       \/ SubmitStep(t)
  \/ ReconnectEnds \/ OtherReconnects
  \/ NetStep \/ DialFails
  \/ Notify \/ LocalWork \/ Lose
  \/ \E c \in Calls : ReadReplyTo(c)

Spec == Init /\ [][Next]_vars

\* The thread that makes a call goes on, and a pool that is connected answers.
FairSpec ==
  /\ Spec
  /\ WF_vars(CallStep)
  /\ \A t \in Threads : WF_vars(ReadReplyTo(t))

-----------------------------------------------------------------------------
(* Properties.                                                             *)

\* The answer to a request made since the last reset of m_workID is never taken for the answer
\* to another call, although every thread makes requests and any may reset the numbers.
AnswersMatchCalls ==
  net = "read" =>
    \A r \in wire : r.epoch = epoch => \A e \in Answered(r) : e.call = r.call

\* A share is written to a connection once at most, whatever fails.
SharesSentOnce == \A t \in Threads : sent[t] <= 1

\* Shares that passed the check for duplicates since the last new work are of different nonces.
NoncesSubmittedOnce ==
  \A t, u \in Threads : t # u /\ share[t].fresh /\ share[u].fresh => share[t].nonce # share[u].nonce

\* A share that the pool has got and whose call is noted is counted, unless the connection is
\* lost before the answer comes.
AnswersAreCounted ==
  \A t \in Threads :
    (\E r \in wire : r.call = t /\ \E e \in Answered(r) : e.call = t) /\ net = "read"
      ~> share[t].counted \/ ~connected \/ socket.state # "open"

\* The comment in CallSubmit: no share crosses over to another pool. A share that was submitted
\* before the reconnect is not on a connection to another pool after it.
SharesStayWithTheirPool ==
  \A t \in Threads, r \in wire :
    connected /\ r.call = t /\ r.epoch # epoch => socket.pool = share[t].pool
=============================================================================
