--------------------------- MODULE Shares_proofs ----------------------------
(***************************************************************************)
(* What is proved of Shares for any pools, threads and nonces, and however *)
(* often the connection is lost: the types, that an answer is never taken  *)
(* for the answer to another call, that a share is written once, and that  *)
(* a nonce is submitted once for the work it was found in.                 *)
(***************************************************************************)
EXTENDS Shares, TLAPS


\* The steps of the login and of Reconnect, and the steps of the pool.
LoginStep == LoginCall \/ ClearTable \/ PostConnect \/ Dial \/ ConnectBegins
ReconnectStep == ReconnectEnds \/ OtherReconnects \/ ReadFails \/ DialFails

LEMMA NextIs ==
  ASSUME [Next]_vars
  PROVE  \/ Count \/ Record \/ Append \/ Write
         \/ \E t \in Threads : SubmitStep(t) \/ \E n \in Nonces, p \in Pools : Found(t, n, p)
         \/ LoginStep \/ ReconnectStep
         \/ Notify \/ LocalWork \/ Lose
         \/ \E r \in wire : ReadReply(r)
         \/ UNCHANGED vars
BY DEF Next, CallStep, NetStep, LoginStep, ReconnectStep, ReadReplyTo

-----------------------------------------------------------------------------
(* Types.                                                                  *)

THEOREM InitTypeOK == Init => TypeOK
<1> SUFFICES ASSUME Init PROVE TypeOK
  OBVIOUS
<1>1. MainPool \in Pools /\ (CHOOSE n \in Nonces : TRUE) \in Nonces
  BY ConstantsAssumption
<1>2. 0 \in 0 .. MaxJobs
  BY ConstantsAssumption
<1>3. Subscribe \in Calls
  BY DEF Calls
<1> QED
  BY <1>1, <1>2, <1>3 DEF Init, TypeOK, NoCall, ShareStates, Callers

LEMMA NextTypeOK ==
  ASSUME TypeOK, [Next]_vars
  PROVE  TypeOK'
<1> USE DEF TypeOK, connVars, callVars, workVars
<1>1. CASE Count
  BY <1>1, SMT DEF Count, NextID
<1>2. CASE Record
  BY <1>2 DEF Record, Entry
<1>3. CASE Append
  BY <1>3 DEF Append, Entry
<1>4. CASE Write
  BY <1>4 DEF Write, WriteBuffer, NoCall, Calls, ShareStates, AfterWrite
<1>5. ASSUME NEW t \in Threads, SubmitStep(t) PROVE TypeOK'
  <2>1. CASE CheckNonce(t)
    <3> DEFINE s == [share[t] EXCEPT !.at = "checked", !.fresh = TRUE]
               d == [share[t] EXCEPT !.at = "done"]
               S == [at : ShareStates, nonce : Nonces, pool : Pools, fresh : BOOLEAN, counted : BOOLEAN]
    <3>1. s \in S /\ d \in S
      BY DEF ShareStates
    <3>2. share' = [share EXCEPT ![t] = s] \/ share' = [share EXCEPT ![t] = d]
      BY <2>1 DEF CheckNonce, Ends
    <3>3. submitted' \subseteq Nonces
      BY <2>1 DEF CheckNonce, Noted
    <3> HIDE DEF s, d
    <3>4. share' \in [Threads -> S]
      BY <3>1, <3>2
    <3> QED
      BY <2>1, <3>3, <3>4 DEF CheckNonce
  <2>2. CASE Eval(t)
    BY <2>2 DEF Eval, Ends, ShareStates
  <2>3. CASE CheckPool(t)
    BY <2>3 DEF CheckPool, Ends, ShareStates
  <2>4. CASE SubmitCall(t)
    BY <2>4, ConstantsAssumption DEF SubmitCall, CallBegins, ShareStates, Callers, Calls
  <2> QED
    BY <1>5, <2>1, <2>2, <2>3, <2>4 DEF SubmitStep
<1>6. ASSUME NEW t \in Threads, NEW n \in Nonces, NEW p \in Pools, Found(t, n, p) PROVE TypeOK'
  <2> DEFINE s == [share[t] EXCEPT !.at = "found", !.nonce = n, !.pool = p]
  <2>1. s \in [at : ShareStates, nonce : Nonces, pool : Pools, fresh : BOOLEAN, counted : BOOLEAN]
    BY DEF ShareStates
  <2>2. share' = [share EXCEPT ![t] = s]
    BY <1>6 DEF Found
  <2> HIDE DEF s
  <2> QED
    BY <1>6, <2>1, <2>2 DEF Found
<1>7. CASE LoginStep
  <2>1. CASE LoginCall
    BY <2>1, ConstantsAssumption DEF LoginCall, CallBegins, Callers, Calls
  <2>2. CASE ClearTable
    BY <2>2 DEF ClearTable, IDAfterClear, Entry
  <2>3. CASE PostConnect
    BY <2>3 DEF PostConnect
  <2>4. CASE Dial
    BY <2>4 DEF Dial
  <2>5. CASE ConnectBegins
    BY <2>5 DEF ConnectBegins
  <2> QED
    BY <1>7, <2>1, <2>2, <2>3, <2>4, <2>5 DEF LoginStep
<1>8. CASE ReconnectStep
  <2>0. epoch + 1 \in Nat
    BY SMT
  <2>1. CASE ReconnectEnds
    BY <2>1 DEF ReconnectEnds
  <2>2. CASE OtherReconnects
    BY <2>0, <2>2 DEF OtherReconnects, ReconnectBegins
  <2>3. CASE ReadFails
    BY <2>0, <2>3 DEF ReadFails, ReconnectBegins
  <2>4. CASE DialFails
    BY <2>0, <2>4 DEF DialFails, ReconnectBegins
  <2> QED
    BY <1>8, <2>1, <2>2, <2>3, <2>4 DEF ReconnectStep
<1>9. CASE Notify
  <2>1. jobs' \in 0 .. MaxJobs
    BY <1>9, ConstantsAssumption, SMT DEF Notify
  <2>2. submitted' \subseteq Nonces /\ share' \in [Threads ->
          [at : ShareStates, nonce : Nonces, pool : Pools, fresh : BOOLEAN, counted : BOOLEAN]]
    BY <1>9 DEF Notify, NewWork
  <2> QED
    BY <1>9, <2>1, <2>2 DEF Notify
<1>10. CASE LocalWork
  <2>1. submitted' \subseteq Nonces /\ share' \in [Threads ->
          [at : ShareStates, nonce : Nonces, pool : Pools, fresh : BOOLEAN, counted : BOOLEAN]]
    BY <1>10 DEF LocalWork, NewWork
  <2> QED
    BY <1>10, <2>1 DEF LocalWork
<1>11. CASE Lose
  <2>1. socket' \in [state : {"open", "dead", "closed"}, pool : Pools]
    BY <1>11 DEF Lose
  <2> QED
    BY <1>11, <2>1 DEF Lose
<1>12. ASSUME NEW r \in wire, ReadReply(r) PROVE TypeOK'
  BY <1>12 DEF ReadReply, AfterAnswer, ShareStates
<1>13. CASE UNCHANGED vars
  BY <1>13 DEF vars
<1> QED
  BY NextIs, <1>1, <1>2, <1>3, <1>4, <1>5, <1>6, <1>7, <1>8, <1>9, <1>10, <1>11, <1>12, <1>13

\* Every variable keeps its type, whatever the threads do and the network loses.
THEOREM TypeCorrect == Spec => []TypeOK
BY InitTypeOK, NextTypeOK, PTL DEF Spec

-----------------------------------------------------------------------------
(* One call at a time, and what its maker waits for.                       *)

\* A submit thread that has begun its call makes it; the network thread calls in the login and
\* waits while it reconnects.
CallInv ==
  /\ \A t \in Threads : share[t].at = "called" => call.by = t
  /\ call.by \in Threads => call.what = call.by /\ share[call.by].at = "called"
  /\ call.by = Net => net \in {"subscribe", "authorize"} /\ call.what \notin Threads
  /\ rc.by = Net => net = "reconnect"

LEMMA CallInitially == Init => CallInv
BY ConstantsAssumption DEF Init, CallInv, NoCall

LEMMA CallKept ==
  ASSUME TypeOK, CallInv, [Next]_vars
  PROVE  CallInv'
<1> USE DEF TypeOK, CallInv, connVars, callVars, workVars
<1>1. CASE Count
  BY <1>1 DEF Count
<1>2. CASE Record
  BY <1>2 DEF Record
<1>3. CASE Append
  BY <1>3 DEF Append
<1>4. CASE Write
  BY <1>4, ConstantsAssumption DEF Write, NoCall
<1>5. ASSUME NEW t \in Threads, SubmitStep(t) PROVE CallInv'
  <2>1. CASE CheckNonce(t)
    <3> DEFINE s == [share[t] EXCEPT !.at = "checked", !.fresh = TRUE]
               d == [share[t] EXCEPT !.at = "done"]
    <3>1. s.at # "called" /\ d.at # "called"
      OBVIOUS
    <3>2. share' = [share EXCEPT ![t] = s] \/ share' = [share EXCEPT ![t] = d]
      BY <2>1 DEF CheckNonce, Ends
    <3> HIDE DEF s, d
    <3>3. share[t].at # "called" /\ share'[t].at # "called"
      BY <2>1, <3>1, <3>2 DEF CheckNonce
    <3>4. \A u \in Threads : u # t => share'[u] = share[u]
      BY <3>2
    <3> QED
      BY <2>1, <3>3, <3>4 DEF CheckNonce
  <2>2. CASE Eval(t)
    BY <2>2 DEF Eval, Ends
  <2>3. CASE CheckPool(t)
    BY <2>3 DEF CheckPool, Ends
  <2>4. CASE SubmitCall(t)
    BY <2>4, ConstantsAssumption DEF SubmitCall, CallBegins
  <2> QED
    BY <1>5, <2>1, <2>2, <2>3, <2>4 DEF SubmitStep
<1>6. ASSUME NEW t \in Threads, NEW n \in Nonces, NEW p \in Pools, Found(t, n, p) PROVE CallInv'
  BY <1>6 DEF Found
<1>7. CASE LoginStep
  <2>1. CASE LoginCall
    BY <2>1, ConstantsAssumption DEF LoginCall, CallBegins
  <2>2. CASE ClearTable
    BY <2>2, ConstantsAssumption DEF ClearTable
  <2>3. CASE PostConnect
    BY <2>3 DEF PostConnect
  <2>4. CASE Dial
    BY <2>4 DEF Dial
  <2>5. CASE ConnectBegins
    BY <2>5 DEF ConnectBegins
  <2> QED
    BY <1>7, <2>1, <2>2, <2>3, <2>4, <2>5 DEF LoginStep
<1>8. CASE ReconnectStep
  <2>1. CASE OtherReconnects
    BY <2>1, ConstantsAssumption DEF OtherReconnects, ReconnectBegins
  <2>2. CASE ReadFails
    BY <2>2 DEF ReadFails, ReconnectBegins
  <2>3. CASE DialFails
    BY <2>3 DEF DialFails, ReconnectBegins
  <2>4. CASE ReconnectEnds
    BY <2>4, ConstantsAssumption DEF ReconnectEnds
  <2> QED
    BY <1>8, <2>1, <2>2, <2>3, <2>4 DEF ReconnectStep
<1>9. CASE Notify
  BY <1>9 DEF Notify, NewWork
<1>10. CASE LocalWork
  BY <1>10 DEF LocalWork, NewWork
<1>11. CASE Lose
  BY <1>11 DEF Lose
<1>12. ASSUME NEW r \in wire, ReadReply(r) PROVE CallInv'
  BY <1>12 DEF ReadReply
<1>13. CASE UNCHANGED vars
  BY <1>13 DEF vars
<1> QED
  BY NextIs, <1>1, <1>2, <1>3, <1>4, <1>5, <1>6, <1>7, <1>8, <1>9, <1>10, <1>11, <1>12, <1>13

THEOREM CallsAreInStep == Spec => [](TypeOK /\ CallInv)
BY InitTypeOK, NextTypeOK, CallInitially, CallKept, PTL DEF Spec

-----------------------------------------------------------------------------
(* A share is written once.                                                *)

InBuffer(t) == \E r \in buffer : r.call = t

\* The request of thread t is not in the buffer yet.
Ahead(t) ==
  \/ share[t].at \notin {"called", "done"}
  \/ share[t].at = "called" /\ call.at \in {"count", "record", "append"}

\* What is in the buffer was never written, and what was written is not appended again.
SentInv ==
  \A t \in Threads :
    /\ sent[t] <= 1
    /\ InBuffer(t) => sent[t] = 0
    /\ Ahead(t) => ~InBuffer(t) /\ sent[t] = 0

LEMMA SentInitially == Init => SentInv
BY DEF Init, SentInv, InBuffer

\* A step that leaves the buffer and the counts alone brings no thread back.
LEMMA SentStays ==
  ASSUME SentInv, UNCHANGED <<buffer, sent>>, \A t \in Threads : Ahead(t)' => Ahead(t)
  PROVE  SentInv'
<1>1. \A t \in Threads : InBuffer(t)' <=> InBuffer(t)
  BY DEF InBuffer
<1> QED
  BY <1>1 DEF SentInv

LEMMA SentKept ==
  ASSUME TypeOK, CallInv, SentInv, [Next]_vars
  PROVE  SentInv'
<1> USE DEF connVars, callVars, workVars
<1>0. TypeOK'
  BY NextTypeOK
<1>1. CASE Count
  BY <1>1, SentStays DEF Count, Ahead, TypeOK
<1>2. CASE Record
  BY <1>2, SentStays DEF Record, Ahead, TypeOK
<1>3. CASE Append
  <2> SUFFICES ASSUME NEW t \in Threads
               PROVE  /\ sent'[t] <= 1
                      /\ InBuffer(t)' => sent'[t] = 0
                      /\ Ahead(t)' => ~InBuffer(t)' /\ sent'[t] = 0
    BY DEF SentInv
  <2>1. call.at = "append" /\ call'.at = "write" /\ UNCHANGED <<sent, share>>
    BY <1>3 DEF Append, TypeOK
  <2>2. Ahead(t)' => Ahead(t) /\ share[t].at # "called"
    BY <2>1 DEF Ahead
  <2>3. InBuffer(t)' => InBuffer(t) \/ call.what = t
    BY <1>3 DEF Append, InBuffer
  <2>4. call.what = t => share[t].at = "called" /\ Ahead(t)
    BY <2>1 DEF CallInv, Ahead, TypeOK, Callers
  <2> QED
    BY <2>1, <2>2, <2>3, <2>4 DEF SentInv
<1>4. CASE Write
  <2> SUFFICES ASSUME NEW t \in Threads
               PROVE  /\ sent'[t] <= 1
                      /\ InBuffer(t)' => sent'[t] = 0
                      /\ Ahead(t)' => ~InBuffer(t)' /\ sent'[t] = 0
    BY DEF SentInv
  <2>1. call.at = "write"
    BY <1>4 DEF Write
  <2>2. Ahead(t)' => Ahead(t)
    <3>1. share'[t].at = "called" => t # call.by
      BY <1>4 DEF Write, TypeOK
    <3>2. share[t].at = "called" => t = call.by
      BY DEF CallInv
    <3>3. share'[t].at \in {"done", share[t].at}
      BY <1>4 DEF Write, TypeOK
    <3> QED
      BY <3>1, <3>2, <3>3 DEF Ahead
  <2>3. CASE UNCHANGED <<buffer, sent>>
    BY <2>2, <2>3 DEF SentInv, InBuffer
  <2>4. CASE /\ sent' = [u \in Threads |-> IF \E r \in buffer : r.call = u THEN sent[u] + 1 ELSE sent[u]]
             /\ buffer' = {}
    <3>1. sent[t] \in Nat /\ sent'[t] = IF InBuffer(t) THEN sent[t] + 1 ELSE sent[t]
      BY <2>4 DEF InBuffer, TypeOK
    <3>2. ~InBuffer(t)'
      BY <2>4 DEF InBuffer
    <3> QED
      BY <2>2, <3>1, <3>2 DEF SentInv
  <2> QED
    BY <1>4, <2>3, <2>4 DEF Write, WriteBuffer, AfterWrite
<1>5. ASSUME NEW t \in Threads, SubmitStep(t) PROVE SentInv'
  <2>1. CASE CheckNonce(t)
    <3>1. share[t].at = "found" /\ \A u \in Threads : u # t => share'[u] = share[u]
      BY <2>1 DEF CheckNonce, Ends, TypeOK
    <3> QED
      BY <2>1, <3>1, SentStays DEF CheckNonce, Ahead
  <2>2. CASE Eval(t)
    BY <2>2, SentStays DEF Eval, Ends, Ahead, TypeOK
  <2>3. CASE CheckPool(t)
    BY <2>3, SentStays DEF CheckPool, Ends, Ahead, TypeOK
  <2>4. CASE SubmitCall(t)
    <3>1. \A u \in Threads : u # t => share[u].at # "called" /\ share'[u] = share[u]
      BY <2>4, ConstantsAssumption DEF SubmitCall, CallBegins, CallInv, TypeOK
    <3>2. share[t].at = "calling"
      BY <2>4 DEF SubmitCall
    <3> QED
      BY <2>4, <3>1, <3>2, SentStays DEF SubmitCall, CallBegins, Ahead
  <2> QED
    BY <1>5, <2>1, <2>2, <2>3, <2>4 DEF SubmitStep
<1>6. ASSUME NEW t \in Threads, NEW n \in Nonces, NEW p \in Pools, Found(t, n, p) PROVE SentInv'
  BY <1>6, SentStays DEF Found, Ahead, TypeOK
<1>7. CASE LoginStep
  <2>1. CASE LoginCall
    <3>1. \A u \in Threads : share[u].at # "called" /\ share'[u] = share[u]
      BY <2>1, ConstantsAssumption DEF LoginCall, CallBegins, CallInv, TypeOK
    <3> QED
      BY <2>1, <3>1, SentStays DEF LoginCall, CallBegins, Ahead
  <2>2. CASE ClearTable
    BY <2>2, SentStays DEF ClearTable, Ahead
  <2>3. CASE PostConnect
    BY <2>3, SentStays DEF PostConnect, Ahead
  <2>4. CASE Dial
    BY <2>4, SentStays DEF Dial, Ahead
  <2>5. CASE ConnectBegins
    BY <2>5, SentStays DEF ConnectBegins, Ahead
  <2> QED
    BY <1>7, <2>1, <2>2, <2>3, <2>4, <2>5 DEF LoginStep
<1>8. CASE ReconnectStep
  BY <1>8, SentStays DEF ReconnectStep, ReconnectEnds, OtherReconnects, ReadFails, DialFails,
                         ReconnectBegins, Ahead
<1>9. CASE Notify \/ LocalWork
  BY <1>9, SentStays DEF Notify, LocalWork, NewWork, Ahead, TypeOK
<1>10. CASE Lose
  BY <1>10, SentStays DEF Lose, Ahead
<1>11. ASSUME NEW r \in wire, ReadReply(r) PROVE SentInv'
  BY <1>11, SentStays DEF ReadReply, Ahead, TypeOK
<1>12. CASE UNCHANGED vars
  BY <1>12, SentStays DEF vars, Ahead
<1> QED
  BY NextIs, <1>1, <1>2, <1>3, <1>4, <1>5, <1>6, <1>7, <1>8, <1>9, <1>10, <1>11, <1>12

\* A share is written to a connection once at most, although what could not be written stays in
\* the buffer of Write and goes out with another call.
THEOREM SharesOnce == Spec => []SharesSentOnce
<1>1. SentInv => SharesSentOnce
  BY DEF SentInv, SharesSentOnce
<1> QED
  BY <1>1, InitTypeOK, NextTypeOK, CallInitially, CallKept, SentInitially, SentKept, PTL DEF Spec

-----------------------------------------------------------------------------
(* A nonce is submitted once.                                              *)

NonceInv ==
  /\ \A t \in Threads : share[t].fresh => share[t].nonce \in submitted /\ share[t].at # "idle"
  /\ NoncesSubmittedOnce

\* A step that leaves the nonces alone keeps the invariant.
LEMMA NonceStays ==
  ASSUME NonceInv, submitted' = submitted,
         \A t \in Threads : /\ share'[t].fresh = share[t].fresh /\ share'[t].nonce = share[t].nonce
                            /\ share'[t].at = "idle" => share[t].at = "idle"
  PROVE  NonceInv'
BY DEF NonceInv, NoncesSubmittedOnce

LEMMA NonceKept ==
  ASSUME TypeOK, NonceInv, [Next]_vars
  PROVE  NonceInv'
<1> USE DEF connVars, callVars, workVars
<1>1. CASE Count \/ Record \/ Append
  BY <1>1, NonceStays DEF Count, Record, Append
<1>2. CASE Write
  BY <1>2, NonceStays DEF Write, TypeOK
<1>3. ASSUME NEW t \in Threads, CheckNonce(t) PROVE NonceInv'
  <2> DEFINE s == [share[t] EXCEPT !.at = "checked", !.fresh = TRUE]
             d == [share[t] EXCEPT !.at = "done"]
  <2>1. /\ s.fresh = TRUE /\ s.nonce = share[t].nonce /\ s.at = "checked"
        /\ d.fresh = share[t].fresh /\ d.nonce = share[t].nonce /\ d.at = "done"
    BY DEF TypeOK
  <2>2. CASE share' = [share EXCEPT ![t] = d] /\ submitted' = submitted
    <3> HIDE DEF d
    <3> QED
      BY <2>1, <2>2, NonceStays DEF TypeOK
  <2>3. CASE /\ share' = [share EXCEPT ![t] = s] /\ submitted' = submitted \cup {share[t].nonce}
             /\ share[t].nonce \notin submitted
    <3> HIDE DEF s
    <3>1. share'[t] = s /\ \A u \in Threads : u # t => share'[u] = share[u]
      BY <2>3 DEF TypeOK
    <3>2. \A u \in Threads : u # t /\ share[u].fresh => share[u].nonce # share[t].nonce
      BY <2>3 DEF NonceInv
    <3> QED
      BY <2>1, <2>3, <3>1, <3>2 DEF NonceInv, NoncesSubmittedOnce
  <2> QED
    BY <1>3, <2>2, <2>3 DEF CheckNonce, Ends, Noted
<1>4. ASSUME NEW t \in Threads, Eval(t) \/ CheckPool(t) \/ SubmitCall(t) PROVE NonceInv'
  BY <1>4, NonceStays DEF Eval, CheckPool, SubmitCall, Ends, TypeOK
<1>5. ASSUME NEW t \in Threads, NEW n \in Nonces, NEW p \in Pools, Found(t, n, p) PROVE NonceInv'
  <2>1. /\ ~share[t].fresh /\ submitted' = submitted
        /\ ~share'[t].fresh /\ \A u \in Threads : u # t => share'[u] = share[u]
    BY <1>5 DEF Found, NonceInv, TypeOK
  <2> QED
    BY <2>1 DEF NonceInv, NoncesSubmittedOnce
<1>6. CASE LoginStep
  BY <1>6, NonceStays DEF LoginStep, LoginCall, CallBegins, ClearTable, PostConnect, Dial, ConnectBegins
<1>7. CASE ReconnectStep
  BY <1>7, NonceStays DEF ReconnectStep, ReconnectEnds, OtherReconnects, ReadFails, DialFails,
                          ReconnectBegins
<1>8. CASE Notify \/ LocalWork
  <2>1. \A t \in Threads : share'[t].fresh = FALSE
    BY <1>8 DEF Notify, LocalWork, NewWork, TypeOK
  <2> QED
    BY <2>1 DEF NonceInv, NoncesSubmittedOnce
<1>9. CASE Lose
  BY <1>9, NonceStays DEF Lose
<1>10. ASSUME NEW r \in wire, ReadReply(r) PROVE NonceInv'
  BY <1>10, NonceStays DEF ReadReply, TypeOK
<1>11. CASE UNCHANGED vars
  BY <1>11, NonceStays DEF vars
<1> QED
  BY NextIs, <1>1, <1>2, <1>3, <1>4, <1>5, <1>6, <1>7, <1>8, <1>9, <1>10, <1>11 DEF SubmitStep

\* No two threads submit the same nonce between two new works, although they check it at once.
THEOREM NoncesOnceSubmitted == Spec => []NoncesSubmittedOnce
<1>1. Init => NonceInv
  BY DEF Init, NonceInv, NoncesSubmittedOnce
<1>2. NonceInv => NoncesSubmittedOnce
  BY DEF NonceInv
<1> QED
  BY <1>1, <1>2, InitTypeOK, NextTypeOK, NonceKept, PTL DEF Spec

-----------------------------------------------------------------------------
(* Answers are matched with their calls.                                   *)

\* What was made since the last reset of m_workID.
Now(S) == {x \in S : x.epoch = epoch}
Requests == buffer \cup wire

\* Nothing is of a later epoch, and a lost connection has no requests of this one.
EpochInv ==
  /\ \A x \in table \cup Requests : x.epoch <= epoch
  /\ ~connected => Now(wire) = {}
  /\ socket.state # "open" => wire = {}

\* The numbers of this epoch are behind the one a call gets: it is above them all when it is
\* noted, and the request has it too, unless a reset begins a new epoch meanwhile.
NumberInv ==
  /\ call.at \in {"free", "write"} => \A x \in Now(table \cup Requests) : x.id <= workID
  /\ call.at = "count" => \A x \in Now(table \cup Requests) : x.id <= call.id
  /\ call.at = "record" => \A x \in Now(table \cup Requests) : x.id < workID
  /\ call.at = "append" =>
       /\ \A r \in Now(Requests) : r.id < workID
       /\ \A e \in Now(table) : e.id <= workID /\ (e.id = workID => e.call = call.what)
  /\ \A r \in Now(Requests), e \in Now(table) : r.id = e.id => r.call = e.call

\* After the login began the table has calls of this connection only.
TableInv ==
  /\ net \in {"connect", "dial", "reconnect"} => ~connected
  /\ connected /\ net \in {"subscribe", "authorize", "read"} => \A e \in table : e.epoch = epoch

MatchInv == EpochInv /\ NumberInv /\ TableInv

LEMMA MatchInitially == Init => MatchInv
<1> SUFFICES ASSUME Init PROVE MatchInv
  OBVIOUS
<1>1. table = {} /\ Requests = {} /\ Now(table \cup Requests) = {} /\ Now(table) = {} /\ Now(wire) = {}
      /\ Now(Requests) = {}
  BY DEF Init, Requests, Now
<1>2. wire = {} /\ call.at = "free" /\ connected = FALSE
  BY DEF Init, NoCall
<1> QED
  BY <1>1, <1>2 DEF MatchInv, EpochInv, NumberInv, TableInv

LEMMA MatchGives == TypeOK /\ MatchInv => AnswersMatchCalls
<1> SUFFICES ASSUME TypeOK, MatchInv, net = "read",
                    NEW r \in wire, r.epoch = epoch, NEW e \in Answered(r)
             PROVE  e.call = r.call
  BY DEF AnswersMatchCalls
<1>1. r \in Now(wire) /\ r \in Now(Requests) /\ e \in table /\ e.id = r.id
  BY DEF Now, Requests, Answered
<1>2. connected
  BY <1>1 DEF MatchInv, EpochInv
<1>3. e \in Now(table)
  BY <1>1, <1>2 DEF MatchInv, TableInv, Now
<1> QED
  BY <1>1, <1>3 DEF MatchInv, NumberInv

\* A reset begins an epoch that nothing is of.
LEMMA ResetKeeps ==
  ASSUME TypeOK, MatchInv, epoch' = epoch + 1, connected' = FALSE, UNCHANGED <<table, buffer, wire, socket>>
  PROVE  MatchInv'
<1>1. \A x \in table \cup Requests : x.epoch \in Nat /\ x.epoch <= epoch /\ epoch \in Nat
  BY DEF TypeOK, Entry, MatchInv, EpochInv, Requests
<1>2. \A x \in table \cup Requests : x.epoch <= epoch + 1 /\ x.epoch # epoch + 1
  BY <1>1
<1>3. Requests' = Requests
  BY DEF Requests
<1>4. Now(table \cup Requests)' = {} /\ Now(table)' = {} /\ Now(wire)' = {} /\ Now(Requests)' = {}
  BY <1>2, <1>3 DEF Now, Requests
<1>5. EpochInv'
  BY <1>2, <1>3, <1>4 DEF MatchInv, EpochInv
<1>6. NumberInv'
  BY <1>4 DEF NumberInv
<1>7. TableInv'
  BY DEF TableInv
<1> QED
  BY <1>5, <1>6, <1>7 DEF MatchInv

\* A step that removes requests or entries, or moves requests to the connection, keeps the
\* invariants of the numbers.
LEMMA FewerKeep ==
  ASSUME MatchInv, UNCHANGED <<epoch, workID>>, table' \subseteq table, Requests' \subseteq Requests,
         call' = call \/ (call.at = "write" /\ call'.at = "free")
  PROVE  NumberInv' /\ \A x \in (table \cup Requests)' : x.epoch <= epoch'
<1>1. /\ Now(table \cup Requests)' \subseteq Now(table \cup Requests)
      /\ Now(table)' \subseteq Now(table) /\ Now(Requests)' \subseteq Now(Requests)
  BY DEF Now
<1>2. NumberInv'
  BY <1>1 DEF MatchInv, NumberInv
<1>3. \A x \in (table \cup Requests)' : x.epoch <= epoch'
  BY DEF MatchInv, EpochInv
<1> QED
  BY <1>2, <1>3

\* A step that touches neither the numbers nor the connection.
LEMMA MatchStays ==
  ASSUME MatchInv, UNCHANGED <<epoch, workID, call, table, buffer, wire, connected, socket, net>>
  PROVE  MatchInv'
BY DEF MatchInv, EpochInv, NumberInv, TableInv, Now, Requests

LEMMA CallsMatch ==
  ASSUME TypeOK, TypeOK', CallInv, MatchInv, Count \/ Record \/ Append \/ Write
  PROVE  MatchInv'
<1> USE DEF connVars, callVars, workVars
<1>1. CASE Count
  <2>1. /\ UNCHANGED <<epoch, table, buffer, wire, connected, socket, net>>
        /\ call.at = "count" /\ call'.at = "record" /\ workID' = call.id + 1
    BY <1>1 DEF Count, NextID, TypeOK
  <2>2. UNCHANGED <<Now(table \cup Requests), Now(table), Now(Requests), Now(wire), Requests>>
    BY <2>1 DEF Now, Requests
  <2>3. \A x \in Now(table \cup Requests) : x.id \in Nat
    BY DEF Now, Requests, TypeOK, Entry
  <2>4. call.id \in Nat
    BY DEF TypeOK
  <2>5. \A x \in Now(table \cup Requests) : x.id < workID'
    <3>1. \A x \in Now(table \cup Requests) : x.id <= call.id
      BY <2>1 DEF MatchInv, NumberInv
    <3>2. \A x \in Now(table \cup Requests) : x.id < call.id + 1
      <4> SUFFICES ASSUME NEW x \in Now(table \cup Requests) PROVE x.id < call.id + 1
        OBVIOUS
      <4> DEFINE m == x.id
                 n == call.id
      <4>1. m \in Nat /\ n \in Nat /\ m <= n
        BY <2>3, <2>4, <3>1
      <4> HIDE DEF m, n
      <4>2. m < n + 1
        BY <4>1
      <4> QED
        BY <4>2 DEF m, n
    <3> QED
      BY <2>1, <3>2
  <2>6. NumberInv'
    <3>1. \A x \in Now(table \cup Requests)' : x.id < workID'
      BY <2>2, <2>5
    <3>2. \A r \in Now(Requests)', e \in Now(table)' : r.id = e.id => r.call = e.call
      BY <2>2 DEF MatchInv, NumberInv
    <3>3. call'.at = "record"
      BY <2>1
    <3> QED
      BY <3>1, <3>2, <3>3 DEF NumberInv
  <2>7. EpochInv' /\ TableInv'
    BY <2>1, <2>2 DEF MatchInv, EpochInv, TableInv
  <2> QED
    BY <2>6, <2>7 DEF MatchInv
<1>2. CASE Record
  <2> DEFINE new == [id |-> workID, call |-> call.what, epoch |-> epoch]
  <2>1. /\ UNCHANGED <<epoch, workID, buffer, wire, connected, socket, net>>
        /\ call.at = "record" /\ call'.at = "append" /\ call'.what = call.what
    BY <1>2 DEF Record, TypeOK
  <2>2. \A e \in table' : e = new \/ e \in table
    BY <1>2 DEF Record
  <2>3. new.id = workID /\ new.call = call.what /\ new.epoch = epoch
    OBVIOUS
  <2> HIDE DEF new
  <2>4. Requests' = Requests /\ Now(Requests)' = Now(Requests) /\ Now(wire)' = Now(wire)
    BY <2>1 DEF Now, Requests
  <2>5. \A e \in Now(table)' : e = new \/ e \in Now(table)
    BY <2>1, <2>2 DEF Now
  <2>6. workID \in Nat /\ epoch \in Nat /\ \A x \in table \cup Requests : x.id \in Nat /\ x.epoch \in Nat
    BY DEF TypeOK, Entry, Requests
  <2>7. \A x \in Now(table) \cup Now(Requests) : x.id < workID /\ x.id \in Nat
    BY <2>1, <2>6 DEF MatchInv, NumberInv, Now
  <2>8. NumberInv'
    <3>1. \A r \in Now(Requests)' : r.id < workID'
      BY <2>1, <2>4, <2>7
    <3>2. \A e \in Now(table)' : e.id <= workID' /\ (e.id = workID' => e.call = call'.what)
      BY <2>1, <2>3, <2>5, <2>6, <2>7
    <3>3. \A r \in Now(Requests)', e \in Now(table)' : r.id = e.id => r.call = e.call
      <4> SUFFICES ASSUME NEW r \in Now(Requests), NEW e \in Now(table)', r.id = e.id
                   PROVE  r.call = e.call
        BY <2>4
      <4>1. e # new
        BY <2>3, <2>6, <2>7
      <4> QED
        BY <4>1, <2>5 DEF MatchInv, NumberInv
    <3> QED
      BY <2>1, <3>1, <3>2, <3>3 DEF NumberInv
  <2>9. EpochInv'
    BY <2>1, <2>2, <2>3, <2>4, <2>6 DEF MatchInv, EpochInv
  <2>10. TableInv'
    BY <2>1, <2>2, <2>3 DEF MatchInv, TableInv
  <2> QED
    BY <2>8, <2>9, <2>10 DEF MatchInv
<1>3. CASE Append
  <2> DEFINE new == [id |-> workID, call |-> call.what, epoch |-> epoch]
  <2>1. /\ UNCHANGED <<epoch, workID, table, wire, connected, socket, net>>
        /\ call.at = "append" /\ call'.at = "write"
    BY <1>3 DEF Append, TypeOK
  <2>2. \A r \in Requests' : r = new \/ r \in Requests
    BY <1>3 DEF Append, Requests
  <2>3. new.id = workID /\ new.call = call.what /\ new.epoch = epoch
    OBVIOUS
  <2> HIDE DEF new
  <2>4. Now(table)' = Now(table) /\ Now(wire)' = Now(wire)
    BY <2>1 DEF Now
  <2>5. \A r \in Now(Requests)' : r = new \/ r \in Now(Requests)
    BY <2>1, <2>2 DEF Now
  <2>6. workID \in Nat /\ epoch \in Nat /\ \A x \in table \cup Requests : x.id \in Nat /\ x.epoch \in Nat
    BY DEF TypeOK, Entry, Requests
  <2>7. \A r \in Now(Requests) : r.id < workID /\ r.id \in Nat
    BY <2>1, <2>6 DEF MatchInv, NumberInv, Now
  <2>8. \A e \in Now(table) : e.id <= workID /\ (e.id = workID => e.call = call.what)
    BY <2>1 DEF MatchInv, NumberInv
  <2>9. NumberInv'
    <3>1. \A x \in Now(table \cup Requests)' : x \in Now(table)' \/ x \in Now(Requests)'
      BY DEF Now
    <3>2. \A x \in Now(table \cup Requests)' : x.id <= workID'
      BY <2>1, <2>3, <2>4, <2>5, <2>6, <2>7, <2>8, <3>1
    <3>3. \A r \in Now(Requests)', e \in Now(table)' : r.id = e.id => r.call = e.call
      <4> SUFFICES ASSUME NEW r \in Now(Requests)', NEW e \in Now(table), r.id = e.id
                   PROVE  r.call = e.call
        BY <2>4
      <4>1. CASE r = new
        BY <4>1, <2>3, <2>8
      <4>2. CASE r \in Now(Requests)
        BY <4>2 DEF MatchInv, NumberInv
      <4> QED
        BY <4>1, <4>2, <2>5
    <3> QED
      BY <2>1, <3>2, <3>3 DEF NumberInv
  <2>10. EpochInv'
    BY <2>1, <2>2, <2>3, <2>4, <2>6 DEF MatchInv, EpochInv
  <2>11. TableInv'
    BY <2>1 DEF MatchInv, TableInv
  <2> QED
    BY <2>9, <2>10, <2>11 DEF MatchInv
<1>4. CASE Write
  <2>1. /\ UNCHANGED <<epoch, workID, table, connected>>
        /\ call.at = "write" /\ call'.at = "free"
    BY <1>4 DEF Write, NoCall
  <2>2. Requests' \subseteq Requests
    BY <1>4 DEF Write, WriteBuffer, AfterWrite, Requests
  <2>3. NumberInv' /\ \A x \in (table \cup Requests)' : x.epoch <= epoch'
    BY <2>1, <2>2, FewerKeep
  <2>4. ~connected' => Now(wire)' = {}
    BY <1>4, <2>1 DEF Write, WriteBuffer, MatchInv, EpochInv, Now
  <2>5. socket'.state # "open" => wire' = {}
    <3>1. CASE UNCHANGED <<wire, socket>>
      BY <3>1 DEF MatchInv, EpochInv
    <3>2. CASE UNCHANGED socket /\ wire' = IF socket.state = "open" THEN wire \cup buffer ELSE wire
      BY <3>2 DEF MatchInv, EpochInv
    <3>3. CASE UNCHANGED wire /\ socket.state # "open"
      BY <3>3 DEF MatchInv, EpochInv
    <3> QED
      BY <1>4, <3>1, <3>2, <3>3 DEF Write, WriteBuffer
  <2>6. \/ net' = net
        \/ net' \in {"authorize", "read", "connect"} /\ net \in {"subscribe", "authorize"}
           /\ (net' = "connect" => ~connected)
    <3>1. CASE call.by # Net
      BY <1>4, <3>1 DEF Write
    <3>2. CASE call.by = Net
      <4>1. net \in {"subscribe", "authorize"}
        BY <3>2 DEF CallInv
      <4>2. net' = IF call.what = Subscribe THEN "authorize" ELSE IF connected THEN "read" ELSE "connect"
        BY <1>4, <3>2 DEF Write
      <4> QED
        BY <4>1, <4>2
    <3> QED
      BY <3>1, <3>2
  <2>7. TableInv'
    BY <2>1, <2>6 DEF MatchInv, TableInv
  <2> QED
    BY <2>3, <2>4, <2>5, <2>7 DEF MatchInv, EpochInv
<1> QED
  BY <1>1, <1>2, <1>3, <1>4

LEMMA LoginMatches ==
  ASSUME TypeOK, CallInv, MatchInv, LoginStep
  PROVE  MatchInv'
<1> USE DEF connVars, callVars, workVars
<1>1. CASE LoginCall
  <2>1. /\ UNCHANGED <<epoch, workID, table, buffer, wire, connected, socket, net>>
        /\ call.at = "free" /\ call'.at = "count" /\ call'.id = workID
    BY <1>1 DEF LoginCall, CallBegins
  <2>2. UNCHANGED <<Now(table \cup Requests), Now(table), Now(Requests), Now(wire), Requests>>
    BY <2>1 DEF Now, Requests
  <2> QED
    BY <2>1, <2>2 DEF MatchInv, EpochInv, NumberInv, TableInv
<1>2. CASE ClearTable
  <2>1. /\ UNCHANGED <<epoch, workID, call, buffer, wire, connected, socket>>
        /\ table' = {} /\ net' = "subscribe"
    BY <1>2 DEF ClearTable, IDAfterClear
  <2>2. NumberInv' /\ \A x \in (table \cup Requests)' : x.epoch <= epoch'
    BY <2>1, FewerKeep DEF Requests
  <2>3. EpochInv'
    BY <2>1, <2>2 DEF MatchInv, EpochInv, Now
  <2>4. TableInv'
    BY <2>1 DEF TableInv
  <2> QED
    BY <2>2, <2>3, <2>4 DEF MatchInv
<1>3. CASE PostConnect
  <2>1. UNCHANGED <<epoch, workID, call, table, buffer, wire, socket>>
    BY <1>3 DEF PostConnect
  <2>2. connected' = (connected /\ socket.state # "closed") /\ net' = IF connected' THEN "clear" ELSE "connect"
    BY <1>3 DEF PostConnect
  <2>3. NumberInv' /\ \A x \in (table \cup Requests)' : x.epoch <= epoch'
    BY <2>1, FewerKeep DEF Requests
  <2>4. ~connected' => Now(wire)' = {}
    BY <2>1, <2>2 DEF MatchInv, EpochInv, Now
  <2>5. EpochInv'
    BY <2>1, <2>3, <2>4 DEF MatchInv, EpochInv
  <2>6. TableInv'
    BY <2>2 DEF TableInv
  <2> QED
    BY <2>3, <2>5, <2>6 DEF MatchInv
<1>4. CASE Dial
  <2>1. /\ UNCHANGED <<epoch, workID, call, table, buffer>>
        /\ wire' = {} /\ connected' = TRUE /\ net' = "post" /\ socket'.state = "open"
    BY <1>4 DEF Dial
  <2>2. NumberInv' /\ \A x \in (table \cup Requests)' : x.epoch <= epoch'
    BY <2>1, FewerKeep DEF Requests
  <2>3. EpochInv' /\ TableInv'
    BY <2>1, <2>2 DEF EpochInv, TableInv
  <2> QED
    BY <2>2, <2>3 DEF MatchInv
<1>5. CASE ConnectBegins
  <2>1. connected = FALSE
    BY <1>5 DEF ConnectBegins, MatchInv, TableInv, TypeOK
  <2> QED
    BY <1>5, <2>1, ResetKeeps DEF ConnectBegins
<1> QED
  BY <1>1, <1>2, <1>3, <1>4, <1>5 DEF LoginStep

LEMMA ReconnectMatches ==
  ASSUME TypeOK, CallInv, MatchInv, ReconnectStep
  PROVE  MatchInv'
<1> USE DEF connVars, callVars, workVars
<1>1. CASE OtherReconnects \/ ReadFails \/ DialFails
  BY <1>1, ResetKeeps DEF OtherReconnects, ReadFails, DialFails, ReconnectBegins
<1>2. CASE ReconnectEnds
  <2>1. UNCHANGED <<epoch, workID, call, table, buffer, connected>>
    BY <1>2 DEF ReconnectEnds
  <2>2. \/ UNCHANGED <<socket, wire>>
        \/ wire' = {}
    BY <1>2 DEF ReconnectEnds
  <2>3. NumberInv' /\ \A x \in (table \cup Requests)' : x.epoch <= epoch'
    BY <2>1, <2>2, FewerKeep DEF Requests
  <2>4. EpochInv'
    BY <2>1, <2>2, <2>3 DEF MatchInv, EpochInv, Now
  <2>5. net' = net \/ (net = "reconnect" /\ net' = "connect")
    BY <1>2 DEF ReconnectEnds, CallInv
  <2>6. TableInv'
    BY <2>1, <2>5 DEF MatchInv, TableInv
  <2> QED
    BY <2>3, <2>4, <2>6 DEF MatchInv
<1> QED
  BY <1>1, <1>2 DEF ReconnectStep

LEMMA MatchKept ==
  ASSUME TypeOK, CallInv, MatchInv, [Next]_vars
  PROVE  MatchInv'
<1> USE DEF connVars, callVars, workVars
<1>1. CASE Count \/ Record \/ Append \/ Write
  BY <1>1, NextTypeOK, CallsMatch
<1>2. ASSUME NEW t \in Threads, SubmitStep(t) PROVE MatchInv'
  <2>1. CASE SubmitCall(t)
    <3>1. /\ UNCHANGED <<epoch, workID, table, buffer, wire, connected, socket, net>>
          /\ call.at = "free" /\ call'.at = "count" /\ call'.id = workID
      BY <2>1 DEF SubmitCall, CallBegins
    <3>2. UNCHANGED <<Now(table \cup Requests), Now(table), Now(Requests), Now(wire), Requests>>
      BY <3>1 DEF Now, Requests
    <3> QED
      BY <3>1, <3>2 DEF MatchInv, EpochInv, NumberInv, TableInv
  <2>2. CASE CheckNonce(t) \/ Eval(t) \/ CheckPool(t)
    BY <2>2, MatchStays DEF CheckNonce, Eval, CheckPool
  <2> QED
    BY <1>2, <2>1, <2>2 DEF SubmitStep
<1>3. ASSUME NEW t \in Threads, NEW n \in Nonces, NEW p \in Pools, Found(t, n, p) PROVE MatchInv'
  BY <1>3, MatchStays DEF Found
<1>4. CASE LoginStep
  BY <1>4, LoginMatches
<1>5. CASE ReconnectStep
  BY <1>5, ReconnectMatches
<1>6. CASE Notify \/ LocalWork
  BY <1>6, MatchStays DEF Notify, LocalWork
<1>7. CASE Lose
  <2>1. UNCHANGED <<epoch, workID, call, table, buffer, connected, net>> /\ wire' = {}
    BY <1>7 DEF Lose
  <2>2. NumberInv' /\ \A x \in (table \cup Requests)' : x.epoch <= epoch'
    BY <2>1, FewerKeep DEF Requests
  <2> QED
    BY <2>1, <2>2 DEF MatchInv, EpochInv, TableInv, Now
<1>8. ASSUME NEW r \in wire, ReadReply(r) PROVE MatchInv'
  <2>1. /\ UNCHANGED <<epoch, workID, call, buffer, connected, socket, net>>
        /\ wire' \subseteq wire /\ table' \subseteq table
    BY <1>8 DEF ReadReply, AfterAnswer
  <2>2. NumberInv' /\ \A x \in (table \cup Requests)' : x.epoch <= epoch'
    BY <2>1, FewerKeep DEF Requests
  <2> QED
    BY <2>1, <2>2 DEF MatchInv, EpochInv, TableInv, Now
<1>9. CASE UNCHANGED vars
  BY <1>9, MatchStays DEF vars
<1> QED
  BY NextIs, <1>1, <1>2, <1>3, <1>4, <1>5, <1>6, <1>7, <1>8, <1>9

\* An answer is never taken for the answer to another call of the same epoch, however often any
\* thread resets m_workID without the mutex.
THEOREM AnswersMatch == Spec => []AnswersMatchCalls
BY InitTypeOK, NextTypeOK, CallInitially, CallKept, MatchInitially, MatchKept, MatchGives,
   PTL DEF Spec
=============================================================================
