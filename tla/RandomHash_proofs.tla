-------------------------- MODULE RandomHash_proofs --------------------------
(***************************************************************************)
(* What is proved of RandomHash for any hash functions, headers and        *)
(* nonces: what a search keeps for the next one, the slots of the work     *)
(* bytes, and that every hash is the one of the definition until kept      *)
(* outputs are taken for a neighbour, and when that can be.                *)
(***************************************************************************)
EXTENDS RandomHash, SequenceTheorems, TLAPS

-----------------------------------------------------------------------------
(* The inductive invariant.                                                *)

Rounds == 2 .. MaxN

Numbers == \A tag, s : Digest(tag, s) \in Nat

Entries == [nonce : Nat, hash : Nat]

\* Where the calls are, and what every other part takes for granted.
ControlInv ==
  /\ step \in {"idle", "enter", "back", "loop"}
  /\ level \in 1 .. MaxN + 1
  /\ step = "enter" => level \in 1 .. MaxN
  /\ step = "loop" => level \in Rounds
  /\ step = "back" => level \in 2 .. MaxN + 1
  /\ DOMAIN frame = Rounds
  /\ DOMAIN work = 1 .. MaxJ
  /\ DOMAIN clone = Banks
  /\ DOMAIN owner = Banks
  /\ bank \in Banks
  /\ searches \in Nat
  /\ gid \in Nat \ {0}
  /\ localCount \in Nat
  /\ cache.count \in Nat
  /\ cache.nonce \in Nat \cup {NoNonce}
  /\ hashes \in Seq(Entries)
  /\ step # "idle" => Len(hashes) > 0
  /\ owner[bank] = searches
  /\ ~isNewHeader => input = header
  /\ step # "idle" => ~isNewHeader

\* The calls for rounds r that were made and did not return.
Active(r) == step # "idle" /\ (r > level \/ (r = level /\ step \in {"back", "loop"}))

\* The nonce of the call that call r waits for, and the nonce round r is wanted of.
ChildNonce(r) == IF frame[r].waits = "parent" THEN frame[r].nonce ELSE Current(frame[r])
Asked(r) == IF r = MaxN THEN hashes[1].nonce ELSE ChildNonce(r + 1)

\* The outputs of the parent and of the first k neighbours in round r of nonce n.
Parent(n, r) == Reference(header, n, r - 1)
Seed(n, r) == Parent(n, r).outputs.stride
Before(n, r, k) ==
  [i \in 1 .. k + 1 |-> IF i = 1 THEN Parent(n, r).outputs
                        ELSE Reference(header, NeighbourNonce(Seed(n, r), i - 1), r - 1).outputs]

ParentCall(n) == [waits |-> "parent", nonce |-> n, seed |-> 0, before |-> NoList]
NeighbourCall(n, r, k, of) ==
  [waits |-> "neighbour", nonce |-> n, seed |-> Seed(n, r), before |-> List(Before(n, r, k), of)]

\* A call has the outputs of its nonce so far. Only round 4 may have strides of the search before.
CallInv(r) ==
  \/ frame[r] = ParentCall(Asked(r))
  \/ /\ ~Parent(Asked(r), r).final
     /\ \E k \in 0 .. NumNeighbours(Seed(Asked(r), r)) :
          /\ (step = "loop" /\ r = level) \/ k < NumNeighbours(Seed(Asked(r), r))
          /\ frame[r] = NeighbourCall(Asked(r), r, k, frame[r].before.of)
     /\ Intact(frame[r].before)
     /\ r < MaxN => frame[r].before.of = {searches}

CallsInv == \A r \in Rounds : Active(r) => CallInv(r)

EnterInv == \A r \in 1 .. MaxN : step = "enter" /\ r = level => nonce = Asked(r)

LoopInv == step = "loop" => frame[level].waits = "neighbour"

\* A call returns the round of the nonce it was asked for.
ResultInv ==
  \A r \in 1 .. MaxN : step = "back" /\ r = level - 1 =>
    /\ result.outputs = List(Reference(header, Asked(r), r).outputs, result.outputs.of)
    /\ result.final <=> Reference(header, Asked(r), r).final
    /\ Intact(result.outputs)
    /\ r < MaxN - 1 \/ (r = MaxN - 1 /\ frame[MaxN].waits = "neighbour")
         => result.outputs.of = {searches}

\* The part of the work bytes the next first round reads was hashed for its nonce.
WorkInv ==
  /\ step = "enter" /\ level = 1 => work[slot] = Sha(header, nonce)
  /\ Active(2) /\ frame[2].waits = "neighbour" =>
       /\ \A i \in 1 .. NumNeighbours(frame[2].seed) :
            work[i] = Sha(header, NeighbourNonce(frame[2].seed, i))
       /\ Len(frame[2].before.content) = IF step = "loop" /\ level = 2 THEN slot + 1 ELSE slot

\* The slots suffice: the next call may need one more, unless the slots are prepared first.
SlotInv ==
  /\ step = "enter" => slot \in 1 .. MaxJ
  /\ step = "loop" => slot \in 0 .. MaxJ - 1
  /\ step = "back" =>
       /\ slot \in 0 .. MaxJ
       /\ \/ slot < MaxJ
          \/ level <= MaxN /\ frame[level].waits = "parent" /\ ~result.final

\* What was kept is of this search once something was, and of the search before until then.
Keeper == IF step = "idle" \/ localCount # 0 THEN bank ELSE OtherBank(bank)

KeptInv ==
  /\ cache.count # 0 =>
       LET r == Reference(header, cache.nonce, 3)
       IN  cache.round = 3 /\ ~r.final /\ clone[Keeper] = List(r.outputs, {owner[Keeper]})
  /\ (step = "enter" /\ level = MaxN) \/ (Active(MaxN) /\ frame[MaxN].waits = "parent")
       => localCount = 0

HashInv ==
  \A i \in 1 .. Len(hashes) :
    step = "idle" \/ i > 1 => hashes[i].hash = HashOf(header, hashes[i].nonce)

SearchInv == CallsInv /\ EnterInv /\ LoopInv /\ ResultInv /\ WorkInv /\ SlotInv /\ KeptInv /\ HashInv

IInv == ControlInv /\ (~redrawn => SearchInv)

-----------------------------------------------------------------------------
(* The definition of the hash.                                             *)

\* Each round of the definition comes from the rounds before it.
LEMMA ReferenceStep ==
  ASSUME NEW h, NEW n, NEW r \in Rounds
  PROVE  LET p == Reference(h, n, r - 1)
         IN  Reference(h, n, r) =
               NextRound(p, [i \in NeighboursOf(p) |->
                 Reference(h, NeighbourNonce(p.outputs.stride, i), r - 1).outputs], r)
<1>1. \A m : Reference(h, m, 1) = Round1(h, m)
  BY DEF Reference
<1>2. \A m : Reference(h, m, 2) = Round2(h, m)
  BY DEF Reference
<1>3. \A m : Reference(h, m, 3) = Round3(h, m)
  BY DEF Reference
<1>4. \A m : Reference(h, m, 4) = Round4(h, m)
  BY DEF Reference
<1>5. CASE r = 2
  BY <1>1, <1>2, <1>5 DEF Round2
<1>6. CASE r = 3
  BY <1>2, <1>3, <1>6 DEF Round3
<1>7. CASE r = 4
  BY <1>3, <1>4, <1>7 DEF Round4
<1> QED
  BY <1>5, <1>6, <1>7 DEF Rounds, MaxN

\* The first round is never the last.
LEMMA ReferenceFirst ==
  ASSUME NEW h, NEW n
  PROVE  /\ Reference(h, n, 1) = Ending(<<>>, Sha(h, n), Sha(h, n), 0, 1)
         /\ Reference(h, n, 1).final = FALSE
<1>1. Reference(h, n, 1) = Ending(<<>>, Sha(h, n), Sha(h, n), 0, 1)
  BY DEF Reference, Round1
<1>2. \A x : IsFinal(x, 1) = FALSE
  BY ConstantsAssumption DEF IsFinal, MaxN
<1> QED
  BY <1>1, <1>2 DEF Ending

LEMMA ReferenceFinal ==
  ASSUME NEW h, NEW n, NEW r \in 1 .. MaxN
  PROVE  Reference(h, n, r).final \in BOOLEAN
<1>1. \A b, w, s, i, k : Ending(b, w, s, i, k).final \in BOOLEAN
  BY DEF Ending, IsFinal
<1>2. \A p, q, k : p.final \in BOOLEAN => NextRound(p, q, k).final \in BOOLEAN
  BY <1>1 DEF NextRound
<1>3. \A k \in Rounds : Reference(h, n, k - 1).final \in BOOLEAN => Reference(h, n, k).final \in BOOLEAN
  <2> TAKE k \in Rounds
  <2> DEFINE p == Reference(h, n, k - 1)
             q == [i \in NeighboursOf(p) |->
                     Reference(h, NeighbourNonce(p.outputs.stride, i), k - 1).outputs]
  <2>1. Reference(h, n, k) = NextRound(p, q, k)
    BY ReferenceStep
  <2> HIDE DEF q
  <2> QED
    BY <1>2, <2>1
<1>4. Reference(h, n, 1).final \in BOOLEAN
  BY ReferenceFirst
<1>5. Reference(h, n, 2).final \in BOOLEAN
  BY <1>3, <1>4 DEF Rounds, MaxN
<1>6. Reference(h, n, 3).final \in BOOLEAN
  BY <1>3, <1>5 DEF Rounds, MaxN
<1>7. Reference(h, n, 4).final \in BOOLEAN
  BY <1>3, <1>6 DEF Rounds, MaxN
<1> QED
  BY <1>4, <1>5, <1>6, <1>7 DEF MaxN

\* What is final in a round is so in the next ones.
LEMMA FinalStays ==
  ASSUME NEW h, NEW n, NEW r \in 1 .. MaxN, Reference(h, n, r).final
  PROVE  Reference(h, n, MaxN) = Reference(h, n, r)
<1>1. \A k \in Rounds : Reference(h, n, k - 1).final => Reference(h, n, k) = Reference(h, n, k - 1)
  BY ReferenceStep DEF NextRound
<1>2. CASE r = 4
  BY <1>2 DEF MaxN
<1>3. CASE r = 3
  BY <1>1, <1>3 DEF Rounds, MaxN
<1>4. CASE r = 2
  BY <1>1, <1>3, <1>4 DEF Rounds, MaxN
<1>5. CASE r = 1
  BY <1>1, <1>4, <1>5, ReferenceFirst
<1> QED
  BY <1>2, <1>3, <1>4, <1>5 DEF MaxN

\* The number of neighbours.
LEMMA NumberOfNeighbours ==
  ASSUME Numbers, NEW s
  PROVE  NumNeighbours(s) \in 1 .. MaxJ - 1
<1>1. Rand(s, 1) \in Nat
  BY DEF Numbers, Rand
<1>2. Rand(s, 1) % (MaxJ - MinJ) \in 0 .. MaxJ - MinJ - 1
  BY <1>1, ConstantsAssumption
<1> QED
  BY <1>2, ConstantsAssumption DEF NumNeighbours

\* The lists of a round that is complete are those of its definition.
LEMMA BeforeComplete ==
  ASSUME Numbers, NEW n, NEW r \in Rounds, ~Parent(n, r).final
  PROVE  LET k == NumNeighbours(Seed(n, r))
         IN  Reference(header, n, r) =
               Ending(Before(n, r, k), NodeBytes(Before(n, r, k), Seed(n, r)), Seed(n, r), k + 2, r)
<1> DEFINE p == Parent(n, r)
           k == NumNeighbours(Seed(n, r))
           q == [i \in 1 .. k |-> Reference(header, NeighbourNonce(Seed(n, r), i), r - 1).outputs]
<1>1. k \in Nat
  BY NumberOfNeighbours
<1>2. <<p.outputs>> \o q = Before(n, r, k)
  <2> HIDE DEF p, k
  <2>1. Len(q) = k /\ Len(<<p.outputs>>) = 1
    BY <1>1
  <2> QED
    BY <1>1, <2>1 DEF Before, p
<1>3. Reference(header, n, r) = NextRound(p, q, r)
  BY ReferenceStep DEF Parent, Seed, NeighboursOf
<1> QED
  BY <1>2, <1>3 DEF NextRound, Seed

LEMMA BeforeGrows ==
  ASSUME NEW n, NEW r \in Rounds, NEW k \in Nat
  PROVE  /\ Len(Before(n, r, k)) = k + 1
         /\ Before(n, r, 0) = <<Parent(n, r).outputs>>
         /\ Append(Before(n, r, k), Reference(header, NeighbourNonce(Seed(n, r), k + 1), r - 1).outputs)
              = Before(n, r, k + 1)
BY DEF Before

-----------------------------------------------------------------------------
(* The control.                                                            *)

LEMMA ControlInit == Init => ControlInv
BY ConstantsAssumption DEF Init, ControlInv, Rounds, MaxN, Banks, EmptyCache

LEMMA ControlCalls ==
  ASSUME Numbers, ControlInv, CalculateRoundOutputs
  PROVE  ControlInv'
<1> USE DEF Rounds, MaxN
<1>1. CASE UseKept
  BY <1>1 DEF UseKept, Returns, ControlInv, headerVars, bankVars, EmptyCache
<1>2. CASE FirstRound
  BY <1>2 DEF FirstRound, Returns, ControlInv, headerVars, bankVars, keptVars
<1>3. CASE Descend
  BY <1>3 DEF Descend, ControlInv, headerVars, bankVars, keptVars
<1>4. CASE EndEarly
  BY <1>4 DEF EndEarly, BackAt, Returns, ControlInv, headerVars, bankVars, keptVars
<1>5. CASE Prepare
  BY <1>5 DEF Prepare, BackAt, ControlInv, headerVars, bankVars, keptVars
<1>6. CASE CallNeighbour
  BY <1>6 DEF CallNeighbour, ControlInv, headerVars, bankVars, keptVars
<1>7. CASE TakeNeighbour
  <2>1. \A call : Current(call) \in Nat
    BY DEF Numbers, Current, NeighbourNonce, Rand
  <2>2. \A outputs : Veneer(outputs) \in Nat
    BY DEF Numbers, Veneer
  <2>3. /\ hashes' \in Seq(Entries)
        /\ Len(hashes') >= Len(hashes)
        /\ DOMAIN work' = 1 .. MaxJ
    <3> DEFINE x == [nonce |-> Current(frame[level]), hash |-> Veneer(Read(result.outputs, Junk))]
    <3>1. x \in Entries
      BY <2>1, <2>2 DEF Entries
    <3>2. \/ hashes' = Append(hashes, x)
          \/ hashes' = hashes
      BY <1>7 DEF TakeNeighbour, Found
    <3>3. DOMAIN work' = DOMAIN work
      BY <1>7 DEF TakeNeighbour, Found
    <3> HIDE DEF x
    <3>4. hashes \in Seq(Entries) /\ DOMAIN work = 1 .. MaxJ
      BY DEF ControlInv
    <3>5. Append(hashes, x) \in Seq(Entries) /\ Len(Append(hashes, x)) = Len(hashes) + 1
      BY <3>1, <3>4, AppendProperties
    <3> QED
      BY <3>2, <3>3, <3>4, <3>5, LenProperties
  <2>4. /\ localCount' \in Nat
        /\ cache'.count \in Nat
        /\ cache'.nonce \in Nat \cup {NoNonce}
        /\ DOMAIN clone' = Banks
    BY <1>7, <2>1 DEF TakeNeighbour, Keep, keptVars, ControlInv
  <2> QED
    BY <1>7, <2>3, <2>4 DEF TakeNeighbour, BackAt, ControlInv, headerVars, bankVars
<1>8. CASE FinishRound
  BY <1>8 DEF FinishRound, Returns, ControlInv, headerVars, bankVars, keptVars
<1> QED
  BY <1>1, <1>2, <1>3, <1>4, <1>5, <1>6, <1>7, <1>8 DEF CalculateRoundOutputs

LEMMA ControlNext ==
  ASSUME Numbers, ControlInv, [Next]_vars
  PROVE  ControlInv'
<1> USE DEF Rounds, MaxN
<1>1. ASSUME NEW head \in Headers, NewPackage(head)
      PROVE  ControlInv'
  BY <1>1 DEF NewPackage, SetHeader, ControlInv, EmptyCache, bankVars
<1>2. CASE StartSearch
  <2>1. StartNonce(Nonces[NextGid]) \in Nat
    BY <1>2, ConstantsAssumption DEF StartSearch, NextGid, StartNonce, ControlInv
  <2>2. hashes' \in Seq(Entries) /\ Len(hashes') = 1
    BY <1>2, <2>1 DEF StartSearch, Garbage, Entries
  <2>3. OtherBank(bank) \in Banks /\ gid' \in Nat \ {0}
    BY <1>2 DEF StartSearch, NextGid, ControlInv, OtherBank, Banks
  <2> QED
    BY <1>2, <2>2, <2>3 DEF StartSearch, ControlInv
<1>3. CASE CalculateRoundOutputs
  BY <1>3, ControlCalls
<1>4. CASE EndSearch
  <2>1. \A outputs : Veneer(outputs) \in Nat
    BY DEF Numbers, Veneer
  <2>2. hashes' \in Seq(Entries) /\ Len(hashes') = Len(hashes)
    <3> DEFINE x == [hashes[1] EXCEPT !.hash = Veneer(Read(result.outputs, Junk))]
    <3>1. hashes \in Seq(Entries) /\ 1 \in 1 .. Len(hashes)
      BY <1>4, LenProperties DEF EndSearch, ControlInv
    <3>2. x \in Entries
      <4>1. hashes[1] \in Entries
        BY <3>1, ElementOfSeq
      <4> QED
        BY <2>1, <4>1 DEF Entries
    <3>3. hashes' = [hashes EXCEPT ![1] = x]
      BY <1>4 DEF EndSearch
    <3> HIDE DEF x
    <3> QED
      BY <3>1, <3>2, <3>3, ExceptSeq
  <2> QED
    BY <1>4, <2>2 DEF EndSearch, ControlInv, headerVars, bankVars, EmptyCache
<1>5. CASE UNCHANGED vars
  BY <1>5 DEF vars, headerVars, bankVars, keptVars, ControlInv
<1> QED
  BY <1>1, <1>2, <1>3, <1>4, <1>5 DEF Next

-----------------------------------------------------------------------------
(* What the steps leave alone.                                             *)

\* Calls from round m on that do not change ask for the same nonces.
LEMMA AskedKept ==
  ASSUME NEW m \in Nat, header' = header, hashes'[1].nonce = hashes[1].nonce,
         \A r \in Rounds : r >= m => frame'[r] = frame[r]
  PROVE  \A r \in 1 .. MaxN : r >= m - 1 => Asked(r)' = Asked(r)
BY DEF Asked, ChildNonce, Current, Rounds, MaxN

\* A call that waits, and goes on waiting, keeps what is known of it.
LEMMA CallKept ==
  ASSUME NEW r \in Rounds, frame'[r] = frame[r], Asked(r)' = Asked(r), CallInv(r),
         header' = header, UNCHANGED <<owner, searches>>, ~(step = "loop" /\ r = level)
  PROVE  CallInv(r)'
BY DEF CallInv, ParentCall, NeighbourCall, Before, Seed, Parent, Intact

\* A call with the outputs of the parent and of k neighbours of its nonce is as it should be.
LEMMA CallGoesOn ==
  ASSUME NEW r \in Rounds, NEW n, NEW of, NEW k \in 0 .. NumNeighbours(Seed(n, r)),
         Asked(r)' = n, ~Parent(n, r).final, frame'[r] = NeighbourCall(n, r, k, of),
         (step' = "loop" /\ level' = r) \/ k < NumNeighbours(Seed(n, r)),
         of \subseteq {owner[b] : b \in Banks}, r < MaxN => of = {searches},
         UNCHANGED <<header, owner, searches>>
  PROVE  CallInv(r)'
<1>1. frame'[r].before = List(Before(n, r, k), of)
  BY DEF NeighbourCall
<1>2. frame'[r].before.of = of
  BY <1>1 DEF List
<1>3. frame'[r] = NeighbourCall(n, r, k, frame'[r].before.of)
  BY <1>2
<1>4. Intact(frame[r].before)'
  BY <1>2 DEF Intact
<1> QED
  BY <1>2, <1>3, <1>4 DEF CallInv, NeighbourCall, Parent, Seed, Before

\* What a call waits for tells its form.
LEMMA CallForms ==
  ASSUME NEW r \in Rounds, CallInv(r)
  PROVE  /\ frame[r].waits \in {"parent", "neighbour"}
         /\ frame[r].waits = "parent" => frame[r] = ParentCall(Asked(r))
         /\ frame[r].waits = "neighbour" =>
              /\ ~Parent(Asked(r), r).final
              /\ \E k \in 0 .. NumNeighbours(Seed(Asked(r), r)) :
                   /\ (step = "loop" /\ r = level) \/ k < NumNeighbours(Seed(Asked(r), r))
                   /\ frame[r] = NeighbourCall(Asked(r), r, k, frame[r].before.of)
              /\ Intact(frame[r].before)
              /\ r < MaxN => frame[r].before.of = {searches}
<1>1. \A n : ParentCall(n).waits = "parent"
  BY DEF ParentCall
<1>2. \A n, k, of : NeighbourCall(n, r, k, of).waits = "neighbour"
  BY DEF NeighbourCall
<1>3. CASE frame[r] = ParentCall(Asked(r))
  BY <1>1, <1>3
<1>4. CASE frame[r] # ParentCall(Asked(r))
  BY <1>2, <1>4 DEF CallInv
<1> QED
  BY <1>3, <1>4

LEMMA KeptKept ==
  ASSUME KeptInv, UNCHANGED <<keptVars, bank, owner, header>>, step # "idle", step' # "idle",
         (step' = "enter" /\ level' = MaxN) \/ (Active(MaxN)' /\ frame'[MaxN].waits = "parent")
           => (step = "enter" /\ level = MaxN) \/ (Active(MaxN) /\ frame[MaxN].waits = "parent")
  PROVE  KeptInv'
BY DEF KeptInv, keptVars, Keeper

LEMMA HashKept ==
  ASSUME HashInv, UNCHANGED <<hashes, header>>, step # "idle"
  PROVE  step' # "idle" => HashInv'
BY DEF HashInv

-----------------------------------------------------------------------------
(* The steps of a search.                                                  *)

LEMMA FirstRoundStep ==
  ASSUME Numbers, ControlInv, SearchInv, FirstRound
  PROVE  SearchInv'
<1> USE DEF Rounds, MaxN
<1>1. /\ step = "enter" /\ level = 1 /\ step' = "back" /\ level' = 2
      /\ UNCHANGED <<header, bank, owner, searches, cache, localCount, clone, nonce, work, slot, hashes, frame>>
      /\ result'.outputs = List(Reference(header, nonce, 1).outputs, {searches})
      /\ ~result'.final
  <2>1. work[slot] = Sha(header, nonce)
    BY DEF FirstRound, SearchInv, WorkInv
  <2>2. Ending(<<>>, work[slot], work[slot], 0, 1) = Reference(header, nonce, 1)
    BY <2>1, ReferenceFirst
  <2>3. ~Ending(<<>>, work[slot], work[slot], 0, 1).final
    BY <2>2, ReferenceFirst
  <2> HIDE DEF List
  <2> QED
    BY <2>2, <2>3 DEF FirstRound, Returns, headerVars, bankVars, keptVars
<1>2. \A r \in Rounds : Active(r)' <=> Active(r)
  BY <1>1 DEF Active
<1>3. \A r \in 1 .. MaxN : Asked(r)' = Asked(r)
  BY <1>1, AskedKept
<1>4. CallsInv'
  BY <1>1, <1>2, <1>3, CallKept DEF SearchInv, CallsInv
<1>5. EnterInv' /\ LoopInv'
  BY <1>1 DEF EnterInv, LoopInv
<1>6. ResultInv'
  <2>1. nonce = Asked(1)
    BY <1>1 DEF SearchInv, EnterInv
  <2>2. Intact(result.outputs)'
    BY <1>1 DEF Intact, List, ControlInv, Banks
  <2>3. ~Reference(header, nonce, 1).final
    BY ReferenceFirst
  <2>4. result'.outputs.of = {searches}
    BY <1>1 DEF List
  <2>5. /\ Reference(header, Asked(1), 1)' = Reference(header, nonce, 1)
        /\ Asked(1)' = Asked(1)
    BY <1>1, <1>3, <2>1
  <2> QED
    BY <1>1, <1>3, <2>1, <2>2, <2>3, <2>4 DEF ResultInv
<1>7. WorkInv'
  BY <1>1, <1>2 DEF SearchInv, WorkInv
<1>8. SlotInv'
  <2>1. slot \in 1 .. MaxJ
    BY <1>1 DEF SearchInv, SlotInv
  <2>2. CASE frame[2].waits = "parent"
    BY <1>1, <2>1, <2>2 DEF SlotInv
  <2>3. CASE frame[2].waits # "parent"
    <3>1. Active(2) /\ CallInv(2)
      BY <1>1 DEF Active, SearchInv, CallsInv
    <3>2. PICK k \in 0 .. NumNeighbours(Seed(Asked(2), 2)) :
            /\ k < NumNeighbours(Seed(Asked(2), 2))
            /\ frame[2] = NeighbourCall(Asked(2), 2, k, frame[2].before.of)
      BY <1>1, <2>3, <3>1, CallForms
    <3>3. Len(frame[2].before.content) = k + 1
      BY <3>2, BeforeGrows DEF NeighbourCall, List
    <3>4. slot = k + 1
      BY <1>1, <3>1, <3>2, <3>3 DEF SearchInv, WorkInv, NeighbourCall
    <3> QED
      BY <1>1, <2>1, <3>2, <3>4, NumberOfNeighbours, ConstantsAssumption DEF SlotInv
  <2> QED
    BY <2>2, <2>3
<1>9. KeptInv'
  BY <1>1, <1>2, KeptKept DEF SearchInv, keptVars
<1>10. HashInv'
  BY <1>1, HashKept DEF SearchInv
<1> QED
  BY <1>4, <1>5, <1>6, <1>7, <1>8, <1>9, <1>10 DEF SearchInv

LEMMA UseKeptStep ==
  ASSUME Numbers, ControlInv, SearchInv, UseKept, ~redrawn'
  PROVE  SearchInv'
<1> USE DEF Rounds, MaxN
<1>1. /\ step = "enter" /\ level = 3 /\ step' = "back" /\ level' = 4
      /\ UNCHANGED <<header, bank, owner, searches, localCount, clone, nonce, work, slot, hashes, frame>>
      /\ result'.outputs = clone[OtherBank(bank)] /\ ~result'.final
      /\ cache' = EmptyCache /\ cache.nonce = nonce /\ cache.count # 0
  BY DEF UseKept, CacheHit, Returns, SearchInv, KeptInv, headerVars, bankVars
<1>2. \A r \in Rounds : Active(r)' <=> Active(r)
  BY <1>1 DEF Active
<1>3. \A r \in 1 .. MaxN : Asked(r)' = Asked(r)
  BY <1>1, AskedKept
<1>4. CallsInv'
  BY <1>1, <1>2, <1>3, CallKept DEF SearchInv, CallsInv
<1>5. EnterInv' /\ LoopInv'
  BY <1>1 DEF EnterInv, LoopInv
<1>6. Active(4) /\ frame[4].waits = "parent"
  <2>1. Active(4) /\ CallInv(4)
    BY <1>1 DEF Active, SearchInv, CallsInv
  <2>2. frame[4].waits # "neighbour"
    BY Zenon DEF UseKept
  <2> QED
    BY <2>1, <2>2, CallForms
<1>7. localCount = 0
  BY <1>6 DEF SearchInv, KeptInv
<1>8. ResultInv'
  <2>1. nonce = Asked(3)
    BY <1>1 DEF SearchInv, EnterInv
  <2>2. /\ ~Reference(header, nonce, 3).final
        /\ clone[OtherBank(bank)] = List(Reference(header, nonce, 3).outputs, {owner[OtherBank(bank)]})
    BY <1>1, <1>7 DEF SearchInv, KeptInv, Keeper
  <2>3. Intact(result.outputs)'
    BY <1>1, <2>2 DEF Intact, List, ControlInv, OtherBank, Banks
  <2> QED
    BY <1>1, <1>3, <1>6, <2>1, <2>2, <2>3 DEF ResultInv, List
<1>9. WorkInv'
  BY <1>1 DEF WorkInv, Active
<1>10. SlotInv'
  BY <1>1, <1>6 DEF SearchInv, SlotInv
<1>11. KeptInv'
  BY <1>1, <1>7 DEF KeptInv, EmptyCache
<1>12. HashInv'
  BY <1>1, HashKept DEF SearchInv
<1> QED
  BY <1>4, <1>5, <1>8, <1>9, <1>10, <1>11, <1>12 DEF SearchInv

LEMMA DescendStep ==
  ASSUME Numbers, ControlInv, SearchInv, Descend
  PROVE  SearchInv'
<1> USE DEF Rounds, MaxN
<1>1. /\ step = "enter" /\ level \in Rounds /\ step' = "enter" /\ level' = level - 1
      /\ UNCHANGED <<header, bank, owner, searches, cache, localCount, clone, nonce, slot, hashes>>
      /\ frame'[level] = ParentCall(nonce)
      /\ \A r \in Rounds : r # level => frame'[r] = frame[r]
      /\ level # 2 => work' = work
      /\ level = 2 => work'[slot] = Sha(header, nonce)
  <2>1. step = "enter" => slot \in 1 .. MaxJ
    BY DEF SearchInv, SlotInv
  <2> QED
    BY <2>1 DEF Descend, ParentCall, ControlInv, headerVars, bankVars, keptVars
<1>2. \A r \in Rounds : Active(r)' <=> Active(r) \/ r = level
  BY <1>1 DEF Active
<1>3. \A r \in 1 .. MaxN : r >= level => Asked(r)' = Asked(r)
  BY <1>1, AskedKept
<1>4. nonce = Asked(level)
  BY <1>1 DEF SearchInv, EnterInv
<1>5. CallsInv'
  <2>1. ASSUME NEW r \in Rounds, r = level
        PROVE  CallInv(r)'
    BY <1>1, <1>3, <1>4, <2>1 DEF CallInv
  <2>2. ASSUME NEW r \in Rounds, Active(r)
        PROVE  CallInv(r)'
    <3>1. r > level
      BY <1>1, <2>2 DEF Active
    <3> QED
      BY <1>1, <1>3, <2>2, <3>1, CallKept DEF SearchInv, CallsInv, ControlInv
  <2> QED
    BY <1>2, <2>1, <2>2 DEF CallsInv
<1>6. EnterInv'
  <2>1. ASSUME NEW r \in 1 .. MaxN, r = level - 1
        PROVE  Asked(r)' = nonce
    BY <1>1, <2>1 DEF Asked, ChildNonce, ParentCall
  <2> QED
    BY <1>1, <2>1 DEF EnterInv
<1>7. LoopInv' /\ ResultInv'
  BY <1>1 DEF LoopInv, ResultInv
<1>8. WorkInv'
  BY <1>1 DEF WorkInv, Active, ParentCall
<1>9. SlotInv'
  BY <1>1 DEF SearchInv, SlotInv
<1>10. KeptInv'
  BY <1>1, <1>2, KeptKept DEF SearchInv, keptVars, Active, ControlInv
<1>11. HashInv'
  BY <1>1, HashKept DEF SearchInv
<1> QED
  BY <1>5, <1>6, <1>7, <1>8, <1>9, <1>10, <1>11 DEF SearchInv

LEMMA EndEarlyStep ==
  ASSUME Numbers, ControlInv, SearchInv, EndEarly
  PROVE  SearchInv'
<1> USE DEF Rounds, MaxN
<1>1. /\ step = "back" /\ level \in Rounds /\ step' = "back" /\ level' = level + 1
      /\ UNCHANGED <<header, bank, owner, searches, cache, localCount, clone, nonce, work, slot, hashes, frame>>
      /\ frame[level].waits = "parent" /\ result.final
      /\ result'.outputs = result.outputs /\ result'.final
  BY DEF EndEarly, BackAt, Returns, ControlInv, headerVars, bankVars, keptVars
<1>2. \A r \in Rounds : Active(r)' <=> Active(r) /\ r # level
  BY <1>1 DEF Active
<1>3. \A r \in 1 .. MaxN : Asked(r)' = Asked(r)
  BY <1>1, AskedKept
<1>4. CallsInv'
  BY <1>1, <1>2, <1>3, CallKept DEF SearchInv, CallsInv
<1>5. EnterInv' /\ LoopInv'
  BY <1>1 DEF EnterInv, LoopInv
<1>6. frame[level] = ParentCall(Asked(level))
  BY <1>1, CallForms DEF SearchInv, CallsInv, Active
<1>7. Asked(level - 1) = Asked(level)
  BY <1>1, <1>6 DEF Asked, ChildNonce, ParentCall
<1>8. /\ result.outputs = List(Reference(header, Asked(level), level - 1).outputs, result.outputs.of)
      /\ Reference(header, Asked(level), level - 1).final
      /\ Intact(result.outputs)
      /\ level < MaxN => result.outputs.of = {searches}
  BY <1>1, <1>7 DEF SearchInv, ResultInv
<1>9. Reference(header, Asked(level), level) = Reference(header, Asked(level), level - 1)
  BY <1>1, <1>8, ReferenceStep DEF NextRound
<1>10. level # 2
  <2>1. ~Reference(header, Asked(level), 1).final
    BY ReferenceFirst
  <2> QED
    BY <1>1, <1>8, <2>1
<1>11. ResultInv'
  BY <1>1, <1>3, <1>8, <1>9 DEF ResultInv, Intact
<1>12. WorkInv'
  BY <1>1, <1>10 DEF WorkInv, Active
<1>13. SlotInv'
  BY <1>1 DEF SearchInv, SlotInv
<1>14. KeptInv'
  BY <1>1, <1>2, KeptKept DEF SearchInv, keptVars
<1>15. HashInv'
  BY <1>1, HashKept DEF SearchInv
<1> QED
  BY <1>4, <1>5, <1>11, <1>12, <1>13, <1>14, <1>15 DEF SearchInv

LEMMA PrepareStep ==
  ASSUME Numbers, ControlInv, SearchInv, Prepare
  PROVE  SearchInv'
<1> USE DEF Rounds, MaxN
<1> DEFINE n == Asked(level)
           seed == Read(result.outputs, Junk).stride
<1>1. /\ step = "back" /\ level \in Rounds /\ step' = "loop" /\ level' = level /\ slot' = 0
      /\ UNCHANGED <<header, bank, owner, searches, cache, localCount, clone, hashes>>
      /\ frame[level].waits = "parent" /\ ~result.final
      /\ \A r \in Rounds : r # level => frame'[r] = frame[r]
  BY DEF Prepare, BackAt, ControlInv, headerVars, bankVars, keptVars
<1>2. \A r \in Rounds : Active(r)' <=> Active(r)
  BY <1>1 DEF Active
<1>3. \A r \in 1 .. MaxN : r >= level => Asked(r)' = Asked(r)
  BY <1>1, AskedKept
<1>4. frame[level] = ParentCall(n)
  BY <1>1, CallForms DEF SearchInv, CallsInv, Active
<1>5. Asked(level - 1) = n
  BY <1>1, <1>4 DEF Asked, ChildNonce, ParentCall
<1>6. /\ result.outputs = List(Parent(n, level).outputs, result.outputs.of)
      /\ ~Parent(n, level).final
      /\ Intact(result.outputs)
      /\ level < MaxN => result.outputs.of = {searches}
  <2> HIDE DEF n
  <2> QED
    BY <1>1, <1>5 DEF SearchInv, ResultInv, Parent
<1>7. result.outputs.content = Parent(n, level).outputs
  BY <1>6 DEF List
<1>8. seed = Seed(n, level)
  BY <1>6, <1>7 DEF Read, Seed
<1>9. frame'[level] = NeighbourCall(n, level, 0, result.outputs.of)
  <2>1. frame'[level] = [waits |-> "neighbour", nonce |-> frame[level].nonce, seed |-> seed,
                         before |-> List(<<result.outputs.content>>, result.outputs.of)]
    BY <1>1 DEF Prepare, ControlInv
  <2>2. Before(n, level, 0) = <<result.outputs.content>>
    BY <1>1, <1>7, BeforeGrows
  <2>3. frame[level].nonce = n
    BY <1>4 DEF ParentCall
  <2> HIDE DEF n, seed, List
  <2> QED
    BY <1>8, <2>1, <2>2, <2>3 DEF NeighbourCall
<1>10. NumNeighbours(seed) \in 1 .. MaxJ - 1
  BY NumberOfNeighbours
<1>11. CallsInv'
  <2>1. ASSUME NEW r \in Rounds, r = level
        PROVE  CallInv(r)'
    <3>1. /\ ~Parent(n, r).final /\ 0 \in 0 .. NumNeighbours(Seed(n, r))
          /\ result.outputs.of \subseteq {owner[b] : b \in Banks}
          /\ r < MaxN => result.outputs.of = {searches}
      BY <1>6, <1>8, <1>10, <2>1 DEF Intact
    <3>2. /\ Asked(r)' = n /\ step' = "loop" /\ level' = r
          /\ UNCHANGED <<header, owner, searches>>
          /\ frame'[r] = NeighbourCall(n, r, 0, result.outputs.of)
      BY <1>1, <1>3, <1>9, <2>1
    <3> HIDE DEF n
    <3> QED
      BY <3>1, <3>2, CallGoesOn
  <2>2. ASSUME NEW r \in Rounds, Active(r), r # level
        PROVE  CallInv(r)'
    <3>1. r > level
      BY <1>1, <2>2 DEF Active
    <3> QED
      BY <1>1, <1>3, <2>2, <3>1, CallKept DEF SearchInv, CallsInv, ControlInv
  <2> QED
    BY <1>2, <2>1, <2>2 DEF CallsInv
<1>12. EnterInv' /\ ResultInv'
  BY <1>1 DEF EnterInv, ResultInv
<1>13. LoopInv'
  BY <1>1, <1>9 DEF LoopInv, NeighbourCall
<1>14. WorkInv'
  <2>1. CASE level = 2
    <3>1. /\ frame'[2].seed = seed
          /\ Len(frame'[2].before.content) = 1
      BY <1>1, <1>8, <1>9, <2>1, BeforeGrows DEF NeighbourCall, List
    <3>2. \A i \in 1 .. NumNeighbours(seed) : work'[i] = Sha(header, NeighbourNonce(seed, i))
      <4>1. input = header
        BY <1>1 DEF ControlInv
      <4> QED
        BY <1>10, <4>1, ConstantsAssumption DEF Prepare
    <3> HIDE DEF seed
    <3> QED
      BY <1>1, <2>1, <3>1, <3>2 DEF WorkInv
  <2>2. CASE level # 2
    BY <1>1, <2>2 DEF WorkInv, Active
  <2> QED
    BY <2>1, <2>2
<1>15. SlotInv'
  BY <1>1, ConstantsAssumption DEF SlotInv
<1>16. KeptInv'
  <2>1. level = MaxN => frame'[MaxN].waits # "parent"
    BY <1>9 DEF NeighbourCall
  <2>2. UNCHANGED <<keptVars, bank, owner, header>> /\ KeptInv /\ step' # "idle" /\ step # "idle"
    BY <1>1 DEF SearchInv, keptVars
  <2> QED
    BY <1>1, <1>2, <2>1, <2>2, KeptKept
<1>17. HashInv'
  BY <1>1, HashKept DEF SearchInv
<1> QED
  BY <1>11, <1>12, <1>13, <1>14, <1>15, <1>16, <1>17 DEF SearchInv

LEMMA CallNeighbourStep ==
  ASSUME Numbers, ControlInv, SearchInv, CallNeighbour
  PROVE  SearchInv'
<1> USE DEF Rounds, MaxN
<1> DEFINE n == Asked(level)
           total == NumNeighbours(Seed(n, level))
<1>1. /\ step = "loop" /\ level \in Rounds /\ step' = "enter" /\ level' = level - 1 /\ slot' = slot + 1
      /\ UNCHANGED <<header, bank, owner, searches, cache, localCount, clone, work, hashes, frame>>
      /\ frame[level].waits = "neighbour" /\ nonce' = Current(frame[level])
      /\ Len(frame[level].before.content) <= Wanted(frame[level])
  BY DEF CallNeighbour, ControlInv, SearchInv, LoopInv, headerVars, bankVars, keptVars
<1>2. \A r \in Rounds : Active(r)' <=> Active(r)
  BY <1>1 DEF Active
<1>3. \A r \in 1 .. MaxN : Asked(r)' = Asked(r)
  <2>1. UNCHANGED <<header, hashes, frame>>
    BY <1>1
  <2> QED
    BY <2>1, AskedKept
<1>4. CallInv(level)
  BY <1>1 DEF SearchInv, CallsInv, Active
<1>5. PICK k \in 0 .. total : frame[level] = NeighbourCall(n, level, k, frame[level].before.of)
  BY <1>1, <1>4, CallForms
<1>6. frame[level].seed = Seed(n, level) /\ Len(frame[level].before.content) = k + 1
  <2>1. /\ frame[level].seed = Seed(n, level)
        /\ frame[level].before.content = Before(n, level, k)
    BY <1>5 DEF NeighbourCall, List
  <2> QED
    BY <1>1, <2>1, BeforeGrows
<1>7. total \in 1 .. MaxJ - 1
  BY NumberOfNeighbours
<1>8. k < total
  BY <1>1, <1>6, <1>7 DEF Wanted
<1>9. CallsInv'
  <2>1. ASSUME NEW r \in Rounds, r = level
        PROVE  CallInv(r)'
    <3>1. /\ Asked(r)' = n /\ n = Asked(r)
          /\ UNCHANGED <<header, owner, searches, frame>>
          /\ CallInv(r) /\ frame[r].waits = "neighbour"
          /\ frame[r] = NeighbourCall(n, r, k, frame[r].before.of)
          /\ k \in 0 .. NumNeighbours(Seed(n, r)) /\ k < NumNeighbours(Seed(n, r))
      BY <1>1, <1>3, <1>4, <1>5, <1>8, <2>1
    <3> HIDE DEF n
    <3>2. /\ ~Parent(n, r).final
          /\ frame[r].before.of \subseteq {owner[b] : b \in Banks}
          /\ r < MaxN => frame[r].before.of = {searches}
      BY <3>1, CallForms DEF Intact
    <3>3. frame'[r] = NeighbourCall(n, r, k, frame[r].before.of)
      BY <3>1
    <3> QED
      BY <3>1, <3>2, <3>3, CallGoesOn
  <2>2. ASSUME NEW r \in Rounds, Active(r), r # level
        PROVE  CallInv(r)'
    BY <1>1, <1>3, <2>2, CallKept DEF SearchInv, CallsInv
  <2> QED
    BY <1>2, <2>1, <2>2 DEF CallsInv
<1>10. EnterInv'
  <2>1. ASSUME NEW r \in 1 .. MaxN, r = level - 1
        PROVE  Asked(r) = Current(frame[level])
    BY <1>1, <2>1 DEF Asked, ChildNonce
  <2> QED
    BY <1>1, <1>3, <2>1 DEF EnterInv
<1>11. LoopInv' /\ ResultInv'
  BY <1>1 DEF LoopInv, ResultInv
<1>12. WorkInv'
  <2>1. CASE level = 2
    <3>1. /\ \A i \in 1 .. total : work[i] = Sha(header, NeighbourNonce(frame[2].seed, i))
          /\ k + 1 = slot + 1
      BY <1>1, <1>6, <2>1 DEF SearchInv, WorkInv, Active
    <3>2. nonce' = NeighbourNonce(frame[2].seed, k + 1) /\ slot' = k + 1
      BY <1>1, <1>5, <1>6, <2>1, <3>1 DEF Current, SearchInv, SlotInv
    <3> QED
      BY <1>1, <1>5, <1>6, <1>7, <1>8, <2>1, <3>1, <3>2 DEF WorkInv
  <2>2. CASE level # 2
    BY <1>1, <2>2 DEF WorkInv, Active
  <2> QED
    BY <2>1, <2>2
<1>13. SlotInv'
  BY <1>1, ConstantsAssumption DEF SearchInv, SlotInv
<1>14. KeptInv'
  BY <1>1, <1>2, KeptKept DEF SearchInv, keptVars
<1>15. HashInv'
  BY <1>1, HashKept DEF SearchInv
<1> QED
  BY <1>9, <1>10, <1>11, <1>12, <1>13, <1>14, <1>15 DEF SearchInv

LEMMA TakeNeighbourStep ==
  ASSUME Numbers, ControlInv, SearchInv, TakeNeighbour
  PROVE  SearchInv'
<1> USE DEF Rounds, MaxN
<1> DEFINE n == Asked(level)
           total == NumNeighbours(Seed(n, level))
<1>1. /\ step = "back" /\ level \in Rounds /\ step' = "loop" /\ level' = level
      /\ UNCHANGED <<header, bank, owner, searches, slot>>
      /\ frame[level].waits = "neighbour"
      /\ \A r \in Rounds : r # level => frame'[r] = frame[r]
  BY DEF TakeNeighbour, BackAt, ControlInv, headerVars, bankVars
<1>2. \A r \in Rounds : Active(r)' <=> Active(r)
  BY <1>1 DEF Active
<1>3. PICK k \in 0 .. total : k < total /\ frame[level] = NeighbourCall(n, level, k, frame[level].before.of)
  <2>1. CallInv(level)
    BY <1>1 DEF SearchInv, CallsInv, Active
  <2> QED
    BY <1>1, <2>1, CallForms
<1>4. total \in 1 .. MaxJ - 1
  BY NumberOfNeighbours
<1>5. /\ frame[level].seed = Seed(n, level)
      /\ frame[level].before.content = Before(n, level, k)
      /\ Len(frame[level].before.content) = k + 1
  <2>1. /\ frame[level].seed = Seed(n, level)
        /\ frame[level].before.content = Before(n, level, k)
    BY <1>3 DEF NeighbourCall, List
  <2> QED
    BY <1>1, <2>1, BeforeGrows
<1> DEFINE m == NeighbourNonce(Seed(n, level), k + 1)
<1>6. Current(frame[level]) = m
  BY <1>5 DEF Current
<1>7. /\ result.outputs = List(Reference(header, m, level - 1).outputs, result.outputs.of)
      /\ result.final <=> Reference(header, m, level - 1).final
      /\ Intact(result.outputs)
      /\ result.outputs.of = {searches}
  <2>1. Asked(level - 1) = m
    BY <1>1, <1>6 DEF Asked, ChildNonce
  <2>2. level - 1 < MaxN - 1 \/ (level - 1 = MaxN - 1 /\ frame[MaxN].waits = "neighbour")
    BY <1>1
  <2> HIDE DEF m
  <2> QED
    BY <1>1, <2>1, <2>2 DEF SearchInv, ResultInv
<1>8. /\ result.outputs.content = Reference(header, m, level - 1).outputs
      /\ Read(result.outputs, Junk) = Reference(header, m, level - 1).outputs
  BY <1>7 DEF List, Read
<1>9. /\ Len(hashes) > 0
      /\ \/ UNCHANGED hashes
         \/ result.final /\ hashes' = Append(hashes, [nonce |-> m, hash |-> HashOf(header, m)])
  <2>1. CASE result.final
    <3>1. Veneer(Read(result.outputs, Junk)) = HashOf(header, m)
      BY <1>1, <1>7, <1>8, <2>1, FinalStays DEF HashOf
    <3> QED
      BY <1>1, <1>6, <2>1, <3>1 DEF TakeNeighbour, Found, ControlInv
  <2>2. CASE ~result.final
    BY <1>1, <2>2 DEF TakeNeighbour, ControlInv
  <2> QED
    BY <2>1, <2>2
<1>10. hashes'[1].nonce = hashes[1].nonce /\ HashInv'
  <2> DEFINE x == [nonce |-> m, hash |-> HashOf(header, m)]
  <2>1. hashes \in Seq(Entries) /\ HashInv
    BY DEF ControlInv, SearchInv
  <2>2. x.hash = HashOf(header, x.nonce)
    OBVIOUS
  <2> HIDE DEF m, x
  <2>3. CASE hashes' = Append(hashes, x)
    BY <1>1, <1>9, <2>1, <2>2, <2>3 DEF HashInv
  <2>4. CASE UNCHANGED hashes
    BY <1>1, <2>1, <2>4 DEF HashInv
  <2> QED
    BY <1>9, <2>3, <2>4 DEF x
<1>11. \A r \in 1 .. MaxN : r >= level => Asked(r)' = Asked(r)
  BY <1>1, <1>10, AskedKept
<1> DEFINE of == frame[level].before.of \cup result.outputs.of
<1>12. frame'[level] = NeighbourCall(n, level, k + 1, of)
  <2>1. Append(frame[level].before.content, result.outputs.content) = Before(n, level, k + 1)
    <3>1. Append(Before(n, level, k), Reference(header, m, level - 1).outputs) = Before(n, level, k + 1)
      <4>1. k \in Nat
        BY <1>4
      <4> QED
        BY <1>1, <4>1, BeforeGrows
    <3> HIDE DEF n, m
    <3> QED
      BY <1>5, <1>8, <3>1
  <2>2. frame'[level] = [frame[level] EXCEPT !.before = List(Before(n, level, k + 1), of)]
    BY <1>1, <2>1 DEF TakeNeighbour, ControlInv
  <2> HIDE DEF n, of, List
  <2> QED
    BY <1>3, <2>2 DEF NeighbourCall
<1>13. CallsInv'
  <2>1. ASSUME NEW r \in Rounds, r = level
        PROVE  CallInv(r)'
    <3>1. /\ CallInv(r) /\ frame[r].waits = "neighbour" /\ n = Asked(r)
          /\ k + 1 \in 0 .. NumNeighbours(Seed(n, r))
      BY <1>1, <1>3, <1>4, <2>1 DEF SearchInv, CallsInv, Active
    <3>2. /\ Asked(r)' = n /\ step' = "loop" /\ level' = r
          /\ UNCHANGED <<header, owner, searches>>
          /\ frame'[r] = NeighbourCall(n, r, k + 1, of)
      BY <1>1, <1>11, <1>12, <2>1
    <3>3. /\ ~Parent(n, r).final
          /\ of \subseteq {owner[b] : b \in Banks}
          /\ r < MaxN => of = {searches}
      BY <1>7, <2>1, <3>1, CallForms DEF Intact
    <3> HIDE DEF n, of
    <3> QED
      BY <3>1, <3>2, <3>3, CallGoesOn
  <2>2. ASSUME NEW r \in Rounds, Active(r), r # level
        PROVE  CallInv(r)'
    <3>1. r > level
      BY <1>1, <2>2 DEF Active
    <3> QED
      BY <1>1, <1>11, <2>2, <3>1, CallKept DEF SearchInv, CallsInv, ControlInv
  <2> QED
    BY <1>2, <2>1, <2>2 DEF CallsInv
<1>14. EnterInv' /\ ResultInv'
  BY <1>1 DEF EnterInv, ResultInv
<1>15. LoopInv'
  BY <1>1, <1>12 DEF LoopInv, NeighbourCall
<1>16. WorkInv'
  <2>1. CASE level = 2
    <3>1. ~result.final
      <4>1. ~Reference(header, m, 1).final
        BY ReferenceFirst
      <4> QED
        BY <1>7, <2>1, <4>1
    <3>2. work' = work
      BY <3>1 DEF TakeNeighbour
    <3>3. /\ frame'[2].seed = frame[2].seed
          /\ Len(frame'[2].before.content) = k + 2
      <4>1. Len(Before(n, level, k + 1)) = k + 2
        BY <1>1, <1>3, <1>4, BeforeGrows
      <4>2. /\ frame'[level].seed = Seed(n, level)
            /\ frame'[level].before.content = Before(n, level, k + 1)
        BY <1>12 DEF NeighbourCall, List
      <4> HIDE DEF n
      <4> QED
        BY <1>5, <2>1, <4>1, <4>2
    <3>4. /\ \A i \in 1 .. NumNeighbours(frame[2].seed) : work[i] = Sha(header, NeighbourNonce(frame[2].seed, i))
          /\ k + 1 = slot
      BY <1>1, <1>5, <2>1 DEF SearchInv, WorkInv, Active
    <3> QED
      BY <1>1, <2>1, <3>2, <3>3, <3>4 DEF WorkInv
  <2>2. CASE level # 2
    BY <1>1, <2>2 DEF WorkInv, Active
  <2> QED
    BY <2>1, <2>2
<1>17. SlotInv'
  <2>1. slot \in 0 .. MaxJ /\ slot < MaxJ
    BY <1>1 DEF SearchInv, SlotInv
  <2> QED
    BY <1>1, <2>1, ConstantsAssumption DEF SlotInv
<1>18. KeptInv'
  <2>1. frame'[MaxN].waits = "parent" => frame[MaxN].waits = "parent"
    BY <1>1, <1>12 DEF NeighbourCall
  <2>2. CASE level > 3 /\ ~result.final
    <3>1. level = 4 /\ frame[4].waits = "neighbour"
      BY <1>1, <2>2
    <3>2. /\ cache'.round = 3 /\ cache'.nonce = m
          /\ localCount' = localCount + 1 /\ localCount \in Nat
          /\ clone'[bank] = result.outputs
      BY <1>6, <2>2, <3>1 DEF TakeNeighbour, Keep, ControlInv
    <3>3. Keeper' = bank
      BY <1>1, <3>2 DEF Keeper
    <3>4. ~Reference(header, m, 3).final
      BY <1>7, <2>2, <3>1
    <3>5. result.outputs = List(Reference(header, m, 3).outputs, {owner[bank]})
      BY <1>7, <3>1 DEF ControlInv
    <3> HIDE DEF m
    <3> QED
      BY <1>1, <2>1, <3>1, <3>2, <3>3, <3>4, <3>5 DEF KeptInv
  <2>3. CASE ~(level > 3 /\ ~result.final)
    <3>1. UNCHANGED <<keptVars, bank, owner, header>> /\ KeptInv /\ step' # "idle" /\ step # "idle"
      BY <1>1, <2>3 DEF TakeNeighbour, Keep, SearchInv, keptVars
    <3> QED
      BY <1>1, <1>2, <2>1, <3>1, KeptKept
  <2> QED
    BY <2>2, <2>3
<1> QED
  BY <1>10, <1>13, <1>14, <1>15, <1>16, <1>17, <1>18 DEF SearchInv

LEMMA FinishRoundStep ==
  ASSUME Numbers, ControlInv, SearchInv, FinishRound
  PROVE  SearchInv'
<1> USE DEF Rounds, MaxN
<1> DEFINE n == Asked(level)
           total == NumNeighbours(Seed(n, level))
           call == frame[level]
<1>1. /\ step = "loop" /\ level \in Rounds /\ step' = "back" /\ level' = level + 1
      /\ UNCHANGED <<header, bank, owner, searches, cache, localCount, clone, nonce, slot, hashes, frame>>
      /\ call.waits = "neighbour"
  BY DEF FinishRound, Returns, ControlInv, SearchInv, LoopInv, headerVars, bankVars, keptVars
<1>2. \A r \in Rounds : Active(r)' <=> Active(r) /\ r # level
  BY <1>1 DEF Active
<1>3. \A r \in 1 .. MaxN : Asked(r)' = Asked(r)
  <2>1. UNCHANGED <<header, hashes, frame>>
    BY <1>1
  <2> QED
    BY <2>1, AskedKept
<1>4. CallInv(level)
  BY <1>1 DEF SearchInv, CallsInv, Active
<1>5. PICK k \in 0 .. total : call = NeighbourCall(n, level, k, call.before.of)
  BY <1>1, <1>4, CallForms
<1>6. total \in 1 .. MaxJ - 1
  BY NumberOfNeighbours
<1>7. /\ ~Parent(n, level).final
      /\ Intact(call.before)
      /\ level < MaxN => call.before.of = {searches}
  BY <1>1, <1>4, CallForms
<1>8. call.seed = Seed(n, level) /\ call.before.content = Before(n, level, total)
  <2>1. call.seed = Seed(n, level) /\ call.before.content = Before(n, level, k)
    BY <1>5 DEF NeighbourCall, List
  <2>2. k \in Nat
    BY <1>6
  <2>3. Len(call.before.content) = k + 1
    BY <1>1, <2>1, <2>2, BeforeGrows
  <2>4. Len(call.before.content) > total
    BY <2>1 DEF FinishRound, Wanted
  <2> QED
    BY <1>5, <1>6, <2>1, <2>3, <2>4
<1> DEFINE end == Reference(header, n, level)
<1>9. /\ result'.outputs = List(end.outputs, call.before.of \cup {searches})
      /\ result'.final <=> end.final
  <2>1. end = Ending(call.before.content, NodeBytes(Read(call.before, <<>>), call.seed), call.seed,
                     Wanted(call) + 2, level)
    BY <1>1, <1>7, <1>8, BeforeComplete DEF Read, Wanted
  <2> HIDE DEF end, call, List
  <2> QED
    BY <2>1 DEF FinishRound, Returns, call
<1>10. CallsInv'
  BY <1>1, <1>2, <1>3, CallKept DEF SearchInv, CallsInv
<1>11. EnterInv' /\ LoopInv'
  BY <1>1 DEF EnterInv, LoopInv
<1>12. ResultInv'
  <2>1. result'.outputs.of = call.before.of \cup {searches}
    BY <1>9 DEF List
  <2>2. Intact(result.outputs)'
    BY <1>1, <1>7, <2>1 DEF Intact, ControlInv, Banks
  <2>3. level < MaxN => result'.outputs.of = {searches}
    BY <1>7, <2>1
  <2> HIDE DEF call, n, List
  <2> QED
    BY <1>1, <1>3, <1>9, <2>1, <2>2, <2>3 DEF ResultInv, n
<1>13. WorkInv'
  BY <1>1 DEF WorkInv, Active
<1>14. SlotInv'
  <2>1. slot \in 0 .. MaxJ - 1
    BY <1>1 DEF SearchInv, SlotInv
  <2> QED
    BY <1>1, <2>1, ConstantsAssumption DEF SlotInv
<1>15. KeptInv'
  BY <1>1, <1>2, KeptKept DEF SearchInv, keptVars
<1>16. HashInv'
  BY <1>1, HashKept DEF SearchInv
<1> QED
  BY <1>10, <1>11, <1>12, <1>13, <1>14, <1>15, <1>16 DEF SearchInv

LEMMA StartSearchStep ==
  ASSUME Numbers, ControlInv, SearchInv, StartSearch
  PROVE  SearchInv'
<1> USE DEF Rounds, MaxN
<1>1. /\ step = "idle" /\ step' = "enter" /\ level' = MaxN /\ slot' = 1 /\ localCount' = 0
      /\ bank' = OtherBank(bank) /\ bank \in Banks /\ owner'[bank] = owner[bank]
      /\ UNCHANGED <<header, cache, clone>>
      /\ Len(hashes') = 1 /\ hashes'[1].nonce = nonce'
  BY DEF StartSearch, ControlInv, OtherBank, Banks
<1>2. \A r \in Rounds : ~Active(r)'
  BY <1>1 DEF Active
<1>3. CallsInv' /\ LoopInv' /\ ResultInv' /\ WorkInv'
  BY <1>1, <1>2 DEF CallsInv, LoopInv, ResultInv, WorkInv
<1>4. EnterInv'
  BY <1>1 DEF EnterInv, Asked
<1>5. SlotInv'
  BY <1>1, ConstantsAssumption DEF SlotInv
<1>6. KeptInv'
  <2>1. Keeper' = bank /\ Keeper = bank
    BY <1>1 DEF Keeper, OtherBank, Banks
  <2> QED
    BY <1>1, <2>1 DEF SearchInv, KeptInv
<1>7. HashInv'
  BY <1>1 DEF HashInv
<1> QED
  BY <1>3, <1>4, <1>5, <1>6, <1>7 DEF SearchInv

LEMMA EndSearchStep ==
  ASSUME Numbers, ControlInv, SearchInv, EndSearch
  PROVE  SearchInv'
<1> USE DEF Rounds, MaxN
<1>1. /\ step = "back" /\ level = MaxN + 1 /\ step' = "idle"
      /\ UNCHANGED <<header, bank, owner, localCount>>
  BY DEF EndSearch, headerVars, bankVars
<1>2. CallsInv' /\ EnterInv' /\ LoopInv' /\ ResultInv' /\ WorkInv' /\ SlotInv'
  BY <1>1 DEF CallsInv, EnterInv, LoopInv, ResultInv, WorkInv, SlotInv, Active
<1>3. KeptInv'
  <2>1. Keeper' = bank /\ ~Active(MaxN)' /\ step' # "enter"
    BY <1>1 DEF Keeper, Active
  <2>2. CASE localCount = 0
    BY <1>1, <2>1, <2>2 DEF EndSearch, KeptInv, EmptyCache
  <2>3. CASE localCount # 0
    <3>1. UNCHANGED <<cache, clone>> /\ Keeper = bank
      BY <1>1, <2>3 DEF EndSearch, Keeper
    <3> QED
      BY <1>1, <2>1, <3>1 DEF SearchInv, KeptInv
  <2> QED
    BY <2>2, <2>3
<1>4. HashInv'
  <2> DEFINE hash == HashOf(header, hashes[1].nonce)
  <2>1. Veneer(Read(result.outputs, Junk)) = hash
    <3>1. /\ result.outputs = List(Reference(header, hashes[1].nonce, MaxN).outputs, result.outputs.of)
          /\ Intact(result.outputs)
      BY <1>1 DEF SearchInv, ResultInv, Asked
    <3>2. result.outputs.content = Reference(header, hashes[1].nonce, MaxN).outputs
      BY <3>1 DEF List
    <3> QED
      BY <3>1, <3>2 DEF Read, HashOf
  <2>2. hashes \in Seq(Entries) /\ Len(hashes) > 0
    BY <1>1 DEF ControlInv
  <2>3. hashes' = [hashes EXCEPT ![1].hash = hash]
    BY <2>1 DEF EndSearch
  <2>4. \A i \in 1 .. Len(hashes) : hashes[i] \in Entries
    BY <2>2, ElementOfSeq
  <2>5. /\ Len(hashes') = Len(hashes)
        /\ \A i \in 1 .. Len(hashes) : i # 1 => hashes'[i] = hashes[i]
        /\ hashes'[1].nonce = hashes[1].nonce /\ hashes'[1].hash = hash
    <3> HIDE DEF hash
    <3> QED
      BY <2>2, <2>3, <2>4 DEF Entries
  <2> QED
    BY <1>1, <2>5 DEF SearchInv, HashInv
<1> QED
  BY <1>2, <1>3, <1>4 DEF SearchInv

\* The cache of another header is emptied.
LEMMA NewPackageStep ==
  ASSUME ControlInv, NEW head, NewPackage(head)
  PROVE  SearchInv'
<1>1. /\ step = "idle" /\ step' = "idle" /\ cache'.count = 0 /\ Len(hashes') = 0
  BY DEF NewPackage, SetHeader, EmptyCache
<1> QED
  BY <1>1 DEF SearchInv, CallsInv, EnterInv, LoopInv, ResultInv, WorkInv, SlotInv, KeptInv, HashInv, Active

-----------------------------------------------------------------------------
(* The theorems.                                                           *)

LEMMA SearchStart == Init => SearchInv
BY DEF Init, EmptyCache, SearchInv, CallsInv, EnterInv, LoopInv, ResultInv, WorkInv, SlotInv, KeptInv,
       HashInv, Active

\* Every step keeps the search as it should be, until kept outputs are taken for a neighbour.
LEMMA SearchNext ==
  ASSUME Numbers, ControlInv, SearchInv, [Next]_vars
  PROVE  ~redrawn' => SearchInv'
<1>1. ASSUME NEW head \in Headers, NewPackage(head)
      PROVE  SearchInv'
  BY <1>1, NewPackageStep
<1>2. CASE StartSearch
  BY <1>2, StartSearchStep
<1>3. CASE CalculateRoundOutputs
  BY <1>3, UseKeptStep, FirstRoundStep, DescendStep, EndEarlyStep, PrepareStep, CallNeighbourStep,
     TakeNeighbourStep, FinishRoundStep DEF CalculateRoundOutputs
<1>4. CASE EndSearch
  BY <1>4, EndSearchStep
<1>5. CASE UNCHANGED vars
  <2>1. SearchInv' <=> SearchInv
    BY <1>5 DEF vars, headerVars, bankVars, keptVars, SearchInv, CallsInv, EnterInv, LoopInv, ResultInv,
       WorkInv, SlotInv, KeptInv, HashInv, CallInv, Active, Asked, ChildNonce, Current, Intact, Keeper,
       ParentCall, NeighbourCall, Before, Seed, Parent
  <2> QED
    BY <2>1
<1> QED
  BY <1>1, <1>2, <1>3, <1>4, <1>5 DEF Next

\* Only another header makes the kernel forget that kept outputs were taken for a neighbour.
LEMMA RedrawnStays ==
  ASSUME [Next]_vars, redrawn, ~redrawn'
  PROVE  \E head \in Headers : NewPackage(head)
<1>1. CASE UseKept
  BY <1>1, Zenon DEF UseKept
<1>2. CASE CalculateRoundOutputs
  BY <1>1, <1>2 DEF CalculateRoundOutputs, FirstRound, Descend, EndEarly, Prepare, CallNeighbour,
     TakeNeighbour, FinishRound
<1>3. CASE StartSearch \/ EndSearch \/ UNCHANGED vars
  BY <1>3 DEF StartSearch, EndSearch, vars
<1> QED
  BY <1>2, <1>3 DEF Next

\* The invariant is inductive.
THEOREM Invariance == ASSUME Numbers PROVE Spec => []IInv
<1>1. Init => IInv
  BY ControlInit, SearchStart DEF IInv
<1>2. IInv /\ [Next]_vars => IInv'
  <2> SUFFICES ASSUME IInv, [Next]_vars PROVE IInv'
    OBVIOUS
  <2>1. ControlInv /\ ControlInv'
    BY ControlNext DEF IInv
  <2>2. ASSUME ~redrawn, ~redrawn' PROVE SearchInv'
    BY <2>1, <2>2, SearchNext DEF IInv
  <2>3. ASSUME redrawn, ~redrawn' PROVE SearchInv'
    BY <2>1, <2>3, RedrawnStays, NewPackageStep
  <2> QED
    BY <2>1, <2>2, <2>3 DEF IInv
<1> QED
  BY <1>1, <1>2, PTL DEF Spec

\* Whatever hash functions, headers and nonces: until the code takes kept outputs for a neighbour
\* (RandomHash_Cpu.cpp:680, where the hash comes out wrong), every hash that a search reports, its
\* own and those of the neighbours that ended early, is the hash of its nonce by the definition.
THEOREM HashesAreCorrectUnlessRedrawn ==
  ASSUME Numbers PROVE  Spec => []HashesCorrectUnlessRedrawn
<1>1. IInv => HashesCorrectUnlessRedrawn
  <2>1. ControlInv => DOMAIN hashes = 1 .. Len(hashes)
    BY DEF ControlInv
  <2> QED
    BY <2>1 DEF IInv, SearchInv, HashInv, HashesCorrectUnlessRedrawn
<1> QED
  BY <1>1, Invariance, PTL

\* What a search keeps is the unfinished third round of the kept nonce, in strides of the search
\* that kept it, which the next one does not overwrite (KeptOutputsCorrect).
THEOREM KeptOutputsAreCorrect == ASSUME Numbers PROVE Spec => []KeptOutputsCorrect
<1>1. IInv => KeptOutputsCorrect
  BY DEF IInv, SearchInv, KeptInv, Keeper, KeptOutputsCorrect
<1> QED
  BY <1>1, Invariance, PTL

\* A call reads one of the MaxJ parts that m_precalcPart2 has (RandomHash_Cpu.cpp:781), and a
\* first round the part that was hashed for its nonce.
WorkBytesRight ==
  ~redrawn /\ step = "enter" =>
    slot \in 1 .. MaxJ /\ (level = 1 => work[slot] = Sha(header, nonce))

\* The parts of the work bytes suffice, and each first round finds its own (WorkBytesRight).
THEOREM WorkBytesAreRight == ASSUME Numbers PROVE Spec => []WorkBytesRight
<1>1. IInv => WorkBytesRight
  BY DEF IInv, SearchInv, SlotInv, WorkInv, WorkBytesRight
<1> QED
  BY <1>1, Invariance, PTL

-----------------------------------------------------------------------------
(* When kept outputs are taken for a neighbour.                            *)

\* No search starts from these two nonces.
NeverStarted == {0, NoNonce}

InParent == (step = "enter" /\ level = MaxN) \/ (Active(MaxN) /\ frame[MaxN].waits = "parent")
InNeighbours == Active(MaxN) /\ frame[MaxN].waits = "neighbour"
EarlierOnes ==
  {NeighbourNonce(frame[MaxN].seed, i) : i \in 1 .. Len(frame[MaxN].before.content) - 1}

\* What the search before kept is used up before the neighbours come, unless its nonce is one
\* that no search starts from; from then on a kept nonce is the one of an earlier neighbour.
TwinInv ==
  /\ isNewHeader => cache.count = 0
  /\ cache.count # 0 /\ InParent =>
       \/ cache.nonce \in NeverStarted
       \/ step = "enter" /\ level \in {MaxN - 1, MaxN} /\ nonce = cache.nonce
  /\ cache.count # 0 /\ InNeighbours => cache.nonce \in NeverStarted \cup EarlierOnes

LEMMA TwinInit == Init => TwinInv
BY DEF Init, TwinInv, EmptyCache

LEMMA TwinCalls ==
  ASSUME Numbers, ControlInv, SearchInv, TwinInv, CalculateRoundOutputs
  PROVE  TwinInv'
<1> USE DEF Rounds, MaxN
<1>1. step # "idle" /\ isNewHeader' = isNewHeader /\ ~isNewHeader
  BY DEF CalculateRoundOutputs, UseKept, FirstRound, Descend, EndEarly, Prepare, CallNeighbour,
         TakeNeighbour, FinishRound, BackAt, headerVars, ControlInv
<1>2. CASE UseKept
  BY <1>1, <1>2 DEF UseKept, EmptyCache, TwinInv
<1>3. CASE FirstRound
  <2>1. /\ level = 1 /\ step = "enter" /\ step' = "back" /\ level' = 2
        /\ UNCHANGED <<cache, nonce, frame>>
    BY <1>3 DEF FirstRound, Returns, keptVars
  <2> QED
    BY <1>1, <2>1 DEF TwinInv, InParent, InNeighbours, EarlierOnes, Active
<1>4. CASE Descend
  <2>1. /\ level \in 2 .. 4 /\ step = "enter" /\ step' = "enter" /\ level' = level - 1 /\ ~CacheHit
        /\ UNCHANGED <<cache, nonce>>
        /\ frame' = [frame EXCEPT ![level] =
                       [waits |-> "parent", nonce |-> nonce, seed |-> 0, before |-> NoList]]
    BY <1>4 DEF Descend, keptVars, ControlInv
  <2>2. level = 3 /\ cache.count # 0 => nonce # cache.nonce
    BY <2>1 DEF CacheHit, SearchInv, KeptInv
  <2>3. CASE level = 4
    <3>1. frame'[4].waits = "parent"
      BY <2>1, <2>3 DEF ControlInv
    <3> QED
      BY <1>1, <2>1, <2>3, <3>1 DEF TwinInv, InParent, InNeighbours
  <2>4. CASE level # 4
    <3>1. frame'[4] = frame[4]
      BY <2>1, <2>4
    <3> QED
      BY <1>1, <2>1, <2>2, <2>4, <3>1 DEF TwinInv, InParent, InNeighbours, EarlierOnes, Active
  <2> QED
    BY <2>3, <2>4
<1>5. CASE EndEarly \/ FinishRound
  <2>1. /\ step \in {"back", "loop"} /\ step' = "back" /\ level' = level + 1 /\ level \in 2 .. 4
        /\ UNCHANGED <<cache, nonce, frame>>
    BY <1>5 DEF EndEarly, FinishRound, BackAt, Returns, keptVars, ControlInv
  <2> QED
    BY <1>1, <2>1 DEF TwinInv, InParent, InNeighbours, EarlierOnes, Active
<1>6. CASE Prepare
  <2>1. /\ step = "back" /\ step' = "loop" /\ level' = level /\ level \in 2 .. 4
        /\ UNCHANGED <<cache, nonce>> /\ frame[level].waits = "parent"
    BY <1>6 DEF Prepare, BackAt, keptVars, ControlInv
  <2>2. frame'[level].waits = "neighbour" /\ (level # 4 => frame'[4] = frame[4])
    BY <1>6, <2>1 DEF Prepare, ControlInv
  <2>3. level = 4 => InParent
    BY <2>1 DEF InParent, Active
  <2> QED
    BY <1>1, <2>1, <2>2, <2>3 DEF TwinInv, InParent, InNeighbours, EarlierOnes, Active
<1>7. CASE CallNeighbour
  <2>1. /\ step = "loop" /\ step' = "enter" /\ level' = level - 1 /\ level \in 2 .. 4
        /\ UNCHANGED <<cache, frame>>
    BY <1>7 DEF CallNeighbour, keptVars, ControlInv
  <2>2. frame[level].waits = "neighbour"
    BY <2>1 DEF SearchInv, LoopInv
  <2> QED
    BY <1>1, <2>1, <2>2 DEF TwinInv, InParent, InNeighbours, EarlierOnes, Active
<1>8. CASE TakeNeighbour
  <2>1. /\ step = "back" /\ step' = "loop" /\ level' = level /\ level \in 2 .. 4
        /\ nonce' = nonce /\ frame[level].waits = "neighbour"
        /\ frame' = [frame EXCEPT ![level].before =
                       List(Append(@.content, result.outputs.content), @.of \cup result.outputs.of)]
    BY <1>8 DEF TakeNeighbour, BackAt, ControlInv
  <2>2. CASE level # 4
    <3>1. cache' = cache
      BY <1>8, <2>1, <2>2 DEF TakeNeighbour, Keep, keptVars
    <3>2. frame'[4] = frame[4]
      BY <2>1, <2>2
    <3> QED
      BY <1>1, <2>1, <2>2, <3>1, <3>2 DEF TwinInv, InParent, InNeighbours, EarlierOnes, Active
  <2>3. CASE level = 4
    <3> DEFINE n == Len(frame[4].before.content)
    <3>1. PICK k \in Nat : frame[4].before = List(Before(Asked(4), 4, k), frame[4].before.of)
      <4>1. Active(4) /\ CallInv(4)
        BY <2>1, <2>3 DEF Active, SearchInv, CallsInv
      <4>2. PICK k \in 0 .. NumNeighbours(Seed(Asked(4), 4)) :
              frame[4] = NeighbourCall(Asked(4), 4, k, frame[4].before.of)
        BY <2>1, <2>3, <4>1, CallForms
      <4>3. frame[4].before = List(Before(Asked(4), 4, k), frame[4].before.of)
        BY <4>2 DEF NeighbourCall
      <4>4. NumNeighbours(Seed(Asked(4), 4)) \in Nat
        BY NumberOfNeighbours, ConstantsAssumption
      <4> QED
        BY <4>3, <4>4
    <3>2. n \in Nat \ {0} /\ \A x : Len(Append(frame[4].before.content, x)) = n + 1
      BY <3>1 DEF List, Before
    <3>3. frame'[4].seed = frame[4].seed /\ frame'[4].waits = "neighbour"
      BY <2>1, <2>3 DEF ControlInv
    <3>4. Len(frame'[4].before.content) = n + 1
      BY <2>1, <2>3, <3>2 DEF ControlInv, List
    <3>5. EarlierOnes' = EarlierOnes \cup {NeighbourNonce(frame[4].seed, n)}
      <4> HIDE DEF n
      <4>1. 1 .. (n + 1) - 1 = (1 .. n - 1) \cup {n}
        BY <3>2
      <4>2. EarlierOnes' = {NeighbourNonce(frame[4].seed, i) : i \in 1 .. (n + 1) - 1}
        BY <3>3, <3>4 DEF EarlierOnes
      <4>3. EarlierOnes = {NeighbourNonce(frame[4].seed, i) : i \in 1 .. n - 1}
        BY DEF EarlierOnes, n
      <4> QED
        BY <4>1, <4>2, <4>3
    <3>6. cache' = cache \/ cache'.nonce = NeighbourNonce(frame[4].seed, n)
      BY <1>8, <2>3 DEF TakeNeighbour, Keep, keptVars, Current
    <3>7. InNeighbours
      BY <2>1, <2>3 DEF InNeighbours, Active
    <3>8. cache'.count # 0 => cache'.nonce \in NeverStarted' \cup EarlierOnes'
      BY <3>5, <3>6, <3>7 DEF TwinInv, NeverStarted
    <3> QED
      BY <1>1, <2>1, <2>3, <3>3, <3>8 DEF TwinInv, InParent, InNeighbours
  <2> QED
    BY <2>2, <2>3
<1> QED
  BY <1>2, <1>3, <1>4, <1>5, <1>6, <1>7, <1>8 DEF CalculateRoundOutputs

LEMMA TwinNext ==
  ASSUME Numbers, ControlInv, SearchInv, TwinInv, [Next]_vars
  PROVE  TwinInv'
<1> USE DEF MaxN
<1>1. ASSUME NEW head \in Headers, NewPackage(head)
      PROVE  TwinInv'
  BY <1>1 DEF NewPackage, SetHeader, EmptyCache, TwinInv
<1>2. CASE StartSearch
  <2>1. /\ step' = "enter" /\ level' = 4 /\ cache' = cache /\ ~isNewHeader'
        /\ nonce' = StartNonce(Nonces[NextGid])
    BY <1>2 DEF StartSearch
  <2>2. cache.count # 0 /\ cache.nonce \notin NeverStarted => nonce' = cache.nonce
    BY <2>1 DEF StartNonce, NeverStarted, TwinInv
  <2>3. ~InNeighbours'
    BY <2>1 DEF InNeighbours, Active
  <2> QED
    BY <2>1, <2>2, <2>3 DEF TwinInv, NeverStarted
<1>3. CASE EndSearch
  <2>1. step' = "idle" /\ isNewHeader' = isNewHeader /\ ~isNewHeader
    BY <1>3 DEF EndSearch, headerVars, ControlInv
  <2> QED
    BY <2>1 DEF TwinInv, InParent, InNeighbours, Active
<1>4. CASE UNCHANGED vars
  BY <1>4 DEF vars, headerVars, bankVars, keptVars, TwinInv, InParent, InNeighbours, EarlierOnes,
              Active, NeverStarted
<1> QED
  BY <1>1, <1>2, <1>3, <1>4, TwinCalls DEF Next

LEMMA TwinTaken ==
  ASSUME ControlInv, SearchInv, TwinInv, [Next]_vars, ~redrawn, redrawn'
  PROVE  nonce \in NeverStarted \cup EarlierOnes
<1> USE DEF MaxN
<1>1. UseKept
  BY DEF Next, NewPackage, StartSearch, EndSearch, CalculateRoundOutputs, FirstRound, Descend,
         EndEarly, Prepare, CallNeighbour, TakeNeighbour, FinishRound, vars
<1>2. step = "enter" /\ frame[4].waits = "neighbour" /\ CacheHit
  BY <1>1 DEF UseKept
<1>3. level = 3 /\ cache.count # 0 /\ cache.nonce = nonce
  BY <1>2 DEF CacheHit, SearchInv, KeptInv
<1>4. InNeighbours
  BY <1>2, <1>3 DEF InNeighbours, Active
<1> QED
  BY <1>3, <1>4 DEF TwinInv

\* Until then kept outputs are taken for a neighbour only when an earlier neighbour of the same
\* search has the same nonce, or the nonce is 0 or U32_Max: what a search starts from is used up
\* before its neighbours come, and a new header empties the cache (RandomHash_SetHeader).
THEOREM OnlyTwinsAreRedrawn == ASSUME Numbers PROVE Spec => RedrawnOnlyByTwins
<1> DEFINE Inv == ~redrawn => TwinInv
<1>1. Init => Inv
  BY TwinInit
<1>2. IInv /\ Inv /\ [Next]_vars => Inv'
  <2> SUFFICES ASSUME IInv, Inv, [Next]_vars, ~redrawn' PROVE TwinInv'
    OBVIOUS
  <2>1. CASE ~redrawn
    BY <2>1, TwinNext DEF IInv
  <2>2. CASE redrawn
    <3>1. PICK head \in Headers : NewPackage(head)
      BY <2>2, RedrawnStays
    <3> QED
      BY <3>1 DEF NewPackage, SetHeader, EmptyCache, TwinInv
  <2> QED
    BY <2>1, <2>2
<1>3. IInv /\ Inv /\ [Next]_vars =>
        (~redrawn /\ redrawn' =>
           nonce \in {0, NoNonce} \cup
             {NeighbourNonce(frame[MaxN].seed, i) : i \in 1 .. Len(frame[MaxN].before.content) - 1})
  BY TwinTaken DEF IInv, NeverStarted, EarlierOnes
<1> HIDE DEF Inv
<1> QED
  BY <1>1, <1>2, <1>3, Invariance, PTL DEF Spec, RedrawnOnlyByTwins

=============================================================================
