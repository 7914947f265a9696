----------------------------- MODULE RandomHash -----------------------------
(***************************************************************************)
(* RandomHash2 as one CPU kernel computes it                               *)
(* (MinersLib/Parnian/RandomHash_Cpu.cpp). The hash of a nonce needs the   *)
(* rounds of other nonces, its neighbours, and the code earns from that    *)
(* twice: a neighbour that ends early is a hash found on the way, and the  *)
(* outputs of the last neighbour that does not are kept, so that the next  *)
(* search starts from its nonce with most of the work done. The outputs    *)
(* are strides in one of two banks; a search overwrites the bank of the    *)
(* search before the last.                                                 *)
(*                                                                         *)
(* CalculateRoundOutputs calls itself; frame[r] is its call for round r,   *)
(* and an action is what it does between two calls. The hash functions,    *)
(* the twister and the two transformations are one constant, Digest: what  *)
(* is modelled is which values they get. The array of outputs of a round   *)
(* is kept as the lists it was made of, [before, stride]: before holds     *)
(* those of the parent and of the neighbours, stride the last entry.       *)
(***************************************************************************)
EXTENDS Integers, Sequences

CONSTANTS
  Digest(_, _),   \* Digest(tag, s): the number that a hash function makes of s
  MinN,           \* RH2_MIN_N
  MinJ, MaxJ,     \* RH2_MIN_J, RH2_MAX_J
  MaxHashes,      \* RandomHashResult::MaxHashes
  NoNonce,        \* U32_Max
  Headers,        \* the headers of the work
  Nonces,         \* the nonces that KernelOffsetManager gives, in a row
  MaxSearches     \* bound: searches

MaxN == 4         \* RH2_MAX_N

ASSUME ConstantsAssumption ==
  /\ MinN \in 2 .. MaxN
  /\ MinJ \in Nat /\ MaxJ \in Nat /\ 0 < MinJ /\ MinJ < MaxJ
  /\ Nonces \in Seq(Nat)
  /\ MaxSearches \in Nat

VARIABLES
  header, isNewHeader,     \* m_header, m_isNewHeader
  input, nonce,            \* m_roundInput: its header and its last dword
  bank,                    \* m_stideDataFlipFlop: the bank of this search
  owner,                   \* the search whose strides a bank has
  cache, localCount,       \* m_partiallyComputed...
  clone,                   \* m_partiallyComputedOutputsClone of a bank
  work, slot,              \* m_precalcPart2, and the part m_workBytes points to
  hashes,                  \* out_hashes: the nonces with their hashes
  gid,                     \* how many nonces the kernel took from KernelOffsetManager
  searches,                \* searches so far
  step, level,             \* what the call for which round does next
  frame,                   \* the calls that wait for another one; their nonce is history
  result,                  \* what the last call returned
  redrawn                  \* history: kept outputs were taken for a neighbour

headerVars == <<header, isNewHeader, input>>
bankVars == <<bank, owner, gid, searches>>
keptVars == <<cache, localCount, clone>>
vars == <<headerVars, bankVars, keptVars, nonce, work, slot, hashes, step, level, frame, result,
          redrawn>>

Garbage == 0
NoHeader == 0

-----------------------------------------------------------------------------
(* The hash functions: values in, a value out.                             *)

Rand(seed, i) == Digest(1, <<seed, i>>)

Sha(head, n) == Digest(2, <<head, n>>)

Compress(lists, seed) == Digest(3, <<lists, seed>>)

Algorithm(bytes, algorithm) == Digest(4, <<bytes, algorithm>>)

Expand(bytes, seed, round) == Digest(5, <<bytes, seed, MaxN - round>>)

\* ComputeVeneerRound; the compressed outputs go through the work bytes.
VeneerBytes(outputs) == Compress(<<outputs>>, outputs.stride)
Veneer(outputs) == Digest(6, <<VeneerBytes(outputs)>>)

NumNeighbours(seed) == MinJ + (Rand(seed, 1) % (MaxJ - MinJ))

NeighbourNonce(seed, i) == Rand(seed, i + 1)

\* The stride a round adds, from its work bytes and the numbers after the i-th.
Stride(bytes, seed, i, round) ==
  Expand(Algorithm(bytes, Rand(seed, i + 1)), Rand(seed, i + 2), round)

IsFinal(stride, round) == round = MaxN \/ (round >= MinN /\ stride % MaxN = 0)

\* The end of a round: its algorithm, expanded into a new stride.
Ending(before, bytes, seed, i, round) ==
  LET new == Stride(bytes, seed, i, round)
  IN  [outputs |-> [before |-> before, stride |-> new], final |-> IsFinal(new, round)]

\* The work bytes of a round after the first.
NodeBytes(before, seed) == Compress(before, Rand(seed, NumNeighbours(seed) + 2))

-----------------------------------------------------------------------------
(* What the hash of a nonce is, with nothing kept and nothing shared.      *)

Round1(head, n) == Ending(<<>>, Sha(head, n), Sha(head, n), 0, 1)

\* A round, from the one before it and those of the neighbours.
NextRound(parent, neighbours, round) ==
  IF parent.final THEN parent
  ELSE LET seed == parent.outputs.stride
           before == <<parent.outputs>> \o neighbours
       IN  Ending(before, NodeBytes(before, seed), seed, NumNeighbours(seed) + 2, round)

NeighboursOf(parent) == 1 .. NumNeighbours(parent.outputs.stride)

Round2(head, n) ==
  LET parent == Round1(head, n)
  IN  NextRound(parent, [i \in NeighboursOf(parent) |->
        Round1(head, NeighbourNonce(parent.outputs.stride, i)).outputs], 2)

Round3(head, n) ==
  LET parent == Round2(head, n)
  IN  NextRound(parent, [i \in NeighboursOf(parent) |->
        Round2(head, NeighbourNonce(parent.outputs.stride, i)).outputs], 3)

Round4(head, n) ==
  LET parent == Round3(head, n)
  IN  NextRound(parent, [i \in NeighboursOf(parent) |->
        Round3(head, NeighbourNonce(parent.outputs.stride, i)).outputs], 4)

Reference(head, n, round) ==
  CASE round = 1 -> Round1(head, n)
    [] round = 2 -> Round2(head, n)
    [] round = 3 -> Round3(head, n)
    [] round = 4 -> Round4(head, n)

HashOf(head, n) == Veneer(Reference(head, n, MaxN).outputs)

-----------------------------------------------------------------------------
(* RandomHash_State. A list of outputs is its content and the searches     *)
(* whose strides it points to; when a bank was overwritten it reads junk.  *)

Banks == {0, 1}

List(content, of) == [content |-> content, of |-> of]
NoList == List(<<>>, {})
Junk == [before |-> <<>>, stride |-> Garbage]

Intact(list) == list.of \subseteq {owner[b] : b \in Banks}

Read(list, junk) == IF Intact(list) THEN list.content ELSE junk

EmptyCache == [count |-> 0, round |-> NoNonce, nonce |-> NoNonce]

OtherBank(b) == 1 - b

\* RandomHash_Create
Init ==
  /\ header = NoHeader /\ isNewHeader = TRUE
  /\ input = NoHeader /\ nonce = 0
  /\ bank = 1 /\ owner = [b \in Banks |-> 0]
  /\ cache = EmptyCache /\ localCount = 0
  /\ clone = [b \in Banks |-> NoList]
  /\ work = [i \in 1 .. MaxJ |-> Garbage] /\ slot = 1
  /\ hashes = <<>>
  /\ gid = 1 /\ searches = 0
  /\ step = "idle" /\ level = MaxN
  /\ frame = [r \in 2 .. MaxN |-> [waits |-> "parent", nonce |-> 0, seed |-> 0, before |-> NoList]]
  /\ result = [outputs |-> NoList, final |-> FALSE]
  /\ redrawn = FALSE

-----------------------------------------------------------------------------
(* CalculateRoundOutputs. Step: "enter" a call, "back" from the call it    *)
(* made, "loop" over the neighbours.                                       *)

Returns(outputs, final) ==
  /\ result' = [outputs |-> outputs, final |-> final]
  /\ level' = level + 1
  /\ step' = "back"

CacheHit == cache.count # 0 /\ cache.round = level /\ cache.nonce = nonce

\* The outputs kept by the search before are the outputs of this round.
UseKept ==
  /\ step = "enter" /\ CacheHit
  /\ Returns(clone[OtherBank(bank)], FALSE)
  /\ cache' = EmptyCache
  /\ redrawn' = (redrawn \/ frame[MaxN].waits = "neighbour")
  /\ UNCHANGED <<headerVars, bankVars, localCount, clone, nonce, work, slot, hashes, frame>>

FirstRound ==
  /\ step = "enter" /\ ~CacheHit /\ level = 1
  /\ LET end == Ending(<<>>, work[slot], work[slot], 0, 1)
     IN  Returns(List(end.outputs, {searches}), end.final)
  /\ UNCHANGED <<headerVars, bankVars, keptVars, nonce, work, slot, hashes, frame, redrawn>>

\* The round before comes first; what the first one hashes is prepared here.
Descend ==
  /\ step = "enter" /\ ~CacheHit /\ level > 1
  /\ frame' = [frame EXCEPT ![level] =
                 [waits |-> "parent", nonce |-> nonce, seed |-> 0, before |-> NoList]]
  /\ work' = IF level = 2 THEN [work EXCEPT ![slot] = Sha(input, nonce)] ELSE work
  /\ level' = level - 1
  /\ UNCHANGED <<headerVars, bankVars, keptVars, nonce, slot, hashes, step, result, redrawn>>

BackAt(waits) == step = "back" /\ level <= MaxN /\ frame[level].waits = waits

\* The hash ended in a round before.
EndEarly ==
  /\ BackAt("parent") /\ result.final
  /\ Returns(result.outputs, TRUE)
  /\ UNCHANGED <<headerVars, bankVars, keptVars, nonce, work, slot, hashes, frame, redrawn>>

\* The first round of the neighbours is hashed ahead, into the slots of the work bytes.
Prepare ==
  /\ BackAt("parent") /\ ~result.final
  /\ LET seed == Read(result.outputs, Junk).stride
     IN  /\ frame' = [frame EXCEPT ![level] =
                        [waits |-> "neighbour", nonce |-> @.nonce, seed |-> seed,
                         before |-> List(<<result.outputs.content>>, result.outputs.of)]]
         /\ work' = [i \in 1 .. MaxJ |-> IF i <= NumNeighbours(seed)
                                         THEN Sha(input, NeighbourNonce(seed, i)) ELSE work[i]]
  /\ slot' = 0
  /\ step' = "loop"
  /\ UNCHANGED <<headerVars, bankVars, keptVars, nonce, hashes, level, result, redrawn>>

\* How many neighbours a call has, and the nonce of the one it is at.
Wanted(call) == NumNeighbours(call.seed)
Current(call) == NeighbourNonce(call.seed, Len(call.before.content))

CallNeighbour ==
  /\ step = "loop" /\ Len(frame[level].before.content) <= Wanted(frame[level])
  /\ nonce' = Current(frame[level])
  /\ slot' = slot + 1
  /\ level' = level - 1
  /\ step' = "enter"
  /\ UNCHANGED <<headerVars, bankVars, keptVars, work, hashes, frame, result, redrawn>>

\* A final neighbour has its hash: it is reported, if there is room.
Found ==
  IF Len(hashes) < MaxHashes
  THEN LET outputs == Read(result.outputs, Junk)
       IN  /\ hashes' = Append(hashes, [nonce |-> Current(frame[level]), hash |-> Veneer(outputs)])
           /\ work' = [work EXCEPT ![slot] = VeneerBytes(outputs)]
  ELSE UNCHANGED <<hashes, work>>

\* MUTANT: the outputs are kept for the round of the caller.
Keep_NextRound ==
  IF level > 3
  THEN /\ localCount' = localCount + 1
       /\ cache' = [count |-> cache.count + 1, round |-> level, nonce |-> Current(frame[level])]
       /\ clone' = [clone EXCEPT ![bank] = result.outputs]
  ELSE UNCHANGED keptVars

\* One that is not final is kept for the next search when that saves rounds enough.
Keep ==
  IF level > 3
  THEN /\ localCount' = localCount + 1
       /\ cache' = [count |-> cache.count + 1, round |-> level - 1, nonce |-> Current(frame[level])]
       /\ clone' = [clone EXCEPT ![bank] = result.outputs]
  ELSE UNCHANGED keptVars

TakeNeighbour ==
  /\ BackAt("neighbour")
  /\ IF result.final THEN Found /\ UNCHANGED keptVars ELSE Keep /\ UNCHANGED <<hashes, work>>
  /\ frame' = [frame EXCEPT ![level].before =
                 List(Append(@.content, result.outputs.content), @.of \cup result.outputs.of)]
  /\ step' = "loop"
  /\ UNCHANGED <<headerVars, bankVars, nonce, slot, level, result, redrawn>>

FinishRound ==
  /\ step = "loop" /\ Len(frame[level].before.content) > Wanted(frame[level])
  /\ LET call == frame[level]
         bytes == NodeBytes(Read(call.before, <<>>), call.seed)
         end == Ending(call.before.content, bytes, call.seed, Wanted(call) + 2, level)
     IN  /\ work' = [work EXCEPT ![slot] = bytes]
         /\ Returns(List(end.outputs, call.before.of \cup {searches}), end.final)
  /\ UNCHANGED <<headerVars, bankVars, keptVars, nonce, slot, hashes, frame, redrawn>>

-----------------------------------------------------------------------------
(* The search and the loop of the kernel.                                  *)

\* MUTANT: the kernel goes on with the header it has.
SetHeader_Forgets(head) ==
  header' = head /\ cache' = EmptyCache /\ UNCHANGED <<isNewHeader, input>>

SetHeader(head) ==
  header' = head /\ isNewHeader' = TRUE /\ cache' = EmptyCache /\ UNCHANGED input

NewPackage(head) ==
  /\ step = "idle"
  /\ head # header
  /\ SetHeader(head)
  /\ hashes' = <<>>
  /\ redrawn' = FALSE
  /\ UNCHANGED <<bankVars, localCount, clone, nonce, work, slot, step, level, frame, result>>

\* The search starts from the kept nonce, if the header is the same.
StartNonce(startNonce) ==
  IF ~isNewHeader /\ cache.nonce \notin {0, NoNonce} THEN cache.nonce ELSE startNonce

\* MUTANT: the kernel takes a new nonce at the start of the work only.
NextGid_Once == IF isNewHeader THEN gid + 1 ELSE gid

\* A new nonce is taken when none was kept.
NextGid == IF cache.nonce = NoNonce THEN gid + 1 ELSE gid

\* RandomHash_Search: the other bank is overwritten from its start.
StartSearch ==
  /\ step = "idle" /\ header # NoHeader
  /\ searches < MaxSearches /\ NextGid <= Len(Nonces)
  /\ gid' = NextGid
  /\ searches' = searches + 1
  /\ bank' = OtherBank(bank)
  /\ owner' = [owner EXCEPT ![OtherBank(bank)] = searches + 1]
  /\ input' = IF isNewHeader THEN header ELSE input
  /\ isNewHeader' = FALSE
  /\ nonce' = StartNonce(Nonces[NextGid])
  /\ hashes' = <<[nonce |-> StartNonce(Nonces[NextGid]), hash |-> Garbage]>>
  /\ localCount' = 0
  /\ slot' = 1
  /\ level' = MaxN
  /\ step' = "enter"
  /\ UNCHANGED <<header, cache, clone, work, frame, result, redrawn>>

EndSearch ==
  /\ step = "back" /\ level = MaxN + 1
  /\ LET outputs == Read(result.outputs, Junk)
     IN  /\ hashes' = [hashes EXCEPT ![1].hash = Veneer(outputs)]
         /\ work' = [work EXCEPT ![slot] = VeneerBytes(outputs)]
  /\ IF localCount = 0
     THEN cache' = EmptyCache /\ clone' = [clone EXCEPT ![bank] = NoList]
     ELSE UNCHANGED <<cache, clone>>
  /\ step' = "idle"
  /\ UNCHANGED <<headerVars, bankVars, localCount, nonce, slot, level, frame, result, redrawn>>

CalculateRoundOutputs ==
  \/ UseKept \/ FirstRound \/ Descend \/ EndEarly \/ Prepare
  \/ CallNeighbour \/ TakeNeighbour \/ FinishRound

Next ==
  \/ \E head \in Headers : NewPackage(head)
  \/ StartSearch \/ CalculateRoundOutputs \/ EndSearch

Spec == Init /\ [][Next]_vars

-----------------------------------------------------------------------------
(* Properties. They end at the first neighbour that has the nonce that was *)
(* kept (redrawn): the code goes to its outputs with the list of the other *)
(* bank (RandomHash_Cpu.cpp:680), hashes with what the search before left  *)
(* there, and does not prepare the work bytes, so that the next call may   *)
(* write behind the last slot, into m_roundInput (l.781). Only the next    *)
(* header puts that right.                                                 *)

\* Until kept outputs are taken for a neighbour, every hash a search reports, the one it was asked
\* for and the ones it met, is the hash of its nonce for the header of the kernel, whatever was
\* kept from the search before.
HashesCorrectUnlessRedrawn ==
  ~redrawn => \A i \in DOMAIN hashes :
    step = "idle" \/ i > 1 => hashes[i].hash = HashOf(header, hashes[i].nonce)

\* Until then a neighbour is taken for the kept one only when an earlier neighbour of the same
\* search has the same nonce, or when the search before kept 0 or U32_Max, that no search starts
\* from.
RedrawnOnlyByTwins ==
  [][~redrawn /\ redrawn' =>
       nonce \in {0, NoNonce} \cup
         {NeighbourNonce(frame[MaxN].seed, i) : i \in 1 .. Len(frame[MaxN].before.content) - 1}]_vars

\* Until then what is kept is the round of the kept nonce that the next search needs, unfinished, in
\* strides that search does not overwrite.
KeptOutputsCorrect ==
  ~redrawn /\ step = "idle" /\ cache.count # 0 =>
    LET r == Reference(header, cache.nonce, cache.round)
    IN  ~r.final /\ clone[bank] = List(r.outputs, {owner[bank]})

\* No search is done twice in a row. The one exception is the nonce 0, that is kept but not
\* started from: the search that kept it is done again until the header changes.
SearchesAreNew ==
  [][searches' # searches /\ hashes # <<>> /\ cache.nonce # 0 =>
       hashes'[1].nonce # hashes[1].nonce]_vars
=============================================================================
