---------------------------- MODULE MCRandomHash ----------------------------
(* Instances of RandomHash for TLC. *)
EXTENDS RandomHash, SequencesExt

Prime == 40009

\* The array of strides that lists of outputs stand for.
RECURSIVE Strides(_)
Strides(lists) ==
  FlattenSeq([i \in DOMAIN lists |-> Append(Strides(lists[i].before), lists[i].stride)])

\* A hash of the sequence by halves: its values look random to the tests on them.
RECURSIVE Halves(_, _, _)
Halves(s, first, last) ==
  IF first = last THEN s[first]
  ELSE LET middle == (first + last) \div 2
       IN  (20011 * Halves(s, first, middle) + 7919 * Halves(s, middle + 1, last) + 4110) % Prime

NumberOf(tag, s) == (20011 * Halves(s, 1, Len(s)) + 1009 * tag + Len(s)) % Prime

\* Two nonces that searches keep are swapped with 0 and with U32_Max.
MCDigest(tag, s) ==
  LET h == NumberOf(tag, IF tag = 3 THEN Append(Strides(s[1]), s[2]) ELSE s)
  IN  CASE h = 31696 -> 0       [] h = 0 -> 31696
        [] h = 9257 -> NoNonce  [] h = NoNonce -> 9257
        [] OTHER -> h

MCNonces == [i \in 1 .. 40 |-> 16 * i + 3]
=============================================================================
