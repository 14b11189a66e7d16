--------------------------- MODULE SequenceLemmas ---------------------------
(***************************************************************************)
(* Facts about concatenation that the proofs of the channel of BulkInsert  *)
(* and of get's stream in StreamingClient both rest on.                    *)
(***************************************************************************)
EXTENDS Sequences, SequenceTheorems, TLAPS

(* Appending to the second part of a concatenation appends to the whole.   *)
LEMMA ConcatAppendRight ==
  ASSUME NEW S, NEW s \in Seq(S), NEW t \in Seq(S), NEW e \in S
  PROVE  s \o Append(t, e) = Append(s \o t, e)
<1>1. s \o Append(t, e) = s \o (t \o << e >>)
  BY AppendIsConcat
<1>2. Append(s \o t, e) = (s \o t) \o << e >>
  BY ConcatProperties, AppendIsConcat
<1>3. << e >> \in Seq(S)
  OBVIOUS
<1>. QED
  BY <1>1, <1>2, <1>3, ConcatAssociative

(* Moving the head of the second part to the end of the first part leaves *)
(* the concatenation unchanged.                                            *)
LEMMA ConcatMoveHead ==
  ASSUME NEW S, NEW s \in Seq(S), NEW t \in Seq(S), t # << >>
  PROVE  Append(s, Head(t)) \o Tail(t) = s \o t
<1>1. Head(t) \in S /\ Tail(t) \in Seq(S)
  BY HeadTailProperties
<1>2. Len(t) \in Nat \ {0}
  BY EmptySeq
<1>3. t = << t[1] >> \o Tail(t)
  <2>1. SubSeq(t, 1, Len(t)) = << t[1] >> \o SubSeq(t, 2, Len(t))
    BY <1>2, SubSeqRecursiveFirst
  <2>. QED
    BY <2>1, SubSeqFull, TailIsSubSeq
<1>4. Head(t) = t[1]
  OBVIOUS
<1>5. << Head(t) >> \in Seq(S)
  BY <1>1
<1>. QED
  BY <1>1, <1>3, <1>4, <1>5, AppendIsConcat, ConcatAssociative
=============================================================================
