-------------------------- MODULE BulkInsertProofs --------------------------
(***************************************************************************)
(* Proofs about the bulk-insert pipeline of BulkInsert, for every number  *)
(* of items and every channel capacity.                                    *)
(***************************************************************************)
EXTENDS BulkInsert, SequenceLemmas, TLAPS

(* The items form a sequence of length NumItems.                           *)
LEMMA ItemsLemma == Items \in Seq(1..NumItems) /\ Len(Items) = NumItems
  BY ItemsAssumption DEF Items

(* Sending the next item extends the sent prefix of the items by it.      *)
LEMMA PrefixAppend ==
  ASSUME NEW k \in 0..(NumItems - 1)
  PROVE  Append(SubSeq(Items, 1, k), Items[k + 1]) = SubSeq(Items, 1, k + 1)
<1>1. Items \in Seq(1..NumItems) /\ Len(Items) = NumItems
  BY ItemsLemma
<1>2. SubSeq(Items, 1, k + 1) = SubSeq(Items, 1, k) \o << Items[k + 1] >>
  BY <1>1, ItemsAssumption, SubSeqRecursiveSecond
<1>3. SubSeq(Items, 1, k) \in Seq(1..NumItems) /\ Items[k + 1] \in 1..NumItems
  BY <1>1, ItemsAssumption, SubSeqProperties, ElementOfSeq
<1>. QED
  BY <1>2, <1>3, AppendIsConcat

-----------------------------------------------------------------------------
(* Type correctness.                                                       *)
LEMMA InitTypeOK == Init => TypeOK
<1>1. Init => rxOpen \in BOOLEAN
  BY Zenon DEF Init
<1>. QED
  BY <1>1, ItemsAssumption, CapacityAssumption, EmptySeq DEF Init, TypeOK

LEMMA NextTypeOK == TypeOK /\ [Next]_vars => TypeOK'
<1> SUFFICES ASSUME TypeOK, [Next]_vars PROVE TypeOK'
  OBVIOUS
<1>. USE DEF TypeOK, producerVars, foreVars
(* Every step leaves the receiver flag Boolean; Zenon handles the flag.   *)
<1>0. rxOpen' \in BOOLEAN
  BY Zenon DEF Next, Producer, Server, Foreground, ProducerSend, ProducerFail,
               ProducerEnd, ServerRecv, ServerAnswer, ForegroundAnswer,
               ForegroundCheck, Cancel, vars
<1>1. CASE ProducerSend
  <2>1. Items[sent + 1] \in 1..NumItems
    BY <1>1, ItemsLemma, ElementOfSeq DEF ProducerSend
  <2>2. chan' \in Seq(1..NumItems) /\ Len(chan') = Len(chan) + 1
    BY <1>1, <2>1, AppendProperties DEF ProducerSend
  <2>3. sent' \in 0..NumItems
    BY <1>1, ItemsAssumption DEF ProducerSend
  <2>4. Len(chan') <= Capacity
    BY <1>1, <2>2, CapacityAssumption, LenProperties DEF ProducerSend
  <2>5. UNCHANGED <<ppc, last_err, delivered, srv, fpc, result>>
    BY <1>1 DEF ProducerSend
  <2>. QED
    BY <1>0, <2>2, <2>3, <2>4, <2>5
<1>2. CASE ProducerFail \/ ProducerEnd
  BY <1>0, <1>2 DEF ProducerFail, ProducerEnd
<1>3. CASE ServerRecv
  <2>1. chan # << >> /\ Head(chan) \in 1..NumItems /\ Tail(chan) \in Seq(1..NumItems)
    BY <1>3, HeadTailProperties DEF ServerRecv
  <2>2. Len(Tail(chan)) <= Len(chan)
    BY <2>1, EmptySeq, TailIsSubSeq, SubSeqProperties
  <2>3. delivered' \in Seq(1..NumItems)
    BY <1>3, <2>1, AppendProperties DEF ServerRecv
  <2>4. Len(chan') <= Capacity
    <3>1. Len(Tail(chan)) \in Nat /\ Len(chan) \in Nat /\ Len(chan) <= Capacity
      BY <2>1, LenProperties
    <3>2. chan' = Tail(chan)
      BY <1>3 DEF ServerRecv
    <3>. QED
      BY <2>2, <3>1, <3>2, CapacityAssumption
  <2>5. UNCHANGED <<ppc, sent, last_err, srv, fpc, result>>
    BY <1>3 DEF ServerRecv
  <2>6. chan' \in Seq(1..NumItems)
    BY <1>3, <2>1 DEF ServerRecv
  <2>. QED
    BY Zenon, <1>0, <2>3, <2>4, <2>5, <2>6
<1>4. CASE ServerAnswer
  <2>1. rxOpen' \in BOOLEAN
    BY <1>4, Zenon DEF ServerAnswer
  <2>. QED
    BY <1>4, <2>1 DEF ServerAnswer
<1>5. CASE ForegroundAnswer \/ ForegroundCheck
  BY <1>0, <1>5 DEF ForegroundAnswer, ForegroundCheck
<1>6. CASE Cancel
  <2>1. rxOpen' \in BOOLEAN
    BY <1>6, Zenon DEF Cancel
  <2>. QED
    BY <1>6, <2>1 DEF Cancel
<1>7. CASE UNCHANGED vars
  BY <1>7 DEF vars
<1>. QED
  BY <1>1, <1>2, <1>3, <1>4, <1>5, <1>6, <1>7 DEF Next, Producer, Server, Foreground

(* The pipeline's state always has the types TypeOK gives it; in          *)
(* particular the channel never holds more than Capacity items.           *)
THEOREM TypeCorrect == Spec => []TypeOK
BY InitTypeOK, NextTypeOK, PTL DEF Spec

-----------------------------------------------------------------------------
(* The items the server has received, followed by those still queued,     *)
(* are the items the producer has sent, in the order of the Vec.  With     *)
(* TypeOK this is inductive: a send appends the next item of the Vec both *)
(* to the channel and to the sent prefix, and a receive moves the          *)
(* channel's head to the end of what the server has taken; no other step  *)
(* touches the three.  Completeness rests on it.                           *)
StreamFaithful == delivered \o chan = SubSeq(Items, 1, sent)

IInv == TypeOK /\ StreamFaithful

LEMMA InitIInv == Init => IInv
<1> SUFFICES ASSUME Init PROVE IInv
  OBVIOUS
<1>1. TypeOK
  BY InitTypeOK
<1>2. SubSeq(Items, 1, 0) = << >>
  BY ItemsLemma, ItemsAssumption, SubSeqEmpty
<1>. QED
  BY <1>1, <1>2, ConcatEmptySeq DEF Init, IInv, StreamFaithful

LEMMA NextIInv == IInv /\ [Next]_vars => IInv'
<1> SUFFICES ASSUME TypeOK, StreamFaithful, [Next]_vars
             PROVE  TypeOK' /\ StreamFaithful'
  BY DEF IInv
<1>1. TypeOK'
  BY NextTypeOK
<1>2. CASE ProducerSend
  <2>1. sent \in 0..(NumItems - 1) /\ Items[sent + 1] \in 1..NumItems
    BY <1>2, ItemsLemma, ElementOfSeq DEF ProducerSend, TypeOK
  <2>2. delivered \o chan' = Append(delivered \o chan, Items[sent + 1])
    BY <1>2, <2>1, ConcatAppendRight DEF ProducerSend, TypeOK
  <2>3. Append(SubSeq(Items, 1, sent), Items[sent + 1]) = SubSeq(Items, 1, sent + 1)
    BY <2>1, PrefixAppend
  <2>. QED
    BY <1>1, <1>2, <2>2, <2>3 DEF ProducerSend, StreamFaithful
<1>3. CASE ServerRecv
  <2>1. Append(delivered, Head(chan)) \o Tail(chan) = delivered \o chan
    BY <1>3, ConcatMoveHead DEF ServerRecv, TypeOK
  <2>. QED
    BY <1>1, <1>3, <2>1 DEF ServerRecv, StreamFaithful, producerVars
<1>4. CASE \/ ProducerFail \/ ProducerEnd \/ ServerAnswer
           \/ ForegroundAnswer \/ ForegroundCheck \/ Cancel \/ UNCHANGED vars
  <2>1. UNCHANGED <<sent, chan, delivered>>
    BY <1>4 DEF ProducerFail, ProducerEnd, ServerAnswer, ForegroundAnswer,
                ForegroundCheck, Cancel, vars, producerVars
  <2>. QED
    BY <1>1, <2>1 DEF StreamFaithful
<1>. QED
  BY <1>2, <1>3, <1>4 DEF Next, Producer, Server, Foreground

-----------------------------------------------------------------------------
(* Completeness, for a server that answers Ok only after the stream has    *)
(* ended.  It needs what the answer implies about the pipeline: once the   *)
(* server has answered, the receiver is gone; a producer that ended while  *)
(* the receiver was alive ended after the last item, not on a failed send; *)
(* an Ok answer therefore finds every item sent and the channel drained;   *)
(* and the foreground returns Ok only after an Ok answer.                  *)
AnswerInv ==
  /\ srv # "none" => ~rxOpen
  /\ (ppc = "done" /\ rxOpen) => sent = NumItems
  /\ srv = "ok" => sent = NumItems /\ chan = << >>
  /\ fpc = "check" => srv = "ok"
  /\ (fpc = "done" /\ result = "ok") => srv = "ok"

CInv == IInv /\ AnswerInv

LEMMA InitCInv == Init => CInv
<1> SUFFICES ASSUME Init PROVE CInv
  OBVIOUS
<1>1. IInv
  BY InitIInv
<1>2. AnswerInv
  BY Zenon DEF Init, AnswerInv
<1>. QED
  BY <1>1, <1>2 DEF CInv

LEMMA NextCInv == ~EarlyAnswer /\ CInv /\ [Next]_vars => CInv'
<1> SUFFICES ASSUME ~EarlyAnswer, IInv, AnswerInv, [Next]_vars
             PROVE  IInv' /\ AnswerInv'
  BY DEF CInv
<1>1. IInv'
  BY NextIInv
<1>. USE DEF AnswerInv, producerVars, foreVars
<1>2. TypeOK /\ TypeOK'
  BY <1>1 DEF IInv
<1>3. CASE ProducerSend
  <2>1. srv = "none"
    BY <1>3, Zenon DEF ProducerSend
  <2>. QED
    BY <1>1, <1>3, <2>1 DEF ProducerSend
<1>4. CASE ProducerFail
  BY <1>1, <1>4, Zenon DEF ProducerFail
<1>5. CASE ProducerEnd
  BY <1>1, <1>5, Zenon DEF ProducerEnd
<1>6. CASE ServerRecv
  BY <1>1, <1>6, Zenon DEF ServerRecv
<1>7. CASE ServerAnswer
  <2>1. srv' = "ok" => StreamEnded
    BY <1>7, Zenon DEF ServerAnswer
  <2>2. StreamEnded => sent = NumItems /\ chan = << >>
    BY <1>7, Zenon DEF ServerAnswer, StreamEnded
  <2>3. fpc # "check" /\ ~(fpc = "done" /\ result = "ok")
    BY <1>7, Zenon DEF ServerAnswer
  <2>. QED
    BY <1>1, <1>7, <2>1, <2>2, <2>3, Zenon DEF ServerAnswer
<1>8. CASE ForegroundAnswer
  <2>1. srv = "ok" \/ srv = "err"
    BY <1>2, <1>8 DEF ForegroundAnswer, TypeOK
  <2>. QED
    BY <1>1, <1>8, <2>1, Zenon DEF ForegroundAnswer
<1>9. CASE ForegroundCheck
  BY <1>1, <1>9, Zenon DEF ForegroundCheck
<1>10. CASE Cancel
  BY <1>1, <1>10, Zenon DEF Cancel
<1>11. CASE UNCHANGED vars
  BY <1>1, <1>11, Zenon DEF vars
<1>. QED
  BY <1>3, <1>4, <1>5, <1>6, <1>7, <1>8, <1>9, <1>10, <1>11
     DEF Next, Producer, Server, Foreground

LEMMA CInvCompleteness == CInv => Completeness
<1> SUFFICES ASSUME CInv, fpc = "done", result = "ok" PROVE delivered = Items
  BY DEF Completeness
<1>1. srv = "ok"
  BY DEF CInv, AnswerInv
<1>2. sent = NumItems /\ chan = << >> /\ delivered \in Seq(1..NumItems)
  BY <1>1 DEF CInv, AnswerInv, IInv, TypeOK
<1>3. delivered = SubSeq(Items, 1, NumItems)
  BY <1>2, ConcatEmptySeq DEF CInv, IInv, StreamFaithful
<1>. QED
  BY <1>3, ItemsLemma, SubSeqFull

(* When the server answers Ok only once the request stream has ended,     *)
(* bulk_insert returns Ok only after the server has received every item,  *)
(* exactly once and in order (client.rs, lines 205-229).  The hypothesis  *)
(* is needed: the run bulk_insert_early_answer shows the violation when    *)
(* the server may answer Ok early.                                         *)
THEOREM CompletenessHolds == ~EarlyAnswer => (Spec => []Completeness)
<1> SUFFICES ASSUME ~EarlyAnswer PROVE Spec => []Completeness
  OBVIOUS
<1>1. CInv /\ [Next]_vars => CInv'
  BY NextCInv
<1>. QED
  BY InitCInv, <1>1, CInvCompleteness, PTL DEF Spec
=============================================================================
