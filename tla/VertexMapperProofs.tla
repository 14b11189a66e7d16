------------------------- MODULE VertexMapperProofs -------------------------
(***************************************************************************)
(* Proofs about the traversal scheduler of VertexMapper, for every set of  *)
(* ids, every filter, every pool size and every page size.                 *)
(***************************************************************************)
EXTENDS VertexMapper, SequenceTheorems, TLAPS

(* A page the datastore returns is a sequence of at most Limit ids.        *)
LEMMA PageSeqsLemma ==
  ASSUME NEW vs \in PageSeqs
  PROVE  /\ vs \in Seq(Ids)
         /\ Len(vs) \in 0..Limit
         /\ DOMAIN vs = 1..Len(vs)
<1>1. PICK k \in 0..Limit : vs \in [1..k -> Ids]
  BY DEF PageSeqs
<1>2. Limit \in Nat
  BY QueryLimitAssumption DEF Limit
<1>3. k \in Nat
  BY <1>1, <1>2
<1>4. vs \in Seq(Ids)
  BY <1>1, <1>3
<1>5. Len(vs) = k
  BY <1>1, <1>3, <1>4, LenProperties
<1>. QED
  BY <1>1, <1>4, <1>5

(* The last element of a sorted nonempty page is its largest, and it lies *)
(* above the cursor the page was asked from.                               *)
LEMMA PageLastLemma ==
  ASSUME NEW vs \in PageSeqs, NEW g, NEW start,
         IsRangeResult(vs, g, start),
         vs # <<>>
  PROVE  /\ vs[Len(vs)] \in Ids
         /\ vs[Len(vs)] > start
         /\ \A v \in PageIds(vs) : v <= vs[Len(vs)] /\ v > start
<1>1. /\ vs \in Seq(Ids)
      /\ Len(vs) \in 0..Limit
      /\ DOMAIN vs = 1..Len(vs)
  BY PageSeqsLemma
<1>2. Len(vs) \in Nat \ {0}
  BY <1>1, EmptySeq
<1>3. Len(vs) \in DOMAIN vs
  BY <1>1, <1>2
<1>4. vs[Len(vs)] \in Ids /\ vs[Len(vs)] \in Candidates(g, start)
  BY <1>1, <1>3 DEF IsRangeResult, PageIds
<1>5. vs[Len(vs)] > start
  BY <1>4 DEF Candidates
<1>6. ASSUME NEW v \in PageIds(vs) PROVE v <= vs[Len(vs)] /\ v > start
  <2>1. PICK i \in DOMAIN vs : v = vs[i]
    BY DEF PageIds
  <2>2. v \in Candidates(g, start)
    BY <2>1 DEF IsRangeResult, PageIds
  <2>3. v \in Ids
    BY <1>1, <2>1
  <2>4. v <= vs[Len(vs)]
    <3>1. CASE i = Len(vs)
      BY <3>1, <2>1, <1>4, <2>3, IdsAssumption
    <3>2. CASE i # Len(vs)
      <4>1. i < Len(vs)
        BY <3>2, <1>1, <1>2
      <4>2. vs[i] < vs[Len(vs)]
        BY <4>1, <1>3 DEF IsRangeResult
      <4>. QED
        BY <4>2, <2>1, <2>3, <1>4, IdsAssumption
    <3>. QED
      BY <3>1, <3>2
  <2>. QED
    BY <2>2, <2>4 DEF Candidates
<1>. QED
  BY <1>4, <1>5, <1>6

-----------------------------------------------------------------------------
(* Type correctness.                                                       *)
LEMMA InitTypeOK == Init => TypeOK
  BY IdsAssumption, BoundsAssumption DEF Init, TypeOK, Errors, PCs, NoErr, NoId, Idle

LEMMA NextTypeOK == TypeOK /\ [Next]_vars => TypeOK'
<1> SUFFICES ASSUME TypeOK, [Next]_vars PROVE TypeOK'
  OBVIOUS
<1>. USE DEF TypeOK
<1>1. CASE CheckLastErr
  BY <1>1 DEF CheckLastErr, PCs, envVars, poolVars
<1>2. CASE GetVertices
  <2>1. PICK vs \in PageSeqs :
          /\ IsRangeResult(vs, graph, last_id)
          /\ last_id' = IF vs = <<>> THEN last_id ELSE vs[Len(vs)]
          /\ pending' = [v \in Ids |-> pending[v] + IF v \in PageIds(vs) THEN 1 ELSE 0]
          /\ dispatched' = [v \in Ids |-> dispatched[v] + IF v \in PageIds(vs) THEN 1 ELSE 0]
          /\ pc' = IF Len(vs) < Limit THEN "join" ELSE "check"
    BY <1>2 DEF GetVertices
  <2>2. last_id' \in {NoId} \cup Ids
    BY <2>1, PageLastLemma
  <2>3. pages' \in 0..MaxPages
    BY <1>2, BoundsAssumption DEF GetVertices
  <2>. QED
    BY <1>2, <2>1, <2>2, <2>3 DEF GetVertices, PCs, envVars
<1>3. CASE GetVerticesErr
  BY <1>3, BoundsAssumption DEF GetVerticesErr, Errors, PCs, poolVars, envVars
<1>4. ASSUME NEW w \in Workers, NEW v \in Ids, WorkerStart(w, v) PROVE TypeOK'
  BY <1>4 DEF WorkerStart, envVars
<1>5. ASSUME NEW w \in Workers, WorkerFinish(w) PROVE TypeOK'
  <2>1. worker[w] \in Ids
    BY <1>5, IdsAssumption DEF WorkerFinish, WorkerMapOk, WorkerMapErr, Idle
  <2>2. CASE WorkerMapOk(w)
    BY <2>1, <2>2 DEF WorkerMapOk, envVars
  <2>3. CASE WorkerMapErr(w)
    BY <2>1, <2>3 DEF WorkerMapErr, Errors, envVars
  <2>. QED
    BY <1>5, <2>2, <2>3 DEF WorkerFinish
<1>6. CASE Join
  BY <1>6 DEF Join, PCs, poolVars, envVars
<1>7. ASSUME NEW v \in Ids, WriterInsert(v) PROVE TypeOK'
  BY <1>7, BoundsAssumption DEF WriterInsert, poolVars
<1>8. ASSUME NEW v \in Ids, WriterDelete(v) PROVE TypeOK'
  BY <1>8, BoundsAssumption DEF WriterDelete, poolVars
<1>9. CASE UNCHANGED vars
  BY <1>9 DEF vars
<1>. QED
  BY <1>1, <1>2, <1>3, <1>4, <1>5, <1>6, <1>7, <1>8, <1>9 DEF Next, Fetch

(* The state of the scheduler always has the types TypeOK gives it.        *)
THEOREM TypeCorrect == Spec => []TypeOK
BY InitTypeOK, NextTypeOK, PTL DEF Spec

-----------------------------------------------------------------------------
(* The cursor covers every dispatched vertex.  NoDuplicateMapping is not   *)
(* inductive alone: a page could re-dispatch a vertex unless every vertex  *)
(* already dispatched lies at or below the cursor, which only grows, while *)
(* a page holds ids strictly above it.                                     *)
CursorInv ==
  \A v \in Ids : /\ dispatched[v] <= 1
                 /\ dispatched[v] = 1 => v <= last_id

IInv == TypeOK /\ CursorInv

LEMMA InitIInv == Init => IInv
<1>1. ASSUME Init, NEW v \in Ids PROVE CursorInv!(v)
  BY <1>1 DEF Init
<1>2. Init => CursorInv
  BY <1>1 DEF CursorInv
<1>. QED
  BY <1>2, InitTypeOK DEF IInv

LEMMA NextIInv == IInv /\ [Next]_vars => IInv'
<1> SUFFICES ASSUME TypeOK, CursorInv, [Next]_vars PROVE CursorInv'
  BY NextTypeOK DEF IInv
<1>. USE DEF TypeOK
<1>1. CASE GetVertices
  <2>1. PICK vs \in PageSeqs :
          /\ IsRangeResult(vs, graph, last_id)
          /\ last_id' = IF vs = <<>> THEN last_id ELSE vs[Len(vs)]
          /\ dispatched' = [v \in Ids |-> dispatched[v] + IF v \in PageIds(vs) THEN 1 ELSE 0]
    BY <1>1 DEF GetVertices
  <2>2. CASE vs = <<>>
    <3>1. PageIds(vs) = {}
      BY <2>2 DEF PageIds
    <3>. QED
      BY <2>1, <2>2, <3>1 DEF CursorInv
  <2>3. CASE vs # <<>>
    <3>1. /\ vs[Len(vs)] \in Ids
          /\ vs[Len(vs)] > last_id
          /\ \A v \in PageIds(vs) : v <= vs[Len(vs)] /\ v > last_id
      BY <2>1, <2>3, PageLastLemma
    <3>2. last_id \in Nat
      BY IdsAssumption DEF NoId
    <3>3. ASSUME NEW v \in Ids PROVE CursorInv!(v)'
      <4>1. CASE v \in PageIds(vs)
        BY <2>1, <2>3, <3>1, <3>2, <4>1, IdsAssumption DEF CursorInv
      <4>2. CASE v \notin PageIds(vs)
        BY <2>1, <2>3, <3>1, <3>2, <4>2, IdsAssumption DEF CursorInv
      <4>. QED
        BY <4>1, <4>2
    <3>. QED
      BY <3>3 DEF CursorInv
  <2>. QED
    BY <2>2, <2>3
<1>2. CASE UNCHANGED <<last_id, dispatched>>
  BY <1>2 DEF CursorInv
<1>. QED
  BY <1>1, <1>2 DEF Next, Fetch, CheckLastErr, GetVerticesErr, WorkerStart,
                     WorkerFinish, WorkerMapOk, WorkerMapErr, Join,
                     WriterInsert, WriterDelete, vars, poolVars

(* Spec, section 4.3: no vertex is attempted twice, for every id set,      *)
(* filter, pool size and page size, whatever other writers do meanwhile.  *)
THEOREM NoDuplicate == Spec => []NoDuplicateMapping
<1>1. IInv => NoDuplicateMapping
  BY DEF IInv, CursorInv, NoDuplicateMapping
<1>. QED
  BY InitIInv, NextIInv, <1>1, PTL DEF Spec

-----------------------------------------------------------------------------
(* The failure slot.  last_err is only ever overwritten by an error that  *)
(* is at the same time added to raised, and once map() has returned the   *)
(* pool is drained, so no later mapper call can change last_err: what     *)
(* map() returned is still what the slot holds.                            *)
PoolIdle == /\ \A v \in Ids : pending[v] = 0
            /\ \A w \in Workers : worker[w] = Idle

ErrInv ==
  /\ (last_err = NoErr) <=> (raised = {})
  /\ last_err \in raised \cup {NoErr}
  /\ pc = "done" => PoolIdle /\ result = last_err

(* The pool's accounting: every dispatched job is queued, running on       *)
(* exactly one worker thread, or finished.                                 *)
Busy(v) == \E w \in Workers : worker[w] = v

PoolInv ==
  /\ \A v \in Ids : mapped[v] + pending[v] + (IF Busy(v) THEN 1 ELSE 0) = dispatched[v]
  /\ \A w1, w2 \in Workers : worker[w1] = worker[w2] /\ worker[w1] # Idle => w1 = w2

(* Coverage: every matching vertex present since the start has been       *)
(* dispatched once the cursor has passed it, and all of them once the     *)
(* loop has left on a short page.                                          *)
CoverInv ==
  /\ stable \subseteq graph
  /\ \A v \in stable :
        /\ Matches(v)
        /\ \/ v <= last_id
           \/ pc \in {"join", "done"} /\ last_err = NoErr
        => dispatched[v] = 1

MInv == IInv /\ ErrInv /\ PoolInv /\ CoverInv

(* The error values are distinct from NoErr.                                *)
LEMMA ErrorsNotNoErr == \A e \in Errors : e # NoErr
  BY DEF Errors, QueryErr, MapErr, NoErr

LEMMA InitErrInv == Init => ErrInv
  BY DEF Init, ErrInv

LEMMA NextErrInv == TypeOK /\ ErrInv /\ [Next]_vars => ErrInv'
<1> SUFFICES ASSUME TypeOK, ErrInv, [Next]_vars PROVE ErrInv'
  OBVIOUS
<1>. USE DEF ErrInv
<1>1. CASE CheckLastErr
  BY <1>1 DEF CheckLastErr, poolVars
<1>2. CASE GetVertices
  <2>1. pc' \in {"join", "check"} /\ UNCHANGED <<last_err, raised>>
    BY <1>2 DEF GetVertices
  <2>. QED
    BY <2>1
<1>3. CASE GetVerticesErr
  <2>1. QueryErr # NoErr
    BY DEF QueryErr, NoErr
  <2>. QED
    BY <1>3, <2>1 DEF GetVerticesErr
<1>4. ASSUME NEW w \in Workers, NEW v \in Ids, WorkerStart(w, v) PROVE ErrInv'
  <2>1. pc # "done"
    BY <1>4 DEF WorkerStart, PoolIdle
  <2>. QED
    BY <1>4, <2>1 DEF WorkerStart
<1>5. ASSUME NEW w \in Workers, WorkerFinish(w) PROVE ErrInv'
  <2>1. pc # "done"
    BY <1>5 DEF WorkerFinish, WorkerMapOk, WorkerMapErr, PoolIdle
  <2>2. CASE WorkerMapOk(w)
    BY <2>1, <2>2 DEF WorkerMapOk
  <2>3. CASE WorkerMapErr(w)
    <3>1. worker[w] \in Ids
      BY <2>3, IdsAssumption DEF WorkerMapErr, TypeOK, Idle
    <3>2. MapErr(worker[w]) # NoErr
      BY <3>1, ErrorsNotNoErr DEF Errors
    <3>. QED
      BY <2>1, <2>3, <3>2 DEF WorkerMapErr
  <2>. QED
    BY <1>5, <2>2, <2>3 DEF WorkerFinish
<1>6. CASE Join
  BY <1>6 DEF Join, PoolIdle, poolVars
<1>7. ASSUME NEW v \in Ids, WriterInsert(v) \/ WriterDelete(v) PROVE ErrInv'
  BY <1>7 DEF WriterInsert, WriterDelete, PoolIdle, poolVars
<1>8. CASE UNCHANGED vars
  BY <1>8 DEF vars, PoolIdle
<1>. QED
  BY <1>1, <1>2, <1>3, <1>4, <1>5, <1>6, <1>7, <1>8 DEF Next, Fetch

(* map() reports every failure and only failures (util.rs:44-49, 61-63,   *)
(* 72-79), for every id set, filter, pool size and page size.             *)
THEOREM ErrorReportedHolds == Spec => []ErrorReported
<1>1. TypeOK /\ ErrInv /\ [Next]_vars => (TypeOK /\ ErrInv)'
  BY NextTypeOK, NextErrInv
<1>2. TypeOK /\ ErrInv => ErrorReported
  BY DEF ErrInv, ErrorReported
<1>. QED
  BY InitTypeOK, InitErrInv, <1>1, <1>2, PTL DEF Spec

-----------------------------------------------------------------------------
(* The pool's accounting is inductive given that no vertex is dispatched  *)
(* twice: a job taken off the queue by one thread cannot be running on     *)
(* another, since that would count the single dispatch twice.             *)
LEMMA IdleNotId == Idle \notin Ids
  BY IdsAssumption DEF Idle

LEMMA InitPoolInv == Init => PoolInv
  BY IdleNotId DEF Init, PoolInv, Busy

LEMMA NextPoolInv == IInv /\ PoolInv /\ [Next]_vars => PoolInv'
<1> SUFFICES ASSUME TypeOK, CursorInv, PoolInv, [Next]_vars PROVE PoolInv'
  BY DEF IInv
<1>. USE DEF TypeOK
<1>1. CASE GetVertices
  <2>1. PICK vs \in PageSeqs :
          /\ pending' = [v \in Ids |-> pending[v] + IF v \in PageIds(vs) THEN 1 ELSE 0]
          /\ dispatched' = [v \in Ids |-> dispatched[v] + IF v \in PageIds(vs) THEN 1 ELSE 0]
    BY <1>1 DEF GetVertices
  <2>2. UNCHANGED <<worker, mapped>>
    BY <1>1 DEF GetVertices
  <2>3. \A v \in Ids : Busy(v)' = Busy(v)
    BY <2>2 DEF Busy
  <2>. QED
    BY <2>1, <2>2, <2>3 DEF PoolInv
<1>2. ASSUME NEW w \in Workers, NEW v \in Ids, WorkerStart(w, v) PROVE PoolInv'
  <2>1. ~Busy(v)
    BY <1>2, IdleNotId DEF WorkerStart, PoolInv, CursorInv
  <2>2. Busy(v)'
    BY <1>2 DEF WorkerStart, Busy
  <2>3. \A u \in Ids \ {v} : Busy(u)' = Busy(u)
    BY <1>2, IdleNotId DEF WorkerStart, Busy
  <2>4. \A u \in Ids : mapped'[u] + pending'[u] + (IF Busy(u)' THEN 1 ELSE 0) = dispatched'[u]
    BY <1>2, <2>1, <2>2, <2>3 DEF WorkerStart, PoolInv
  <2>5. \A w1, w2 \in Workers : worker'[w1] = worker'[w2] /\ worker'[w1] # Idle => w1 = w2
    BY <1>2, <2>1 DEF WorkerStart, PoolInv, Busy
  <2>. QED
    BY <2>4, <2>5 DEF PoolInv
<1>3. ASSUME NEW w \in Workers, WorkerFinish(w) PROVE PoolInv'
  <2>0. PICK u \in Ids : u = worker[w]
    BY <1>3, IdsAssumption DEF WorkerFinish, WorkerMapOk, WorkerMapErr, Idle
  <2>1. worker' = [worker EXCEPT ![w] = Idle]
        /\ mapped' = [mapped EXCEPT ![u] = @ + 1]
        /\ UNCHANGED <<pending, dispatched>>
    BY <1>3, <2>0 DEF WorkerFinish, WorkerMapOk, WorkerMapErr
  <2>2. Busy(u) /\ ~Busy(u)'
    BY <2>0, <2>1, IdleNotId DEF PoolInv, Busy
  <2>3. \A x \in Ids \ {u} : Busy(x)' <=> Busy(x)
    <3> SUFFICES ASSUME NEW x \in Ids \ {u} PROVE Busy(x)' <=> Busy(x)
      OBVIOUS
    <3>1. ASSUME NEW w2 \in Workers, worker'[w2] = x PROVE worker[w2] = x
      BY <3>1, <2>0, <2>1, IdleNotId
    <3>2. ASSUME NEW w2 \in Workers, worker[w2] = x PROVE worker'[w2] = x
      BY <3>2, <2>0, <2>1
    <3>. QED
      BY <3>1, <3>2 DEF Busy
  <2>4. \A x \in Ids : mapped'[x] + pending'[x] + (IF Busy(x)' THEN 1 ELSE 0) = dispatched'[x]
    BY <2>0, <2>1, <2>2, <2>3 DEF PoolInv
  <2>5. \A w1, w2 \in Workers : worker'[w1] = worker'[w2] /\ worker'[w1] # Idle => w1 = w2
    BY <2>0, <2>1 DEF PoolInv
  <2>. QED
    BY <2>4, <2>5 DEF PoolInv
<1>4. CASE UNCHANGED poolVars
  BY <1>4 DEF PoolInv, Busy, poolVars
<1>5. CASE CheckLastErr \/ GetVerticesErr \/ Join \/ UNCHANGED vars
  BY <1>4, <1>5 DEF CheckLastErr, GetVerticesErr, Join, vars, poolVars
<1>6. ASSUME NEW v \in Ids, WriterInsert(v) \/ WriterDelete(v) PROVE PoolInv'
  BY <1>4, <1>6 DEF WriterInsert, WriterDelete, poolVars
<1>. QED
  BY <1>1, <1>2, <1>3, <1>5, <1>6 DEF Next, Fetch

-----------------------------------------------------------------------------
(* Coverage.  A page holds the first Limit matching ids above the cursor, *)
(* so a stable matching vertex the new cursor passes, or that a short page *)
(* leaves behind, is on the page unless it was dispatched before.          *)
LEMMA LimitPositive == Limit \in Nat \ {0}
  BY QueryLimitAssumption DEF Limit

LEMMA InitCoverInv == Init => CoverInv
  BY IdsAssumption DEF Init, CoverInv, NoId

LEMMA NextCoverInv == IInv /\ CoverInv /\ [Next]_vars => CoverInv'
<1> SUFFICES ASSUME TypeOK, CursorInv, CoverInv, [Next]_vars PROVE CoverInv'
  BY DEF IInv
<1>. USE DEF TypeOK
<1>0. last_id \in Nat
  BY IdsAssumption DEF NoId
<1>1. CASE GetVertices
  <2>1. PICK vs \in PageSeqs :
          /\ IsRangeResult(vs, graph, last_id)
          /\ last_id' = IF vs = <<>> THEN last_id ELSE vs[Len(vs)]
          /\ dispatched' = [v \in Ids |-> dispatched[v] + IF v \in PageIds(vs) THEN 1 ELSE 0]
          /\ pc' = IF Len(vs) < Limit THEN "join" ELSE "check"
    BY <1>1 DEF GetVertices
  <2>2. pc = "fetch" /\ UNCHANGED <<graph, stable, last_err>>
    BY <1>1 DEF GetVertices, envVars
  <2>3. \A v \in PageIds(vs) : v > last_id
    BY <2>1, PageLastLemma DEF PageIds
  <2>4. vs \in Seq(Ids) /\ Len(vs) \in 0..Limit /\ DOMAIN vs = 1..Len(vs)
    BY PageSeqsLemma
  <2>5. ASSUME NEW v \in stable, Matches(v),
               \/ v <= last_id'
               \/ pc' \in {"join", "done"} /\ last_err' = NoErr
        PROVE  dispatched'[v] = 1
    <3>0. v \in Ids /\ v \in Nat
      BY IdsAssumption
    <3>1. CASE v <= last_id
      <4>1. dispatched[v] = 1
        BY <3>1, <2>2, <2>5 DEF CoverInv
      <4>2. v \notin PageIds(vs)
        BY <3>0, <3>1, <2>3, <1>0
      <4>. QED
        BY <3>0, <4>1, <4>2, <2>1
    <3>2. CASE v > last_id /\ v \in PageIds(vs)
      <4>1. dispatched[v] = 0
        BY <3>0, <3>2, <1>0 DEF CursorInv
      <4>. QED
        BY <3>0, <3>2, <4>1, <2>1
    <3>3. CASE v > last_id /\ v \notin PageIds(vs)
      <4>1. v \in Candidates(graph, last_id)
        BY <3>0, <3>3, <2>5, <2>2 DEF CoverInv, Candidates
      <4>2. Len(vs) = Limit /\ \A i \in DOMAIN vs : vs[i] < v
        BY <4>1, <3>3, <2>1 DEF IsRangeResult
      <4>3. vs # <<>> /\ Len(vs) \in DOMAIN vs
        BY <4>2, <2>4, LimitPositive
      <4>4. last_id' = vs[Len(vs)] /\ pc' = "check"
        BY <4>2, <4>3, <2>1, LimitPositive
      <4>5. vs[Len(vs)] \in Ids /\ vs[Len(vs)] < v
        BY <4>2, <4>3, <2>4
      <4>6. last_id' < v /\ pc' = "check" /\ last_id' \in Ids
        BY <4>4, <4>5
      <4>7. FALSE
        BY <4>6, <2>5, <3>0, IdsAssumption
      <4>. QED
        BY <4>7
    <3>. QED
      BY <3>0, <3>1, <3>2, <3>3, <1>0
  <2>. QED
    BY <2>2, <2>5 DEF CoverInv
<1>2. CASE CheckLastErr \/ GetVerticesErr \/ Join
  <2>1. QueryErr # NoErr
    BY DEF QueryErr, NoErr
  <2>. QED
    BY <1>2, <2>1 DEF CheckLastErr, GetVerticesErr, Join, CoverInv, envVars, poolVars
<1>3. ASSUME NEW w \in Workers, NEW v \in Ids, WorkerStart(w, v) PROVE CoverInv'
  BY <1>3 DEF WorkerStart, CoverInv, envVars
<1>4. ASSUME NEW w \in Workers, WorkerFinish(w) PROVE CoverInv'
  <2>2. CASE WorkerMapOk(w)
    BY <2>2 DEF WorkerMapOk, CoverInv, envVars
  <2>3. CASE WorkerMapErr(w)
    <3>1. worker[w] \in Ids
      BY <2>3, IdsAssumption DEF WorkerMapErr, Idle
    <3>2. last_err' # NoErr
      BY <2>3, <3>1, ErrorsNotNoErr DEF WorkerMapErr, Errors
    <3>. QED
      BY <2>3, <3>2 DEF WorkerMapErr, CoverInv, envVars
  <2>. QED
    BY <1>4, <2>2, <2>3 DEF WorkerFinish
<1>5. ASSUME NEW v \in Ids, WriterInsert(v) \/ WriterDelete(v) PROVE CoverInv'
  BY <1>5 DEF WriterInsert, WriterDelete, CoverInv, poolVars
<1>6. CASE UNCHANGED vars
  BY <1>6 DEF vars, CoverInv
<1>. QED
  BY <1>1, <1>2, <1>3, <1>4, <1>5, <1>6 DEF Next, Fetch

LEMMA InitMInv == Init => MInv
  BY InitIInv, InitErrInv, InitPoolInv, InitCoverInv DEF MInv

LEMMA NextMInv == MInv /\ [Next]_vars => MInv'
<1> SUFFICES ASSUME MInv, [Next]_vars PROVE MInv'
  OBVIOUS
<1>1. IInv' /\ PoolInv' /\ CoverInv'
  BY NextIInv, NextPoolInv, NextCoverInv DEF MInv
<1>2. ErrInv'
  BY NextErrInv DEF MInv, IInv
<1>. QED
  BY <1>1, <1>2 DEF MInv

LEMMA MInvComplete == MInv => CompleteOnSuccess
<1> SUFFICES ASSUME MInv, pc = "done", result = NoErr,
                    NEW v \in stable, Matches(v)
             PROVE  mapped[v] = 1
  BY DEF CompleteOnSuccess
<1>1. TypeOK /\ PoolIdle /\ last_err = NoErr
  BY DEF MInv, ErrInv, IInv
<1>2. v \in Ids
  BY <1>1 DEF TypeOK
<1>3. dispatched[v] = 1
  BY <1>1 DEF MInv, CoverInv
<1>4. ~Busy(v) /\ pending[v] = 0
  BY <1>1, <1>2, IdleNotId DEF PoolIdle, Busy
<1>. QED
  BY <1>1, <1>2, <1>3, <1>4 DEF MInv, PoolInv, TypeOK

(* Spec, section 4.3: when map() returns Ok, every matching vertex that    *)
(* existed throughout the traversal was mapped exactly once: the short-   *)
(* page test (util.rs:52, 67) ends the loop only after the last matching   *)
(* vertex, and pool.join() (util.rs:72) waits for every mapper call.       *)
THEOREM CompleteOnSuccessHolds == Spec => []CompleteOnSuccess
BY InitMInv, NextMInv, MInvComplete, PTL DEF Spec
=============================================================================
