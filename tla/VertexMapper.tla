---------------------------- MODULE VertexMapper ----------------------------
(***************************************************************************)
(* The vertex traversal scheduler of the plugin host: util::map in         *)
(* plugins/host/src/util.rs.  One orchestrating thread pages through the   *)
(* vertices with range queries chained by the id of the last vertex seen,  *)
(* hands every vertex of a page to a thread pool of at least two workers,  *)
(* and records a failure of the query or of a mapper call in the shared    *)
(* slot last_err, guarded by a mutex.  After the last page it joins the    *)
(* pool and returns the content of last_err.                               *)
(*                                                                         *)
(* The transaction the query goes to is shared with other writers (the     *)
(* mapper itself may write through it), so the graph may change between   *)
(* two pages: the environment actions WriterInsert and WriterDelete.       *)
(*                                                                         *)
(* Ids are positive naturals ordered as the 128-bit uuids are; the cursor  *)
(* value NoId = 0 stands for start_id = None, which is below every id.     *)
(***************************************************************************)
EXTENDS Naturals, Sequences

CONSTANTS
  Ids,         \* vertex ids that may exist (ordered like uuids)
  Types,       \* vertex types
  VType,       \* the type of each vertex id
  TFilter,     \* mapper.t_filter(): a type, or NoFilter for None
  NoFilter,    \* model value: no type filter
  NumWorkers,  \* mapper.num_workers()
  QueryLimit,  \* mapper.query_limit(), a u32
  MaxChanges,  \* bound on writes of other writers during the traversal
  MaxPages     \* bound on range queries issued (never reached by the code)

ASSUME IdsAssumption == Ids \subseteq Nat \ {0}
ASSUME VTypeAssumption == VType \in [Ids -> Types]
ASSUME TFilterAssumption == TFilter \in Types \cup {NoFilter} /\ NoFilter \notin Types
ASSUME NumWorkersAssumption == NumWorkers \in Nat
ASSUME QueryLimitAssumption == QueryLimit \in Nat
ASSUME BoundsAssumption == MaxChanges \in Nat /\ MaxPages \in Nat

(* Plausible bugs of the two clamps: the mapper's settings used as given. *)
PoolSizeUnclamped == NumWorkers
LimitUnclamped == QueryLimit

(* ThreadPool::new(max(mapper.num_workers(), 2)), util.rs:27 *)
PoolSize == IF NumWorkers > 2 THEN NumWorkers ELSE 2
Workers == 1..PoolSize

(* max(mapper.query_limit(), 1), util.rs:28 *)
Limit == IF QueryLimit > 1 THEN QueryLimit ELSE 1

NoId == 0   \* last_id = None
Idle == 0   \* a worker thread without a job

(* The values last_err may hold: the query's error, or a mapper's error    *)
(* for vertex v.                                                            *)
NoErr == [src |-> "none", v |-> NoId]
QueryErr == [src |-> "query", v |-> NoId]
MapErr(v) == [src |-> "map", v |-> v]
Errors == {QueryErr} \cup {MapErr(v) : v \in Ids}

VARIABLES
  graph,       \* ids of the vertices that exist in the datastore
  stable,      \* ghost: vertices present since the start and never deleted
  changes,     \* number of writes by other writers so far
  pc,          \* where the orchestrating thread is in map()
  last_id,     \* the pagination cursor (util.rs:31)
  last_err,    \* the shared failure slot (util.rs:30)
  pending,     \* pending[v]: jobs for v queued in the pool, not started
  worker,      \* worker[w]: the vertex worker thread w is mapping, or Idle
  dispatched,  \* ghost: dispatched[v] counts pool.execute calls for v
  mapped,      \* ghost: mapped[v] counts finished mapper.map(v) calls
  raised,      \* ghost: every error produced so far
  result,      \* the value map() returned, once pc = "done"
  pages        \* number of range queries issued

vars == <<graph, stable, changes, pc, last_id, last_err, pending, worker,
          dispatched, mapped, raised, result, pages>>
poolVars == <<pending, worker, dispatched, mapped>>
envVars == <<graph, stable, changes>>

-----------------------------------------------------------------------------
(* The datastore's answer to RangeVertexQuery {limit, t, start_id}: the    *)
(* first Limit vertices matching the filter with an id above start_id, in  *)
(* increasing id order.  The datastore is not part of this repository;     *)
(* its contract is taken from the spec (pagination over id order).         *)
Matches(v) == TFilter = NoFilter \/ VType[v] = TFilter
Candidates(g, start) == {v \in g : v > start /\ Matches(v)}
PageIds(vs) == {vs[i] : i \in DOMAIN vs}
PageSeqs == UNION {[1..k -> Ids] : k \in 0..Limit}
IsRangeResult(vs, g, start) ==
  /\ \A i, j \in DOMAIN vs : i < j => vs[i] < vs[j]
  /\ PageIds(vs) \subseteq Candidates(g, start)
  /\ \A v \in Candidates(g, start) \ PageIds(vs) :
        Len(vs) = Limit /\ \A i \in DOMAIN vs : vs[i] < v

-----------------------------------------------------------------------------
Init ==
  /\ graph \in SUBSET Ids
  /\ stable = graph
  /\ changes = 0
  /\ pc = "check"
  /\ last_id = NoId
  /\ last_err = NoErr
  /\ pending = [v \in Ids |-> 0]
  /\ worker = [w \in Workers |-> Idle]
  /\ dispatched = [v \in Ids |-> 0]
  /\ mapped = [v \in Ids |-> 0]
  /\ raised = {}
  /\ result = NoErr
  /\ pages = 0

-----------------------------------------------------------------------------
(* Plausible bugs of the code below, each used in place of the definition  *)
(* it mutates to show that a property can catch it.                       *)

(* The cursor is not advanced after a page (util.rs:53-55 dropped).       *)
GetVerticesNoAdvance ==
  /\ pc = "fetch"
  /\ pages < MaxPages
  /\ \E vs \in PageSeqs :
       /\ IsRangeResult(vs, graph, last_id)
       /\ last_id' = last_id
       /\ pending' = [v \in Ids |-> pending[v] + IF v \in PageIds(vs) THEN 1 ELSE 0]
       /\ dispatched' = [v \in Ids |-> dispatched[v] + IF v \in PageIds(vs) THEN 1 ELSE 0]
       /\ pc' = IF Len(vs) < Limit THEN "join" ELSE "check"
  /\ pages' = pages + 1
  /\ UNCHANGED <<envVars, last_err, worker, mapped, raised, result>>

(* Off by one in the short-page test: len <= limit (util.rs:52).          *)
GetVerticesFullPageIsLast ==
  /\ pc = "fetch"
  /\ pages < MaxPages
  /\ \E vs \in PageSeqs :
       /\ IsRangeResult(vs, graph, last_id)
       /\ last_id' = IF vs = <<>> THEN last_id ELSE vs[Len(vs)]
       /\ pending' = [v \in Ids |-> pending[v] + IF v \in PageIds(vs) THEN 1 ELSE 0]
       /\ dispatched' = [v \in Ids |-> dispatched[v] + IF v \in PageIds(vs) THEN 1 ELSE 0]
       /\ pc' = IF Len(vs) <= Limit THEN "join" ELSE "check"
  /\ pages' = pages + 1
  /\ UNCHANGED <<envVars, last_err, worker, mapped, raised, result>>

(* The break on the last page is dropped (util.rs:67-69).                 *)
GetVerticesNoBreak ==
  /\ pc = "fetch"
  /\ pages < MaxPages
  /\ \E vs \in PageSeqs :
       /\ IsRangeResult(vs, graph, last_id)
       /\ last_id' = IF vs = <<>> THEN last_id ELSE vs[Len(vs)]
       /\ pending' = [v \in Ids |-> pending[v] + IF v \in PageIds(vs) THEN 1 ELSE 0]
       /\ dispatched' = [v \in Ids |-> dispatched[v] + IF v \in PageIds(vs) THEN 1 ELSE 0]
       /\ pc' = "check"
  /\ pages' = pages + 1
  /\ UNCHANGED <<envVars, last_err, worker, mapped, raised, result>>

(* last_err is read without pool.join() (util.rs:72 dropped).              *)
JoinNoWait ==
  /\ pc = "join"
  /\ pc' = "done"
  /\ result' = last_err
  /\ UNCHANGED <<envVars, last_id, last_err, poolVars, raised, pages>>

(* A pool thread takes a job that was never queued.                      *)
WorkerStartNoGuard(w, v) ==
  /\ worker[w] = Idle
  /\ worker' = [worker EXCEPT ![w] = v]
  /\ pending' = [pending EXCEPT ![v] = @ - 1]
  /\ UNCHANGED <<envVars, pc, last_id, last_err, dispatched, mapped, raised, result, pages>>

-----------------------------------------------------------------------------
(* Loop head: stop paging once a failure is recorded (util.rs:33-36).     *)
CheckLastErr ==
  /\ pc = "check"
  /\ pc' = IF last_err # NoErr THEN "join" ELSE "fetch"
  /\ UNCHANGED <<envVars, last_id, last_err, poolVars, raised, result, pages>>

(* A page arrives (util.rs:38-69): advance the cursor to the last vertex   *)
(* of the page, queue one job per vertex, and leave the loop if the page   *)
(* is shorter than the limit.                                              *)
GetVertices ==
  /\ pc = "fetch"
  /\ pages < MaxPages
  /\ \E vs \in PageSeqs :
       /\ IsRangeResult(vs, graph, last_id)
       /\ last_id' = IF vs = <<>> THEN last_id ELSE vs[Len(vs)]
       /\ pending' = [v \in Ids |-> pending[v] + IF v \in PageIds(vs) THEN 1 ELSE 0]
       /\ dispatched' = [v \in Ids |-> dispatched[v] + IF v \in PageIds(vs) THEN 1 ELSE 0]
       /\ pc' = IF Len(vs) < Limit THEN "join" ELSE "check"
  /\ pages' = pages + 1
  /\ UNCHANGED <<envVars, last_err, worker, mapped, raised, result>>

(* The range query fails: store its error and leave the loop              *)
(* (util.rs:44-49).                                                        *)
GetVerticesErr ==
  /\ pc = "fetch"
  /\ pages < MaxPages
  /\ last_err' = QueryErr
  /\ raised' = raised \cup {QueryErr}
  /\ pc' = "join"
  /\ pages' = pages + 1
  /\ UNCHANGED <<envVars, last_id, poolVars, result>>

(* An idle pool thread takes a queued job (util.rs:60).                    *)
WorkerStart(w, v) ==
  /\ worker[w] = Idle
  /\ pending[v] > 0
  /\ worker' = [worker EXCEPT ![w] = v]
  /\ pending' = [pending EXCEPT ![v] = @ - 1]
  /\ UNCHANGED <<envVars, pc, last_id, last_err, dispatched, mapped, raised, result, pages>>

(* mapper.map(vertex) returns Ok (util.rs:61).                             *)
WorkerMapOk(w) ==
  /\ worker[w] # Idle
  /\ worker' = [worker EXCEPT ![w] = Idle]
  /\ mapped' = [mapped EXCEPT ![worker[w]] = @ + 1]
  /\ UNCHANGED <<envVars, pc, last_id, last_err, pending, dispatched, raised, result, pages>>

(* mapper.map(vertex) fails: the worker overwrites last_err under the     *)
(* mutex (util.rs:61-63).                                                  *)
WorkerMapErr(w) ==
  /\ worker[w] # Idle
  /\ worker' = [worker EXCEPT ![w] = Idle]
  /\ mapped' = [mapped EXCEPT ![worker[w]] = @ + 1]
  /\ last_err' = MapErr(worker[w])
  /\ raised' = raised \cup {MapErr(worker[w])}
  /\ UNCHANGED <<envVars, pc, last_id, pending, dispatched, result, pages>>

(* pool.join() waits for every job, then map() returns last_err            *)
(* (util.rs:72-79).                                                        *)
Join ==
  /\ pc = "join"
  /\ \A v \in Ids : pending[v] = 0
  /\ \A w \in Workers : worker[w] = Idle
  /\ pc' = "done"
  /\ result' = last_err
  /\ UNCHANGED <<envVars, last_id, last_err, poolVars, raised, pages>>

(* Other writers on the same datastore create or delete a vertex.         *)
WriterInsert(v) ==
  /\ changes < MaxChanges
  /\ v \notin graph
  /\ graph' = graph \cup {v}
  /\ changes' = changes + 1
  /\ UNCHANGED <<stable, pc, last_id, last_err, poolVars, raised, result, pages>>

WriterDelete(v) ==
  /\ changes < MaxChanges
  /\ v \in graph
  /\ graph' = graph \ {v}
  /\ stable' = stable \ {v}
  /\ changes' = changes + 1
  /\ UNCHANGED <<pc, last_id, last_err, poolVars, raised, result, pages>>

Fetch == GetVertices \/ GetVerticesErr
WorkerFinish(w) == WorkerMapOk(w) \/ WorkerMapErr(w)

Next ==
  \/ CheckLastErr
  \/ Fetch
  \/ Join
  \/ \E w \in Workers, v \in Ids : WorkerStart(w, v)
  \/ \E w \in Workers : WorkerFinish(w)
  \/ \E v \in Ids : WriterInsert(v) \/ WriterDelete(v)

(* The orchestrator and the pool threads are OS threads: each one that can *)
(* step eventually does.  The range query eventually returns, with a page  *)
(* or an error.  Other writers are not required to do anything.            *)
Fairness ==
  /\ WF_vars(CheckLastErr)
  /\ WF_vars(Fetch)
  /\ WF_vars(Join)
  /\ \A w \in Workers : WF_vars(\E v \in Ids : WorkerStart(w, v))
  /\ \A w \in Workers : WF_vars(WorkerFinish(w))

Spec == Init /\ [][Next]_vars /\ Fairness

-----------------------------------------------------------------------------
PCs == {"check", "fetch", "join", "done"}

TypeOK ==
  /\ graph \in SUBSET Ids
  /\ stable \in SUBSET Ids
  /\ changes \in 0..MaxChanges
  /\ pc \in PCs
  /\ last_id \in {NoId} \cup Ids
  /\ last_err \in {NoErr} \cup Errors
  /\ pending \in [Ids -> Nat]
  /\ worker \in [Workers -> {Idle} \cup Ids]
  /\ dispatched \in [Ids -> Nat]
  /\ mapped \in [Ids -> Nat]
  /\ raised \in SUBSET Errors
  /\ result \in {NoErr} \cup Errors
  /\ pages \in 0..MaxPages

(* No vertex is handed to the mapper twice: the cursor chaining of the     *)
(* range queries (util.rs:41,53-55) never revisits an id, even while other *)
(* writers insert and delete vertices between pages.                       *)
NoDuplicateMapping == \A v \in Ids : dispatched[v] <= 1

(* If map() returns Ok, every matching vertex that existed for the whole   *)
(* traversal was mapped exactly once: the short-page test (util.rs:52,67)  *)
(* does not stop early and join (util.rs:72) waits for the mappers.        *)
CompleteOnSuccess ==
  (pc = "done" /\ result = NoErr) =>
     \A v \in stable : Matches(v) => mapped[v] = 1

(* No failure is swallowed: map() returns an error exactly when a query or *)
(* a mapper call failed, and the error it returns is one that occurred     *)
(* (util.rs:47,62,72-79).                                                   *)
ErrorReported ==
  pc = "done" => /\ (result = NoErr) <=> (raised = {})
                 /\ result \in raised \cup {NoErr}

(* map() returns: the paging loop ends and the pool drains.               *)
Termination == <>(pc = "done")

(* Spec, section 5: the failure slot is first-writer-wins; a failure       *)
(* recorded is never replaced by a later one.                              *)
FirstErrorKept == [][last_err # NoErr => last_err' = last_err]_vars

(* Spec, section 8.3: no page fetch begins after a failure has been        *)
(* recorded.                                                                *)
NoFetchAfterFailure == [][(pc = "fetch" /\ pc' # "fetch") => last_err = NoErr]_vars
=============================================================================
