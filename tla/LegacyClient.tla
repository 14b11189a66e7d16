---------------------------- MODULE LegacyClient ----------------------------
(***************************************************************************)
(* The legacy Cap'n Proto client: ClientTransaction in                     *)
(* bin/src/common/client_datastore.rs.  Every operation goes through       *)
(* execute(), which opens a fresh TCP connection, pings the server, and    *)
(* retries connect + ping up to five times one second apart before it     *)
(* panics; once the server is ready it requests a transaction, sends the   *)
(* operation's request and decodes the answer.  Failures after the ping    *)
(* are returned as errors and not retried.                                 *)
(*                                                                         *)
(* The server is environment: it is down, starting (accepting connections *)
(* but answering the ping with not-ready) or ready, and may crash, which   *)
(* drops the client's connection.  A ready server executes a request and  *)
(* answers with a result, an error status, or (if MalformedReplies) bytes *)
(* that do not decode.                                                     *)
(***************************************************************************)
EXTENDS Naturals

CONSTANTS
  CallOps,           \* the operations the caller may invoke (a subset of Ops)
  MaxCalls,          \* bound on the number of operations invoked
  MaxCrashes,        \* bound on server crashes
  MalformedReplies   \* whether the server may answer with undecodable bytes

-----------------------------------------------------------------------------
(* The operations of indradb::Transaction.  They all marshal a request,   *)
(* send it over the connection of execute() and decode the answer with    *)
(* `?`, so that a reply that does not decode is an error, except          *)
(* create_vertex_from_type, which decodes the uuid with unwrap() and      *)
(* panics.  onMalformed records that difference.                          *)
CreateVertex == [name |-> "create_vertex", onMalformed |-> "err"]
CreateVertexFromType == [name |-> "create_vertex_from_type", onMalformed |-> "panic"]
GetVertices == [name |-> "get_vertices", onMalformed |-> "err"]
DeleteVertices == [name |-> "delete_vertices", onMalformed |-> "err"]
GetVertexCount == [name |-> "get_vertex_count", onMalformed |-> "err"]
CreateEdge == [name |-> "create_edge", onMalformed |-> "err"]
GetEdges == [name |-> "get_edges", onMalformed |-> "err"]
DeleteEdges == [name |-> "delete_edges", onMalformed |-> "err"]
GetEdgeCount == [name |-> "get_edge_count", onMalformed |-> "err"]
GetVertexMetadata == [name |-> "get_vertex_metadata", onMalformed |-> "err"]
SetVertexMetadata == [name |-> "set_vertex_metadata", onMalformed |-> "err"]
DeleteVertexMetadata == [name |-> "delete_vertex_metadata", onMalformed |-> "err"]
GetEdgeMetadata == [name |-> "get_edge_metadata", onMalformed |-> "err"]
SetEdgeMetadata == [name |-> "set_edge_metadata", onMalformed |-> "err"]
DeleteEdgeMetadata == [name |-> "delete_edge_metadata", onMalformed |-> "err"]

Ops == {CreateVertex, CreateVertexFromType, GetVertices, DeleteVertices,
        GetVertexCount, CreateEdge, GetEdges, DeleteEdges, GetEdgeCount,
        GetVertexMetadata, SetVertexMetadata, DeleteVertexMetadata,
        GetEdgeMetadata, SetEdgeMetadata, DeleteEdgeMetadata}

ASSUME CallOpsAssumption == CallOps \subseteq Ops /\ CallOps # {}
ASSUME BoundsAssumption == MaxCalls \in Nat /\ MaxCrashes \in Nat
ASSUME MalformedAssumption == MalformedReplies \in BOOLEAN

(* for _ in 0..5 (client_datastore.rs:50) *)
MaxAttempts == 5

Replies == {"ok", "status"} \cup (IF MalformedReplies THEN {"malformed"} ELSE {})

-----------------------------------------------------------------------------
VARIABLES
  pc,        \* where the calling thread is in execute()
  op,        \* the operation in progress
  attempt,   \* connection attempts made by this execute()
  conn,      \* the connection of the current attempt is open
  reply,     \* the server's answer to the request, once sent ("none" before)
  result,    \* the Result the operation returned: "none", "ok" or "err"
  calls,     \* number of operations invoked; the current one is calls
  executed,  \* ghost: executed[i] counts executions of call i by the server
  srv,       \* the server process: "down", "starting" or "ready"
  crashes    \* number of server crashes so far

vars == <<pc, op, attempt, conn, reply, result, calls, executed, srv, crashes>>
serverVars == <<srv, crashes>>

Init ==
  /\ pc = "idle"
  /\ op \in CallOps
  /\ attempt = 0
  /\ conn = FALSE
  /\ reply = "none"
  /\ result = "none"
  /\ calls = 0
  /\ executed = [i \in 1..MaxCalls |-> 0]
  /\ srv \in {"down", "starting", "ready"}
  /\ crashes = 0

-----------------------------------------------------------------------------
(* Plausible bugs, each used in place of the definition it mutates.       *)

(* A call whose connection dropped is retried from the top of execute().  *)
CallLostRetried ==
  /\ pc = "call"
  /\ ~conn
  /\ pc' = "sleep"
  /\ reply' = "none"
  /\ UNCHANGED <<op, attempt, conn, result, calls, executed, serverVars>>

(* An error status is taken for a successful answer.                      *)
ReceiveStatusAsOk ==
  /\ pc = "call"
  /\ conn
  /\ reply # "none"
  /\ IF reply = "malformed" /\ op.onMalformed = "panic"
       THEN pc' = "panicked" /\ result' = result
       ELSE /\ pc' = "done"
            /\ result' = IF reply = "malformed" THEN "err" ELSE "ok"
  /\ UNCHANGED <<op, attempt, conn, reply, calls, executed, serverVars>>

(* A not-ready answer makes the client ping again on the same connection  *)
(* instead of sleeping and counting an attempt.                            *)
PingAnswerWaits ==
  /\ pc = "ping"
  /\ conn
  /\ srv = "ready"
  /\ pc' = "call"
  /\ UNCHANGED <<op, attempt, conn, reply, result, calls, executed, serverVars>>

(* The answer is handed back without the map_err of line 65: the raw    *)
(* status or decode failure is returned in place of an indradb::Error.    *)
ReceiveUnmapped ==
  /\ pc = "call"
  /\ conn
  /\ reply # "none"
  /\ IF reply = "malformed" /\ op.onMalformed = "panic"
       THEN pc' = "panicked" /\ result' = result
       ELSE pc' = "done" /\ result' = reply
  /\ UNCHANGED <<op, attempt, conn, reply, calls, executed, serverVars>>

-----------------------------------------------------------------------------
(* The caller invokes an operation; execute() starts (lines 44-48).       *)
Invoke(o) ==
  /\ pc \in {"idle", "done"}
  /\ calls < MaxCalls
  /\ pc' = "connect"
  /\ op' = o
  /\ attempt' = 0
  /\ conn' = FALSE
  /\ reply' = "none"
  /\ result' = "none"
  /\ calls' = calls + 1
  /\ UNCHANGED <<executed, serverVars>>

(* One loop iteration connects; a server that is not up refuses           *)
(* (lines 50-58).                                                          *)
Connect ==
  /\ pc = "connect"
  /\ attempt < MaxAttempts
  /\ attempt' = attempt + 1
  /\ IF srv = "down"
       THEN pc' = "sleep" /\ conn' = FALSE
       ELSE pc' = "ping" /\ conn' = TRUE
  /\ UNCHANGED <<op, reply, result, calls, executed, serverVars>>

(* The ping is answered: ready goes on to the operation, not ready to the *)
(* sleep at the end of the iteration (lines 59-62).                        *)
PingAnswer ==
  /\ pc = "ping"
  /\ conn
  /\ pc' = IF srv = "ready" THEN "call" ELSE "sleep"
  /\ UNCHANGED <<op, attempt, conn, reply, result, calls, executed, serverVars>>

(* The connection drops before the ping's answer: core.run(..).unwrap()   *)
(* panics (line 60).                                                       *)
PingLost ==
  /\ pc = "ping"
  /\ ~conn
  /\ pc' = "panicked"
  /\ UNCHANGED <<op, attempt, conn, reply, result, calls, executed, serverVars>>

(* sleep(1 s), then the next iteration, or the panic after the fifth      *)
(* (lines 69-72).                                                          *)
Sleep ==
  /\ pc = "sleep"
  /\ pc' = IF attempt < MaxAttempts THEN "connect" ELSE "panicked"
  /\ UNCHANGED <<op, attempt, conn, reply, result, calls, executed, serverVars>>

(* The server executes the transaction request and the operation's        *)
(* request and answers (lines 63-64: the server side).  An error status   *)
(* means the operation did not take effect.                                *)
ServerHandle ==
  /\ pc = "call"
  /\ conn
  /\ srv = "ready"
  /\ reply = "none"
  /\ \E r \in Replies :
       /\ reply' = r
       /\ executed' = IF r = "status" THEN executed
                      ELSE [executed EXCEPT ![calls] = @ + 1]
  /\ UNCHANGED <<pc, op, attempt, conn, result, calls, serverVars>>

(* The answer arrives and is decoded by the operation's and_then: Ok, an  *)
(* error status or a decode error becomes Err through `?` and map_err      *)
(* (line 65); a bad uuid in create_vertex_from_type panics (line 97).      *)
Receive ==
  /\ pc = "call"
  /\ conn
  /\ reply # "none"
  /\ IF reply = "malformed" /\ op.onMalformed = "panic"
       THEN pc' = "panicked" /\ result' = result
       ELSE /\ pc' = "done"
            /\ result' = IF reply = "ok" THEN "ok" ELSE "err"
  /\ UNCHANGED <<op, attempt, conn, reply, calls, executed, serverVars>>

(* The connection drops while the operation is in flight: the future      *)
(* fails and execute() returns Err without retrying (line 65).            *)
CallLost ==
  /\ pc = "call"
  /\ ~conn
  /\ pc' = "done"
  /\ result' = "err"
  /\ UNCHANGED <<op, attempt, conn, reply, calls, executed, serverVars>>

(* The server process: it starts, becomes ready, or crashes and drops     *)
(* the connection.                                                         *)
ServerStart ==
  /\ srv = "down"
  /\ srv' = "starting"
  /\ UNCHANGED <<pc, op, attempt, conn, reply, result, calls, executed, crashes>>

ServerReady ==
  /\ srv = "starting"
  /\ srv' = "ready"
  /\ UNCHANGED <<pc, op, attempt, conn, reply, result, calls, executed, crashes>>

ServerCrash ==
  /\ srv # "down"
  /\ crashes < MaxCrashes
  /\ srv' = "down"
  /\ conn' = FALSE
  /\ crashes' = crashes + 1
  /\ UNCHANGED <<pc, op, attempt, reply, result, calls, executed>>

Client ==
  \/ Connect \/ PingAnswer \/ PingLost \/ Sleep \/ Receive \/ CallLost

Server == ServerHandle \/ ServerStart \/ ServerReady \/ ServerCrash

Next == (\E o \in CallOps : Invoke(o)) \/ Client \/ Server

(* The calling thread runs execute() to its end; a ready server with an   *)
(* open connection answers the request.  Nothing forces the server to     *)
(* start or the caller to invoke another operation.                        *)
Fairness == WF_vars(Client) /\ WF_vars(ServerHandle)

Spec == Init /\ [][Next]_vars /\ Fairness

-----------------------------------------------------------------------------
PCs == {"idle", "connect", "ping", "sleep", "call", "done", "panicked"}

TypeOK ==
  /\ pc \in PCs
  /\ op \in CallOps
  /\ attempt \in 0..MaxAttempts
  /\ conn \in BOOLEAN
  /\ reply \in {"none"} \cup Replies
  /\ result \in {"none", "ok", "err"}
  /\ calls \in 0..MaxCalls
  /\ executed \in [1..MaxCalls -> Nat]
  /\ srv \in {"down", "starting", "ready"}
  /\ crashes \in 0..MaxCrashes

(* Spec, section 4.1: an operation is never applied twice, even when the  *)
(* server crashes and restarts around it: RPC failures after a successful *)
(* ping are returned, not retried (line 65).                               *)
AtMostOnce == \A i \in 1..MaxCalls : executed[i] <= 1

(* Every operation returns or the process panics (the retry loop is       *)
(* bounded, lines 50-72), whatever the server does.                        *)
CallEnds == (pc \notin {"idle", "done", "panicked"}) ~> (pc \in {"done", "panicked"})

(* The legacy client implements the remote-call contract of RemoteCall.   *)
Status ==
  CASE pc = "idle" -> "idle"
    [] pc \in {"connect", "ping", "sleep", "call"} -> "busy"
    [] pc = "done" -> result
    [] pc = "panicked" -> "fatal"

RC == INSTANCE RemoteCall WITH status <- Status
RCSpec == RC!Spec

(* Spec, sections 4.1 and 8.5: the process terminates only once five      *)
(* attempts have failed; readiness-probe failures are retried.             *)
FatalOnlyAfterRetries == pc = "panicked" => attempt = MaxAttempts

(* Spec, section 7: a reply that does not decode is returned to the       *)
(* caller as a conversion error, never fatal.                              *)
ConversionSurfaced == (reply = "malformed" /\ pc \in {"done", "panicked"}) => result = "err"
=============================================================================
