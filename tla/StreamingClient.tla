--------------------------- MODULE StreamingClient ---------------------------
(***************************************************************************)
(* The streaming (gRPC) client, Client in proto/src/client.rs: Client::new *)
(* connects once; the client is then cloned into several tasks that issue  *)
(* calls concurrently over the one channel.  A unary call awaits one       *)
(* answer and converts it; get (lines 149-157) reads a server stream to    *)
(* its end or its first error.  There is no retry anywhere.  bulk_insert  *)
(* is the module BulkInsert.                                               *)
(*                                                                         *)
(* The server and the network are environment: an answer is a value, an   *)
(* error status (the call may or may not have been executed before the    *)
(* connection or the server failed), or a payload that does not convert;   *)
(* a query's stream is a sequence of values, possibly malformed, ended by  *)
(* the end of the stream or by an error status.                            *)
(***************************************************************************)
EXTENDS Naturals, Sequences

CONSTANTS
  Tasks,       \* the tasks sharing the client
  CallOps,     \* the operations they may call (a subset of Ops)
  MaxCalls,    \* bound on the calls of each task
  StreamLen    \* bound on the number of values in a query's stream

-----------------------------------------------------------------------------
(* The operations.  decode is what the client does with the answer:       *)
(* "none" reads a field that cannot fail, "try_into" converts it and may  *)
(* fail with a Conversion error, "plugin" is execute_plugin's Option:     *)
(* None becomes Json Null, Some is converted; "stream" is get.            *)
Ping == [name |-> "ping", decode |-> "none"]
Sync == [name |-> "sync", decode |-> "none"]
CreateVertex == [name |-> "create_vertex", decode |-> "none"]
CreateVertexFromType == [name |-> "create_vertex_from_type", decode |-> "try_into"]
CreateEdge == [name |-> "create_edge", decode |-> "none"]
Get == [name |-> "get", decode |-> "stream"]
Delete == [name |-> "delete", decode |-> "none"]
SetProperties == [name |-> "set_properties", decode |-> "none"]
IndexProperty == [name |-> "index_property", decode |-> "none"]
ExecutePlugin == [name |-> "execute_plugin", decode |-> "plugin"]

Ops == {Ping, Sync, CreateVertex, CreateVertexFromType, CreateEdge, Get,
        Delete, SetProperties, IndexProperty, ExecutePlugin}

ASSUME TasksAssumption == Tasks # {}
ASSUME CallOpsAssumption == CallOps \subseteq Ops
ASSUME BoundsAssumption == MaxCalls \in Nat /\ StreamLen \in Nat

(* The answers the server may give to a unary call of o.                   *)
Answers(o) ==
  {"ok", "status"}
    \cup (IF o.decode \in {"try_into", "plugin"} THEN {"malformed"} ELSE {})
    \cup (IF o.decode = "plugin" THEN {"null"} ELSE {})

(* The streams a query may produce: values "v" or malformed "bad", then   *)
(* "end" or an error "status".                                             *)
Streams ==
  {s \o <<e>> : s \in UNION {[1..n -> {"v", "bad"}] : n \in 0..StreamLen},
                e \in {"end", "status"}}

(* The ClientError a failed answer becomes (lines 19-28 and the From      *)
(* conversions of lines 52-68).                                            *)
ErrorOf(r) ==
  CASE r = "status" -> "grpc"
    [] r = "malformed" -> "conversion"

-----------------------------------------------------------------------------
VARIABLES
  conn,      \* Client::new: "none" before, "connected", or "failed"
  tpc,       \* tpc[t]: "idle", "await" (the request is out), "stream", "done"
  op,        \* op[t]: the operation of t's current call
  calls,     \* calls[t]: the calls t has made; the current one is calls[t]
  reply,     \* reply[t]: the server's answer to the current call, or "none"
  stream,    \* stream[t]: what remains to be read of a query's stream
  emitted,   \* ghost: emitted[t] is the whole stream the server sent
  out,       \* out[t]: the values get has collected so far
  result,    \* result[t]: "none", "ok", "grpc", "conversion", "cancelled"
  executed,  \* ghost: executed[t][i] counts executions of t's call i
  dropped    \* dropped[t]: t's calls whose future was dropped while their
             \* request was still unanswered at the server

vars == <<conn, tpc, op, calls, reply, stream, emitted, out, result, executed, dropped>>

Init ==
  /\ conn = "none"
  /\ tpc = [t \in Tasks |-> "idle"]
  /\ op \in [Tasks -> CallOps]
  /\ calls = [t \in Tasks |-> 0]
  /\ reply = [t \in Tasks |-> "none"]
  /\ stream = [t \in Tasks |-> <<>>]
  /\ emitted = [t \in Tasks |-> <<>>]
  /\ out = [t \in Tasks |-> <<>>]
  /\ result = [t \in Tasks |-> "none"]
  /\ executed = [t \in Tasks |-> [i \in 1..MaxCalls |-> 0]]
  /\ dropped = [t \in Tasks |-> {}]

-----------------------------------------------------------------------------
(* Plausible bugs, each used in place of the definition it mutates.       *)

(* The stream is read with `while let Some(Ok(res))`: an error status ends *)
(* the loop as if the stream had ended.                                    *)
GetNextStatusAsEnd(t) ==
  /\ tpc[t] = "stream"
  /\ LET h == Head(stream[t]) IN
       IF h = "v"
         THEN /\ out' = [out EXCEPT ![t] = Append(@, h)]
              /\ stream' = [stream EXCEPT ![t] = Tail(@)]
              /\ UNCHANGED <<tpc, result>>
         ELSE /\ tpc' = [tpc EXCEPT ![t] = "done"]
              /\ result' = [result EXCEPT ![t] = IF h = "bad" THEN "conversion" ELSE "ok"]
              /\ UNCHANGED <<out, stream>>
  /\ UNCHANGED <<conn, op, calls, reply, emitted, executed, dropped>>

(* The stream's end is not recognised and the loop waits for more.        *)
GetNextEndWaits(t) ==
  /\ tpc[t] = "stream"
  /\ LET h == Head(stream[t]) IN
       CASE h = "v" -> /\ out' = [out EXCEPT ![t] = Append(@, h)]
                       /\ stream' = [stream EXCEPT ![t] = Tail(@)]
                       /\ UNCHANGED <<tpc, result>>
         [] h = "end" -> UNCHANGED <<tpc, result, out, stream>>
         [] OTHER -> /\ tpc' = [tpc EXCEPT ![t] = "done"]
                     /\ result' = [result EXCEPT ![t] = ErrorOf(IF h = "bad" THEN "malformed" ELSE h)]
                     /\ UNCHANGED <<out, stream>>
  /\ UNCHANGED <<conn, op, calls, reply, emitted, executed, dropped>>

(* A payload that does not convert falls back to a default value.         *)
ReceiveDefaulting(t) ==
  /\ tpc[t] = "await"
  /\ reply[t] # "none"
  /\ IF reply[t] = "stream"
       THEN tpc' = [tpc EXCEPT ![t] = "stream"] /\ UNCHANGED result
       ELSE /\ tpc' = [tpc EXCEPT ![t] = "done"]
            /\ result' = [result EXCEPT ![t] = IF reply[t] = "status" THEN "grpc" ELSE "ok"]
  /\ UNCHANGED <<conn, op, calls, reply, stream, emitted, out, executed, dropped>>

(* An error status is taken for a successful answer.                      *)
ReceiveStatusAsOk(t) ==
  /\ tpc[t] = "await"
  /\ reply[t] # "none"
  /\ IF reply[t] = "stream"
       THEN tpc' = [tpc EXCEPT ![t] = "stream"] /\ UNCHANGED result
       ELSE /\ tpc' = [tpc EXCEPT ![t] = "done"]
            /\ result' = [result EXCEPT ![t] = IF reply[t] = "malformed" THEN "conversion" ELSE "ok"]
  /\ UNCHANGED <<conn, op, calls, reply, stream, emitted, out, executed, dropped>>

(* The answer is returned without the From conversions into ClientError.  *)
ReceiveUnmapped(t) ==
  /\ tpc[t] = "await"
  /\ reply[t] # "none"
  /\ IF reply[t] = "stream"
       THEN tpc' = [tpc EXCEPT ![t] = "stream"] /\ UNCHANGED result
       ELSE /\ tpc' = [tpc EXCEPT ![t] = "done"]
            /\ result' = [result EXCEPT ![t] = IF reply[t] = "null" THEN "ok" ELSE reply[t]]
  /\ UNCHANGED <<conn, op, calls, reply, stream, emitted, out, executed, dropped>>

-----------------------------------------------------------------------------
(* Client::new (lines 90-93): one connection attempt; a failure is         *)
(* returned as a Transport error, with no retry.                           *)
New ==
  /\ conn = "none"
  /\ conn' \in {"connected", "failed"}
  /\ UNCHANGED <<tpc, op, calls, reply, stream, emitted, out, result, executed, dropped>>

(* Task t calls operation o on its clone of the client: the request is    *)
(* built and sent (the first lines of each method, 96-249).               *)
Invoke(t, o) ==
  /\ conn = "connected"
  /\ tpc[t] \in {"idle", "done"}
  /\ calls[t] < MaxCalls
  /\ tpc' = [tpc EXCEPT ![t] = "await"]
  /\ op' = [op EXCEPT ![t] = o]
  /\ calls' = [calls EXCEPT ![t] = @ + 1]
  /\ reply' = [reply EXCEPT ![t] = "none"]
  /\ stream' = [stream EXCEPT ![t] = <<>>]
  /\ emitted' = [emitted EXCEPT ![t] = <<>>]
  /\ out' = [out EXCEPT ![t] = <<>>]
  /\ result' = [result EXCEPT ![t] = "none"]
  /\ UNCHANGED <<conn, executed, dropped>>

(* The server answers t's request.  An error status may come after the    *)
(* call was executed (the answer was lost) or before; a query answers     *)
(* with a stream.                                                          *)
ServerReply(t) ==
  /\ tpc[t] = "await"
  /\ reply[t] = "none"
  /\ \/ \E ex \in {0, 1} :
          /\ reply' = [reply EXCEPT ![t] = "status"]
          /\ executed' = [executed EXCEPT ![t][calls[t]] = @ + ex]
          /\ UNCHANGED <<stream, emitted>>
     \/ /\ op[t].decode # "stream"
        /\ \E r \in Answers(op[t]) \ {"status"} :
             reply' = [reply EXCEPT ![t] = r]
        /\ executed' = [executed EXCEPT ![t][calls[t]] = @ + 1]
        /\ UNCHANGED <<stream, emitted>>
     \/ /\ op[t].decode = "stream"
        /\ \E s \in Streams :
             /\ reply' = [reply EXCEPT ![t] = "stream"]
             /\ stream' = [stream EXCEPT ![t] = s]
             /\ emitted' = [emitted EXCEPT ![t] = s]
        /\ executed' = [executed EXCEPT ![t][calls[t]] = @ + 1]
  /\ UNCHANGED <<conn, tpc, op, calls, out, result, dropped>>

(* The awaited answer arrives: `.await?` turns a status into a Grpc error;*)
(* try_into()? turns a payload that does not convert into a Conversion   *)
(* error; execute_plugin's None becomes Json Null (lines 244-248); get    *)
(* goes on to read its stream (line 152).                                 *)
Receive(t) ==
  /\ tpc[t] = "await"
  /\ reply[t] # "none"
  /\ IF reply[t] = "stream"
       THEN tpc' = [tpc EXCEPT ![t] = "stream"] /\ UNCHANGED result
       ELSE /\ tpc' = [tpc EXCEPT ![t] = "done"]
            /\ result' = [result EXCEPT ![t] =
                             IF reply[t] \in {"ok", "null"} THEN "ok" ELSE ErrorOf(reply[t])]
  /\ UNCHANGED <<conn, op, calls, reply, stream, emitted, out, executed, dropped>>

(* One iteration of get's loop (lines 153-156): a value is converted and  *)
(* pushed; a malformed value or an error status returns the error and     *)
(* drops what was collected; the end of the stream returns the output.    *)
GetNext(t) ==
  /\ tpc[t] = "stream"
  /\ LET h == Head(stream[t]) IN
       IF h = "v"
         THEN /\ out' = [out EXCEPT ![t] = Append(@, h)]
              /\ stream' = [stream EXCEPT ![t] = Tail(@)]
              /\ UNCHANGED <<tpc, result>>
         ELSE /\ tpc' = [tpc EXCEPT ![t] = "done"]
              /\ result' = [result EXCEPT ![t] =
                               CASE h = "end" -> "ok"
                                 [] h = "bad" -> ErrorOf("malformed")
                                 [] h = "status" -> ErrorOf("status")]
              /\ UNCHANGED <<out, stream>>
  /\ UNCHANGED <<conn, op, calls, reply, emitted, executed, dropped>>

(* The task drops the future of its call (spec, section 5).  A request   *)
(* the server has not answered yet stays with the server: tonic resets   *)
(* the HTTP/2 stream, but the server may already be running the call.    *)
Cancel(t) ==
  /\ tpc[t] \in {"await", "stream"}
  /\ tpc' = [tpc EXCEPT ![t] = "done"]
  /\ result' = [result EXCEPT ![t] = "cancelled"]
  /\ dropped' = [dropped EXCEPT ![t] =
                   IF tpc[t] = "await" /\ reply[t] = "none" THEN @ \cup {calls[t]} ELSE @]
  /\ UNCHANGED <<conn, op, calls, reply, stream, emitted, out, executed>>

(* The server finishes with a request whose future was dropped: it        *)
(* executes it, possibly after the task has begun its next call, or it    *)
(* sees the reset first and never runs it.  No answer reaches the task.   *)
ServerAbandoned(t) ==
  \E i \in dropped[t], ex \in {0, 1} :
     /\ executed' = [executed EXCEPT ![t][i] = @ + ex]
     /\ dropped' = [dropped EXCEPT ![t] = @ \ {i}]
     /\ UNCHANGED <<conn, tpc, op, calls, reply, stream, emitted, out, result>>

Next ==
  \/ New
  \/ \E t \in Tasks, o \in CallOps : Invoke(t, o)
  \/ \E t \in Tasks : ServerReply(t) \/ Receive(t) \/ GetNext(t) \/ Cancel(t)
  \/ \E t \in Tasks : ServerAbandoned(t)

(* Each task is a tokio task that runs when its future is ready; the      *)
(* server answers every request.                                           *)
Fairness ==
  /\ WF_vars(New)
  /\ \A t \in Tasks : WF_vars(Receive(t) \/ GetNext(t)) /\ WF_vars(ServerReply(t))

Spec == Init /\ [][Next]_vars /\ Fairness

-----------------------------------------------------------------------------
Results == {"none", "ok", "grpc", "conversion", "cancelled"}

TypeOK ==
  /\ conn \in {"none", "connected", "failed"}
  /\ tpc \in [Tasks -> {"idle", "await", "stream", "done"}]
  /\ op \in [Tasks -> CallOps]
  /\ calls \in [Tasks -> 0..MaxCalls]
  /\ reply \in [Tasks -> {"none", "ok", "null", "malformed", "status", "stream"}]
  /\ stream \in [Tasks -> Seq({"v", "bad", "end", "status"})]
  /\ emitted \in [Tasks -> Seq({"v", "bad", "end", "status"})]
  /\ out \in [Tasks -> Seq({"v"})]
  /\ result \in [Tasks -> Results]
  /\ executed \in [Tasks -> [1..MaxCalls -> Nat]]
  /\ dropped \in [Tasks -> SUBSET (1..MaxCalls)]

(* Spec, section 4.2: get returns Ok only with every value of the         *)
(* server's stream, in emission order, after the stream has ended; an    *)
(* error in the stream, even after some values, is returned as an error.  *)
GetFaithful ==
  \A t \in Tasks :
    (tpc[t] = "done" /\ op[t] = Get /\ result[t] = "ok")
      => emitted[t] = out[t] \o <<"end">>

(* Spec, section 7: a payload that does not convert is always returned to *)
(* the caller as a Conversion error (unlike the legacy client's unwrap).  *)
ConversionSurfaced ==
  \A t \in Tasks :
    (tpc[t] = "done" /\ reply[t] = "malformed") => result[t] \in {"conversion", "cancelled"}

(* Every call a task makes returns, whatever the server answers: there is *)
(* no retry loop and a stream is read to its end or its first error.      *)
CallReturns ==
  \A t \in Tasks : (tpc[t] \in {"await", "stream"}) ~> (tpc[t] = "done")

(* Each task's calls keep the contract of a remote call (RemoteCall).    *)
Status(t) ==
  CASE tpc[t] = "idle" -> "idle"
    [] tpc[t] \in {"await", "stream"} -> "busy"
    [] tpc[t] = "done" -> IF result[t] = "ok" THEN "ok" ELSE "err"

RC(t) == INSTANCE RemoteCall WITH status <- Status(t), calls <- calls[t], executed <- executed[t]
(* \A t \in Tasks : RC(t)!Spec, written as one initial predicate and one  *)
(* action property, the form in which TLC checks it.                      *)
RCSpecAll ==
  /\ \A t \in Tasks : RC(t)!Init
  /\ [][\A t \in Tasks : [RC(t)!Next]_(RC(t)!vars)]_vars
=============================================================================
