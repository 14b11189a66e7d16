----------------------- MODULE StreamingClientProofs -----------------------
(***************************************************************************)
(* Proofs about the streaming client of StreamingClient, for every set of  *)
(* tasks, every set of operations and every bound on calls and streams.   *)
(***************************************************************************)
EXTENDS StreamingClient, SequenceLemmas, TLAPS

(* A stream still to be read: values or malformed values, then one         *)
(* terminator, the end of the stream or an error status.                   *)
Terminated(s) ==
  /\ s \in Seq({"v", "bad", "end", "status"})
  /\ s # << >>
  /\ s[Len(s)] \in {"end", "status"}
  /\ \A i \in 1..(Len(s) - 1) : s[i] \in {"v", "bad"}

(* What holds of each task's call at every step.  The stream invariant     *)
(* says that get's output followed by the unread rest of the stream is     *)
(* what the server emitted; the reply invariants tie the answer to the     *)
(* operation and to the ghost count of executions; a dropped request is   *)
(* an earlier call, or the current one once it was cancelled unanswered,  *)
(* and has not been executed yet.                                          *)
TaskInv(t) ==
  /\ tpc[t] = "idle" => reply[t] = "none"
  /\ tpc[t] # "idle" => calls[t] \in 1..MaxCalls
  /\ tpc[t] = "await" => out[t] = << >>
  /\ tpc[t] = "await" /\ reply[t] # "stream" => stream[t] = << >> /\ emitted[t] = << >>
  /\ tpc[t] = "await" /\ reply[t] = "stream" => stream[t] = emitted[t] /\ Terminated(stream[t])
  /\ tpc[t] = "stream" => /\ reply[t] = "stream"
                          /\ emitted[t] = out[t] \o stream[t]
                          /\ Terminated(stream[t])
  /\ op[t].decode = "stream" => reply[t] \in {"none", "status", "stream"}
  /\ (tpc[t] = "done" /\ op[t] = Get /\ result[t] = "ok") => emitted[t] = out[t] \o << "end" >>
  /\ (tpc[t] = "done" /\ reply[t] = "malformed") => result[t] \in {"conversion", "cancelled"}
  /\ \A i \in 1..MaxCalls : executed[t][i] <= 1 /\ (i > calls[t] => executed[t][i] = 0)
  /\ tpc[t] = "await" /\ reply[t] = "none" => executed[t][calls[t]] = 0
  /\ reply[t] \in {"ok", "null", "malformed", "stream"} => executed[t][calls[t]] = 1
  /\ \A i \in dropped[t] : /\ i \in 1..calls[t]
                           /\ executed[t][i] = 0
                           /\ i = calls[t] => tpc[t] = "done" /\ reply[t] = "none"

SInv == TypeOK /\ \A t \in Tasks : TaskInv(t)

-----------------------------------------------------------------------------
(* Every stream the server may send is terminated.                        *)
LEMMA StreamsTerminated ==
  ASSUME NEW s \in Streams PROVE Terminated(s)
<1>0. PICK n \in 0..StreamLen :
        \E b \in [1..n -> {"v", "bad"}], e \in {"end", "status"} : s = b \o << e >>
  BY DEF Streams
<1>1. PICK b \in [1..n -> {"v", "bad"}], e \in {"end", "status"} : s = b \o << e >>
  BY <1>0
<1>2. n \in Nat /\ b \in Seq({"v", "bad", "end", "status"}) /\ Len(b) = n
  BY <1>1, BoundsAssumption
<1>3. << e >> \in Seq({"v", "bad", "end", "status"})
  OBVIOUS
<1>4. /\ s \in Seq({"v", "bad", "end", "status"})
      /\ Len(s) = n + 1
      /\ \A i \in 1..(n + 1) : s[i] = IF i <= n THEN b[i] ELSE e
  BY <1>1, <1>2, <1>3, ConcatProperties
<1>. QED
  BY <1>1, <1>2, <1>4, EmptySeq DEF Terminated

(* The rest of a terminated stream that starts with a value is terminated, *)
(* and a terminated stream that starts with the end of the stream holds   *)
(* nothing else.                                                           *)
LEMMA TerminatedTail ==
  ASSUME NEW s, Terminated(s), Head(s) \in {"v", "bad"}
  PROVE  Terminated(Tail(s)) /\ Len(s) > 1
<1>1. s \in Seq({"v", "bad", "end", "status"}) /\ Len(s) \in Nat \ {0}
  BY EmptySeq DEF Terminated
<1>2. Len(s) > 1
  BY <1>1 DEF Terminated
<1>3. Tail(s) \in Seq({"v", "bad", "end", "status"}) /\ Len(Tail(s)) = Len(s) - 1
      /\ \A i \in 1..Len(Tail(s)) : Tail(s)[i] = s[i + 1]
  BY <1>1, HeadTailProperties
<1>4. Tail(s) # << >>
  BY <1>1, <1>2, <1>3, EmptySeq
<1>5. Tail(s)[Len(Tail(s))] = s[Len(s)]
  BY <1>2, <1>3
<1>6. \A i \in 1..(Len(Tail(s)) - 1) : Tail(s)[i] \in {"v", "bad"}
  BY <1>1, <1>3 DEF Terminated
<1>7. s[Len(s)] \in {"end", "status"}
  BY DEF Terminated
<1>. QED
  BY <1>2, <1>3, <1>4, <1>5, <1>6, <1>7 DEF Terminated

LEMMA TerminatedEnd ==
  ASSUME NEW s, Terminated(s), Head(s) \notin {"v", "bad"}
  PROVE  s = << Head(s) >> /\ Head(s) \in {"end", "status"}
<1>1. s \in Seq({"v", "bad", "end", "status"}) /\ Len(s) \in Nat \ {0}
  BY EmptySeq DEF Terminated
<1>2. Head(s) = s[1]
  OBVIOUS
<1>3. ~(Len(s) > 1)
  <2>1. CASE Len(s) > 1
    <3>1. s[1] \in {"v", "bad"}
      BY <2>1, <1>1 DEF Terminated
    <3>. QED
      BY <1>2, <3>1
  <2>. QED
    BY <2>1
<1>6. Len(s) = 1
  BY <1>1, <1>3
<1>5. s[1] \in {"end", "status"}
  BY <1>6 DEF Terminated
<1>4. s = << s[1] >>
  BY <1>1, <1>6
<1>. QED
  BY <1>2, <1>4, <1>5

(* A step that leaves task u's part of the state alone preserves TaskInv(u). *)
LEMMA TaskFrame ==
  ASSUME NEW u,
         tpc'[u] = tpc[u], op'[u] = op[u], calls'[u] = calls[u],
         reply'[u] = reply[u], stream'[u] = stream[u], emitted'[u] = emitted[u],
         out'[u] = out[u], result'[u] = result[u], executed'[u] = executed[u],
         dropped'[u] = dropped[u]
  PROVE  TaskInv(u)' <=> TaskInv(u)
  BY DEF TaskInv, Terminated

-----------------------------------------------------------------------------
(* The invariant holds initially and is kept by every step.              *)
LEMMA InitSInv == Init => SInv
<1> SUFFICES ASSUME Init PROVE SInv
  OBVIOUS
<1>1. TypeOK
  BY BoundsAssumption DEF Init, TypeOK, Results
<1>2. ASSUME NEW t \in Tasks PROVE TaskInv(t)
  BY DEF Init, TaskInv
<1>. QED
  BY <1>1, <1>2 DEF SInv

LEMMA ErrorOfValues ==
  ErrorOf("status") = "grpc" /\ ErrorOf("malformed") = "conversion"
  BY DEF ErrorOf

LEMMA GetDecode == \A o \in Ops : o.decode = "stream" <=> o = Get
  BY DEF Ops, Ping, Sync, CreateVertex, CreateVertexFromType, CreateEdge, Get,
         Delete, SetProperties, IndexProperty, ExecutePlugin

(* The server's execution count of a call: counting one more execution   *)
(* of call c of task t changes that entry only.                            *)
LEMMA ExecStep ==
  ASSUME NEW t \in Tasks, NEW c \in 1..MaxCalls, NEW k \in Nat,
         executed \in [Tasks -> [1..MaxCalls -> Nat]],
         executed' = [executed EXCEPT ![t][c] = @ + k]
  PROVE  /\ executed' \in [Tasks -> [1..MaxCalls -> Nat]]
         /\ executed'[t][c] = executed[t][c] + k
         /\ \A i \in 1..MaxCalls \ {c} : executed'[t][i] = executed[t][i]
         /\ \A u \in Tasks \ {t} : executed'[u] = executed[u]
<1>1. executed'[t] = [executed[t] EXCEPT ![c] = executed[t][c] + k]
  OBVIOUS
<1>4. executed[t] \in [1..MaxCalls -> Nat]
  BY Zenon
<1>5. executed[t][c] + k \in Nat
  BY <1>4
<1>2. executed'[t] \in [1..MaxCalls -> Nat]
  BY <1>1, <1>4, <1>5, Zenon
<1>3. executed' = [executed EXCEPT ![t] = executed'[t]]
  BY <1>1
<1>. QED
  BY <1>1, <1>2, <1>3

LEMMA NextSInv == SInv /\ [Next]_vars => SInv'
<1> SUFFICES ASSUME TypeOK, \A t \in Tasks : TaskInv(t), [Next]_vars
             PROVE  TypeOK' /\ \A u \in Tasks : TaskInv(u)'
  BY DEF SInv
<1>. USE DEF TypeOK
<1>1. CASE New
  <2>1. TypeOK'
    BY <1>1 DEF New
  <2>2. ASSUME NEW u \in Tasks PROVE TaskInv(u)'
    BY <1>1, TaskFrame DEF New
  <2>. QED
    BY <2>1, <2>2
<1>2. ASSUME NEW t \in Tasks, NEW o \in CallOps, Invoke(t, o)
      PROVE  TypeOK' /\ \A u \in Tasks : TaskInv(u)'
  <2>0. dropped' \in [Tasks -> SUBSET (1..MaxCalls)]
    BY <1>2, Zenon DEF Invoke
  <2>1. TypeOK'
    BY <1>2, <2>0, BoundsAssumption DEF Invoke, Results
  <2>2. TaskInv(t)'
    <3>1. calls'[t] = calls[t] + 1 /\ calls'[t] \in 1..MaxCalls
      BY <1>2, BoundsAssumption DEF Invoke
    <3>2. \A i \in 1..MaxCalls : executed[t][i] <= 1 /\ (i > calls[t] => executed[t][i] = 0)
      BY DEF TaskInv
    <3>3. o \in Ops /\ (o.decode = "stream" => "none" \in {"none", "status", "stream"})
      BY CallOpsAssumption
    <3>4. /\ dropped' = dropped
          /\ \A i \in dropped[t] : i \in 1..calls[t] /\ executed[t][i] = 0
      BY <1>2 DEF Invoke, TaskInv
    <3>5. \A i \in dropped'[t] : /\ i \in 1..calls'[t]
                                 /\ executed'[t][i] = 0
                                 /\ i = calls'[t] => tpc'[t] = "done" /\ reply'[t] = "none"
      BY <1>2, <3>1, <3>4 DEF Invoke
    <3>. QED
      BY <1>2, <3>1, <3>2, <3>3, <3>5 DEF Invoke, TaskInv
  <2>3. ASSUME NEW u \in Tasks \ {t} PROVE TaskInv(u)'
    BY <1>2, TaskFrame DEF Invoke
  <2>. QED
    BY <2>1, <2>2, <2>3
<1>3. ASSUME NEW t \in Tasks, ServerReply(t)
      PROVE  TypeOK' /\ \A u \in Tasks : TaskInv(u)'
  <2>0. /\ tpc[t] = "await" /\ reply[t] = "none"
        /\ calls[t] \in 1..MaxCalls /\ executed[t][calls[t]] = 0
        /\ stream[t] = << >> /\ emitted[t] = << >> /\ out[t] = << >>
        /\ \A i \in 1..MaxCalls : executed[t][i] <= 1 /\ (i > calls[t] => executed[t][i] = 0)
        /\ \A i \in dropped[t] : i \in 1..MaxCalls \ {calls[t]} /\ executed[t][i] = 0
        /\ dropped' = dropped
    BY <1>3 DEF ServerReply, TaskInv
  <2>1. CASE \E ex \in {0, 1} :
               /\ reply' = [reply EXCEPT ![t] = "status"]
               /\ executed' = [executed EXCEPT ![t][calls[t]] = @ + ex]
               /\ UNCHANGED <<stream, emitted>>
    <3>1. PICK ex \in {0, 1} :
               /\ reply' = [reply EXCEPT ![t] = "status"]
               /\ executed' = [executed EXCEPT ![t][calls[t]] = @ + ex]
               /\ UNCHANGED <<stream, emitted>>
      BY <2>1
    <3>0. /\ executed' \in [Tasks -> [1..MaxCalls -> Nat]]
          /\ executed'[t][calls[t]] = executed[t][calls[t]] + ex
          /\ \A i \in 1..MaxCalls \ {calls[t]} : executed'[t][i] = executed[t][i]
          /\ \A u \in Tasks \ {t} : executed'[u] = executed[u]
      <4>1. ex \in Nat
        BY <3>1
      <4>. QED
        BY <2>0, <3>1, <4>1, ExecStep
    <3>2. TypeOK'
      BY <1>3, <3>0, <3>1 DEF ServerReply
    <3>3. TaskInv(t)'
      BY <1>3, <2>0, <3>0, <3>1 DEF ServerReply, TaskInv
    <3>4. ASSUME NEW u \in Tasks \ {t} PROVE TaskInv(u)'
      BY <1>3, <3>1, TaskFrame DEF ServerReply
    <3>. QED
      BY <3>2, <3>3, <3>4
  <2>2. CASE /\ op[t].decode # "stream"
             /\ \E r \in Answers(op[t]) \ {"status"} : reply' = [reply EXCEPT ![t] = r]
             /\ executed' = [executed EXCEPT ![t][calls[t]] = @ + 1]
             /\ UNCHANGED <<stream, emitted>>
    <3>1. PICK r \in Answers(op[t]) \ {"status"} : reply' = [reply EXCEPT ![t] = r]
      BY <2>2
    <3>2. r \in {"ok", "malformed", "null"}
      BY DEF Answers
    <3>0. /\ executed' \in [Tasks -> [1..MaxCalls -> Nat]]
          /\ executed'[t][calls[t]] = executed[t][calls[t]] + 1
          /\ \A i \in 1..MaxCalls \ {calls[t]} : executed'[t][i] = executed[t][i]
          /\ \A u \in Tasks \ {t} : executed'[u] = executed[u]
      BY <2>0, <2>2, ExecStep
    <3>3. TypeOK'
      BY <1>3, <2>2, <3>0, <3>1, <3>2 DEF ServerReply
    <3>4. TaskInv(t)'
      BY <1>3, <2>0, <2>2, <3>0, <3>1, <3>2 DEF ServerReply, TaskInv
    <3>5. ASSUME NEW u \in Tasks \ {t} PROVE TaskInv(u)'
      BY <1>3, <2>2, <3>1, TaskFrame DEF ServerReply
    <3>. QED
      BY <3>3, <3>4, <3>5
  <2>3. CASE /\ op[t].decode = "stream"
             /\ \E s \in Streams :
                  /\ reply' = [reply EXCEPT ![t] = "stream"]
                  /\ stream' = [stream EXCEPT ![t] = s]
                  /\ emitted' = [emitted EXCEPT ![t] = s]
             /\ executed' = [executed EXCEPT ![t][calls[t]] = @ + 1]
    <3>1. PICK s \in Streams :
                  /\ reply' = [reply EXCEPT ![t] = "stream"]
                  /\ stream' = [stream EXCEPT ![t] = s]
                  /\ emitted' = [emitted EXCEPT ![t] = s]
      BY <2>3
    <3>2. Terminated(s) /\ s \in Seq({"v", "bad", "end", "status"})
      BY StreamsTerminated DEF Terminated
    <3>0. /\ executed' \in [Tasks -> [1..MaxCalls -> Nat]]
          /\ executed'[t][calls[t]] = executed[t][calls[t]] + 1
          /\ \A i \in 1..MaxCalls \ {calls[t]} : executed'[t][i] = executed[t][i]
          /\ \A u \in Tasks \ {t} : executed'[u] = executed[u]
      BY <2>0, <2>3, ExecStep
    <3>3. TypeOK'
      BY <1>3, <2>3, <3>0, <3>1, <3>2 DEF ServerReply
    <3>4. TaskInv(t)'
      BY <1>3, <2>0, <2>3, <3>0, <3>1, <3>2 DEF ServerReply, TaskInv
    <3>5. ASSUME NEW u \in Tasks \ {t} PROVE TaskInv(u)'
      BY <1>3, <2>3, <3>1, TaskFrame DEF ServerReply
    <3>. QED
      BY <3>3, <3>4, <3>5
  <2>. QED
    BY <1>3, <2>1, <2>2, <2>3 DEF ServerReply
<1>4. ASSUME NEW t \in Tasks, Receive(t)
      PROVE  TypeOK' /\ \A u \in Tasks : TaskInv(u)'
  <2>0. /\ tpc[t] = "await" /\ reply[t] # "none" /\ calls[t] \in 1..MaxCalls
        /\ out[t] = << >>
        /\ reply[t] = "stream" => stream[t] = emitted[t] /\ Terminated(stream[t])
        /\ op[t].decode = "stream" => reply[t] \in {"none", "status", "stream"}
        /\ \A i \in 1..MaxCalls : executed[t][i] <= 1 /\ (i > calls[t] => executed[t][i] = 0)
        /\ reply[t] \in {"ok", "null", "malformed", "stream"} => executed[t][calls[t]] = 1
    BY <1>4 DEF Receive, TaskInv
  <2>1. ASSUME NEW u \in Tasks \ {t} PROVE TaskInv(u)'
    BY <1>4, TaskFrame DEF Receive
  <2>2. CASE reply[t] = "stream"
    <3>1. emitted[t] = out[t] \o stream[t]
      BY <2>0, <2>2, ConcatEmptySeq DEF Terminated
    <3>2. TypeOK'
      BY <1>4, <2>2 DEF Receive
    <3>3. TaskInv(t)'
      BY <1>4, <2>0, <2>2, <3>1 DEF Receive, TaskInv
    <3>. QED
      BY <2>1, <3>2, <3>3
  <2>3. CASE reply[t] # "stream"
    <3>5. op[t] = Get => reply[t] = "status"
      BY <2>0, <2>3, GetDecode, CallOpsAssumption
    <3>0. reply[t] \in {"ok", "null"} \/ reply[t] \in {"malformed", "status"}
      BY <2>0, <2>3
    <3>1. result' = [result EXCEPT ![t] =
                       IF reply[t] \in {"ok", "null"} THEN "ok" ELSE ErrorOf(reply[t])]
      BY <1>4, <2>3 DEF Receive
    <3>4. (IF reply[t] \in {"ok", "null"} THEN "ok" ELSE ErrorOf(reply[t])) \in Results
      BY <3>0, ErrorOfValues DEF Results
    <3>2. TypeOK'
      BY <1>4, <2>3, <3>1, <3>4 DEF Receive, Results
    <3>6. /\ result'[t] = "ok" => reply[t] \in {"ok", "null"}
          /\ reply[t] = "malformed" => result'[t] = "conversion"
      BY <3>0, <3>1, ErrorOfValues
    <3>3. TaskInv(t)'
      BY <1>4, <2>0, <2>3, <3>5, <3>6 DEF Receive, TaskInv
    <3>. QED
      BY <2>1, <3>2, <3>3
  <2>. QED
    BY <2>2, <2>3
<1>5. ASSUME NEW t \in Tasks, GetNext(t)
      PROVE  TypeOK' /\ \A u \in Tasks : TaskInv(u)'
  <2>. DEFINE S == {"v", "bad", "end", "status"}
  <2>0. /\ tpc[t] = "stream" /\ reply[t] = "stream" /\ calls[t] \in 1..MaxCalls
        /\ emitted[t] = out[t] \o stream[t]
        /\ Terminated(stream[t])
        /\ stream[t] \in Seq(S) /\ stream[t] # << >> /\ out[t] \in Seq(S)
        /\ Head(stream[t]) \in S
        /\ \A i \in 1..MaxCalls : executed[t][i] <= 1 /\ (i > calls[t] => executed[t][i] = 0)
        /\ executed[t][calls[t]] = 1
    <3>1. tpc[t] = "stream"
      BY <1>5 DEF GetNext
    <3>2. out[t] \in Seq(S)
      BY SeqMonotonic
    <3>. QED
      BY <3>1, <3>2 DEF TaskInv, Terminated
  <2>1. ASSUME NEW u \in Tasks \ {t} PROVE TaskInv(u)'
    BY <1>5, TaskFrame DEF GetNext
  <2>2. CASE Head(stream[t]) = "v"
    <3>1. Terminated(Tail(stream[t]))
      BY <2>0, <2>2, TerminatedTail
    <3>2. Append(out[t], Head(stream[t])) \o Tail(stream[t]) = out[t] \o stream[t]
      BY <2>0, ConcatMoveHead
    <3>3. /\ out' = [out EXCEPT ![t] = Append(out[t], Head(stream[t]))]
          /\ stream' = [stream EXCEPT ![t] = Tail(stream[t])]
          /\ UNCHANGED <<tpc, result, conn, op, calls, reply, emitted, executed, dropped>>
      BY <1>5, <2>2 DEF GetNext
    <3>4. TypeOK'
      BY <2>2, <3>1, <3>3 DEF Terminated
    <3>5. TaskInv(t)'
      BY <2>0, <3>1, <3>2, <3>3 DEF TaskInv
    <3>. QED
      BY <2>1, <3>4, <3>5
  <2>3. CASE Head(stream[t]) # "v"
    <3>. DEFINE h == Head(stream[t])
    <3>1. /\ tpc' = [tpc EXCEPT ![t] = "done"]
          /\ result' = [result EXCEPT ![t] =
                           CASE h = "end" -> "ok"
                             [] h = "bad" -> ErrorOf("malformed")
                             [] h = "status" -> ErrorOf("status")]
          /\ UNCHANGED <<out, stream, conn, op, calls, reply, emitted, executed, dropped>>
      BY <1>5, <2>3 DEF GetNext
    <3>2. result'[t] = "ok" => h = "end"
      BY <2>0, <2>3, <3>1, ErrorOfValues
    <3>3. h = "end" => stream[t] = << "end" >>
      BY <2>0, TerminatedEnd
    <3>4. TypeOK'
      BY <2>0, <2>3, <3>1, ErrorOfValues DEF Results
    <3>5. TaskInv(t)'
      BY <2>0, <3>1, <3>2, <3>3 DEF TaskInv
    <3>. QED
      BY <2>1, <3>4, <3>5
  <2>. QED
    BY <2>2, <2>3
<1>6. ASSUME NEW t \in Tasks, Cancel(t)
      PROVE  TypeOK' /\ \A u \in Tasks : TaskInv(u)'
  <2>0. /\ tpc[t] \in {"await", "stream"} /\ calls[t] \in 1..MaxCalls
        /\ tpc[t] = "await" /\ reply[t] = "none" => executed[t][calls[t]] = 0
    BY <1>6 DEF Cancel, TaskInv
  <2>1. ASSUME NEW u \in Tasks \ {t} PROVE TaskInv(u)'
    BY <1>6, TaskFrame DEF Cancel
  <2>2. CASE tpc[t] = "await" /\ reply[t] = "none"
    <3>1. dropped' = [dropped EXCEPT ![t] = dropped[t] \cup {calls[t]}]
      BY <1>6, <2>2 DEF Cancel
    <3>2. TypeOK'
      BY <1>6, <2>0, <3>1 DEF Cancel, Results
    <3>3. TaskInv(t)'
      BY <1>6, <2>0, <2>2, <3>1 DEF Cancel, TaskInv
    <3>. QED
      BY <2>1, <3>2, <3>3
  <2>3. CASE ~(tpc[t] = "await" /\ reply[t] = "none")
    <3>1. dropped' = dropped
      BY <1>6, <2>3 DEF Cancel
    <3>2. TypeOK'
      BY <1>6, <3>1 DEF Cancel, Results
    <3>3. TaskInv(t)'
      BY <1>6, <3>1 DEF Cancel, TaskInv
    <3>. QED
      BY <2>1, <3>2, <3>3
  <2>. QED
    BY <2>2, <2>3
<1>8. ASSUME NEW t \in Tasks, ServerAbandoned(t)
      PROVE  TypeOK' /\ \A u \in Tasks : TaskInv(u)'
  <2>1. PICK i \in dropped[t] :
          \E ex \in {0, 1} :
            /\ executed' = [executed EXCEPT ![t][i] = @ + ex]
            /\ dropped' = [dropped EXCEPT ![t] = @ \ {i}]
            /\ UNCHANGED <<conn, tpc, op, calls, reply, stream, emitted, out, result>>
    BY <1>8 DEF ServerAbandoned
  <2>2. PICK ex \in {0, 1} :
            /\ executed' = [executed EXCEPT ![t][i] = @ + ex]
            /\ dropped' = [dropped EXCEPT ![t] = @ \ {i}]
            /\ UNCHANGED <<conn, tpc, op, calls, reply, stream, emitted, out, result>>
    BY <2>1
  <2>3. /\ i \in 1..calls[t] /\ i \in 1..MaxCalls /\ executed[t][i] = 0
        /\ i = calls[t] => tpc[t] = "done" /\ reply[t] = "none"
    <3>1. TaskInv(t)
      OBVIOUS
    <3>. QED
      BY <2>1, <3>1 DEF TaskInv
  <2>4. /\ executed' \in [Tasks -> [1..MaxCalls -> Nat]]
        /\ executed'[t][i] = executed[t][i] + ex
        /\ \A j \in 1..MaxCalls \ {i} : executed'[t][j] = executed[t][j]
        /\ \A u \in Tasks \ {t} : executed'[u] = executed[u]
    <3>1. ex \in Nat
      OBVIOUS
    <3>. QED
      BY <2>2, <2>3, <3>1, ExecStep
  <2>5. dropped'[t] = dropped[t] \ {i} /\ \A u \in Tasks \ {t} : dropped'[u] = dropped[u]
    BY <2>2
  <2>6. TypeOK'
    BY <2>2, <2>4, <2>5
  <2>7. TaskInv(t)'
    <3>1. TaskInv(t)
      OBVIOUS
    <3>2. \A j \in 1..MaxCalls : executed'[t][j] <= 1 /\ (j > calls'[t] => executed'[t][j] = 0)
      BY <2>2, <2>3, <2>4, <3>1 DEF TaskInv
    <3>3. tpc'[t] = "await" /\ reply'[t] = "none" => executed'[t][calls'[t]] = 0
      BY <2>2, <2>3, <2>4, <3>1 DEF TaskInv
    <3>4. reply'[t] \in {"ok", "null", "malformed", "stream"} => executed'[t][calls'[t]] = 1
      BY <2>2, <2>3, <2>4, <3>1 DEF TaskInv
    <3>5. \A j \in dropped'[t] : /\ j \in 1..calls'[t]
                                 /\ executed'[t][j] = 0
                                 /\ j = calls'[t] => tpc'[t] = "done" /\ reply'[t] = "none"
      BY <2>2, <2>4, <2>5, <3>1 DEF TaskInv
    <3>. QED
      BY <2>2, <3>1, <3>2, <3>3, <3>4, <3>5 DEF TaskInv
  <2>8. ASSUME NEW u \in Tasks \ {t} PROVE TaskInv(u)'
    BY <2>2, <2>4, <2>5, TaskFrame
  <2>. QED
    BY <2>6, <2>7, <2>8
<1>7. CASE UNCHANGED vars
  <2>1. ASSUME NEW u \in Tasks PROVE TaskInv(u)'
    BY <1>7, TaskFrame DEF vars
  <2>. QED
    BY <1>7, <2>1 DEF vars
<1>. QED
  BY <1>1, <1>2, <1>3, <1>4, <1>5, <1>6, <1>7, <1>8 DEF Next

-----------------------------------------------------------------------------
(* The client's state is always well typed.                                *)
THEOREM TypeCorrect == Spec => []TypeOK
<1>1. SInv => TypeOK
  BY DEF SInv
<1>. QED
  BY InitSInv, NextSInv, <1>1, PTL DEF Spec

(* Spec, section 4.2: get returns Ok only with every value the server      *)
(* streamed, in order, and only once the stream has ended (client.rs,      *)
(* lines 149-157), for any number of tasks sharing the client.            *)
THEOREM GetFaithfulHolds == Spec => []GetFaithful
<1>1. SInv => GetFaithful
  BY DEF SInv, TaskInv, GetFaithful
<1>. QED
  BY InitSInv, NextSInv, <1>1, PTL DEF Spec

(* Spec, section 7: a payload that does not convert reaches the caller as  *)
(* a Conversion error (the try_into()? and execute_plugin's conversion).   *)
THEOREM ConversionSurfacedHolds == Spec => []ConversionSurfaced
<1>1. SInv => ConversionSurfaced
  BY DEF SInv, TaskInv, ConversionSurfaced
<1>. QED
  BY InitSInv, NextSInv, <1>1, PTL DEF Spec

-----------------------------------------------------------------------------
(* Refinement of RemoteCall, task by task.  A task's call begins at        *)
(* Invoke, is executed when the server executes it (ServerReply with an    *)
(* execution, or ServerAbandoned once its future was dropped), and returns at Receive, at the end of get's stream or at    *)
(* Cancel; every other step, including every step of another task, leaves *)
(* the task's status, call count and executions alone.                     *)
LEMMA InitRefines == Init => \A t \in Tasks : RC(t)!Init
  BY DEF Init, RC!Init, Status

(* A step that leaves t's pc, result, calls and executions alone is a      *)
(* stutter of RC(t).                                                       *)
LEMMA RCStutter ==
  ASSUME NEW t, tpc'[t] = tpc[t], result'[t] = result[t],
         calls'[t] = calls[t], executed'[t] = executed[t]
  PROVE  UNCHANGED RC(t)!vars
  BY DEF RC!vars, Status

LEMMA StepRefines == SInv /\ [Next]_vars => \A t \in Tasks : [RC(t)!Next]_(RC(t)!vars)
<1> SUFFICES ASSUME TypeOK, \A u \in Tasks : TaskInv(u), [Next]_vars, NEW t \in Tasks
             PROVE  [RC(t)!Next]_(RC(t)!vars)
  BY DEF SInv
<1>. USE DEF TypeOK
<1>0. TaskInv(t)
  OBVIOUS
<1>1. CASE New
  BY <1>1, RCStutter DEF New
<1>2. ASSUME NEW u \in Tasks, NEW o \in CallOps, Invoke(u, o)
      PROVE  [RC(t)!Next]_(RC(t)!vars)
  <2>1. CASE u = t
    <3>1. RC(t)!Begin
      BY <1>2, <2>1, BoundsAssumption DEF Invoke, RC!Begin, Status
    <3>. QED
      BY <3>1 DEF RC!Next
  <2>2. CASE u # t
    BY <1>2, <2>2, RCStutter DEF Invoke
  <2>. QED
    BY <2>1, <2>2
<1>3. ASSUME NEW u \in Tasks, ServerReply(u)
      PROVE  [RC(t)!Next]_(RC(t)!vars)
  <2>1. CASE u # t
    BY <1>3, <2>1, RCStutter DEF ServerReply
  <2>2. CASE u = t
    <3>0. /\ tpc[t] = "await" /\ reply[t] = "none"
          /\ calls[t] \in 1..MaxCalls /\ executed[t][calls[t]] = 0
          /\ UNCHANGED <<tpc, result, calls>>
      BY <1>3, <2>2, <1>0 DEF ServerReply, TaskInv
    <3>1. PICK k \in {0, 1} : executed' = [executed EXCEPT ![t][calls[t]] = @ + k]
      BY <1>3, <2>2 DEF ServerReply
    <3>2. /\ executed'[t] = [executed[t] EXCEPT ![calls[t]] = k]
          /\ executed'[t][calls[t]] = k
      <4>1. k \in Nat
        BY <3>1
      <4>2. executed'[t][calls[t]] = executed[t][calls[t]] + k
        BY <3>0, <3>1, <4>1, ExecStep
      <4>. QED
        BY <3>0, <3>1, <4>1, <4>2
    <3>3. CASE k = 0
      <4>1. executed'[t] = executed[t]
        BY <3>0, <3>2, <3>3
      <4>. QED
        BY <3>0, <4>1, RCStutter
    <3>4. CASE k = 1
      <4>1. RC(t)!Execute(calls[t])
        BY <3>0, <3>2, <3>4 DEF RC!Execute, Status
      <4>. QED
        BY <3>0, <4>1 DEF RC!Next
    <3>. QED
      BY <3>3, <3>4
  <2>. QED
    BY <2>1, <2>2
<1>4. ASSUME NEW u \in Tasks, Receive(u)
      PROVE  [RC(t)!Next]_(RC(t)!vars)
  <2>1. CASE u # t
    BY <1>4, <2>1, RCStutter DEF Receive
  <2>2. CASE u = t /\ reply[t] = "stream"
    BY <1>4, <2>2, RCStutter DEF Receive, Status, RC!vars
  <2>3. CASE u = t /\ reply[t] # "stream"
    <3>0. /\ tpc[t] = "await" /\ tpc'[t] = "done" /\ UNCHANGED <<calls, executed>>
          /\ result'[t] = IF reply[t] \in {"ok", "null"} THEN "ok" ELSE ErrorOf(reply[t])
      BY <1>4, <2>3 DEF Receive
    <3>1. CASE reply[t] \in {"ok", "null"}
      <4>1. executed[t][calls[t]] = 1
        BY <1>0, <3>1 DEF TaskInv
      <4>2. RC(t)!ReturnOk
        BY <3>0, <3>1, <4>1 DEF RC!ReturnOk, Status
      <4>. QED
        BY <4>2 DEF RC!Next
    <3>2. CASE reply[t] \notin {"ok", "null"}
      <4>1. reply[t] \in {"malformed", "status"}
        BY <1>4, <1>0, <3>0, <2>3, <3>2 DEF TaskInv, Receive
      <4>2. result'[t] # "ok"
        BY <3>0, <3>2, <4>1, ErrorOfValues
      <4>3. RC(t)!ReturnErr
        BY <3>0, <4>2 DEF RC!ReturnErr, Status
      <4>. QED
        BY <4>3 DEF RC!Next
    <3>. QED
      BY <3>1, <3>2
  <2>. QED
    BY <2>1, <2>2, <2>3
<1>5. ASSUME NEW u \in Tasks, GetNext(u)
      PROVE  [RC(t)!Next]_(RC(t)!vars)
  <2>1. CASE u # t
    BY <1>5, <2>1, RCStutter DEF GetNext
  <2>2. CASE u = t /\ Head(stream[t]) = "v"
    BY <1>5, <2>2, RCStutter DEF GetNext
  <2>3. CASE u = t /\ Head(stream[t]) # "v"
    <3>0. /\ tpc[t] = "stream" /\ tpc'[t] = "done" /\ UNCHANGED <<calls, executed>>
          /\ executed[t][calls[t]] = 1
      BY <1>5, <2>3, <1>0 DEF GetNext, TaskInv
    <3>1. CASE result'[t] = "ok"
      <4>1. RC(t)!ReturnOk
        BY <3>0, <3>1 DEF RC!ReturnOk, Status
      <4>. QED
        BY <4>1 DEF RC!Next
    <3>2. CASE result'[t] # "ok"
      <4>1. RC(t)!ReturnErr
        BY <3>0, <3>2 DEF RC!ReturnErr, Status
      <4>. QED
        BY <4>1 DEF RC!Next
    <3>. QED
      BY <3>1, <3>2
  <2>. QED
    BY <2>1, <2>2, <2>3
<1>6. ASSUME NEW u \in Tasks, Cancel(u)
      PROVE  [RC(t)!Next]_(RC(t)!vars)
  <2>1. CASE u # t
    BY <1>6, <2>1, RCStutter DEF Cancel
  <2>2. CASE u = t
    <3>1. RC(t)!ReturnErr
      BY <1>6, <2>2 DEF Cancel, RC!ReturnErr, Status
    <3>. QED
      BY <3>1 DEF RC!Next
  <2>. QED
    BY <2>1, <2>2
<1>7. CASE UNCHANGED vars
  BY <1>7, RCStutter DEF vars
<1>8. ASSUME NEW u \in Tasks, ServerAbandoned(u)
      PROVE  [RC(t)!Next]_(RC(t)!vars)
  <2>0. PICK i \in dropped[u] :
          \E ex \in {0, 1} :
            /\ executed' = [executed EXCEPT ![u][i] = @ + ex]
            /\ dropped' = [dropped EXCEPT ![u] = @ \ {i}]
            /\ UNCHANGED <<conn, tpc, op, calls, reply, stream, emitted, out, result>>
    BY <1>8 DEF ServerAbandoned
  <2>1. PICK ex \in {0, 1} :
          /\ executed' = [executed EXCEPT ![u][i] = @ + ex]
          /\ UNCHANGED <<tpc, calls, result>>
    BY <2>0
  <2>2. i \in 1..calls[u] /\ i \in 1..MaxCalls /\ executed[u][i] = 0
    <3>1. TaskInv(u)
      OBVIOUS
    <3>. QED
      BY <2>1, <3>1 DEF TaskInv
  <2>3. /\ executed'[u][i] = executed[u][i] + ex
        /\ \A j \in 1..MaxCalls \ {i} : executed'[u][j] = executed[u][j]
        /\ \A v \in Tasks \ {u} : executed'[v] = executed[v]
        /\ executed' \in [Tasks -> [1..MaxCalls -> Nat]]
        /\ executed'[u] = [executed[u] EXCEPT ![i] = executed[u][i] + ex]
        /\ executed[u] \in [1..MaxCalls -> Nat]
    <3>1. ex \in Nat
      OBVIOUS
    <3>2. executed'[u] = [executed[u] EXCEPT ![i] = executed[u][i] + ex]
      BY <2>1, <2>2
    <3>3. executed[u] \in [1..MaxCalls -> Nat]
      BY Zenon
    <3>4. executed'[u] \in [1..MaxCalls -> Nat]
      BY <2>2, <3>1, <3>2, <3>3
    <3>5. executed' = [executed EXCEPT ![u] = executed'[u]]
      BY <2>1
    <3>. QED
      BY <2>2, <3>2, <3>3, <3>4, <3>5
  <2>4. CASE u # t
    BY <2>1, <2>3, <2>4, RCStutter
  <2>5. CASE u = t /\ ex = 0
    <3>1. executed'[u] = [executed[u] EXCEPT ![i] = executed[u][i]]
      BY <2>2, <2>3, <2>5
    <3>2. executed'[u] = executed[u]
      BY <2>2, <2>3, <3>1
    <3>3. executed'[t] = executed[t]
      BY <2>5, <3>2
    <3>. QED
      BY <2>1, <3>3, RCStutter
  <2>6. CASE u = t /\ ex = 1
    <3>1. executed'[t] = [executed[t] EXCEPT ![i] = 1]
      BY <2>2, <2>3, <2>6
    <3>2. RC(t)!Execute(i)
      BY <2>1, <2>2, <2>6, <3>1 DEF RC!Execute, Status
    <3>. QED
      BY <2>2, <2>6, <3>2 DEF RC!Next
  <2>. QED
    BY <2>4, <2>5, <2>6
<1>. QED
  BY <1>1, <1>2, <1>3, <1>4, <1>5, <1>6, <1>7, <1>8 DEF Next

(* Every task's calls keep the RemoteCall contract (spec, sections 4 and   *)
(* 7): calls one after the other, each executed at most once, Ok only     *)
(* after an execution, even though a request whose future was dropped may *)
(* still be executed after the task has moved on; for any number of tasks *)
(* sharing the client and every bound on calls.                            *)
THEOREM Refinement == Spec => RCSpecAll
<1>1. SInv /\ [][Next]_vars => [][\A t \in Tasks : [RC(t)!Next]_(RC(t)!vars)]_vars
  BY NextSInv, StepRefines, PTL
<1>. QED
  BY InitSInv, InitRefines, <1>1, PTL DEF Spec, RCSpecAll
=============================================================================
