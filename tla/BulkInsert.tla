----------------------------- MODULE BulkInsert -----------------------------
(***************************************************************************)
(* Client::bulk_insert of the streaming client (proto/src/client.rs,       *)
(* lines 205-229).  A spawned producer task pushes the items, in order,   *)
(* into a bounded mpsc channel; the foreground call streams the channel's *)
(* receiving end to the server and awaits the server's single answer,     *)
(* then reads the failure slot last_err the producer may have filled.     *)
(*                                                                         *)
(* The server is environment.  It takes items off the stream in order,    *)
(* and answers once: Ok after the stream has ended, an error status at    *)
(* any time, or (if EarlyAnswer) Ok before the stream has ended.  Once it *)
(* has answered, the request stream and with it the receiver are dropped, *)
(* so that the producer's next send fails.                                 *)
(***************************************************************************)
EXTENDS Naturals, Sequences

CONSTANTS
  NumItems,      \* the number of items passed to bulk_insert
  Capacity,      \* CHANNEL_CAPACITY (line 15), scaled down
  EarlyAnswer    \* whether the server may answer Ok before the stream ends

ASSUME ItemsAssumption == NumItems \in Nat
ASSUME CapacityAssumption == Capacity \in Nat \ {0}
ASSUME EarlyAnswerAssumption == EarlyAnswer \in BOOLEAN

(* The items, in the order of the Vec; item i is i.                       *)
Items == [i \in 1..NumItems |-> i]

VARIABLES
  ppc,        \* the producer task: "run" (holds tx) or "done" (tx dropped)
  sent,       \* items the producer has pushed into the channel
  chan,       \* the channel's buffer, oldest first
  rxOpen,     \* the receiving end (the request stream) is alive
  last_err,   \* the failure slot: "none" or "closed" (ClientError::ChannelClosed)
  delivered,  \* the items the server has taken off the stream, in order
  srv,        \* the server's answer: "none", "ok" or "err"
  fpc,        \* the foreground call: "await", "check" or "done"
  result      \* what bulk_insert returned: "none", "ok", "grpc", "closed",
              \* or "cancelled" when its future was dropped

vars == <<ppc, sent, chan, rxOpen, last_err, delivered, srv, fpc, result>>
producerVars == <<ppc, sent>>
foreVars == <<fpc, result>>

(* mpsc::channel, the failure slot and tokio::spawn (lines 206-219).      *)
Init ==
  /\ ppc = "run"
  /\ sent = 0
  /\ chan = <<>>
  /\ rxOpen = TRUE
  /\ last_err = "none"
  /\ delivered = <<>>
  /\ srv = "none"
  /\ fpc = "await"
  /\ result = "none"

-----------------------------------------------------------------------------
(* Plausible bugs, each used in place of the definition it mutates.       *)

(* The producer sends its item without waiting for a free slot.           *)
ProducerSendUnbounded ==
  /\ ppc = "run"
  /\ sent < NumItems
  /\ rxOpen
  /\ chan' = Append(chan, Items[sent + 1])
  /\ sent' = sent + 1
  /\ UNCHANGED <<ppc, rxOpen, last_err, delivered, srv, foreVars>>

(* The loop stops one item short of the end of the Vec.                   *)
ProducerEndEarly ==
  /\ ppc = "run"
  /\ sent + 1 >= NumItems
  /\ ppc' = "done"
  /\ UNCHANGED <<sent, chan, rxOpen, last_err, delivered, srv, foreVars>>

(* The sender is kept alive after the last item, so the stream never ends.*)
ProducerEndKeepsSender ==
  /\ ppc = "run"
  /\ sent = NumItems
  /\ UNCHANGED vars

-----------------------------------------------------------------------------
(* The producer task's loop (lines 212-217): tx.send(item).await waits    *)
(* for a free slot, and fails once the receiver is gone; the failure is   *)
(* recorded in last_err and the task returns, dropping tx.  After the     *)
(* last item the task ends and tx is dropped, which ends the stream.      *)
ProducerSend ==
  /\ ppc = "run"
  /\ sent < NumItems
  /\ rxOpen
  /\ Len(chan) < Capacity
  /\ chan' = Append(chan, Items[sent + 1])
  /\ sent' = sent + 1
  /\ UNCHANGED <<ppc, rxOpen, last_err, delivered, srv, foreVars>>

ProducerFail ==
  /\ ppc = "run"
  /\ sent < NumItems
  /\ ~rxOpen
  /\ last_err' = "closed"
  /\ ppc' = "done"
  /\ UNCHANGED <<sent, chan, rxOpen, delivered, srv, foreVars>>

ProducerEnd ==
  /\ ppc = "run"
  /\ sent = NumItems
  /\ ppc' = "done"
  /\ UNCHANGED <<sent, chan, rxOpen, last_err, delivered, srv, foreVars>>

(* The server side of self.0.bulk_insert (line 221): it receives the      *)
(* stream's items in order and answers once; the answer ends the request  *)
(* stream, dropping the receiver.                                          *)
ServerRecv ==
  /\ srv = "none"
  /\ rxOpen
  /\ chan # <<>>
  /\ delivered' = Append(delivered, Head(chan))
  /\ chan' = Tail(chan)
  /\ UNCHANGED <<producerVars, rxOpen, last_err, srv, foreVars>>

StreamEnded == ppc = "done" /\ chan = <<>>

ServerAnswer ==
  /\ srv = "none"
  /\ rxOpen
  /\ \/ StreamEnded /\ srv' = "ok"
     \/ srv' = "err"
     \/ EarlyAnswer /\ ~StreamEnded /\ srv' = "ok"
  /\ rxOpen' = FALSE
  /\ UNCHANGED <<producerVars, chan, last_err, delivered, foreVars>>

(* The foreground (lines 221-228): an error status returns through `?`;   *)
(* after an Ok answer it locks last_err and returns its error, if any.    *)
ForegroundAnswer ==
  /\ fpc = "await"
  /\ srv # "none"
  /\ IF srv = "err"
       THEN fpc' = "done" /\ result' = "grpc"
       ELSE fpc' = "check" /\ result' = result
  /\ UNCHANGED <<producerVars, chan, rxOpen, last_err, delivered, srv>>

ForegroundCheck ==
  /\ fpc = "check"
  /\ fpc' = "done"
  /\ result' = IF last_err = "closed" THEN "closed" ELSE "ok"
  /\ last_err' = "none"
  /\ UNCHANGED <<producerVars, chan, rxOpen, delivered, srv>>

(* The caller drops the bulk_insert future while it awaits the answer     *)
(* (spec, section 5: streaming calls are cancellable): the request stream  *)
(* and the receiver go with it, the spawned producer keeps running.       *)
Cancel ==
  /\ fpc = "await"
  /\ fpc' = "done"
  /\ result' = "cancelled"
  /\ rxOpen' = FALSE
  /\ UNCHANGED <<producerVars, chan, last_err, delivered, srv>>

Producer == ProducerSend \/ ProducerFail \/ ProducerEnd
Server == ServerRecv \/ ServerAnswer
Foreground == ForegroundAnswer \/ ForegroundCheck

Next == Producer \/ Server \/ Foreground \/ Cancel

(* The producer task and the foreground call are scheduled by tokio; the  *)
(* server keeps reading its stream and eventually answers.                *)
Fairness == WF_vars(Producer) /\ WF_vars(ServerRecv) /\ WF_vars(ServerAnswer)
            /\ WF_vars(Foreground)

Spec == Init /\ [][Next]_vars /\ Fairness

-----------------------------------------------------------------------------
TypeOK ==
  /\ ppc \in {"run", "done"}
  /\ sent \in 0..NumItems
  /\ chan \in Seq(1..NumItems) /\ Len(chan) <= Capacity
  /\ rxOpen \in BOOLEAN
  /\ last_err \in {"none", "closed"}
  /\ delivered \in Seq(1..NumItems)
  /\ srv \in {"none", "ok", "err"}
  /\ fpc \in {"await", "check", "done"}
  /\ result \in {"none", "ok", "grpc", "closed", "cancelled"}

(* Spec, section 3 invariant 4 and section 4.2: when bulk_insert returns  *)
(* Ok, every item has been observed by the server, exactly once.          *)
Completeness == (fpc = "done" /\ result = "ok") => delivered = Items

(* bulk_insert returns, and the producer task it spawned ends, whatever   *)
(* the server answers.                                                     *)
Termination == <>(fpc = "done" /\ ppc = "done")
=============================================================================
