------------------------- MODULE LegacyClientProofs -------------------------
(***************************************************************************)
(* Proofs about the legacy client of LegacyClient, for every set of        *)
(* operations, every bound on calls and crashes, and both kinds of server. *)
(***************************************************************************)
EXTENDS LegacyClient, TLAPS

-----------------------------------------------------------------------------
(* Type correctness.                                                       *)
LEMMA InitTypeOK == Init => TypeOK
<1>1. Init => conn \in BOOLEAN
  BY Zenon DEF Init
<1>. QED
  BY <1>1, BoundsAssumption DEF Init, TypeOK, PCs, MaxAttempts

LEMMA NextTypeOK == TypeOK /\ [Next]_vars => TypeOK'
<1> SUFFICES ASSUME TypeOK, [Next]_vars PROVE TypeOK'
  OBVIOUS
<1>. USE DEF TypeOK, PCs, MaxAttempts, serverVars
(* Every step leaves the connection flag Boolean; Zenon handles the flag, *)
(* SMT the counters below.                                                 *)
<1>0. conn' \in BOOLEAN
  BY Zenon DEF Next, Client, Server, Invoke, Connect, PingAnswer, PingLost,
               Sleep, ServerHandle, Receive, CallLost, ServerStart,
               ServerReady, ServerCrash, vars
<1>1. ASSUME NEW o \in CallOps, Invoke(o) PROVE TypeOK'
  BY <1>0, <1>1, BoundsAssumption DEF Invoke
<1>2. CASE Connect
  BY <1>0, <1>2 DEF Connect
<1>3. CASE PingAnswer
  BY <1>0, <1>3 DEF PingAnswer
<1>4. CASE PingLost
  BY <1>0, <1>4 DEF PingLost
<1>5. CASE Sleep
  BY <1>0, <1>5 DEF Sleep
<1>6. CASE ServerHandle
  <2>1. PICK r \in Replies :
          /\ reply' = r
          /\ executed' = IF r = "status" THEN executed
                         ELSE [executed EXCEPT ![calls] = @ + 1]
    BY <1>6 DEF ServerHandle
  <2>2. executed' \in [1..MaxCalls -> Nat]
    <3>1. CASE r = "status"
      BY <2>1, <3>1
    <3>2. CASE r # "status"
      <4>1. executed' = [executed EXCEPT ![calls] = @ + 1]
        BY <2>1, <3>2
      <4>2. \A i \in 1..MaxCalls : executed'[i] \in Nat
        BY <4>1
      <4>. QED
        BY <4>1, <4>2
    <3>. QED
      BY <3>1, <3>2
  <2>3. reply' \in {"none"} \cup Replies
    BY <2>1, Zenon
  <2>. QED
    BY <1>0, <1>6, <2>2, <2>3 DEF ServerHandle
<1>7. CASE Receive
  BY <1>0, <1>7 DEF Receive
<1>8. CASE CallLost
  BY <1>0, <1>8 DEF CallLost
<1>9. CASE ServerStart \/ ServerReady \/ ServerCrash
  BY <1>0, <1>9, BoundsAssumption DEF ServerStart, ServerReady, ServerCrash
<1>10. CASE UNCHANGED vars
  BY <1>10 DEF vars
<1>. QED
  BY <1>1, <1>2, <1>3, <1>4, <1>5, <1>6, <1>7, <1>8, <1>9, <1>10
     DEF Next, Client, Server

(* The legacy client's state always has the types TypeOK gives it.        *)
THEOREM TypeCorrect == Spec => []TypeOK
BY InitTypeOK, NextTypeOK, PTL DEF Spec

-----------------------------------------------------------------------------

(* The executions the server has made are tied to the call in progress:   *)
(* a call not yet begun was never executed, a request not yet answered    *)
(* was not executed, an Ok answer means it was executed once, and a      *)
(* finished call returned Ok or Err.                                       *)
ExecInv ==
  /\ \A i \in 1..MaxCalls : /\ executed[i] <= 1
                            /\ i > calls => executed[i] = 0
  /\ pc \in {"connect", "ping", "sleep", "call", "done"} => calls \in 1..MaxCalls
  /\ calls \in 1..MaxCalls /\ reply = "none" => executed[calls] = 0
  /\ calls \in 1..MaxCalls /\ reply = "ok" => executed[calls] = 1
  /\ pc = "done" => result \in {"ok", "err"}

IInv == TypeOK /\ ExecInv

LEMMA InitIInv == Init => IInv
<1>1. Init => ExecInv
  BY BoundsAssumption DEF Init, ExecInv
<1>. QED
  BY <1>1, InitTypeOK DEF IInv

LEMMA NextIInv == IInv /\ [Next]_vars => IInv'
<1> SUFFICES ASSUME TypeOK, ExecInv, [Next]_vars PROVE ExecInv'
  BY NextTypeOK DEF IInv
<1>. USE DEF TypeOK, serverVars
<1>1. ASSUME NEW o \in CallOps, Invoke(o) PROVE ExecInv'
  BY <1>1, BoundsAssumption DEF Invoke, ExecInv
<1>2. CASE ServerHandle
  <2>1. PICK r \in Replies :
          /\ reply' = r
          /\ executed' = IF r = "status" THEN executed
                         ELSE [executed EXCEPT ![calls] = @ + 1]
    BY <1>2 DEF ServerHandle
  <2>2. calls \in 1..MaxCalls /\ executed[calls] = 0
    BY <1>2 DEF ServerHandle, ExecInv
  <2>3. CASE r = "status"
    BY <1>2, <2>1, <2>3 DEF ServerHandle, ExecInv
  <2>4. CASE r # "status"
    <3>1. executed' = [executed EXCEPT ![calls] = 1]
      BY <2>1, <2>2, <2>4
    <3>2. \A i \in 1..MaxCalls : executed'[i] <= 1 /\ (i > calls => executed'[i] = 0)
      BY <3>1, <2>2 DEF ExecInv
    <3>3. executed'[calls] = 1 /\ reply' # "none"
      BY <3>1, <2>1, <2>2 DEF Replies
    <3>. QED
      BY <1>2, <3>2, <3>3 DEF ServerHandle, ExecInv
  <2>. QED
    BY <2>3, <2>4
<1>3. CASE Receive \/ CallLost
  BY <1>3 DEF Receive, CallLost, ExecInv
<1>4. CASE Connect \/ PingAnswer \/ PingLost \/ Sleep
  BY <1>4 DEF Connect, PingAnswer, PingLost, Sleep, ExecInv
<1>5. CASE ServerStart \/ ServerReady \/ ServerCrash
  BY <1>5 DEF ServerStart, ServerReady, ServerCrash, ExecInv
<1>6. CASE UNCHANGED vars
  BY <1>6 DEF vars, ExecInv
<1>. QED
  BY <1>1, <1>2, <1>3, <1>4, <1>5, <1>6 DEF Next, Client, Server

(* Spec, section 4.1: however the server crashes and restarts, the legacy *)
(* client never has an operation applied twice: execute() returns the     *)
(* error of a dropped call instead of retrying it (client_datastore.rs:65).*)
THEOREM AtMostOnceHolds == Spec => []AtMostOnce
<1>1. IInv => AtMostOnce
  BY DEF IInv, ExecInv, AtMostOnce
<1>. QED
  BY InitIInv, NextIInv, <1>1, PTL DEF Spec
-----------------------------------------------------------------------------
(* Refinement: the legacy client implements RemoteCall under Status.      *)
LEMMA InitRefines == Init => RC!Init
  BY DEF Init, RC!Init, Status

LEMMA StepRefines == IInv /\ [Next]_vars => [RC!Next]_RC!vars
<1> SUFFICES ASSUME TypeOK, ExecInv, [Next]_vars PROVE [RC!Next]_RC!vars
  BY DEF IInv
<1>. USE DEF TypeOK, serverVars
<1>1. ASSUME NEW o \in CallOps, Invoke(o) PROVE RC!Begin
  BY <1>1 DEF Invoke, ExecInv, RC!Begin, Status
<1>2. CASE ServerHandle
  <2>1. PICK r \in Replies :
          /\ reply' = r
          /\ executed' = IF r = "status" THEN executed
                         ELSE [executed EXCEPT ![calls] = @ + 1]
    BY <1>2 DEF ServerHandle
  <2>2. calls \in 1..MaxCalls /\ executed[calls] = 0 /\ Status = "busy"
    BY <1>2 DEF ServerHandle, ExecInv, Status
  <2>3. CASE r = "status"
    BY <1>2, <2>1, <2>3 DEF ServerHandle, RC!vars, Status
  <2>4. CASE r # "status"
    <3>1. executed' = [executed EXCEPT ![calls] = 1]
      BY <2>1, <2>2, <2>4
    <3>2. RC!Execute(calls)
      BY <1>2, <2>2, <3>1 DEF ServerHandle, RC!Execute, Status
    <3>. QED
      BY <2>2, <3>2 DEF RC!Next
  <2>. QED
    BY <2>3, <2>4
<1>3. CASE Receive
  <2>1. CASE reply = "malformed" /\ op.onMalformed = "panic"
    BY <1>3, <2>1 DEF Receive, RC!Next, RC!Fatal, Status
  <2>2. CASE reply = "ok"
    BY <1>3, <2>2 DEF Receive, ExecInv, RC!Next, RC!ReturnOk, Status
  <2>3. CASE reply # "ok" /\ ~(reply = "malformed" /\ op.onMalformed = "panic")
    BY <1>3, <2>3 DEF Receive, RC!Next, RC!ReturnErr, Status
  <2>. QED
    BY <2>1, <2>2, <2>3
<1>4. CASE CallLost
  BY <1>4 DEF CallLost, RC!Next, RC!ReturnErr, Status
<1>5. CASE PingLost \/ (Sleep /\ pc' = "panicked")
  BY <1>5 DEF PingLost, Sleep, RC!Next, RC!Fatal, Status
<1>6. CASE Connect \/ PingAnswer \/ (Sleep /\ pc' # "panicked")
  BY <1>6 DEF Connect, PingAnswer, Sleep, RC!vars, Status
<1>7. CASE ServerStart \/ ServerReady \/ ServerCrash \/ UNCHANGED vars
  BY <1>7 DEF ServerStart, ServerReady, ServerCrash, vars, RC!vars, Status
<1>. QED
  BY <1>1, <1>2, <1>3, <1>4, <1>5, <1>6, <1>7 DEF Next, Client, Server, RC!Next

(* The legacy client keeps the contract of a remote call (RemoteCall):    *)
(* calls one after another, each executed at most once and only while in *)
(* progress, Ok only for an executed call.  The step mapping covers the  *)
(* ping retry loop as stuttering and the ping unwrap() and decode panics  *)
(* as Fatal.                                                               *)
THEOREM Refinement == Spec => RCSpec
<1>1. IInv /\ [][Next]_vars => [][RC!Next]_RC!vars
  BY NextIInv, StepRefines, PTL
<1>. QED
  BY InitIInv, InitRefines, <1>1, PTL DEF Spec, RCSpec, RC!Spec
=============================================================================
