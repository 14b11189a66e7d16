----------------------------- MODULE RemoteCall -----------------------------
(***************************************************************************)
(* What one remote graph operation promises its caller, whichever of the   *)
(* two transports carries it (spec, sections 4 and 7): calls are made one  *)
(* after the other; the server executes each call at most once; a call    *)
(* answers Ok only if the server executed it, and may instead answer an   *)
(* error or end the process.  An error says nothing about execution: the  *)
(* server may execute a call before it fails, or, when the caller stopped *)
(* waiting (a dropped future), after the caller has moved on.             *)
(***************************************************************************)
EXTENDS Naturals

CONSTANT MaxCalls   \* bound on the number of calls the caller makes

VARIABLES
  status,     \* "idle", "busy", or the outcome of the last call: "ok", "err", "fatal"
  calls,      \* number of calls begun; the current one is calls
  executed    \* executed[i]: how often the server executed call i

vars == <<status, calls, executed>>

Init ==
  /\ status = "idle"
  /\ calls = 0
  /\ executed = [i \in 1..MaxCalls |-> 0]

Begin ==
  /\ status \in {"idle", "ok", "err"}
  /\ calls < MaxCalls
  /\ calls' = calls + 1
  /\ status' = "busy"
  /\ UNCHANGED executed

(* The server executes call i, the current one or an earlier one it has  *)
(* not executed yet.                                                      *)
Execute(i) ==
  /\ i \in 1..calls
  /\ executed[i] = 0
  /\ executed' = [executed EXCEPT ![i] = 1]
  /\ UNCHANGED <<status, calls>>

ReturnOk ==
  /\ status = "busy"
  /\ executed[calls] = 1
  /\ status' = "ok"
  /\ UNCHANGED <<calls, executed>>

ReturnErr ==
  /\ status = "busy"
  /\ status' = "err"
  /\ UNCHANGED <<calls, executed>>

Fatal ==
  /\ status = "busy"
  /\ status' = "fatal"
  /\ UNCHANGED <<calls, executed>>

Next == Begin \/ (\E i \in 1..MaxCalls : Execute(i)) \/ ReturnOk \/ ReturnErr \/ Fatal

Spec == Init /\ [][Next]_vars
=============================================================================
