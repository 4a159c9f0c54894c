----------------------------- MODULE RemoteCall -----------------------------
(***************************************************************************)
(* What a caller of API::Client may rely on, whatever happens to the core, *)
(* the socket and the clock.  A call that is refused never reaches a core; *)
(* any other call is executed at most once, and possibly after its caller  *)
(* has given up; a call that returns an answer returns the answer of its   *)
(* own execution.  CoreLifecycle (a Start whose caller is gone) and        *)
(* ConnectionManager (a Start that failed for the client only) are written *)
(* against this contract; RpcChannel shows that the channel keeps it.      *)
(***************************************************************************)
CONSTANTS
  Calls,      \* the calls made
  NoCall      \* the payload of a call that returned none

VARIABLES
  outcome,    \* [Calls -> "idle" | "open" | "refused" | "failed" | "ok" | "error"]
  exec,       \* [Calls -> "no" | "ok" | "error"]: what the core did
  payload     \* [Calls -> Calls \cup {NoCall}]: whose answer the caller was given

vars == <<outcome, exec, payload>>

Init ==
  /\ outcome = [i \in Calls |-> "idle"]
  /\ exec    = [i \in Calls |-> "no"]
  /\ payload = [i \in Calls |-> NoCall]

Begin(i) ==
  /\ outcome[i] = "idle"
  /\ outcome' = [outcome EXCEPT ![i] = "open"]
  /\ UNCHANGED <<exec, payload>>

Refuse(i) ==
  /\ outcome[i] = "idle"
  /\ outcome' = [outcome EXCEPT ![i] = "refused"]
  /\ UNCHANGED <<exec, payload>>

Execute(i) ==
  /\ outcome[i] \notin {"idle", "refused"}
  /\ exec[i] = "no"
  /\ \E r \in {"ok", "error"} : exec' = [exec EXCEPT ![i] = r]
  /\ UNCHANGED <<outcome, payload>>

Answer(i) ==
  /\ outcome[i] = "open"
  /\ exec[i] # "no"
  /\ outcome' = [outcome EXCEPT ![i] = exec[i]]
  /\ payload' = [payload EXCEPT ![i] = i]
  /\ UNCHANGED exec

Fail(i) ==
  /\ outcome[i] = "open"
  /\ outcome' = [outcome EXCEPT ![i] = "failed"]
  /\ UNCHANGED <<exec, payload>>

Next == \E i \in Calls : Begin(i) \/ Refuse(i) \/ Execute(i) \/ Answer(i) \/ Fail(i)

Spec == Init /\ [][Next]_vars

=============================================================================
