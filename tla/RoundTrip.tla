------------------------------ MODULE RoundTrip ------------------------------
(***************************************************************************)
(* What ServerConnProps.RoundTrip promises to its caller, with no          *)
(* connections, goroutines or timers: a call puts its request on the wire  *)
(* at most once, reports an answer only for a request that reached the     *)
(* wire, and returns.  Module Upstream implements it.                      *)
(***************************************************************************)
EXTENDS Naturals

VARIABLES
  phase,   \* where the caller stands
  sent     \* how often the request of the latest call reached a server

vars == <<phase, sent>>

Phase == {"idle", "busy", "answered", "failed", "down"}

TypeOK == phase \in Phase /\ sent \in {0, 1}

Init == phase = "idle" /\ sent = 0

\* A call starts; a failed call may be followed by another for the request.
Begin ==
  /\ phase \in {"idle", "failed"}
  /\ phase' = "busy"
  /\ sent' = 0

Send ==
  /\ phase = "busy"
  /\ sent = 0
  /\ sent' = 1
  /\ UNCHANGED phase

Answer ==
  /\ phase = "busy"
  /\ sent = 1
  /\ phase' = "answered"
  /\ UNCHANGED sent

Fail ==
  /\ phase = "busy"
  /\ phase' = "failed"
  /\ UNCHANGED sent

\* The caller goes on to the next request, or gives the connection up.
Finish ==
  /\ phase \in {"idle", "answered", "failed"}
  /\ phase' \in (IF phase = "answered" THEN {"idle", "down"} ELSE {"down"})
  /\ UNCHANGED sent

\* The process dies in the middle of a call.
Crash ==
  /\ phase = "busy"
  /\ phase' = "down"
  /\ UNCHANGED sent

Next == Begin \/ Send \/ Answer \/ Fail \/ Finish \/ Crash

SafeSpec == Init /\ [][Next]_vars

\* A call that has begun comes back, or the process is gone.
Spec == SafeSpec /\ WF_vars(Answer \/ Fail \/ Crash)
==============================================================================
