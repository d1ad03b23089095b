------------------------------- MODULE Process -------------------------------
(***************************************************************************)
(* The whole program: it starts, serves requests and API calls, and ends   *)
(* by an accident or by a panic of the handler; the files survive it, the  *)
(* rules do not.                                                           *)
(***************************************************************************)
EXTENDS Handler, Startup

vars == <<handlerVars, startVars>>

TypeOK == HandlerTypeOK /\ StartTypeOK

Init == HandlerInit /\ StartInit

\* Package variables and goroutines are gone.
Forget ==
  /\ rules' = <<>> /\ reply' = "none" /\ at' = "idle" /\ mine' = <<>> /\ next' = 1
  /\ UNCHANGED <<asked, began, rq, got, rs>>

\* launchExposedAPI and prx.Listen run the handlers.
Serve == boot = "serving" /\ (Api \/ Handle) /\ UNCHANGED startVars

\* A nil dereference in a connection's goroutine, which nothing recovers.
RulePanic ==
  /\ boot = "serving" /\ Panics
  /\ Ended /\ Forget
  /\ UNCHANGED <<fileVars, served, misreads, accidents>>

Die == (Crash \/ CreateFails \/ ListenFails) /\ Forget

Next ==
  \/ Serve \/ RulePanic \/ Die
  \/ (StartStep \/ ReadCaFails \/ LoadFails) /\ UNCHANGED handlerVars

Spec == Init /\ [][Next]_vars

\* The program runs, and is started again when it has ended.
LiveSpec == Spec /\ WF_vars(StartStep /\ UNCHANGED handlerVars)

\* Whatever ended the process, and wherever, the next starts get it to serve
\* again, if it is given its ports.
Recovers == [](boot = "down" /\ ports => <>(boot = "serving"))
=============================================================================
