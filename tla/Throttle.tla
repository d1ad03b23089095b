------------------------------ MODULE Throttle ------------------------------
(***************************************************************************)
(* A ThrottleController (throttle/throttle.go) and the bodies read through *)
(* it.  A Read takes its bytes from the source first, then waits in        *)
(* ConsumeBytes, under readMutex, for the time that the previous Read's    *)
(* bytes were worth, and leaves the price of its own to the next one.      *)
(*                                                                         *)
(* Time is counted in the time one byte takes at tc.rate, so that a Read   *)
(* of b bytes costs b.  SetRate has no caller: the rate of a controller    *)
(* never changes.                                                          *)
(***************************************************************************)
EXTENDS Integers

CONSTANTS
  Reader,   \* bodies that share the controller
  MaxRead,  \* the most bytes one Read returns
  Horizon,  \* the clock stops here (a bound of the model)
  NoReader

ASSUME MaxReadAssumption == MaxRead \in Nat
ASSUME HorizonAssumption == Horizon \in Nat
ASSUME NoReaderAssumption == NoReader \notin Reader

VARIABLES
  now,      \* the clock
  at,       \* where the Read of each body stands
  got,      \* bytes it took from its source
  holder,   \* who holds readMutex
  wake,     \* when the holder's Sleep ends
  debt,     \* tc.allowNextReadAfter
  passed,   \* bytes handed on by all bodies so far
  mark      \* an arbitrary moment, and what had been handed on by then

vars == <<now, at, got, holder, wake, debt, passed, mark>>

TypeOK ==
  /\ now \in Nat
  /\ at \in [Reader -> {"idle", "wait", "sleep"}]
  /\ got \in [Reader -> 0..MaxRead]
  /\ holder \in Reader \cup {NoReader}
  /\ wake \in Nat
  /\ debt \in 0..MaxRead
  /\ passed \in Nat
  /\ mark \in [set : BOOLEAN, time : Nat, passed : Nat]

Init ==
  /\ now = 0
  /\ at = [r \in Reader |-> "idle"]
  /\ got = [r \in Reader |-> 0]
  /\ holder = NoReader
  /\ wake = 0
  /\ debt = 0
  /\ passed = 0
  /\ mark = [set |-> FALSE, time |-> 0, passed |-> 0]

\* r.data.Read(p): the source is read at once, whatever the rate.
Take(r) ==
  /\ at[r] = "idle"
  /\ at' = [at EXCEPT ![r] = "wait"]
  /\ \E b \in 0..MaxRead : got' = [got EXCEPT ![r] = b]
  /\ UNCHANGED <<now, holder, wake, debt, passed, mark>>

\* Mutant of Sleep: time is counted from the last wake-up, so idle time pays.
SleepOnSchedule(r) ==
  /\ at[r] = "wait" /\ holder = NoReader
  /\ at' = [at EXCEPT ![r] = "sleep"]
  /\ holder' = r
  /\ wake' = wake + debt
  /\ UNCHANGED <<now, got, debt, passed, mark>>

\* readMutex is taken, and the price of the Read before this one slept off.
Sleep(r) ==
  /\ at[r] = "wait" /\ holder = NoReader
  /\ at' = [at EXCEPT ![r] = "sleep"]
  /\ holder' = r
  /\ wake' = now + debt
  /\ UNCHANGED <<now, got, debt, passed, mark>>

\* Mutant of Pass: the price of earlier Reads is charged again.
PassUpDebt(r) ==
  /\ at[r] = "sleep" /\ holder = r
  /\ now >= wake
  /\ at' = [at EXCEPT ![r] = "idle"]
  /\ holder' = NoReader
  /\ debt' = debt + got[r]
  /\ passed' = passed + got[r]
  /\ UNCHANGED <<now, got, wake, mark>>

\* The Sleep is over, if not to the moment; the price of this Read is noted.
Pass(r) ==
  /\ at[r] = "sleep" /\ holder = r
  /\ now >= wake
  /\ at' = [at EXCEPT ![r] = "idle"]
  /\ holder' = NoReader
  /\ debt' = got[r]
  /\ passed' = passed + got[r]
  /\ UNCHANGED <<now, got, wake, mark>>

Tick ==
  /\ now < Horizon
  /\ now' = now + 1
  /\ UNCHANGED <<at, got, holder, wake, debt, passed, mark>>

\* An observer starts to measure.
Mark ==
  /\ ~mark.set
  /\ mark' = [set |-> TRUE, time |-> now, passed |-> passed]
  /\ UNCHANGED <<now, at, got, holder, wake, debt, passed>>

Next == Tick \/ Mark \/ \E r \in Reader : Take(r) \/ Sleep(r) \/ Pass(r)

Spec == Init /\ [][Next]_vars

-----------------------------------------------------------------------------
(* Properties.                                                             *)

\* From any moment on, all bodies together hand on no more bytes than the
\* time since then allows, but for those of the latest Read, which are paid
\* for in arrears: no idle time earns credit, and bodies that read at once
\* share one rate.
WindowRate == mark.set => passed - mark.passed - debt <= now - mark.time

\* So a window never holds more than one Read's bytes above the rate.
BurstBound == mark.set => passed - mark.passed <= now - mark.time + MaxRead
=============================================================================
