--------------------------- MODULE ThrottleProofs ---------------------------
(***************************************************************************)
(* WindowRate for every number of bodies, every read size and every clock. *)
(* The invariant alone is not inductive: while a Read sleeps, what was     *)
(* handed on since the mark must already be covered by the moment it will  *)
(* wake, unless nothing was handed on since the mark at all.               *)
(***************************************************************************)
EXTENDS Throttle, TLAPS

HolderSleeps == \A r \in Reader : at[r] = "sleep" <=> holder = r

WakeCovers ==
  mark.set /\ holder # NoReader =>
    passed - mark.passed <= wake - mark.time \/ passed = mark.passed

MarkPast == mark.time <= now /\ mark.passed <= passed

IInv == TypeOK /\ HolderSleeps /\ MarkPast /\ WakeCovers /\ WindowRate

-----------------------------------------------------------------------------
\* A controller starts without debt and unmarked.
LEMMA InitInv == Init => IInv
  BY NoReaderAssumption, MaxReadAssumption
     DEF Init, IInv, TypeOK, HolderSleeps, MarkPast, WakeCovers, WindowRate

\* Every step of ConsumeBytes, of the clock and of the observer keeps it.
LEMMA NextInv == IInv /\ [Next]_vars => IInv'
<1> SUFFICES ASSUME IInv, [Next]_vars PROVE IInv'
  OBVIOUS
<1> USE NoReaderAssumption, MaxReadAssumption, HorizonAssumption
<1>1. ASSUME NEW r \in Reader, Take(r) PROVE IInv'
  BY <1>1 DEF Take, IInv, TypeOK, HolderSleeps, MarkPast, WakeCovers, WindowRate
<1>2. ASSUME NEW r \in Reader, Sleep(r) PROVE IInv'
  <2>1. TypeOK' /\ HolderSleeps' /\ MarkPast'
    BY <1>2 DEF Sleep, IInv, TypeOK, HolderSleeps, MarkPast
  <2>2. WakeCovers' /\ WindowRate'
    BY <1>2 DEF Sleep, IInv, TypeOK, WakeCovers, WindowRate
  <2> QED
    BY <2>1, <2>2 DEF IInv
<1>3. ASSUME NEW r \in Reader, Pass(r) PROVE IInv'
  <2>1. TypeOK' /\ HolderSleeps' /\ MarkPast'
    BY <1>3 DEF Pass, IInv, TypeOK, HolderSleeps, MarkPast
  <2>2. WakeCovers'
    BY <1>3 DEF Pass, WakeCovers
  <2>3. WindowRate'
    <3>1. mark.set => passed - mark.passed <= now - mark.time
      BY <1>3 DEF Pass, IInv, TypeOK, MarkPast, WakeCovers
    <3> QED
      BY <3>1, <1>3 DEF Pass, IInv, TypeOK, WindowRate
  <2> QED
    BY <2>1, <2>2, <2>3 DEF IInv
<1>4. CASE Tick
  BY <1>4 DEF Tick, IInv, TypeOK, HolderSleeps, MarkPast, WakeCovers, WindowRate
<1>5. CASE Mark
  BY <1>5 DEF Mark, IInv, TypeOK, HolderSleeps, MarkPast, WakeCovers, WindowRate
<1>6. CASE UNCHANGED vars
  BY <1>6 DEF vars, IInv, TypeOK, HolderSleeps, MarkPast, WakeCovers, WindowRate
<1> QED
  BY <1>1, <1>2, <1>3, <1>4, <1>5, <1>6 DEF Next

\* The inductive invariant holds throughout.
THEOREM Invariance == Spec => []IInv
  BY InitInv, NextInv, PTL DEF Spec

\* The variables of a controller keep their types, however many bodies read.
THEOREM TypeCorrect == Spec => []TypeOK
<1>1. IInv => TypeOK
  BY DEF IInv
<1> QED
  BY <1>1, Invariance, PTL

\* ConsumeBytes keeps all bodies of a controller to one rate, over every
\* window of time.
THEOREM RateKept == Spec => []WindowRate
<1>1. IInv => WindowRate
  BY DEF IInv
<1> QED
  BY <1>1, Invariance, PTL

\* A window exceeds the rate by the bytes of one Read at the most.
THEOREM BurstKept == Spec => []BurstBound
<1>1. IInv => BurstBound
  BY MaxReadAssumption DEF IInv, TypeOK, WindowRate, BurstBound
<1> QED
  BY <1>1, Invariance, PTL
=============================================================================
