--------------------------- MODULE UpstreamProofs ---------------------------
(***************************************************************************)
(* The safety properties of Upstream for every set of hosts, connections   *)
(* and timers.  None of them is inductive; together with the facts below   *)
(* about where the goroutines are and what they hold, they are.            *)
(***************************************************************************)
EXTENDS Upstream, FiniteSetTheorems, TLAPS

\* The goroutines of a round trip live only while tryRoundTrip waits.
Joined ==
  /\ pc # "run" => wpc = "done" /\ lpc = "done"
  /\ pc = "run" => ~errS
  /\ pc = "dead" => \A t \in TimerId : tpc[t] = "off"

\* A pooled connection was dialed for its key, and is not closed as long as
\* it may be chosen again; the current one is the pooled one of the request.
PoolInv ==
  /\ \A h \in Host : conns[h] # Nil =>
       /\ peer[conns[h]] = h
       /\ pc \notin {"leaving", "dead"} => sock[conns[h]] # "closed"
  /\ pc = "run" => conn = conns[rq.host]

Waiting == {"start", "reading", "parsed", "cancel"}

\* A timeout handle that may still fire is that of the attempt in progress.
TimerInv ==
  \A t \in TimerId :
    /\ once[t] \notin {"done", "fired"} => pc = "dead" \/ (pc = "run" /\ t = timer /\ lpc \in Waiting)
    /\ tpc[t] = "firing" => once[t] = "running"

\* The response of this round trip has been read.
HasAnswer == pc \in {"run", "decide", "answered"} /\ answer # "none"

\* What the two goroutines have done, and to which connection.
RunInv ==
  /\ pc = "run" /\ wpc # "start" => conns[rq.host] \in {wConn, Nil}
  /\ pc = "run" /\ lpc # "start" => conns[rq.host] \in {lConn, Nil}
  /\ pc = "run" /\ lpc \in {"start", "reading"} => answer = "none"
  /\ pc = "run" /\ lpc = "parsed" => answer # "none"
  /\ pc = "run" /\ lpc \in {"cancel", "closing"} /\ answer = "none" => errR
  /\ pc = "run" /\ lpc = "done" /\ answer = "none" => conns[rq.host] = Nil
  /\ HasAnswer => /\ conns[rq.host] \in {lConn, Nil}
                  /\ lConn # Nil /\ owed[lConn] > 0
                  /\ answer = "interim" => rq.host \in InterimHost
  /\ pc \in {"preread", "open", "failed"} \/ (pc = "decide" /\ errS) => answer = "none"

\* The answers a pooled connection may owe: that of the request in progress.
Due(h) ==
  IF h = rq.host /\ \/ pc = "run" /\ wpc \notin {"start", "writing"}
                    \/ pc \in {"decide", "answered"} /\ answer \in {"keep", "close"}
  THEN 1 ELSE 0

OwedInv ==
  pc \notin {"leaving", "dead"} =>
    \A h \in Host \ InterimHost : conns[h] # Nil => owed[conns[h]] <= Due(h)

\* Once the handler's own call has read the body, that call tries no more.
SpentInv ==
  spent /\ ~second =>
    pc \notin {"preread", "open"} /\ ~(pc = "decide" /\ errS) /\ ~(pc = "run" /\ wpc = "start")

\* Whatever has taken scp.Conn away from the round trip in progress, and what
\* the goroutines that have taken it since can have found.
NilInv ==
  /\ panic # "none" => pc = "dead"
  /\ (wpc = "closing" => wErr) /\ (lpc = "closing" => errR)
  /\ pc = "run" /\ wpc # "done" => tpc[timer] = "off"
  /\ pc = "run" /\ conn = Nil =>
       \/ wpc = "done" /\ (wErr \/ once[timer] = "fired")
       \/ lpc = "done" /\ errR
  /\ wpc = "writing" /\ wConn = Nil => lpc = "done" /\ errR
  /\ lpc = "reading" /\ lConn = Nil => wErr \/ once[timer] = "fired"

\* What has been read without an error, and by what it may have been lost since.
WholeInv ==
  /\ pc = "answered" => answer # "none"
  /\ HasAnswer /\ ~errR =>
       \/ wErr \/ once[timer] = "fired"
       \/ /\ sock[lConn] # "closed"
          /\ pc = "run" => conn = lConn
          /\ answer = "close" /\ ~(pc = "run" /\ lpc = "parsed") => bodyConn = lConn

IInv ==
  /\ TypeOK /\ Joined /\ PoolInv /\ NoLeak /\ RightHost
  /\ TimerInv /\ RunInv /\ OwedInv /\ SpentInv /\ NilInv /\ CrashNeedsFailure
  /\ WholeInv

-----------------------------------------------------------------------------
USE NilAssumption, MaxConnsAssumption, HostAssumption

\* A new ServerConnProps has no connections and nothing in flight.
LEMMA InitInv == Init => IInv
<1> USE DEF IInv, TypeOK, Joined, PoolInv, NoLeak, RightHost, TimerInv, RunInv, OwedInv, SpentInv,
            NilInv, CrashNeedsFailure, WholeInv, HasAnswer, Due, Waiting, Pooled,
            vars, poolVars, callVars, writeVars, listenVars, timerVars
<1> SUFFICES ASSUME Init PROVE IInv
  OBVIOUS
<1>1. second \in BOOLEAN /\ errS \in BOOLEAN /\ errR \in BOOLEAN
      /\ used \in BOOLEAN /\ spent \in BOOLEAN /\ wErr \in BOOLEAN
  BY DEF Init
<1>2. rq \in [host : Host, body : BOOLEAN]
  BY DEF Init
<1> QED
  BY <1>1, <1>2 DEF Init

\* The client sends a request, or listenConn's loop ends.
LEMMA ClientStep == ASSUME IInv, Client PROVE IInv'
<1> USE DEF IInv, TypeOK, Joined, PoolInv, NoLeak, RightHost, TimerInv, RunInv, OwedInv, SpentInv,
            NilInv, CrashNeedsFailure, WholeInv, HasAnswer, Due, Waiting, Pooled,
            vars, poolVars, callVars, writeVars, listenVars, timerVars
<1>1. ASSUME NEW h \in Host, NEW b \in BOOLEAN, HandlerRoundTrip(h, b) PROVE IInv'
  <2>1. /\ second' \in BOOLEAN /\ errS' \in BOOLEAN /\ errR' \in BOOLEAN
        /\ used' \in BOOLEAN /\ spent' \in BOOLEAN /\ wErr' \in BOOLEAN
    BY <1>1 DEF HandlerRoundTrip, EnterRoundTrip
  <2>2. TypeOK'
    BY <1>1, <2>1 DEF HandlerRoundTrip, EnterRoundTrip
  <2>3. PoolInv' /\ NoLeak' /\ RightHost'
    BY <1>1 DEF HandlerRoundTrip, EnterRoundTrip
  <2>4. Joined' /\ TimerInv' /\ RunInv' /\ OwedInv' /\ SpentInv'
    BY <1>1 DEF HandlerRoundTrip, EnterRoundTrip
  <2>5. NilInv' /\ CrashNeedsFailure' /\ WholeInv'
    BY <1>1 DEF HandlerRoundTrip, EnterRoundTrip
  <2> QED
    BY <2>2, <2>3, <2>4, <2>5
<1>2. CASE Leave
  BY <1>2 DEF Leave
<1> QED
  BY <1>1, <1>2 DEF Client

\* RoundTrip, tryRoundTrip and Open, and what listenConn does with a response.
LEMMA CallerStep == ASSUME IInv, Caller PROVE IInv'
<1> USE DEF IInv, TypeOK, Joined, PoolInv, NoLeak, RightHost, TimerInv, RunInv, OwedInv, SpentInv,
            NilInv, CrashNeedsFailure, WholeInv, HasAnswer, Due, Waiting, Pooled,
            vars, poolVars, callVars, writeVars, listenVars, timerVars
<1>1. CASE SecondRoundTrip
  <2>1. /\ second' \in BOOLEAN /\ errS' \in BOOLEAN /\ errR' \in BOOLEAN
        /\ used' \in BOOLEAN /\ spent' \in BOOLEAN /\ wErr' \in BOOLEAN
    BY <1>1 DEF SecondRoundTrip, EnterRoundTrip
  <2>2. TypeOK'
    BY <1>1, <2>1 DEF SecondRoundTrip, EnterRoundTrip
  <2>3. PoolInv' /\ NoLeak' /\ RightHost'
    BY <1>1 DEF SecondRoundTrip, EnterRoundTrip
  <2>4. Joined' /\ TimerInv' /\ RunInv' /\ OwedInv' /\ SpentInv'
    BY <1>1 DEF SecondRoundTrip, EnterRoundTrip
  <2>5. NilInv' /\ CrashNeedsFailure' /\ WholeInv'
    BY <1>1 DEF SecondRoundTrip, EnterRoundTrip
  <2> QED
    BY <2>2, <2>3, <2>4, <2>5
<1>2. CASE DeliverKeep
  BY <1>2 DEF DeliverKeep
<1>3. CASE DeliverInterim
  BY <1>3 DEF DeliverInterim
<1>4. CASE DeliverClose
  BY <1>4 DEF DeliverClose
<1>5. CASE BodyPanic
  BY <1>5 DEF BodyPanic, Crash
<1>6. CASE Shutdown
  BY <1>6 DEF Shutdown, Close, Hangup, Pooled
<1>7. CASE OpenPooled
  <2>1. /\ second' \in BOOLEAN /\ errS' \in BOOLEAN /\ errR' \in BOOLEAN
        /\ used' \in BOOLEAN /\ spent' \in BOOLEAN /\ wErr' \in BOOLEAN
    BY <1>7 DEF OpenPooled, StartAttempt
  <2>2. TypeOK'
    BY <1>7, <2>1 DEF OpenPooled, StartAttempt
  <2>3. PoolInv' /\ NoLeak' /\ RightHost'
    BY <1>7 DEF OpenPooled, StartAttempt
  <2>4. Joined' /\ TimerInv' /\ RunInv' /\ OwedInv' /\ SpentInv'
    BY <1>7 DEF OpenPooled, StartAttempt
  <2>5. NilInv' /\ CrashNeedsFailure' /\ WholeInv'
    BY <1>7 DEF OpenPooled, StartAttempt
  <2> QED
    BY <2>2, <2>3, <2>4, <2>5
<1>8. CASE OpenDial
  <2>1. /\ second' \in BOOLEAN /\ errS' \in BOOLEAN /\ errR' \in BOOLEAN
        /\ used' \in BOOLEAN /\ spent' \in BOOLEAN /\ wErr' \in BOOLEAN
    BY <1>8 DEF OpenDial, Dial, StartAttempt
  <2>2. TypeOK'
    BY <1>8, <2>1 DEF OpenDial, Dial, StartAttempt, PoolBeforeDial, SockBeforeDial, Hangup, Pooled
  <2>3. PoolInv' /\ NoLeak' /\ RightHost'
    BY <1>8 DEF OpenDial, Dial, StartAttempt, PoolBeforeDial, SockBeforeDial, Hangup, Pooled
  <2>4. Joined' /\ TimerInv' /\ RunInv' /\ OwedInv' /\ SpentInv'
    BY <1>8 DEF OpenDial, Dial, StartAttempt, PoolBeforeDial, SockBeforeDial, Hangup, Pooled
  <2>5. NilInv' /\ CrashNeedsFailure' /\ WholeInv'
    BY <1>8 DEF OpenDial, Dial, StartAttempt, PoolBeforeDial, SockBeforeDial, Hangup, Pooled
  <2> QED
    BY <2>2, <2>3, <2>4, <2>5
<1>9. CASE OpenFail
  BY <1>9 DEF OpenFail, PoolBeforeDial, SockBeforeDial, Hangup, Pooled
<1>10. CASE Join
  BY <1>10 DEF Join
<1>11. CASE Decide
  BY <1>11 DEF Decide, TryAgain
<1>12. CASE PreRead
  BY <1>12 DEF PreRead
<1> QED
  BY <1>1, <1>2, <1>3, <1>4, <1>5, <1>6, <1>7, <1>8, <1>9, <1>10, <1>11, <1>12 DEF Caller

\* The writing goroutine.
LEMMA WriterStep == ASSUME IInv, Writer PROVE IInv'
<1> USE DEF IInv, TypeOK, Joined, PoolInv, NoLeak, RightHost, TimerInv, RunInv, OwedInv, SpentInv,
            NilInv, CrashNeedsFailure, WholeInv, HasAnswer, Due, Waiting, Pooled,
            vars, poolVars, callVars, writeVars, listenVars, timerVars
<1>1. CASE WriteBegin
  BY <1>1 DEF WriteBegin
<1>2. CASE WritePanic
  BY <1>2 DEF WritePanic, Crash
<1>3. CASE WriteSend
  BY <1>3 DEF WriteSend, ReadBody
<1>4. CASE WriteDone
  BY <1>4 DEF WriteDone
<1>5. CASE WriteFail
  BY <1>5 DEF WriteFail, ReadBody
<1>6. CASE WriteClose
  BY <1>6 DEF WriteClose, Close, Hangup, Pooled
<1> QED
  BY <1>1, <1>2, <1>3, <1>4, <1>5, <1>6 DEF Writer

\* The listening goroutine.
LEMMA ListenerStep == ASSUME IInv, Listener PROVE IInv'
<1> USE DEF IInv, TypeOK, Joined, PoolInv, NoLeak, RightHost, TimerInv, RunInv, OwedInv, SpentInv,
            NilInv, CrashNeedsFailure, WholeInv, HasAnswer, Due, Waiting, Pooled,
            vars, poolVars, callVars, writeVars, listenVars, timerVars
<1>1. CASE ListenBegin
  BY <1>1 DEF ListenBegin
<1>2. CASE ListenPanic
  BY <1>2 DEF ListenPanic, Crash
<1>3. CASE ListenAnswer
  BY <1>3 DEF ListenAnswer, Answers
<1>4. CASE ListenDead
  BY <1>4 DEF ListenDead, ListenFail
<1>5. CASE ListenGarbage
  BY <1>5 DEF ListenGarbage, ListenFail
<1>6. CASE ListenReturn
  BY <1>6 DEF ListenReturn
<1>7. CASE ListenCancel
  BY <1>7 DEF ListenCancel
<1>8. CASE ListenClose
  BY <1>8 DEF ListenClose, Close, Hangup, Pooled
<1> QED
  BY <1>1, <1>2, <1>3, <1>4, <1>5, <1>6, <1>7, <1>8 DEF Listener

\* A timer goroutine wakes, or closes the connections.
LEMMA TimerStep == ASSUME IInv, NEW t \in TimerId, TimerExpire(t) \/ TimerClose(t) PROVE IInv'
<1> USE DEF IInv, TypeOK, Joined, PoolInv, NoLeak, RightHost, TimerInv, RunInv, OwedInv, SpentInv,
            NilInv, CrashNeedsFailure, WholeInv, HasAnswer, Due, Waiting, Pooled,
            vars, poolVars, callVars, writeVars, listenVars, timerVars
<1>1. CASE TimerExpire(t)
  BY <1>1 DEF TimerExpire
<1>2. CASE TimerClose(t)
  BY <1>2 DEF TimerClose, Close, Hangup
<1> QED
  BY <1>1, <1>2

\* Every step of the client, of the goroutines, of a timer or of a server.
LEMMA NextInv == IInv /\ [Next]_vars => IInv'
<1> SUFFICES ASSUME IInv, [Next]_vars PROVE IInv'
  OBVIOUS
<1>1. ASSUME NEW c \in ConnId, PeerClose(c) PROVE IInv'
  BY <1>1 DEF PeerClose, IInv, TypeOK, Joined, PoolInv, NoLeak, RightHost, TimerInv, RunInv,
              OwedInv, SpentInv, NilInv, CrashNeedsFailure, WholeInv, HasAnswer, Due, Waiting, Pooled,
              callVars, writeVars, listenVars, timerVars
<1>2. CASE UNCHANGED vars
  BY <1>2 DEF IInv, TypeOK, Joined, PoolInv, NoLeak, RightHost, TimerInv, RunInv,
              OwedInv, SpentInv, NilInv, CrashNeedsFailure, WholeInv, HasAnswer, Due, Waiting, Pooled,
              vars, poolVars, callVars, writeVars, listenVars, timerVars
<1> QED
  BY <1>1, <1>2, ClientStep, CallerStep, WriterStep, ListenerStep, TimerStep DEF Next, Timers

\* The inductive invariant holds throughout.
THEOREM Invariance == Spec => []IInv
  BY InitInv, NextInv, PTL DEF Spec

\* The variables keep their types: no owed answer is ever taken twice.
THEOREM TypeCorrect == Spec => []TypeOK
<1>1. IInv => TypeOK
  BY DEF IInv
<1> QED
  BY <1>1, Invariance, PTL

\* Close always reaches every connection that is still open.
THEOREM NothingLeaks == Spec => []NoLeak
<1>1. IInv => NoLeak
  BY DEF IInv
<1> QED
  BY <1>1, Invariance, PTL

\* Late reads of scp.Conn never send a request to another host.
THEOREM OnlyToItsHost == Spec => []RightHost
<1>1. IInv => RightHost
  BY DEF IInv
<1> QED
  BY <1>1, Invariance, PTL

\* A late answer is never taken for that of a later request, unless the server
\* sends interim responses.
THEOREM NoLateAnswer == Spec => []NoStaleAnswer
<1>1. IInv => NoStaleAnswer
  BY DEF IInv, TypeOK, PoolInv, OwedInv, Due, NoStaleAnswer, Pooled
<1> QED
  BY <1>1, Invariance, PTL

\* A timer of an earlier round trip never closes the connections of a later one.
THEOREM NoLateTimeout == Spec => []NoStaleTimeout
<1>1. IInv => NoStaleTimeout
  BY DEF IInv, TypeOK, Joined, TimerInv, NoStaleTimeout, Waiting
<1> QED
  BY <1>1, Invariance, PTL

\* RoundTrip never sends a body again that it has begun to read.
THEOREM NoHalfBody == Spec => []BodySentWhole
<1>1. IInv => BodySentWhole
  BY DEF IInv, SpentInv, BodySentWhole
<1> QED
  BY <1>1, Invariance, PTL

\* The process dies of a nil scp.Conn only after a failure on the wire.
THEOREM HealthyDoesNotCrash == Spec => []CrashNeedsFailure
<1>1. IInv => CrashNeedsFailure
  BY DEF IInv
<1> QED
  BY <1>1, Invariance, PTL

\* No other goroutine and no timer of an earlier attempt takes away the
\* connection of an answer that was read, before RoundTrip returns it.
THEOREM AnswerKept == Spec => []AnswerWhole
<1>1. IInv => AnswerWhole
  BY DEF IInv, WholeInv, HasAnswer, RunInv, AnswerWhole
<1> QED
  BY <1>1, Invariance, PTL

\* After RoundTrip has returned nothing here closes the answer's connection.
THEOREM DeliveredInPeace == Spec => AnswerUndisturbed
<1> DEFINE Peace == pc = "answered" /\ pc' = "answered" =>
                      \A c \in ConnId : sock[c] # "closed" => sock'[c] # "closed"
<1>1. IInv /\ [Next]_vars => [Peace]_vars
  <2> SUFFICES ASSUME IInv, Next, pc = "answered", pc' = "answered",
                      NEW c \in ConnId, sock[c] # "closed"
               PROVE sock'[c] # "closed"
    BY DEF vars
  <2>1. ASSUME NEW t \in TimerId, TimerClose(t) PROVE FALSE
    BY <2>1 DEF TimerClose, IInv, TimerInv
  <2>2. CASE Client \/ Caller
    BY <2>2 DEF Client, HandlerRoundTrip, EnterRoundTrip, Leave, Caller, SecondRoundTrip,
                DeliverKeep, DeliverInterim, DeliverClose, BodyPanic, Crash, Shutdown,
                PreRead, OpenPooled, OpenDial, OpenFail, StartAttempt, Join, Decide
  <2>3. CASE Writer \/ Listener
    BY <2>3 DEF Writer, WriteBegin, WritePanic, WriteSend, WriteDone, WriteFail, WriteClose,
                Listener, ListenBegin, ListenPanic, ListenAnswer, ListenDead, ListenGarbage,
                ListenFail, ListenReturn, ListenCancel, ListenClose, IInv, Joined
  <2>4. ASSUME NEW t \in TimerId, TimerExpire(t) PROVE sock' = sock
    BY <2>4 DEF TimerExpire, poolVars
  <2>5. ASSUME NEW d \in ConnId, PeerClose(d) PROVE sock'[c] # "closed"
    BY <2>5 DEF PeerClose, IInv, TypeOK
  <2> QED
    BY <2>1, <2>2, <2>3, <2>4, <2>5 DEF Next, Timers
<1> QED
  BY <1>1, Invariance, PTL DEF Spec, AnswerUndisturbed

-----------------------------------------------------------------------------
(* The size of the pool.                                                   *)

\* Closing everything, or dialing one more, keeps the pool within its bound.
LEMMA PoolBoundNext == IInv /\ PoolBound /\ [Next]_vars => PoolBound'
<1> SUFFICES ASSUME IInv, PoolBound, [Next]_vars PROVE PoolBound'
  OBVIOUS
<1>1. IsFiniteSet(InPool) /\ Cardinality(InPool) \in Nat
  BY HostAssumption, FS_Subset, FS_CardinalityType DEF InPool
<1>2. CASE conns' = conns
  BY <1>2 DEF InPool, PoolBound
<1>3. CASE conns' = [h \in Host |-> Nil]
  <2>1. InPool' = {}
    BY <1>3 DEF InPool
  <2> QED
    BY <2>1, FS_EmptySet, MaxConnsAssumption DEF PoolBound
<1>4. CASE OpenDial
  <2> DEFINE Kept == {h \in Host : PoolBeforeDial[h] # Nil}
  <2>1. rq.host \in Host /\ PoolBeforeDial = [h \in Host |-> PoolBeforeDial[h]]
    BY DEF IInv, TypeOK, PoolBeforeDial
  <2>2. PICK c \in ConnId : conns' = [PoolBeforeDial EXCEPT ![rq.host] = c]
    BY <1>4 DEF OpenDial, Dial
  <2>3. InPool' = Kept \cup {rq.host}
    <3>1. c # Nil
      BY NilAssumption
    <3>2. \A h \in Host : conns'[h] = IF h = rq.host THEN c ELSE PoolBeforeDial[h]
      BY <2>1, <2>2
    <3> QED
      BY <2>1, <3>1, <3>2 DEF InPool
  <2>4. IsFiniteSet(Kept) /\ Cardinality(Kept) \in Nat /\ Cardinality(Kept) <= MaxConns
    <3>1. CASE PoolFull
      <4>1. \A h \in Host : PoolBeforeDial[h] = Nil
        BY <3>1 DEF PoolBeforeDial
      <4>2. Kept = {}
        BY <4>1
      <4> QED
        BY <4>2, FS_EmptySet, MaxConnsAssumption
    <3>2. CASE ~PoolFull
      <4>1. PoolBeforeDial = conns
        BY <3>2 DEF PoolBeforeDial
      <4>2. Kept = InPool
        BY <4>1 DEF InPool
      <4>3. Cardinality(InPool) <= MaxConns
        BY <1>1, <3>2, MaxConnsAssumption DEF PoolFull
      <4> QED
        BY <1>1, <4>2, <4>3
    <3> QED
      BY <3>1, <3>2
  <2>5. Cardinality(Kept \cup {rq.host}) <= MaxConns + 1
    <3>1. Cardinality(Kept \cup {rq.host}) \in {Cardinality(Kept), Cardinality(Kept) + 1}
      <4> HIDE DEF Kept
      <4> QED
        BY <2>4, FS_AddElement
    <3> QED
      BY <2>4, <3>1, MaxConnsAssumption
  <2> QED
    BY <2>3, <2>5 DEF PoolBound
<1>5. CASE OpenFail
  BY <1>2, <1>3, <1>5 DEF OpenFail, PoolBeforeDial
<1> QED
  <2>1. Client => conns' = conns
    BY DEF Client, HandlerRoundTrip, EnterRoundTrip, Leave, poolVars
  <2>2. Caller => conns' = conns \/ conns' = [h \in Host |-> Nil] \/ OpenDial \/ OpenFail
    BY DEF Caller, SecondRoundTrip, EnterRoundTrip, DeliverKeep, DeliverInterim, DeliverClose,
           BodyPanic, Crash, Shutdown, Close, PreRead, OpenPooled, Join, Decide, poolVars
  <2>3. Writer => conns' = conns \/ conns' = [h \in Host |-> Nil]
    BY DEF Writer, WriteBegin, WritePanic, Crash, WriteSend, WriteDone, WriteFail, WriteClose,
           Close, poolVars
  <2>4. Listener => conns' = conns \/ conns' = [h \in Host |-> Nil]
    BY DEF Listener, ListenBegin, ListenPanic, Crash, ListenAnswer, ListenDead, ListenGarbage,
           ListenFail, ListenReturn, ListenCancel, ListenClose, Close, poolVars
  <2>5. Timers \/ (\E c \in ConnId : PeerClose(c))
          => conns' = conns \/ conns' = [h \in Host |-> Nil]
    BY DEF Timers, TimerExpire, TimerClose, Close, PeerClose, poolVars
  <2> QED
    BY <1>2, <1>3, <1>4, <1>5, <2>1, <2>2, <2>3, <2>4, <2>5 DEF Next, vars, poolVars

\* The pool of a client never holds more than MaxConns + 1 connections.
THEOREM PoolBounded == Spec => []PoolBound
<1>1. Init => PoolBound
  <2> SUFFICES ASSUME Init PROVE PoolBound
    OBVIOUS
  <2>1. InPool = {}
    BY DEF Init, InPool
  <2> QED
    BY <2>1, FS_EmptySet, MaxConnsAssumption DEF PoolBound
<1> QED
  BY <1>1, Invariance, PoolBoundNext, PTL DEF Spec

-----------------------------------------------------------------------------
(* Upstream implements the safety part of RoundTrip, for servers that send *)
(* no interim responses.  Beside the invariant above this needs to know    *)
(* when the request of the present call is on the wire.                    *)

WireInv ==
  /\ wire \in {0, 1}
  /\ pc \in {"preread", "open"} \/ (pc = "decide" /\ errS) \/ (pc = "run" /\ wpc \in {"start", "writing"})
       => wire = 0
  /\ pc = "run" /\ conns[rq.host] # Nil /\ owed[conns[rq.host]] > 0 => wire = 1
  /\ HasAnswer => wire = 1

\* Before the first request nothing was sent.
LEMMA WireInit == Init => WireInv
  BY DEF Init, WireInv, HasAnswer

\* A request is sent once, by the writing goroutine, and answered after that.
LEMMA WireNext ==
  ASSUME InterimHost = {}, IInv, WireInv, [Next]_vars PROVE WireInv'
<1> USE DEF WireInv, HasAnswer, vars, poolVars, callVars, writeVars, listenVars, timerVars
<1>1. CASE Client
  BY <1>1 DEF Client, HandlerRoundTrip, EnterRoundTrip, Leave
<1>2. CASE Caller
  <2>1. CASE OpenPooled
    <3>1. /\ wire' = wire /\ answer' = answer /\ pc' = "run" /\ rq' = rq /\ conns' = conns
          /\ owed' = owed /\ lpc' = "start" /\ wpc' = "start" /\ pc = "open"
      BY <2>1 DEF OpenPooled, StartAttempt
    <3>2. answer = "none" /\ wire = 0
      BY <3>1 DEF IInv, RunInv
    <3>3. conns[rq.host] # Nil => owed[conns[rq.host]] = 0
      BY <3>1 DEF IInv, TypeOK, OwedInv, Due
    <3> QED
      BY <3>1, <3>2, <3>3
  <2>2. CASE OpenDial
    <3>1. /\ wire' = 0 /\ answer' = answer /\ pc' = "run" /\ rq' = rq
          /\ lpc' = "start" /\ wpc' = "start"
      BY <2>2 DEF OpenDial, Dial, StartAttempt
    <3>5. answer = "none"
      BY <2>2 DEF OpenDial, Dial, IInv, RunInv
    <3>2. PICK c \in ConnId : /\ conns' = [PoolBeforeDial EXCEPT ![rq.host] = c]
                              /\ owed' = [owed EXCEPT ![c] = 0]
      BY <2>2 DEF OpenDial, Dial
    <3>3. rq.host \in Host /\ DOMAIN PoolBeforeDial = Host /\ DOMAIN owed = ConnId
      BY DEF IInv, TypeOK, PoolBeforeDial
    <3>4. conns'[rq.host] = c /\ owed'[c] = 0
      BY <3>2, <3>3
    <3> QED
      BY <3>1, <3>3, <3>4, <3>5
  <2>3. CASE OpenFail
    BY <2>3 DEF OpenFail, IInv, RunInv
  <2>4. CASE Join \/ Decide
    BY <2>4 DEF Join, Decide, TryAgain, IInv, Joined
  <2> QED
    BY <1>2, <2>1, <2>2, <2>3, <2>4
       DEF Caller, SecondRoundTrip, EnterRoundTrip, DeliverKeep, DeliverInterim, DeliverClose,
           BodyPanic, Crash, Shutdown, PreRead
<1>3. CASE Writer
  <2>1. CASE WriteSend
    BY <2>1 DEF WriteSend, IInv, TypeOK, Joined, RunInv
  <2>2. CASE WriteClose
    BY <2>2 DEF WriteClose, Close, IInv, TypeOK
  <2> QED
    BY <1>3, <2>1, <2>2 DEF Writer, WriteBegin, WritePanic, Crash, WriteDone, WriteFail
<1>4. CASE Listener
  <2>1. CASE ListenAnswer
    BY <2>1 DEF ListenAnswer, IInv, TypeOK, Joined, RunInv, NoLeak, PoolInv, RightHost, Pooled
  <2>2. CASE ListenClose
    BY <2>2 DEF ListenClose, Close, IInv, TypeOK
  <2> QED
    BY <1>4, <2>1, <2>2
       DEF Listener, ListenBegin, ListenPanic, Crash, ListenDead, ListenGarbage, ListenFail,
           ListenReturn, ListenCancel
<1>5. CASE Timers
  BY <1>5 DEF Timers, TimerExpire, TimerClose, Close, IInv, TypeOK
<1>6. ASSUME NEW c \in ConnId, PeerClose(c) PROVE WireInv'
  BY <1>6 DEF PeerClose
<1>7. CASE UNCHANGED vars
  BY <1>7
<1> QED
  BY <1>1, <1>2, <1>3, <1>4, <1>5, <1>6, <1>7 DEF Next

\* Every step of Upstream is a step of RoundTrip, or none that its caller sees.
LEMMA StepRefines ==
  ASSUME InterimHost = {}, IInv, WireInv, [Next]_vars PROVE [RT!Next]_RT!vars
<1> USE DEF RT!Next, RT!vars, vars, poolVars, callVars, writeVars, listenVars, timerVars
<1>1. CASE Client
  <2>1. ASSUME NEW h \in Host, NEW b \in BOOLEAN, HandlerRoundTrip(h, b) PROVE RT!Begin
    BY <2>1 DEF HandlerRoundTrip, EnterRoundTrip, RT!Begin
  <2>2. Leave => RT!Finish
    BY DEF Leave, RT!Finish
  <2> QED
    BY <1>1, <2>1, <2>2 DEF Client
<1>2. CASE Caller
  <2>1. SecondRoundTrip => RT!Begin
    BY DEF SecondRoundTrip, EnterRoundTrip, RT!Begin
  <2>2. DeliverKeep \/ DeliverInterim \/ DeliverClose \/ BodyPanic => RT!Finish
    BY DEF DeliverKeep, DeliverInterim, DeliverClose, BodyPanic, Crash, RT!Finish
  <2>3. Shutdown \/ PreRead \/ OpenPooled \/ OpenDial \/ OpenFail \/ Join => UNCHANGED RT!vars
    BY DEF Shutdown, PreRead, OpenPooled, OpenDial, Dial, OpenFail, StartAttempt, Join
  <2>4. Decide => RT!Answer \/ RT!Fail \/ UNCHANGED RT!vars
    BY DEF Decide, WireInv, HasAnswer, RT!Answer, RT!Fail
  <2> QED
    BY <1>2, <2>1, <2>2, <2>3, <2>4 DEF Caller
<1>3. CASE Writer
  <2>1. WriteSend => RT!Send \/ UNCHANGED RT!vars
    BY DEF WriteSend, IInv, Joined, WireInv, RT!Send
  <2>2. WritePanic => RT!Crash
    BY DEF WritePanic, Crash, IInv, Joined, RT!Crash
  <2> QED
    BY <1>3, <2>1, <2>2 DEF Writer, WriteBegin, WriteDone, WriteFail, WriteClose
<1>4. CASE Listener
  <2>1. ListenPanic => RT!Crash
    BY DEF ListenPanic, Crash, IInv, Joined, RT!Crash
  <2> QED
    BY <1>4, <2>1
       DEF Listener, ListenBegin, ListenAnswer, ListenDead, ListenGarbage, ListenFail,
           ListenReturn, ListenCancel, ListenClose
<1>5. CASE Timers
  BY <1>5 DEF Timers, TimerExpire, TimerClose
<1>6. ASSUME NEW c \in ConnId, PeerClose(c) PROVE UNCHANGED RT!vars
  BY <1>6 DEF PeerClose
<1>7. CASE UNCHANGED vars
  BY <1>7
<1> QED
  BY <1>1, <1>2, <1>3, <1>4, <1>5, <1>6, <1>7 DEF Next

\* A round trip sends its request at most once and answers only what it sent.
THEOREM RoundTripRefined == ASSUME InterimHost = {} PROVE Spec => RT!SafeSpec
<1>1. Init => RT!Init
  BY DEF Init, RT!Init
<1>2. IInv /\ WireInv /\ [Next]_vars => WireInv'
  BY WireNext
<1>3. IInv /\ WireInv /\ [Next]_vars => [RT!Next]_RT!vars
  BY StepRefines
<1> QED
  BY <1>1, <1>2, <1>3, WireInit, Invariance, PTL DEF Spec, RT!SafeSpec
=============================================================================
