------------------------------ MODULE Upstream ------------------------------
(***************************************************************************)
(* The upstream side of one client connection (proxy/serverConnProps.go)   *)
(* and the part of listenConn and of the request handler that drives it.   *)
(*                                                                         *)
(* One ServerConnProps is used by one listenConn goroutine, one request at *)
(* a time.  Inside a round trip three more goroutines touch it: the one    *)
(* that writes the request, the one that listens for the response, and the *)
(* timer that closes everything when no response header came in time.      *)
(* scp.Conns and scp.Conn are changed under connsMu, but Write and Listen  *)
(* read scp.Conn without it: that read is a step of its own here.          *)
(***************************************************************************)
EXTENDS Naturals, FiniteSets

CONSTANTS
  Host,      \* keys of ServerConnProps.Conns: "scheme://host:port"
  ConnId,    \* upstream TCP or TLS connections; an id is reused once closed
  TimerId,   \* response-header timers that may be pending at once (a bound)
  MaxConns,  \* ServerConnProps.MaxConns, which listenConn sets to 5
  InterimHost,  \* hosts whose servers may send "100 Continue" first
  Nil        \* no connection

ASSUME NilAssumption == Nil \notin ConnId
ASSUME MaxConnsAssumption == MaxConns \in Nat
ASSUME HostAssumption == IsFiniteSet(Host) /\ InterimHost \subseteq Host

VARIABLES
  conns,     \* scp.Conns
  conn,      \* scp.Conn: the connection of the latest Open
  sock,      \* each connection: open here, closed by the peer, closed here
  peer,      \* the host each connection was dialed for
  owed,      \* requests received over each connection and not yet answered
  pc,        \* where listenConn stands
  rq,        \* the request: its host, and whether it has a body
  second,    \* listenConn itself called RoundTrip, after the handler did
  attempt,   \* which tryRoundTrip call of this RoundTrip
  errS,      \* outer errS of tryRoundTrip: only Open assigns it
  errR,      \* errR of tryRoundTrip
  answer,    \* the response: none, keeping the connection or not, or interim
  bodyConn,  \* scp.Conn as the closer of a "Connection: close" body read it
  used,      \* readCloserStats.Used of this RoundTrip
  spent,     \* the client's request body has been read, by whatever call
  wire,      \* sends of this RoundTrip that reached a server
  wpc, wConn, wErr,   \* the writing goroutine, its connection, its own errS
  lpc, lConn,         \* the listening goroutine and its connection
  timer, tpc, once,   \* this attempt's timer; every timer, and its sync.Once,
                      \* which is done, or fired if it has closed the pool
  panic      \* the goroutine whose nil dereference ended the process

poolVars   == <<conns, conn, sock, peer, owed>>
callVars   == <<pc, rq, second, attempt, errS, errR, answer, bodyConn, used, spent, wire>>
writeVars  == <<wpc, wConn, wErr>>
listenVars == <<lpc, lConn>>
timerVars  == <<timer, tpc, once>>
vars == <<poolVars, callVars, writeVars, listenVars, timerVars, panic>>

TypeOK ==
  /\ conns \in [Host -> ConnId \cup {Nil}]
  /\ conn \in ConnId \cup {Nil}
  /\ sock \in [ConnId -> {"open", "eof", "closed"}]
  /\ peer \in [ConnId -> Host \cup {Nil}]
  /\ owed \in [ConnId -> Nat]
  /\ pc \in {"ready", "preread", "open", "run", "decide", "answered", "failed", "leaving", "shut", "dead"}
  /\ rq \in [host : Host, body : BOOLEAN]
  /\ attempt \in 1..2
  /\ second \in BOOLEAN /\ errS \in BOOLEAN /\ errR \in BOOLEAN
  /\ used \in BOOLEAN /\ spent \in BOOLEAN /\ wErr \in BOOLEAN
  /\ answer \in {"none", "keep", "close", "interim"}
  /\ {bodyConn, wConn, lConn} \subseteq ConnId \cup {Nil}
  /\ wire \in Nat
  /\ wpc \in {"start", "writing", "sent", "closing", "done"}
  /\ lpc \in {"start", "reading", "parsed", "cancel", "closing", "done"}
  /\ timer \in TimerId
  /\ tpc \in [TimerId -> {"off", "asleep", "firing"}]
  /\ once \in [TimerId -> {"new", "running", "done", "fired"}]
  /\ panic \in {"none", "write", "listen", "body"}

Init ==
  /\ conns = [h \in Host |-> Nil] /\ conn = Nil
  /\ sock = [c \in ConnId |-> "closed"]
  /\ peer = [c \in ConnId |-> Nil]
  /\ owed = [c \in ConnId |-> 0]
  /\ pc = "ready"
  /\ rq \in [host : Host, body : {FALSE}]
  /\ attempt = 1 /\ answer = "none" /\ bodyConn = Nil /\ wire = 0
  /\ second = FALSE /\ errS = FALSE /\ errR = FALSE /\ used = FALSE /\ spent = FALSE
  /\ wpc = "done" /\ wConn = Nil /\ wErr = FALSE
  /\ lpc = "done" /\ lConn = Nil
  /\ timer \in TimerId
  /\ tpc = [t \in TimerId |-> "off"]
  /\ once = [t \in TimerId |-> "done"]
  /\ panic = "none"

Pooled == {conns[h] : h \in Host} \ {Nil}

\* Mutant of Hangup: only the latest connection is closed.
HangupLatest == [c \in ConnId |-> IF c = conn THEN "closed" ELSE sock[c]]

\* The sockets after scp.close() has closed every pooled connection.
Hangup == [c \in ConnId |-> IF c \in Pooled THEN "closed" ELSE sock[c]]

\* scp.Close().
Close ==
  /\ conns' = [h \in Host |-> Nil]
  /\ conn' = Nil
  /\ sock' = Hangup
  /\ UNCHANGED <<peer, owed>>

\* A nil dereference in one goroutine ends the process, and its sockets.
Crash(cause) ==
  /\ panic' = cause
  /\ pc' = "dead" /\ wpc' = "done" /\ lpc' = "done"
  /\ tpc' = [t \in TimerId |-> "off"]
  /\ sock' = [c \in ConnId |-> "closed"]
  /\ UNCHANGED <<conns, conn, peer, owed, rq, second, attempt, errS, errR, answer, bodyConn,
                 used, spent, wire, wConn, wErr, lConn, timer, once>>

-----------------------------------------------------------------------------
(* listenConn and the handler: one request after the other.                *)

\* RoundTrip starts with a new readCloserStats and no response.  If the length
\* of the body is unknown, its beginning is read first.
EnterRoundTrip ==
  /\ pc' \in {"open"} \cup (IF rq'.body THEN {"preread"} ELSE {})
  /\ attempt' = 1
  /\ errS' = FALSE /\ errR' = FALSE /\ answer' = "none" /\ bodyConn' = Nil
  /\ used' = FALSE /\ wire' = 0
  /\ UNCHANGED <<poolVars, writeVars, listenVars, timerVars, panic>>

\* A client request reaches the handler's RoundTrip.
HandlerRoundTrip(h, b) ==
  /\ pc = "ready"
  /\ rq' = [host |-> h, body |-> b]
  /\ second' = FALSE /\ spent' = FALSE
  /\ EnterRoundTrip

\* The handler returned (req, nil): listenConn sends the request itself.
SecondRoundTrip ==
  /\ pc = "failed" /\ ~second
  /\ second' = TRUE
  /\ UNCHANGED <<rq, spent>>
  /\ EnterRoundTrip

\* The loop ends: no request, no response, or a response not delivered.
Leave ==
  /\ \/ pc = "ready"
     \/ pc = "failed" /\ second
     \/ pc = "answered"
  /\ pc' = "leaving"
  /\ UNCHANGED <<poolVars, rq, second, attempt, errS, errR, answer, bodyConn, used,
                 spent, wire, writeVars, listenVars, timerVars, panic>>

\* client.Write streamed the response and closed, hence drained, its body.
DeliverKeep ==
  /\ pc = "answered" /\ answer = "keep"
  /\ pc' = "ready"
  /\ owed' = [owed EXCEPT ![lConn] = @ - 1]
  /\ UNCHANGED <<conns, conn, sock, peer, rq, second, attempt, errS, errR, answer,
                 bodyConn, used, spent, wire, writeVars, listenVars, timerVars, panic>>

\* "100 Continue" is passed on as if it were the response.  The response is
\* still to come, or was lost with the bufio.Reader of Listen.
DeliverInterim ==
  /\ pc = "answered" /\ answer = "interim"
  /\ pc' = "ready"
  /\ owed' \in {owed, [owed EXCEPT ![lConn] = @ - 1]}
  /\ UNCHANGED <<conns, conn, sock, peer, rq, second, attempt, errS, errR, answer,
                 bodyConn, used, spent, wire, writeVars, listenVars, timerVars, panic>>

\* The same for resp.Close: the body's second closer is the scp.Conn it read.
DeliverClose ==
  /\ pc = "answered" /\ answer = "close" /\ bodyConn # Nil
  /\ sock' = [sock EXCEPT ![bodyConn] = "closed"]
  /\ pc' = "leaving"
  /\ UNCHANGED <<conns, conn, peer, owed, rq, second, attempt, errS, errR, answer, bodyConn,
                 used, spent, wire, writeVars, listenVars, timerVars, panic>>

\* The closer was nil when Listen read it.
BodyPanic ==
  /\ pc = "answered" /\ answer = "close" /\ bodyConn = Nil
  /\ Crash("body")

\* server.Close() after the loop.
Shutdown ==
  /\ pc = "leaving"
  /\ Close
  /\ pc' = "shut"
  /\ UNCHANGED <<rq, second, attempt, errS, errR, answer, bodyConn, used, spent, wire,
                 writeVars, listenVars, timerVars, panic>>

-----------------------------------------------------------------------------
(* RoundTrip and tryRoundTrip.                                             *)

\* The beginning of the body has come, or cannot be read.  It is put back in
\* front of the rest; an error is dropped here, and met again by Write.
PreRead ==
  /\ pc = "preread"
  /\ pc' = "open"
  /\ UNCHANGED <<poolVars, rq, second, attempt, errS, errR, answer, bodyConn, used, spent,
                 wire, writeVars, listenVars, timerVars, panic>>

\* Open succeeded: both goroutines are started, with a fresh timeout handle.
StartAttempt ==
  /\ \E t \in TimerId :
       /\ tpc[t] = "off"
       /\ timer' = t
       /\ once' = [once EXCEPT ![t] = "new"]
  /\ pc' = "run"
  /\ errS' = FALSE
  /\ wpc' = "start" /\ wConn' = Nil /\ wErr' = FALSE
  /\ lpc' = "start" /\ lConn' = Nil
  /\ UNCHANGED <<rq, second, attempt, errR, answer, bodyConn, used, spent, wire, tpc, panic>>

\* Mutant of OpenPooled: the pooled connection does not become scp.Conn.
OpenPooledStale ==
  /\ pc = "open" /\ conns[rq.host] # Nil
  /\ UNCHANGED poolVars
  /\ StartAttempt

OpenPooled ==
  /\ pc = "open" /\ conns[rq.host] # Nil
  /\ conn' = conns[rq.host]
  /\ UNCHANGED <<conns, sock, peer, owed>>
  /\ StartAttempt

InPool == {h \in Host : conns[h] # Nil}

\* Mutant of PoolFull: one connection late.
PoolFullLate == Cardinality(InPool) > MaxConns + 1

\* len(scp.Conns) > scp.MaxConns: the pool is emptied before dialing.
PoolFull == Cardinality(InPool) > MaxConns

PoolBeforeDial == IF PoolFull THEN [h \in Host |-> Nil] ELSE conns

SockBeforeDial == IF PoolFull THEN Hangup ELSE sock

\* createConn succeeds: a new TCP or TLS connection to the request's host.
Dial(c) ==
  /\ sock[c] = "closed"
  /\ sock' = [SockBeforeDial EXCEPT ![c] = "open"]
  /\ peer' = [peer EXCEPT ![c] = rq.host]
  /\ owed' = [owed EXCEPT ![c] = 0]

\* Mutant of OpenDial: a full pool is closed after dialing.
OpenDialFirst ==
  /\ pc = "open" /\ conns[rq.host] = Nil
  /\ \E c \in ConnId :
       /\ Dial(c)
       /\ conn' = IF PoolFull THEN Nil ELSE c
       /\ conns' = IF PoolFull THEN PoolBeforeDial ELSE [conns EXCEPT ![rq.host] = c]
  /\ StartAttempt

OpenDial ==
  /\ pc = "open" /\ conns[rq.host] = Nil
  /\ \E c \in ConnId :
       /\ Dial(c)
       /\ conn' = c
       /\ conns' = [PoolBeforeDial EXCEPT ![rq.host] = c]
  /\ StartAttempt

OpenFail ==
  /\ pc = "open" /\ conns[rq.host] = Nil
  /\ conns' = PoolBeforeDial
  /\ sock' = SockBeforeDial
  /\ conn' = Nil
  /\ errS' = TRUE
  /\ pc' = "decide"
  /\ UNCHANGED <<peer, owed, rq, second, attempt, errR, answer, bodyConn, used, spent,
                 wire, writeVars, listenVars, timerVars, panic>>

\* wg.Wait(): tryRoundTrip returns the outer errS, which no goroutine set.
Join ==
  /\ pc = "run" /\ wpc = "done" /\ lpc = "done"
  /\ pc' = "decide"
  /\ UNCHANGED <<poolVars, rq, second, attempt, errS, errR, answer, bodyConn, used,
                 spent, wire, writeVars, listenVars, timerVars, panic>>

\* Mutant of TryAgain: any number of times.
TryAgainForever == errS /\ (rq.body => ~used)

\* Mutant of TryAgain: whenever there is no response, whatever was sent.
TryAgainUnanswered == attempt = 1 /\ answer = "none"

\* RoundTrip tries once more after a send error, if the body is untouched.
TryAgain == attempt = 1 /\ errS /\ (rq.body => ~used)

Decide ==
  /\ pc = "decide"
  /\ IF TryAgain
     THEN attempt' = attempt + 1 /\ pc' = "open"
     ELSE pc' = (IF answer = "none" THEN "failed" ELSE "answered") /\ UNCHANGED attempt
  /\ UNCHANGED <<poolVars, rq, second, errS, errR, answer, bodyConn, used, spent, wire,
                 writeVars, listenVars, timerVars, panic>>

-----------------------------------------------------------------------------
(* The writing goroutine.                                                  *)

\* request.Write(scp.Conn) evaluates its argument.
WriteBegin ==
  /\ wpc = "start"
  /\ wpc' = "writing" /\ wConn' = conn
  /\ UNCHANGED <<poolVars, callVars, wErr, listenVars, timerVars, panic>>

\* The first flush on a nil net.Conn.
WritePanic ==
  /\ wpc = "writing" /\ wConn = Nil
  /\ Crash("write")

ReadBody == used' = (used \/ rq.body) /\ spent' = (spent \/ rq.body)

\* Bytes go out; what is written after the peer closed reaches nobody.
WriteSend ==
  /\ wpc = "writing" /\ wConn # Nil /\ sock[wConn] # "closed"
  /\ wpc' = "sent"
  /\ ReadBody
  /\ IF sock[wConn] = "open"
     THEN wire' = wire + 1 /\ owed' = [owed EXCEPT ![wConn] = @ + 1]
     ELSE UNCHANGED <<wire, owed>>
  /\ UNCHANGED <<conns, conn, sock, peer, pc, rq, second, attempt, errS, errR, answer,
                 bodyConn, wConn, wErr, listenVars, timerVars, panic>>

\* Mutant of WriteDone: no timer is started.
WriteDoneNoTimer ==
  /\ wpc = "sent" /\ sock[wConn] # "closed"
  /\ wpc' = "done"
  /\ UNCHANGED <<poolVars, callVars, wConn, wErr, listenVars, timerVars, panic>>

\* The whole request is written: the response-header timer starts.
WriteDone ==
  /\ wpc = "sent" /\ sock[wConn] # "closed"
  /\ wpc' = "done"
  /\ tpc' = [tpc EXCEPT ![timer] = "asleep"]
  /\ UNCHANGED <<poolVars, callVars, wConn, wErr, listenVars, timer, once, panic>>

\* A broken socket, a torn read of scp.Conn, or a request body that cannot
\* be read.  The errS set here is the goroutine's own variable.
WriteFail ==
  /\ wpc \in {"writing", "sent"}
  /\ (~rq.body /\ wConn # Nil) => sock[wConn] # "open"
  /\ wpc' = "closing"
  /\ wErr' = TRUE
  /\ ReadBody \/ UNCHANGED <<used, spent>>
  /\ UNCHANGED <<poolVars, pc, rq, second, attempt, errS, errR, answer, bodyConn, wire,
                 wConn, listenVars, timerVars, panic>>

WriteClose ==
  /\ wpc = "closing"
  /\ Close
  /\ wpc' = "done"
  /\ UNCHANGED <<callVars, wConn, wErr, listenVars, timerVars, panic>>

-----------------------------------------------------------------------------
(* The listening goroutine.                                                *)

ListenBegin ==
  /\ lpc = "start"
  /\ lpc' = "reading" /\ lConn' = conn
  /\ UNCHANGED <<poolVars, callVars, writeVars, timerVars, panic>>

ListenPanic ==
  /\ lpc = "reading" /\ lConn = Nil
  /\ Crash("listen")

\* ReadResponse does not tell an interim response from the final one.  Only
\* a request that is alone on its connection gets one (a bound on owed).
Answers(c) ==
  {"keep", "close"} \cup
    (IF peer[c] \in InterimHost /\ owed[c] = 1 THEN {"interim"} ELSE {})

\* A response header was read; its content coding may still be broken.
ListenAnswer ==
  /\ lpc = "reading" /\ lConn # Nil
  /\ sock[lConn] # "closed" /\ owed[lConn] > 0
  /\ lpc' = "parsed"
  /\ answer' \in Answers(lConn)
  /\ errR' \in BOOLEAN
  /\ UNCHANGED <<poolVars, pc, rq, second, attempt, errS, bodyConn, used, spent, wire,
                 writeVars, lConn, timerVars, panic>>

ListenFail ==
  /\ lpc = "reading"
  /\ lpc' = "cancel"
  /\ errR' = TRUE
  /\ UNCHANGED <<poolVars, pc, rq, second, attempt, errS, answer, bodyConn, used, spent,
                 wire, writeVars, lConn, timerVars, panic>>

\* The connection is gone (or scp.Conn was read torn).
ListenDead == (lConn # Nil => sock[lConn] # "open") /\ ListenFail

\* The server answered with something that is no response.
ListenGarbage == lConn # Nil /\ owed[lConn] > 0 /\ ListenFail

\* resp.Close: scp.Conn is read again, to close it together with the body.
ListenReturn ==
  /\ lpc = "parsed"
  /\ lpc' = "cancel"
  /\ bodyConn' = (IF answer = "close" THEN conn ELSE Nil)
  /\ UNCHANGED <<poolVars, pc, rq, second, attempt, errS, errR, answer, used, spent, wire,
                 writeVars, lConn, timerVars, panic>>

\* Mutant of ListenCancel: the timer is not cancelled.
ListenCancelNothing ==
  /\ lpc = "cancel"
  /\ lpc' = (IF errR THEN "closing" ELSE "done")
  /\ UNCHANGED <<poolVars, callVars, writeVars, lConn, timerVars, panic>>

\* cancelTimeoutFunc(): once.Do waits for a timer that has already begun.
ListenCancel ==
  /\ lpc = "cancel" /\ once[timer] # "running"
  /\ once' = [once EXCEPT ![timer] = IF @ = "new" THEN "done" ELSE @]
  /\ lpc' = (IF errR THEN "closing" ELSE "done")
  /\ UNCHANGED <<poolVars, callVars, writeVars, lConn, timer, tpc, panic>>

\* Mutant of ListenClose: a failed read leaves the pool alone.
ListenCloseNothing ==
  /\ lpc = "closing"
  /\ lpc' = "done"
  /\ UNCHANGED <<poolVars, callVars, writeVars, lConn, timerVars, panic>>

ListenClose ==
  /\ lpc = "closing"
  /\ Close
  /\ lpc' = "done"
  /\ UNCHANGED <<callVars, writeVars, lConn, timerVars, panic>>

-----------------------------------------------------------------------------
(* The timers, which outlive their round trip, and the servers.            *)

\* Mutant of TimerExpire: no sync.Once stands before the timer's action.
TimerExpireAlways(t) ==
  /\ tpc[t] = "asleep"
  /\ once' = [once EXCEPT ![t] = "running"] /\ tpc' = [tpc EXCEPT ![t] = "firing"]
  /\ UNCHANGED <<poolVars, callVars, writeVars, listenVars, timer, panic>>

TimerExpire(t) ==
  /\ tpc[t] = "asleep"
  /\ IF once[t] = "new"
     THEN once' = [once EXCEPT ![t] = "running"] /\ tpc' = [tpc EXCEPT ![t] = "firing"]
     ELSE tpc' = [tpc EXCEPT ![t] = "off"] /\ UNCHANGED once
  /\ UNCHANGED <<poolVars, callVars, writeVars, listenVars, timer, panic>>

TimerClose(t) ==
  /\ tpc[t] = "firing"
  /\ Close
  /\ once' = [once EXCEPT ![t] = "fired"]
  /\ tpc' = [tpc EXCEPT ![t] = "off"]
  /\ UNCHANGED <<callVars, writeVars, listenVars, timer, panic>>

PeerClose(c) ==
  /\ sock[c] = "open"
  /\ sock' = [sock EXCEPT ![c] = "eof"]
  /\ UNCHANGED <<conns, conn, peer, owed, callVars, writeVars, listenVars, timerVars, panic>>

Client == (\E h \in Host, b \in BOOLEAN : HandlerRoundTrip(h, b)) \/ Leave

Caller ==
  \/ SecondRoundTrip \/ DeliverKeep \/ DeliverInterim \/ DeliverClose \/ BodyPanic
  \/ Shutdown
  \/ PreRead \/ OpenPooled \/ OpenDial \/ OpenFail \/ Join \/ Decide

Writer == WriteBegin \/ WritePanic \/ WriteSend \/ WriteDone \/ WriteFail \/ WriteClose

Listener ==
  \/ ListenBegin \/ ListenPanic \/ ListenAnswer \/ ListenDead \/ ListenGarbage
  \/ ListenReturn \/ ListenCancel \/ ListenClose

Timers == \E t \in TimerId : TimerExpire(t) \/ TimerClose(t)

Next == Client \/ Caller \/ Writer \/ Listener \/ Timers \/ \E c \in ConnId : PeerClose(c)

Spec == Init /\ [][Next]_vars

(***************************************************************************)
(* Fairness.  Goroutines that can run do run, timers expire, dialing is    *)
(* bounded by its own timeout, and the body of a request arrives and the   *)
(* server's TCP takes it, or reading or writing it fails: RoundTrip has no *)
(* timeout before the request is written.                                  *)
(* Nothing is assumed of the server's answers, of when the client asks,    *)
(* or of the delivery of a response.                                       *)
(***************************************************************************)
Fairness ==
  /\ WF_vars(PreRead \/ OpenPooled \/ OpenDial \/ OpenFail \/ Join \/ Decide)
  /\ WF_vars(Writer)
  /\ WF_vars(ListenBegin \/ ListenPanic \/ ListenDead \/ ListenReturn \/ ListenCancel
              \/ ListenClose)
  /\ \A t \in TimerId : WF_vars(TimerExpire(t)) /\ WF_vars(TimerClose(t))

LiveSpec == Spec /\ Fairness

-----------------------------------------------------------------------------
(* Properties.                                                             *)

\* Open empties the pool only when it holds more than MaxConns connections
\* before dialing, so the pool of one client grows to MaxConns + 1, no more.
PoolBound == Cardinality(InPool) <= MaxConns + 1

\* Every connection still held open is in the pool, so that Close and the
\* server.Close() at the end of listenConn reach it: none is leaked, whatever
\* mix of failed writes, failed reads, timeouts and full pools came before.
NoLeak == \A c \in ConnId : sock[c] # "closed" => c \in Pooled

\* Write and Listen take scp.Conn when they get to run, not when Open chose
\* it; still a request only ever travels over a connection to its own host.
RightHost ==
  pc = "run" =>
    /\ wConn # Nil => peer[wConn] = rq.host
    /\ lConn # Nil => peer[lConn] = rq.host

\* Between requests, and when a connection is chosen for the next one, no
\* pooled connection owes an answer: a late answer to a request that timed
\* out or failed can never be taken for the answer to a later request.  The
\* exception is a server that sends interim responses: Listen takes those for
\* the answer and leaves the real one to the next request on the connection.
NoStaleAnswer ==
  pc \in {"ready", "preread", "open"} => \A c \in Pooled : owed[c] # 0 => peer[c] \in InterimHost

\* A response-header timer that fires belongs to the attempt in progress,
\* whose listener has not cancelled it: a timer left asleep by an earlier
\* round trip never closes the connections of a later one.
NoStaleTimeout ==
  \A t \in TimerId : tpc[t] = "firing" =>
    pc = "run" /\ t = timer /\ lpc \in {"start", "reading", "parsed", "cancel"}

\* RoundTrip's own retry never sends a body that was already read: a request
\* is written with a spent body only by listenConn's second RoundTrip.
BodySentWhole == (pc = "run" /\ wpc = "start" /\ spent) => second

\* scp.Conn is never nil for a goroutine to use in a healthy round trip: when
\* the process dies of it in request.Write, the read of the response had
\* failed before the write began; when in ReadResponse, the write had failed
\* or the response was overdue before the read began.
CrashNeedsFailure ==
  /\ panic = "write" => errR
  /\ panic = "listen" => wErr \/ once[timer] = "fired"

\* An answer that was read without an error reaches the caller over a connection
\* that is still open here, and which is the one that is closed with its body,
\* unless the write had failed or the header came when the timer had expired:
\* no other goroutine takes the connection away in between, and no timer of an
\* earlier attempt.
AnswerWhole ==
  pc = "answered" /\ ~errR =>
    \/ wErr \/ once[timer] = "fired"
    \/ sock[lConn] # "closed" /\ (answer = "close" => bodyConn = lConn)

\* Once RoundTrip has returned an answer, whose body is still to be read, no
\* timer and no goroutine of any attempt closes a connection: only the peer
\* can disturb the delivery.
AnswerUndisturbed ==
  [][pc = "answered" /\ pc' = "answered" =>
       \A c \in ConnId : sock[c] # "closed" => sock'[c] # "closed"]_vars

\* RoundTrip as its caller sees it.
RT == INSTANCE RoundTrip WITH
  phase <- CASE pc = "ready" -> "idle"
             [] pc \in {"preread", "open", "run", "decide"} -> "busy"
             [] pc \in {"answered", "failed"} -> pc
             [] OTHER -> "down",
  sent <- wire

\* A round trip writes its request to a server at most once, reports an
\* answer only to a request it wrote, and returns even if no server ever
\* answers: the timer of tryRoundTrip sees to that.
ImplementsRoundTrip == RT!Spec

\* The comment on tryRoundTrip: its second result is the error sending the
\* request.  Violated: the writing goroutine declares an errS of its own.
SendErrorReported == pc = "decide" /\ wErr => errS

\* README: rewrite rules and downloadSpeed act on a response whose URL
\* matches.  Only the handler applies them, after its own RoundTrip.
\* Violated: the answer to listenConn's second RoundTrip skips them.
AnswerSeenByHandler == pc = "answered" => ~second
=============================================================================
