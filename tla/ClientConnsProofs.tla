------------------------- MODULE ClientConnsProofs -------------------------
(***************************************************************************)
(* Proofs about ClientConns for any number of clients and any limits: the  *)
(* counters of the connection sets, their contents, the idle clock and the *)
(* closing of sockets.  No bound of the model is used.                     *)
(***************************************************************************)
EXTENDS ClientConns, FiniteSetTheorems, TLAPS

-----------------------------------------------------------------------------
(* What the operations of a connSet do to its map and keep of its counter. *)

Sound(s) == IsFiniteSet(s.m) /\ Conserved(s)

\* Add counts a new member once, and an old one not at all.
LEMMA AddSound ==
  ASSUME NEW Conn, NEW s \in ConnSets(Conn), NEW v \in Conn, Sound(s)
  PROVE  Add(s, v) \in ConnSets(Conn) /\ Sound(Add(s, v)) /\ Add(s, v).m = s.m \cup {v}
<1> DEFINE r == Add(s, v)
<1>1. s.m \subseteq Conn /\ s.n \in Int /\ s.inc \in Nat /\ s.dec \in Nat
  BY DEF ConnSets
<1>2. CASE v \in s.m
  <2>1. s.m \cup {v} = s.m
    BY <1>2
  <2> QED
    BY <1>2, <2>1 DEF Add
<1>3. CASE v \notin s.m
  <2>1. r = [m |-> s.m \cup {v}, n |-> s.n, inc |-> s.inc + 1, dec |-> s.dec]
    BY <1>3 DEF Add, ConnSets
  <2> HIDE DEF r
  <2>2. r \in ConnSets(Conn)
    BY <1>1, <2>1 DEF ConnSets
  <2>3. IsFiniteSet(s.m \cup {v}) /\ Cardinality(s.m \cup {v}) = Cardinality(s.m) + 1
    BY <1>3, FS_AddElement DEF Sound
  <2>4. s.n + (s.inc + 1) - (s.dec) = Cardinality(s.m) + 1
    BY <1>1 DEF Sound, Conserved
  <2>5. Conserved(r)
    BY <2>1, <2>3, <2>4 DEF Conserved
  <2>6. r.m = s.m \cup {v}
    BY <2>1
  <2>7. Sound(r)
    BY <2>3, <2>5, <2>6 DEF Sound
  <2> QED
    BY <2>2, <2>6, <2>7 DEF r
<1> QED
  BY <1>2, <1>3

\* Remove counts a member once, and what is no member not at all.
LEMMA RemoveSound ==
  ASSUME NEW Conn, NEW s \in ConnSets(Conn), NEW v \in Conn, Sound(s)
  PROVE  Remove(s, v) \in ConnSets(Conn) /\ Sound(Remove(s, v)) /\ Remove(s, v).m = s.m \ {v}
<1> DEFINE r == Remove(s, v)
<1>1. s.m \subseteq Conn /\ s.n \in Int /\ s.inc \in Nat /\ s.dec \in Nat
  BY DEF ConnSets
<1>2. CASE v \notin s.m
  <2>1. s.m \ {v} = s.m
    BY <1>2
  <2> QED
    BY <1>2, <2>1 DEF Remove
<1>3. CASE v \in s.m
  <2>1. r = [m |-> s.m \ {v}, n |-> s.n, inc |-> s.inc, dec |-> s.dec + 1]
    BY <1>3 DEF Remove, ConnSets
  <2> HIDE DEF r
  <2>2. r \in ConnSets(Conn)
    BY <1>1, <2>1 DEF ConnSets
  <2>3. IsFiniteSet(s.m \ {v}) /\ Cardinality(s.m \ {v}) = Cardinality(s.m) - 1
    BY <1>3, FS_RemoveElement DEF Sound
  <2>4. s.n + (s.inc) - (s.dec + 1) = Cardinality(s.m) - 1
    BY <1>1 DEF Sound, Conserved
  <2>5. Conserved(r)
    BY <2>1, <2>3, <2>4 DEF Conserved
  <2>6. r.m = s.m \ {v}
    BY <2>1
  <2>7. Sound(r)
    BY <2>3, <2>5, <2>6 DEF Sound
  <2> QED
    BY <2>2, <2>6, <2>7 DEF r
<1> QED
  BY <1>2, <1>3

\* A counter goroutine moves one unit from what is due to the counter.
LEMMA CountSound ==
  ASSUME NEW Conn, NEW s \in ConnSets(Conn), Sound(s)
  PROVE  /\ s.inc > 0 => CountUp(s) \in ConnSets(Conn) /\ Sound(CountUp(s)) /\ CountUp(s).m = s.m
         /\ s.dec > 0 =>
              CountDown(s) \in ConnSets(Conn) /\ Sound(CountDown(s)) /\ CountDown(s).m = s.m
<1>1. s.m \subseteq Conn /\ s.n \in Int /\ s.inc \in Nat /\ s.dec \in Nat
  BY DEF ConnSets
<1>2. ASSUME s.inc > 0
      PROVE  CountUp(s) \in ConnSets(Conn) /\ Sound(CountUp(s)) /\ CountUp(s).m = s.m
  <2> DEFINE a == s.n + 1
             b == s.inc - 1
             r == [s EXCEPT !.n = a, !.inc = b]
  <2>1. a \in Int /\ b \in Nat
    BY <1>1, <1>2
  <2>2. a + b - s.dec = s.n + s.inc - s.dec
    BY <1>1
  <2> HIDE DEF a, b
  <2>3. r.m = s.m /\ r.n = a /\ r.inc = b /\ r.dec = s.dec
    BY DEF ConnSets
  <2>4. r \in ConnSets(Conn)
    BY <2>1 DEF ConnSets
  <2>5. CountUp(s) = r
    BY DEF CountUp, a, b
  <2> HIDE DEF r
  <2>6. Conserved(r)
    BY <2>2, <2>3 DEF Sound, Conserved
  <2> QED
    BY <2>3, <2>4, <2>5, <2>6 DEF Sound
<1>3. ASSUME s.dec > 0
      PROVE  CountDown(s) \in ConnSets(Conn) /\ Sound(CountDown(s)) /\ CountDown(s).m = s.m
  <2> DEFINE a == s.n - 1
             b == s.dec - 1
             r == [s EXCEPT !.n = a, !.dec = b]
  <2>1. a \in Int /\ b \in Nat
    BY <1>1, <1>3
  <2>2. a + s.inc - b = s.n + s.inc - s.dec
    BY <1>1
  <2> HIDE DEF a, b
  <2>3. r.m = s.m /\ r.n = a /\ r.dec = b /\ r.inc = s.inc
    BY DEF ConnSets
  <2>4. r \in ConnSets(Conn)
    BY <2>1 DEF ConnSets
  <2>5. CountDown(s) = r
    BY DEF CountDown, a, b
  <2> HIDE DEF r
  <2>6. Conserved(r)
    BY <2>2, <2>3 DEF Sound, Conserved
  <2> QED
    BY <2>3, <2>4, <2>5, <2>6 DEF Sound
<1> QED
  BY <1>2, <1>3

\* A new connSet is empty, and so is its counter.
LEMMA NoConnsSound ==
  ASSUME NEW Conn PROVE NoConns \in ConnSets(Conn) /\ Sound(NoConns) /\ NoConns.m = {}
BY FS_EmptySet DEF NoConns, ConnSets, Sound, Conserved

-----------------------------------------------------------------------------
(* The inductive invariant.                                                *)

SetsSound == Sound(conns) /\ Sound(idle)

\* Once lastUsedTime is set, and before the connection is idle, too.
ClockRight == \A c \in Client : c \in idle.m \/ at[c] = "touched" => (stale[c] => old[c])

IInv == TypeOK /\ SetsSound /\ SetsFollowConns /\ ClockRight /\ FinishedIsClosed /\ NilIsOver

LEMMA InitInv == Init => IInv
<1> SUFFICES ASSUME Init PROVE IInv
  OBVIOUS
<1>1. /\ conns \in ConnSets(Client) /\ Sound(conns) /\ conns.m = {}
      /\ idle \in ConnSets(Client) /\ Sound(idle) /\ idle.m = {}
  BY NoConnsSound DEF Init
<1>2. TypeOK
  BY <1>1 DEF Init, TypeOK, At
<1>3. SetsFollowConns
  BY <1>1 DEF Init, SetsFollowConns
<1> QED
  BY <1>1, <1>2, <1>3 DEF Init, IInv, SetsSound, ClockRight, FinishedIsClosed, NilIsOver

\* Steps of the accept loop and of listenConn that touch a connection set.
LEMMA SetStep ==
  ASSUME IInv, NEW c \in Client,
         Accept(c) \/ NotIdle(c) \/ BecomeIdle(c) \/ Leave(c)
  PROVE  IInv'
<1> USE DEF IInv, SetsSound, setVars, clientVars, serverVars, checkVars, Go
<1>0. TypeOK /\ Sound(conns) /\ Sound(idle) /\ conns \in ConnSets(Client)
      /\ idle \in ConnSets(Client)
  BY DEF TypeOK
<1>1. CASE Accept(c)
  <2>1. conns' \in ConnSets(Client) /\ Sound(conns') /\ conns'.m = conns.m \cup {c}
    BY <1>0, <1>1, AddSound DEF Accept
  <2> QED
    BY <1>0, <1>1, <2>1 DEF Accept, TypeOK, At, SetsFollowConns, ClockRight, FinishedIsClosed, NilIsOver
<1>2. CASE NotIdle(c)
  <2>1. idle' \in ConnSets(Client) /\ Sound(idle') /\ idle'.m = idle.m \ {c}
    BY <1>0, <1>2, RemoveSound DEF NotIdle
  <2> QED
    BY <1>0, <1>2, <2>1 DEF NotIdle, TypeOK, At, SetsFollowConns, ClockRight, FinishedIsClosed, NilIsOver
<1>3. CASE BecomeIdle(c)
  <2>1. idle' \in ConnSets(Client) /\ Sound(idle') /\ idle'.m = idle.m \cup {c}
    BY <1>0, <1>3, AddSound DEF BecomeIdle
  <2> QED
    BY <1>0, <1>3, <2>1 DEF BecomeIdle, TypeOK, At, SetsFollowConns, ClockRight, FinishedIsClosed, NilIsOver
<1>4. CASE Leave(c)
  <2>1. /\ conns' \in ConnSets(Client) /\ Sound(conns') /\ conns'.m = conns.m \ {c}
        /\ idle' \in ConnSets(Client) /\ Sound(idle') /\ idle'.m = idle.m \ {c}
    BY <1>0, <1>4, RemoveSound DEF Leave
  <2> QED
    BY <1>0, <1>4, <2>1 DEF Leave, TypeOK, At, SetsFollowConns, ClockRight, FinishedIsClosed, NilIsOver
<1> QED
  BY <1>1, <1>2, <1>3, <1>4

\* The other steps of a connection, of its client and of its destination.
LEMMA ConnStep ==
  ASSUME IInv, NEW c \in Client,
         Proceed(c) \/ Exchange(c) \/ Environment(c)
  PROVE  IInv'
<1> USE DEF IInv, SetsSound, setVars, clientVars, serverVars, checkVars, Go, TypeOK, At,
            SetsFollowConns, ClockRight, FinishedIsClosed, NilIsOver
<1>1. CASE Request(c)
  BY <1>1 DEF Request
<1>2. CASE ListenFail(c)
  BY <1>2 DEF ListenFail
<1> USE DEF Served
<1>3. CASE Respond(c)
  BY <1>3 DEF Respond
<1>4. CASE ServeEnd(c)
  BY <1>4 DEF ServeEnd
<1>5. CASE Touch(c)
  BY <1>5 DEF Touch
<1>6. CASE CloseClient(c)
  BY <1>6 DEF CloseClient
<1>7. CASE Upgrade(c)
  BY <1>7 DEF Upgrade
<1>8. CASE ConnectFail(c)
  BY <1>8 DEF ConnectFail
<1>9. CASE Tunnel(c)
  BY <1>9 DEF Tunnel
<1>10. CASE \E d \in {"up", "down"} : CopyEnd(c, d)
  BY <1>10 DEF CopyEnd
<1>11. CASE TunnelEnd(c)
  BY <1>11 DEF TunnelEnd
<1>12. CASE ClientHangup(c)
  BY <1>12 DEF ClientHangup
<1>13. CASE FarHangup(c)
  BY <1>13 DEF FarHangup
<1>14. CASE Expire(c)
  BY <1>14 DEF Expire
<1>15. CASE Collect(c)
  BY <1>15 DEF Collect
<1>16. CASE Stall(c)
  BY <1>16 DEF Stall
<1>17. CASE Resume(c)
  BY <1>17 DEF Resume
<1> QED
  BY <1>1, <1>2, <1>3, <1>4, <1>5, <1>6, <1>7, <1>8, <1>9, <1>10, <1>11, <1>12, <1>13,
     <1>14, <1>15, <1>16, <1>17, SetStep DEF Proceed, Exchange, Environment

LEMMA CountStep == ASSUME IInv, Count PROVE IInv'
<1>1. conns \in ConnSets(Client) /\ idle \in ConnSets(Client) /\ Sound(conns) /\ Sound(idle)
  BY DEF IInv, TypeOK, SetsSound
<1>2. /\ conns' \in ConnSets(Client) /\ Sound(conns') /\ conns'.m = conns.m
      /\ idle' \in ConnSets(Client) /\ Sound(idle') /\ idle'.m = idle.m
  BY <1>1, CountSound DEF Count
<1>3. UNCHANGED <<up, at, clientVars, serverVars, checkVars>>
  BY DEF Count
<1> QED
  BY <1>2, <1>3 DEF IInv, TypeOK, SetsSound, SetsFollowConns, ClockRight, FinishedIsClosed, NilIsOver,
                    clientVars, serverVars, checkVars

LEMMA CheckerStep == ASSUME IInv, Checker PROVE IInv'
<1> USE DEF IInv, SetsSound, setVars, clientVars, serverVars, checkVars, TypeOK, At,
            SetsFollowConns, ClockRight, FinishedIsClosed, NilIsOver
<1>1. CASE Wake
  BY <1>1 DEF Wake, ConnSets
<1>2. CASE RangeEnd
  BY <1>2 DEF RangeEnd
<1>3. CASE Check
  BY <1>3 DEF Check
<1>4. CASE CheckClose
  BY <1>4 DEF CheckClose
<1>5. CASE CheckPanic
  <2>1. /\ conns' \in ConnSets(Client) /\ Sound(conns') /\ conns'.m = {}
        /\ idle' \in ConnSets(Client) /\ Sound(idle') /\ idle'.m = {}
    BY <1>5, NoConnsSound DEF CheckPanic
  <2> QED
    BY <1>5, <2>1 DEF CheckPanic
<1>6. CASE \E c \in Client : Visit(c)
  BY <1>6 DEF Visit
<1> QED
  BY <1>1, <1>2, <1>3, <1>4, <1>5, <1>6 DEF Checker

LEMMA NextInv == IInv /\ [Next]_vars => IInv'
<1> SUFFICES ASSUME IInv, [Next]_vars PROVE IInv'
  OBVIOUS
<1>1. CASE UNCHANGED vars
  BY <1>1 DEF vars, IInv, TypeOK, SetsSound, SetsFollowConns, ClockRight, FinishedIsClosed, NilIsOver,
              setVars, clientVars, serverVars, checkVars
<1> QED
  BY <1>1, CheckerStep, CountStep, ConnStep DEF Next

-----------------------------------------------------------------------------
(* The theorems.                                                           *)

THEOREM Invariance == Spec => []IInv
  BY InitInv, NextInv, PTL DEF Spec

\* Variables keep their types.
THEOREM TypeCorrect == Spec => []TypeOK
<1>1. IInv => TypeOK
  BY DEF IInv
<1> QED
  BY <1>1, Invariance, PTL

\* The counters of both connection sets never drift from their contents.
THEOREM CountsKept == Spec => []CountsConserved
<1>1. IInv => CountsConserved
  BY DEF IInv, SetsSound, Sound, CountsConserved
<1> QED
  BY <1>1, Invariance, PTL

\* The connection sets hold the connections they are named for.
THEOREM SetsFollow == Spec => []SetsFollowConns
<1>1. IInv => SetsFollowConns
  BY DEF IInv
<1> QED
  BY <1>1, Invariance, PTL

\* Idle time is never measured from an earlier response than the last.
THEOREM ClockKept == Spec => []IdleClockRight
<1>1. IInv => IdleClockRight
  BY DEF IInv, TypeOK, ConnSets, ClockRight, IdleClockRight
<1> QED
  BY <1>1, Invariance, PTL

\* Sockets are closed when their connection or tunnel is over.
THEOREM FinishedClosed == Spec => []FinishedIsClosed
<1>1. IInv => FinishedIsClosed
  BY DEF IInv
<1> QED
  BY <1>1, Invariance, PTL

\* A connection without client.Conn is at the end of its loop.
THEOREM NilOver == Spec => []NilIsOver
<1>1. IInv => NilIsOver
  BY DEF IInv
<1> QED
  BY <1>1, Invariance, PTL
=============================================================================
