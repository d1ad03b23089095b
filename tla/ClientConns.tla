---------------------------- MODULE ClientConns ----------------------------
(***************************************************************************)
(* The client side of the proxy (proxy/proxy.go, clientConnProps.go): the  *)
(* accept loop, one listenConn goroutine for each client connection, the   *)
(* connSets they share, and the goroutine that closes idle connections.    *)
(*                                                                         *)
(* What a request does upstream is module Upstream's; here a request is    *)
(* served, or fails, or turns the connection into TLS or a tunnel.  The    *)
(* checker reads client.lastUsedTime and client.Conn under no lock, so its *)
(* visit, its check and its close are three steps.                         *)
(***************************************************************************)
EXTENDS ConnSet

CONSTANTS
  Client,             \* ClientConnProps objects; one is reused when forgotten
  Connecting,         \* those whose clients may send CONNECT (a bound)
  MaxConnsKeptAlive,  \* 30 in Proxy()
  MaxUncounted,       \* counter goroutines that may be behind when one more
                      \* connection or request begins (a bound)
  Nil                 \* no client

ASSUME NilAssumption == Nil \notin Client
ASSUME LimitsAssumption == MaxConnsKeptAlive \in Nat /\ MaxUncounted \in Nat

VARIABLES
  up,      \* the process runs
  conns,   \* p.conns
  idle,    \* p.idleConns
  at,      \* where the goroutine of each connection stands
  sock,    \* the accepted socket: open, closed by the client, closed here
  link,    \* client.Conn: the socket, TLS over it, or nil
  brief,   \* client.closeConnAfterRequest
  stale,   \* more than idleTimeout has passed since client.lastUsedTime
  old,     \* the same, since the last response was written
  far,     \* a tunnel's socket to its destination
  copies,  \* a tunnel's io.Copy goroutines that still run
  stalled, \* the server of the request in progress has stopped in the middle
  cpc,     \* where the timeout checker stands
  todo,    \* keys its Range has yet to visit
  cur      \* the client it is visiting

setVars    == <<conns, idle>>
clientVars == <<sock, link, brief, stale, old>>
serverVars == <<far, copies, stalled>>
checkVars  == <<cpc, todo, cur>>
vars == <<up, setVars, at, clientVars, serverVars, checkVars>>

At == {"off", "listen", "got", "serve", "tunnel", "written", "touched", "end", "closed"}

TypeOK ==
  /\ up \in BOOLEAN
  /\ conns \in ConnSets(Client) /\ idle \in ConnSets(Client)
  /\ at \in [Client -> At]
  /\ sock \in [Client -> {"open", "eof", "closed"}]
  /\ link \in [Client -> {"raw", "tls", "nil"}]
  /\ {brief, stale, old} \subseteq [Client -> BOOLEAN]
  /\ far \in [Client -> {"open", "eof", "closed"}]
  /\ copies \in [Client -> SUBSET {"up", "down"}]
  /\ stalled \in [Client -> BOOLEAN]
  /\ cpc \in {"sleep", "range", "check", "close"}
  /\ todo \subseteq Client
  /\ cur \in Client \cup {Nil}

Init ==
  /\ up = TRUE
  /\ conns = NoConns /\ idle = NoConns
  /\ at = [c \in Client |-> "off"]
  /\ sock = [c \in Client |-> "closed"]
  /\ link = [c \in Client |-> "nil"]
  /\ brief = [c \in Client |-> FALSE]
  /\ stale = [c \in Client |-> FALSE]
  /\ old = [c \in Client |-> FALSE]
  /\ far = [c \in Client |-> "closed"]
  /\ copies = [c \in Client |-> {}]
  /\ stalled = [c \in Client |-> FALSE]
  /\ cpc = "sleep" /\ todo = {} /\ cur = Nil

\* A bound on what clients start while counter goroutines are behind; what
\* they have started goes on regardless.
Room == Uncounted(conns) + Uncounted(idle) < MaxUncounted

\* The goroutine of c goes from one place to the next.
Go(c, from, to) == at[c] = from /\ at' = [at EXCEPT ![c] = to]

\* A request in progress ends.  It waits for its server in the handler's round
\* trip and, for the body of the response, in client.Write.
Served(c, to) == ~stalled[c] /\ Go(c, "serve", to)

-----------------------------------------------------------------------------
(* The accept loop, and a connection's life in listenConn.                 *)

\* Accept, and p.conns.Add in the goroutine it starts: only the counter,
\* which is behind anyway, tells the accept loop of a connection.
Accept(c) ==
  /\ up /\ Room
  /\ sock[c] = "closed" /\ c \notin todo /\ c # cur
  /\ Go(c, "off", "listen")
  /\ conns' = Add(conns, c)
  /\ sock' = [sock EXCEPT ![c] = "open"]
  /\ link' = [link EXCEPT ![c] = "raw"]
  /\ brief' = [brief EXCEPT ![c] = conns.n >= MaxConnsKeptAlive]
  /\ stale' = [stale EXCEPT ![c] = FALSE]
  /\ old' = [old EXCEPT ![c] = FALSE]
  /\ UNCHANGED <<up, idle, serverVars, checkVars>>

\* client.Listen() returns a request.
Request(c) ==
  /\ Room /\ sock[c] # "closed"
  /\ Go(c, "listen", "got")
  /\ UNCHANGED <<up, setVars, clientVars, serverVars, checkVars>>

\* It fails: no request, or none that can be parsed.
ListenFail(c) ==
  /\ Go(c, "listen", "end")
  /\ UNCHANGED <<up, setVars, clientVars, serverVars, checkVars>>

NotIdle(c) ==
  /\ Go(c, "got", "serve")
  /\ idle' = Remove(idle, c)
  /\ UNCHANGED <<up, conns, clientVars, serverVars, checkVars>>

\* client.Write sent the whole response, on a connection that is kept.
Respond(c) ==
  /\ sock[c] # "closed" /\ ~brief[c]
  /\ Served(c, "written")
  /\ old' = [old EXCEPT ![c] = FALSE]
  /\ UNCHANGED <<up, setVars, sock, link, brief, stale, serverVars, checkVars>>

\* The loop ends: no response, a failed write, or a response that closes.
ServeEnd(c) ==
  /\ Served(c, "end")
  /\ UNCHANGED <<up, setVars, clientVars, serverVars, checkVars>>

\* Mutant of Touch: lastUsedTime keeps the moment of an earlier response.
TouchNothing(c) ==
  /\ Go(c, "written", "touched")
  /\ UNCHANGED <<up, setVars, clientVars, serverVars, checkVars>>

Touch(c) ==
  /\ Go(c, "written", "touched")
  /\ stale' = [stale EXCEPT ![c] = FALSE]
  /\ UNCHANGED <<up, setVars, sock, link, brief, old, serverVars, checkVars>>

\* Mutant of BecomeIdle: the pointer was reset before it is added.
BecomeIdleNil(c) ==
  /\ Go(c, "touched", "listen")
  /\ idle' = Add(idle, Nil)
  /\ UNCHANGED <<up, conns, clientVars, serverVars, checkVars>>

BecomeIdle(c) ==
  /\ Go(c, "touched", "listen")
  /\ idle' = Add(idle, c)
  /\ UNCHANGED <<up, conns, clientVars, serverVars, checkVars>>

\* Mutant of CloseClient: it waits for a client.Conn that is nil.
CloseClientNotNil(c) ==
  /\ link[c] # "nil"
  /\ Go(c, "end", "closed")
  /\ sock' = [sock EXCEPT ![c] = "closed"]
  /\ UNCHANGED <<up, setVars, link, brief, stale, old, serverVars, checkVars>>

\* client.Close() does nothing when client.Conn is nil.
CloseClient(c) ==
  /\ Go(c, "end", "closed")
  /\ sock' = IF link[c] = "nil" THEN sock ELSE [sock EXCEPT ![c] = "closed"]
  /\ UNCHANGED <<up, setVars, link, brief, stale, old, serverVars, checkVars>>

\* Mutant of Leave: an idle connection that ends stays in idleConns.
LeaveIdle(c) ==
  /\ Go(c, "closed", "off")
  /\ conns' = Remove(conns, c)
  /\ UNCHANGED <<up, idle, clientVars, serverVars, checkVars>>

\* p.idleConns.Remove, and p.conns.Remove as the goroutine ends.
Leave(c) ==
  /\ Go(c, "closed", "off")
  /\ idle' = Remove(idle, c)
  /\ conns' = Remove(conns, c)
  /\ UNCHANGED <<up, clientVars, serverVars, checkVars>>

-----------------------------------------------------------------------------
(* CONNECT: handleConnect returns the new client.Conn, or nil.             *)

\* Port 443 over a plain connection: the proxy answers as the server.
Upgrade(c) ==
  /\ c \in Connecting /\ link[c] = "raw" /\ sock[c] # "closed"
  /\ Served(c, "listen")
  /\ link' = [link EXCEPT ![c] = "tls"]
  /\ UNCHANGED <<up, setVars, sock, brief, stale, old, serverVars, checkVars>>

\* Mutant of ConnectFail: the loop goes on whatever handleConnect returns.
ConnectFailGoesOn(c) ==
  /\ c \in Connecting
  /\ Served(c, "listen")
  /\ link' = [link EXCEPT ![c] = "nil"]
  /\ UNCHANGED <<up, setVars, sock, brief, stale, old, serverVars, checkVars>>

\* The handshake or the dial failed, and nobody closes the socket.
ConnectFail(c) ==
  /\ c \in Connecting
  /\ Served(c, "end")
  /\ link' = [link EXCEPT ![c] = "nil"]
  /\ UNCHANGED <<up, setVars, sock, brief, stale, old, serverVars, checkVars>>

\* Any other port, or a CONNECT inside TLS.
Tunnel(c) ==
  /\ c \in Connecting
  /\ Served(c, "tunnel")
  /\ far' = [far EXCEPT ![c] = "open"]
  /\ copies' = [copies EXCEPT ![c] = {"up", "down"}]
  /\ UNCHANGED <<up, setVars, clientVars, stalled, checkVars>>

\* io.Copy ends when its source does, or when it has something to write and
\* its destination is gone.  Neither way does it close its destination.
CopyEnd(c, d) ==
  /\ d \in copies[c]
  /\ sock[c] # "open" \/ far[c] # "open"
  /\ copies' = [copies EXCEPT ![c] = @ \ {d}]
  /\ UNCHANGED <<up, setVars, at, clientVars, far, stalled, checkVars>>

\* Mutant of TunnelEnd: the destination's socket is left open.
TunnelEndHalf(c) ==
  /\ copies[c] = {}
  /\ Go(c, "tunnel", "end")
  /\ sock' = [sock EXCEPT ![c] = "closed"]
  /\ link' = [link EXCEPT ![c] = "nil"]
  /\ UNCHANGED <<up, setVars, brief, stale, old, serverVars, checkVars>>

TunnelEnd(c) ==
  /\ copies[c] = {}
  /\ Go(c, "tunnel", "end")
  /\ sock' = [sock EXCEPT ![c] = "closed"]
  /\ far' = [far EXCEPT ![c] = "closed"]
  /\ link' = [link EXCEPT ![c] = "nil"]
  /\ UNCHANGED <<up, setVars, brief, stale, old, copies, stalled, checkVars>>

-----------------------------------------------------------------------------
(* launchTimeoutChecker: sync.Map.Range visits, once, the keys it found at *)
(* its start and that are still there when it comes to them.               *)

Wake ==
  /\ up /\ cpc = "sleep"
  /\ cpc' = "range"
  /\ todo' = idle.m
  /\ UNCHANGED <<up, setVars, at, clientVars, serverVars, cur>>

Visit(c) ==
  /\ cpc = "range" /\ c \in todo
  /\ todo' = todo \ {c}
  /\ IF c \in idle.m THEN cpc' = "check" /\ cur' = c ELSE UNCHANGED <<cpc, cur>>
  /\ UNCHANGED <<up, setVars, at, clientVars, serverVars>>

RangeEnd ==
  /\ cpc = "range" /\ todo = {}
  /\ cpc' = "sleep"
  /\ UNCHANGED <<up, setVars, at, clientVars, serverVars, todo, cur>>

\* Mutant of Check: the comparison with idleTimeout is turned round.
CheckTurned ==
  /\ cpc = "check"
  /\ IF ~stale[cur] /\ link[cur] # "nil"
     THEN cpc' = "close" /\ UNCHANGED cur
     ELSE cpc' = "range" /\ cur' = Nil
  /\ UNCHANGED <<up, setVars, at, clientVars, serverVars, todo>>

\* lastUsedTime, then the nil test of client.Close().
Check ==
  /\ cpc = "check"
  /\ IF stale[cur] /\ link[cur] # "nil"
     THEN cpc' = "close" /\ UNCHANGED cur
     ELSE cpc' = "range" /\ cur' = Nil
  /\ UNCHANGED <<up, setVars, at, clientVars, serverVars, todo>>

CheckClose ==
  /\ cpc = "close" /\ link[cur] # "nil"
  /\ sock' = [sock EXCEPT ![cur] = "closed"]
  /\ cpc' = "range" /\ cur' = Nil
  /\ UNCHANGED <<up, setVars, at, link, brief, stale, old, serverVars, todo>>

\* client.Conn became nil after the test: the checker dies, and the process.
CheckPanic ==
  /\ cpc = "close" /\ link[cur] = "nil"
  /\ up' = FALSE
  /\ conns' = NoConns /\ idle' = NoConns
  /\ at' = [c \in Client |-> "off"]
  /\ sock' = [c \in Client |-> "closed"]
  /\ far' = [c \in Client |-> "closed"]
  /\ copies' = [c \in Client |-> {}]
  /\ stalled' = [c \in Client |-> FALSE]
  /\ cpc' = "sleep" /\ todo' = {} /\ cur' = Nil
  /\ UNCHANGED <<link, brief, stale, old>>

-----------------------------------------------------------------------------
(* The counter goroutines, the clients, the servers behind them, time,     *)
(* and the garbage collector, whose finalizer closes an abandoned socket.  *)

Count ==
  /\ \/ conns.inc > 0 /\ conns' = CountUp(conns) /\ UNCHANGED idle
     \/ conns.dec > 0 /\ conns' = CountDown(conns) /\ UNCHANGED idle
     \/ idle.inc > 0 /\ idle' = CountUp(idle) /\ UNCHANGED conns
     \/ idle.dec > 0 /\ idle' = CountDown(idle) /\ UNCHANGED conns
  /\ UNCHANGED <<up, at, clientVars, serverVars, checkVars>>

ClientHangup(c) ==
  /\ sock[c] = "open"
  /\ sock' = [sock EXCEPT ![c] = "eof"]
  /\ UNCHANGED <<up, setVars, at, link, brief, stale, old, serverVars, checkVars>>

FarHangup(c) ==
  /\ far[c] = "open"
  /\ far' = [far EXCEPT ![c] = "eof"]
  /\ UNCHANGED <<up, setVars, at, clientVars, copies, stalled, checkVars>>

\* The server of a request takes no more of it, or sends no more of its
\* response, and stays connected.  Only the wait for the response header has a
\* timeout, which ends in the handler as a failed round trip.
Stall(c) ==
  /\ at[c] = "serve" /\ ~stalled[c]
  /\ stalled' = [stalled EXCEPT ![c] = TRUE]
  /\ UNCHANGED <<up, setVars, at, clientVars, far, copies, checkVars>>

\* It goes on or hangs up, or the header's timeout has passed.
Resume(c) ==
  /\ stalled[c]
  /\ stalled' = [stalled EXCEPT ![c] = FALSE]
  /\ UNCHANGED <<up, setVars, at, clientVars, far, copies, checkVars>>

\* idleTimeout passes.  It matters only where the checker could notice it.
Expire(c) ==
  /\ c \in idle.m \/ c = cur
  /\ ~(stale[c] /\ old[c])
  /\ stale' = [stale EXCEPT ![c] = TRUE]
  /\ old' = [old EXCEPT ![c] = TRUE]
  /\ UNCHANGED <<up, setVars, at, sock, link, brief, serverVars, checkVars>>

Collect(c) ==
  /\ at[c] = "off" /\ sock[c] # "closed"
  /\ sock' = [sock EXCEPT ![c] = "closed"]
  /\ UNCHANGED <<up, setVars, at, link, brief, stale, old, serverVars, checkVars>>

\* Steps of listenConn that wait for nobody.
Proceed(c) ==
  NotIdle(c) \/ Touch(c) \/ BecomeIdle(c) \/ CloseClient(c) \/ Leave(c) \/ TunnelEnd(c)

\* Steps that wait for the client or for a server.
Exchange(c) ==
  Accept(c) \/ Request(c) \/ ListenFail(c) \/ Respond(c) \/ ServeEnd(c) \/ Upgrade(c)
    \/ ConnectFail(c) \/ Tunnel(c) \/ (\E d \in {"up", "down"} : CopyEnd(c, d))

Environment(c) ==
  ClientHangup(c) \/ FarHangup(c) \/ Stall(c) \/ Resume(c) \/ Expire(c) \/ Collect(c)

Checker == Wake \/ RangeEnd \/ Check \/ CheckClose \/ CheckPanic \/ \E c \in Client : Visit(c)

Next == Checker \/ Count \/ \E c \in Client : Proceed(c) \/ Exchange(c) \/ Environment(c)

Spec == Init /\ [][Next]_vars

(***************************************************************************)
(* Fairness.  Runnable goroutines run and time passes.  A read or a write  *)
(* on a socket that is closed returns, and with it a request in progress   *)
(* whose server does not hold it.  Nothing says that a server which has    *)
(* stalled goes on.  A copy ends when its source has; nothing says that a  *)
(* copy whose destination is gone ever has something to write.             *)
(***************************************************************************)
Fairness ==
  /\ WF_vars(Checker) /\ WF_vars(Count)
  /\ \A c \in Client :
       /\ WF_vars(Proceed(c)) /\ WF_vars(Expire(c))
       /\ WF_vars(sock[c] # "open" /\ (ListenFail(c) \/ ServeEnd(c) \/ ConnectFail(c)))
       /\ WF_vars(sock[c] # "open" /\ CopyEnd(c, "up"))
       /\ WF_vars(far[c] # "open" /\ CopyEnd(c, "down"))

LiveSpec == Spec /\ Fairness

-----------------------------------------------------------------------------
(* Properties.                                                             *)

\* The counter that the accept loop compares with MaxConnsKeptAlive differs
\* from the number of connections by the counter goroutines still to run and
\* by nothing else, though Remove is called twice for an idle connection.
CountsConserved == Conserved(conns) /\ Conserved(idle)

\* The sets hold what they are named for: conns every connection
\* that has a goroutine, idle only those between two requests or ending.
SetsFollowConns ==
  /\ conns.m = {c \in Client : at[c] # "off"}
  /\ idle.m \subseteq {c \in Client : at[c] \in {"listen", "got", "end", "closed"}}

\* lastUsedTime is set before the connection joins idleConns: the checker
\* never measures an idle connection from an earlier response than its last.
IdleClockRight == \A c \in idle.m : stale[c] => old[c]

\* A connection the proxy has finished with is closed, unless a CONNECT that
\* failed made listenConn forget its socket; and the socket to a tunnel's
\* destination does not outlive the tunnel, whichever side ended it.
FinishedIsClosed ==
  \A c \in Client :
    /\ at[c] \in {"closed", "off"} /\ sock[c] # "closed" => link[c] = "nil"
    /\ far[c] # "closed" => at[c] = "tunnel"

\* client.Conn is nil only for a connection whose loop is over: no request is
\* read, served or tunnelled without a connection, and the process can die
\* in the checker's Close only over a connection that a CONNECT has ended.
NilIsOver == \A c \in Client : link[c] = "nil" => at[c] \in {"end", "closed", "off"}

\* A connection does not stay idle: a request comes, or the checker closes it.
IdleReaped == \A c \in Client : c \in idle.m ~> c \notin idle.m

\* What can keep the goroutine of a connection whose client is gone: a tunnel
\* with a destination that stays silent and connected, or a server that has
\* stalled in the middle of the request or of the body of its response, for
\* which listenConn has no timeout.
Held(c) == far[c] = "open" \/ stalled[c]

\* A closed connection is forgotten by its goroutine and by both sets, unless
\* somebody at the other end holds it.
ClosedIsForgotten ==
  \A c \in Client : sock[c] = "closed" /\ ~Held(c) ~> at[c] = "off" \/ Held(c)
=============================================================================
