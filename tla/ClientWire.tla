----------------------------- MODULE ClientWire -----------------------------
(***************************************************************************)
(* The bytes between one client and its listenConn goroutine: which of     *)
(* the requests a client has sent are read (clientConnProps.go, Listen),   *)
(* and how a response tells the client where it ends (Write, the guards of *)
(* listenConn, Listen of serverConnProps.go).                              *)
(*                                                                         *)
(* Every Listen makes a bufio.Reader of its own.  A reader takes whatever  *)
(* the socket has, and what it took beyond its request goes with it.       *)
(*                                                                         *)
(* The client speaks HTTP/1.1, and stops after MaxRequests.                *)
(***************************************************************************)
EXTENDS Naturals, Sequences

CONSTANT MaxRequests   \* requests the client sends (a bound)

ASSUME MaxRequestsAssumption == MaxRequests \in Nat

VARIABLES
  stream,   \* what the client has sent: heads, and bodies of those that have one
  filled,   \* how much of it bufio.Readers have taken from the socket
  pos,      \* how much of it has been read, or was dropped
  hasty,    \* requests sent before all earlier ones were answered
  at,       \* where listenConn stands
  cur,      \* the latest request that was read
  bodyLeft, \* its body is still to be read
  got,      \* the responses the client has received
  idle,     \* the connection is in idleConns
  brief     \* client.closeConnAfterRequest

vars == <<stream, filled, pos, hasty, at, cur, bodyLeft, got, idle, brief>>

Request == 1..MaxRequests
Part(k, what) == [req |-> k, what |-> what]
Parts == [req : Request, what : {"head", "body"}]
Endings == {"length", "chunk", "eof"}

TypeOK ==
  /\ stream \in Seq(Parts)
  /\ filled \in 0..Len(stream) /\ pos \in 0..filled
  /\ hasty \subseteq Request
  /\ at \in {"ready", "listen", "serve", "end"}
  /\ cur \in 0..MaxRequests
  /\ got \in Seq([req : Request, ends : Endings])
  /\ bodyLeft \in BOOLEAN /\ idle \in BOOLEAN /\ brief \in BOOLEAN

Init ==
  /\ stream = <<>> /\ filled = 0 /\ pos = 0 /\ hasty = {}
  /\ at = "ready" /\ cur = 0 /\ bodyLeft = FALSE
  /\ got = <<>>
  /\ idle = FALSE /\ brief \in BOOLEAN

Sent(k) == \E i \in DOMAIN stream : stream[i] = Part(k, "head")

Answered(k) == \E i \in DOMAIN got : got[i].req = k

-----------------------------------------------------------------------------
(* The client.                                                             *)

Send(k) ==
  /\ at # "end"
  /\ ~Sent(k) /\ \A j \in 1..(k - 1) : Sent(j)
  /\ stream' \in {Append(stream, Part(k, "head")),
                  Append(Append(stream, Part(k, "head")), Part(k, "body"))}
  /\ hasty' = IF \A j \in 1..(k - 1) : Answered(j) THEN hasty ELSE hasty \cup {k}
  /\ UNCHANGED <<filled, pos, at, cur, bodyLeft, got, idle, brief>>

-----------------------------------------------------------------------------
(* client.Listen and the reading of request bodies.                        *)

\* bufio.NewReader(client.Conn): what the last reader holds is dropped.
NewReader ==
  /\ at = "ready"
  /\ at' = "listen"
  /\ pos' = filled
  /\ UNCHANGED <<stream, filled, hasty, cur, bodyLeft, got, idle, brief>>

Empty == pos = filled

\* Somebody reads: a head is wanted, or the rest of a body.
Wanted == at = "listen" \/ (at = "serve" /\ bodyLeft)

\* Mutant of Fill: it counts bytes that never came.
FillPast ==
  /\ Wanted /\ Empty /\ filled < Len(stream)
  /\ filled' \in (filled + 2)..(Len(stream) + 1)
  /\ UNCHANGED <<stream, pos, hasty, at, cur, bodyLeft, got, idle, brief>>

\* An empty reader takes some of what the socket has, in whole parts: what is
\* left of a part that was cut is garbage like a body that nobody read.
Fill ==
  /\ Wanted /\ Empty /\ filled < Len(stream)
  /\ filled' \in (filled + 1)..Len(stream)
  /\ UNCHANGED <<stream, pos, hasty, at, cur, bodyLeft, got, idle, brief>>

\* http.ReadRequest finds a request.  Its body comes right behind.
ReadHead ==
  /\ at = "listen" /\ ~Empty
  /\ stream[pos + 1].what = "head"
  /\ at' = "serve"
  /\ pos' = pos + 1
  /\ cur' = stream[pos + 1].req
  /\ bodyLeft' = (pos + 2 <= Len(stream) /\ stream[pos + 2].what = "body")
  /\ idle' = FALSE
  /\ UNCHANGED <<stream, filled, hasty, got, brief>>

\* It finds a body that nobody read, and takes it for a broken request.
ReadGarbage ==
  /\ at = "listen" /\ ~Empty
  /\ stream[pos + 1].what = "body"
  /\ at' = "end"
  /\ UNCHANGED <<stream, filled, pos, hasty, cur, bodyLeft, got, idle, brief>>

\* The request body, as rules/set or request.Write reads it.
ReadBody ==
  /\ at = "serve" /\ bodyLeft /\ ~Empty
  /\ pos' = pos + 1
  /\ bodyLeft' = FALSE
  /\ UNCHANGED <<stream, filled, hasty, at, cur, got, idle, brief>>

-----------------------------------------------------------------------------
(* A response: its ProtoMinor, what ContentLength says (0, a number, -1),  *)
(* whether TransferEncoding holds "chunked", and Close.                    *)

Response == [minor : {0, 1}, length : {"zero", "known", "unknown"},
             chunked : BOOLEAN, close : BOOLEAN]

\* What http.ReadResponse makes of a server's header.
FromServer ==
  {r \in Response :
     /\ r.chunked => r.minor = 1 /\ r.length = "unknown"
     /\ r.length = "unknown" /\ ~r.chunked => r.close}

\* NewResponse copies TransferEncoding from the request of the client.
FromApi == {r \in Response : r.minor = 1 /\ r.length # "unknown" /\ ~r.close}

\* Listen: a body that is being decoded has no known length.
Listened(r, coded) ==
  LET s == IF coded THEN [r EXCEPT !.length = "unknown"] ELSE r
  IN  IF s.length = "unknown" /\ ~s.close THEN [s EXCEPT !.chunked = TRUE] ELSE s

\* The handler: a body that is being rewritten has none either.
Rewritten(r, altered) == IF altered THEN [r EXCEPT !.length = "unknown"] ELSE r

\* listenConn.
Guarded(r) ==
  LET s == IF brief THEN [r EXCEPT !.close = TRUE] ELSE r
  IN  IF s.length = "unknown" /\ ~s.chunked THEN [s EXCEPT !.close = TRUE] ELSE s

\* The first Read of an unknown body may reach its end.
Probed(r, short) ==
  IF r.length = "unknown" /\ short THEN [r EXCEPT !.length = "known"] ELSE r

\* Mutant of Written: what Listen and listenConn have done is trusted.
WrittenTrusting(r, short) == Probed(r, short)

\* client.Write: HTTP/1.0 knows no chunks.
Written(r, short) ==
  LET s == Probed(r, short) IN
  IF s.length # "unknown" \/ s.close THEN s
  ELSE IF s.minor = 1 THEN [s EXCEPT !.chunked = TRUE]
  ELSE [s EXCEPT !.chunked = FALSE, !.close = TRUE]

\* resp.Write, of net/http: a body without chunks or length ends the connection.
EndOf(r) ==
  IF r.chunked /\ r.minor = 1 /\ r.length # "zero" THEN "chunk"
  ELSE IF r.length = "unknown" THEN "eof" ELSE "length"

\* Every response listenConn can come to write, as client.Write leaves it.
Outgoing ==
  {Written(Guarded(r), short) :
     short \in BOOLEAN,
     r \in FromApi \cup {Rewritten(Listened(s, coded), altered) :
                           s \in FromServer, coded \in BOOLEAN, altered \in BOOLEAN}}

-----------------------------------------------------------------------------
(* listenConn, once it has a request.                                      *)

\* Mutant of Respond: the connection does not become idle.
RespondBusy ==
  /\ at = "serve"
  /\ \E r \in Outgoing :
       /\ got' = Append(got, [req |-> cur, ends |-> EndOf(r)])
       /\ at' = IF r.close THEN "end" ELSE "ready"
  /\ bodyLeft' = FALSE
  /\ UNCHANGED <<stream, filled, pos, hasty, cur, idle, brief>>

\* The response is written, whether or not the request's body was read: the
\* API looks at the body of rules/set only, and a server may not wait for it.
Respond ==
  /\ at = "serve"
  /\ \E r \in Outgoing :
       /\ got' = Append(got, [req |-> cur, ends |-> EndOf(r)])
       /\ at' = IF r.close THEN "end" ELSE "ready"
       /\ idle' = ~r.close
  /\ bodyLeft' = FALSE
  /\ UNCHANGED <<stream, filled, pos, hasty, cur, brief>>

\* Mutant of Break: the loop goes on without an answer.
BreakGoesOn ==
  /\ at = "serve"
  /\ at' = "ready"
  /\ bodyLeft' = FALSE
  /\ UNCHANGED <<stream, filled, pos, hasty, cur, got, idle, brief>>

\* The handler gave the request up, or there is no response.
Break ==
  /\ at = "serve"
  /\ at' = "end"
  /\ UNCHANGED <<stream, filled, pos, hasty, cur, bodyLeft, got, idle, brief>>

\* The client closes, or launchTimeoutChecker does: Listen fails.
Hangup ==
  /\ at = "listen"
  /\ at' = "end"
  /\ UNCHANGED <<stream, filled, pos, hasty, cur, bodyLeft, got, idle, brief>>

IdleClose == idle /\ Hangup

Next ==
  \/ \E k \in Request : Send(k)
  \/ NewReader \/ Fill \/ ReadHead \/ ReadGarbage \/ ReadBody
  \/ Respond \/ Break \/ Hangup

Spec == Init /\ [][Next]_vars

\* Goroutines that can run do run, a handler that has its request comes to an
\* end (module Upstream; the server is assumed to finish its body), and the
\* timeout checker comes round.  Nothing is assumed of the client.
Fairness ==
  /\ WF_vars(NewReader) /\ WF_vars(Fill)
  /\ WF_vars(ReadHead \/ ReadGarbage)
  /\ WF_vars(Respond \/ Break)
  /\ WF_vars(IdleClose)

LiveSpec == Spec /\ Fairness

-----------------------------------------------------------------------------
(* Properties.                                                             *)

\* The head of request k was read and dropped, and nobody is serving it.
Lost(k) ==
  /\ \E i \in 1..pos : stream[i] = Part(k, "head")
  /\ ~Answered(k) /\ ~(at = "serve" /\ cur = k)

\* While the proxy goes on listening, every response it has sent told the
\* client where it ends, whatever the server said of its length, its coding
\* and its version, and whatever the rules made of the body.
Delimited == at # "end" => \A i \in DOMAIN got : got[i].ends # "eof"

\* A request is dropped with a bufio.Reader only if the client sent it before
\* all earlier ones were answered: one that waits for its answers loses none,
\* even if the proxy leaves some of its bodies unread.
LossNeedsHaste == at # "end" => \A k \in Request : Lost(k) => k \in hasty

\* A client that has sent its last request is not left waiting, not even for
\* the answer to a lost request: the idle timeout ends the connection, since
\* only a connection that has had a response can lose one.
AnsweredOrClosed == \A k \in Request : Sent(k) ~> Answered(k) \/ at = "end"
=============================================================================
