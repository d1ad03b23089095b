------------------------------- MODULE Handler -------------------------------
(***************************************************************************)
(* The request handler of main.go, for the requests of one client address, *)
(* and the API calls that replace the address's rules at any time.  Each   *)
(* pass of its two loops over the rules is a step.                         *)
(*                                                                         *)
(* What module RuleStore says of the maps shared by all addresses, and     *)
(* module Upstream of a round trip, is not repeated: a round trip answers  *)
(* or fails here.  A body is rewritten in one piece, which module          *)
(* RegexReader shows to be right for bodies shorter than two               *)
(* regexBufferSize.                                                        *)
(***************************************************************************)
EXTENDS Rewriting

CONSTANTS
  Config,    \* configurations that are posted to /api/rules/set
  Request,   \* requests as the client sends them
  Response   \* responses as servers send them

\* An entry without ResponseDelay delays by 0, a side without rules has empty
\* lists of them.
ASSUME ConfigAssumption == Config \subseteq Seq(EntryJSON)
ASSUME HeaderAssumption ==
  \A m \in Request \cup Response : IsFiniteSet(m.header) /\ m.header \subseteq Line

VARIABLES
  rules,     \* rewriteRules.Load(ip), compiled; without an entry, no rules
  reply,     \* the status of the latest API answer
  at,        \* where the handler, or listenConn after it, stands
  mine,      \* rewriteRulesForClient
  next,      \* the entry the loop comes to next
  asked, began,   \* the request and the rules as they were when it arrived
  rq,        \* req: its URL, header, body, and whether its length is known
  got,       \* the response as it arrived
  rs         \* resp: its status line and code, header, body, and so on

handlerVars == <<rules, reply, at, mine, next, asked, began, rq, got, rs>>

Compiled == {Compile(c) : c \in {d \in Config : Accepts(d)}} \cup {<<>>}

HandlerTypeOK ==
  /\ rules \in Compiled
  /\ reply \in {"none", "200", "404"}
  /\ at \in {"idle", "request", "wire", "second", "response", "deliver"}
  /\ mine \in Compiled
  /\ next \in 1..Len(mine) + 1
  /\ asked \in Request /\ got \in Response
  /\ rq.sized \in BOOLEAN /\ rs.sized \in BOOLEAN
  /\ rs.delay \in Nat

\* A request, or a response, on its way into the proxy.
Incoming(q) == [url |-> q.url, header |-> q.header, body |-> q.body, sized |-> TRUE]
Arrived(r) ==
  [status |-> [line |-> r.line, code |-> r.line[1]], header |-> r.header, body |-> r.body,
   sized |-> TRUE, delay |-> 0]

HandlerInit ==
  /\ rules = <<>> /\ reply = "none"
  /\ at = "idle" /\ mine = <<>> /\ next = 1
  /\ asked \in Request /\ rq = Incoming(asked) /\ began = <<>>
  /\ got \in Response /\ rs = Arrived(got)

-----------------------------------------------------------------------------
(* handleProxyAPI.                                                         *)

\* /api/rules/set: nothing changes unless the whole configuration compiles.
RulesSet(config) ==
  /\ IF Accepts(config)
     THEN rules' = Compile(config) /\ reply' = "200"
     ELSE reply' = "404" /\ UNCHANGED rules
  /\ UNCHANGED <<at, mine, next, asked, began, rq, got, rs>>

\* /api/rules/clear.
RulesClear ==
  /\ rules' = <<>> /\ reply' = "200"
  /\ UNCHANGED <<at, mine, next, asked, began, rq, got, rs>>

-----------------------------------------------------------------------------
(* The request, up to the round trip.                                      *)

Receive(q) ==
  /\ at = "idle"
  /\ at' = "request" /\ next' = 1
  /\ mine' = rules /\ began' = rules
  /\ asked' = q /\ rq' = Incoming(q)
  /\ UNCHANGED <<rules, reply, got, rs>>

\* The entry the loop has come to.
Entry == mine[next]

\* Mutant of Chosen: what the rules have made of the URL is matched.
ChosenRewritten == Matches(Entry, rq.url)

\* Both loops match the URL as it was before any rule changed it.
Chosen == Matches(Entry, asked.url)

InLoop == at \in {"request", "response"} /\ next \in DOMAIN mine

Skip ==
  /\ InLoop /\ ~Chosen
  /\ next' = next + 1
  /\ UNCHANGED <<rules, reply, at, mine, asked, began, rq, got, rs>>

NewUrl == applyRules(rq.url, Entry.request.url)

\* AlterURL fails, the handler returns (nil, nil), listenConn breaks off.
RefuseUrl ==
  /\ InLoop /\ at = "request" /\ Chosen
  /\ NewUrl \in BadUrl
  /\ at' = "idle"
  /\ UNCHANGED <<rules, reply, mine, next, asked, began, rq, got, rs>>

\* Mutant of Unsized: the length of the old body is kept.
UnsizedNever(sized, list) == sized

\* ContentLength = -1 for a body with rules.
Unsized(sized, list) == sized /\ list = <<>>

AlterRequest ==
  /\ InLoop /\ at = "request" /\ Chosen
  /\ NewUrl \notin BadUrl
  /\ ~BodyPanics(Entry.request.body)
  /\ \E header \in AlterHeader(rq.header, Entry.request.header) :
       rq' = [url    |-> NewUrl,
              header |-> header,
              body   |-> applyRules(rq.body, Entry.request.body),
              sized  |-> Unsized(rq.sized, Entry.request.body)]
  /\ next' = next + 1
  /\ UNCHANGED <<rules, reply, at, mine, asked, began, got, rs>>

RequestDone ==
  /\ at = "request" /\ next \notin DOMAIN mine
  /\ at' = "wire"
  /\ UNCHANGED <<rules, reply, mine, next, asked, began, rq, got, rs>>

-----------------------------------------------------------------------------
(* The round trip, and the response.                                       *)

Answer(r) ==
  /\ at = "wire"
  /\ at' = "response" /\ next' = 1
  /\ got' = r /\ rs' = Arrived(r)
  /\ UNCHANGED <<rules, reply, mine, asked, began, rq>>

\* The handler returns (req, nil): listenConn makes a round trip itself.
NoAnswer ==
  /\ at = "wire"
  /\ at' = "second"
  /\ UNCHANGED <<rules, reply, mine, next, asked, began, rq, got, rs>>

\* Its answer goes to the client as it is.
SecondAnswer(r) ==
  /\ at = "second"
  /\ at' = "deliver"
  /\ got' = r /\ rs' = Arrived(r)
  /\ UNCHANGED <<rules, reply, mine, next, asked, began, rq>>

SecondFails ==
  /\ at = "second"
  /\ at' = "idle"
  /\ UNCHANGED <<rules, reply, mine, next, asked, began, rq, got, rs>>

AlterResponse ==
  /\ InLoop /\ at = "response" /\ Chosen
  /\ ~BodyPanics(Entry.response.body)
  /\ \E header \in AlterHeader(rs.header, Entry.response.header) :
       rs' = [header |-> header,
              status |-> AlterStatus(rs.status, Entry.response.status),
              body   |-> applyRules(rs.body, Entry.response.body),
              sized  |-> Unsized(rs.sized, Entry.response.body),
              delay  |-> IF Entry.delay > rs.delay THEN Entry.delay ELSE rs.delay]
  /\ next' = next + 1
  /\ UNCHANGED <<rules, reply, at, mine, asked, began, rq, got>>

\* After the longest delay of all matching entries.
ResponseDone ==
  /\ at = "response" /\ next \notin DOMAIN mine
  /\ at' = "deliver"
  /\ UNCHANGED <<rules, reply, mine, next, asked, began, rq, got, rs>>

Deliver ==
  /\ at = "deliver"
  /\ at' = "idle"
  /\ UNCHANGED <<rules, reply, mine, next, asked, began, rq, got, rs>>

\* An append rule for a body: the goroutine panics, and the process with it.
Panics ==
  /\ InLoop /\ Chosen
  /\ at = "request" => NewUrl \notin BadUrl
  /\ BodyPanics(Entry[at].body)

Api == RulesClear \/ \E config \in Config : RulesSet(config)

Handle ==
  \/ \E q \in Request : Receive(q)
  \/ Skip \/ RefuseUrl \/ AlterRequest \/ RequestDone
  \/ \E r \in Response : Answer(r) \/ SecondAnswer(r)
  \/ NoAnswer \/ SecondFails
  \/ AlterResponse \/ ResponseDone \/ Deliver

-----------------------------------------------------------------------------
(* Properties.                                                             *)

\* An entry in force when the request arrived, whose pattern is found in the
\* URL the client sent, has rules for this part of this side.
Entitled(side, part) ==
  \E i \in DOMAIN began : Matches(began[i], asked.url) /\ began[i][side][part] # <<>>

\* The request is complete, and so is the response.
Sent == at \in {"wire", "second", "response", "deliver"}
Complete == at = "deliver"

\* README: an entry's pattern triggers its application when it matches the
\* URL.  Nothing else changes a message: no entry that matches only what
\* other entries made of the URL, no rules posted while the request was on
\* its way, no part of a message because of rules for another.
OnlyMatchingRules ==
  /\ Sent => /\ rq.url # asked.url => Entitled("request", "url")
             /\ rq.header # asked.header => Entitled("request", "header")
             /\ rq.body # asked.body => Entitled("request", "body")
  /\ Complete => /\ rs.status.line # got.line => Entitled("response", "status")
                 /\ rs.header # got.header => Entitled("response", "header")
                 /\ rs.body # got.body => Entitled("response", "body")

\* The code a response is sent with is the number its status line begins
\* with, through any chain of status rules, also those that leave no number.
StatusAgrees == Complete => rs.status.code = rs.status.line[1]

\* A message is never announced with the length of a body it no longer has:
\* the client and the server would wait for the rest, or take what is left
\* for the next message.
LengthTrue ==
  /\ Sent /\ rq.sized => Len(rq.body) = Len(asked.body)
  /\ Complete /\ rs.sized => Len(rs.body) = Len(got.body)

\* No rule of a matching entry replaces anything in a header of this side.
AddsOnly(side) ==
  \A i \in DOMAIN began : Matches(began[i], asked.url) =>
    \A k \in 1..Len(began[i][side].header) : began[i][side].header[k].replace = Nil

\* Rules that only append and prepend leave every header line whole, in
\* whatever order the map of the header gives its lines.
HeaderLinesKept ==
  /\ Sent /\ AddsOnly("request") => asked.header \subseteq rq.header
  /\ Complete /\ AddsOnly("response") => got.header \subseteq rs.header
=============================================================================
