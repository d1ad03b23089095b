# A formal model of RestfulHttpsProxy

TLA+ modules that model the proxy: its concurrent core, its rewrite rules and its
start; TLC configurations that check them on small instances, and TLAPS proofs of
their main properties for all values of the constants. Paths and line numbers
below are those of the repository (`src/`).

## The system

A client talks HTTP to the proxy, or CONNECTs and is answered as if the proxy
were the server (TLS with a certificate made on the fly). Each request passes a
handler that rewrites it by rules set for the client's address through a REST
API, is sent upstream, and its response is rewritten, delayed and throttled.

| component | state it keeps | operations |
| --- | --- | --- |
| upstream round trip, `proxy/serverConnProps.go` | per client connection: `Conns` (a pool by host), `Conn` (the latest), one timer per round trip | `Open`, `Write`, `Listen`, `RoundTrip`/`tryRoundTrip`, `Close` |
| client connections, `proxy/proxy.go`, `clientConnProps.go`, `helpers.go` | `conns` and `idleConns` (a `sync.Map` with a counter), per client `Conn`, `lastUsedTime`, `closeConnAfterRequest`, and a `bufio.Reader` per request | accept loop, `listenConn`, `handleConnect`, `doubleSidedCopy`, timeout checker |
| rule store and API, `main.go` | `rewriteRules`, `throttledConnections`, `lastTimeUsed`, by client address | request handler, `rules/set`, `rules/clear`, session cleaner |
| throttle, `throttle/throttle.go` | `rate`, `allowNextReadAfter`, two mutexes | `Read` -> `ConsumeBytes` |
| rewrite logic, `rewriteLogic/` | the window of the chunked regular-expression reader; per request the rules it found, its URL, header and body | URL, header, body and status rules, applied by the two loops of the handler |
| rule configuration, `prxConfig/` | none | JSON to compiled rules, or a refusal |
| startup, `main.go`, `certUtil.go`, `restartScript.sh` | `ca.pem`, `key.pem`, `prx.Cert`, `caBytes` | load the certificate or create it, serve, be started again |
| host certificates, readers, address helpers | none of interest | pure functions and adapters |
| request log, `requestLogger.go` | a log per address | dead code at this commit |

How they interact: the accept loop starts one `listenConn` goroutine per client
connection. It owns one `ServerConnProps` and calls the handler, which calls
`RoundTrip`; if the handler comes back without a response, `listenConn` calls
`RoundTrip` once more itself. `tryRoundTrip` starts a writing and a listening
goroutine, and the writer starts a timer; all three may close the whole pool.
The timeout checker closes client connections of other goroutines. Requests of
one address, API calls and the session cleaner share three maps without any
transaction over them; bodies of one address and URL pattern share a throttle.

What is hard to get right here: `scp.Conn` read without its lock by two
goroutines while others set it to nil; answers and timers that arrive after the
round trip they belong to; counters updated by goroutines of their own; a
checker that closes what has just become active; bytes that a reader took ahead
and drops; rules replaced under requests that hold the old ones; time kept by
sleeping in arrears; a body rewritten through a window that grows and shrinks;
rules that rewrite what later rules are matched with; servers that stop in the
middle of what has no timeout; two files that are only good together and are
written one after the other. `PROJECT.json` lists these
hazards at their lines, with the properties that cover each, or with a note that
says why none does: where the code has the fault, the model has it too.

What makes each component correct:

* **Round trip**: a request goes to its own host, at most once per call; an
  answer is that of the request; a call returns; bodies are not sent in halves;
  the pool is bounded and leaks nothing; an old timer disturbs nobody.
* **Client connections**: the sets and their counters follow the connections;
  idle ones are closed, finished ones are forgotten unless a server holds them,
  and sockets are closed. A
  client that waits for its answers loses no request, and knows where each
  response ends.
* **Rule store**: a request is treated by the rules in force when it began.
* **Throttle**: no window of time carries more than the rate allows.
* **Rewrite logic**: chunked replacement is replacement in the whole body; only
  matching rules change a message, and it stays consistent: code with status
  line, length with body, header lines whole.
* **Startup**: a restart after a stop anywhere works, with a certificate that
  matches its key and that clients do not have to trust anew.

## Modules

| module | models |
| --- | --- |
| `RoundTrip` | what a round trip promises its caller: no connections, goroutines or timers |
| `Upstream` | one `ServerConnProps` and its users; implements `RoundTrip` |
| `ConnSet` | operators of `connSet` |
| `ClientConns` | accept loop, `listenConn`, CONNECT, timeout checker, over two `ConnSet`s |
| `ClientWire` | one client's bytes: the requests each `Listen` reads or drops, and where responses end |
| `RuleStore` | the three maps, their requests, API calls and cleaner |
| `Throttle` | one `ThrottleController` and the bodies read through it |
| `Regexp` | what is used of package `regexp` |
| `BodyReader` | what the reader of a rewritten body promises its caller: no windows, chunks or buffers |
| `RegexReader` | `regexReader` and `fixedChunkRegexReader` over one body; implements `BodyReader` |
| `Rewriting` | `prxConfig.Compile` and the rules of `rewriteLogic.go`, as operators |
| `Handler` | the request handler's two loops over `Rewriting`, and the API calls that change the rules |
| `Startup` | `main` and `createPemFiles`: files, accidents, restarts |
| `Process` | the whole program: `Startup`, then `Handler`, ended by accidents and panics |
| `MC*` | symmetry sets, inputs and configurations for TLC |
| `UpstreamProofs`, `ClientConnsProofs`, `ClientWireProofs`, `RuleStoreProofs`, `ThrottleProofs`, `RegexpProofs`, `RegexReaderProofs`, `ProcessProofs` | proofs |

Operators called a "mutant" in their comment are deliberately wrong variants of
the definition after them. Nothing uses them; `PROJECT.json` says which property
each breaks when it is put in that definition's place.

### Upstream

`pc` is where `listenConn` stands: `ready` for a request, `preread` (reading the
beginning of a body of unknown length), `open` (in `Open`),
`run` (waiting in `wg.Wait`), `decide` (retry or return), `answered` or
`failed`, `leaving` the loop, `shut`. `wpc` and `lpc` are the writing and the
listening goroutine, `tpc` and `once` every timer and its `sync.Once` (`fired` if
it is done because the timer closed the pool): a timer outlives its round trip,
so several can be asleep. One action is one atomic
step of the Go code: what happens under `connsMu` (`Open`, `Close`) is one, and
each unlocked read of `scp.Conn` (`WriteBegin`, `ListenBegin`, `ListenReturn`) is
its own. `owed` counts the requests a server has received over a connection and
not answered; it is how the model knows whose answer is read. `wire` counts the
sends of one `RoundTrip` call that reached a server, `spent` says that the
client's body has been read; neither exists in the code.

The writer's own `errS` is `wErr`, distinct from the `errS` that `tryRoundTrip`
returns, as in the code. A nil `scp.Conn` in `Write`, in `Listen` or as closer
of a body ends the process (`Crash`): these goroutines have no recover, and the
one in `listenConn` is commented out.

Environment assumptions: a server answers only requests it has received and
sends nothing unasked; only the hosts in `InterimHost` send `100 Continue`.
A data race on the two words of `scp.Conn` (a torn read) is a failure of the
`Write` or `Listen` that sees it. `Listen` may find broken content coding with
or without an error. Response bodies are streamed in one step.

### ConnSet and ClientConns

A connection set is its members `m`, its counter `n`, and the increments and
decrements (`inc`, `dec`) whose goroutines have not run. `at` is where each
`listenConn` goroutine stands. Time is two flags: `stale`, more than
`idleTimeout` has passed since `lastUsedTime`, and `old`, the same since the
last response was really written; their difference is what `IdleClockRight` is
about. The checker's visit, its test and its close are three steps, since it
holds no lock. `stalled` says that the server of the request in progress has
stopped in the middle (`Stall`, `Resume`): nothing that waits for it goes on, be it
the handler's round trip or `client.Write`, for the timer of the round trip is
cancelled when the response header has come (`serverConnProps.go:250`). The request
of a client that has gone then stays, with its connection in `conns`, as long as
the server does; so does a tunnel to a silent destination. These two (`Held`) are
what `ClosedIsForgotten` excepts. A failed CONNECT leaves the socket to the garbage collector
(`Collect`), whose finalizer closes it.

### ClientWire

`stream` is what one client has sent, head by head and body by body; `filled` is
how much of it some `bufio.Reader` has taken from the socket, and `pos` how much
has been read or dropped. `NewReader` is the first line of `Listen`: it moves `pos`
to `filled`. `hasty` is an observer, the requests sent before all earlier ones were
answered. A reader takes whole parts; the rest of a part that was cut would be read
as garbage, as a body that nobody has read is. A left-over body that happens to
look like a request is not followed. `ReadHead` says whether a body follows by
looking at `stream`; a client that sends a head sends its body at once.

A response is what framing depends on: its version, what is known of its length,
whether it is chunked, and whether it closes. The operators follow it in the order
of the code: `Listened` (a coding is undone), `Rewritten` (a rule alters the body),
`Guarded` (`listenConn`), `Probed` and `Written` (`client.Write`); `EndOf` is what
`net/http` makes of the result. Clients speak HTTP/1.1: an HTTP/1.0 client may be
sent chunks when the server answered in HTTP/1.1. HEAD is not modelled.

### RuleStore

Each map access is one step; between two accesses of a request anything may
happen to the maps. A rule set is known by its speed. It may limit uploads,
downloads, both or neither (`Uploads`, `Downloads`; `Skip` where it does not); on
each side all rule sets have one throttled entry under the same URL pattern, which
is the case in which a controller can be found by the wrong rules. Controllers
are known by the rule set they were made for, because nothing ever changes their
rate.

### Throttle

Time is counted in the time one byte takes, so the pause owed for `b` bytes is
`b`. `Take` reads the source, `Sleep` takes `readMutex` and starts the pause
owed by the previous read, `Pass` ends it and notes its own. `mark` and `Mark`
are an observer: an arbitrary moment to measure from. Truncation of the pause
to nanoseconds is left out.

### Regexp and RegexReader

A pattern is a literal, non-empty sequence of bytes and a replacement has no
`$1`: what the chunked reader does with windows does not depend on more.
`ReplaceAll` is the reference definition, applied by the code to each window and
by the properties to the whole body. `pc` is where `regexReader.Read` or its
caller stands; `FirstChunk` and `NextChunk` are one call of
`fixedChunkRegexReader.Read`, with the reads from the source inside it. The
source may report its end with its last bytes or after them (`eager`); an error
of the source ends the body just as its end does, as in the code.

Slices keep their lengths, because that is where the code goes wrong: the result
of a window is copied into a buffer of the window's length (`CopyInto`), so the
end of a longer one is lost, and the next window is filled up with zeros (`Kept`);
half of a result more than twice as long is sliced beyond the buffer, and Read
panics (`panic`).

`BodyReader` is the same reader as its caller sees it: `given` is what Read has
returned so far, `over` that it reported the end (or panicked), and `exact` that
the rule and the body are `Simple`, so that all of `whole`, the body replaced in
one piece, is owed.

### Rewriting and Handler

`Rewriting` has no state. A JSON object is a record whose absent keys are `Nil`;
text is a sequence of symbols (`Symbol`, of which a run has those its inputs use);
a header is the set of its lines, written out in every order (`Orders`), as Go
iterates over maps; equal lines are one. Splitting
a line at its colon and trimming it is left out: it does not move text between
lines.

`Handler` follows the requests of one address, one at a time, between API calls
that may come at any step. `at` is where the handler stands, or `listenConn`
after it: each pass of a loop is one step (`Skip`, `AlterRequest`,
`AlterResponse`) and takes all parts of the message, as the loop's body does.
`asked`, `began` and `got` are observers: the request, the rules and the
response as they came in. A body is rewritten in one piece, which `SimpleIsExact`
shows to be right for bodies shorter than a window, and a length is known or
not (`sized`). Throttles of entries are in `RuleStore`.

### Startup and Process

A file is known by the generation of the key pair it was written for, 0 if it is
missing, empty or torn; `LoadX509KeyPair` accepts two files of one generation.
Each of the two files is truncated and written in separate steps (`OpenCa`,
`WriteCa`, `OpenKey`, `WriteKey`), and between any two steps the process can be
killed or a write can fail; a good file can be unreadable (`ReadCaFails`, whose
error the code drops, and `LoadFails`, which it takes for a missing pair), and the
proxy's port can be taken (`ListenFails`). All this happens at most `MaxAccidents`
times, of which `misreads` counts the failed reads. The error of the API's listener
is ignored by the code and has no effect here. What a power failure does to files
the operating system has not written is left out. `served` is an observer: every
certificate that was ever signed with or handed out. After a failed read of a good
pair the code overwrites it, and a second certificate is served: `OneCa` counts
one for each such start and excludes every other cause.

`Process` puts `Handler` behind `Startup`: requests are handled only while
`boot` is `serving`, and whatever ends the process (a kill, a failed creation,
an append rule on a body) loses the rules and keeps the files.

## Runs

| run | shows | bounds |
| --- | --- | --- |
| `Upstream` | `TypeOK`, `PoolBound`, `NoLeak`, `RightHost`, `NoStaleAnswer`, `NoStaleTimeout`, `BodySentWhole`, `CrashNeedsFailure`, `AnswerWhole`, `AnswerUndisturbed` | 3 hosts (1 sends interim responses), 3 connections, 2 timers, `MaxConns` 1 |
| `UpstreamLive` | `Upstream` implements `RoundTrip`, with liveness | 2 hosts, 2 connections, 2 timers, `MaxConns` 0 |
| `UpSendErrorReported` | violated: a failed write is not reported | as above |
| `UpAnswerSeenByHandler` | violated: a response no rule has seen | as above |
| `ClientConns` | `TypeOK`, `CountsConserved`, `SetsFollowConns`, `IdleClockRight`, `FinishedIsClosed`, `NilIsOver`, `IdleReaped`, `ClosedIsForgotten` | 2 clients, 1 of which may CONNECT, keep-alive limit 1, `MaxUncounted` 1 |
| `ClientWire` | `TypeOK`, `Delimited`, `LossNeedsHaste`, `AnsweredOrClosed` | 3 requests |
| `RuleStore` | `TypeOK`, `NoLingeringRate` | 2 tasks, 1 address, 2 rule sets (one limits both sides, one downloads only), 2 registries |
| `RuleNewRulesThrottle` | violated: a controller of old rules throttles new requests | the same, rules replaced at any time |
| `Throttle` | `TypeOK`, `WindowRate` | 2 bodies, reads of up to 3 bytes, clock to 8 |
| `RegexReader` | `TypeOK`, `UnmatchedIsVerbatim`, `SimpleIsExact`, `PanicNeedsGrowth`, `ImplementsReader` | `BufferSize` 2, every body of up to 8 bytes `a`, `b`; 4 patterns of 1 to 3 bytes, 7 replacements of 0 to 4; reads of 3 bytes |
| `RegexWholeBody` | violated: replacement by windows is not replacement in the body | the same, bodies of up to 6 bytes |
| `Process` | `TypeOK`, `OnlyMatchingRules`, `StatusAgrees`, `LengthTrue`, `HeaderLinesKept`, `ServesItsPair`, `OneCa`, `Recovers` | 8 configurations, 2 requests, 1 response, 2 accidents |

Why these bounds: with `MaxConns` 1 the pool of `Upstream` reaches its limit of
two and one more host empties it; with 0 each second host does. Two timers are
the one of the round trip and a stale one; where more would be asleep the model
waits for one to expire, which removes no order of a stale timer and its
successor. A connection id is reused once the connection is closed. `owed` is
bounded because an interim response is only sent on a connection that owes one
answer (`Answers`). `MaxUncounted` only delays new connections and requests
while counter goroutines are behind, and one `Connecting` client is enough because
connections meet only in the sets, the checker and its panic. Three requests are one that is served, one
its reader holds and one still in the socket. Two tasks suffice for a request against an
API call, or two requests, with the cleaner running besides; a registry that
nobody refers to is reused. Eight bytes are four halves of a window: a first
window, two later ones and the rest, with matches across each seam; patterns of
three bytes are longer than half a window, and replacements of up to four make
windows shrink, grow and overflow. The configurations of `Process` have every
kind of rule on some part, an entry that only matches what another has made of
the URL, several rules on one side, and all the reasons to be refused; two
accidents are enough to stop a start, and the start that repairs it, or to lose
two pairs. Symmetry is
used in safety runs only. Deadlock is not checked: a proxy without requests, or
one that has crashed, may stop.

### Fairness

Only what Go's scheduler and the operating system give. In `Upstream`: runnable
goroutines run, timers expire, dialing ends by its own timeout, and the body
of a request arrives and is taken by the server's TCP, or fails: until the request
is written the code has no timeout, which is a hazard of its own. Nothing is
assumed of answers, client requests or the delivery of responses; in particular,
that a call whose request is written returns rests on the timer alone. In
`ClientConns`: runnable goroutines run, time passes, and reads and writes on a
closed socket return, with them a request in progress, unless its server has
stalled; nothing says that a stalled server ever goes on. A copy ends when its
source has ended, but nothing says that one whose destination is gone has anything
to write. In `ClientWire`: runnable goroutines run, a handler that has
its request ends (the server is assumed to finish its body), and the timeout
checker comes round; the client need not send, read or close anything. In
`RegexReader` the caller reads on until it is given an error, as `io.Copy` does.
In `Process` the program runs and, once ended, is started again, which
`restartScript.sh` does for ever; accidents end at some time; nothing is assumed
of requests.

## What disagrees with the documents

Four violation runs. `tryRoundTrip` says it returns the error of sending,
but a shadowed variable loses it (`serverConnProps.go:237`). The README's
throttles and rules do not act on a response that `listenConn` fetched itself
(`proxy.go:185`). Setting rules does not always delete the throttle of the old
ones (`main.go:79`): the run without requests in progress shows the protocol is
right otherwise. A find-and-replace over a body longer than twice
`regexBufferSize` loses the end of windows that grow, misses matches between
windows that shrink (`chunkedRegexReader.go:132`-`138`; rules whose replacement can
be part of a match are replaced again in the kept half, which that run leaves
aside: `Disjoint`); the run `RegexReader` shows where it is right:
without a match, in short bodies, and for replacements that keep the length (or
do not exceed it, for patterns of one or two bytes) and are not part of a match.

Also met on the way, without a run of their own: the recover block that a note
in `listenConn` (`proxy.go:139`) offers against crashes does not cover the
goroutines that die on a nil `scp.Conn` (`serverConnProps.go:295`, `303`); an
append rule on a body, which `README.md:142` documents, ends the process
(`rewriteLogic.go:37`; `RulePanic`); `make longTermDeploy` (`README.md:21`) starts
the program without its ports, so that it never serves (`Launch`, `Recovers`); a
certificate that was just created is served in DER form until the next start
(`main.go:167`); when it cannot be created the message for that case is never
logged, because `cert` is used a line before it is tested; a good pair that cannot
be read once is overwritten (`main.go:162`, `LoadFails`); and a server that stalls
in the middle of a response body holds the connection of a client that has gone
(`serverConnProps.go:250`, `proxy.go:227`; `Stall`).

## Proofs

All are checked by TLAPS for any values of the constants, assuming only the
named ASSUMEs of each module (`Nil` is none of the other values, limits are
natural numbers, `Host` is finite, patterns are not empty, configurations have
the types of `EntryJSON`, headers come in as finitely many lines that are not
empty and have no line break in them).

* `UpstreamProofs`: `IInv` is the inductive invariant. None of the safety
  properties is inductive alone. That no stale answer is left (`NoStaleAnswer`)
  needs to know how many answers each pooled connection owes in the middle of a
  round trip (`OwedInv`, `Due`), which needs that both goroutines use the pooled
  connection of the request's host or find the pool closed (`RunInv`), that no
  goroutine survives its `wg.Wait` (`Joined`), that pooled connections belong to
  their hosts (`PoolInv`), and that at most the current timer can fire
  (`TimerInv`). `SpentInv` follows the request body. From `IInv` follow the
  type invariant, `NoLeak`, `RightHost`, `NoStaleAnswer`, `NoStaleTimeout` and
  `BodySentWhole`; `PoolBound` is inductive beside it. `NilInv` says who can have
  taken `scp.Conn` away from a round trip, and gives `CrashNeedsFailure`;
  `WholeInv` says what an answer still has while the other goroutines run, and gives
  `AnswerWhole`; `AnswerUndisturbed` is an action property that follows from `IInv`
  step by step.
  With `WireInv`, when the request is on the wire, every step of `Upstream` is a
  step of `RoundTrip` or a stutter (`RoundTripRefined`), for servers that send no
  interim responses.
* `ClientConnsProofs`: lemmas about `Add`, `Remove`, `CountUp` and `CountDown`,
  and from them `CountsConserved`, `SetsFollowConns`, `IdleClockRight` (with the
  step before `idleConns.Add` added: `ClockRight`), `FinishedIsClosed` and
  `NilIsOver`. The proofs do not use the bound `MaxUncounted`.
* `ClientWireProofs`: `Delimited`, by going through the framing operators
  (`OutgoingEnds`) for every response; and `LossNeedsHaste`. Parts are sent in
  order (`StreamInv`), what is unread comes after the request in hand (`CurInv`),
  nothing is answered before it is read (`AnswerInv`), and a request that is not
  hasty found all earlier ones answered (`HasteInv`). So every head behind a
  request that is being served is hasty (`WaitingIsHasty`), hence what a reader
  holds between requests is (`HeldInv`), and what is dropped with it (`LossInv`).
* `RuleStoreProofs`: `NoLingeringRate`. A registry belongs to one address
  (`OwnInv`); requests in progress of an address that is changed between
  requests only have one set of rules, the one in force unless the cleaner has
  deleted it (`RulesInv`); so what the address's registry holds, outside a
  change, was made for the rules in force (`StoreInv`), and what a request finds
  was made for its own (`FreshInv`).
* `ThrottleProofs`: `WindowRate`, and `BurstBound` from it, by an invariant that
  relates the sleeper's wake-up time and the debt to what was passed on.
* `RegexpProofs`: what `ReplaceAll` does to texts of any length. Induction is over
  sets (`NatSetInduction`, `TextSetInduction`: a set that has each text when it has
  all shorter ones has all texts), since theorems with a predicate as parameter
  cannot be used; it follows from `<` being well-founded on the natural numbers.
  The recursion in `ReplaceFrom` has a solution (`SolutionExists`), so replacing
  can be unfolded at the front of a text: a match is replaced (`ReplaceFound`), any
  other symbol passes (`ReplaceKept`). From there: the lengths (`ReplaceLength`); a
  text without a symbol of the pattern passes (`ReplacePassed`); no match begins
  in what is replaced that did not begin in the original (`FrontNotReplaced`,
  `FrontStays`); and `Seam`: of a replaced text a front may be handed out, and the
  rest replaced again with what follows it, if the rest is at least one symbol
  shorter than the pattern and no replacement can become part of a match.
* `RegexReaderProofs`, in five parts, all for every size of window and of read.
  `UnmatchedIsVerbatim`, with `Inv`: what was handed out, the chunk in hand and the
  kept half (`Window`) are together the part of the body that was read. The types
  and `PanicNeedsGrowth`, from `ReplaceLength`: without a longer replacement the half
  of a result fits into the window it came from. `SimpleIsExact`, with `ExactInv`: what was handed out, then the chunk, then what would become of
  the kept half followed by the rest of the source (`Between`) is the whole body,
  replaced. That a window may be divided is `Divided`, where `Steady` gives what
  `Seam` needs: if the length is kept, so is half a window, which is all of a
  pattern but one byte; a pattern of at most two bytes needs one byte, and the
  kept half has one as soon as any is handed out. `ReadProgresses`: each step
  lowers a lexicographic measure (`Left`), so that neither loop goes on for ever.
  `ReaderRefined`: with `SimpleIsExact` every step is a step of `BodyReader` or a stutter; copying hands
  out more, and only the last return, or a panic of a rule that is not simple,
  ends it.
* `ProcessProofs`: about the files, `StartInv` (which generation each file can
  have at each step, `FilesInv`, `FreshInv`; that of the pairs which were served
  one is still in the files, or a failed read has cost it, `ServedInv`) gives `ServesItsPair` and `OneCa`; about the
  messages, `MessageInv` follows the two loops entry by entry, with the lemma
  that a part without rules is not touched, and gives `OnlyMatchingRules`,
  `StatusAgrees` and `LengthTrue`. `HeaderLinesKept` rests on what the recursions
  of `headerToString` and `applyRules` compute: every line of a header stands
  between two line breaks (`HeaderString`), and stays there when rules add at the
  ends (`AddingRules`, `HoldsExtended`), where `stringToHeader` finds it
  (`LineFound`); `LinesInv` carries this from entry to entry, together with the
  header being finite and made of lines again (`ParsedHeader`).

Only model-checked: everything about liveness (`ImplementsRoundTrip` and
`ImplementsReader` beyond their safety parts, `IdleReaped`, `ClosedIsForgotten`,
`AnsweredOrClosed`, `Recovers`), which needs fairness and ENABLED. Of
`ImplementsReader`, the theorem `ReadProgresses` has the part of its liveness that
does not: a caller that reads on cannot do so for ever. The
inductive invariants were checked by TLC before they were proved. A proof about `RuleStore` cannot say more than
`NoLingeringRate`: the unrestricted `NewRulesThrottle` is false.

## Plan

1. `RoundTrip`, `Upstream`, proofs and refinement. Done.
2. `ConnSet`, `ClientConns` and proofs. Done.
3. `RuleStore` and proofs. Done.
4. `Throttle` and proofs. Done.
5. `Regexp`, `BodyReader`, `RegexReader`, proofs and refinement. Done.
6. `Rewriting`, `Handler`, `Startup`, their composition `Process`, and proofs. Done.
7. `ClientWire` and proofs. Done.
8. Servers that stall, failed reads of the certificate, the read ahead of a body of
   unknown length, and what an answer still has when it is returned. Done.
9. Left: response bodies streamed in several steps in `Upstream`; in `RuleStore`,
   several entries of one rule set that share a throttle; a total over the
   controllers that two requests create at once.

Not modelled, and why: certificates signed per host (`signer.go`,
`counterecryptor.go`: cryptography without state), address and header helpers
and reader adapters (pure functions; `doubleSidedCopy` is in `ClientConns`), the
request log (`requestLogger.go`: every call of it is commented out). In what is
modelled: groups and empty matches of regular expressions; JSON and URL syntax
beyond being refused; the flags `-pem` and `-key`, which move the positional
arguments that the ports are read from; two processes in one directory.
