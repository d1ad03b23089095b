---------------------------- MODULE ProcessProofs ----------------------------
(***************************************************************************)
(* What the program promises for every set of configurations, requests and *)
(* responses, and any number of accidents: about the files it leaves       *)
(* behind, and about what its two loops over the rules do to a message.    *)
(*                                                                         *)
(* About header lines: in the string made of a header each line stands     *)
(* between two line breaks (HeaderString), adding at the ends of a text    *)
(* leaves it there (HoldsExtended, AddingRules), and stringToHeader finds  *)
(* what stands between line breaks (LineFound).  LinesInv follows that     *)
(* through the entries.                                                    *)
(*                                                                         *)
(* Recovers, which is liveness, is only model-checked.                     *)
(***************************************************************************)
EXTENDS Process, RegexpProofs, FiniteSetTheorems

-----------------------------------------------------------------------------
(* The certificate.                                                        *)

\* createPemFiles has made a pair, which is in neither file or in one.
Writing == {"openCa", "writeCa", "openKey", "writeKey"}

FilesInv ==
  /\ ca <= fresh /\ key <= fresh /\ fresh # 0
  /\ boot = "openCa" => ca < fresh
  /\ boot = "writeCa" => ca = 0
  /\ boot \in {"openKey", "writeKey"} => ca = fresh
  /\ boot \in {"openCa", "writeCa", "openKey"} => key < fresh
  /\ boot = "writeKey" => key = 0

\* Only an accident leaves files that do not belong together.
FreshInv ==
  /\ boot \in Writing => fresh <= accidents + 2
  /\ boot \notin Writing => fresh <= accidents + IF Loadable THEN 2 ELSE 1
  /\ boot = "generate" => fresh <= accidents + 1

\* What main holds is what is in the files, as far as they could be read.
BootInv ==
  /\ boot \in {"load", "launch", "serving"} =>
       caBytes \in {0, ca} /\ (misreads = 0 => caBytes = ca)
  /\ boot \in {"launch", "serving"} => cert # 0 /\ ca = cert /\ key = cert

\* Of the certificates that were served one is still in the files, or will be
\* found there: each of the others was lost to a start that could not read it.
ServedInv ==
  \/ Cardinality(served) <= misreads
  \/ /\ Cardinality(served) <= 1 + misreads
     /\ ca \in served /\ Loadable /\ boot \notin Writing \cup {"generate"}

StartInv == StartTypeOK /\ FilesInv /\ FreshInv /\ BootInv /\ ServedInv

USE AccidentAssumption

\* Serving a certificate adds it to those that were served.
LEMMA ServedFact ==
  ASSUME StartTypeOK, NEW g \in Generation
  PROVE  /\ Cardinality(served) \in Nat
         /\ Cardinality(served \cup {g}) \in Nat
         /\ Cardinality(served \cup {g}) <= Cardinality(served) + 1
         /\ g \in served => served \cup {g} = served
<1>1. IsFiniteSet(Generation)
  BY FS_Interval DEF Generation
<1>2. IsFiniteSet(served)
  BY <1>1, FS_Subset DEF StartTypeOK
<1>3. Cardinality(served) \in Nat
  BY <1>2, FS_CardinalityType
<1>4. CASE g \in served
  <2>1. served \cup {g} = served
    BY <1>4
  <2> QED
    BY <1>3, <2>1
<1>5. CASE g \notin served
  <2>1. Cardinality(served \cup {g}) = Cardinality(served) + 1
    BY <1>2, <1>5, FS_AddElement
  <2> QED
    BY <1>3, <1>5, <2>1
<1> QED
  BY <1>4, <1>5

\* A first start with any files.
LEMMA StartInitInv == StartInit => StartInv
  BY FS_EmptySet
     DEF StartInit, StartInv, StartTypeOK, FilesInv, FreshInv, BootInv, ServedInv, Loadable,
         Writing, Generation

\* The API has come up, and so has the proxy or not.
LEMMA LaunchStep == ASSUME StartInv, Launch \/ ListenFails PROVE StartInv'
<1> USE DEF StartInv, StartTypeOK, FilesInv, FreshInv, BootInv, ServedInv, Loadable, Writing
<1>1. /\ boot = "launch" /\ boot' \in {"serving", "down"}
      /\ UNCHANGED <<ports, ca, key, fresh, misreads>>
      /\ served' = served \/ served' = served \cup {ca}
      /\ boot' = "serving" => UNCHANGED <<cert, caBytes>>
      /\ boot' = "down" => cert' = 0 /\ caBytes' = 0
      /\ accidents' = accidents \/ (accidents < MaxAccidents /\ accidents' = accidents + 1)
  BY DEF Launch, ListenFails, Accident, Ended, fileVars
<1>2. 0 \in Generation /\ ca \in Generation /\ served' \subseteq Generation
  <2>1. 0 \in Generation
    BY DEF Generation
  <2>2. ca \in Generation /\ served \subseteq Generation
    OBVIOUS
  <2> QED
    BY <1>1, <2>1, <2>2
<1>3. ServedInv'
  <2>1. CASE served' = served
    BY <1>1, <2>1
  <2>2. CASE served' = served \cup {ca}
    BY <1>1, <1>2, <2>2, ServedFact
  <2> QED
    BY <1>1, <2>1, <2>2
<1>4. StartTypeOK'
  BY <1>1, <1>2
<1>5. FilesInv' /\ BootInv'
  BY <1>1
<1>6. FreshInv'
  BY <1>1, <1>2 DEF Generation
<1> QED
  BY <1>3, <1>4, <1>5, <1>6

\* main, before it listens, whether it can read the files or not.
LEMMA MainStep ==
  ASSUME StartInv, Start \/ ReadCa \/ ReadCaFails \/ Load \/ LoadFails
  PROVE  StartInv'
<1> USE DEF StartInv, StartTypeOK, FilesInv, FreshInv, BootInv, ServedInv, Loadable, Writing,
            Generation, fileVars
<1>0. Cardinality(served) \in Nat
  BY ServedFact
<1>1. CASE Start
  BY <1>1 DEF Start
<1>2. CASE ReadCa
  BY <1>2 DEF ReadCa
<1>3. CASE ReadCaFails
  BY <1>0, <1>3 DEF ReadCaFails, Misread, Accident
<1>4. CASE Load
  BY <1>4 DEF Load
<1>5. CASE LoadFails
  BY <1>0, <1>5 DEF LoadFails, Misread, Accident
<1> QED
  BY <1>1, <1>2, <1>3, <1>4, <1>5

\* createPemFiles, one file after the other.
LEMMA CreateStep ==
  ASSUME StartInv, Generate \/ OpenCa \/ WriteCa \/ OpenKey \/ WriteKey
  PROVE  StartInv'
<1> USE DEF StartInv, StartTypeOK, FilesInv, FreshInv, BootInv, ServedInv, Loadable, Writing,
            Generation, fileVars
<1>1. CASE Generate
  BY <1>1 DEF Generate
<1>2. CASE OpenCa
  BY <1>2 DEF OpenCa
<1>3. CASE WriteCa
  BY <1>3 DEF WriteCa
<1>4. CASE OpenKey
  BY <1>4 DEF OpenKey
<1>5. CASE WriteKey
  BY <1>5 DEF WriteKey
<1> QED
  BY <1>1, <1>2, <1>3, <1>4, <1>5

\* The process ends where it stands; the files stay.
LEMMA EndStep == ASSUME StartInv, CreateFails \/ Crash \/ RulePanic PROVE StartInv'
<1> USE DEF StartInv, StartTypeOK, FilesInv, FreshInv, BootInv, ServedInv, Loadable, Writing,
            Generation, fileVars
<1>1. CASE CreateFails
  BY <1>1 DEF CreateFails, Accident, Ended
<1>2. CASE Crash
  BY <1>2 DEF Crash, Accident, Ended
<1>3. CASE RulePanic
  BY <1>3 DEF RulePanic, Ended
<1> QED
  BY <1>1, <1>2, <1>3

\* Serving requests leaves the certificate alone.
LEMMA StartNext == StartInv /\ [Next]_vars => StartInv'
<1> SUFFICES ASSUME StartInv, [Next]_vars PROVE StartInv'
  OBVIOUS
<1>1. CASE UNCHANGED startVars
  BY <1>1 DEF startVars, fileVars, StartInv, StartTypeOK, FilesInv, FreshInv, BootInv,
              ServedInv, Loadable
<1> QED
  BY <1>1, MainStep, LaunchStep, CreateStep, EndStep DEF Next, Serve, Die, StartStep, vars

\* The invariant of the start holds throughout.
THEOREM StartInvariance == Spec => []StartInv
<1>1. Init => StartInv
  BY StartInitInv DEF Init
<1> QED
  BY <1>1, StartNext, PTL DEF Spec

\* Whatever accidents came before, a process that serves has a pair that
\* belongs together, and serves that pair's certificate.
THEOREM ServesWhatItSigns == Spec => []ServesItsPair
<1>1. StartInv => ServesItsPair
  BY DEF StartInv, BootInv, ServesItsPair
<1> QED
  BY <1>1, StartInvariance, PTL

\* Through any crashes clients need to trust one certificate, and one more for
\* each start that could not read a good pair.
THEOREM TrustedOnce == Spec => []OneCa
<1>1. StartInv => OneCa
  <2> SUFFICES ASSUME StartInv PROVE OneCa
    OBVIOUS
  <2>1. Cardinality(served) \in Nat
    BY ServedFact DEF StartInv, StartTypeOK
  <2> QED
    BY <2>1 DEF StartInv, StartTypeOK, ServedInv, OneCa
<1> QED
  BY <1>1, StartInvariance, PTL

-----------------------------------------------------------------------------
(* The types.                                                              *)

\* The length of a function over an interval.
LEMMA LenFact ==
  ASSUME NEW n \in Nat, NEW f, DOMAIN f = 1..n
  PROVE  Len(f) = n
  OBVIOUS

\* Compiled rules are a sequence of entries that delay by a number.
LEMMA CompiledFact ==
  ASSUME NEW list \in Compiled
  PROVE  /\ Len(list) \in Nat /\ DOMAIN list = 1..Len(list)
         /\ \A i \in DOMAIN list : list[i].delay \in Nat
<1>1. CASE list = <<>>
  BY <1>1
<1>2. ASSUME NEW c \in Config, list = Compile(c)
      PROVE  /\ Len(list) \in Nat /\ DOMAIN list = 1..Len(list)
             /\ \A i \in DOMAIN list : list[i].delay \in Nat
  <2>1. Len(c) \in Nat /\ \A i \in 1..Len(c) : c[i].delay \in Nat
    <3>1. Len(c) \in Nat /\ \A i \in 1..Len(c) : c[i] \in EntryJSON
      BY ConfigAssumption
    <3> QED
      BY <3>1 DEF EntryJSON
  <2>2. DOMAIN list = 1..Len(c) /\ \A i \in 1..Len(c) : list[i].delay = c[i].delay
    BY <1>2 DEF Compile
  <2>3. Len(list) = Len(c)
    BY <2>1, <2>2, LenFact
  <2> QED
    BY <2>1, <2>2, <2>3
<1> QED
  BY <1>1, <1>2 DEF Compiled

\* Every step of the handler and of the API keeps the types.
LEMMA HandlerType == ASSUME HandlerTypeOK, Api \/ Handle PROVE HandlerTypeOK'
<1> USE DEF HandlerTypeOK
<1>0. /\ Len(mine) \in Nat /\ DOMAIN mine = 1..Len(mine)
      /\ \A i \in DOMAIN mine : mine[i].delay \in Nat
  BY CompiledFact
<1>1. CASE Api
  <2>1. rules' \in Compiled /\ reply' \in {"none", "200", "404"}
    BY <1>1 DEF Api, RulesClear, RulesSet, Compiled
  <2>2. UNCHANGED <<at, mine, next, asked, began, rq, got, rs>>
    BY <1>1 DEF Api, RulesClear, RulesSet
  <2> QED
    BY <2>1, <2>2
<1>2. ASSUME NEW q \in Request, Receive(q) PROVE HandlerTypeOK'
  <2>1. Len(mine') \in Nat
    BY <1>2, CompiledFact DEF Receive
  <2>2. rq'.sized \in BOOLEAN /\ UNCHANGED <<rules, reply, got, rs>>
    BY <1>2 DEF Receive, Incoming
  <2> QED
    BY <1>2, <2>1, <2>2 DEF Receive
<1>3. CASE AlterRequest
  <2>1. rq'.sized \in BOOLEAN
    BY <1>3 DEF AlterRequest, Unsized
  <2>2. next' \in 1..Len(mine) + 1
    BY <1>0, <1>3 DEF AlterRequest, InLoop
  <2>3. UNCHANGED <<rules, reply, at, mine, asked, got, rs>>
    BY <1>3 DEF AlterRequest
  <2> QED
    BY <2>1, <2>2, <2>3
<1>4. CASE AlterResponse
  <2>1. rs'.sized \in BOOLEAN
    BY <1>4 DEF AlterResponse, Unsized
  <2>2. next' \in 1..Len(mine) + 1
    BY <1>0, <1>4 DEF AlterResponse, InLoop
  <2>3. rs'.delay \in Nat
    <3>1. Entry.delay \in Nat
      BY <1>0, <1>4 DEF AlterResponse, InLoop, Entry
    <3>2. rs'.delay \in {Entry.delay, rs.delay}
      BY <1>4 DEF AlterResponse
    <3> QED
      BY <3>1, <3>2
  <2>4. UNCHANGED <<rules, reply, at, mine, asked, rq, got>>
    BY <1>4 DEF AlterResponse
  <2> QED
    BY <2>1, <2>2, <2>3, <2>4
<1>5. ASSUME NEW r \in Response, Answer(r) \/ SecondAnswer(r) PROVE HandlerTypeOK'
  <2>1. rs'.sized \in BOOLEAN /\ rs'.delay \in Nat
    <3>1. rs' = Arrived(r)
      BY <1>5 DEF Answer, SecondAnswer
    <3> QED
      BY <3>1 DEF Arrived
  <2>2. next' \in {1, next} /\ at' \in {"response", "deliver"} /\ got' \in Response
    BY <1>5 DEF Answer, SecondAnswer
  <2>3. UNCHANGED <<rules, reply, mine, asked, rq>>
    BY <1>5 DEF Answer, SecondAnswer
  <2> QED
    BY <1>0, <2>1, <2>2, <2>3
<1>6. CASE Skip
  <2>1. next' \in 1..Len(mine) + 1
    BY <1>0, <1>6 DEF Skip, InLoop
  <2> QED
    BY <1>6, <2>1 DEF Skip
<1>7. CASE RefuseUrl \/ RequestDone \/ NoAnswer \/ SecondFails \/ ResponseDone \/ Deliver
  BY <1>7 DEF RefuseUrl, RequestDone, NoAnswer, SecondFails, ResponseDone, Deliver
<1> QED
  BY <1>1, <1>2, <1>3, <1>4, <1>5, <1>6, <1>7 DEF Handle

\* The variables keep their types: the loops stay within the rules, and a
\* new pair is made at most once for the first start and once per accident.
THEOREM TypeCorrect == Spec => []TypeOK
<1>1. Init => HandlerTypeOK
  <2> SUFFICES ASSUME HandlerInit PROVE HandlerTypeOK
    BY DEF Init
  <2>1. rq.sized \in BOOLEAN /\ rs.sized \in BOOLEAN /\ rs.delay \in Nat
    BY DEF HandlerInit, Incoming, Arrived
  <2> QED
    BY <2>1 DEF HandlerInit, HandlerTypeOK, Compiled
<1>2. HandlerTypeOK /\ [Next]_vars => HandlerTypeOK'
  <2> SUFFICES ASSUME HandlerTypeOK, [Next]_vars PROVE HandlerTypeOK'
    OBVIOUS
  <2>1. CASE Forget
    BY <2>1 DEF Forget, HandlerTypeOK, Compiled
  <2>2. CASE UNCHANGED handlerVars
    BY <2>2 DEF handlerVars, HandlerTypeOK
  <2> QED
    BY <2>1, <2>2, HandlerType DEF Next, Serve, RulePanic, Die, vars
<1>3. StartInv => StartTypeOK
  BY DEF StartInv
<1> QED
  BY <1>1, <1>2, <1>3, StartInvariance, PTL DEF Spec, TypeOK

-----------------------------------------------------------------------------
(* The messages.                                                           *)

\* While a request is handled, its rules are those it found.
OwnRules == at # "idle" => mine = began

\* What the loops have done so far, entry by entry.
RequestInv ==
  at # "idle" =>
    /\ rq.url # asked.url => Entitled("request", "url")
    /\ rq.header # asked.header => Entitled("request", "header")
    /\ rq.body # asked.body => Entitled("request", "body") /\ ~rq.sized

ResponseInv ==
  at \in {"response", "deliver"} =>
    /\ rs.status.line # got.line => Entitled("response", "status")
    /\ rs.status.code = rs.status.line[1]
    /\ rs.header # got.header => Entitled("response", "header")
    /\ rs.body # got.body => Entitled("response", "body") /\ ~rs.sized

MessageInv == OwnRules /\ RequestInv /\ ResponseInv

\* A part without rules is not touched.
LEMMA NoRules ==
  /\ \A text : applyRules(text, <<>>) = text
  /\ \A header, new : new \in AlterHeader(header, <<>>) => new = header
  /\ \A st : AlterStatus(st, <<>>).line = st.line
  BY DEF applyRules, AlterHeader, AlterStatus

\* Any chain of rules leaves a status line that agrees with its code.
LEMMA StatusFact ==
  ASSUME NEW st, NEW list, st.code = st.line[1]
  PROVE  AlterStatus(st, list).code = AlterStatus(st, list).line[1]
<1> DEFINE line == applyRules(st.line, list)
<1>1. CASE line # <<>> /\ line[1] \in Number
  <2>1. AlterStatus(st, list) = [line |-> line, code |-> line[1]]
    BY <1>1 DEF AlterStatus
  <2> HIDE DEF line
  <2> QED
    BY <2>1
<1>2. CASE ~(line # <<>> /\ line[1] \in Number)
  <2>1. AlterStatus(st, list) = st
    BY <1>2 DEF AlterStatus
  <2> QED
    BY <2>1
<1> QED
  BY <1>1, <1>2

\* One pass of the loop over the request.
LEMMA RequestStep == ASSUME MessageInv, AlterRequest PROVE MessageInv'
<1> DEFINE list == Entry.request
<1>1. /\ mine = began /\ next \in DOMAIN began /\ Matches(began[next], asked.url)
      /\ list = began[next].request
  BY DEF AlterRequest, InLoop, Chosen, Entry, MessageInv, OwnRules
<1>2. \A part : list[part] # <<>> => Entitled("request", part)
  BY <1>1 DEF Entitled
<1>3. PICK header \in AlterHeader(rq.header, list.header) :
        rq' = [url    |-> NewUrl,
               header |-> header,
               body   |-> applyRules(rq.body, list.body),
               sized  |-> Unsized(rq.sized, list.body)]
  BY DEF AlterRequest
<1>4. list.url = <<>> => rq'.url = rq.url
  BY <1>3, NoRules DEF NewUrl
<1>5. list.header = <<>> => rq'.header = rq.header
  BY <1>3, NoRules
<1>6. list.body = <<>> => rq'.body = rq.body
  BY <1>3, NoRules
<1>7. rq'.sized => rq.sized /\ list.body = <<>>
  BY <1>3 DEF Unsized
<1>8. RequestInv'
  <2>1. at = "request" /\ UNCHANGED <<at, began, asked>>
    BY DEF AlterRequest
  <2>2. \A part : Entitled("request", part) => Entitled("request", part)'
    BY <2>1 DEF Entitled
  <2> HIDE DEF list
  <2>3. /\ rq'.url # asked.url => Entitled("request", "url")
        /\ rq'.header # asked.header => Entitled("request", "header")
        /\ rq'.body # asked.body => Entitled("request", "body") /\ ~rq'.sized
    BY <1>2, <1>4, <1>5, <1>6, <1>7, <2>1 DEF MessageInv, RequestInv
  <2> QED
    BY <2>1, <2>2, <2>3 DEF RequestInv
<1>9. OwnRules' /\ ResponseInv'
  BY DEF AlterRequest, MessageInv, OwnRules, ResponseInv
<1> QED
  BY <1>8, <1>9 DEF MessageInv

\* One pass of the loop over the response.
LEMMA ResponseStep == ASSUME MessageInv, AlterResponse PROVE MessageInv'
<1> DEFINE list == Entry.response
<1>1. /\ mine = began /\ next \in DOMAIN began /\ Matches(began[next], asked.url)
      /\ list = began[next].response
  BY DEF AlterResponse, InLoop, Chosen, Entry, MessageInv, OwnRules
<1>2. \A part : list[part] # <<>> => Entitled("response", part)
  BY <1>1 DEF Entitled
<1>3. PICK header \in AlterHeader(rs.header, list.header) :
        rs' = [header |-> header,
               status |-> AlterStatus(rs.status, list.status),
               body   |-> applyRules(rs.body, list.body),
               sized  |-> Unsized(rs.sized, list.body),
               delay  |-> IF Entry.delay > rs.delay THEN Entry.delay ELSE rs.delay]
  BY DEF AlterResponse
<1>4. list.status = <<>> => rs'.status.line = rs.status.line
  BY <1>3, NoRules
<1>5. list.header = <<>> => rs'.header = rs.header
  BY <1>3, NoRules
<1>6. list.body = <<>> => rs'.body = rs.body
  BY <1>3, NoRules
<1>7. rs'.sized => rs.sized /\ list.body = <<>>
  BY <1>3 DEF Unsized
<1>8. rs'.status.code = rs'.status.line[1]
  <2>1. rs.status.code = rs.status.line[1]
    BY DEF AlterResponse, InLoop, MessageInv, ResponseInv
  <2> QED
    BY <1>3, <2>1, StatusFact
<1>9. ResponseInv'
  <2>1. at = "response" /\ UNCHANGED <<at, began, asked, got>>
    BY DEF AlterResponse
  <2>2. \A part : Entitled("response", part) => Entitled("response", part)'
    BY <2>1 DEF Entitled
  <2> HIDE DEF list
  <2>3. /\ rs'.status.line # got.line => Entitled("response", "status")
        /\ rs'.header # got.header => Entitled("response", "header")
        /\ rs'.body # got.body => Entitled("response", "body") /\ ~rs'.sized
    BY <1>2, <1>4, <1>5, <1>6, <1>7, <2>1 DEF MessageInv, ResponseInv
  <2> QED
    BY <1>8, <2>1, <2>2, <2>3 DEF ResponseInv
<1>10. OwnRules' /\ RequestInv'
  BY DEF AlterResponse, MessageInv, OwnRules, RequestInv, Entitled
<1> QED
  BY <1>9, <1>10 DEF MessageInv

\* A message that has just come in is what its sender sent.
LEMMA ArrivalStep ==
  ASSUME MessageInv,
         \/ \E q \in Request : Receive(q)
         \/ \E r \in Response : Answer(r) \/ SecondAnswer(r)
  PROVE  MessageInv'
<1>1. ASSUME NEW q \in Request, Receive(q) PROVE MessageInv'
  BY <1>1 DEF Receive, Incoming, MessageInv, OwnRules, RequestInv, ResponseInv
<1>2. ASSUME NEW r \in Response, Answer(r) \/ SecondAnswer(r) PROVE MessageInv'
  <2>1. /\ rs'.status.line = got'.line /\ rs'.status.code = got'.line[1]
        /\ rs'.header = got'.header /\ rs'.body = got'.body
    BY <1>2 DEF Answer, SecondAnswer, Arrived
  <2>2. at \in {"wire", "second"} /\ UNCHANGED <<mine, began, asked, rq>>
    BY <1>2 DEF Answer, SecondAnswer
  <2> QED
    BY <2>1, <2>2 DEF MessageInv, OwnRules, RequestInv, ResponseInv, Entitled
<1> QED
  BY <1>1, <1>2

\* The rules of the address may change at any time; no message does, outside
\* of the two loops.
LEMMA MessageNext == MessageInv /\ [Next]_vars => MessageInv'
<1> SUFFICES ASSUME MessageInv, [Next]_vars PROVE MessageInv'
  OBVIOUS
<1> DEFINE Still == UNCHANGED <<mine, began, asked, rq, got, rs>>
<1>1. ASSUME Still, at' \in {at, "idle"} PROVE MessageInv'
  BY <1>1 DEF MessageInv, OwnRules, RequestInv, ResponseInv, Entitled
<1>2. ASSUME Still, at # "idle", at' \in {"wire", "second"} PROVE MessageInv'
  BY <1>2 DEF MessageInv, OwnRules, RequestInv, ResponseInv, Entitled
<1>3. CASE ResponseDone
  BY <1>3 DEF ResponseDone, MessageInv, OwnRules, RequestInv, ResponseInv, Entitled
<1>4. CASE Api \/ UNCHANGED handlerVars
  BY <1>1, <1>4 DEF Api, RulesClear, RulesSet, handlerVars
<1>5. CASE Skip \/ RefuseUrl \/ SecondFails \/ Deliver
  BY <1>1, <1>5 DEF Skip, RefuseUrl, SecondFails, Deliver
<1>6. CASE RequestDone \/ NoAnswer
  BY <1>2, <1>6 DEF RequestDone, NoAnswer
<1>7. CASE Forget
  BY <1>7 DEF Forget, MessageInv, OwnRules, RequestInv, ResponseInv
<1> QED
  BY <1>3, <1>4, <1>5, <1>6, <1>7, RequestStep, ResponseStep, ArrivalStep
     DEF Next, Serve, Handle, RulePanic, Die, vars

\* The invariant of the messages holds throughout.
THEOREM MessageInvariance == Spec => []MessageInv
<1>1. Init => MessageInv
  BY DEF Init, HandlerInit, MessageInv, OwnRules, RequestInv, ResponseInv
<1> QED
  BY <1>1, MessageNext, PTL DEF Spec

\* Only entries in force on arrival, whose pattern is in the URL the client
\* sent, change a message, and only the parts they have rules for.
THEOREM NoOtherRules == Spec => []OnlyMatchingRules
<1>1. MessageInv => OnlyMatchingRules
  BY DEF MessageInv, RequestInv, ResponseInv, OnlyMatchingRules, Sent, Complete
<1> QED
  BY <1>1, MessageInvariance, PTL

\* A response is sent with the code that its status line shows.
THEOREM CodeIsOfItsLine == Spec => []StatusAgrees
<1>1. MessageInv => StatusAgrees
  BY DEF MessageInv, ResponseInv, StatusAgrees, Complete
<1> QED
  BY <1>1, MessageInvariance, PTL

\* A length announced with a message is that of its body.
THEOREM NoFalseLength == Spec => []LengthTrue
<1>1. MessageInv => LengthTrue
  BY DEF MessageInv, RequestInv, ResponseInv, LengthTrue, Sent, Complete
<1> QED
  BY <1>1, MessageInvariance, PTL

-----------------------------------------------------------------------------
(* Header lines.                                                           *)

\* line is in str, between two line breaks.
Holds(str, line) ==
  \E a, b \in Text :
    str = Cat(a, Cat(One(NewLine), Cat(line, Cat(One(NewLine), b))))

LEMMA LineFact ==
  ASSUME NEW line \in Line
  PROVE  /\ line \in Text /\ line # <<>>
         /\ \A i \in 1..Len(line) : line[i] # NewLine
         /\ One(NewLine) \in Text
<1>1. line \in Seq(Symbol \ {NewLine}) /\ line # <<>>
  BY DEF Line
<1>2. line \in Seq(Symbol)
  BY <1>1, SeqMonotonic
<1>3. \A i \in 1..Len(line) : line[i] \in Symbol \ {NewLine}
  BY <1>1
<1>4. One(NewLine) \in Seq(Symbol)
  BY NewLineAssumption, CatFacts
<1> QED
  BY <1>1, <1>2, <1>3, <1>4 DEF Text

\* It stays there when the text grows at its ends.
LEMMA HoldsExtended ==
  ASSUME NEW str \in Text, NEW line \in Line, Holds(str, line),
         NEW pre \in Text, NEW post \in Text
  PROVE  Holds(Cat(pre, Cat(str, post)), line)
<1> DEFINE nl == One(NewLine)
<1>1. PICK a, b \in Text : str = Cat(a, Cat(nl, Cat(line, Cat(nl, b))))
  BY DEF Holds
<1>2. line \in Text /\ nl \in Text
  BY LineFact
<1> HIDE DEF nl
<1>3. /\ Cat(nl, b) \in Text /\ Cat(nl, Cat(b, post)) = Cat(Cat(nl, b), post)
      /\ Cat(b, post) \in Text
  BY <1>2, CatFacts DEF Text
<1>4. /\ Cat(line, Cat(nl, b)) \in Text
      /\ Cat(line, Cat(Cat(nl, b), post)) = Cat(Cat(line, Cat(nl, b)), post)
  BY <1>2, <1>3, CatFacts DEF Text
<1>5. /\ Cat(nl, Cat(line, Cat(nl, b))) \in Text
      /\ Cat(nl, Cat(Cat(line, Cat(nl, b)), post)) = Cat(Cat(nl, Cat(line, Cat(nl, b))), post)
  BY <1>2, <1>4, CatFacts DEF Text
<1>6. Cat(a, Cat(Cat(nl, Cat(line, Cat(nl, b))), post)) = Cat(str, post)
  BY <1>1, <1>5, CatFacts DEF Text
<1>7. /\ Cat(pre, a) \in Text
      /\ Cat(Cat(pre, a), Cat(Cat(nl, Cat(line, Cat(nl, b))), post)) = Cat(pre, Cat(str, post))
  <2> DEFINE c == Cat(Cat(nl, Cat(line, Cat(nl, b))), post)
  <2>1. c \in Text
    BY <1>5, CatFacts DEF Text
  <2> HIDE DEF c
  <2>2. Cat(Cat(pre, a), c) = Cat(pre, Cat(a, c)) /\ Cat(pre, a) \in Text
    BY <2>1, CatGroup DEF Text
  <2> QED
    BY <1>6, <2>2 DEF c
<1>8. Cat(pre, Cat(str, post)) = Cat(Cat(pre, a), Cat(nl, Cat(line, Cat(nl, Cat(b, post)))))
  BY <1>3, <1>4, <1>5, <1>7
<1> QED
  BY <1>3, <1>7, <1>8 DEF Holds, nl

\* stringToHeader finds it.
LEMMA LineFound ==
  ASSUME NEW str \in Text, NEW line \in Line, Holds(str, line)
  PROVE  line \in stringToHeader(str)
<1>1. PICK a, b \in Text :
        str = Cat(a, Cat(One(NewLine), Cat(line, Cat(One(NewLine), b))))
  BY DEF Holds
<1> DEFINE i == Len(a) + 2
           k == Len(a) + 1 + Len(line)
<1>2. /\ line \in Seq(Symbol) /\ line # <<>> /\ a \in Seq(Symbol) /\ b \in Seq(Symbol)
      /\ NewLine \in Symbol /\ \A j \in 1..Len(line) : line[j] # NewLine
  BY NewLineAssumption, LineFact DEF Text
<1>3. str = a \o (<<NewLine>> \o (line \o (<<NewLine>> \o b)))
  BY <1>1 DEF Cat, One
<1>4. /\ Len(a) \in Nat /\ Len(b) \in Nat /\ Len(line) \in Nat \ {0}
      /\ Len(str) = Len(a) + Len(line) + Len(b) + 2
  BY <1>2, <1>3
<1>5. str[i - 1] = NewLine
  BY <1>2, <1>3, <1>4
<1>6. str[k + 1] = NewLine
  BY <1>2, <1>3, <1>4
<1>7. \A j \in 1..Len(line) : str[Len(a) + 1 + j] = line[j]
  BY <1>2, <1>3, <1>4
<1>8. i \in 1..Len(str) /\ k \in 1..Len(str) /\ i <= k
  BY <1>4
<1>9. \A m \in i..k : str[m] # NewLine
  <2> SUFFICES ASSUME NEW m \in i..k PROVE str[m] # NewLine
    OBVIOUS
  <2>1. m - (Len(a) + 1) \in 1..Len(line) /\ m = Len(a) + 1 + (m - (Len(a) + 1))
    BY <1>4
  <2> QED
    BY <1>2, <1>7, <2>1
<1>10. SubSeq(str, i, k) = line
  <2>1. str \in Seq(Symbol) /\ Len(SubSeq(str, i, k)) = Len(line)
    BY <1>4, <1>8 DEF Text
  <2>2. \A j \in 1..Len(line) : SubSeq(str, i, k)[j] = str[Len(a) + 1 + j]
    BY <1>4, <1>8, <2>1
  <2>3. SubSeq(str, i, k) \in Seq(Symbol)
    BY <1>8, <2>1
  <2> QED
    BY <1>2, <1>7, <2>1, <2>2, <2>3
<1> HIDE DEF i, k
<1>11. SubSeq(str, <<i, k>>[1], <<i, k>>[2]) = line /\ <<i, k>> \in (1..Len(str)) \X (1..Len(str))
  BY <1>8, <1>10
<1> QED
  BY <1>5, <1>6, <1>8, <1>9, <1>11 DEF stringToHeader

\* Whatever a text is, it gives finitely many lines.
LEMMA ParsedHeader ==
  ASSUME NEW str \in Text
  PROVE  IsFiniteSet(stringToHeader(str)) /\ stringToHeader(str) \subseteq Line
<1> DEFINE isLine(i, k) == /\ \A m \in i..k : str[m] # NewLine
                           /\ i = 1 \/ str[i - 1] = NewLine
                           /\ k = Len(str) \/ str[k + 1] = NewLine
           all == (1..Len(str)) \X (1..Len(str))
           spans == {span \in all : span[1] <= span[2] /\ isLine(span[1], span[2])}
           cut == [span \in spans |-> SubSeq(str, span[1], span[2])]
<1>1. stringToHeader(str) = {SubSeq(str, span[1], span[2]) : span \in spans}
  BY DEF stringToHeader
<1>2. str \in Seq(Symbol) /\ Len(str) \in Nat
  BY DEF Text
<1>3. IsFiniteSet(spans)
  <2>1. IsFiniteSet(1..Len(str))
    BY <1>2, FS_Interval
  <2>2. IsFiniteSet(all)
    BY <2>1, FS_Product
  <2>3. spans \in SUBSET all
    OBVIOUS
  <2> HIDE DEF all, spans
  <2> QED
    BY <2>2, <2>3, FS_Subset
<1>4. cut \in Surjection(spans, stringToHeader(str))
  BY <1>1 DEF Surjection
<1>5. ASSUME NEW span \in spans PROVE SubSeq(str, span[1], span[2]) \in Line
  <2>1. PICK i, k \in 1..Len(str) : i = span[1] /\ k = span[2]
    OBVIOUS
  <2>2. i <= k /\ \A m \in i..k : str[m] # NewLine
    BY <2>1
  <2> HIDE DEF spans
  <2>3. \A j \in 1..k - i + 1 : str[i + j - 1] \in Symbol \ {NewLine}
    BY <1>2, <2>2
  <2>4. SubSeq(str, i, k) = [j \in 1..k - i + 1 |-> str[i + j - 1]] /\ k - i + 1 \in Nat \ {0}
    BY <1>2, <2>2
  <2>5. SubSeq(str, i, k) \in Seq(Symbol \ {NewLine}) /\ SubSeq(str, i, k) # <<>>
    BY <2>3, <2>4
  <2> QED
    BY <2>1, <2>5 DEF Line
<1> HIDE DEF cut, spans
<1>6. IsFiniteSet(stringToHeader(str))
  BY <1>3, <1>4, FS_Surjection
<1> QED
  BY <1>1, <1>5, <1>6

\* Go's iteration over a map visits each line.
LEMMA OrderFact ==
  ASSUME NEW header, IsFiniteSet(header), header \subseteq Line, NEW order \in Orders(header)
  PROVE  /\ order \in Seq(Line) /\ \A line \in header : \E i \in 1..Len(order) : order[i] = line
<1> DEFINE n == Cardinality(header)
<1>1. n \in Nat
  BY FS_CardinalityType
<1>2. order \in [1..n -> header] /\ \A i, k \in 1..n : order[i] = order[k] => i = k
  BY DEF Orders
<1>3. order \in Injection(1..n, header)
  BY <1>2 DEF Injection, IsInjective
<1>4. Cardinality(1..n) = n /\ IsFiniteSet(1..n)
  BY <1>1, FS_Interval
<1>5. order \in Surjection(1..n, header)
  BY <1>3, <1>4, FS_Injection
<1> HIDE DEF n
<1>6. order \in Seq(Line) /\ Len(order) = n
  BY <1>1, <1>2
<1> QED
  BY <1>5, <1>6 DEF Surjection

\* The equation of headerToString's loop, for its first n passes.
Strings(g, n, order) ==
  g = [i \in 0..n |-> IF i = 0 THEN <<NewLine>> ELSE g[i - 1] \o order[i] \o <<NewLine>>]

LEMMA StringsExist == ASSUME NEW order PROVE \A n \in Nat : \E g : Strings(g, n, order)
<1> DEFINE T == {n \in Nat : \E g : Strings(g, n, order)}
<1>1. ASSUME NEW n \in Nat, \A m \in 0..(n - 1) : m \in T PROVE n \in T
  <2>1. CASE n = 0
    <3>1. Strings([i \in 0..0 |-> <<NewLine>>], 0, order)
      BY DEF Strings
    <3> QED
      BY <2>1, <3>1
  <2>2. CASE n # 0
    <3>1. PICK g : Strings(g, n - 1, order)
      BY <1>1, <2>2
    <3> DEFINE last == g[n - 1] \o order[n] \o <<NewLine>>
               h == [i \in 0..n |-> IF i = n THEN last ELSE g[i]]
    <3>2. ASSUME NEW i \in 0..n
          PROVE  h[i] = IF i = 0 THEN <<NewLine>> ELSE h[i - 1] \o order[i] \o <<NewLine>>
      <4>1. CASE i = n
        <5>1. n \in 0..n /\ n - 1 \in 0..n /\ n - 1 # n
          BY <2>2
        <5> HIDE DEF last
        <5>2. h[n] = last /\ h[n - 1] = g[n - 1]
          BY <5>1
        <5> HIDE DEF h
        <5>3. h[n] = h[n - 1] \o order[n] \o <<NewLine>>
          BY <5>2 DEF last
        <5> QED
          BY <2>2, <4>1, <5>3
      <4>2. CASE i # n
        <5>1. i \in 0..n - 1 /\ h[i] = g[i] /\ (i # 0 => i - 1 \in 0..n /\ i - 1 # n)
          BY <4>2
        <5>2. i # 0 => h[i - 1] = g[i - 1]
          BY <5>1
        <5>3. g[i] = IF i = 0 THEN <<NewLine>> ELSE g[i - 1] \o order[i] \o <<NewLine>>
          BY <3>1, <5>1 DEF Strings
        <5> HIDE DEF h
        <5> QED
          BY <5>1, <5>2, <5>3
      <4> QED
        BY <4>1, <4>2
    <3>3. Strings(h, n, order)
      BY <3>2 DEF Strings
    <3> HIDE DEF h
    <3> QED
      BY <3>3
  <2> QED
    BY <2>1, <2>2
<1> HIDE DEF T
<1>2. \A n \in Nat : n \in T
  BY <1>1, NatSetInduction
<1> QED
  BY <1>2 DEF T

\* In the string of a header each of its lines stands between line breaks.
LEMMA HeaderString ==
  ASSUME NEW order \in Seq(Line)
  PROVE  /\ headerToString(order) \in Text
         /\ \A j \in 1..Len(order) : Holds(headerToString(order), order[j])
<1> DEFINE n == Len(order)
           nl == One(NewLine)
<1>1. n \in Nat /\ nl \in Text /\ NewLine \in Symbol
  BY NewLineAssumption, CatFacts DEF Text
<1>2. CASE order = <<>>
  <2>1. headerToString(order) = <<NewLine, NewLine>> /\ n = 0
    BY <1>2 DEF headerToString
  <2>2. headerToString(order) \in Text
    BY <1>1, <2>1 DEF Text
  <2> QED
    BY <2>1, <2>2
<1>3. CASE order # <<>>
  <2> DEFINE str == CHOOSE g : Strings(g, n, order)
  <2>1. headerToString(order) = str[n]
    BY <1>3 DEF headerToString, Strings
  <2>2. Strings(str, n, order)
    BY <1>1, StringsExist
  <2> HIDE DEF str
  <2>3. /\ str[0] = nl
        /\ \A i \in 1..n : str[i] = Cat(Cat(str[i - 1], order[i]), nl)
    <3>1. 0 \in 0..n /\ \A i \in 1..n : i \in 0..n /\ i # 0
      BY <1>1
    <3> HIDE DEF n
    <3>2. str[0] = <<NewLine>>
      BY <2>2, <3>1 DEF Strings
    <3>3. ASSUME NEW i \in 1..n PROVE str[i] = (str[i - 1] \o order[i]) \o <<NewLine>>
      BY <2>2, <3>1 DEF Strings
    <3> QED
      BY <3>2, <3>3 DEF Cat, One
  <2> DEFINE Good(i) == /\ \E c \in Text : str[i] = Cat(c, nl)
                        /\ \A j \in 1..i : Holds(str[i], order[j])
             T == {i \in Nat : i <= n => Good(i)}
  <2>4. ASSUME NEW i \in Nat, \A m \in 0..(i - 1) : m \in T, i <= n PROVE Good(i)
    <3> HIDE DEF nl
    <3>1. CASE i = 0
      <4>1. <<>> \in Text /\ Cat(<<>>, nl) = nl
        BY <1>1, CatFacts DEF Text
      <4> QED
        BY <2>3, <3>1, <4>1
    <3>2. CASE i # 0
      <4>1. i - 1 \in 0..(i - 1) /\ i - 1 <= n /\ i \in 1..n
        BY <1>1, <2>4, <3>2
      <4>2. Good(i - 1)
        BY <2>4, <4>1
      <4>3. PICK c \in Text : str[i - 1] = Cat(c, nl)
        BY <4>2
      <4> DEFINE line == order[i]
      <4>4. line \in Line /\ line \in Text
        <5>1. line \in Line
          BY <4>1
        <5> QED
          BY <5>1, LineFact
      <4> HIDE DEF line, Good
      <4> DEFINE prior == str[i - 1]
      <4>5. prior \in Text /\ Cat(prior, line) \in Text /\ Cat(line, nl) \in Text
        BY <1>1, <4>3, <4>4, CatFacts DEF Text
      <4>6. str[i] = Cat(Cat(prior, line), nl) /\ prior = Cat(c, nl)
        BY <2>3, <4>1, <4>3 DEF line
      <4> HIDE DEF prior
      <4>7. str[i] = Cat(prior, Cat(line, nl))
        BY <1>1, <4>4, <4>5, <4>6, CatGroup DEF Text
      <4>8. Holds(str[i], line)
        <5>1. <<>> \in Text /\ Cat(nl, <<>>) = nl
          BY <1>1, CatFacts DEF Text
        <5>2. Cat(Cat(c, nl), Cat(line, nl)) = Cat(c, Cat(nl, Cat(line, nl)))
          BY <1>1, <4>5, CatGroup DEF Text
        <5>3. str[i] = Cat(c, Cat(nl, Cat(line, Cat(nl, <<>>))))
          BY <4>6, <4>7, <5>1, <5>2
        <5> QED
          BY <5>1, <5>3 DEF Holds, nl
      <4>9. ASSUME NEW j \in 1..(i - 1) PROVE Holds(str[i], order[j])
        <5>1. Holds(prior, order[j])
          BY <4>2 DEF Good, prior
        <5>2. order[j] \in Line
          BY <4>1
        <5>3. <<>> \in Text
          BY CatFacts DEF Text
        <5>4. Holds(Cat(<<>>, Cat(prior, Cat(line, nl))), order[j])
          BY <4>5, <5>1, <5>2, <5>3, HoldsExtended
        <5>5. Cat(prior, Cat(line, nl)) \in Text
          BY <4>5, CatFacts DEF Text
        <5>6. Cat(<<>>, Cat(prior, Cat(line, nl))) = Cat(prior, Cat(line, nl))
          BY <5>5, CatFacts DEF Text
        <5> QED
          BY <4>7, <5>4, <5>6
      <4>10. ASSUME NEW j \in 1..i PROVE Holds(str[i], order[j])
        <5>1. j = i \/ j \in 1..(i - 1)
          OBVIOUS
        <5> QED
          BY <4>8, <4>9, <5>1 DEF line
      <4> QED
        BY <4>5, <4>6, <4>10 DEF Good
    <3> QED
      BY <3>1, <3>2
  <2>5. n \in T
    <3> HIDE DEF Good
    <3>1. ASSUME NEW i \in Nat, \A m \in 0..(i - 1) : m \in T PROVE i \in T
      BY <2>4, <3>1
    <3> HIDE DEF T
    <3> QED
      BY <1>1, <3>1, NatSetInduction
  <2>6. Good(n)
    BY <1>1, <2>5
  <2>7. str[n] \in Text
    BY <1>1, <2>6, CatFacts DEF Text
  <2> QED
    BY <2>1, <2>6, <2>7
<1> QED
  BY <1>2, <1>3

\* A compiled rule.
Rule == [find : Optional, replace : Optional, prepend : Optional, append : Optional]

\* A rule that replaces nothing adds at the ends.
LEMMA AddingRule ==
  ASSUME NEW rule \in Rule, rule.replace = Nil, NEW text \in Text
  PROVE  \E pre, post \in Text : applyRule(text, rule) = Cat(pre, Cat(text, post))
<1>1. /\ rule.prepend # Nil => rule.prepend \in Text
      /\ rule.append # Nil => rule.append \in Text
  BY DEF Rule, Optional
<1>2. \A t \in Text : Cat(t, <<>>) = t /\ Cat(<<>>, t) = t /\ <<>> \in Text
  BY CatFacts DEF Text
<1>3. \A t \in Text : Cat(text, t) \in Text
  BY CatFacts DEF Text
<1>4. CASE rule.prepend # Nil
  <2>1. applyRule(text, rule) = Cat(rule.prepend, text)
    BY <1>4 DEF applyRule, Cat
  <2> QED
    BY <1>1, <1>2, <1>4, <2>1
<1>5. CASE rule.prepend = Nil /\ rule.append # Nil
  <2>1. applyRule(text, rule) = Cat(text, rule.append)
    BY <1>5 DEF applyRule, Cat
  <2> QED
    BY <1>1, <1>2, <1>3, <1>5, <2>1
<1>6. CASE rule.prepend = Nil /\ rule.append = Nil
  <2>1. applyRule(text, rule) = text
    BY <1>6 DEF applyRule
  <2> QED
    BY <1>2, <2>1
<1> QED
  BY <1>4, <1>5, <1>6

\* The equation of the loop over the rules, for its first n passes.
Passes(g, n, text, list) ==
  g = [i \in 0..n |-> IF i = 0 THEN text ELSE applyRule(g[i - 1], list[i])]

LEMMA PassesExist ==
  ASSUME NEW text, NEW list
  PROVE  \A n \in Nat : \E g : Passes(g, n, text, list)
<1> DEFINE T == {n \in Nat : \E g : Passes(g, n, text, list)}
<1>1. ASSUME NEW n \in Nat, \A m \in 0..(n - 1) : m \in T PROVE n \in T
  <2>1. CASE n = 0
    <3>1. Passes([i \in 0..0 |-> text], 0, text, list)
      BY DEF Passes
    <3> QED
      BY <2>1, <3>1
  <2>2. CASE n # 0
    <3>1. PICK g : Passes(g, n - 1, text, list)
      BY <1>1, <2>2
    <3> DEFINE h == [i \in 0..n |-> IF i = n THEN applyRule(g[n - 1], list[n]) ELSE g[i]]
    <3>2. ASSUME NEW i \in 0..n
          PROVE  h[i] = IF i = 0 THEN text ELSE applyRule(h[i - 1], list[i])
      <4>1. CASE i = n
        <5>1. n \in 0..n /\ n - 1 \in 0..n /\ n - 1 # n
          BY <2>2
        <5>2. h[n] = applyRule(g[n - 1], list[n]) /\ h[n - 1] = g[n - 1]
          BY <5>1
        <5> HIDE DEF h
        <5> QED
          BY <2>2, <4>1, <5>2
      <4>2. CASE i # n
        <5>1. i \in 0..n - 1 /\ h[i] = g[i] /\ (i # 0 => i - 1 \in 0..n /\ i - 1 # n)
          BY <4>2
        <5>2. i # 0 => h[i - 1] = g[i - 1]
          BY <5>1
        <5>3. g[i] = IF i = 0 THEN text ELSE applyRule(g[i - 1], list[i])
          BY <3>1, <5>1 DEF Passes
        <5> HIDE DEF h
        <5> QED
          BY <5>1, <5>2, <5>3
      <4> QED
        BY <4>1, <4>2
    <3>3. Passes(h, n, text, list)
      BY <3>2 DEF Passes
    <3> HIDE DEF h
    <3> QED
      BY <3>3
  <2> QED
    BY <2>1, <2>2
<1> HIDE DEF T
<1>2. \A n \in Nat : n \in T
  BY <1>1, NatSetInduction
<1> QED
  BY <1>2 DEF T

\* And so do any number of such rules, one after the other.
LEMMA AddingRules ==
  ASSUME NEW list \in Seq(Rule), \A k \in 1..Len(list) : list[k].replace = Nil,
         NEW text \in Text
  PROVE  \E pre, post \in Text : applyRules(text, list) = Cat(pre, Cat(text, post))
<1> DEFINE n == Len(list)
           Adds(t) == \E pre, post \in Text : t = Cat(pre, Cat(text, post))
<1>1. n \in Nat
  OBVIOUS
<1>2. Adds(text)
  <2>1. <<>> \in Text /\ text = Cat(<<>>, Cat(text, <<>>))
    BY CatFacts DEF Text
  <2> QED
    BY <2>1
<1>3. ASSUME NEW t, Adds(t), NEW k \in 1..n PROVE Adds(applyRule(t, list[k]))
  <2>1. PICK a, b \in Text : t = Cat(a, Cat(text, b))
    BY <1>3
  <2>2. t \in Text /\ Cat(text, b) \in Text
    BY <2>1, CatFacts DEF Text
  <2>3. list[k] \in Rule /\ list[k].replace = Nil
    OBVIOUS
  <2>4. PICK c, d \in Text : applyRule(t, list[k]) = Cat(c, Cat(t, d))
    BY <2>2, <2>3, AddingRule
  <2>5. Cat(Cat(text, b), d) = Cat(text, Cat(b, d)) /\ Cat(b, d) \in Text /\ Cat(c, a) \in Text
    BY CatGroup, CatFacts DEF Text
  <2>6. Cat(Cat(a, Cat(text, b)), d) = Cat(a, Cat(Cat(text, b), d))
    BY <2>2, CatGroup DEF Text
  <2>7. Cat(Cat(c, a), Cat(text, Cat(b, d))) = Cat(c, Cat(a, Cat(text, Cat(b, d))))
    <3>1. Cat(text, Cat(b, d)) \in Text
      BY <2>5, CatFacts DEF Text
    <3> QED
      BY <3>1, CatGroup DEF Text
  <2>8. applyRule(t, list[k]) = Cat(Cat(c, a), Cat(text, Cat(b, d)))
    BY <2>1, <2>4, <2>5, <2>6, <2>7
  <2> QED
    BY <2>5, <2>8
<1>4. CASE list = <<>>
  BY <1>2, <1>4 DEF applyRules
<1>5. CASE list # <<>>
  <2> DEFINE after == CHOOSE g : Passes(g, n, text, list)
             T == {i \in Nat : i <= n => Adds(after[i])}
  <2>1. applyRules(text, list) = after[n]
    BY <1>5 DEF applyRules, Passes
  <2>2. Passes(after, n, text, list)
    BY <1>1, PassesExist
  <2> HIDE DEF after, Adds
  <2>3. ASSUME NEW i \in Nat, \A m \in 0..(i - 1) : m \in T PROVE i \in T
    <3>1. CASE i = 0
      <4>1. after[0] = text
        BY <1>1, <2>2 DEF Passes
      <4> QED
        BY <1>2, <3>1, <4>1
    <3>2. CASE i # 0 /\ i <= n
      <4>1. i - 1 \in 0..(i - 1) /\ i - 1 <= n /\ i \in 1..n /\ i \in 0..n
        BY <1>1, <3>2
      <4>2. Adds(after[i - 1])
        BY <2>3, <4>1
      <4>3. after[i] = applyRule(after[i - 1], list[i])
        BY <2>2, <3>2, <4>1 DEF Passes
      <4>4. Adds(after[i])
        BY <1>3, <4>1, <4>2, <4>3
      <4> QED
        BY <4>4
    <3> QED
      BY <3>1, <3>2
  <2>4. n \in T
    <3> HIDE DEF T
    <3> QED
      BY <1>1, <2>3, NatSetInduction
  <2> QED
    BY <1>1, <2>1, <2>4 DEF Adds
<1> QED
  BY <1>4, <1>5

\* What a compiled configuration holds.
LEMMA CompiledHeader ==
  ASSUME NEW list \in Compiled, NEW i \in DOMAIN list, NEW side \in Side
  PROVE  list[i][side].header \in Seq(Rule)
<1>1. PICK c \in Config : list = Compile(c)
  BY DEF Compiled
<1>2. i \in 1..Len(c) /\ c[i] \in EntryJSON
  <2>1. i \in 1..Len(c)
    BY <1>1 DEF Compile
  <2> QED
    BY <2>1, ConfigAssumption
<1> DEFINE json == c[i][side].header
<1>3. c[i][side] \in TypeJSON
  BY <1>2 DEF EntryJSON, Side
<1>4. "header" \in DOMAIN c[i][side] /\ json \in Seq(RuleJSON)
  BY <1>3 DEF TypeJSON, Part
<1>5. list[i][side].header = compileRules(json)
  <2>1. list[i][side] = compileTypes(c[i][side])
    BY <1>1, <1>2 DEF Compile, Side
  <2> QED
    BY <1>4, <2>1 DEF compileTypes
<1> HIDE DEF json
<1>6. ASSUME NEW k \in 1..Len(json) PROVE compileRule(json[k]) \in Rule
  <2>1. json[k] \in RuleJSON
    BY <1>4
  <2>2. \A name \in {"find", "replace", "append", "prepend", "delete"} : json[k][name] \in Optional
    BY <2>1 DEF RuleJSON
  <2>3. <<>> \in Optional
    BY DEF Optional, Text
  <2> QED
    BY <2>2, <2>3 DEF compileRule, Rule
<1>7. compileRules(json) \in Seq(Rule)
  <2>1. Len(json) \in Nat
    BY <1>4
  <2>2. compileRules(json) = [k \in 1..Len(json) |-> compileRule(json[k])]
    BY DEF compileRules
  <2> QED
    BY <1>6, <2>1, <2>2
<1> QED
  BY <1>5, <1>7

\* A header, as it is received and as it is rewritten.
Header(h) == IsFiniteSet(h) /\ h \subseteq Line

\* AlterHeader with rules that replace nothing.
LEMMA HeaderGrows ==
  ASSUME NEW header, Header(header), NEW list \in Seq(Rule),
         \A k \in 1..Len(list) : list[k].replace = Nil,
         NEW new \in AlterHeader(header, list)
  PROVE  Header(new) /\ header \subseteq new
<1>1. CASE list = <<>>
  <2>1. new = header
    BY <1>1, NoRules
  <2> QED
    BY <2>1
<1>2. CASE list # <<>>
  <2>1. PICK order \in Orders(header) :
          new = stringToHeader(applyRules(headerToString(order), list))
    BY <1>2 DEF AlterHeader
  <2> DEFINE str == headerToString(order)
             text == applyRules(str, list)
  <2>2. order \in Seq(Line) /\ \A line \in header : \E i \in 1..Len(order) : order[i] = line
    BY OrderFact DEF Header
  <2>3. str \in Text /\ \A j \in 1..Len(order) : Holds(str, order[j])
    BY <2>2, HeaderString
  <2>4. \E pre, post \in Text : text = Cat(pre, Cat(str, post))
    BY <2>3, AddingRules
  <2> HIDE DEF str, text
  <2>5. PICK pre, post \in Text : text = Cat(pre, Cat(str, post))
    BY <2>4
  <2>6. text \in Text
    <3>1. Cat(str, post) \in Text
      BY <2>3, CatFacts DEF Text
    <3> QED
      BY <2>5, <3>1, CatFacts DEF Text
  <2>7. ASSUME NEW line \in header PROVE line \in stringToHeader(text)
    <3>1. line \in Line /\ Holds(str, line)
      BY <2>2, <2>3 DEF Header
    <3>2. Holds(text, line)
      BY <2>3, <2>5, <3>1, HoldsExtended
    <3> QED
      BY <2>6, <3>1, <3>2, LineFound
  <2>8. new = stringToHeader(text)
    BY <2>1 DEF text, str
  <2> QED
    BY <2>6, <2>7, <2>8, ParsedHeader DEF Header
<1> QED
  BY <1>1, <1>2

\* The headers so far, entry by entry.
LinesInv ==
  /\ at # "idle" /\ AddsOnly("request") =>
       Header(rq.header) /\ asked.header \subseteq rq.header
  /\ at \in {"response", "deliver"} /\ AddsOnly("response") =>
       Header(rs.header) /\ got.header \subseteq rs.header

\* The rules of the entry the loop is at, if those of this side only add.
LEMMA EntryAdds ==
  ASSUME HandlerTypeOK, MessageInv, InLoop, Chosen, NEW side \in Side, AddsOnly(side)
  PROVE  /\ Entry[side].header \in Seq(Rule)
         /\ \A k \in 1..Len(Entry[side].header) : Entry[side].header[k].replace = Nil
<1>1. mine = began /\ next \in DOMAIN mine /\ mine \in Compiled
  BY DEF InLoop, MessageInv, OwnRules, HandlerTypeOK
<1>2. Entry[side].header \in Seq(Rule)
  BY <1>1, CompiledHeader DEF Entry
<1> QED
  BY <1>1, <1>2 DEF AddsOnly, Chosen, Entry

LEMMA LinesArrive ==
  ASSUME LinesInv,
         \/ \E q \in Request : Receive(q)
         \/ \E r \in Response : Answer(r) \/ SecondAnswer(r)
  PROVE  LinesInv'
<1>1. \A m \in Request \cup Response : Header(m.header)
  BY HeaderAssumption DEF Header
<1>2. ASSUME NEW q \in Request, Receive(q) PROVE LinesInv'
  <2>1. rq'.header = q.header /\ asked' = q /\ at' = "request"
    BY <1>2 DEF Receive, Incoming
  <2> QED
    BY <1>1, <2>1 DEF LinesInv
<1>3. ASSUME NEW r \in Response, Answer(r) \/ SecondAnswer(r) PROVE LinesInv'
  <2>1. rs'.header = r.header /\ got' = r
    BY <1>3 DEF Answer, SecondAnswer, Arrived
  <2>2. at # "idle" /\ UNCHANGED <<asked, began, rq>>
    BY <1>3 DEF Answer, SecondAnswer
  <2> QED
    BY <1>1, <2>1, <2>2 DEF LinesInv, AddsOnly
<1> QED
  BY <1>2, <1>3

LEMMA LinesNext ==
  LinesInv /\ HandlerTypeOK /\ MessageInv /\ [Next]_vars => LinesInv'
<1> SUFFICES ASSUME LinesInv, HandlerTypeOK, MessageInv, [Next]_vars PROVE LinesInv'
  OBVIOUS
<1>1. CASE AlterRequest
  <2>1. /\ InLoop /\ Chosen /\ at = "request" /\ at' = at
        /\ UNCHANGED <<began, asked, got, rs>>
        /\ rq'.header \in AlterHeader(rq.header, Entry.request.header)
    BY <1>1 DEF AlterRequest
  <2>2. ASSUME AddsOnly("request")
        PROVE  Header(rq'.header) /\ asked.header \subseteq rq'.header
    <3>1. /\ Entry.request.header \in Seq(Rule)
          /\ \A k \in 1..Len(Entry.request.header) : Entry.request.header[k].replace = Nil
      BY <2>1, <2>2, EntryAdds DEF Side
    <3>2. Header(rq.header) /\ asked.header \subseteq rq.header
      BY <2>1, <2>2 DEF LinesInv
    <3>3. Header(rq'.header) /\ rq.header \subseteq rq'.header
      BY <2>1, <3>1, <3>2, HeaderGrows
    <3> QED
      BY <3>2, <3>3
  <2>3. AddsOnly("request")' => AddsOnly("request")
    BY <2>1 DEF AddsOnly
  <2> QED
    BY <2>1, <2>2, <2>3 DEF LinesInv
<1>2. CASE AlterResponse
  <2>1. /\ InLoop /\ Chosen /\ at = "response" /\ at' = at
        /\ UNCHANGED <<began, asked, got, rq>>
        /\ rs'.header \in AlterHeader(rs.header, Entry.response.header)
    BY <1>2 DEF AlterResponse
  <2>2. ASSUME AddsOnly("response")
        PROVE  Header(rs'.header) /\ got.header \subseteq rs'.header
    <3>1. /\ Entry.response.header \in Seq(Rule)
          /\ \A k \in 1..Len(Entry.response.header) : Entry.response.header[k].replace = Nil
      BY <2>1, <2>2, EntryAdds DEF Side
    <3>2. Header(rs.header) /\ got.header \subseteq rs.header
      BY <2>1, <2>2 DEF LinesInv
    <3>3. Header(rs'.header) /\ rs.header \subseteq rs'.header
      BY <2>1, <3>1, <3>2, HeaderGrows
    <3> QED
      BY <3>2, <3>3
  <2>3. \A side : AddsOnly(side)' => AddsOnly(side)
    BY <2>1 DEF AddsOnly
  <2> QED
    BY <2>1, <2>2, <2>3 DEF LinesInv
<1> DEFINE Still == UNCHANGED <<began, asked, rq, got, rs>>
<1>3. ASSUME Still PROVE \A side : AddsOnly(side)' => AddsOnly(side)
  BY <1>3 DEF AddsOnly
<1>4. ASSUME Still, at' \in {at, "idle"} PROVE LinesInv'
  BY <1>3, <1>4 DEF LinesInv
<1>5. ASSUME Still, at # "idle", at' \in {"wire", "second"} PROVE LinesInv'
  BY <1>3, <1>5 DEF LinesInv
<1>6. CASE ResponseDone
  <2>1. Still /\ at = "response"
    BY <1>6 DEF ResponseDone
  <2> QED
    BY <1>3, <2>1 DEF LinesInv
<1>7. CASE Api \/ UNCHANGED handlerVars
  BY <1>4, <1>7 DEF Api, RulesClear, RulesSet, handlerVars
<1>8. CASE Skip \/ RefuseUrl \/ SecondFails \/ Deliver
  BY <1>4, <1>8 DEF Skip, RefuseUrl, SecondFails, Deliver
<1>9. CASE RequestDone \/ NoAnswer
  BY <1>5, <1>9 DEF RequestDone, NoAnswer
<1>10. CASE Forget
  BY <1>10 DEF Forget, LinesInv
<1> QED
  BY <1>1, <1>2, <1>6, <1>7, <1>8, <1>9, <1>10, LinesArrive
     DEF Next, Serve, Handle, RulePanic, Die, vars

\* Rules that only append and prepend, through any number of entries, lose no
\* header line, whatever they add and in whatever order the map of the header
\* is visited.
THEOREM LinesAreKept == Spec => []HeaderLinesKept
<1>1. Init => LinesInv
  BY DEF Init, HandlerInit, LinesInv
<1>2. TypeOK => HandlerTypeOK
  BY DEF TypeOK
<1>3. LinesInv => HeaderLinesKept
  BY DEF LinesInv, HeaderLinesKept, Sent, Complete
<1> QED
  BY <1>1, <1>2, <1>3, LinesNext, TypeCorrect, MessageInvariance, PTL DEF Spec
=============================================================================
