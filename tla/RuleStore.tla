----------------------------- MODULE RuleStore -----------------------------
(***************************************************************************)
(* The per-client state of main.go: rewriteRules, throttledConnections and *)
(* lastTimeUsed, three sync.Maps keyed by the client's IP.  They are       *)
(* shared by every request in progress, by API calls that replace or clear *)
(* the rules, and by the session cleaner.  Each access is atomic by itself *)
(* and none is atomic together with the next.                              *)
(*                                                                         *)
(* A rule set is what distinguishes its requests here: the speeds of its   *)
(* entry, which all rule sets have under one URL pattern and therefore     *)
(* under one key for each side.  It may limit both sides, one, or neither. *)
(* A controller is known by the set it was made for, since its rate is     *)
(* fixed then.                                                             *)
(***************************************************************************)
EXTENDS FiniteSets

CONSTANTS
  Task,     \* requests and API calls in progress
  Ip,       \* client addresses
  RuleSet,  \* compiled rule sets
  Uploads,  \* those whose entry has an UploadSpeed
  Downloads,\* those whose entry has a DownloadSpeed
  Registry, \* the *sync.Map values of throttledConnections
  QuietIp,  \* addresses whose rules are replaced between requests only
  Nil

ASSUME NilAssumption == Nil \notin RuleSet \cup Registry \cup Ip
ASSUME QuietAssumption == QuietIp \subseteq Ip

VARIABLES
  rules,     \* rewriteRules
  throttled, \* throttledConnections
  used,      \* lastTimeUsed: no entry, a recent one, one older than 48 hours
  reg,       \* what each registry holds, for the request and the response side
  at, ip,    \* where each task stands, and the address it is about
  mine,      \* the rules a request loaded, or an API call is to store
  myReg,     \* throttledClient
  ctl,       \* the controller the body is read through
  side,      \* the request body, then the response body
  during,    \* the request loaded its rules amid a change of them
  cpc, todo  \* the cleaner: its next Delete, the keys its Range has to visit

mapVars   == <<rules, throttled, used, reg>>
taskVars  == <<at, ip, mine, myReg, ctl, side, during>>
cleanVars == <<cpc, todo>>
vars == <<mapVars, taskVars, cleanVars>>

Side == {"rq", "resp"}

TypeOK ==
  /\ rules \in [Ip -> RuleSet \cup {Nil}]
  /\ throttled \in [Ip -> Registry \cup {Nil}]
  /\ used \in [Ip -> {"none", "fresh", "expired"}]
  /\ reg \in [Registry -> [Side -> RuleSet \cup {Nil}]]
  /\ at \in [Task -> {"off", "load", "lookup", "create", "pick", "make", "stream",
                      "plain", "store", "drop"}]
  /\ ip \in [Task -> Ip \cup {Nil}]
  /\ mine \in [Task -> RuleSet \cup {Nil}] /\ ctl \in [Task -> RuleSet \cup {Nil}]
  /\ myReg \in [Task -> Registry \cup {Nil}]
  /\ side \in [Task -> Side]
  /\ during \in [Task -> BOOLEAN]
  /\ cpc \in [step : {"sleep", "range", "used", "rules", "throttled"}, key : Ip \cup {Nil}]
  /\ todo \subseteq Ip

\* No task has a value of this local variable.
NoTask == [t \in Task |-> Nil]

Init ==
  /\ rules = [i \in Ip |-> Nil] /\ throttled = [i \in Ip |-> Nil]
  /\ used = [i \in Ip |-> "none"]
  /\ reg = [g \in Registry |-> [s \in Side |-> Nil]]
  /\ at = [t \in Task |-> "off"]
  /\ ip = NoTask /\ mine = NoTask /\ ctl = NoTask /\ myReg = NoTask
  /\ side = [t \in Task |-> "rq"]
  /\ during = [t \in Task |-> FALSE]
  /\ cpc = [step |-> "sleep", key |-> Nil] /\ todo = {}

Go(t, from, to) == at[t] = from /\ at' = [at EXCEPT ![t] = to]

\* A request of i holds the rules it loaded.
Loaded(i) ==
  \E t \in Task : ip[t] = i /\ at[t] \in {"lookup", "create", "pick", "make", "stream", "plain"}

\* The rules of i have been replaced, its registry not yet dropped.
Changing(i) == \E t \in Task : ip[t] = i /\ at[t] = "drop"

-----------------------------------------------------------------------------
(* A proxied request, in the handler main() gives to OnRequest.            *)

Begin(t, i) ==
  /\ Go(t, "off", "load")
  /\ ip' = [ip EXCEPT ![t] = i]
  /\ used' = [used EXCEPT ![i] = "fresh"]
  /\ UNCHANGED <<rules, throttled, reg, mine, myReg, ctl, side, during, cleanVars>>

\* rewriteRules.Load(ip).  Without rules there is nothing to look up.
LoadRules(t) ==
  /\ Go(t, "load", IF rules[ip[t]] = Nil THEN "off" ELSE "lookup")
  /\ mine' = [mine EXCEPT ![t] = rules[ip[t]]]
  /\ during' = [during EXCEPT ![t] = rules[ip[t]] # Nil /\ Changing(ip[t])]
  /\ ip' = IF rules[ip[t]] = Nil THEN [ip EXCEPT ![t] = Nil] ELSE ip
  /\ UNCHANGED <<mapVars, myReg, ctl, side, cleanVars>>

Limited(R, s) == R \in IF s = "rq" THEN Uploads ELSE Downloads

\* The entry has no speed for this side: the body is read as it comes.
Skip(t) ==
  /\ ~Limited(mine[t], side[t])
  /\ Go(t, "lookup", "plain")
  /\ UNCHANGED <<mapVars, ip, mine, myReg, ctl, side, during, cleanVars>>

Lookup(t) ==
  /\ Limited(mine[t], side[t])
  /\ Go(t, "lookup", IF throttled[ip[t]] = Nil THEN "create" ELSE "pick")
  /\ myReg' = [myReg EXCEPT ![t] = throttled[ip[t]]]
  /\ UNCHANGED <<mapVars, ip, mine, ctl, side, during, cleanVars>>

Unreferenced(g) == (\A i \in Ip : throttled[i] # g) /\ (\A t \in Task : myReg[t] # g)

\* Mutant of Create: the rules are stored where the registry belongs.
CreateRules(t) ==
  /\ Go(t, "create", "pick")
  /\ \E g \in Registry :
       /\ Unreferenced(g)
       /\ reg' = [reg EXCEPT ![g] = [s \in Side |-> Nil]]
       /\ throttled' = [throttled EXCEPT ![ip[t]] = mine[t]]
       /\ myReg' = [myReg EXCEPT ![t] = g]
  /\ UNCHANGED <<rules, used, ip, mine, ctl, side, during, cleanVars>>

Create(t) ==
  /\ Go(t, "create", "pick")
  /\ \E g \in Registry :
       /\ Unreferenced(g)
       /\ reg' = [reg EXCEPT ![g] = [s \in Side |-> Nil]]
       /\ throttled' = [throttled EXCEPT ![ip[t]] = g]
       /\ myReg' = [myReg EXCEPT ![t] = g]
  /\ UNCHANGED <<rules, used, ip, mine, ctl, side, during, cleanVars>>

Pick(t) ==
  LET found == reg[myReg[t]][side[t]] IN
  /\ Go(t, "pick", IF found = Nil THEN "make" ELSE "stream")
  /\ ctl' = [ctl EXCEPT ![t] = found]
  /\ UNCHANGED <<mapVars, ip, mine, myReg, side, during, cleanVars>>

Make(t) ==
  /\ Go(t, "make", "stream")
  /\ reg' = [reg EXCEPT ![myReg[t]][side[t]] = mine[t]]
  /\ ctl' = [ctl EXCEPT ![t] = mine[t]]
  /\ UNCHANGED <<rules, throttled, used, ip, mine, myReg, side, during, cleanVars>>

\* The round trip answered: the response body goes the same way.
Answered(t) ==
  /\ side[t] = "rq" /\ at[t] \in {"stream", "plain"}
  /\ at' = [at EXCEPT ![t] = "lookup"]
  /\ side' = [side EXCEPT ![t] = "resp"]
  /\ myReg' = [myReg EXCEPT ![t] = Nil]
  /\ ctl' = [ctl EXCEPT ![t] = Nil]
  /\ UNCHANGED <<mapVars, ip, mine, during, cleanVars>>

\* The response is delivered, or there is none; the locals are gone.
End(t) ==
  /\ at[t] \in {"stream", "plain"}
  /\ at' = [at EXCEPT ![t] = "off"]
  /\ side' = [side EXCEPT ![t] = "rq"]
  /\ myReg' = [myReg EXCEPT ![t] = Nil]
  /\ ctl' = [ctl EXCEPT ![t] = Nil]
  /\ mine' = [mine EXCEPT ![t] = Nil]
  /\ during' = [during EXCEPT ![t] = FALSE]
  /\ ip' = [ip EXCEPT ![t] = Nil]
  /\ UNCHANGED <<mapVars, cleanVars>>

-----------------------------------------------------------------------------
(* handleProxyAPI: rules/set for the caller's address or the one given;    *)
(* without rules it does what rules/clear does.  Called through the proxy, *)
(* the caller's session is refreshed; through the exposed port it is not.  *)

ApiCall(t, i, R) ==
  /\ Go(t, "off", "store")
  /\ ip' = [ip EXCEPT ![t] = i]
  /\ mine' = [mine EXCEPT ![t] = R]
  /\ \E j \in Ip : used' \in {used, [used EXCEPT ![j] = "fresh"]}
  /\ UNCHANGED <<rules, throttled, reg, myReg, ctl, side, during, cleanVars>>

ApiStore(t) ==
  /\ ip[t] \in QuietIp => ~Loaded(ip[t])
  /\ Go(t, "store", "drop")
  /\ rules' = [rules EXCEPT ![ip[t]] = mine[t]]
  /\ UNCHANGED <<throttled, used, reg, ip, mine, myReg, ctl, side, during, cleanVars>>

\* Mutant of ApiDrop: the controllers of the old rules are kept.
ApiKeep(t) ==
  /\ Go(t, "drop", "off")
  /\ mine' = [mine EXCEPT ![t] = Nil]
  /\ ip' = [ip EXCEPT ![t] = Nil]
  /\ UNCHANGED <<rules, throttled, used, reg, myReg, ctl, side, during, cleanVars>>

ApiDrop(t) ==
  /\ Go(t, "drop", "off")
  /\ throttled' = [throttled EXCEPT ![ip[t]] = Nil]
  /\ mine' = [mine EXCEPT ![t] = Nil]
  /\ ip' = [ip EXCEPT ![t] = Nil]
  /\ UNCHANGED <<rules, used, reg, myReg, ctl, side, during, cleanVars>>

-----------------------------------------------------------------------------
(* launchSessionCleaner.                                                   *)

Wake ==
  /\ cpc.step = "sleep"
  /\ cpc' = [step |-> "range", key |-> Nil]
  /\ todo' = {i \in Ip : used[i] # "none"}
  /\ UNCHANGED <<mapVars, taskVars>>

Visit(i) ==
  /\ cpc.step = "range" /\ i \in todo
  /\ todo' = todo \ {i}
  /\ cpc' = IF used[i] = "expired" THEN [step |-> "used", key |-> i] ELSE cpc
  /\ UNCHANGED <<mapVars, taskVars>>

RangeEnd ==
  /\ cpc.step = "range" /\ todo = {}
  /\ cpc' = [step |-> "sleep", key |-> Nil]
  /\ UNCHANGED <<mapVars, taskVars, todo>>

CleanUsed ==
  /\ cpc.step = "used"
  /\ used' = [used EXCEPT ![cpc.key] = "none"]
  /\ cpc' = [cpc EXCEPT !.step = "rules"]
  /\ UNCHANGED <<rules, throttled, reg, taskVars, todo>>

CleanRules ==
  /\ cpc.step = "rules"
  /\ rules' = [rules EXCEPT ![cpc.key] = Nil]
  /\ cpc' = [cpc EXCEPT !.step = "throttled"]
  /\ UNCHANGED <<throttled, used, reg, taskVars, todo>>

CleanThrottled ==
  /\ cpc.step = "throttled"
  /\ throttled' = [throttled EXCEPT ![cpc.key] = Nil]
  /\ cpc' = [step |-> "range", key |-> Nil]
  /\ UNCHANGED <<rules, used, reg, taskVars, todo>>

\* 48 hours pass since the last request of i.
Expire(i) ==
  /\ used[i] = "fresh"
  /\ used' = [used EXCEPT ![i] = "expired"]
  /\ UNCHANGED <<rules, throttled, reg, taskVars, cleanVars>>

Request(t) ==
  \/ \E i \in Ip : Begin(t, i)
  \/ LoadRules(t) \/ Skip(t) \/ Lookup(t) \/ Create(t) \/ Pick(t) \/ Make(t)
  \/ Answered(t) \/ End(t)

Api(t) ==
  \/ \E i \in Ip, R \in RuleSet \cup {Nil} : ApiCall(t, i, R)
  \/ ApiStore(t) \/ ApiDrop(t)

Cleaner == Wake \/ RangeEnd \/ CleanUsed \/ CleanRules \/ CleanThrottled \/ \E i \in Ip : Visit(i)

Next == Cleaner \/ (\E t \in Task : Request(t) \/ Api(t)) \/ \E i \in Ip : Expire(i)

Spec == Init /\ [][Next]_vars

-----------------------------------------------------------------------------
(* Properties.                                                             *)

\* If the rules of an address are replaced only while none of its requests
\* is in progress, then every request that begins after the replacement is
\* throttled at the speed of its own rules: storing the rules first and
\* dropping the registry second leaves no controller of the old rules behind.
\* Only a request that begins between the two gets one.
NoLingeringRate ==
  \A t \in Task :
    ip[t] \in QuietIp /\ at[t] = "stream" /\ ctl[t] # mine[t] => during[t]

\* README: setting rules deletes the existing ones and uses the new ones, and
\* throttles to their speed.  Violated: a request that loaded the old rules
\* registers its controller after the registry was dropped, and requests that
\* begin long after the change, under the new rules, are throttled by it.  (The
\* property also excludes the reverse, a request with the old rules that finds a
\* controller of the new ones, which no document promises to be impossible.)
NewRulesThrottle ==
  \A t \in Task : at[t] = "stream" /\ ctl[t] # mine[t] => during[t]
=============================================================================
