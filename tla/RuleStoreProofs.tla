-------------------------- MODULE RuleStoreProofs --------------------------
(***************************************************************************)
(* Proofs about RuleStore for any tasks, addresses, rule sets and          *)
(* registries: a request that begins when no change of its address's rules *)
(* is under way is throttled at the speed of its own rules.                *)
(***************************************************************************)
EXTENDS RuleStore, TLAPS

Busy(t) == at[t] \in {"lookup", "create", "pick", "make", "stream", "plain"}

\* What a registry may hold for a request or an address with rules R.
Holds(g, R) == \A s \in Side : reg[g][s] \in {Nil, R}

\* Where a task stands says which of its locals are set.
TaskInv ==
  \A t \in Task :
    /\ at[t] # "off" <=> ip[t] # Nil
    /\ myReg[t] # Nil <=> at[t] \in {"pick", "make", "stream"}
    /\ Busy(t) => mine[t] # Nil

\* A registry belongs to one address.
OwnInv ==
  /\ \A i, j \in Ip : throttled[i] # Nil /\ throttled[i] = throttled[j] => i = j
  /\ \A t \in Task, i \in Ip : throttled[i] # Nil /\ myReg[t] = throttled[i] => ip[t] = i
  /\ \A t, u \in Task : myReg[t] # Nil /\ myReg[t] = myReg[u] => ip[t] = ip[u]

\* The requests in progress of an address have the rules in force, which
\* only the cleaner may have deleted since.
RulesInv ==
  \A t \in Task :
    Busy(t) /\ ip[t] \in QuietIp =>
      /\ rules[ip[t]] \in {mine[t], Nil}
      /\ \A u \in Task : Busy(u) /\ ip[u] = ip[t] => mine[u] = mine[t]

\* What a request that began amid no change finds was made for its rules.
FreshInv ==
  \A t \in Task :
    Busy(t) /\ ip[t] \in QuietIp /\ ~during[t] =>
      /\ ~Changing(ip[t])
      /\ throttled[ip[t]] # Nil => Holds(throttled[ip[t]], mine[t])
      /\ myReg[t] # Nil => Holds(myReg[t], mine[t])
      /\ at[t] = "stream" => ctl[t] = mine[t]

\* So does the next request find it.
StoreInv ==
  \A i \in QuietIp :
    ~Changing(i) /\ rules[i] # Nil /\ throttled[i] # Nil => Holds(throttled[i], rules[i])

IInv == TypeOK /\ TaskInv /\ OwnInv /\ RulesInv /\ FreshInv /\ StoreInv

-----------------------------------------------------------------------------
LEMMA InitInv == Init => IInv
<1> SUFFICES ASSUME Init PROVE IInv
  OBVIOUS
<1>1. TypeOK
  <2>1. /\ rules \in [Ip -> RuleSet \cup {Nil}] /\ throttled \in [Ip -> Registry \cup {Nil}]
        /\ used \in [Ip -> {"none", "fresh", "expired"}]
        /\ reg \in [Registry -> [Side -> RuleSet \cup {Nil}]]
    BY DEF Init
  <2>2. /\ at \in [Task -> {"off", "load", "lookup", "create", "pick", "make", "stream",
                           "plain", "store", "drop"}]
        /\ side \in [Task -> Side] /\ todo \subseteq Ip
    BY DEF Init, Side
  <2>3. /\ ip \in [Task -> Ip \cup {Nil}] /\ myReg \in [Task -> Registry \cup {Nil}]
        /\ mine \in [Task -> RuleSet \cup {Nil}] /\ ctl \in [Task -> RuleSet \cup {Nil}]
    BY DEF Init, NoTask
  <2>4. during \in [Task -> BOOLEAN]
    BY DEF Init
  <2>5. cpc \in [step : {"sleep", "range", "used", "rules", "throttled"}, key : Ip \cup {Nil}]
    BY DEF Init
  <2> QED
    BY <2>1, <2>2, <2>3, <2>4, <2>5 DEF TypeOK
<1>2. \A t \in Task : at[t] = "off" /\ ip[t] = Nil /\ myReg[t] = Nil
  BY DEF Init, NoTask
<1>3. \A i \in Ip : throttled[i] = Nil
  BY DEF Init
<1>4. TaskInv /\ RulesInv /\ FreshInv
  BY <1>2 DEF TaskInv, RulesInv, FreshInv, Busy
<1>5. OwnInv /\ StoreInv
  BY <1>2, <1>3, QuietAssumption DEF OwnInv, StoreInv
<1> QED
  BY <1>1, <1>4, <1>5 DEF IInv

\* The steps of a request.
LEMMA RequestStep == ASSUME IInv, NEW t \in Task, Request(t) PROVE IInv'
<1> USE NilAssumption, QuietAssumption DEF IInv, TypeOK, mapVars, taskVars, cleanVars, Go
<1>1. CASE \E i \in Ip : Begin(t, i)
  <2>1. TypeOK'
    BY <1>1 DEF Begin
  <2>2. TaskInv'
    BY <1>1 DEF Begin, TaskInv, Busy
  <2>3. OwnInv'
    BY <1>1 DEF Begin, OwnInv, TaskInv, Busy, Unreferenced
  <2>4. RulesInv'
    BY <1>1 DEF Begin, RulesInv, TaskInv, Busy, Loaded
  <2>5. FreshInv'
    BY <1>1 DEF Begin, FreshInv, RulesInv, StoreInv, OwnInv, TaskInv, Busy, Holds, Changing, Loaded, Unreferenced
  <2>6. StoreInv'
    BY <1>1 DEF Begin, StoreInv, RulesInv, FreshInv, OwnInv, TaskInv, Busy, Holds, Changing, Loaded, Unreferenced
  <2> QED
    BY <2>1, <2>2, <2>3, <2>4, <2>5, <2>6
<1>2. CASE LoadRules(t)
  <2>1. TypeOK'
    <3>1. /\ rules' \in [Ip -> RuleSet \cup {Nil}] /\ throttled' \in [Ip -> Registry \cup {Nil}]
          /\ used' \in [Ip -> {"none", "fresh", "expired"}]
          /\ reg' \in [Registry -> [Side -> RuleSet \cup {Nil}]]
      BY <1>2 DEF LoadRules
    <3>2. /\ at' \in [Task -> {"off", "load", "lookup", "create", "pick", "make", "stream",
                              "plain", "store", "drop"}]
          /\ ip' \in [Task -> Ip \cup {Nil}] /\ mine' \in [Task -> RuleSet \cup {Nil}]
          /\ side' \in [Task -> Side]
      <4>1. ip[t] \in Ip
        BY <1>2 DEF LoadRules, TaskInv
      <4>2. rules[ip[t]] \in RuleSet \cup {Nil}
        BY <4>1
      <4>3. at' \in [Task -> {"off", "load", "lookup", "create", "pick", "make", "stream",
                             "plain", "store", "drop"}]
        BY <1>2 DEF LoadRules
      <4>4. ip' \in [Task -> Ip \cup {Nil}]
        BY <1>2 DEF LoadRules
      <4>5. mine' \in [Task -> RuleSet \cup {Nil}] /\ side' \in [Task -> Side]
        BY <1>2, <4>2 DEF LoadRules
      <4> QED
        BY <4>3, <4>4, <4>5
    <3>3. ctl' \in [Task -> RuleSet \cup {Nil}] /\ myReg' \in [Task -> Registry \cup {Nil}]
      BY <1>2 DEF LoadRules, TaskInv
    <3>4. during' \in [Task -> BOOLEAN]
      BY <1>2 DEF LoadRules
    <3> QED
      BY <1>2, <3>1, <3>2, <3>3, <3>4 DEF LoadRules
  <2>2. TaskInv'
    BY <1>2 DEF LoadRules, TaskInv, Busy
  <2>3. OwnInv'
    BY <1>2 DEF LoadRules, OwnInv, TaskInv, Busy, Unreferenced
  <2>4. RulesInv'
    BY <1>2 DEF LoadRules, RulesInv, TaskInv, Busy, Loaded
  <2>5. FreshInv'
    <3>1. ip[t] \in Ip /\ at[t] = "load" /\ myReg[t] = Nil /\ UNCHANGED <<mapVars, myReg, ctl>>
      BY <1>2 DEF LoadRules, TaskInv
    <3>2. \A i \in Ip : Changing(i)' => Changing(i)
      BY <1>2 DEF LoadRules, Changing
    <3>3. \A u \in Task : u # t => ip'[u] = ip[u] /\ mine'[u] = mine[u] /\ at'[u] = at[u]
                                    /\ (during'[u] <=> during[u])
      BY <1>2 DEF LoadRules
    <3>4. ASSUME at'[t] # "off", ip[t] \in QuietIp, ~during'[t]
          PROVE  /\ ip'[t] = ip[t] /\ mine'[t] = rules[ip[t]] /\ at'[t] = "lookup"
                 /\ rules[ip[t]] # Nil /\ ~Changing(ip[t])
      <4>1. rules[ip[t]] # Nil
        BY <1>2, <3>4 DEF LoadRules
      <4>2. ip'[t] = ip[t] /\ mine'[t] = rules[ip[t]] /\ at'[t] = "lookup"
        BY <1>2, <4>1 DEF LoadRules
      <4>3. during'[t] = (rules[ip[t]] # Nil /\ Changing(ip[t]))
        BY <1>2, Zenon DEF LoadRules
      <4> QED
        BY <3>4, <4>1, <4>2, <4>3
    <3>5. ASSUME Busy(t)', ip'[t] \in QuietIp, ~during'[t]
          PROVE  /\ ~Changing(ip[t])' /\ ip'[t] = ip[t] /\ at'[t] = "lookup"
                 /\ throttled[ip[t]] # Nil => Holds(throttled[ip[t]], mine'[t])
      <4>1. at'[t] # "off" /\ ip[t] \in QuietIp
        BY <1>2, <3>5 DEF LoadRules, Busy
      <4> QED
        BY <3>1, <3>2, <3>4, <3>5, <4>1 DEF StoreInv
    <3> DEFINE Fresh(u) ==
                 /\ ~Changing(ip[u])
                 /\ throttled[ip[u]] # Nil => Holds(throttled[ip[u]], mine[u])
                 /\ myReg[u] # Nil => Holds(myReg[u], mine[u])
                 /\ at[u] = "stream" => ctl[u] = mine[u]
    <3> SUFFICES ASSUME NEW u \in Task, Busy(u)', ip'[u] \in QuietIp, ~during'[u]
                 PROVE  Fresh(u)'
      BY DEF FreshInv
    <3>6. CASE u = t
      BY <3>1, <3>5, <3>6 DEF Holds
    <3>7. CASE u # t
      <4>1. Busy(u) /\ ip[u] \in QuietIp /\ ~during[u]
        BY <3>3, <3>7 DEF Busy
      <4>2. Fresh(u)
        BY <4>1 DEF FreshInv
      <4> QED
        BY <3>1, <3>2, <3>3, <3>7, <4>1, <4>2 DEF Holds
    <3> QED
      BY <3>6, <3>7
  <2>6. StoreInv'
    BY <1>2 DEF LoadRules, StoreInv, RulesInv, FreshInv, OwnInv, TaskInv, Busy, Holds, Changing, Loaded, Unreferenced
  <2> QED
    BY <2>1, <2>2, <2>3, <2>4, <2>5, <2>6
<1>3. CASE Lookup(t)
  <2>1. TypeOK'
    <3>1. /\ rules' \in [Ip -> RuleSet \cup {Nil}] /\ throttled' \in [Ip -> Registry \cup {Nil}]
          /\ used' \in [Ip -> {"none", "fresh", "expired"}]
          /\ reg' \in [Registry -> [Side -> RuleSet \cup {Nil}]]
      BY <1>3 DEF Lookup
    <3>2. /\ at' \in [Task -> {"off", "load", "lookup", "create", "pick", "make", "stream",
                              "plain", "store", "drop"}]
          /\ ip' \in [Task -> Ip \cup {Nil}] /\ mine' \in [Task -> RuleSet \cup {Nil}]
          /\ side' \in [Task -> Side]
      BY <1>3 DEF Lookup, Side
    <3>3. ctl' \in [Task -> RuleSet \cup {Nil}] /\ myReg' \in [Task -> Registry \cup {Nil}]
      BY <1>3 DEF Lookup, TaskInv
    <3>4. during' \in [Task -> BOOLEAN]
      BY <1>3 DEF Lookup
    <3> QED
      BY <1>3, <3>1, <3>2, <3>3, <3>4 DEF Lookup
  <2>2. TaskInv'
    BY <1>3 DEF Lookup, TaskInv, Busy
  <2>3. OwnInv'
    BY <1>3 DEF Lookup, OwnInv, TaskInv, Busy, Unreferenced
  <2>4. RulesInv'
    BY <1>3 DEF Lookup, RulesInv, TaskInv, Busy, Loaded
  <2>5. FreshInv'
    BY <1>3 DEF Lookup, FreshInv, RulesInv, StoreInv, OwnInv, TaskInv, Busy, Holds, Changing, Loaded, Unreferenced
  <2>6. StoreInv'
    BY <1>3 DEF Lookup, StoreInv, RulesInv, FreshInv, OwnInv, TaskInv, Busy, Holds, Changing, Loaded, Unreferenced
  <2> QED
    BY <2>1, <2>2, <2>3, <2>4, <2>5, <2>6
<1>4. CASE Create(t)
  <2>1. TypeOK'
    <3>1. /\ rules' \in [Ip -> RuleSet \cup {Nil}] /\ throttled' \in [Ip -> Registry \cup {Nil}]
          /\ used' \in [Ip -> {"none", "fresh", "expired"}]
          /\ reg' \in [Registry -> [Side -> RuleSet \cup {Nil}]]
      <4>1. UNCHANGED <<rules, used>>
        BY <1>4 DEF Create
      <4>2. PICK g \in Registry :
              /\ reg' = [reg EXCEPT ![g] = [s \in Side |-> Nil]]
              /\ throttled' = [throttled EXCEPT ![ip[t]] = g]
        BY <1>4 DEF Create
      <4>3. [s \in Side |-> Nil] \in [Side -> RuleSet \cup {Nil}]
        OBVIOUS
      <4>4. reg' \in [Registry -> [Side -> RuleSet \cup {Nil}]]
        BY <4>2, <4>3
      <4>5. throttled' \in [Ip -> Registry \cup {Nil}]
        BY <4>2
      <4> QED
        BY <4>1, <4>4, <4>5
    <3>2. /\ at' \in [Task -> {"off", "load", "lookup", "create", "pick", "make", "stream",
                              "plain", "store", "drop"}]
          /\ ip' \in [Task -> Ip \cup {Nil}] /\ mine' \in [Task -> RuleSet \cup {Nil}]
          /\ side' \in [Task -> Side]
      BY <1>4 DEF Create, Side
    <3>3. ctl' \in [Task -> RuleSet \cup {Nil}] /\ myReg' \in [Task -> Registry \cup {Nil}]
      BY <1>4 DEF Create, TaskInv
    <3>4. during' \in [Task -> BOOLEAN]
      BY <1>4 DEF Create
    <3> QED
      BY <1>4, <3>1, <3>2, <3>3, <3>4 DEF Create
  <2>2. TaskInv'
    BY <1>4 DEF Create, TaskInv, Busy
  <2>3. OwnInv'
    BY <1>4 DEF Create, OwnInv, TaskInv, Busy, Unreferenced
  <2>4. RulesInv'
    BY <1>4 DEF Create, RulesInv, TaskInv, Busy, Loaded
  <2>5. FreshInv'
    BY <1>4 DEF Create, FreshInv, RulesInv, StoreInv, OwnInv, TaskInv, Busy, Holds, Changing, Loaded, Unreferenced
  <2>6. StoreInv'
    BY <1>4 DEF Create, StoreInv, RulesInv, FreshInv, OwnInv, TaskInv, Busy, Holds, Changing, Loaded, Unreferenced
  <2> QED
    BY <2>1, <2>2, <2>3, <2>4, <2>5, <2>6
<1>5. CASE Pick(t)
  <2>1. TypeOK'
    <3>1. /\ rules' \in [Ip -> RuleSet \cup {Nil}] /\ throttled' \in [Ip -> Registry \cup {Nil}]
          /\ used' \in [Ip -> {"none", "fresh", "expired"}]
          /\ reg' \in [Registry -> [Side -> RuleSet \cup {Nil}]]
      BY <1>5 DEF Pick
    <3>2. /\ at' \in [Task -> {"off", "load", "lookup", "create", "pick", "make", "stream",
                              "plain", "store", "drop"}]
          /\ ip' \in [Task -> Ip \cup {Nil}] /\ mine' \in [Task -> RuleSet \cup {Nil}]
          /\ side' \in [Task -> Side]
      BY <1>5 DEF Pick, Side
    <3>3. ctl' \in [Task -> RuleSet \cup {Nil}] /\ myReg' \in [Task -> Registry \cup {Nil}]
      BY <1>5 DEF Pick, TaskInv
    <3>4. during' \in [Task -> BOOLEAN]
      BY <1>5 DEF Pick
    <3> QED
      BY <1>5, <3>1, <3>2, <3>3, <3>4 DEF Pick
  <2>2. TaskInv'
    BY <1>5 DEF Pick, TaskInv, Busy
  <2>3. OwnInv'
    BY <1>5 DEF Pick, OwnInv, TaskInv, Busy, Unreferenced
  <2>4. RulesInv'
    BY <1>5 DEF Pick, RulesInv, TaskInv, Busy, Loaded
  <2>5. FreshInv'
    BY <1>5 DEF Pick, FreshInv, RulesInv, StoreInv, OwnInv, TaskInv, Busy, Holds, Changing, Loaded, Unreferenced
  <2>6. StoreInv'
    BY <1>5 DEF Pick, StoreInv, RulesInv, FreshInv, OwnInv, TaskInv, Busy, Holds, Changing, Loaded, Unreferenced
  <2> QED
    BY <2>1, <2>2, <2>3, <2>4, <2>5, <2>6
<1>6. CASE Make(t)
  <2>1. TypeOK'
    <3>1. /\ rules' \in [Ip -> RuleSet \cup {Nil}] /\ throttled' \in [Ip -> Registry \cup {Nil}]
          /\ used' \in [Ip -> {"none", "fresh", "expired"}]
          /\ reg' \in [Registry -> [Side -> RuleSet \cup {Nil}]]
      BY <1>6 DEF Make
    <3>2. /\ at' \in [Task -> {"off", "load", "lookup", "create", "pick", "make", "stream",
                              "plain", "store", "drop"}]
          /\ ip' \in [Task -> Ip \cup {Nil}] /\ mine' \in [Task -> RuleSet \cup {Nil}]
          /\ side' \in [Task -> Side]
      BY <1>6 DEF Make, Side
    <3>3. ctl' \in [Task -> RuleSet \cup {Nil}] /\ myReg' \in [Task -> Registry \cup {Nil}]
      BY <1>6 DEF Make, TaskInv
    <3>4. during' \in [Task -> BOOLEAN]
      BY <1>6 DEF Make
    <3> QED
      BY <1>6, <3>1, <3>2, <3>3, <3>4 DEF Make
  <2>2. TaskInv'
    BY <1>6 DEF Make, TaskInv, Busy
  <2>3. OwnInv'
    BY <1>6 DEF Make, OwnInv, TaskInv, Busy, Unreferenced
  <2>4. RulesInv'
    BY <1>6 DEF Make, RulesInv, TaskInv, Busy, Loaded
  <2>5. FreshInv'
    BY <1>6 DEF Make, FreshInv, RulesInv, StoreInv, OwnInv, TaskInv, Busy, Holds, Changing, Loaded, Unreferenced
  <2>6. StoreInv'
    BY <1>6 DEF Make, StoreInv, RulesInv, FreshInv, OwnInv, TaskInv, Busy, Holds, Changing, Loaded, Unreferenced
  <2> QED
    BY <2>1, <2>2, <2>3, <2>4, <2>5, <2>6
<1>7. CASE Answered(t)
  <2>1. TypeOK'
    <3>1. /\ rules' \in [Ip -> RuleSet \cup {Nil}] /\ throttled' \in [Ip -> Registry \cup {Nil}]
          /\ used' \in [Ip -> {"none", "fresh", "expired"}]
          /\ reg' \in [Registry -> [Side -> RuleSet \cup {Nil}]]
      BY <1>7 DEF Answered
    <3>2. /\ at' \in [Task -> {"off", "load", "lookup", "create", "pick", "make", "stream",
                              "plain", "store", "drop"}]
          /\ ip' \in [Task -> Ip \cup {Nil}] /\ mine' \in [Task -> RuleSet \cup {Nil}]
          /\ side' \in [Task -> Side]
      BY <1>7 DEF Answered, Side
    <3>3. ctl' \in [Task -> RuleSet \cup {Nil}] /\ myReg' \in [Task -> Registry \cup {Nil}]
      BY <1>7 DEF Answered, TaskInv
    <3>4. during' \in [Task -> BOOLEAN]
      BY <1>7 DEF Answered
    <3> QED
      BY <1>7, <3>1, <3>2, <3>3, <3>4 DEF Answered
  <2>2. TaskInv'
    BY <1>7 DEF Answered, TaskInv, Busy
  <2>3. OwnInv'
    BY <1>7 DEF Answered, OwnInv, TaskInv, Busy, Unreferenced
  <2>4. RulesInv'
    BY <1>7 DEF Answered, RulesInv, TaskInv, Busy, Loaded
  <2>5. FreshInv'
    BY <1>7 DEF Answered, FreshInv, RulesInv, StoreInv, OwnInv, TaskInv, Busy, Holds, Changing, Loaded, Unreferenced
  <2>6. StoreInv'
    BY <1>7 DEF Answered, StoreInv, RulesInv, FreshInv, OwnInv, TaskInv, Busy, Holds, Changing, Loaded, Unreferenced
  <2> QED
    BY <2>1, <2>2, <2>3, <2>4, <2>5, <2>6
<1>8. CASE End(t)
  <2>1. TypeOK'
    <3>1. /\ rules' \in [Ip -> RuleSet \cup {Nil}] /\ throttled' \in [Ip -> Registry \cup {Nil}]
          /\ used' \in [Ip -> {"none", "fresh", "expired"}]
          /\ reg' \in [Registry -> [Side -> RuleSet \cup {Nil}]]
      BY <1>8 DEF End
    <3>2. /\ at' \in [Task -> {"off", "load", "lookup", "create", "pick", "make", "stream",
                              "plain", "store", "drop"}]
          /\ ip' \in [Task -> Ip \cup {Nil}] /\ mine' \in [Task -> RuleSet \cup {Nil}]
          /\ side' \in [Task -> Side]
      BY <1>8 DEF End, Side
    <3>3. ctl' \in [Task -> RuleSet \cup {Nil}] /\ myReg' \in [Task -> Registry \cup {Nil}]
      BY <1>8 DEF End, TaskInv
    <3>4. during' \in [Task -> BOOLEAN]
      BY <1>8 DEF End
    <3> QED
      BY <1>8, <3>1, <3>2, <3>3, <3>4 DEF End
  <2>2. TaskInv'
    BY <1>8 DEF End, TaskInv, Busy
  <2>3. OwnInv'
    BY <1>8 DEF End, OwnInv, TaskInv, Busy, Unreferenced
  <2>4. RulesInv'
    BY <1>8 DEF End, RulesInv, TaskInv, Busy, Loaded
  <2>5. FreshInv'
    BY <1>8 DEF End, FreshInv, RulesInv, StoreInv, OwnInv, TaskInv, Busy, Holds, Changing, Loaded, Unreferenced
  <2>6. StoreInv'
    BY <1>8 DEF End, StoreInv, RulesInv, FreshInv, OwnInv, TaskInv, Busy, Holds, Changing, Loaded, Unreferenced
  <2> QED
    BY <2>1, <2>2, <2>3, <2>4, <2>5, <2>6
<1>9. CASE Skip(t)
  <2>1. TypeOK'
    <3>1. /\ rules' \in [Ip -> RuleSet \cup {Nil}] /\ throttled' \in [Ip -> Registry \cup {Nil}]
          /\ used' \in [Ip -> {"none", "fresh", "expired"}]
          /\ reg' \in [Registry -> [Side -> RuleSet \cup {Nil}]]
      BY <1>9 DEF Skip
    <3>2. /\ at' \in [Task -> {"off", "load", "lookup", "create", "pick", "make", "stream",
                              "plain", "store", "drop"}]
          /\ ip' \in [Task -> Ip \cup {Nil}] /\ mine' \in [Task -> RuleSet \cup {Nil}]
          /\ side' \in [Task -> Side]
      BY <1>9 DEF Skip, Side
    <3>3. ctl' \in [Task -> RuleSet \cup {Nil}] /\ myReg' \in [Task -> Registry \cup {Nil}]
      BY <1>9 DEF Skip, TaskInv
    <3>4. during' \in [Task -> BOOLEAN]
      BY <1>9 DEF Skip
    <3> QED
      BY <1>9, <3>1, <3>2, <3>3, <3>4 DEF Skip
  <2>2. TaskInv'
    BY <1>9 DEF Skip, TaskInv, Busy
  <2>3. OwnInv'
    BY <1>9 DEF Skip, OwnInv, TaskInv, Busy, Unreferenced
  <2>4. RulesInv'
    BY <1>9 DEF Skip, RulesInv, TaskInv, Busy, Loaded
  <2>5. FreshInv'
    BY <1>9 DEF Skip, FreshInv, RulesInv, StoreInv, OwnInv, TaskInv, Busy, Holds, Changing, Loaded, Unreferenced
  <2>6. StoreInv'
    BY <1>9 DEF Skip, StoreInv, RulesInv, FreshInv, OwnInv, TaskInv, Busy, Holds, Changing, Loaded, Unreferenced
  <2> QED
    BY <2>1, <2>2, <2>3, <2>4, <2>5, <2>6
<1> QED
  BY <1>1, <1>2, <1>3, <1>4, <1>5, <1>6, <1>7, <1>8, <1>9 DEF Request

\* The steps of an API call.
LEMMA ApiStep == ASSUME IInv, NEW t \in Task, Api(t) PROVE IInv'
<1> USE NilAssumption, QuietAssumption DEF IInv, TypeOK, mapVars, taskVars, cleanVars, Go
<1>1. CASE \E i \in Ip, R \in RuleSet \cup {Nil} : ApiCall(t, i, R)
  <2>1. TypeOK'
    BY <1>1 DEF ApiCall
  <2>2. TaskInv'
    BY <1>1 DEF ApiCall, TaskInv, Busy
  <2>3. OwnInv'
    BY <1>1 DEF ApiCall, OwnInv, TaskInv, Busy, Unreferenced
  <2>4. RulesInv'
    BY <1>1 DEF ApiCall, RulesInv, TaskInv, Busy, Loaded
  <2>5. FreshInv'
    BY <1>1 DEF ApiCall, FreshInv, RulesInv, StoreInv, OwnInv, TaskInv, Busy, Holds, Changing, Loaded, Unreferenced
  <2>6. StoreInv'
    BY <1>1 DEF ApiCall, StoreInv, RulesInv, FreshInv, OwnInv, TaskInv, Busy, Holds, Changing, Loaded, Unreferenced
  <2> QED
    BY <2>1, <2>2, <2>3, <2>4, <2>5, <2>6
<1>2. CASE ApiStore(t)
  <2>1. TypeOK'
    BY <1>2 DEF ApiStore
  <2>2. TaskInv'
    BY <1>2 DEF ApiStore, TaskInv, Busy
  <2>3. OwnInv'
    BY <1>2 DEF ApiStore, OwnInv, TaskInv, Busy, Unreferenced
  <2>4. RulesInv'
    BY <1>2 DEF ApiStore, RulesInv, TaskInv, Busy, Loaded
  <2>5. FreshInv'
    BY <1>2 DEF ApiStore, FreshInv, RulesInv, StoreInv, OwnInv, TaskInv, Busy, Holds, Changing, Loaded, Unreferenced
  <2>6. StoreInv'
    BY <1>2 DEF ApiStore, StoreInv, RulesInv, FreshInv, OwnInv, TaskInv, Busy, Holds, Changing, Loaded, Unreferenced
  <2> QED
    BY <2>1, <2>2, <2>3, <2>4, <2>5, <2>6
<1>3. CASE ApiDrop(t)
  <2>1. TypeOK'
    BY <1>3 DEF ApiDrop
  <2>2. TaskInv'
    BY <1>3 DEF ApiDrop, TaskInv, Busy
  <2>3. OwnInv'
    BY <1>3 DEF ApiDrop, OwnInv, TaskInv, Busy, Unreferenced
  <2>4. RulesInv'
    BY <1>3 DEF ApiDrop, RulesInv, TaskInv, Busy, Loaded
  <2>5. FreshInv'
    BY <1>3 DEF ApiDrop, FreshInv, RulesInv, StoreInv, OwnInv, TaskInv, Busy, Holds, Changing, Loaded, Unreferenced
  <2>6. StoreInv'
    BY <1>3 DEF ApiDrop, StoreInv, RulesInv, FreshInv, OwnInv, TaskInv, Busy, Holds, Changing, Loaded, Unreferenced
  <2> QED
    BY <2>1, <2>2, <2>3, <2>4, <2>5, <2>6
<1> QED
  BY <1>1, <1>2, <1>3 DEF Api

\* The cleaner, and time.
LEMMA CleanerStep == ASSUME IInv, Cleaner \/ \E i \in Ip : Expire(i) PROVE IInv'
<1> USE NilAssumption, QuietAssumption DEF IInv, TypeOK, mapVars, taskVars, cleanVars
<1>1. CASE Wake
  <2>1. TypeOK'
    BY <1>1 DEF Wake
  <2>2. TaskInv'
    BY <1>1 DEF Wake, TaskInv, Busy
  <2>3. OwnInv'
    BY <1>1 DEF Wake, OwnInv, TaskInv, Busy, Unreferenced
  <2>4. RulesInv'
    BY <1>1 DEF Wake, RulesInv, TaskInv, Busy, Loaded
  <2>5. FreshInv'
    BY <1>1 DEF Wake, FreshInv, RulesInv, StoreInv, OwnInv, TaskInv, Busy, Holds, Changing, Loaded, Unreferenced
  <2>6. StoreInv'
    BY <1>1 DEF Wake, StoreInv, RulesInv, FreshInv, OwnInv, TaskInv, Busy, Holds, Changing, Loaded, Unreferenced
  <2> QED
    BY <2>1, <2>2, <2>3, <2>4, <2>5, <2>6
<1>2. CASE RangeEnd
  <2>1. TypeOK'
    BY <1>2 DEF RangeEnd
  <2>2. TaskInv'
    BY <1>2 DEF RangeEnd, TaskInv, Busy
  <2>3. OwnInv'
    BY <1>2 DEF RangeEnd, OwnInv, TaskInv, Busy, Unreferenced
  <2>4. RulesInv'
    BY <1>2 DEF RangeEnd, RulesInv, TaskInv, Busy, Loaded
  <2>5. FreshInv'
    BY <1>2 DEF RangeEnd, FreshInv, RulesInv, StoreInv, OwnInv, TaskInv, Busy, Holds, Changing, Loaded, Unreferenced
  <2>6. StoreInv'
    BY <1>2 DEF RangeEnd, StoreInv, RulesInv, FreshInv, OwnInv, TaskInv, Busy, Holds, Changing, Loaded, Unreferenced
  <2> QED
    BY <2>1, <2>2, <2>3, <2>4, <2>5, <2>6
<1>3. CASE CleanUsed
  <2>1. TypeOK'
    BY <1>3 DEF CleanUsed
  <2>2. TaskInv'
    BY <1>3 DEF CleanUsed, TaskInv, Busy
  <2>3. OwnInv'
    BY <1>3 DEF CleanUsed, OwnInv, TaskInv, Busy, Unreferenced
  <2>4. RulesInv'
    BY <1>3 DEF CleanUsed, RulesInv, TaskInv, Busy, Loaded
  <2>5. FreshInv'
    BY <1>3 DEF CleanUsed, FreshInv, RulesInv, StoreInv, OwnInv, TaskInv, Busy, Holds, Changing, Loaded, Unreferenced
  <2>6. StoreInv'
    BY <1>3 DEF CleanUsed, StoreInv, RulesInv, FreshInv, OwnInv, TaskInv, Busy, Holds, Changing, Loaded, Unreferenced
  <2> QED
    BY <2>1, <2>2, <2>3, <2>4, <2>5, <2>6
<1>4. CASE CleanRules
  <2>1. TypeOK'
    BY <1>4 DEF CleanRules
  <2>2. TaskInv'
    BY <1>4 DEF CleanRules, TaskInv, Busy
  <2>3. OwnInv'
    BY <1>4 DEF CleanRules, OwnInv, TaskInv, Busy, Unreferenced
  <2>4. RulesInv'
    BY <1>4 DEF CleanRules, RulesInv, TaskInv, Busy, Loaded
  <2>5. FreshInv'
    BY <1>4 DEF CleanRules, FreshInv, RulesInv, StoreInv, OwnInv, TaskInv, Busy, Holds, Changing, Loaded, Unreferenced
  <2>6. StoreInv'
    BY <1>4 DEF CleanRules, StoreInv, RulesInv, FreshInv, OwnInv, TaskInv, Busy, Holds, Changing, Loaded, Unreferenced
  <2> QED
    BY <2>1, <2>2, <2>3, <2>4, <2>5, <2>6
<1>5. CASE CleanThrottled
  <2>1. TypeOK'
    BY <1>5 DEF CleanThrottled
  <2>2. TaskInv'
    BY <1>5 DEF CleanThrottled, TaskInv, Busy
  <2>3. OwnInv'
    BY <1>5 DEF CleanThrottled, OwnInv, TaskInv, Busy, Unreferenced
  <2>4. RulesInv'
    BY <1>5 DEF CleanThrottled, RulesInv, TaskInv, Busy, Loaded
  <2>5. FreshInv'
    BY <1>5 DEF CleanThrottled, FreshInv, RulesInv, StoreInv, OwnInv, TaskInv, Busy, Holds, Changing, Loaded, Unreferenced
  <2>6. StoreInv'
    BY <1>5 DEF CleanThrottled, StoreInv, RulesInv, FreshInv, OwnInv, TaskInv, Busy, Holds, Changing, Loaded, Unreferenced
  <2> QED
    BY <2>1, <2>2, <2>3, <2>4, <2>5, <2>6
<1>6. CASE \E i \in Ip : Visit(i)
  <2>1. TypeOK'
    BY <1>6 DEF Visit
  <2>2. TaskInv'
    BY <1>6 DEF Visit, TaskInv, Busy
  <2>3. OwnInv'
    BY <1>6 DEF Visit, OwnInv, TaskInv, Busy, Unreferenced
  <2>4. RulesInv'
    BY <1>6 DEF Visit, RulesInv, TaskInv, Busy, Loaded
  <2>5. FreshInv'
    BY <1>6 DEF Visit, FreshInv, RulesInv, StoreInv, OwnInv, TaskInv, Busy, Holds, Changing, Loaded, Unreferenced
  <2>6. StoreInv'
    BY <1>6 DEF Visit, StoreInv, RulesInv, FreshInv, OwnInv, TaskInv, Busy, Holds, Changing, Loaded, Unreferenced
  <2> QED
    BY <2>1, <2>2, <2>3, <2>4, <2>5, <2>6
<1>7. CASE \E i \in Ip : Expire(i)
  <2>1. TypeOK'
    BY <1>7 DEF Expire
  <2>2. TaskInv'
    BY <1>7 DEF Expire, TaskInv, Busy
  <2>3. OwnInv'
    BY <1>7 DEF Expire, OwnInv, TaskInv, Busy, Unreferenced
  <2>4. RulesInv'
    BY <1>7 DEF Expire, RulesInv, TaskInv, Busy, Loaded
  <2>5. FreshInv'
    BY <1>7 DEF Expire, FreshInv, RulesInv, StoreInv, OwnInv, TaskInv, Busy, Holds, Changing, Loaded, Unreferenced
  <2>6. StoreInv'
    BY <1>7 DEF Expire, StoreInv, RulesInv, FreshInv, OwnInv, TaskInv, Busy, Holds, Changing, Loaded, Unreferenced
  <2> QED
    BY <2>1, <2>2, <2>3, <2>4, <2>5, <2>6
<1> QED
  BY <1>1, <1>2, <1>3, <1>4, <1>5, <1>6, <1>7 DEF Cleaner

LEMMA NextInv == IInv /\ [Next]_vars => IInv'
<1> SUFFICES ASSUME IInv, [Next]_vars PROVE IInv'
  OBVIOUS
<1>1. CASE UNCHANGED vars
  BY <1>1 DEF vars, mapVars, taskVars, cleanVars, IInv, TypeOK, TaskInv, OwnInv, RulesInv,
              FreshInv, StoreInv, Busy, Changing, Holds
<1> QED
  BY <1>1, CleanerStep, RequestStep, ApiStep DEF Next

-----------------------------------------------------------------------------
(* The theorems.                                                           *)

THEOREM Invariance == Spec => []IInv
  BY InitInv, NextInv, PTL DEF Spec

\* Variables keep their types.
THEOREM TypeCorrect == Spec => []TypeOK
<1>1. IInv => TypeOK
  BY DEF IInv
<1> QED
  BY <1>1, Invariance, PTL

\* Rules replaced between the requests of an address throttle all that follow.
THEOREM RateFollowsRules == Spec => []NoLingeringRate
<1>1. IInv => NoLingeringRate
  BY DEF IInv, TypeOK, FreshInv, Busy, NoLingeringRate
<1> QED
  BY <1>1, Invariance, PTL
=============================================================================
