------------------------------ MODULE Rewriting ------------------------------
(***************************************************************************)
(* Rewrite rules as pure functions: their compilation from the posted JSON *)
(* (prxConfig.go) and their application to the parts of a message          *)
(* (rewriteLogic.go).                                                      *)
(*                                                                         *)
(* Text is a sequence of symbols.  A URL or a body has symbols of any      *)
(* kind; a status line has its words; a header is a set of lines, each a   *)
(* text without NewLine.                                                   *)
(***************************************************************************)
EXTENDS Regexp, FiniteSets

CONSTANTS
  Nil,         \* a JSON key that is absent, a Go pointer that is nil
  Symbol,      \* what texts are made of
  NewLine,     \* the symbol "\n"
  Number,      \* the words strconv.Atoi accepts
  BadPattern,  \* the texts regexp.Compile rejects
  BadUrl       \* the texts url.Parse rejects

ASSUME NewLineAssumption == NewLine \in Symbol

Text == Seq(Symbol)

\* A line of a header, as net/http reads it.
Line == Seq(Symbol \ {NewLine}) \ {<<>>}

-----------------------------------------------------------------------------
(* Compile.                                                                *)

Side == {"request", "response"}
Part == {"url", "header", "body", "status"}

\* What encoding/json makes of a configuration.
Optional == {Nil} \cup Text
RuleJSON ==
  [find : Optional, replace : Optional, append : Optional, prepend : Optional, delete : Optional]
TypeJSON == [Part -> Seq(RuleJSON)]
EntryJSON == [url : Optional, delay : Nat, request : TypeJSON, response : TypeJSON]

Given(json) == {key \in DOMAIN json : json[key] # Nil}

\* The combinations of keys compileRules lets through.
LegalKeys == {{"replace"}, {"find", "replace"}, {"prepend"}, {"append"}, {"delete"}}

Legal(json) ==
  /\ Given(json) \in LegalKeys
  /\ {json.find, json.delete} \cap BadPattern = {}

\* "delete" is a replacement by nothing.
compileRule(json) ==
  [find    |-> IF json.delete # Nil THEN json.delete ELSE json.find,
   replace |-> IF json.delete # Nil THEN <<>> ELSE json.replace,
   prepend |-> json.prepend,
   append  |-> json.append]

compileRules(list) == [i \in 1..Len(list) |-> compileRule(list[i])]

compileTypes(types) == [part \in DOMAIN types |-> compileRules(types[part])]

\* Compile returns no error.
Accepts(config) ==
  \A i \in 1..Len(config) :
    /\ config[i].url \notin BadPattern
    /\ \A side \in Side, part \in Part :
         LET list == config[i][side][part] IN \A k \in 1..Len(list) : Legal(list[k])

\* An entry without a URL pattern gets ".*", which stays Nil here.
Compile(config) ==
  [i \in 1..Len(config) |->
     [url      |-> config[i].url,
      delay    |-> config[i].delay,
      request  |-> compileTypes(config[i].request),
      response |-> compileTypes(config[i].response)]]

Matches(entry, url) == IF entry.url = Nil THEN TRUE ELSE Occurs(entry.url, url)

-----------------------------------------------------------------------------
(* Application.                                                            *)

applyRule(text, rule) ==
  CASE rule.find # Nil /\ rule.replace # Nil -> ReplaceAll(text, rule.find, rule.replace)
    [] rule.find = Nil /\ rule.replace # Nil -> rule.replace
    [] rule.replace = Nil /\ rule.prepend # Nil -> rule.prepend \o text
    [] rule.replace = Nil /\ rule.prepend = Nil /\ rule.append # Nil -> text \o rule.append
    [] OTHER -> text

\* One rule after the other.
applyRules(text, rules) ==
  IF rules = <<>> THEN text
  ELSE LET after[i \in 0..Len(rules)] ==
             IF i = 0 THEN text ELSE applyRule(after[i - 1], rules[i])
       IN after[Len(rules)]

\* applyStreamRule dereferences rule.Prepend, which is nil, to append.
BodyPanics(rules) ==
  \E i \in 1..Len(rules) :
    rules[i].replace = Nil /\ rules[i].prepend = Nil /\ rules[i].append # Nil

\* Mutant of AlterStatus: the line is replaced before its number is known.
AlterStatusFirst(st, rules) ==
  LET line == applyRules(st.line, rules) IN
  [line |-> line,
   code |-> IF line # <<>> /\ line[1] \in Number THEN line[1] ELSE st.code]

\* A status line that does not begin with a number is given up.
AlterStatus(st, rules) ==
  LET line == applyRules(st.line, rules) IN
  IF line # <<>> /\ line[1] \in Number THEN [line |-> line, code |-> line[1]] ELSE st

\* Go iterates over a map in any order.
Orders(header) ==
  {order \in [1..Cardinality(header) -> header] :
     \A i, k \in DOMAIN order : order[i] = order[k] => i = k}

\* Mutant of headerToString: no line break before the first line.
headerToStringBare(order) ==
  LET str[i \in 0..Len(order)] ==
        IF i = 0 THEN <<>> ELSE str[i - 1] \o order[i] \o <<NewLine>>
  IN str[Len(order)]

headerToString(order) ==
  LET str[i \in 0..Len(order)] ==
        IF i = 0 THEN <<NewLine>> ELSE str[i - 1] \o order[i] \o <<NewLine>>
  IN IF order = <<>> THEN <<NewLine, NewLine>> ELSE str[Len(order)]

\* The lines that are not empty.
stringToHeader(str) ==
  LET isLine(i, k) ==
        /\ \A m \in i..k : str[m] # NewLine
        /\ i = 1 \/ str[i - 1] = NewLine
        /\ k = Len(str) \/ str[k + 1] = NewLine
      spans == {span \in (1..Len(str)) \X (1..Len(str)) :
                  span[1] <= span[2] /\ isLine(span[1], span[2])}
  IN {SubSeq(str, span[1], span[2]) : span \in spans}

\* The headers AlterHeader may make of one.  The line breaks it adds at the
\* ends, where the rules have removed them, do not change the lines.
AlterHeader(header, rules) ==
  IF rules = <<>> THEN {header}
  ELSE {stringToHeader(applyRules(headerToString(order), rules)) : order \in Orders(header)}
=============================================================================
