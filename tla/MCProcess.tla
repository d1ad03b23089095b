------------------------------ MODULE MCProcess ------------------------------
(* Process with a handful of configurations: for every part of a message,    *)
(* and with each kind of rule, legal and illegal, on one or several parts.   *)
EXTENDS Process

n == <<"nl">>
NoRule == [find |-> Nil, replace |-> Nil, append |-> Nil, prepend |-> Nil, delete |-> Nil]
FindReplace(f, r) == [NoRule EXCEPT !.find = f, !.replace = r]
ReplaceBy(r) == [NoRule EXCEPT !.replace = r]
AppendTo(s) == [NoRule EXCEPT !.append = s]
PrependTo(s) == [NoRule EXCEPT !.prepend = s]
DeleteOf(s) == [NoRule EXCEPT !.delete = s]

None == [url |-> <<>>, header |-> <<>>, body |-> <<>>, status |-> <<>>]
EntryOf(url, request, response) ==
  [url |-> url, delay |-> 1, request |-> request, response |-> response]

MCConfig == {
  \* The first entry makes the URL into one that only the second matches.
  << EntryOf(<<"g">>, [None EXCEPT !.url = <<FindReplace(<<"g">>, <<"b">>)>>],
                      [None EXCEPT !.status = <<ReplaceBy(<<"418", "T">>)>>]),
     EntryOf(<<"b">>, [None EXCEPT !.body = <<ReplaceBy(<<"r">>)>>],
                      [None EXCEPT !.body = <<DeleteOf(<<"x">>)>>]) >>,
  \* Header lines are added, twice on the same side.
  << EntryOf(Nil, [None EXCEPT !.header = <<AppendTo(<<"X">>), AppendTo(<<"Y">>)>>],
                  [None EXCEPT !.header = <<PrependTo(<<"X">>)>>]) >>,
  \* A header line is replaced; the status line loses its number.
  << EntryOf(Nil, [None EXCEPT !.header = <<FindReplace(n \o <<"A">> \o n, n \o <<"Z">> \o n)>>],
                  [None EXCEPT !.status = <<PrependTo(<<"x">>)>>]) >>,
  \* Bodies grow, and one is to be appended to.
  << EntryOf(<<"b">>, [None EXCEPT !.body = <<PrependTo(<<"p">>)>>], None),
     EntryOf(<<"g">>, None, [None EXCEPT !.body = <<AppendTo(<<"q">>)>>]) >>,
  \* A URL that does not parse.
  << EntryOf(<<"b">>, [None EXCEPT !.url = <<PrependTo(<<":">>)>>], None) >>,
  \* A configuration without rules, one with "find" alone, one that does not compile.
  << >>,
  << EntryOf(Nil, None, [None EXCEPT !.body = <<[NoRule EXCEPT !.find = <<"x">>]>>]) >>,
  << EntryOf(<<"(">>, None, None) >> }

MCRequest ==
  [url : {<<"g">>, <<"b">>}, header : {{<<"A">>, <<"B">>}}, body : {<<"x">>}]
MCResponse ==
  [line : {<<"200", "OK">>}, header : {{<<"A">>, <<"B">>}}, body : {<<"x", "y">>}]
MCSymbol ==
  {"nl", "g", "b", "r", "x", "y", "p", "q", "A", "B", "X", "Y", "Z", ":", "(",
   "200", "418", "OK", "T"}
MCBadPattern == {<<"(">>}
MCBadUrl == {<<":", "b">>}
=============================================================================
