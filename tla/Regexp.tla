------------------------------- MODULE Regexp -------------------------------
(***************************************************************************)
(* What the rewrite logic uses of package regexp.  A pattern is a literal, *)
(* non-empty sequence of symbols, and a replacement has no "$1" in it:     *)
(* neither groups nor empty matches are modelled.                          *)
(***************************************************************************)
EXTENDS Naturals, Sequences

OccursAt(find, s, i) ==
  /\ i + Len(find) <= Len(s) + 1
  /\ \A k \in 1..Len(find) : s[i + k - 1] = find[k]

\* Regexp.Match.
Occurs(find, s) == \E i \in 1..Len(s) : OccursAt(find, s, i)

\* What becomes of s from each position on: the leftmost matches are replaced
\* that do not overlap.
ReplaceFrom(s, find, replace) ==
  LET from[i \in 1..Len(s) + 1] ==
        IF i > Len(s) THEN <<>>
        ELSE IF OccursAt(find, s, i) THEN replace \o from[i + Len(find)]
        ELSE <<s[i]>> \o from[i + 1]
  IN from

\* Regexp.ReplaceAll.
ReplaceAll(s, find, replace) ==
  IF ~Occurs(find, s) THEN s ELSE ReplaceFrom(s, find, replace)[1]
=============================================================================
