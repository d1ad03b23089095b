------------------------------ MODULE BodyReader ------------------------------
(***************************************************************************)
(* What the io.Reader of a rewritten body promises to the caller that      *)
(* streams it, with no windows, chunks or buffers: what has been handed    *)
(* out is never taken back, nothing comes after the end, and the end       *)
(* comes.  When the rewriting is exact, what is handed out is the whole    *)
(* rewritten body.  Module RegexReader implements it.                      *)
(***************************************************************************)
EXTENDS Sequences, Naturals

VARIABLES
  whole,   \* the rewritten body
  exact,   \* the reader owes its caller all of whole and nothing else
  given,   \* what the caller has
  over     \* the caller was told of the end

vars == <<whole, exact, given, over>>

Begins(s, t) == Len(s) <= Len(t) /\ \A i \in 1..Len(s) : s[i] = t[i]

Init == given = <<>> /\ over = FALSE

\* More of the body.
Hand ==
  /\ ~over
  /\ Begins(given, given') /\ given' # given
  /\ exact => Begins(given', whole)
  /\ UNCHANGED <<whole, exact, over>>

End ==
  /\ ~over
  /\ exact => given = whole
  /\ over' = TRUE
  /\ UNCHANGED <<whole, exact, given>>

Next == Hand \/ End

SafeSpec == Init /\ [][Next]_vars

\* A caller that keeps reading is told of the end.
Spec == SafeSpec /\ <>over
===============================================================================
