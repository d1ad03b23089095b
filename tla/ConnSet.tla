------------------------------ MODULE ConnSet ------------------------------
(***************************************************************************)
(* connSet (proxy/clientConnProps.go): a sync.Map of connections beside a  *)
(* counter of its own.  Add and Remove change the map at once and leave    *)
(* the counter to a goroutine each starts, so the counter runs behind the  *)
(* map, by the increments and decrements that have not run yet.            *)
(***************************************************************************)
EXTENDS Integers, FiniteSets

NoConns == [m |-> {}, n |-> 0, inc |-> 0, dec |-> 0]

ConnSets(Conn) == [m : SUBSET Conn, n : Int, inc : Nat, dec : Nat]

Add(s, v) ==
  IF v \in s.m THEN s ELSE [s EXCEPT !.m = @ \cup {v}, !.inc = @ + 1]

\* Mutant of Remove: the counter goes down whether v was there or not.
RemoveUnchecked(s, v) == [s EXCEPT !.m = @ \ {v}, !.dec = @ + 1]

Remove(s, v) ==
  IF v \notin s.m THEN s ELSE [s EXCEPT !.m = @ \ {v}, !.dec = @ + 1]

\* The goroutines that Add and Remove started.
CountUp(s) == [s EXCEPT !.n = @ + 1, !.inc = @ - 1]

CountDown(s) == [s EXCEPT !.n = @ - 1, !.dec = @ - 1]

\* Counter goroutines that have not run.
Uncounted(s) == s.inc + s.dec

\* The counter, once every goroutine has run, is the size of the map.
Conserved(s) == s.n + s.inc - s.dec = Cardinality(s.m)
=============================================================================
