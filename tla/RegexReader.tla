----------------------------- MODULE RegexReader -----------------------------
(***************************************************************************)
(* rewriteLogic/chunkedRegexReader.go: a find-and-replace over a body of   *)
(* any length, in memory of about three times BufferSize.                  *)
(*                                                                         *)
(* regexReader.Read hands out the chunks of fixedChunkRegexReader.Read.    *)
(* That one keeps a window of the body: it replaces all matches in the     *)
(* whole window, hands out the left half of the result and keeps the right *)
(* half, into which a match may reach, as the beginning of the next window.*)
(* Slices are modelled with their length, since copying into and slicing   *)
(* from a shorter one is where the code can go wrong.                      *)
(***************************************************************************)
EXTENDS Regexp

CONSTANTS
  Byte,         \* the bytes of bodies, patterns and replacements
  Zero,         \* the byte a new slice is filled with
  Body, Find, Replace,  \* the bodies, patterns and replacements considered
  Room,         \* sizes of the buffer a caller reads into
  BufferSize    \* half a window; regexBufferSize in main.go

ASSUME BufferAssumption == BufferSize \in Nat \ {0}
ASSUME RoomAssumption == Room \subseteq Nat \ {0}
ASSUME InputAssumption == Body \cup Find \cup Replace \subseteq Seq(Byte)
ASSUME FindAssumption == <<>> \notin Find

VARIABLES
  body,      \* all that the source will deliver
  find, replace,
  eager,     \* the source reports its end together with its last bytes
  size,      \* len(p), the same in every call of one caller
  taken,     \* how much of body has been read from the source
  started,   \* buffer # nil
  buffer, midIndex, rightIndex,   \* fields of fixedChunkRegexReader
  chunk, err,                     \* fields of regexReader
  room,      \* what is left of p; Nat while Read runs
  pc,        \* where the caller or Read stands
  out,       \* the bytes the caller has received
  panic      \* a slice was taken beyond the end of its buffer

inputVars  == <<body, find, replace, eager, size>>
windowVars == <<taken, started, buffer, midIndex, rightIndex, panic>>
readVars   == <<chunk, err, room, pc, out>>
vars == <<inputVars, windowVars, readVars>>

TypeOK ==
  /\ body \in Body /\ find \in Find /\ replace \in Replace
  /\ eager \in BOOLEAN /\ started \in BOOLEAN /\ panic \in BOOLEAN
  /\ size \in Room
  /\ taken \in 0..Len(body)
  /\ buffer \in Seq(Byte \cup {Zero}) /\ chunk \in Seq(Byte \cup {Zero})
  /\ out \in Seq(Byte \cup {Zero})
  /\ midIndex \in Nat /\ rightIndex \in Nat /\ midIndex <= rightIndex
  /\ err \in {"nil", "EOF"}
  /\ room \in 0..size
  /\ pc \in {"call", "loop", "fetch", "got", "done"}

Init ==
  /\ body \in Body /\ find \in Find /\ replace \in Replace
  /\ eager \in BOOLEAN
  /\ size \in Room
  /\ taken = 0
  /\ started = FALSE /\ buffer = <<>> /\ midIndex = 0 /\ rightIndex = 0
  /\ chunk = <<>> /\ err = "nil"
  /\ room = 0 /\ pc = "call" /\ out = <<>>
  /\ panic = FALSE

\* Mutant of Min: the whole chunk is counted, whether it fits or not.
MinSecond(m, n) == n

Min(m, n) == IF m <= n THEN m ELSE n

-----------------------------------------------------------------------------
(* readUntilFull on the source.                                            *)

Rest == Len(body) - taken

\* The source ends, or fails, before or while the n bytes asked for are read.
Ends(n) == Rest < n \/ (eager /\ Rest = n)

\* The bytes it reads then.
Got(n) == SubSeq(body, taken + 1, taken + Min(n, Rest))

Replaced(s) == ReplaceAll(s, find, replace)

-----------------------------------------------------------------------------
(* fixedChunkRegexReader.Read.                                             *)

\* Mutant of Half: all of it is handed out.
HalfAll(n) == n

\* Where the result is divided: the left part is handed out.
Half(n) == n \div 2

\* The last chunk, and the end of the source with it.  What is left of the
\* window is not touched again.
Last(s) ==
  /\ chunk' = Replaced(s)
  /\ err' = "EOF"
  /\ pc' = "got"
  /\ UNCHANGED panic

\* The first window: two halves from the source.
FirstChunk ==
  /\ pc = "fetch" /\ ~started
  /\ started' = TRUE
  /\ taken' = taken + Len(Got(2 * BufferSize))
  /\ IF Ends(2 * BufferSize)
     THEN /\ Last(Got(2 * BufferSize))
          /\ buffer' = Got(2 * BufferSize)
          /\ midIndex' = BufferSize /\ rightIndex' = 2 * BufferSize
     ELSE LET new == Replaced(Got(2 * BufferSize)) IN
          /\ buffer' = new
          /\ rightIndex' = Len(new) /\ midIndex' = Half(Len(new))
          /\ chunk' = SubSeq(new, 1, Half(Len(new)))
          /\ pc' = "got"
          /\ UNCHANGED <<err, panic>>
  /\ UNCHANGED <<inputVars, room, out>>

\* Mutant of Kept: one byte of the kept half is lost.
KeptShort == SubSeq(buffer, midIndex + 2, rightIndex)

\* The right half, at the beginning of a new window.  If the replaced text
\* was longer than the old window, its end was cut off: zeros stand for it.
Kept ==
  [i \in 1..rightIndex - midIndex |->
     IF midIndex + i <= Len(buffer) THEN buffer[midIndex + i] ELSE Zero]

\* Mutant of CopyInto: the copy back into the buffer is forgotten.
CopyNothing(old, new) == old

\* copy(r.buffer, replaced): no more than fits, and what is behind stays.
CopyInto(old, new) ==
  [i \in 1..Len(old) |-> IF i <= Len(new) THEN new[i] ELSE old[i]]

\* A later window: the kept half and as much again from the source.
NextChunk ==
  /\ pc = "fetch" /\ started
  /\ taken' = taken + Len(Got(BufferSize))
  /\ LET window == Kept \o Got(BufferSize)
         new    == Replaced(window)
         mid    == Half(Len(new))
     IN
     IF Ends(BufferSize)
     THEN /\ Last(window)
          /\ buffer' = window
          /\ midIndex' = Len(Kept) /\ rightIndex' = Len(Kept) + BufferSize
     ELSE /\ buffer' = CopyInto(window, new)
          /\ rightIndex' = Len(new) /\ midIndex' = mid
          /\ panic' = (mid > Len(window))
          /\ chunk' = SubSeq(buffer', 1, Min(mid, Len(window)))
          /\ pc' = (IF panic' THEN "done" ELSE "got")
          /\ UNCHANGED err
  /\ UNCHANGED <<inputVars, started, room, out>>

-----------------------------------------------------------------------------
(* regexReader.Read, and a caller that reads until it gets an error.       *)

Call ==
  /\ pc = "call"
  /\ room' = size /\ pc' = "loop"
  /\ UNCHANGED <<inputVars, windowVars, chunk, err, out>>

\* The chunk is used up and there may be another one.
Fetch ==
  /\ pc = "loop" /\ room > 0 /\ chunk = <<>> /\ err = "nil"
  /\ pc' = "fetch"
  /\ UNCHANGED <<inputVars, windowVars, chunk, err, room, out>>

Copy ==
  /\ \/ pc = "loop" /\ room > 0
     \/ pc = "got"
  /\ chunk # <<>>
  /\ LET n == Min(room, Len(chunk)) IN
     /\ out' = out \o SubSeq(chunk, 1, n)
     /\ chunk' = SubSeq(chunk, n + 1, Len(chunk))
     /\ room' = room - n
  /\ pc' = "loop"
  /\ UNCHANGED <<inputVars, windowVars, err>>

\* Mutant of ReturnEmpty: the end of the source is not reported.
ReturnNil ==
  /\ \/ pc = "loop" /\ room > 0 /\ err # "nil"
     \/ pc = "got"
  /\ chunk = <<>>
  /\ room' = 0
  /\ pc' = "call"
  /\ UNCHANGED <<inputVars, windowVars, chunk, err, out>>

\* No chunk, or an empty one: (totalCopied, r.err), possibly (0, nil).
ReturnEmpty ==
  /\ \/ pc = "loop" /\ room > 0 /\ err # "nil"
     \/ pc = "got"
  /\ chunk = <<>>
  /\ room' = 0
  /\ pc' = (IF err = "nil" THEN "call" ELSE "done")
  /\ UNCHANGED <<inputVars, windowVars, chunk, err, out>>

\* p is full.
ReturnFull ==
  /\ pc = "loop" /\ room = 0
  /\ pc' = "call"
  /\ UNCHANGED <<inputVars, windowVars, chunk, err, room, out>>

Next ==
  FirstChunk \/ NextChunk \/ Call \/ Fetch \/ Copy \/ ReturnEmpty \/ ReturnFull

\* The caller streams the body: it reads again until it is told to stop.
Spec == Init /\ [][Next]_vars /\ WF_vars(Next)
-----------------------------------------------------------------------------
(* Properties.                                                             *)

Finished == pc = "done" /\ ~panic

IsBeginning(s, t) == Len(s) <= Len(t) /\ \A i \in 1..Len(s) : s[i] = t[i]

\* A body in which the pattern does not occur passes byte for byte: whatever
\* the sizes of the windows, of the caller's buffer and of the last read,
\* nothing is lost, doubled or moved where one window joins the next.
UnmatchedIsVerbatim ==
  ~Occurs(find, body) =>
    /\ IsBeginning(out, body)
    /\ Finished => out = body

\* The replacement cannot be part of a match, nor does deleting one match
\* bring the two ends of another together.
Disjoint ==
  /\ replace = <<>> => Len(find) = 1
  /\ \A i \in 1..Len(find), j \in 1..Len(replace) : find[i] # replace[j]

\* A replacement of the same length as the match, and any that is not longer
\* if the pattern has at most two bytes: the windows never outgrow their
\* buffer, and what is kept of one holds all that may begin a match.
Steady ==
  /\ Disjoint
  /\ \/ Len(replace) = Len(find) /\ Len(find) <= BufferSize + 1
     \/ Len(replace) <= Len(find) /\ Len(find) <= 2

\* The bodies and rules whose result is that of replacing in one piece: those
\* that end within the first window, or whose rule is steady.
Simple == Len(body) < 2 * BufferSize \/ Steady

\* Then every match is replaced exactly once, also where it straddles two or
\* three windows, up to the last byte of the body, at any moment and whatever
\* the sizes of the reads; and Read never panics.
SimpleIsExact ==
  Simple =>
    /\ ~panic
    /\ IsBeginning(out, ReplaceAll(body, find, replace))
    /\ Finished => out = ReplaceAll(body, find, replace)

\* A slice is taken beyond its buffer only if a replacement is more than
\* twice as long as what it replaces.
PanicNeedsGrowth == panic => Len(replace) > 2 * Len(find)

\* The reader as its caller sees it.
Reader == INSTANCE BodyReader WITH
  whole <- ReplaceAll(body, find, replace),
  exact <- Simple,
  given <- out,
  over  <- pc = "done"

\* The windows and chunks cannot be seen from outside: a caller is given more
\* and more of one body, the right one if the rule is simple, and is told of its
\* end, although Read may return nothing and no error in between.
ImplementsReader == Reader!Spec

\* README: "replace" replaces what is found by "find" in the body.  Violated
\* for bodies longer than a window: a longer replacement is cut at the size
\* of the old window, and a shrinking one lets a match slip between two windows.
\* (Outside Disjoint the kept half is also searched, and replaced, once more:
\* this property says nothing of such rules.)
WholeBodyReplaced == Disjoint /\ Finished => out = ReplaceAll(body, find, replace)
=============================================================================
