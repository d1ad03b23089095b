-------------------------- MODULE RegexReaderProofs --------------------------
(***************************************************************************)
(* For every body, pattern, replacement, buffer size and caller: what is   *)
(* read back is the body rewritten as if in one piece, as far as the code  *)
(* can promise it.                                                         *)
(*                                                                         *)
(* A body in which the pattern does not occur: Inv says of each piece      *)
(* where in the body it lies.  What the caller has is its beginning, the   *)
(* chunk follows, and the window ends where the source stands.  A piece of *)
(* such a body has no match either, so that replacing leaves every window  *)
(* as it is.                                                               *)
(*                                                                         *)
(* A body that is shorter than a window, or that meets a steady rule:      *)
(* ExactInv says that what the caller has, then the chunk, then what would *)
(* become of the kept half followed by the rest of the source is the whole *)
(* body, replaced.  That dividing a window keeps this is lemma Divided: it *)
(* rests on lemma Seam of RegexpProofs, and on what Steady says of the     *)
(* lengths.  From it follows that the reader implements BodyReader.        *)
(***************************************************************************)
EXTENDS RegexReader, RegexpProofs

\* s is what t holds behind its first k symbols, as far as s goes.
IsPart(s, t, k) == k + Len(s) <= Len(t) /\ \A i \in 1..Len(s) : s[i] = t[k + i]

\* The part of the state that has no history in it.
Typed ==
  /\ body \in Seq(Byte) /\ find \in Seq(Byte) /\ find # <<>>
  /\ eager \in BOOLEAN /\ started \in BOOLEAN
  /\ size \in Nat /\ room \in Nat /\ taken \in 0..Len(body)
  /\ out \in Seq(Byte) /\ chunk \in Seq(Byte) /\ buffer \in Seq(Byte)
  /\ err \in {"nil", "EOF"}

\* The window between two chunks.
Window ==
  started /\ err = "nil" =>
    /\ rightIndex = Len(buffer) /\ midIndex = Half(Len(buffer))
    /\ Len(buffer) <= taken
    /\ IsPart(buffer, body, taken - Len(buffer))
    /\ Len(out) + Len(chunk) = taken - Len(buffer) + midIndex

Inv ==
  /\ Typed
  /\ ~panic
  /\ IsPart(out, body, 0)
  /\ IsPart(chunk, body, Len(out))
  /\ ~started => taken = 0 /\ out = <<>> /\ chunk = <<>> /\ err = "nil"
  /\ Window
  /\ err = "EOF" => Len(out) + Len(chunk) = Len(body)
  /\ pc = "fetch" => err = "nil" /\ chunk = <<>>
  /\ pc = "done" => err = "EOF" /\ chunk = <<>>

\* The pattern of this run does not occur in its body.
Unmatched == ~Occurs(find, body)

-----------------------------------------------------------------------------

\* Half of a length, rounded down.
LEMMA HalfFact == \A n \in Nat : Half(n) \in 0..n
  BY DEF Half

\* Replacing changes no part of a text in which the pattern does not occur.
LEMMA PartUnchanged ==
  ASSUME NEW f \in Seq(Byte), NEW r, NEW s \in Seq(Byte), NEW t \in Seq(Byte),
         NEW k \in Nat, IsPart(s, t, k), ~Occurs(f, t), f # <<>>
  PROVE  ReplaceAll(s, f, r) = s
<1>1. SUFFICES ASSUME Occurs(f, s) PROVE FALSE
  BY DEF ReplaceAll
<1>2. PICK i \in 1..Len(s) : OccursAt(f, s, i)
  BY <1>1 DEF Occurs
<1>3. k + i \in 1..Len(t)
  BY DEF IsPart
<1>4. \A j \in 1..Len(f) : i + j - 1 \in 1..Len(s) /\ t[k + i + j - 1] = f[j]
  <2>1. TAKE j \in 1..Len(f)
  <2>2. i + j - 1 \in 1..Len(s) /\ s[i + j - 1] = f[j]
    BY <1>2 DEF OccursAt
  <2>3. s[i + j - 1] = t[k + (i + j - 1)]
    BY <2>2 DEF IsPart
  <2>4. k + (i + j - 1) = k + i + j - 1
    OBVIOUS
  <2> QED BY <2>2, <2>3, <2>4
<1>5. OccursAt(f, t, k + i)
  BY <1>2, <1>4 DEF OccursAt, IsPart
<1> QED BY <1>3, <1>5 DEF Occurs

\* A part of a sequence, as SubSeq takes it out.
LEMMA PartOfSeq ==
  ASSUME NEW s \in Seq(Byte), NEW k \in Nat, NEW n \in Nat, k + n <= Len(s)
  PROVE  /\ SubSeq(s, k + 1, k + n) \in Seq(Byte)
         /\ Len(SubSeq(s, k + 1, k + n)) = n
         /\ \A i \in 1..n : SubSeq(s, k + 1, k + n)[i] = s[k + i]
<1>1. \A i \in k + 1..k + n : s[i] \in Byte
  OBVIOUS
<1>2. SubSeq(s, k + 1, k + n) = [i \in 1..n |-> s[k + i]]
  OBVIOUS
<1>3. [i \in 1..n |-> s[k + i]] \in Seq(Byte) /\ Len([i \in 1..n |-> s[k + i]]) = n
  BY <1>1
<1> QED BY <1>2, <1>3

\* What readUntilFull takes from the source.
LEMMA GotFact ==
  ASSUME body \in Seq(Byte), taken \in 0..Len(body), NEW n \in Nat
  PROVE  /\ Got(n) \in Seq(Byte)
         /\ Len(Got(n)) = Min(n, Rest) /\ Min(n, Rest) \in 0..n
         /\ taken + Len(Got(n)) \in 0..Len(body)
         /\ IsPart(Got(n), body, taken)
         /\ Ends(n) => taken + Len(Got(n)) = Len(body)
         /\ ~Ends(n) => Len(Got(n)) = n
<1>1. Rest \in Nat /\ taken + Rest = Len(body) /\ taken \in Nat /\ Len(body) \in Nat
  BY DEF Rest
<1>2. Min(n, Rest) \in 0..n /\ Min(n, Rest) <= Rest
  BY <1>1 DEF Min
<1>3. Got(n) \in Seq(Byte) /\ Len(Got(n)) = Min(n, Rest)
      /\ \A i \in 1..Min(n, Rest) : Got(n)[i] = body[taken + i]
  <2> DEFINE m == Min(n, Rest)
  <2>1. m \in Nat /\ taken + m <= Len(body) /\ taken \in Nat /\ body \in Seq(Byte)
    BY <1>1, <1>2
  <2>2. Got(n) = SubSeq(body, taken + 1, taken + m)
    BY DEF Got
  <2> HIDE DEF m
  <2>3. /\ SubSeq(body, taken + 1, taken + m) \in Seq(Byte)
        /\ Len(SubSeq(body, taken + 1, taken + m)) = m
        /\ \A i \in 1..m : SubSeq(body, taken + 1, taken + m)[i] = body[taken + i]
    BY <2>1, PartOfSeq, Zenon
  <2> QED BY <2>2, <2>3, Zenon DEF m
<1>4. IsPart(Got(n), body, taken)
  BY <1>1, <1>2, <1>3 DEF IsPart
<1>5. Ends(n) => Min(n, Rest) = Rest
  BY <1>1 DEF Ends, Min
<1>6. ~Ends(n) => Min(n, Rest) = n
  BY <1>1 DEF Ends, Min
<1> QED BY <1>1, <1>2, <1>3, <1>4, <1>5, <1>6

\* The kept half of a window is the end of what has been read.
LEMMA KeptFact ==
  ASSUME Typed, Window, started, err = "nil"
  PROVE  /\ Kept \in Seq(Byte)
         /\ Len(Kept) = Len(buffer) - Half(Len(buffer))
         /\ Len(Kept) <= taken
         /\ IsPart(Kept, body, taken - Len(Kept))
<1>1. Half(Len(buffer)) \in 0..Len(buffer) /\ Len(buffer) \in Nat
  BY HalfFact DEF Typed
<1>2. rightIndex - midIndex \in Nat /\ rightIndex - midIndex <= Len(buffer)
  BY <1>1 DEF Window
<1>3. \A i \in 1..rightIndex - midIndex : midIndex + i \in 1..Len(buffer)
  BY <1>1, <1>2 DEF Window
<1>4. Kept = [i \in 1..rightIndex - midIndex |-> buffer[midIndex + i]]
  BY <1>3 DEF Kept
<1>5. \A i \in 1..rightIndex - midIndex : buffer[midIndex + i] \in Byte
  BY <1>3 DEF Typed
<1>6. Kept \in Seq(Byte) /\ Len(Kept) = rightIndex - midIndex
  BY <1>2, <1>4, <1>5
<1>7. /\ taken \in Nat /\ Len(Kept) \in Nat /\ midIndex \in Nat
      /\ Len(Kept) = Len(buffer) - midIndex
  BY <1>1, <1>6 DEF Window, Typed
<1>8. \A i \in 1..Len(Kept) : Kept[i] = body[taken - Len(Kept) + i]
  <2>1. TAKE i \in 1..Len(Kept)
  <2>2. Kept[i] = buffer[midIndex + i]
    BY <1>4, <1>6
  <2>3. buffer[midIndex + i] = body[taken - Len(buffer) + (midIndex + i)]
    BY <1>3, <1>6 DEF Window, IsPart
  <2>4. taken - Len(buffer) + (midIndex + i) = taken - Len(Kept) + i
    BY <1>1, <1>7
  <2> QED BY <2>2, <2>3, <2>4
<1>9. Len(Kept) <= taken /\ taken \in Nat /\ taken <= Len(body) /\ Len(body) \in Nat
  BY <1>2, <1>6 DEF Window, Typed
<1> QED BY <1>1, <1>6, <1>8, <1>9 DEF IsPart, Window

\* Two parts that lie side by side.
LEMMA PartConcat ==
  ASSUME NEW s \in Seq(Byte), NEW u \in Seq(Byte), NEW t \in Seq(Byte), NEW k \in Nat,
         IsPart(s, t, k), IsPart(u, t, k + Len(s))
  PROVE  IsPart(s \o u, t, k)
<1>1. Len(s \o u) = Len(s) + Len(u)
  OBVIOUS
<1>2. \A i \in 1..Len(s \o u) : (s \o u)[i] = t[k + i]
  <2>1. TAKE i \in 1..Len(s \o u)
  <2>2. CASE i <= Len(s)
    <3>1. (s \o u)[i] = s[i]
      BY <2>2
    <3> QED BY <2>2, <3>1 DEF IsPart
  <2>3. CASE i > Len(s)
    <3>1. i - Len(s) \in 1..Len(u)
      BY <1>1, <2>3
    <3>2. (s \o u)[i] = u[i - Len(s)]
      BY <1>1, <2>3
    <3>3. u[i - Len(s)] = t[k + Len(s) + (i - Len(s))]
      BY <3>1 DEF IsPart
    <3>4. k + Len(s) + (i - Len(s)) = k + i
      OBVIOUS
    <3> QED BY <3>2, <3>3, <3>4
  <2> QED BY <2>2, <2>3
<1> QED BY <1>1, <1>2 DEF IsPart

\* The beginning of a part is a part.
LEMMA PartPrefix ==
  ASSUME NEW s \in Seq(Byte), NEW t \in Seq(Byte), NEW k \in Nat, NEW n \in 0..Len(s),
         IsPart(s, t, k)
  PROVE  /\ SubSeq(s, 1, n) \in Seq(Byte) /\ Len(SubSeq(s, 1, n)) = n
         /\ IsPart(SubSeq(s, 1, n), t, k)
<1>1. SubSeq(s, 1, n) \in Seq(Byte) /\ Len(SubSeq(s, 1, n)) = n
      /\ \A i \in 1..n : SubSeq(s, 1, n)[i] = s[i]
  OBVIOUS
<1> QED BY <1>1 DEF IsPart

-----------------------------------------------------------------------------

LEMMA InitInv == Init => Inv
<1> SUFFICES ASSUME Init PROVE Inv
  OBVIOUS
<1>1. body \in Seq(Byte) /\ find \in Seq(Byte) /\ find # <<>> /\ size \in Nat
  BY InputAssumption, RoomAssumption, FindAssumption DEF Init
<1>2. out = <<>> /\ chunk = <<>> /\ buffer = <<>> /\ Len(<<>>) = 0 /\ <<>> \in Seq(Byte)
  BY DEF Init
<1>3. Typed
  <2>1. taken = 0 /\ room = 0 /\ Len(body) \in Nat
    BY <1>1 DEF Init
  <2>2. taken \in 0..Len(body) /\ room \in Nat
    BY <2>1
  <2>3. eager \in BOOLEAN /\ started \in BOOLEAN
    BY DEF Init
  <2>4. err \in {"nil", "EOF"}
    BY DEF Init
  <2> QED BY <1>1, <1>2, <2>2, <2>3, <2>4, Zenon DEF Typed
<1>4. IsPart(<<>>, body, 0)
  BY <1>1, <1>2 DEF IsPart
<1>5. IsPart(out, body, 0) /\ IsPart(chunk, body, Len(out))
  BY <1>2, <1>4, Zenon
<1>6. ~panic /\ taken = 0 /\ started = FALSE /\ err = "nil" /\ pc = "call"
  BY DEF Init
<1>7. Window
  BY <1>6 DEF Window
<1>8. pc # "fetch" /\ pc # "done" /\ err # "EOF"
  BY <1>6
<1> QED BY <1>2, <1>3, <1>5, <1>6, <1>7, <1>8, Zenon DEF Inv

\* The first window, and the half of it that is handed out.
LEMMA FirstStep == Inv /\ Unmatched /\ FirstChunk => Inv'
<1> SUFFICES ASSUME Inv, Unmatched, FirstChunk PROVE Inv'
  OBVIOUS
<1> DEFINE g == Got(2 * BufferSize)
<1>1. Typed /\ taken = 0 /\ out = <<>> /\ chunk = <<>> /\ err = "nil" /\ ~panic
  BY DEF Inv, FirstChunk
<1>2. 2 * BufferSize \in Nat
  BY BufferAssumption
<1>3. /\ g \in Seq(Byte) /\ taken + Len(g) \in 0..Len(body) /\ IsPart(g, body, 0)
      /\ Ends(2 * BufferSize) => taken + Len(g) = Len(body)
  BY <1>1, <1>2, GotFact DEF Typed
<1>4. Replaced(g) = g
  BY <1>1, <1>3, PartUnchanged DEF Replaced, Unmatched, Typed
<1>5. UNCHANGED inputVars /\ out' = <<>> /\ room' = room /\ started' = TRUE
      /\ taken' = Len(g)
  BY <1>1, <1>3 DEF FirstChunk
<1> HIDE DEF g
<1>6. CASE Ends(2 * BufferSize)
  <2>1. chunk' = g /\ err' = "EOF" /\ pc' = "got" /\ panic' = panic /\ buffer' = g
    BY <1>4, <1>6 DEF FirstChunk, Last, g
  <2>2. Typed'
    BY <1>1, <1>3, <1>5, <2>1 DEF Typed, inputVars
  <2> QED BY <1>1, <1>3, <1>5, <1>6, <2>1, <2>2 DEF Inv, Window, IsPart, inputVars
<1>7. CASE ~Ends(2 * BufferSize)
  <2>1. /\ buffer' = g /\ rightIndex' = Len(g) /\ midIndex' = Half(Len(g))
        /\ chunk' = SubSeq(g, 1, Half(Len(g))) /\ pc' = "got"
        /\ err' = err /\ panic' = panic
    BY <1>4, <1>7 DEF FirstChunk, g
  <2>2. Half(Len(g)) \in 0..Len(g) /\ Len(g) \in Nat
    BY <1>3, HalfFact
  <2>3. chunk' \in Seq(Byte) /\ Len(chunk') = Half(Len(g)) /\ IsPart(chunk', body, 0)
    BY <1>1, <1>3, <2>1, <2>2, PartPrefix DEF Typed
  <2>4. Typed'
    BY <1>1, <1>3, <1>5, <2>1, <2>3 DEF Typed, inputVars
  <2>5. Window'
    BY <1>1, <1>3, <1>5, <2>1, <2>2, <2>3 DEF Window, inputVars
  <2>6. IsPart(out, body, 0)' /\ IsPart(chunk, body, Len(out))'
    BY <1>1, <1>5, <2>3 DEF IsPart, inputVars, Typed
  <2> QED BY <1>1, <1>5, <2>1, <2>4, <2>5, <2>6 DEF Inv
<1> QED BY <1>6, <1>7

\* A later window: the kept half, what is read now, and how they join.
LEMMA NextStep == Inv /\ Unmatched /\ NextChunk => Inv'
<1> SUFFICES ASSUME Inv, Unmatched, NextChunk PROVE Inv'
  OBVIOUS
<1> DEFINE g == Got(BufferSize)
           w == Kept \o g
           k == taken - Len(Kept)
<1>1. Typed /\ Window /\ started /\ err = "nil" /\ chunk = <<>> /\ ~panic
  BY DEF Inv, NextChunk
<1>2. BufferSize \in Nat
  BY BufferAssumption
<1>3. /\ g \in Seq(Byte) /\ taken + Len(g) \in 0..Len(body) /\ IsPart(g, body, taken)
      /\ Ends(BufferSize) => taken + Len(g) = Len(body)
  BY <1>1, <1>2, GotFact DEF Typed
<1>4. /\ Kept \in Seq(Byte) /\ Len(Kept) <= taken /\ IsPart(Kept, body, k)
      /\ Len(Kept) = Len(buffer) - Half(Len(buffer))
  BY <1>1, KeptFact
<1>5. k \in Nat /\ k + Len(Kept) = taken /\ taken \in Nat /\ Len(Kept) \in Nat
  BY <1>1, <1>4 DEF Typed
<1> HIDE DEF g, k
<1>6. w \in Seq(Byte) /\ Len(w) = Len(Kept) + Len(g) /\ IsPart(w, body, k)
  <2>1. Kept \in Seq(Byte) /\ g \in Seq(Byte) /\ body \in Seq(Byte) /\ k \in Nat
        /\ IsPart(Kept, body, k) /\ IsPart(g, body, k + Len(Kept))
    BY <1>1, <1>3, <1>4, <1>5 DEF Typed
  <2>2. IsPart(Kept \o g, body, k)
    BY <2>1, PartConcat, Zenon
  <2>3. Kept \o g \in Seq(Byte) /\ Len(Kept \o g) = Len(Kept) + Len(g)
    BY <2>1, ConcatProperties, Zenon
  <2> QED BY <2>2, <2>3
<1>7. taken + Len(g) = k + Len(w) /\ Len(w) \in Nat
  BY <1>3, <1>5, <1>6
<1>8. Replaced(w) = w
  BY <1>1, <1>5, <1>6, PartUnchanged DEF Replaced, Unmatched, Typed
<1>9. Len(out) = k
  <2>1. Len(out) + Len(chunk) = taken - Len(buffer) + Half(Len(buffer))
    BY <1>1 DEF Window
  <2>2. Len(chunk) = 0 /\ Len(out) \in Nat /\ Len(buffer) \in Nat
        /\ Half(Len(buffer)) \in Nat
    <3>1. Len(chunk) = 0
      BY <1>1
    <3>2. Len(buffer) \in Nat /\ Len(out) \in Nat
      BY <1>1 DEF Typed
    <3>3. Half(Len(buffer)) \in 0..Len(buffer)
      BY <3>2, HalfFact
    <3> QED BY <3>1, <3>2, <3>3
  <2>3. Len(Kept) = Len(buffer) - Half(Len(buffer)) /\ k = taken - Len(Kept)
    BY <1>4 DEF k
  <2> QED BY <1>5, <2>1, <2>2, <2>3
<1>10. UNCHANGED inputVars /\ out' = out /\ room' = room /\ started' = started
       /\ taken' = taken + Len(g)
  BY DEF NextChunk, g
<1>11. IsPart(out, body, 0)'
  BY <1>10 DEF Inv, IsPart, inputVars
<1> HIDE DEF w
<1>12. CASE Ends(BufferSize)
  <2>1. chunk' = w /\ err' = "EOF" /\ pc' = "got" /\ panic' = panic /\ buffer' = w
    BY <1>8, <1>12 DEF NextChunk, Last, g, w
  <2>2. Typed'
    BY <1>1, <1>3, <1>6, <1>10, <2>1 DEF Typed, inputVars
  <2>3. IsPart(chunk, body, Len(out))'
    BY <1>6, <1>9, <1>10, <2>1 DEF inputVars
  <2>4. Len(out') + Len(chunk') = Len(body')
    BY <1>3, <1>7, <1>9, <1>10, <1>12, <2>1 DEF inputVars
  <2>5. Window'
    BY <2>1 DEF Window
  <2>6. started' /\ ~panic'
    BY <1>1, <1>10, <2>1
  <2> QED BY <1>11, <2>1, <2>2, <2>3, <2>4, <2>5, <2>6 DEF Inv
<1>13. CASE ~Ends(BufferSize)
  <2>1. Half(Len(w)) \in 0..Len(w)
    BY <1>7, HalfFact
  <2>2. CopyInto(w, w) = w
    BY <1>6 DEF CopyInto
  <2>3. Min(Half(Len(w)), Len(w)) = Half(Len(w)) /\ ~(Half(Len(w)) > Len(w))
    BY <1>7, <2>1 DEF Min
  <2>4. /\ buffer' = w /\ rightIndex' = Len(w) /\ midIndex' = Half(Len(w))
        /\ chunk' = SubSeq(w, 1, Half(Len(w))) /\ pc' = "got"
        /\ err' = err /\ ~panic'
    BY <1>8, <1>13, <2>2, <2>3 DEF NextChunk, g, w
  <2>5. chunk' \in Seq(Byte) /\ Len(chunk') = Half(Len(w)) /\ IsPart(chunk', body, k)
    BY <1>1, <1>5, <1>6, <2>1, <2>4, PartPrefix DEF Typed
  <2>6. Typed'
    BY <1>1, <1>3, <1>6, <1>10, <2>4, <2>5 DEF Typed, inputVars
  <2>7. IsPart(chunk, body, Len(out))'
    BY <1>9, <1>10, <2>5 DEF inputVars
  <2>8. taken' - Len(buffer') = k /\ Len(buffer') <= taken'
    BY <1>5, <1>7, <1>10, <2>4
  <2>9. Window'
    BY <1>6, <1>9, <1>10, <2>1, <2>4, <2>5, <2>8 DEF Window, inputVars
  <2> QED BY <1>1, <1>10, <1>11, <2>4, <2>6, <2>7, <2>9 DEF Inv
<1> QED BY <1>12, <1>13

\* Copying moves bytes from the chunk to the caller, in their order.
LEMMA CopyStep == Inv /\ Copy => Inv'
<1> SUFFICES ASSUME Inv, Copy PROVE Inv'
  OBVIOUS
<1> DEFINE n == Min(room, Len(chunk))
           head == SubSeq(chunk, 1, n)
           tail == SubSeq(chunk, n + 1, Len(chunk))
<1>1. Typed /\ out \in Seq(Byte) /\ chunk \in Seq(Byte) /\ room \in Nat /\ body \in Seq(Byte)
  BY DEF Inv, Typed
<1>2. n \in 0..Len(chunk) /\ n <= room /\ Len(chunk) \in Nat
  BY <1>1 DEF Min
<1>3. /\ out' = out \o head /\ chunk' = tail /\ room' = room - n /\ pc' = "loop"
      /\ UNCHANGED <<inputVars, windowVars, err>>
  BY DEF Copy
<1> HIDE DEF n
<1>4. head \in Seq(Byte) /\ Len(head) = n /\ IsPart(head, body, Len(out))
  BY <1>1, <1>2, PartPrefix DEF Inv
<1>5. /\ tail \in Seq(Byte) /\ Len(tail) = Len(chunk) - n
      /\ \A i \in 1..Len(tail) : tail[i] = chunk[n + i]
  <2>1. Len(chunk) = n + (Len(chunk) - n) /\ Len(chunk) - n \in Nat /\ n \in Nat
    BY <1>2
  <2> DEFINE m == Len(chunk) - n
  <2>2. n + m = Len(chunk) /\ tail = SubSeq(chunk, n + 1, n + m)
    BY <2>1
  <2>3. n \in Nat /\ m \in Nat /\ n + m <= Len(chunk)
    BY <2>1, <2>2
  <2> HIDE DEF m, tail
  <2>4. /\ SubSeq(chunk, n + 1, n + m) \in Seq(Byte)
        /\ Len(SubSeq(chunk, n + 1, n + m)) = m
        /\ \A i \in 1..m : SubSeq(chunk, n + 1, n + m)[i] = chunk[n + i]
    BY <1>1, <2>3, PartOfSeq, Zenon
  <2> QED BY <2>2, <2>4, Zenon DEF m
<1> HIDE DEF head, tail
<1>6. out' \in Seq(Byte) /\ Len(out') = Len(out) + n /\ Len(chunk') = Len(chunk) - n
  <2>1. out \o head \in Seq(Byte) /\ Len(out \o head) = Len(out) + Len(head)
    BY <1>1, <1>4, ConcatProperties, Zenon
  <2> QED BY <1>3, <1>4, <1>5, <2>1
<1>7. IsPart(out', body, 0)
  <2>1. IsPart(out, body, 0) /\ IsPart(head, body, 0 + Len(out))
    BY <1>1, <1>4 DEF Inv
  <2> QED BY <1>1, <1>3, <1>4, <2>1, PartConcat
<1>8. IsPart(chunk', body, Len(out'))
  <2>1. \A i \in 1..Len(tail) : n + i \in 1..Len(chunk)
    BY <1>2, <1>5
  <2>2. \A i \in 1..Len(tail) : chunk[n + i] = body[Len(out) + (n + i)]
    BY <2>1 DEF Inv, IsPart
  <2>3. \A i \in 1..Len(tail) : Len(out) + (n + i) = Len(out') + i
    BY <1>1, <1>2, <1>6
  <2>4. \A i \in 1..Len(tail) : tail[i] = body[Len(out') + i]
    BY <1>5, <2>2, <2>3
  <2>5. Len(out) + Len(chunk) <= Len(body)
    BY DEF Inv, IsPart
  <2>6. Len(out') + Len(tail) <= Len(body)
    BY <1>1, <1>2, <1>5, <1>6, <2>5
  <2> QED BY <1>3, <2>4, <2>6 DEF IsPart
<1>9. Typed'
  BY <1>1, <1>2, <1>3, <1>5, <1>6 DEF Typed, inputVars, windowVars
<1>10. Len(out') + Len(chunk') = Len(out) + Len(chunk)
  BY <1>1, <1>2, <1>6
<1>11. Window'
  BY <1>3, <1>10 DEF Inv, Window, inputVars, windowVars, IsPart
<1>12. ~started' => FALSE
  BY <1>3 DEF Inv, Copy, windowVars
<1> QED BY <1>3, <1>7, <1>8, <1>9, <1>10, <1>11, <1>12 DEF Inv, inputVars, windowVars

\* The steps of Read and of its caller that move no bytes.
LEMMA CallStep == Inv /\ (Call \/ Fetch \/ ReturnEmpty \/ ReturnFull) => Inv'
<1> SUFFICES ASSUME Inv, Call \/ Fetch \/ ReturnEmpty \/ ReturnFull PROVE Inv'
  OBVIOUS
<1>1. UNCHANGED <<inputVars, windowVars, chunk, err, out>>
  BY DEF Call, Fetch, ReturnEmpty, ReturnFull
<1>2. room' \in Nat
  BY DEF Call, Fetch, ReturnEmpty, ReturnFull, Inv, Typed
<1>3. Typed' /\ Window'
  BY <1>1, <1>2 DEF Inv, Typed, Window, inputVars, windowVars
<1>4. pc' = "fetch" => err = "nil" /\ chunk = <<>>
  BY DEF Call, Fetch, ReturnEmpty, ReturnFull
<1>5. pc' = "done" => err = "EOF" /\ chunk = <<>>
  BY DEF Call, Fetch, ReturnEmpty, ReturnFull, Inv, Typed
<1> QED BY <1>1, <1>3, <1>4, <1>5 DEF Inv, inputVars, windowVars

\* A body in which the pattern does not occur reaches its reader byte for
\* byte, and Read does not panic: for all sizes of windows and of callers'
\* buffers, wherever the source ends, and whatever the replacement is.
THEOREM UnmatchedPasses == Spec => [](UnmatchedIsVerbatim /\ (Unmatched => ~panic))
<1>1. Init => (Unmatched => Inv)
  BY InitInv
<1>2. (Unmatched => Inv) /\ [Next]_vars => (Unmatched => Inv)'
  <2> SUFFICES ASSUME Unmatched => Inv, [Next]_vars, Unmatched' PROVE Inv'
    OBVIOUS
  <2>1. UNCHANGED <<body, find>>
    BY DEF Next, vars, inputVars, FirstChunk, NextChunk, Call, Fetch, Copy, ReturnEmpty,
           ReturnFull
  <2>2. Unmatched /\ Inv
    BY <2>1 DEF Unmatched
  <2>3. CASE UNCHANGED vars
    BY <2>2, <2>3 DEF vars, Inv, Typed, Window, inputVars, windowVars, readVars
  <2>4. CASE Next
    BY <2>2, <2>4, FirstStep, NextStep, CopyStep, CallStep DEF Next
  <2> QED BY <2>3, <2>4
<1>3. (Unmatched => Inv) => UnmatchedIsVerbatim /\ (Unmatched => ~panic)
  <2> SUFFICES ASSUME Unmatched, Inv PROVE UnmatchedIsVerbatim /\ ~panic
    BY DEF UnmatchedIsVerbatim, Unmatched
  <2>1. IsBeginning(out, body)
    BY DEF IsBeginning, Inv, IsPart, Typed
  <2>2. Finished => Len(out) = Len(body)
    BY DEF Finished, Inv, Typed
  <2>3. Finished => out = body
    <3>1. out \in Seq(Byte) /\ body \in Seq(Byte)
      BY DEF Inv, Typed
    <3> QED BY <2>1, <2>2, <3>1 DEF IsBeginning
  <2> QED BY <2>1, <2>3 DEF UnmatchedIsVerbatim, Inv
<1> QED BY <1>1, <1>2, <1>3, PTL DEF Spec

-----------------------------------------------------------------------------
(* Types, and the bound of the memory.                                     *)

\* What slices hold: bytes, and the zeros they were made with.
Cell == Byte \cup {Zero}

LEMMA InputsTyped ==
  ASSUME TypeOK
  PROVE  /\ body \in Seq(Byte) /\ find \in Seq(Byte) /\ replace \in Seq(Byte)
         /\ body \in Seq(Cell) /\ find \in Seq(Cell) /\ replace \in Seq(Cell)
         /\ find # <<>> /\ taken \in 0..Len(body)
<1>1. body \in Seq(Byte) /\ find \in Seq(Byte) /\ replace \in Seq(Byte) /\ find # <<>>
  BY InputAssumption, FindAssumption DEF TypeOK
<1>2. \A s \in Seq(Byte) : s \in Seq(Cell)
  BY SeqMonotonic DEF Cell
<1> QED
  BY <1>1, <1>2 DEF TypeOK

LEMMA ReplacedTyped ==
  ASSUME TypeOK, NEW s \in Seq(Cell)
  PROVE  /\ Replaced(s) \in Seq(Cell)
         /\ Len(replace) <= 2 * Len(find) => Len(Replaced(s)) <= 2 * Len(s)
         /\ Len(replace) <= Len(find) => Len(Replaced(s)) <= Len(s)
         /\ Len(replace) = Len(find) => Len(Replaced(s)) = Len(s)
<1>1. find \in Seq(Cell) /\ replace \in Seq(Cell) /\ find # <<>>
  BY InputsTyped
<1> QED
  BY <1>1, ReplaceLength DEF Replaced

\* The kept half, and the window it begins.
LEMMA WindowTyped ==
  ASSUME TypeOK
  PROVE  /\ Kept \in Seq(Cell) /\ Len(Kept) = rightIndex - midIndex
         /\ \A n \in Nat : Got(n) \in Seq(Cell) /\ Kept \o Got(n) \in Seq(Cell)
<1>1. PICK n \in Nat : rightIndex - midIndex = n
  BY DEF TypeOK
<1>2. \A i \in 1..n :
        (IF midIndex + i <= Len(buffer) THEN buffer[midIndex + i] ELSE Zero) \in Cell
  BY DEF TypeOK, Cell
<1>3. Kept = [i \in 1..n |-> IF midIndex + i <= Len(buffer) THEN buffer[midIndex + i] ELSE Zero]
  BY <1>1 DEF Kept
<1>4. Kept \in Seq(Cell) /\ Len(Kept) = n
  BY <1>2, <1>3
<1>5. ASSUME NEW m \in Nat PROVE Got(m) \in Seq(Cell)
  <2>1. Got(m) \in Seq(Byte)
    BY InputsTyped, GotFact
  <2> QED
    BY <2>1, SeqMonotonic DEF Cell
<1> QED
  BY <1>1, <1>4, <1>5, ConcatProperties

\* Copying into a slice keeps its length.
LEMMA CopyTyped ==
  ASSUME NEW old \in Seq(Cell), NEW new \in Seq(Cell)
  PROVE  CopyInto(old, new) \in Seq(Cell) /\ Len(CopyInto(old, new)) = Len(old)
<1>1. Len(old) \in Nat /\ \A i \in 1..Len(old) : (IF i <= Len(new) THEN new[i] ELSE old[i]) \in Cell
  OBVIOUS
<1>2. /\ [i \in 1..Len(old) |-> IF i <= Len(new) THEN new[i] ELSE old[i]] \in Seq(Cell)
      /\ Len([i \in 1..Len(old) |-> IF i <= Len(new) THEN new[i] ELSE old[i]]) = Len(old)
  BY <1>1
<1> QED
  BY <1>2 DEF CopyInto

LEMMA PrefixTyped ==
  ASSUME NEW s \in Seq(Cell), NEW n \in 0..Len(s)
  PROVE  SubSeq(s, 1, n) \in Seq(Cell) /\ Len(SubSeq(s, 1, n)) = n
  OBVIOUS

LEMMA InitTyped == Init => TypeOK
<1> SUFFICES ASSUME Init PROVE TypeOK
  OBVIOUS
<1>1. /\ body \in Seq(Byte) /\ size \in Nat /\ taken = 0 /\ room = 0
      /\ buffer = <<>> /\ chunk = <<>> /\ out = <<>> /\ <<>> \in Seq(Cell)
  BY InputAssumption, RoomAssumption DEF Init
<1>2. taken \in 0..Len(body) /\ room \in 0..size
  BY <1>1
<1>3. midIndex \in Nat /\ rightIndex \in Nat /\ midIndex <= rightIndex
  BY DEF Init
<1> QED
  BY <1>1, <1>2, <1>3 DEF Init, TypeOK, Cell

LEMMA FirstTyped == TypeOK /\ FirstChunk => TypeOK'
<1> SUFFICES ASSUME TypeOK, FirstChunk PROVE TypeOK'
  OBVIOUS
<1> DEFINE g == Got(2 * BufferSize)
           new == Replaced(g)
<1>1. 2 * BufferSize \in Nat /\ BufferSize \in Nat /\ BufferSize <= 2 * BufferSize
  BY BufferAssumption
<1>2. g \in Seq(Cell) /\ taken + Len(g) \in 0..Len(body)
  BY <1>1, WindowTyped, InputsTyped, GotFact
<1>3. new \in Seq(Cell) /\ Len(new) \in Nat /\ Half(Len(new)) \in 0..Len(new)
  BY <1>2, ReplacedTyped, HalfFact
<1>4. SubSeq(new, 1, Half(Len(new))) \in Seq(Cell)
  BY <1>3, PrefixTyped
<1>5. UNCHANGED <<inputVars, room, out>> /\ started' = TRUE /\ taken' = taken + Len(g)
  BY DEF FirstChunk
<1>6. CASE Ends(2 * BufferSize)
  <2>1. /\ chunk' = new /\ err' = "EOF" /\ pc' = "got" /\ UNCHANGED panic /\ buffer' = g
        /\ midIndex' = BufferSize /\ rightIndex' = 2 * BufferSize
    BY <1>6 DEF FirstChunk, Last
  <2> HIDE DEF g, new
  <2> QED
    BY <1>1, <1>2, <1>3, <1>5, <2>1 DEF TypeOK, inputVars, Cell
<1>7. CASE ~Ends(2 * BufferSize)
  <2>1. /\ buffer' = new /\ rightIndex' = Len(new) /\ midIndex' = Half(Len(new))
        /\ chunk' = SubSeq(new, 1, Half(Len(new))) /\ pc' = "got" /\ UNCHANGED <<err, panic>>
    BY <1>7 DEF FirstChunk
  <2> HIDE DEF g, new
  <2> QED
    BY <1>2, <1>3, <1>4, <1>5, <2>1 DEF TypeOK, inputVars, Cell
<1> QED
  BY <1>6, <1>7

\* Half of what comes out is beyond the window only if a replacement is more
\* than twice as long as its match.
LEMMA NextTyped == TypeOK /\ PanicNeedsGrowth /\ NextChunk => TypeOK' /\ PanicNeedsGrowth'
<1> SUFFICES ASSUME TypeOK, PanicNeedsGrowth, NextChunk PROVE TypeOK' /\ PanicNeedsGrowth'
  OBVIOUS
<1> DEFINE g == Got(BufferSize)
           window == Kept \o g
           new == Replaced(window)
           mid == Half(Len(new))
           copied == CopyInto(window, new)
           handed == SubSeq(copied, 1, Min(mid, Len(window)))
<1>1. BufferSize \in Nat
  BY BufferAssumption
<1>2. /\ window \in Seq(Cell) /\ Len(window) \in Nat /\ Len(Kept) \in Nat
      /\ taken + Len(g) \in 0..Len(body)
  <2>1. window \in Seq(Cell) /\ Kept \in Seq(Cell)
    BY <1>1, WindowTyped
  <2>2. taken + Len(g) \in 0..Len(body)
    BY <1>1, InputsTyped, GotFact
  <2> HIDE DEF window, g
  <2> QED
    BY <2>1, <2>2
<1>3. /\ new \in Seq(Cell) /\ Len(new) \in Nat /\ mid \in 0..Len(new)
      /\ Len(replace) <= 2 * Len(find) => Len(new) <= 2 * Len(window)
  <2>1. new \in Seq(Cell) /\ (Len(replace) <= 2 * Len(find) => Len(new) <= 2 * Len(window))
    BY <1>2, ReplacedTyped
  <2> HIDE DEF window, new
  <2> QED
    BY <2>1, HalfFact
<1>4. copied \in Seq(Cell) /\ Len(copied) = Len(window)
  BY <1>2, <1>3, CopyTyped
<1>5. handed \in Seq(Cell)
  <2>1. Min(mid, Len(window)) \in 0..Len(window)
    <3> HIDE DEF mid, window
    <3> QED
      BY <1>2, <1>3 DEF Min
  <2> QED
    BY <1>4, <2>1, PrefixTyped
<1>6. mid > Len(window) => Len(replace) > 2 * Len(find)
  <2>1. Len(replace) \in Nat /\ Len(find) \in Nat
    BY InputsTyped
  <2>2. mid = Len(new) \div 2
    BY DEF Half
  <2> HIDE DEF new, window, mid
  <2> QED
    BY <1>2, <1>3, <2>1, <2>2
<1>7. UNCHANGED <<inputVars, started, room, out>> /\ taken' = taken + Len(g)
  BY DEF NextChunk
<1>8. CASE Ends(BufferSize)
  <2>1. /\ chunk' = new /\ err' = "EOF" /\ pc' = "got" /\ UNCHANGED panic /\ buffer' = window
        /\ midIndex' = Len(Kept) /\ rightIndex' = Len(Kept) + BufferSize
    BY <1>8 DEF NextChunk, Last
  <2> HIDE DEF g, window, new
  <2> QED
    BY <1>1, <1>2, <1>3, <1>7, <2>1 DEF TypeOK, PanicNeedsGrowth, inputVars, Cell
<1>9. CASE ~Ends(BufferSize)
  <2>1. /\ buffer' = copied /\ rightIndex' = Len(new) /\ midIndex' = mid
        /\ panic' = (mid > Len(window)) /\ chunk' = handed
        /\ pc' = (IF panic' THEN "done" ELSE "got") /\ UNCHANGED err
    BY <1>9 DEF NextChunk
  <2> HIDE DEF g, window, new, mid, copied, handed
  <2>2. panic' \in BOOLEAN /\ pc' \in {"done", "got"}
    BY <2>1
  <2>3. PanicNeedsGrowth'
    BY <1>6, <1>7, <2>1 DEF PanicNeedsGrowth, inputVars
  <2> QED
    BY <1>2, <1>3, <1>4, <1>5, <1>7, <2>1, <2>2, <2>3 DEF TypeOK, inputVars, Cell
<1> QED
  BY <1>8, <1>9

\* Copying out of the chunk.
LEMMA CopyOut ==
  ASSUME TypeOK, Copy
  PROVE  \E n \in 0..Len(chunk) :
           /\ n <= room
           /\ out' = out \o SubSeq(chunk, 1, n) /\ chunk' = Behind(chunk, n)
           /\ room' = room - n
<1> DEFINE n == Min(room, Len(chunk))
<1>1. chunk \in Seq(Cell) /\ room \in Nat /\ Len(chunk) \in Nat
  BY DEF TypeOK, Cell
<1>2. n \in 0..Len(chunk) /\ n <= room
  BY <1>1 DEF Min
<1>3. out' = out \o SubSeq(chunk, 1, n) /\ chunk' = Behind(chunk, n) /\ room' = room - n
  BY DEF Copy, Behind
<1> HIDE DEF n
<1> QED
  BY <1>2, <1>3

LEMMA CopyKeepsTypes == TypeOK /\ Copy => TypeOK'
<1> SUFFICES ASSUME TypeOK, Copy PROVE TypeOK'
  OBVIOUS
<1>1. PICK n \in 0..Len(chunk) :
        /\ n <= room /\ room' = room - n
        /\ out' = out \o SubSeq(chunk, 1, n) /\ chunk' = Behind(chunk, n)
  BY CopyOut
<1>2. chunk \in Seq(Cell) /\ out \in Seq(Cell) /\ room \in 0..size /\ size \in Nat
  BY RoomAssumption DEF TypeOK, Cell
<1>3. SubSeq(chunk, 1, n) \in Seq(Cell) /\ Behind(chunk, n) \in Seq(Cell)
  BY <1>2, Cut
<1>4. out' \in Seq(Cell) /\ chunk' \in Seq(Cell) /\ room' \in 0..size
  BY <1>1, <1>2, <1>3, ConcatProperties
<1>5. UNCHANGED <<inputVars, windowVars, err>> /\ pc' = "loop"
  BY DEF Copy
<1> QED
  BY <1>4, <1>5 DEF TypeOK, inputVars, windowVars, Cell

LEMMA OthersTyped == TypeOK /\ (Call \/ Fetch \/ ReturnEmpty \/ ReturnFull) => TypeOK'
<1> SUFFICES ASSUME TypeOK, Call \/ Fetch \/ ReturnEmpty \/ ReturnFull PROVE TypeOK'
  OBVIOUS
<1>1. UNCHANGED <<inputVars, windowVars, chunk, err, out>>
  BY DEF Call, Fetch, ReturnEmpty, ReturnFull
<1>2. room' \in 0..size
  BY RoomAssumption DEF Call, Fetch, ReturnEmpty, ReturnFull, TypeOK
<1>3. pc' \in {"call", "loop", "fetch", "got", "done"}
  BY DEF Call, Fetch, ReturnEmpty, ReturnFull
<1> QED
  BY <1>1, <1>2, <1>3 DEF TypeOK, inputVars, windowVars

LEMMA PanicKept ==
  PanicNeedsGrowth /\ UNCHANGED <<find, replace, panic>> => PanicNeedsGrowth'
  BY DEF PanicNeedsGrowth

\* The types of a window depend on the slice that is taken of it, so the two
\* invariants hold together.
LEMMA Bounded == Spec => [](TypeOK /\ PanicNeedsGrowth)
<1>1. Init => TypeOK /\ PanicNeedsGrowth
  BY InitTyped DEF Init, PanicNeedsGrowth
<1>2. TypeOK /\ PanicNeedsGrowth /\ [Next]_vars => (TypeOK /\ PanicNeedsGrowth)'
  <2> SUFFICES ASSUME TypeOK, PanicNeedsGrowth, [Next]_vars PROVE (TypeOK /\ PanicNeedsGrowth)'
    OBVIOUS
  <2>1. CASE FirstChunk
    <3>1. UNCHANGED <<find, replace, panic>>
      BY <2>1 DEF FirstChunk, Last, inputVars
    <3> QED
      BY <2>1, <3>1, FirstTyped, PanicKept
  <2>2. CASE NextChunk
    BY <2>2, NextTyped
  <2>3. CASE Copy
    <3>1. UNCHANGED <<find, replace, panic>>
      BY <2>3 DEF Copy, inputVars, windowVars
    <3> QED
      BY <2>3, <3>1, CopyKeepsTypes, PanicKept
  <2>4. CASE Call \/ Fetch \/ ReturnEmpty \/ ReturnFull
    <3>1. UNCHANGED <<find, replace, panic>>
      BY <2>4 DEF Call, Fetch, ReturnEmpty, ReturnFull, inputVars, windowVars
    <3> QED
      BY <2>4, <3>1, OthersTyped, PanicKept
  <2>5. CASE UNCHANGED vars
    BY <2>5 DEF vars, inputVars, windowVars, readVars, TypeOK, PanicNeedsGrowth
  <2> QED
    BY <2>1, <2>2, <2>3, <2>4, <2>5 DEF Next
<1> QED
  BY <1>1, <1>2, PTL DEF Spec

\* The fields of the two readers have their types, for every body, pattern,
\* replacement and buffer.
THEOREM TypeCorrect == Spec => []TypeOK
  BY Bounded, PTL

\* No slice is taken beyond its buffer, unless a replacement is more than twice
\* as long as what it replaces.
THEOREM PanicBounded == Spec => []PanicNeedsGrowth
  BY Bounded, PTL

-----------------------------------------------------------------------------
(* Bodies that are rewritten as if in one piece.                           *)

\* Between two chunks: what the caller has, what the chunk adds, and what will
\* become of the kept half with all that the source still holds are the whole.
Between ==
  /\ rightIndex <= Len(buffer)
  /\ Len(replace) = Len(find) => rightIndex = 2 * BufferSize /\ midIndex = BufferSize
  /\ Cat(Cat(out, chunk), Replaced(Cat(Kept, Behind(body, taken)))) = Replaced(body)

ExactInv ==
  /\ ~panic
  /\ ~started => taken = 0 /\ out = <<>> /\ chunk = <<>> /\ err = "nil"
  /\ started /\ err = "nil" => Len(body) >= 2 * BufferSize /\ Between
  /\ err = "EOF" => Cat(out, chunk) = Replaced(body)
  /\ pc = "fetch" => err = "nil" /\ chunk = <<>>
  /\ pc = "done" => err = "EOF" /\ chunk = <<>>

\* What is read, and what is left to read.
LEMMA GotAndRest ==
  ASSUME TypeOK, NEW n \in Nat
  PROVE  /\ Cat(Got(n), Behind(body, taken + Len(Got(n)))) = Behind(body, taken)
         /\ Ends(n) => Got(n) = Behind(body, taken)
         /\ ~Ends(n) => Len(Got(n)) = n
         /\ Got(n) \in Seq(Cell) /\ taken + Len(Got(n)) \in 0..Len(body)
         /\ Behind(body, taken) \in Seq(Cell)
         /\ Behind(body, taken + Len(Got(n))) \in Seq(Cell)
<1> DEFINE m == Len(Got(n))
           k == taken + m
<1>1. /\ m = Min(n, Rest) /\ k \in 0..Len(body) /\ m \in Nat
      /\ (Ends(n) => k = Len(body)) /\ (~Ends(n) => m = n)
  <2>1. body \in Seq(Byte) /\ taken \in 0..Len(body)
    BY InputsTyped
  <2>2. m = Min(n, Rest) /\ Min(n, Rest) \in 0..n
    BY <2>1, GotFact
  <2>3. k \in 0..Len(body) /\ (Ends(n) => k = Len(body)) /\ (~Ends(n) => m = n)
    BY <2>1, GotFact
  <2> HIDE DEF m, k
  <2> QED
    BY <2>2, <2>3
<1>2. taken \in 0..Len(body) /\ body \in Seq(Cell) /\ Got(n) \in Seq(Cell)
  BY InputsTyped, WindowTyped
<1>3. Got(n) = SubSeq(body, taken + 1, k)
  BY <1>1 DEF Got
<1> HIDE DEF m
<1>4. taken + 1 \in 1..Len(body) + 1 /\ k \in (taken + 1) - 1..Len(body) /\ Len(body) \in k..Len(body)
  BY <1>1, <1>2
<1> HIDE DEF k
<1>5. SubSeq(body, taken + 1, k) \o SubSeq(body, k + 1, Len(body)) = SubSeq(body, taken + 1, Len(body))
  BY <1>2, <1>4, ConcatAdjacentSubSeq
<1>6. Cat(Got(n), Behind(body, k)) = Behind(body, taken)
  BY <1>3, <1>5 DEF Cat, Behind
<1>7. Behind(body, taken) \in Seq(Cell) /\ Behind(body, k) \in Seq(Cell)
  BY <1>1, <1>2, BehindFact
<1>8. Ends(n) => Got(n) = Behind(body, taken)
  <2> SUFFICES ASSUME Ends(n) PROVE Got(n) = Behind(body, taken)
    OBVIOUS
  <2>1. Behind(body, k) = <<>>
    BY <1>1, <1>2, BehindAll
  <2> QED
    BY <1>2, <1>6, <2>1, CatFacts
<1> QED
  BY <1>1, <1>2, <1>6, <1>7, <1>8 DEF k, m

\* The kept half of a result that fits into the buffer.
LEMMA KeptHalf ==
  ASSUME NEW new \in Seq(Cell), NEW mid \in 0..Len(new), buffer' \in Seq(Cell),
         rightIndex' = Len(new), midIndex' = mid, Len(new) <= Len(buffer'),
         \A i \in 1..Len(new) : buffer'[i] = new[i]
  PROVE  Kept' = Behind(new, mid)
<1> DEFINE n == Len(new) - mid
<1>1. n \in Nat /\ mid \in Nat /\ Len(new) = mid + n
  OBVIOUS
<1> HIDE DEF n
<1>2. Len(new) - mid = n
  BY DEF n
<1>3. \A i \in 1..n : mid + i <= Len(buffer') /\ buffer'[mid + i] = new[mid + i]
  BY <1>1
<1>4. SubSeq(new, mid + 1, mid + n) = [i \in 1..n |-> new[mid + i]]
  BY <1>1
<1>5. Kept' = [i \in 1..n |-> new[mid + i]]
  BY <1>2, <1>3 DEF Kept
<1> QED
  BY <1>1, <1>4, <1>5 DEF Behind

\* Where a window may be divided.
LEMMA Divided ==
  ASSUME TypeOK, Steady, NEW w \in Seq(Cell), NEW z \in Seq(Cell),
         Len(replace) = Len(find) => Len(w) = 2 * BufferSize,
         NEW mid, mid = Half(Len(Replaced(w)))
  PROVE  /\ mid \in 0..Len(Replaced(w)) /\ Replaced(w) \in Seq(Cell)
         /\ Len(Replaced(w)) <= Len(w)
         /\ Len(replace) = Len(find) => Len(Replaced(w)) = 2 * BufferSize /\ mid = BufferSize
         /\ SubSeq(Replaced(w), 1, mid) \in Seq(Cell) /\ Behind(Replaced(w), mid) \in Seq(Cell)
         /\ Replaced(Cat(w, z)) = Cat(SubSeq(Replaced(w), 1, mid),
                                      Replaced(Cat(Behind(Replaced(w), mid), z)))
<1> DEFINE new == Replaced(w)
           p == SubSeq(new, 1, mid)
           q == Behind(new, mid)
<1>1. find \in Seq(Cell) /\ replace \in Seq(Cell) /\ find # <<>>
  BY InputsTyped
<1>2. Len(replace) <= Len(find)
  BY <1>1 DEF Steady
<1>3. /\ new \in Seq(Cell) /\ Len(new) <= Len(w)
      /\ Len(replace) = Len(find) => Len(new) = Len(w)
  BY <1>2, ReplacedTyped
<1>4. mid \in 0..Len(new)
  BY <1>3, HalfFact
<1>5. new = Cat(p, q) /\ p \in Seq(Cell) /\ q \in Seq(Cell) /\ Len(p) = mid
  BY <1>3, <1>4, Cut DEF Cat
<1>6. Len(q) = Len(new) - mid
  BY <1>3, <1>4, BehindFact
<1>7. mid = Len(new) \div 2 /\ Len(new) \in Nat /\ mid \in Nat
  BY <1>3, <1>4 DEF Half
<1> HIDE DEF new, p, q
<1>8. Len(replace) = Len(find) => Len(new) = 2 * BufferSize /\ mid = BufferSize
  BY <1>3, <1>7, BufferAssumption
<1>9. p = <<>> \/ Len(q) >= Len(find) - 1
  <2>1. Len(find) \in Nat /\ (p = <<>> <=> mid = 0)
    BY <1>1, <1>5
  <2>2. CASE Len(replace) = Len(find) /\ Len(find) <= BufferSize + 1
    BY <1>6, <1>8, <2>1, <2>2, BufferAssumption
  <2>3. CASE Len(find) <= 2
    BY <1>6, <1>7, <2>1, <2>3
  <2> QED
    BY <2>2, <2>3 DEF Steady
<1>10. Separate(find, replace)
  BY DEF Steady, Disjoint, Separate, Apart
<1>11. Replaced(Cat(w, z)) = Cat(p, Replaced(Cat(q, z)))
  <2>1. ReplaceAll(w, find, replace) = Cat(p, q)
    BY <1>5 DEF Replaced, new
  <2>2. ReplaceAll(Cat(w, z), find, replace) = Cat(p, ReplaceAll(Cat(q, z), find, replace))
    BY <1>1, <1>5, <1>9, <1>10, <2>1, Seam
  <2> QED
    BY <2>2 DEF Replaced
<1> QED
  BY <1>3, <1>4, <1>5, <1>8, <1>11 DEF new, p, q

LEMMA FirstExact == TypeOK /\ Simple /\ ExactInv /\ FirstChunk => ExactInv'
<1> SUFFICES ASSUME TypeOK, Simple, ExactInv, FirstChunk PROVE ExactInv'
  OBVIOUS
<1> DEFINE g == Got(2 * BufferSize)
           new == Replaced(g)
           mid == Half(Len(new))
           rest == Behind(body, Len(g))
<1>1. ~started /\ taken = 0 /\ out = <<>> /\ chunk = <<>> /\ err = "nil" /\ ~panic
  BY DEF ExactInv, FirstChunk
<1>2. 2 * BufferSize \in Nat /\ BufferSize \in Nat \ {0}
  BY BufferAssumption
<1>3. /\ g \in Seq(Cell) /\ body \in Seq(Cell) /\ Len(g) \in 0..Len(body)
      /\ Behind(body, taken) = body /\ rest \in Seq(Cell) /\ Cat(g, rest) = body
      /\ Ends(2 * BufferSize) => g = body
      /\ ~Ends(2 * BufferSize) => Len(g) = 2 * BufferSize
  <2>1. taken + Len(g) = Len(g) /\ body \in Seq(Cell)
    BY <1>1, InputsTyped, WindowTyped, <1>2
  <2>2. Behind(body, taken) = body
    BY <1>1, <2>1, BehindAll
  <2> HIDE DEF g
  <2> QED
    BY <1>2, <2>1, <2>2, GotAndRest DEF g
<1>4. /\ UNCHANGED <<body, find, replace, room, out>> /\ started' = TRUE /\ taken' = Len(g)
      /\ \A s : Replaced(s)' = Replaced(s)
  <2>1. UNCHANGED <<body, find, replace, room, out>> /\ started' = TRUE
        /\ taken' = taken + Len(g)
    BY DEF FirstChunk, inputVars
  <2> QED
    BY <1>1, <1>3, <2>1 DEF Replaced
<1>5. CASE Ends(2 * BufferSize)
  <2>1. chunk' = new /\ err' = "EOF" /\ pc' = "got" /\ UNCHANGED panic
    BY <1>5 DEF FirstChunk, Last
  <2>2. new = Replaced(body) /\ Replaced(body) \in Seq(Cell)
    BY <1>3, <1>5, ReplacedTyped
  <2>3. Cat(out', chunk') = Replaced(body)'
    <3>1. Cat(<<>>, Replaced(body)) = Replaced(body)
      BY <2>2, CatFacts
    <3> QED
      BY <1>1, <1>4, <2>1, <2>2, <3>1 DEF Replaced
  <2> QED
    BY <1>1, <1>4, <2>1, <2>3 DEF ExactInv
<1>6. CASE ~Ends(2 * BufferSize)
  <2>1. /\ buffer' = new /\ rightIndex' = Len(new) /\ midIndex' = mid
        /\ chunk' = SubSeq(new, 1, mid) /\ pc' = "got" /\ UNCHANGED <<err, panic>>
    BY <1>6 DEF FirstChunk
  <2>2. Len(body) >= 2 * BufferSize
    BY <1>2, <1>3, <1>6
  <2>3. Steady
    BY <1>2, <2>2 DEF Simple, TypeOK
  <2>4. /\ mid \in 0..Len(new) /\ new \in Seq(Cell)
        /\ Len(replace) = Len(find) => Len(new) = 2 * BufferSize /\ mid = BufferSize
        /\ SubSeq(new, 1, mid) \in Seq(Cell) /\ Behind(new, mid) \in Seq(Cell)
        /\ Replaced(Cat(g, rest)) = Cat(SubSeq(new, 1, mid),
                                        Replaced(Cat(Behind(new, mid), rest)))
    BY <1>3, <1>6, <2>3, Divided
  <2>5. Kept' = Behind(new, mid)
    <3> HIDE DEF new, mid
    <3>1. Len(new) <= Len(new)
      BY <2>4
    <3> QED
      BY <2>1, <2>4, <3>1, KeptHalf
  <2> HIDE DEF g, new, mid, rest
  <2>6. Cat(Cat(<<>>, SubSeq(new, 1, mid)), Replaced(Cat(Behind(new, mid), rest)))
          = Replaced(body)
    BY <1>3, <2>4, CatFacts
  <2>7. Between'
    <3>1. Behind(body, taken)' = rest
      BY <1>4 DEF rest
    <3>2. Cat(Cat(out', chunk'), Replaced(Cat(Kept', rest))) = Replaced(body)
      BY <1>1, <1>4, <2>1, <2>5, <2>6
    <3> QED
      BY <1>4, <2>1, <2>4, <3>1, <3>2 DEF Between, Replaced
  <2> QED
    BY <1>1, <1>4, <2>1, <2>2, <2>7 DEF ExactInv
<1> QED
  BY <1>5, <1>6

LEMMA NextExact == TypeOK /\ Simple /\ ExactInv /\ NextChunk => ExactInv'
<1> SUFFICES ASSUME TypeOK, Simple, ExactInv, NextChunk PROVE ExactInv'
  OBVIOUS
<1> DEFINE g == Got(BufferSize)
           window == Cat(Kept, g)
           new == Replaced(window)
           mid == Half(Len(new))
           rest == Behind(body, taken + Len(g))
<1>1. /\ started /\ chunk = <<>> /\ err = "nil" /\ ~panic
      /\ Len(body) >= 2 * BufferSize /\ Between
  BY DEF ExactInv, NextChunk
<1>2. 2 * BufferSize \in Nat /\ BufferSize \in Nat \ {0}
  BY BufferAssumption
<1>3. Steady
  BY <1>1, <1>2, InputsTyped DEF Simple
<1>4. /\ g \in Seq(Cell) /\ rest \in Seq(Cell) /\ Behind(body, taken) \in Seq(Cell)
      /\ Cat(g, rest) = Behind(body, taken)
      /\ Ends(BufferSize) => g = Behind(body, taken)
      /\ ~Ends(BufferSize) => Len(g) = BufferSize
  BY <1>2, GotAndRest
<1>5. /\ Kept \in Seq(Cell) /\ Len(Kept) = rightIndex - midIndex
      /\ rightIndex \in Nat /\ midIndex \in Nat
  BY WindowTyped DEF TypeOK
<1>6. out \in Seq(Cell) /\ Replaced(body) \in Seq(Cell)
  BY InputsTyped, ReplacedTyped DEF TypeOK, Cell
<1>7. /\ window \in Seq(Cell) /\ Cat(window, rest) = Cat(Kept, Behind(body, taken))
      /\ Len(window) = Len(Kept) + Len(g)
  <2> HIDE DEF g, rest
  <2>1. Len(Cat(Kept, g)) = Len(Kept) + Len(g)
    BY <1>4, <1>5, CatLength
  <2>2. Cat(Cat(Kept, g), rest) = Cat(Kept, Cat(g, rest)) /\ Cat(Kept, g) \in Seq(Cell)
    BY <1>4, <1>5, CatGroup
  <2> QED
    BY <1>4, <2>1, <2>2
<1>8. Cat(out, Replaced(Cat(window, rest))) = Replaced(body)
  <2>1. Cat(Cat(out, <<>>), Replaced(Cat(window, rest))) = Replaced(body)
    BY <1>1, <1>7 DEF Between
  <2> QED
    BY <1>6, <2>1, CatFacts
<1>9. /\ UNCHANGED <<body, find, replace, room, out, started>> /\ taken' = taken + Len(g)
      /\ \A s : Replaced(s)' = Replaced(s)
  BY DEF NextChunk, inputVars, Replaced
<1>10. window = Kept \o g
  BY DEF Cat
<1>11. CASE Ends(BufferSize)
  <2>1. chunk' = new /\ err' = "EOF" /\ pc' = "got" /\ UNCHANGED panic
    BY <1>10, <1>11 DEF NextChunk, Last
  <2>2. Cat(out, new) = Replaced(body)
    <3>1. window = Cat(Kept, Behind(body, taken))
      BY <1>4, <1>11
    <3> QED
      BY <1>7, <1>8, <3>1
  <2> HIDE DEF new, window, g, rest
  <2>3. Cat(out', chunk') = Replaced(body)'
    BY <1>9, <2>1, <2>2 DEF Replaced
  <2> QED
    BY <1>1, <1>9, <2>1, <2>3 DEF ExactInv
<1>12. CASE ~Ends(BufferSize)
  <2>1. Len(replace) = Len(find) => Len(window) = 2 * BufferSize
    <3>1. Len(replace) = Len(find) => Len(Kept) = BufferSize
      BY <1>1, <1>2, <1>5 DEF Between
    <3>2. Len(g) = BufferSize
      BY <1>4, <1>12
    <3> HIDE DEF g, window
    <3> QED
      BY <1>2, <1>7, <3>1, <3>2
  <2>2. /\ mid \in 0..Len(new) /\ new \in Seq(Cell) /\ Len(new) <= Len(window)
        /\ Len(replace) = Len(find) => Len(new) = 2 * BufferSize /\ mid = BufferSize
        /\ SubSeq(new, 1, mid) \in Seq(Cell) /\ Behind(new, mid) \in Seq(Cell)
        /\ Replaced(Cat(window, rest)) = Cat(SubSeq(new, 1, mid),
                                             Replaced(Cat(Behind(new, mid), rest)))
    BY <1>3, <1>4, <1>7, <2>1, Divided
  <2>3. /\ buffer' = CopyInto(window, new) /\ rightIndex' = Len(new) /\ midIndex' = mid
        /\ panic' = (mid > Len(window))
        /\ chunk' = SubSeq(buffer', 1, Min(mid, Len(window)))
        /\ pc' = (IF panic' THEN "done" ELSE "got") /\ UNCHANGED err
    BY <1>10, <1>12 DEF NextChunk
  <2>4. buffer' \in Seq(Cell) /\ Len(buffer') = Len(window)
    BY <1>7, <2>2, <2>3, CopyTyped
  <2> HIDE DEF g, new, mid, rest
  <2>5. ~panic' /\ Min(mid, Len(window)) = mid /\ pc' = "got"
    <3>1. Len(new) \in Nat /\ Len(window) \in Nat
      BY <1>7, <2>2
    <3> HIDE DEF window
    <3>2. mid <= Len(window) /\ mid \in Nat
      BY <2>2, <3>1
    <3>3. ~(mid > Len(window)) /\ Min(mid, Len(window)) = mid
      BY <3>1, <3>2 DEF Min
    <3> QED
      BY <2>3, <3>3
  <2> HIDE DEF window
  <2>6. \A i \in 1..Len(new) : buffer'[i] = new[i]
    BY <1>7, <2>2, <2>3 DEF CopyInto
  <2>7. Kept' = Behind(new, mid)
    BY <2>2, <2>3, <2>4, <2>6, KeptHalf
  <2>8. chunk' = SubSeq(new, 1, mid)
    <3>1. SubSeq(buffer', 1, mid) = [i \in 1..mid |-> buffer'[i]]
      BY <2>2, <2>4
    <3>2. SubSeq(new, 1, mid) = [i \in 1..mid |-> new[i]]
      BY <2>2
    <3>3. \A i \in 1..mid : buffer'[i] = new[i]
      BY <2>2, <2>6
    <3> QED
      BY <2>3, <2>5, <3>1, <3>2, <3>3
  <2>9. Between'
    <3>1. Cat(Cat(out, SubSeq(new, 1, mid)), Replaced(Cat(Behind(new, mid), rest)))
            = Replaced(body)
      <4> DEFINE front == SubSeq(new, 1, mid)
                 back  == Replaced(Cat(Behind(new, mid), rest))
      <4>1. back \in Seq(Cell)
        BY <1>4, <2>2, CatFacts, ReplacedTyped
      <4>2. front \in Seq(Cell) /\ Cat(out, Cat(front, back)) = Replaced(body)
        BY <1>8, <2>2
      <4> HIDE DEF front, back
      <4>3. Cat(Cat(out, front), back) = Cat(out, Cat(front, back))
        BY <1>6, <4>1, <4>2, CatGroup
      <4> QED
        BY <4>2, <4>3 DEF front, back
    <3>2. Behind(body, taken)' = rest
      BY <1>9 DEF rest
    <3>3. Cat(Cat(out', chunk'), Replaced(Cat(Kept', rest))) = Replaced(body)
      BY <1>9, <2>7, <2>8, <3>1
    <3>4. rightIndex' <= Len(buffer')
      BY <2>2, <2>3, <2>4
    <3> QED
      BY <1>9, <2>2, <2>3, <3>2, <3>3, <3>4 DEF Between, Replaced
  <2> QED
    BY <1>1, <1>9, <2>3, <2>5, <2>9 DEF ExactInv
<1> QED
  BY <1>11, <1>12

LEMMA CopyExact == TypeOK /\ ExactInv /\ Copy => ExactInv'
<1> SUFFICES ASSUME TypeOK, ExactInv, Copy PROVE ExactInv'
  OBVIOUS
<1>1. PICK n \in 0..Len(chunk) :
        out' = out \o SubSeq(chunk, 1, n) /\ chunk' = Behind(chunk, n)
  BY CopyOut
<1>2. chunk \in Seq(Cell) /\ out \in Seq(Cell) /\ chunk # <<>>
  BY DEF TypeOK, Cell, Copy
<1>3. Cat(out', chunk') = Cat(out, chunk)
  <2> DEFINE front == SubSeq(chunk, 1, n)
             back  == Behind(chunk, n)
  <2>1. chunk = Cat(front, back) /\ front \in Seq(Cell) /\ back \in Seq(Cell)
    BY <1>2, Cut DEF Cat
  <2>2. out' = Cat(out, front) /\ chunk' = back
    BY <1>1 DEF Cat
  <2> HIDE DEF front, back
  <2>3. Cat(Cat(out, front), back) = Cat(out, Cat(front, back))
    BY <1>2, <2>1, CatGroup
  <2> QED
    BY <2>1, <2>2, <2>3
<1>4. UNCHANGED <<inputVars, windowVars, err>> /\ pc' = "loop"
  BY DEF Copy
<1>5. Between => Between'
  BY <1>3, <1>4 DEF Between, Replaced, Kept, inputVars, windowVars
<1> QED
  BY <1>2, <1>3, <1>4, <1>5 DEF ExactInv, Replaced, inputVars, windowVars

LEMMA OthersExact ==
  TypeOK /\ ExactInv /\ (Call \/ Fetch \/ ReturnEmpty \/ ReturnFull) => ExactInv'
<1> SUFFICES ASSUME TypeOK, ExactInv, Call \/ Fetch \/ ReturnEmpty \/ ReturnFull
             PROVE  ExactInv'
  OBVIOUS
<1>1. UNCHANGED <<inputVars, windowVars, chunk, err, out>>
  BY DEF Call, Fetch, ReturnEmpty, ReturnFull
<1>2. Between => Between'
  BY <1>1 DEF Between, Replaced, Kept, inputVars, windowVars
<1>3. /\ pc' = "fetch" => err = "nil" /\ chunk = <<>>
      /\ pc' = "done" => err = "EOF" /\ chunk = <<>>
  BY DEF Call, Fetch, ReturnEmpty, ReturnFull, TypeOK
<1> QED
  BY <1>1, <1>2, <1>3 DEF ExactInv, Replaced, inputVars, windowVars

\* What the caller has is the beginning of the whole.
LEMMA ExactFact ==
  ASSUME TypeOK, ExactInv
  PROVE  /\ ~panic /\ IsBeginning(out, Replaced(body))
         /\ Finished => out = Replaced(body)
<1>1. out \in Seq(Cell) /\ chunk \in Seq(Cell) /\ Replaced(body) \in Seq(Cell)
  BY InputsTyped, ReplacedTyped DEF TypeOK, Cell
<1>2. \E y \in Seq(Cell) : Replaced(body) = Cat(out, y)
  <2>1. CASE err = "EOF"
    BY <1>1, <2>1 DEF ExactInv
  <2>2. CASE err # "EOF" /\ ~started
    <3>1. out = <<>>
      BY <2>2 DEF ExactInv
    <3> QED
      BY <1>1, <3>1, CatFacts
  <2>3. CASE err # "EOF" /\ started
    <3> DEFINE z == Replaced(Cat(Kept, Behind(body, taken)))
    <3>1. Between
      BY <2>3 DEF ExactInv, TypeOK
    <3>2. Behind(body, taken) \in Seq(Cell)
      BY InputsTyped, BehindFact
    <3>3. z \in Seq(Cell)
      BY <3>2, WindowTyped, CatFacts, ReplacedTyped
    <3>4. Replaced(body) = Cat(Cat(out, chunk), z)
      BY <3>1 DEF Between
    <3> HIDE DEF z
    <3> QED
      BY <1>1, <3>3, <3>4, CatFacts
  <2> QED
    BY <2>1, <2>2, <2>3
<1>3. PICK y \in Seq(Cell) : Replaced(body) = Cat(out, y)
  BY <1>2
<1> DEFINE all == Replaced(body)
<1>4. all = out \o y /\ out \in Seq(Cell) /\ y \in Seq(Cell)
  BY <1>1, <1>3 DEF Cat
<1>5. IsBeginning(out, all)
  <2> HIDE DEF all
  <2> QED
    BY <1>4 DEF IsBeginning
<1>6. Finished => out = all
  <2> SUFFICES ASSUME Finished PROVE out = all
    OBVIOUS
  <2>1. Cat(out, <<>>) = all
    BY DEF Finished, ExactInv
  <2> QED
    BY <1>1, <2>1, CatFacts
<1> QED
  BY <1>5, <1>6 DEF ExactInv

\* A body that ends within the first window, or whose rule is steady, is
\* rewritten as if in one piece, up to its last byte: each match is replaced
\* once, wherever the windows are divided; and Read does not panic.
THEOREM SimpleExact == Spec => []SimpleIsExact
<1> DEFINE I == TypeOK /\ (Simple => ExactInv)
<1>1. Init => I
  BY InitTyped DEF Init, ExactInv
<1>2. I /\ (TypeOK /\ PanicNeedsGrowth) /\ (TypeOK /\ PanicNeedsGrowth)' /\ [Next]_vars => I'
  <2> SUFFICES ASSUME TypeOK, Simple => ExactInv, TypeOK', [Next]_vars, Simple'
               PROVE  ExactInv'
    OBVIOUS
  <2>1. UNCHANGED <<body, find, replace>>
    BY DEF Next, vars, inputVars, windowVars, readVars, FirstChunk, NextChunk, Call, Fetch,
           Copy, ReturnEmpty, ReturnFull
  <2>2. Simple /\ ExactInv
    BY <2>1 DEF Simple, Steady, Disjoint
  <2>3. CASE UNCHANGED vars
    BY <2>2, <2>3 DEF ExactInv, Between, Replaced, Kept, vars, inputVars, windowVars, readVars
  <2> QED
    BY <2>2, <2>3, FirstExact, NextExact, CopyExact, OthersExact DEF Next
<1>3. I => SimpleIsExact
  BY ExactFact DEF SimpleIsExact, Replaced
<1> QED
  BY <1>1, <1>2, <1>3, Bounded, PTL DEF Spec

-----------------------------------------------------------------------------
(* Progress.                                                               *)

\* What is left to do: windows to read, bytes of the chunk to copy, and steps
\* until the next of either.
Left ==
  <<Rest + (IF err = "nil" THEN 1 ELSE 0),
    Len(chunk),
    CASE pc = "done" -> 0 [] pc = "fetch" -> 1 [] pc = "loop" /\ room > 0 -> 2
      [] pc = "call" -> 3 [] pc = "loop" /\ room = 0 -> 4 [] pc = "got" -> 5>>

Nearer ==
  \/ Left'[1] < Left[1]
  \/ Left'[1] = Left[1] /\ Left'[2] < Left[2]
  \/ Left'[1] = Left[1] /\ Left'[2] = Left[2] /\ Left'[3] < Left[3]

\* Read only asks for a chunk while there may be one and has room for it.
AskInv ==
  /\ pc = "fetch" => err = "nil"
  /\ pc \in {"fetch", "got"} => room > 0

LEMMA AskStep == TypeOK /\ AskInv /\ [Next]_vars => AskInv'
<1> SUFFICES ASSUME TypeOK, AskInv, [Next]_vars PROVE AskInv'
  OBVIOUS
<1> USE DEF AskInv
<1>1. CASE FirstChunk
  BY <1>1 DEF FirstChunk, Last
<1>2. CASE NextChunk
  BY <1>2 DEF NextChunk, Last
<1>3. CASE Call \/ Fetch \/ Copy \/ ReturnEmpty \/ ReturnFull
  BY <1>3 DEF Call, Fetch, Copy, ReturnEmpty, ReturnFull
<1>4. CASE UNCHANGED vars
  BY <1>4 DEF vars, readVars
<1> QED
  BY <1>1, <1>2, <1>3, <1>4 DEF Next

\* The end of the source is reported, or some of it was read.
LEMMA FetchNearer ==
  ASSUME TypeOK, AskInv, FirstChunk \/ NextChunk
  PROVE  Nearer
<1>1. \E n \in Nat \ {0} :
        /\ taken' = taken + Len(Got(n)) /\ pc = "fetch" /\ UNCHANGED body
        /\ Ends(n) => err' = "EOF"
        /\ ~Ends(n) => err' = err
  <2>1. BufferSize \in Nat \ {0} /\ 2 * BufferSize \in Nat \ {0}
    BY BufferAssumption
  <2>2. CASE FirstChunk
    BY <2>1, <2>2 DEF FirstChunk, Last, inputVars
  <2>3. CASE NextChunk
    BY <2>1, <2>3 DEF NextChunk, Last, inputVars
  <2> QED
    BY <2>2, <2>3
<1>2. PICK n \in Nat \ {0} :
        /\ taken' = taken + Len(Got(n)) /\ pc = "fetch" /\ UNCHANGED body
        /\ Ends(n) => err' = "EOF"
        /\ ~Ends(n) => err' = err
  BY <1>1
<1> DEFINE m == Len(Got(n))
<1>3. taken + m \in 0..Len(body) /\ m \in Nat /\ (~Ends(n) => m = n)
  <2>1. n \in Nat
    OBVIOUS
  <2>2. taken + m \in 0..Len(body) /\ (~Ends(n) => m = n) /\ Got(n) \in Seq(Cell)
    BY <2>1, GotAndRest
  <2> QED
    BY <2>2
<1>4. err = "nil" /\ taken \in Nat /\ Len(body) \in Nat
  BY <1>2, InputsTyped DEF AskInv
<1>5. Rest' = Rest - m /\ Rest \in Int
  BY <1>2, <1>3, <1>4 DEF Rest
<1> HIDE DEF m
<1>6. Rest' + (IF err' = "nil" THEN 1 ELSE 0) < Rest + (IF err = "nil" THEN 1 ELSE 0)
  BY <1>2, <1>3, <1>4, <1>5
<1> QED
  BY <1>6 DEF Nearer, Left

LEMMA CopyNearer == ASSUME TypeOK, AskInv, Copy PROVE Nearer
<1> DEFINE n == Min(room, Len(chunk))
<1>1. chunk \in Seq(Cell) /\ chunk # <<>> /\ room \in Nat \ {0}
  BY RoomAssumption DEF TypeOK, AskInv, Copy, Cell
<1>2. Len(chunk) \in Nat \ {0}
  BY <1>1
<1>3. n \in 1..Len(chunk)
  BY <1>1, <1>2 DEF Min
<1>4. chunk' = Behind(chunk, n) /\ UNCHANGED <<body, taken, err>>
  BY DEF Copy, Behind, inputVars, windowVars
<1> HIDE DEF n
<1>5. Len(chunk') < Len(chunk)
  BY <1>1, <1>2, <1>3, <1>4, BehindFact
<1> QED
  BY <1>4, <1>5 DEF Nearer, Left, Rest

LEMMA OthersNearer ==
  ASSUME TypeOK, AskInv, Call \/ Fetch \/ ReturnEmpty \/ ReturnFull
  PROVE  Nearer
<1>1. UNCHANGED <<body, taken, chunk, err>>
  BY DEF Call, Fetch, ReturnEmpty, ReturnFull, inputVars, windowVars
<1>2. Left'[3] < Left[3]
  <2>1. CASE Call
    <3>1. room' > 0
      BY <2>1, RoomAssumption DEF Call, TypeOK
    <3> QED
      BY <2>1, <3>1 DEF Call, Left
  <2>2. CASE Fetch
    BY <2>2 DEF Fetch, Left
  <2>3. CASE ReturnEmpty
    BY <2>3 DEF ReturnEmpty, Left
  <2>4. CASE ReturnFull
    BY <2>4 DEF ReturnFull, Left
  <2> QED
    BY <2>1, <2>2, <2>3, <2>4
<1> QED
  BY <1>1, <1>2 DEF Nearer, Left, Rest

\* The loops of Read and of its caller cannot go on for ever, also where a
\* window is replaced by nothing, or by more than it was: each step leaves less
\* to do, in the lexicographic order of Left, which has no infinite descent.
THEOREM ReadProgresses == Spec => [][Nearer]_vars
<1>1. Init => AskInv
  BY DEF Init, AskInv
<1>2. (TypeOK /\ PanicNeedsGrowth) /\ AskInv /\ [Next]_vars => AskInv'
  BY AskStep
<1>3. (TypeOK /\ PanicNeedsGrowth) /\ AskInv /\ [Next]_vars => [Nearer]_vars
  BY FetchNearer, CopyNearer, OthersNearer DEF Next
<1> QED
  BY <1>1, <1>2, <1>3, Bounded, PTL DEF Spec

-----------------------------------------------------------------------------
(* RegexReader implements the safety part of BodyReader.                   *)

\* Nothing that is seen from outside.
LEMMA Unseen ==
  ASSUME UNCHANGED <<inputVars, out>>, (pc' = "done") = (pc = "done")
  PROVE  UNCHANGED Reader!vars
<1>1. UNCHANGED <<body, find, replace>>
  BY DEF inputVars
<1> QED
  BY <1>1 DEF Reader!vars, Simple, Steady, Disjoint

\* Windows are read unseen, but for a panic on the way, which no simple rule has.
LEMMA FetchRefines ==
  ASSUME SimpleIsExact', FirstChunk \/ NextChunk
  PROVE  Reader!End \/ UNCHANGED Reader!vars
<1>1. UNCHANGED <<inputVars, out>> /\ pc = "fetch"
  BY DEF FirstChunk, NextChunk
<1>2. CASE pc' # "done"
  BY <1>1, <1>2, Unseen
<1>3. CASE pc' = "done"
  <2>1. panic'
    BY <1>3 DEF FirstChunk, NextChunk, Last
  <2>2. UNCHANGED <<body, find, replace>>
    BY <1>1 DEF inputVars
  <2>3. ~Simple /\ UNCHANGED Simple
    BY <2>1, <2>2 DEF SimpleIsExact, Simple, Steady, Disjoint
  <2> QED
    BY <1>1, <1>3, <2>2, <2>3 DEF Reader!End
<1> QED
  BY <1>2, <1>3

\* Copying from the chunk hands out more of the body.
LEMMA CopyRefines == ASSUME TypeOK, AskInv, SimpleIsExact', Copy PROVE Reader!Hand
<1> DEFINE n == Min(room, Len(chunk))
           more == SubSeq(chunk, 1, n)
<1>1. chunk \in Seq(Cell) /\ chunk # <<>> /\ room \in Nat \ {0} /\ out \in Seq(Cell)
  BY RoomAssumption DEF TypeOK, AskInv, Copy, Cell
<1>2. Len(chunk) \in Nat \ {0}
  BY <1>1
<1>3. n \in 1..Len(chunk)
  BY <1>1, <1>2 DEF Min
<1>4. out' = out \o more /\ pc # "done" /\ pc' # "done" /\ UNCHANGED inputVars
  BY DEF Copy
<1> HIDE DEF n
<1>5. more \in Seq(Cell) /\ Len(more) = n
  BY <1>1, <1>3
<1> HIDE DEF more
<1>6. Reader!Begins(out, out') /\ out' # out
  BY <1>1, <1>3, <1>4, <1>5 DEF Reader!Begins
<1>7. UNCHANGED <<body, find, replace>>
  BY <1>4 DEF inputVars
<1>8. UNCHANGED <<Simple, Replaced(body)>>
  BY <1>7 DEF Simple, Steady, Disjoint, Replaced
<1>9. Simple => Reader!Begins(out', Replaced(body))
  BY <1>8 DEF SimpleIsExact, Replaced, IsBeginning, Reader!Begins
<1> QED
  BY <1>4, <1>6, <1>8, <1>9 DEF Reader!Hand, Replaced

\* The end of the source is only reported when the last chunk is used up.
LEMMA ReturnRefines ==
  ASSUME TypeOK, SimpleIsExact', ReturnEmpty
  PROVE  Reader!End \/ UNCHANGED Reader!vars
<1>1. UNCHANGED <<inputVars, out, panic>> /\ pc # "done"
  BY DEF ReturnEmpty, windowVars
<1>2. CASE err = "nil"
  <2>1. pc' # "done"
    BY <1>2 DEF ReturnEmpty
  <2> QED
    BY <1>1, <2>1, Unseen
<1>3. CASE err # "nil"
  <2>1. pc' = "done"
    BY <1>3 DEF ReturnEmpty
  <2>2. UNCHANGED <<body, find, replace>>
    BY <1>1 DEF inputVars
  <2>3. UNCHANGED <<Simple, Replaced(body)>>
    BY <2>2 DEF Simple, Steady, Disjoint, Replaced
  <2>4. Simple => out = Replaced(body)
    BY <1>1, <2>1, <2>3 DEF SimpleIsExact, Replaced, Finished
  <2> QED
    BY <1>1, <2>1, <2>3, <2>4 DEF Reader!End, Replaced
<1> QED
  BY <1>2, <1>3

\* Each step of Read hands its caller more of the body, ends it, or is not seen:
\* what was given is never taken back or changed, nothing follows the end, and
\* a body with a simple rule is given whole, whatever the windows were.
THEOREM ReaderRefined == Spec => Reader!SafeSpec
<1>1. Init => Reader!Init
  BY DEF Init, Reader!Init
<1>2. Init => AskInv
  BY DEF Init, AskInv
<1>3. (TypeOK /\ PanicNeedsGrowth) /\ AskInv /\ [Next]_vars => AskInv'
  BY AskStep
<1>4. TypeOK /\ AskInv /\ SimpleIsExact' /\ [Next]_vars => [Reader!Next]_(Reader!vars)
  <2> SUFFICES ASSUME TypeOK, AskInv, SimpleIsExact', [Next]_vars
               PROVE  Reader!Hand \/ Reader!End \/ UNCHANGED Reader!vars
    BY DEF Reader!Next
  <2>1. CASE FirstChunk \/ NextChunk
    BY <2>1, FetchRefines
  <2>2. CASE Copy
    BY <2>2, CopyRefines
  <2>3. CASE ReturnEmpty
    BY <2>3, ReturnRefines
  <2>4. CASE Call \/ Fetch \/ ReturnFull
    BY <2>4, Unseen DEF Call, Fetch, ReturnFull
  <2>5. CASE UNCHANGED vars
    BY <2>5, Unseen DEF vars, readVars
  <2> QED
    BY <2>1, <2>2, <2>3, <2>4, <2>5 DEF Next
<1> QED
  BY <1>1, <1>2, <1>3, <1>4, Bounded, SimpleExact, PTL DEF Spec, Reader!SafeSpec
=============================================================================
