-------------------------- MODULE ClientWireProofs --------------------------
(***************************************************************************)
(* Proofs about ClientWire for any number of requests: what a client has   *)
(* to do to lose a request, and that responses end where the client can    *)
(* see it.                                                                 *)
(***************************************************************************)
EXTENDS ClientWire, TLAPS

IsHead(i) == stream[i].what = "head"

\* Requests are sent in order, each head once, each body right behind it.
StreamInv ==
  /\ \A i, j \in DOMAIN stream :
       i < j /\ IsHead(i) /\ IsHead(j) => stream[i].req < stream[j].req
  /\ \A i \in DOMAIN stream : Sent(stream[i].req)
  /\ \A k \in Request : Sent(k) => \A j \in 1..(k - 1) : Sent(j)

\* What is still to be read comes after the latest request.
CurInv ==
  /\ cur # 0 => Sent(cur)
  /\ \A i \in DOMAIN stream : i > pos /\ IsHead(i) => stream[i].req > cur
  /\ at = "serve" => cur # 0
  /\ at = "serve" /\ bodyLeft => pos + 1 \in DOMAIN stream /\ ~IsHead(pos + 1)

\* Nothing is answered before it is read.
AnswerInv ==
  \A i \in DOMAIN got : got[i].req <= cur /\ (at = "serve" => got[i].req # cur)

\* A request that is not hasty found all earlier ones answered.
HasteInv ==
  \A k \in Request : Sent(k) /\ k \notin hasty => \A j \in 1..(k - 1) : Answered(j)

\* Between requests the last reader holds none but hasty ones.
HeldInv ==
  at = "ready" => \A i \in (pos + 1)..filled : IsHead(i) => stream[i].req \in hasty

\* So are those it was dropped with.
LossInv ==
  at # "end" => \A i \in 1..pos :
    IsHead(i) => \/ Answered(stream[i].req)
                 \/ at = "serve" /\ cur = stream[i].req
                 \/ stream[i].req \in hasty

IInv ==
  /\ TypeOK /\ StreamInv /\ CurInv /\ AnswerInv /\ HasteInv /\ HeldInv /\ LossInv
  /\ Delimited

-----------------------------------------------------------------------------
(* Responses.                                                              *)

\* What listenConn writes and does not close after has an end of its own.
LEMMA OutgoingEnds ==
  \A r \in Outgoing : EndOf(r) \in Endings /\ (~r.close => EndOf(r) # "eof")
<1>1. ASSUME NEW r \in Response, NEW short \in BOOLEAN
      PROVE  LET w == Written(Guarded(r), short) IN ~w.close => EndOf(w) # "eof"
  <2>1. Guarded(r) \in Response
    BY DEF Guarded, Response
  <2>2. \A s \in Response : LET w == Written(s, short) IN ~w.close => EndOf(w) # "eof"
    BY DEF Response, Written, Probed, EndOf
  <2> QED
    BY <2>1, <2>2
<1>2. ASSUME NEW s \in FromServer, NEW coded \in BOOLEAN, NEW altered \in BOOLEAN
      PROVE  Rewritten(Listened(s, coded), altered) \in Response
  <2>1. Listened(s, coded) \in Response
    BY DEF FromServer, Listened, Response
  <2> QED
    BY <2>1 DEF Rewritten, Response
<1>3. FromApi \subseteq Response
  BY DEF FromApi
<1>4. \A r \in Outgoing : ~r.close => EndOf(r) # "eof"
  BY <1>1, <1>2, <1>3 DEF Outgoing
<1>5. \A r \in Outgoing : EndOf(r) \in Endings
  BY DEF EndOf, Endings
<1> QED
  BY <1>4, <1>5

-----------------------------------------------------------------------------
LEMMA InitInv == Init => IInv
<1> SUFFICES ASSUME Init PROVE IInv
  OBVIOUS
<1>1. DOMAIN stream = {} /\ DOMAIN got = {} /\ cur = 0 /\ pos = 0 /\ filled = 0 /\ at = "ready"
  BY DEF Init
<1>2. TypeOK
  <2>1. stream \in Seq(Parts) /\ got \in Seq([req : Request, ends : Endings])
    BY DEF Init
  <2>2. filled \in 0..Len(stream) /\ pos \in 0..filled /\ cur \in 0..MaxRequests
    BY MaxRequestsAssumption DEF Init
  <2>3. bodyLeft \in BOOLEAN /\ idle \in BOOLEAN /\ brief \in BOOLEAN
    BY DEF Init
  <2> QED
    BY <2>1, <2>2, <2>3 DEF Init, TypeOK
<1>3. StreamInv /\ CurInv /\ AnswerInv /\ HasteInv
  BY <1>1 DEF StreamInv, CurInv, AnswerInv, HasteInv, Sent
<1>4. HeldInv /\ LossInv /\ Delimited
  BY <1>1 DEF HeldInv, LossInv, Delimited
<1> QED
  BY <1>2, <1>3, <1>4 DEF IInv

\* What the stream is made of.
LEMMA PartsSent ==
  TypeOK => \A i \in DOMAIN stream :
    stream[i].req \in Request /\ stream[i].what \in {"head", "body"}
<1> SUFFICES ASSUME TypeOK, NEW i \in DOMAIN stream
             PROVE  stream[i].req \in Request /\ stream[i].what \in {"head", "body"}
  OBVIOUS
<1>1. stream[i] \in Parts
  BY DEF TypeOK
<1> QED
  BY <1>1 DEF Parts

\* The client sends a request.
LEMMA SendStep == ASSUME IInv, NEW k \in Request, Send(k) PROVE IInv'
<1> USE DEF IInv
<1> DEFINE h == Part(k, "head")
           b == Part(k, "body")
<1>1. /\ k \in Nat /\ h \in Parts /\ b \in Parts /\ h.req = k /\ b.req = k
      /\ h.what = "head" /\ b.what = "body" /\ \A j : Part(j, "head") = h => j = k
      /\ \A j : Part(j, "head") # b
  BY MaxRequestsAssumption DEF Request, Part, Parts
<1>0. stream \in Seq(Parts) /\ Len(stream) \in Nat /\ DOMAIN stream = 1..Len(stream)
  BY DEF TypeOK
<1>2. /\ stream' \in Seq(Parts)
      /\ Len(stream') >= Len(stream) + 1
      /\ DOMAIN stream' = 1..Len(stream')
      /\ \A i \in DOMAIN stream : i \in DOMAIN stream' /\ stream'[i] = stream[i]
      /\ stream'[Len(stream) + 1] = h
      /\ \A i \in DOMAIN stream' : i \in DOMAIN stream \/ i = Len(stream) + 1
                                   \/ (i = Len(stream) + 2 /\ stream'[i] = b)
  <2>1. CASE stream' = Append(stream, h)
    BY <1>0, <1>1, <2>1
  <2>2. CASE stream' = Append(Append(stream, h), b)
    <3>1. Append(stream, h) \in Seq(Parts) /\ Len(Append(stream, h)) = Len(stream) + 1
      BY <1>0, <1>1
    <3> QED
      BY <1>0, <1>1, <2>2, <3>1
  <2> QED
    BY <2>1, <2>2 DEF Send
<1>3. UNCHANGED <<filled, pos, at, cur, bodyLeft, got, idle, brief>> /\ at # "end" /\ ~Sent(k)
      /\ \A j \in 1..(k - 1) : Sent(j)
  BY DEF Send
<1> HIDE DEF h, b
<1>4. \A i \in DOMAIN stream : stream[i].req \in Request /\ stream[i].what \in {"head", "body"}
  BY PartsSent
<1>5. \A j : Sent(j)' <=> Sent(j) \/ j = k
  <2>1. ASSUME NEW j, Sent(j) PROVE Sent(j)'
    BY <1>2, <2>1 DEF Sent
  <2>2. Sent(k)'
    BY <1>0, <1>2 DEF Sent, h
  <2>3. ASSUME NEW j, Sent(j)', j # k PROVE Sent(j)
    BY <1>1, <1>2, <2>3 DEF Sent
  <2> QED
    BY <2>1, <2>2, <2>3
<1>6. \A j : Answered(j)' <=> Answered(j)
  BY <1>3 DEF Answered
<1>7. \A j \in Request : Sent(j) => j < k
  BY <1>1, <1>3 DEF StreamInv, Request
<1>8. TypeOK'
  <2>1. hasty' \subseteq Request
    BY DEF Send, TypeOK
  <2>2. filled \in 0..Len(stream')
    BY <1>0, <1>2 DEF TypeOK
  <2> QED
    BY <1>2, <1>3, <2>1, <2>2 DEF TypeOK
<1>9. StreamInv'
  <2>1. \A i \in DOMAIN stream : stream[i].req < k
    BY <1>4, <1>7 DEF StreamInv
  <2>2. (\A i, j \in DOMAIN stream :
           i < j /\ IsHead(i) /\ IsHead(j) => stream[i].req < stream[j].req)'
    BY <1>0, <1>1, <1>2, <2>1 DEF StreamInv, IsHead
  <2>3. (\A i \in DOMAIN stream : Sent(stream[i].req))'
    BY <1>1, <1>2, <1>5 DEF StreamInv
  <2>4. (\A j \in Request : Sent(j) => \A m \in 1..(j - 1) : Sent(m))'
    BY <1>3, <1>5 DEF StreamInv
  <2> QED
    BY <2>2, <2>3, <2>4 DEF StreamInv
<1>10. CurInv'
  <2>1. cur < k
    BY <1>1, <1>7, MaxRequestsAssumption DEF CurInv, TypeOK, Request
  <2>2. \A i \in DOMAIN stream' : i > pos /\ IsHead(i)' => stream'[i].req > cur
    BY <1>1, <1>2, <2>1 DEF CurInv, IsHead, TypeOK, Request
  <2>3. at = "serve" /\ bodyLeft => pos + 1 \in DOMAIN stream' /\ stream'[pos + 1].what # "head"
    BY <1>2 DEF CurInv, IsHead
  <2> QED
    BY <1>3, <1>5, <2>2, <2>3 DEF CurInv, IsHead
<1>11. AnswerInv' /\ Delimited'
  BY <1>3 DEF AnswerInv, Delimited
<1>12. HasteInv'
  <2>1. hasty \subseteq hasty'
    BY DEF Send
  <2>2. k \notin hasty' => \A j \in 1..(k - 1) : Answered(j)
    BY DEF Send
  <2> QED
    BY <1>5, <1>6, <2>1, <2>2 DEF HasteInv
<1>13. HeldInv'
  <2>1. \A i \in (pos + 1)..filled : i \in DOMAIN stream
    BY <1>0 DEF TypeOK
  <2> QED
    BY <1>2, <1>3, <2>1 DEF HeldInv, IsHead, Send
<1>14. LossInv'
  <2>1. \A i \in 1..pos : i \in DOMAIN stream
    BY <1>0 DEF TypeOK
  <2>2. hasty \subseteq hasty'
    BY DEF Send
  <2> QED
    BY <1>2, <1>3, <1>6, <2>1, <2>2 DEF LossInv, IsHead
<1> QED
  BY <1>8, <1>9, <1>10, <1>11, <1>12, <1>13, <1>14

\* While a request is served, all that is still to be read is hasty.
LEMMA WaitingIsHasty ==
  ASSUME IInv, at = "serve", NEW i \in DOMAIN stream, i > pos, IsHead(i)
  PROVE  stream[i].req \in hasty
<1> DEFINE k == stream[i].req
<1>1. k \in Request /\ Sent(k) /\ k > cur /\ cur # 0
  BY PartsSent DEF IInv, StreamInv, CurInv
<1>3. cur \in 1..(k - 1)
  BY <1>1, MaxRequestsAssumption DEF IInv, TypeOK, Request
<1>2. ~Answered(cur)
  BY DEF IInv, AnswerInv, Answered
<1> QED
  BY <1>1, <1>2, <1>3 DEF IInv, HasteInv

\* The proxy reads.
LEMMA ReadStep ==
  ASSUME IInv, NewReader \/ Fill \/ ReadHead \/ ReadGarbage \/ ReadBody PROVE IInv'
<1> USE DEF IInv
<1>1. /\ stream \in Seq(Parts) /\ Len(stream) \in Nat /\ DOMAIN stream = 1..Len(stream)
      /\ filled \in 0..Len(stream) /\ pos \in 0..filled /\ cur \in Nat
  BY MaxRequestsAssumption DEF TypeOK
<1>2. UNCHANGED <<stream, hasty, got, brief>> /\ at # "end"
  BY DEF NewReader, Fill, ReadHead, ReadGarbage, ReadBody, Wanted
<1>3. StreamInv' /\ HasteInv' /\ Delimited'
  <2>1. \A k : (Sent(k)' <=> Sent(k)) /\ (Answered(k)' <=> Answered(k))
    BY <1>2 DEF Sent, Answered
  <2> QED
    BY <1>2, <2>1 DEF StreamInv, HasteInv, Delimited, IsHead
<1>4. \A i \in DOMAIN stream : stream[i].req \in Request /\ stream[i].what \in {"head", "body"}
  BY PartsSent
<1> USE <1>1, <1>2, <1>3, <1>4
<1>5. CASE NewReader
  <2>1. TypeOK'
    BY <1>5 DEF NewReader, TypeOK
  <2>2. CurInv' /\ AnswerInv' /\ HeldInv'
    BY <1>5 DEF NewReader, CurInv, AnswerInv, HeldInv, Sent, IsHead
  <2>3. LossInv'
    <3>1. \A k : Answered(k)' <=> Answered(k)
      BY DEF Answered
    <3> QED
      BY <1>5, <3>1 DEF NewReader, LossInv, HeldInv, IsHead
  <2> QED
    BY <2>1, <2>2, <2>3
<1>6. CASE Fill
  <2>1. TypeOK'
    BY <1>6 DEF Fill, TypeOK
  <2>2. at # "ready"
    BY <1>6 DEF Fill, Wanted
  <2>3. CurInv' /\ AnswerInv' /\ HeldInv'
    BY <1>6, <2>2 DEF Fill, CurInv, AnswerInv, HeldInv, Sent, IsHead
  <2>4. LossInv'
    BY <1>6 DEF Fill, LossInv, Answered, IsHead
  <2> QED
    BY <2>1, <2>3, <2>4
<1>7. CASE ReadHead
  <2>1. /\ pos + 1 \in DOMAIN stream /\ IsHead(pos + 1) /\ cur' = stream[pos + 1].req
        /\ pos' = pos + 1 /\ at = "listen" /\ at' = "serve" /\ cur' > cur
        /\ bodyLeft' \in BOOLEAN /\ idle' \in BOOLEAN /\ pos + 1 <= filled /\ filled' = filled
        /\ (bodyLeft' => pos + 2 <= Len(stream) /\ stream[pos + 2].what = "body")
    <3>1. at = "listen" /\ pos # filled /\ stream[pos + 1].what = "head" /\ pos + 1 \in 1..filled
      BY <1>7 DEF ReadHead, Empty
    <3>2. at' = "serve" /\ pos' = pos + 1 /\ cur' = stream[pos + 1].req /\ filled' = filled
      BY <1>7 DEF ReadHead
    <3>3. idle' \in BOOLEAN /\ bodyLeft' \in BOOLEAN
          /\ (bodyLeft' => pos + 2 <= Len(stream) /\ stream[pos + 2].what = "body")
      BY <1>7, Zenon DEF ReadHead
    <3> QED
      BY <3>1, <3>2, <3>3 DEF IsHead, CurInv
  <2>2. TypeOK'
    BY <2>1, MaxRequestsAssumption DEF TypeOK, Request
  <2>3. CurInv'
    <3>1. cur' # 0 /\ Sent(cur')
      BY <2>1 DEF StreamInv
    <3>2. \A i \in DOMAIN stream : i > pos + 1 /\ IsHead(i) => stream[i].req > cur'
      BY <2>1 DEF StreamInv, Request
    <3>3. bodyLeft' => pos + 2 \in DOMAIN stream /\ ~IsHead(pos + 2)
      BY <2>1 DEF IsHead
    <3>4. pos' + 1 = pos + 2
      BY <2>1
    <3> QED
      BY <2>1, <3>1, <3>2, <3>3, <3>4 DEF CurInv, Sent, IsHead
  <2>4. AnswerInv'
    <3> DEFINE Answer == [req : Request, ends : Endings]
    <3>2. \A i \in DOMAIN got : got[i] \in Answer
      <4>1. got \in Seq(Answer)
        BY DEF TypeOK
      <4> HIDE DEF Answer
      <4> QED
        BY <4>1
    <3>1. \A i \in DOMAIN got : got[i].req \in Nat /\ got[i].req <= cur /\ cur' \in Nat
      BY <2>1, <3>2 DEF AnswerInv, Request
    <3> QED
      BY <2>1, <3>1 DEF AnswerInv
  <2>5. HeldInv'
    BY <2>1 DEF HeldInv
  <2>6. LossInv'
    BY <2>1 DEF LossInv, Answered, IsHead
  <2> QED
    BY <2>2, <2>3, <2>4, <2>5, <2>6
<1>8. CASE ReadGarbage
  BY <1>8 DEF ReadGarbage, TypeOK, CurInv, AnswerInv, HeldInv, LossInv, Sent, IsHead
<1>9. CASE ReadBody
  <2>1. TypeOK'
    <3>1. pos # filled /\ pos' = pos + 1 /\ bodyLeft' = FALSE /\ UNCHANGED <<filled, at, cur, idle>>
      BY <1>9 DEF ReadBody, Empty
    <3>2. pos' \in 0..filled'
      BY <3>1
    <3>3. bodyLeft' \in BOOLEAN /\ idle' \in BOOLEAN /\ brief' \in BOOLEAN
      BY <3>1, Zenon DEF TypeOK
    <3> QED
      BY <3>1, <3>2, <3>3 DEF TypeOK
  <2>2. CurInv' /\ AnswerInv' /\ HeldInv'
    BY <1>9 DEF ReadBody, CurInv, AnswerInv, HeldInv, Sent, IsHead
  <2>3. LossInv'
    BY <1>9 DEF ReadBody, LossInv, CurInv, Answered, IsHead
  <2> QED
    BY <2>1, <2>2, <2>3
<1> QED
  BY <1>5, <1>6, <1>7, <1>8, <1>9

\* The proxy answers.
LEMMA RespondStep == ASSUME IInv, Respond PROVE IInv'
<1> USE DEF IInv
<1>1. PICK r \in Outgoing :
        /\ got' = Append(got, [req |-> cur, ends |-> EndOf(r)])
        /\ at' = IF r.close THEN "end" ELSE "ready"
        /\ idle' = ~r.close
  BY DEF Respond
<1>2. /\ at = "serve" /\ bodyLeft' = FALSE /\ cur \in Request
      /\ UNCHANGED <<stream, filled, pos, hasty, cur, brief>>
  BY MaxRequestsAssumption DEF Respond, CurInv, TypeOK, Request
<1> DEFINE new == [req |-> cur, ends |-> EndOf(r)]
<1>3. new \in [req : Request, ends : Endings] /\ new.req = cur /\ new.ends = EndOf(r)
      /\ (~r.close => EndOf(r) # "eof")
  BY <1>2, OutgoingEnds
<1>4. /\ got' \in Seq([req : Request, ends : Endings])
      /\ \A i \in DOMAIN got : i \in DOMAIN got' /\ got'[i] = got[i]
      /\ Len(got) + 1 \in DOMAIN got' /\ got'[Len(got) + 1] = new
      /\ \A i \in DOMAIN got' : i \in DOMAIN got \/ i = Len(got) + 1
  BY <1>1, <1>3 DEF TypeOK
<1> HIDE DEF new
<1>5. \A k : Answered(k)' <=> Answered(k) \/ k = cur
  BY <1>3, <1>4 DEF Answered
<1>6. \A k : Sent(k)' <=> Sent(k)
  BY <1>2 DEF Sent
<1>7. at' # "serve" /\ at' \in {"ready", "end"} /\ idle' \in BOOLEAN
  BY <1>1, Zenon
<1>8. TypeOK'
  BY <1>2, <1>4, <1>7 DEF TypeOK
<1>9. StreamInv' /\ CurInv'
  BY <1>2, <1>6, <1>7 DEF StreamInv, CurInv, IsHead
<1>10. AnswerInv'
  <2>1. cur <= cur
    BY <1>2, MaxRequestsAssumption DEF Request
  <2> QED
    BY <1>2, <1>3, <1>4, <1>7, <2>1 DEF AnswerInv
<1>11. HasteInv'
  BY <1>2, <1>5, <1>6 DEF HasteInv
<1>12. HeldInv'
  <2>1. \A i \in (pos + 1)..filled : i \in DOMAIN stream /\ i > pos
    BY DEF TypeOK
  <2> QED
    BY <1>2, <2>1, WaitingIsHasty DEF HeldInv, IsHead
<1>13. LossInv'
  BY <1>2, <1>5 DEF LossInv, IsHead
<1>14. Delimited'
  <2>1. at' # "end" => ~r.close
    BY <1>1
  <2> QED
    BY <1>2, <1>3, <1>4, <2>1 DEF Delimited
<1> QED
  BY <1>8, <1>9, <1>10, <1>11, <1>12, <1>13, <1>14

LEMMA NextInv == IInv /\ [Next]_vars => IInv'
<1> SUFFICES ASSUME IInv, [Next]_vars PROVE IInv'
  OBVIOUS
<1>1. CASE Break \/ Hangup
  BY <1>1 DEF Break, Hangup, IInv, TypeOK, StreamInv, CurInv, AnswerInv, HasteInv, HeldInv,
              LossInv, Delimited, Sent, Answered, IsHead
<1>2. CASE UNCHANGED vars
  BY <1>2 DEF vars, IInv, TypeOK, StreamInv, CurInv, AnswerInv, HasteInv, HeldInv, LossInv,
              Delimited, Sent, Answered, IsHead
<1> QED
  BY <1>1, <1>2, SendStep, ReadStep, RespondStep DEF Next

-----------------------------------------------------------------------------
(* The theorems.                                                           *)

THEOREM Invariance == Spec => []IInv
  BY InitInv, NextInv, PTL DEF Spec

\* Variables keep their types.
THEOREM TypeCorrect == Spec => []TypeOK
<1>1. IInv => TypeOK
  BY DEF IInv
<1> QED
  BY <1>1, Invariance, PTL

\* Every response before which the proxy goes on listening has an end.
THEOREM ResponsesEnd == Spec => []Delimited
<1>1. IInv => Delimited
  BY DEF IInv
<1> QED
  BY <1>1, Invariance, PTL

\* Only requests sent ahead of an answer are lost with a reader.
THEOREM PatienceLosesNothing == Spec => []LossNeedsHaste
<1>1. IInv => LossNeedsHaste
  BY DEF IInv, LossInv, LossNeedsHaste, Lost, IsHead, Part
<1> QED
  BY <1>1, Invariance, PTL
=============================================================================
