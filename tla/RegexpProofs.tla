---------------------------- MODULE RegexpProofs ----------------------------
(***************************************************************************)
(* What ReplaceAll does to texts of any length, by induction.              *)
(*                                                                         *)
(* The induction theorems of the library take a predicate as parameter; a  *)
(* set does as well, and follows from the well-foundedness of < on Nat.    *)
(***************************************************************************)
EXTENDS Regexp, SequenceTheorems, WellFoundedInduction, TLAPS

-----------------------------------------------------------------------------
(* Induction.                                                              *)

\* A set of numbers that is not empty has a smallest element.
LEMMA LeastNat ==
  ASSUME NEW T, T \subseteq Nat, T # {}
  PROVE  \E n \in T : \A m \in T : n <= m
<1> DEFINE R == OpToRel(<, Nat)
<1>1. IsWellFoundedOn(R, Nat)
  BY NatLessThanWellFounded
<1>2. \A m, n \in Nat : m < n => <<m, n>> \in R
  BY DEF OpToRel
<1> HIDE DEF R
<1>3. PICK n \in T : \A m \in T : ~(<<m, n>> \in R)
  BY <1>1, WFMin
<1>4. \A m \in T : ~(m < n)
  BY <1>2, <1>3, Zenon
<1>5. \A m \in T : n <= m
  BY <1>4
<1> QED
  BY <1>5

\* A set that has each number when it has all smaller ones has all numbers.
LEMMA NatSetInduction ==
  ASSUME NEW T, ASSUME NEW n \in Nat, \A m \in 0..(n - 1) : m \in T PROVE n \in T
  PROVE  \A n \in Nat : n \in T
<1>1. SUFFICES ASSUME Nat \ T # {} PROVE FALSE
  OBVIOUS
<1>2. PICK n \in Nat \ T : \A m \in Nat \ T : n <= m
  BY <1>1, LeastNat
<1>3. \A m \in 0..(n - 1) : m \in T
  BY <1>2
<1>4. n \in T
  BY <1>2, <1>3
<1> QED
  BY <1>2, <1>4

-----------------------------------------------------------------------------
(* ReplaceFrom satisfies its defining equation.                            *)

\* The equation, for a function g on the positions from i on.
Solves(g, i, s, f, r) ==
  g = [j \in i..Len(s) + 1 |->
         IF j > Len(s) THEN <<>>
         ELSE IF OccursAt(f, s, j) THEN r \o g[j + Len(f)]
         ELSE <<s[j]>> \o g[j + 1]]

\* The recursion goes towards the end of the text, so it has a solution.
LEMMA SolutionExists ==
  ASSUME NEW S, NEW s \in Seq(S), NEW f \in Seq(S), f # <<>>, NEW r
  PROVE  \E g : Solves(g, 1, s, f, r)
<1> DEFINE n == Len(s)
           T == {k \in Nat : k <= n => \E g : Solves(g, n + 1 - k, s, f, r)}
<1>1. n \in Nat /\ Len(f) \in Nat \ {0}
  OBVIOUS
<1>2. ASSUME NEW k \in Nat, \A m \in 0..(k - 1) : m \in T PROVE k \in T
  <2>1. CASE k = 0
    <3> DEFINE g == [j \in n + 1..n + 1 |-> <<>>]
    <3>1. Solves(g, n + 1, s, f, r)
      BY <1>1 DEF Solves
    <3> QED
      BY <1>1, <2>1, <3>1
  <2>2. CASE k # 0 /\ k <= n
    <3> DEFINE i == n + 1 - k
    <3>1. k - 1 \in T
      BY <1>2, <2>2
    <3>2. PICK g : Solves(g, i + 1, s, f, r)
      BY <1>1, <2>2, <3>1
    <3> DEFINE h == [j \in i..n + 1 |->
                       IF j = i THEN IF OccursAt(f, s, i) THEN r \o g[i + Len(f)]
                                     ELSE <<s[i]>> \o g[i + 1]
                       ELSE g[j]]
    <3>3. i \in 1..n
      BY <1>1, <2>2
    <3> HIDE DEF i
    <3>4. ASSUME NEW j \in i..n + 1
          PROVE  h[j] = IF j > n THEN <<>>
                        ELSE IF OccursAt(f, s, j) THEN r \o h[j + Len(f)]
                        ELSE <<s[j]>> \o h[j + 1]
      <4>1. ASSUME OccursAt(f, s, j), j <= n
            PROVE  j + Len(f) \in i + 1..n + 1 /\ h[j + Len(f)] = g[j + Len(f)]
        BY <1>1, <3>3, <4>1 DEF OccursAt
      <4>2. ASSUME j <= n PROVE j + 1 \in i + 1..n + 1 /\ h[j + 1] = g[j + 1]
        BY <1>1, <3>3, <4>2
      <4>3. CASE j = i
        BY <1>1, <3>3, <4>1, <4>2, <4>3
      <4>4. CASE j # i
        <5>1. j \in i + 1..n + 1 /\ h[j] = g[j]
          BY <1>1, <3>3, <4>4
        <5>2. g[j] = IF j > n THEN <<>>
                     ELSE IF OccursAt(f, s, j) THEN r \o g[j + Len(f)]
                     ELSE <<s[j]>> \o g[j + 1]
          BY <3>2, <5>1 DEF Solves
        <5> HIDE DEF h
        <5>3. i \in Nat /\ n \in Nat /\ j \in Nat
          BY <1>1, <3>3
        <5> QED
          BY <4>1, <4>2, <5>1, <5>2, <5>3
      <4> QED
        BY <4>3, <4>4
    <3>5. Solves(h, i, s, f, r)
      BY <3>4 DEF Solves
    <3> QED
      BY <2>2, <3>5 DEF i
  <2> QED
    BY <2>1, <2>2
<1> HIDE DEF T
<1>3. n \in T
  BY <1>1, <1>2, NatSetInduction
<1>4. n + 1 - n = 1
  BY <1>1
<1> QED
  BY <1>1, <1>3, <1>4 DEF T

LEMMA ReplaceFromDef ==
  ASSUME NEW S, NEW s \in Seq(S), NEW f \in Seq(S), f # <<>>, NEW r
  PROVE  Solves(ReplaceFrom(s, f, r), 1, s, f, r)
<1>1. PICK g : Solves(g, 1, s, f, r)
  BY SolutionExists
<1>2. ReplaceFrom(s, f, r) = CHOOSE h : Solves(h, 1, s, f, r)
  BY DEF ReplaceFrom, Solves
<1> QED
  BY <1>1, <1>2
-----------------------------------------------------------------------------
(* ReplaceAll from the front of a text.                                    *)

\* What s is behind its first k symbols.
Behind(s, k) == SubSeq(s, k + 1, Len(s))

LEMMA BehindFact ==
  ASSUME NEW S, NEW s \in Seq(S), NEW k \in 0..Len(s)
  PROVE  /\ Behind(s, k) \in Seq(S)
         /\ Len(Behind(s, k)) = Len(s) - k
         /\ \A i \in 1..Len(s) - k : Behind(s, k)[i] = s[k + i]
<1>1. PICK n \in Nat : Len(s) = k + n
  OBVIOUS
<1>2. \A i \in 1..n : k + i \in 1..Len(s) /\ s[k + i] \in S
  BY <1>1
<1>3. SubSeq(s, k + 1, k + n) = [i \in 1..n |-> s[k + i]]
  BY <1>1
<1>4. [i \in 1..n |-> s[k + i]] \in Seq(S) /\ Len([i \in 1..n |-> s[k + i]]) = n
  BY <1>2
<1>5. Behind(s, k) = [i \in 1..n |-> s[k + i]]
  BY <1>1, <1>3 DEF Behind
<1>6. Len(s) - k = n
  BY <1>1
<1> QED
  BY <1>4, <1>5, <1>6

\* A place in the rest of a text is a place in the text.
LEMMA OccursBehind ==
  ASSUME NEW S, NEW s \in Seq(S), NEW f \in Seq(S), f # <<>>, NEW k \in 0..Len(s),
         NEW i \in 1..Len(s) - k + 1
  PROVE  OccursAt(f, Behind(s, k), i) <=> OccursAt(f, s, k + i)
<1>1. Len(f) \in Nat \ {0} /\ Len(s) \in Nat
  OBVIOUS
<1>2. Len(Behind(s, k)) = Len(s) - k
  BY BehindFact
<1>3. ASSUME i + Len(f) <= Len(s) - k + 1, NEW m \in 1..Len(f)
      PROVE  Behind(s, k)[i + m - 1] = s[k + i + m - 1]
  <2>1. i + m - 1 \in 1..Len(s) - k
    BY <1>1, <1>3
  <2>2. Behind(s, k)[i + m - 1] = s[k + (i + m - 1)]
    BY <2>1, BehindFact
  <2>3. k + (i + m - 1) = k + i + m - 1
    BY <1>1
  <2> QED
    BY <2>2, <2>3
<1>4. i + Len(f) <= Len(s) - k + 1 <=> k + i + Len(f) <= Len(s) + 1
  BY <1>1
<1> QED
  BY <1>2, <1>3, <1>4 DEF OccursAt

\* A solution for the rest of a text is the rest of a solution.
LEMMA SolutionBehind ==
  ASSUME NEW S, NEW s \in Seq(S), NEW f \in Seq(S), f # <<>>, NEW r, NEW k \in 0..Len(s),
         NEW g, NEW h, Solves(g, 1, s, f, r), Solves(h, 1, Behind(s, k), f, r)
  PROVE  h[1] = g[k + 1]
<1> DEFINE n == Len(s) - k
           T == {d \in Nat : d <= n => h[n + 1 - d] = g[k + n + 1 - d]}
<1>1. n \in Nat /\ Len(f) \in Nat \ {0} /\ Len(s) = k + n /\ k \in Nat
  OBVIOUS
<1>2. Len(Behind(s, k)) = n
  BY BehindFact
<1> HIDE DEF n
<1>3. ASSUME NEW d \in Nat, \A m \in 0..(d - 1) : m \in T PROVE d \in T
  <2> SUFFICES ASSUME d <= n PROVE h[n + 1 - d] = g[k + n + 1 - d]
    OBVIOUS
  <2> DEFINE i == n + 1 - d
  <2>1. i \in 1..n + 1 /\ k + i \in 1..Len(s) + 1 /\ k + i = k + n + 1 - d
    BY <1>1
  <2>2. h[i] = IF i > n THEN <<>>
               ELSE IF OccursAt(f, Behind(s, k), i) THEN r \o h[i + Len(f)]
               ELSE <<Behind(s, k)[i]>> \o h[i + 1]
    BY <1>2, <2>1 DEF Solves
  <2>3. g[k + i] = IF k + i > Len(s) THEN <<>>
                   ELSE IF OccursAt(f, s, k + i) THEN r \o g[k + i + Len(f)]
                   ELSE <<s[k + i]>> \o g[k + i + 1]
    BY <2>1 DEF Solves
  <2>4. OccursAt(f, Behind(s, k), i) <=> OccursAt(f, s, k + i)
    BY <1>1, <2>1, OccursBehind
  <2>5. i > n <=> k + i > Len(s)
    BY <1>1, <2>1
  <2>6. ASSUME ~(i > n), OccursAt(f, s, k + i)
        PROVE  h[i + Len(f)] = g[k + i + Len(f)]
    <3>1. k + i + Len(f) <= k + n + 1
      BY <1>1, <2>6 DEF OccursAt
    <3>2. d - Len(f) \in 0..(d - 1)
      BY <1>1, <2>1, <3>1
    <3>3. d - Len(f) <= n => h[n + 1 - (d - Len(f))] = g[k + n + 1 - (d - Len(f))]
      BY <1>3, <3>2
    <3>4. /\ d - Len(f) <= n /\ n + 1 - (d - Len(f)) = i + Len(f)
          /\ k + n + 1 - (d - Len(f)) = k + i + Len(f)
      BY <1>1, <3>2
    <3> QED
      BY <3>3, <3>4
  <2>7. ASSUME ~(i > n)
        PROVE  h[i + 1] = g[k + i + 1] /\ Behind(s, k)[i] = s[k + i]
    <3>1. d - 1 \in 0..(d - 1) /\ i \in 1..n
      BY <1>1, <2>1, <2>7
    <3>2. d - 1 <= n => h[n + 1 - (d - 1)] = g[k + n + 1 - (d - 1)]
      BY <1>3, <3>1
    <3>3. d - 1 <= n /\ n + 1 - (d - 1) = i + 1 /\ k + n + 1 - (d - 1) = k + i + 1
      BY <1>1, <3>1
    <3> QED
      BY <3>1, <3>2, <3>3, BehindFact DEF n
  <2> HIDE DEF i
  <2> QED
    BY <2>1, <2>2, <2>3, <2>4, <2>5, <2>6, <2>7 DEF i
<1> HIDE DEF T
<1>4. n \in T
  BY <1>1, <1>3, NatSetInduction
<1>5. n <= n => h[n + 1 - n] = g[k + n + 1 - n]
  BY <1>4 DEF T
<1> QED
  BY <1>1, <1>5

\* The front of a text and what is behind it.
LEMMA FrontAndBehind ==
  ASSUME NEW S, NEW s \in Seq(S), NEW k \in 1..Len(s)
  PROVE  Behind(s, k - 1) = <<s[k]>> \o Behind(s, k)
<1>1. k \in 1..Len(s) /\ Len(s) \in k..Len(s)
  OBVIOUS
<1>2. SubSeq(s, k, Len(s)) = <<s[k]>> \o SubSeq(s, k + 1, Len(s))
  BY <1>1, SubSeqRecursiveFirst
<1>3. k - 1 + 1 = k
  BY <1>1
<1> QED
  BY <1>2, <1>3 DEF Behind

LEMMA BehindAll ==
  ASSUME NEW S, NEW s \in Seq(S)
  PROVE  Behind(s, 0) = s /\ Behind(s, Len(s)) = <<>>
<1>1. Len(s) + 1 \in Int /\ Len(s) \in Int /\ Len(s) < Len(s) + 1
  OBVIOUS
<1> QED
  BY <1>1, SubSeqEmpty, SubSeqFull DEF Behind

\* Where there is no match, nothing is replaced.
LEMMA SolutionUnmatched ==
  ASSUME NEW S, NEW s \in Seq(S), NEW f \in Seq(S), f # <<>>, NEW r,
         NEW g, Solves(g, 1, s, f, r), ~Occurs(f, s)
  PROVE  g[1] = s
<1> DEFINE n == Len(s)
           T == {d \in Nat : d <= n => g[n + 1 - d] = Behind(s, n - d)}
<1>1. n \in Nat
  OBVIOUS
<1>2. ASSUME NEW d \in Nat, \A m \in 0..(d - 1) : m \in T PROVE d \in T
  <2> SUFFICES ASSUME d <= n PROVE g[n + 1 - d] = Behind(s, n - d)
    OBVIOUS
  <2> DEFINE i == n + 1 - d
  <2>1. i \in 1..n + 1 /\ (i > n <=> d = 0)
    BY <1>1
  <2>2. g[i] = IF i > n THEN <<>>
               ELSE IF OccursAt(f, s, i) THEN r \o g[i + Len(f)]
               ELSE <<s[i]>> \o g[i + 1]
    BY <2>1 DEF Solves
  <2>3. CASE d = 0
    <3>1. i > n /\ n - d = n
      BY <1>1, <2>3
    <3> QED
      BY <2>2, <3>1, BehindAll
  <2>4. CASE d # 0
    <3>1. i \in 1..n /\ d - 1 \in 0..(d - 1)
      BY <1>1, <2>1, <2>4
    <3>2. ~OccursAt(f, s, i)
      BY <3>1 DEF Occurs
    <3>3. d - 1 <= n => g[n + 1 - (d - 1)] = Behind(s, n - (d - 1))
      BY <1>2, <3>1
    <3>4. d - 1 <= n /\ n + 1 - (d - 1) = i + 1 /\ n - (d - 1) = i /\ n - d = i - 1
      BY <1>1, <3>1
    <3>5. g[i] = <<s[i]>> \o g[i + 1]
      BY <1>1, <2>1, <2>2, <2>4, <3>2
    <3>6. Behind(s, i - 1) = <<s[i]>> \o Behind(s, i)
      BY <3>1, FrontAndBehind
    <3> QED
      BY <3>3, <3>4, <3>5, <3>6
  <2> QED
    BY <2>3, <2>4
<1> HIDE DEF T
<1>3. n \in T
  BY <1>1, <1>2, NatSetInduction
<1>4. n <= n => g[n + 1 - n] = Behind(s, n - n)
  BY <1>3 DEF T
<1>5. n + 1 - n = 1 /\ n - n = 0
  BY <1>1
<1> QED
  BY <1>1, <1>4, <1>5, BehindAll

\* ReplaceAll is what a solution has at the front of the text.
LEMMA ReplaceAllSolution ==
  ASSUME NEW S, NEW s \in Seq(S), NEW f \in Seq(S), f # <<>>, NEW r
  PROVE  /\ Solves(ReplaceFrom(s, f, r), 1, s, f, r)
         /\ ReplaceAll(s, f, r) = ReplaceFrom(s, f, r)[1]
<1>1. Solves(ReplaceFrom(s, f, r), 1, s, f, r)
  BY ReplaceFromDef
<1>2. ~Occurs(f, s) => ReplaceFrom(s, f, r)[1] = s
  BY <1>1, SolutionUnmatched
<1> QED
  BY <1>1, <1>2 DEF ReplaceAll

\* The rest of a text is replaced as it is in the text.
LEMMA ReplaceBehind ==
  ASSUME NEW S, NEW s \in Seq(S), NEW f \in Seq(S), f # <<>>, NEW r, NEW k \in 0..Len(s)
  PROVE  ReplaceAll(Behind(s, k), f, r) = ReplaceFrom(s, f, r)[k + 1]
<1>1. Solves(ReplaceFrom(s, f, r), 1, s, f, r)
  BY ReplaceAllSolution
<1>2. Behind(s, k) \in Seq(S)
  BY BehindFact
<1>3. /\ Solves(ReplaceFrom(Behind(s, k), f, r), 1, Behind(s, k), f, r)
      /\ ReplaceAll(Behind(s, k), f, r) = ReplaceFrom(Behind(s, k), f, r)[1]
  BY <1>2, ReplaceAllSolution
<1> QED
  BY <1>1, <1>3, SolutionBehind

LEMMA ReplaceNothing ==
  ASSUME NEW S, NEW f \in Seq(S), f # <<>>, NEW r
  PROVE  ReplaceAll(<<>>, f, r) = <<>>
  BY DEF ReplaceAll, Occurs

\* A solution at the front.
LEMMA SolutionFront ==
  ASSUME NEW S, NEW s \in Seq(S), NEW f \in Seq(S), NEW r, NEW g, Solves(g, 1, s, f, r)
  PROVE  g[1] = IF 1 > Len(s) THEN <<>>
                ELSE IF OccursAt(f, s, 1) THEN r \o g[1 + Len(f)]
                ELSE <<s[1]>> \o g[1 + 1]
<1>1. 1 \in 1..Len(s) + 1
  OBVIOUS
<1> QED
  BY <1>1 DEF Solves

\* A match at the beginning is replaced.
LEMMA ReplaceMatch ==
  ASSUME NEW S, NEW s \in Seq(S), NEW f \in Seq(S), f # <<>>, NEW r, OccursAt(f, s, 1)
  PROVE  /\ Len(f) \in 1..Len(s)
         /\ ReplaceAll(s, f, r) = r \o ReplaceAll(Behind(s, Len(f)), f, r)
<1> DEFINE g == ReplaceFrom(s, f, r)
<1>1. Solves(g, 1, s, f, r) /\ ReplaceAll(s, f, r) = g[1]
  BY ReplaceAllSolution
<1>2. Len(f) \in 1..Len(s) /\ Len(s) \in Nat
  BY DEF OccursAt
<1>3. ReplaceAll(Behind(s, Len(f)), f, r) = g[Len(f) + 1]
  BY <1>2, ReplaceBehind
<1> HIDE DEF g
<1>4. g[1] = IF 1 > Len(s) THEN <<>>
             ELSE IF OccursAt(f, s, 1) THEN r \o g[1 + Len(f)]
             ELSE <<s[1]>> \o g[1 + 1]
  BY <1>1, SolutionFront, Zenon
<1>5. ~(1 > Len(s)) /\ 1 + Len(f) = Len(f) + 1
  BY <1>2
<1> QED
  BY <1>1, <1>2, <1>3, <1>4, <1>5

\* Any other symbol at the beginning stays.
LEMMA ReplaceOther ==
  ASSUME NEW S, NEW s \in Seq(S), NEW f \in Seq(S), f # <<>>, NEW r,
         s # <<>>, ~OccursAt(f, s, 1)
  PROVE  ReplaceAll(s, f, r) = <<s[1]>> \o ReplaceAll(Behind(s, 1), f, r)
<1> DEFINE g == ReplaceFrom(s, f, r)
<1>1. Solves(g, 1, s, f, r) /\ ReplaceAll(s, f, r) = g[1]
  BY ReplaceAllSolution
<1>2. 1 \in 0..Len(s) /\ Len(s) \in Nat
  OBVIOUS
<1>3. ReplaceAll(Behind(s, 1), f, r) = g[1 + 1]
  BY <1>2, ReplaceBehind
<1> HIDE DEF g
<1>4. g[1] = IF 1 > Len(s) THEN <<>>
             ELSE IF OccursAt(f, s, 1) THEN r \o g[1 + Len(f)]
             ELSE <<s[1]>> \o g[1 + 1]
  BY <1>1, SolutionFront, Zenon
<1>5. ~(1 > Len(s))
  BY <1>2
<1> QED
  BY <1>1, <1>3, <1>4, <1>5

\* A set of texts that has each text when it has all shorter ones has all.
LEMMA TextSetInduction ==
  ASSUME NEW S, NEW T,
         ASSUME NEW s \in Seq(S), \A t \in Seq(S) : Len(t) < Len(s) => t \in T
         PROVE  s \in T
  PROVE  \A s \in Seq(S) : s \in T
<1> DEFINE U == {n \in Nat : \A s \in Seq(S) : Len(s) = n => s \in T}
<1>1. ASSUME NEW n \in Nat, \A m \in 0..(n - 1) : m \in U PROVE n \in U
  <2> SUFFICES ASSUME NEW s \in Seq(S), Len(s) = n PROVE s \in T
    OBVIOUS
  <2>1. ASSUME NEW t \in Seq(S), Len(t) < Len(s) PROVE t \in T
    <3>1. Len(t) \in 0..(n - 1)
      BY <2>1
    <3> QED
      BY <1>1, <2>1, <3>1
  <2> QED
    BY <2>1
<1> HIDE DEF U
<1>2. \A n \in Nat : n \in U
  BY <1>1, NatSetInduction
<1> QED
  BY <1>2 DEF U

\* What comes out is a text, and grows at most as its matches do.
THEOREM ReplaceLength ==
  ASSUME NEW S, NEW f \in Seq(S), f # <<>>, NEW r \in Seq(S), NEW s \in Seq(S)
  PROVE  /\ ReplaceAll(s, f, r) \in Seq(S)
         /\ Len(r) <= 2 * Len(f) => Len(ReplaceAll(s, f, r)) <= 2 * Len(s)
         /\ Len(r) <= Len(f) => Len(ReplaceAll(s, f, r)) <= Len(s)
         /\ Len(r) = Len(f) => Len(ReplaceAll(s, f, r)) = Len(s)
<1> DEFINE Good(t, u) ==
             /\ u \in Seq(S)
             /\ Len(r) <= 2 * Len(f) => Len(u) <= 2 * Len(t)
             /\ Len(r) <= Len(f) => Len(u) <= Len(t)
             /\ Len(r) = Len(f) => Len(u) = Len(t)
           T == {t \in Seq(S) : Good(t, ReplaceAll(t, f, r))}
<1>1. ASSUME NEW t \in Seq(S), \A u \in Seq(S) : Len(u) < Len(t) => u \in T PROVE t \in T
  <2>1. Len(f) \in Nat \ {0} /\ Len(r) \in Nat /\ Len(t) \in Nat
    OBVIOUS
  <2>2. ASSUME NEW k \in 1..Len(t), NEW x \in Seq(S), NEW y \in Seq(S),
               Len(x) = k, Good(x, y), ReplaceAll(t, f, r) = y \o ReplaceAll(Behind(t, k), f, r)
        PROVE  t \in T
    <3> DEFINE u == Behind(t, k)
               v == ReplaceAll(u, f, r)
    <3>1. u \in Seq(S) /\ Len(u) = Len(t) - k
      BY BehindFact
    <3>2. Len(u) < Len(t)
      BY <2>1, <3>1
    <3>3. Good(u, v)
      BY <1>1, <3>1, <3>2
    <3>4. y \o v \in Seq(S) /\ Len(y \o v) = Len(y) + Len(v)
      BY <3>3, ConcatProperties
    <3>5. Len(v) \in Nat /\ Len(y) \in Nat /\ Len(u) \in Nat /\ k \in Nat
      BY <3>1, <3>3
    <3> HIDE DEF u, v
    <3>6. Good(t, y \o v)
      <4>1. Len(r) <= 2 * Len(f) => Len(y \o v) <= 2 * Len(t)
        <5>1. Len(r) <= 2 * Len(f) => Len(y) <= 2 * k /\ Len(v) <= 2 * Len(u)
          BY <2>2, <3>3
        <5> QED
          BY <2>1, <3>1, <3>4, <3>5, <5>1
      <4>2. Len(r) <= Len(f) => Len(y \o v) <= Len(t)
        <5>1. Len(r) <= Len(f) => Len(y) <= k /\ Len(v) <= Len(u)
          BY <2>2, <3>3
        <5> QED
          BY <2>1, <3>1, <3>4, <3>5, <5>1
      <4>3. Len(r) = Len(f) => Len(y \o v) = Len(t)
        <5>1. Len(r) = Len(f) => Len(y) = k /\ Len(v) = Len(u)
          BY <2>2, <3>3
        <5>2. Len(t) = k + Len(u) /\ Len(y \o v) = Len(y) + Len(v)
          BY <2>1, <3>1, <3>4, <3>5
        <5> QED
          BY <5>1, <5>2
      <4> QED
        BY <3>4, <4>1, <4>2, <4>3
    <3> QED
      BY <2>2, <3>6 DEF u, v
  <2>3. CASE t = <<>>
    <3>1. ReplaceAll(t, f, r) = <<>>
      BY <2>3, ReplaceNothing
    <3>2. <<>> \in Seq(S) /\ Len(<<>>) = 0
      OBVIOUS
    <3>3. Good(<<>>, <<>>)
      BY <2>1, <3>2
    <3> HIDE DEF Good
    <3> QED
      BY <2>3, <3>1, <3>3
  <2>4. CASE OccursAt(f, t, 1)
    <3>1. Good(f, r)
      BY <2>1
    <3> HIDE DEF Good, T
    <3>2. /\ Len(f) \in 1..Len(t)
          /\ ReplaceAll(t, f, r) = r \o ReplaceAll(Behind(t, Len(f)), f, r)
      BY <2>4, ReplaceMatch, Zenon
    <3> QED
      BY <2>2, <3>1, <3>2
  <2>5. CASE t # <<>> /\ ~OccursAt(f, t, 1)
    <3>1. <<t[1]>> \in Seq(S) /\ Len(<<t[1]>>) = 1 /\ 1 \in 1..Len(t)
      BY <2>5
    <3>2. Good(<<t[1]>>, <<t[1]>>)
      BY <3>1
    <3>3. ReplaceAll(t, f, r) = <<t[1]>> \o ReplaceAll(Behind(t, 1), f, r)
      BY <2>5, ReplaceOther
    <3> HIDE DEF Good, T
    <3> QED
      BY <2>2, <3>1, <3>2, <3>3
  <2> QED
    BY <2>3, <2>4, <2>5
<1> HIDE DEF T
<1>2. s \in T
  BY <1>1, TextSetInduction
<1> QED
  BY <1>2 DEF T

-----------------------------------------------------------------------------
(* Texts as concatenations.                                                *)

LEMMA Cut ==
  ASSUME NEW S, NEW s \in Seq(S), NEW k \in 0..Len(s)
  PROVE  /\ s = SubSeq(s, 1, k) \o Behind(s, k)
         /\ SubSeq(s, 1, k) \in Seq(S) /\ Behind(s, k) \in Seq(S)
         /\ Len(SubSeq(s, 1, k)) = k
<1>1. 1 \in 1..Len(s) + 1 /\ k \in 1 - 1..Len(s) /\ Len(s) \in k..Len(s)
  OBVIOUS
<1>2. SubSeq(s, 1, k) \o SubSeq(s, k + 1, Len(s)) = SubSeq(s, 1, Len(s))
  BY <1>1, ConcatAdjacentSubSeq
<1>3. SubSeq(s, 1, Len(s)) = s
  BY SubSeqFull
<1>4. SubSeq(s, 1, k) \in Seq(S) /\ Len(SubSeq(s, 1, k)) = k
  OBVIOUS
<1>5. Behind(s, k) \in Seq(S)
  BY BehindFact
<1> QED
  BY <1>2, <1>3, <1>4, <1>5 DEF Behind

LEMMA BehindConcat ==
  ASSUME NEW S, NEW a \in Seq(S), NEW b \in Seq(S)
  PROVE  Behind(a \o b, Len(a)) = b
<1>1. a \o b \in Seq(S) /\ Len(a) \in 0..Len(a \o b) /\ Len(a \o b) - Len(a) = Len(b)
  OBVIOUS
<1>2. /\ Behind(a \o b, Len(a)) \in Seq(S)
      /\ Len(Behind(a \o b, Len(a))) = Len(b)
      /\ \A i \in 1..Len(b) : Behind(a \o b, Len(a))[i] = (a \o b)[Len(a) + i]
  BY <1>1, BehindFact
<1>3. \A i \in 1..Len(b) : (a \o b)[Len(a) + i] = b[i]
  OBVIOUS
<1> HIDE DEF Behind
<1> QED
  BY <1>2, <1>3, SeqEqual

-----------------------------------------------------------------------------
(* Names for concatenation and for the text of one symbol keep the         *)
(* provers' theories of sequences out of the proofs below.                 *)

Cat(a, b) == a \o b
One(x) == <<x>>

LEMMA CatFacts ==
  ASSUME NEW S
  PROVE  /\ <<>> \in Seq(S)
         /\ \A x \in S : One(x) \in Seq(S)
         /\ \A a, b \in Seq(S) : Cat(a, b) \in Seq(S)
         /\ \A a \in Seq(S) : Cat(a, <<>>) = a /\ Cat(<<>>, a) = a
         /\ \A a, b, c \in Seq(S) : Cat(Cat(a, b), c) = Cat(a, Cat(b, c))
         /\ \A a, b, c \in Seq(S) : Cat(a, b) = Cat(a, c) => b = c
<1>1. <<>> \in Seq(S) /\ \A x \in S : One(x) \in Seq(S)
  BY DEF One
<1>2. \A a, b \in Seq(S) : Cat(a, b) \in Seq(S)
  BY DEF Cat
<1>3. \A a \in Seq(S) : Cat(a, <<>>) = a /\ Cat(<<>>, a) = a
  BY ConcatEmptySeq DEF Cat
<1>4. \A a, b, c \in Seq(S) : Cat(Cat(a, b), c) = Cat(a, Cat(b, c))
  BY ConcatAssociative DEF Cat
<1>5. \A a, b, c \in Seq(S) : Cat(a, b) = Cat(a, c) => b = c
  BY ConcatSimplifications DEF Cat
<1> QED
  BY <1>1, <1>2, <1>3, <1>4, <1>5

LEMMA CatGroup ==
  ASSUME NEW S, NEW a \in Seq(S), NEW b \in Seq(S), NEW c \in Seq(S)
  PROVE  Cat(Cat(a, b), c) = Cat(a, Cat(b, c)) /\ Cat(a, b) \in Seq(S)
  BY CatFacts

LEMMA CatLength ==
  ASSUME NEW S, NEW a \in Seq(S), NEW b \in Seq(S)
  PROVE  Len(Cat(a, b)) = Len(a) + Len(b)
  BY DEF Cat

LEMMA CatEmpty ==
  ASSUME NEW S, NEW a \in Seq(S), NEW b \in Seq(S), Cat(a, b) = <<>>
  PROVE  a = <<>> /\ b = <<>>
  BY ConcatSimplifications DEF Cat

LEMMA OneEqual ==
  ASSUME NEW S, NEW x \in S, NEW a \in Seq(S), NEW y \in S, NEW b \in Seq(S),
         Cat(One(x), a) = Cat(One(y), b)
  PROVE  x = y /\ a = b
<1>1. (<<x>> \o a)[1] = x /\ (<<y>> \o b)[1] = y
  OBVIOUS
<1>2. x = y
  BY <1>1 DEF Cat, One
<1>3. One(x) \in Seq(S)
  BY DEF One
<1> QED
  BY <1>2, <1>3, CatFacts

\* A text is empty or has a first symbol.
LEMMA FirstSymbol ==
  ASSUME NEW S, NEW s \in Seq(S), s # <<>>
  PROVE  \E x \in S, t \in Seq(S) : s = Cat(One(x), t) /\ Len(t) < Len(s)
<1>1. 1 \in 1..Len(s) /\ 1 - 1 = 0 /\ 1 \in 0..Len(s) /\ s[1] \in S
  OBVIOUS
<1>2. s = <<s[1]>> \o Behind(s, 1)
  BY <1>1, FrontAndBehind, BehindAll
<1>3. Behind(s, 1) \in Seq(S) /\ Len(Behind(s, 1)) = Len(s) - 1
  BY <1>1, BehindFact
<1>4. Len(Behind(s, 1)) < Len(s)
  BY <1>3
<1> QED
  BY <1>1, <1>2, <1>3, <1>4 DEF Cat, One

\* A text divided in two ways.
LEMMA TwoCuts ==
  ASSUME NEW S, NEW a \in Seq(S), NEW b \in Seq(S), NEW c \in Seq(S), NEW d \in Seq(S),
         Cat(a, b) = Cat(c, d), Len(a) <= Len(c)
  PROVE  \E e \in Seq(S) : c = Cat(a, e) /\ b = Cat(e, d)
<1>1. Len(a) \in 0..Len(c) /\ Len(a) \in Nat
  OBVIOUS
<1> DEFINE h == SubSeq(c, 1, Len(a))
           e == Behind(c, Len(a))
<1>2. c = h \o e /\ h \in Seq(S) /\ e \in Seq(S) /\ Len(h) = Len(a)
  BY <1>1, Cut
<1> HIDE DEF h, e
<1>3. a \o b = h \o (e \o d)
  <2>1. (h \o e) \o d = h \o (e \o d)
    BY <1>2, ConcatAssociative
  <2> QED
    BY <1>2, <2>1 DEF Cat
<1>4. e \o d \in Seq(S)
  BY <1>2
<1>5. \A i \in 1..Len(a) : a[i] = h[i]
  <2>1. TAKE i \in 1..Len(a)
  <2>2. (a \o b)[i] = a[i]
    OBVIOUS
  <2>3. (h \o (e \o d))[i] = h[i]
    BY <1>2, <1>4
  <2> QED
    BY <1>3, <2>2, <2>3
<1>6. a = h
  BY <1>2, <1>5, SeqEqual
<1>7. b = e \o d
  BY <1>3, <1>4, <1>6, ConcatSimplifications
<1> QED
  BY <1>2, <1>6, <1>7 DEF Cat

\* A pattern occurs at the beginning of what begins with it.
LEMMA OccursAtFront ==
  ASSUME NEW S, NEW s \in Seq(S), NEW f \in Seq(S)
  PROVE  OccursAt(f, s, 1) <=> \E t \in Seq(S) : s = Cat(f, t)
<1>1. ASSUME OccursAt(f, s, 1) PROVE \E t \in Seq(S) : s = Cat(f, t)
  <2>1. Len(f) \in 0..Len(s)
    BY <1>1 DEF OccursAt
  <2> DEFINE a == SubSeq(s, 1, Len(f))
             t == Behind(s, Len(f))
  <2>2. s = a \o t /\ a \in Seq(S) /\ t \in Seq(S) /\ Len(a) = Len(f)
    BY <2>1, Cut
  <2> HIDE DEF a, t
  <2>3. \A i \in 1..Len(f) : a[i] = f[i]
    <3>1. TAKE i \in 1..Len(f)
    <3>2. s[1 + i - 1] = f[i] /\ 1 + i - 1 = i
      BY <1>1 DEF OccursAt
    <3>3. (a \o t)[i] = a[i]
      BY <2>2
    <3> QED
      BY <2>2, <3>2, <3>3
  <2>4. a = f
    BY <2>2, <2>3, SeqEqual
  <2> QED
    BY <2>2, <2>4 DEF Cat
<1>2. ASSUME NEW t \in Seq(S), s = Cat(f, t) PROVE OccursAt(f, s, 1)
  <2>1. 1 + Len(f) <= Len(s) + 1
    BY <1>2 DEF Cat
  <2>2. \A i \in 1..Len(f) : s[1 + i - 1] = f[i]
    <3>1. TAKE i \in 1..Len(f)
    <3>2. 1 + i - 1 = i /\ (f \o t)[i] = f[i]
      OBVIOUS
    <3> QED
      BY <1>2, <3>2 DEF Cat
  <2> QED
    BY <2>1, <2>2 DEF OccursAt
<1> QED
  BY <1>1, <1>2

\* A match at the front is replaced.
LEMMA ReplaceFound ==
  ASSUME NEW S, NEW f \in Seq(S), f # <<>>, NEW r, NEW t \in Seq(S)
  PROVE  ReplaceAll(Cat(f, t), f, r) = Cat(r, ReplaceAll(t, f, r))
<1>1. Cat(f, t) \in Seq(S)
  BY CatFacts
<1>2. OccursAt(f, Cat(f, t), 1)
  BY <1>1, OccursAtFront
<1>3. ReplaceAll(Cat(f, t), f, r) = r \o ReplaceAll(Behind(Cat(f, t), Len(f)), f, r)
  BY <1>1, <1>2, ReplaceMatch, Zenon
<1>4. Behind(Cat(f, t), Len(f)) = t
  BY BehindConcat DEF Cat
<1> QED
  BY <1>3, <1>4, Zenon DEF Cat

\* Where there is no match at the front, its first symbol stays.
LEMMA ReplaceKept ==
  ASSUME NEW S, NEW f \in Seq(S), f # <<>>, NEW r, NEW x \in S, NEW t \in Seq(S),
         ~OccursAt(f, Cat(One(x), t), 1)
  PROVE  ReplaceAll(Cat(One(x), t), f, r) = Cat(One(x), ReplaceAll(t, f, r))
<1> DEFINE s == Cat(One(x), t)
<1>1. <<x>> \in Seq(S) /\ Len(<<x>>) = 1
  OBVIOUS
<1>2. s \in Seq(S) /\ s # <<>> /\ s[1] = x
  BY <1>1 DEF Cat, One
<1>3. Behind(s, 1) = t
  BY <1>1, BehindConcat DEF Cat, One
<1> HIDE DEF s
<1>4. ~OccursAt(f, s, 1)
  BY DEF s
<1>5. ReplaceAll(s, f, r) = <<s[1]>> \o ReplaceAll(Behind(s, 1), f, r)
  BY <1>2, <1>4, ReplaceOther, Zenon
<1>6. ReplaceAll(s, f, r) = <<x>> \o ReplaceAll(t, f, r)
  BY <1>2, <1>3, <1>5, Zenon
<1> QED
  BY <1>6, Zenon DEF s, Cat, One

-----------------------------------------------------------------------------
(* Replacing twice.                                                        *)

\* Two texts without a common symbol.
Apart(f, p) == \A i \in 1..Len(f), j \in 1..Len(p) : f[i] # p[j]

LEMMA ApartCat ==
  ASSUME NEW S, NEW f \in Seq(S), NEW p \in Seq(S), NEW q \in Seq(S), Apart(f, Cat(p, q))
  PROVE  Apart(f, p) /\ Apart(f, q)
<1>1. Apart(f, p)
  <2> SUFFICES ASSUME NEW i \in 1..Len(f), NEW j \in 1..Len(p) PROVE f[i] # p[j]
    BY DEF Apart
  <2>1. j \in 1..Len(p \o q) /\ (p \o q)[j] = p[j]
    OBVIOUS
  <2> QED
    BY <2>1 DEF Apart, Cat
<1>2. Apart(f, q)
  <2> SUFFICES ASSUME NEW i \in 1..Len(f), NEW j \in 1..Len(q) PROVE f[i] # q[j]
    BY DEF Apart
  <2>1. Len(p) + j \in 1..Len(p \o q) /\ (p \o q)[Len(p) + j] = q[j]
    OBVIOUS
  <2> QED
    BY <2>1 DEF Apart, Cat
<1> QED
  BY <1>1, <1>2

LEMMA ApartSymmetric == \A f, p : Apart(f, p) <=> Apart(p, f)
  BY DEF Apart

\* A text does not begin with a pattern it has no symbol of.
LEMMA ApartFront ==
  ASSUME NEW S, NEW f \in Seq(S), f # <<>>, NEW p \in Seq(S), p # <<>>, NEW t \in Seq(S),
         Apart(f, p)
  PROVE  ~OccursAt(f, Cat(p, t), 1)
<1>1. 1 \in 1..Len(f) /\ 1 \in 1..Len(p) /\ 1 + 1 - 1 = 1
  OBVIOUS
<1>2. f[1] # p[1]
  BY <1>1 DEF Apart
<1>3. (p \o t)[1] = p[1]
  BY <1>1
<1> QED
  BY <1>1, <1>2, <1>3 DEF OccursAt, Cat

\* What has no symbol of the pattern is passed over.
LEMMA ReplacePassed ==
  ASSUME NEW S, NEW f \in Seq(S), f # <<>>, NEW r \in Seq(S), NEW t \in Seq(S),
         NEW p \in Seq(S), Apart(f, p)
  PROVE  ReplaceAll(Cat(p, t), f, r) = Cat(p, ReplaceAll(t, f, r))
<1> DEFINE v == ReplaceAll(t, f, r)
           Good(q) == Apart(f, q) => ReplaceAll(Cat(q, t), f, r) = Cat(q, v)
           T == {q \in Seq(S) : Good(q)}
<1>1. v \in Seq(S)
  BY ReplaceLength
<1> HIDE DEF v
<1>2. ASSUME NEW q \in Seq(S), \A u \in Seq(S) : Len(u) < Len(q) => u \in T PROVE Good(q)
  <2> SUFFICES ASSUME Apart(f, q) PROVE ReplaceAll(Cat(q, t), f, r) = Cat(q, v)
    OBVIOUS
  <2>1. CASE q = <<>>
    <3>1. Cat(q, t) = t /\ Cat(q, v) = v
      BY <1>1, <2>1, CatFacts
    <3> QED
      BY <3>1 DEF v
  <2>2. CASE q # <<>>
    <3>1. PICK x \in S, u \in Seq(S) : q = Cat(One(x), u) /\ Len(u) < Len(q)
      BY <2>2, FirstSymbol
    <3>2. One(x) \in Seq(S) /\ One(x) # <<>>
      BY CatFacts DEF One
    <3>3. Apart(f, One(x)) /\ Apart(f, u)
      BY <3>1, <3>2, ApartCat
    <3>4. ReplaceAll(Cat(u, t), f, r) = Cat(u, v)
      BY <1>2, <3>1, <3>3
    <3> HIDE DEF T, Good
    <3>5. /\ Cat(q, t) = Cat(One(x), Cat(u, t)) /\ Cat(q, v) = Cat(One(x), Cat(u, v))
          /\ Cat(u, t) \in Seq(S)
      BY <1>1, <3>1, <3>2, CatFacts
    <3>6. ~OccursAt(f, Cat(One(x), Cat(u, t)), 1)
      BY <3>2, <3>3, <3>5, ApartFront
    <3>7. ReplaceAll(Cat(One(x), Cat(u, t)), f, r) = Cat(One(x), ReplaceAll(Cat(u, t), f, r))
      BY <3>5, <3>6, ReplaceKept
    <3> QED
      BY <3>4, <3>5, <3>7
  <2> QED
    BY <2>1, <2>2
<1> HIDE DEF Good
<1>3. \A q \in Seq(S) : q \in T
  BY <1>2, TextSetInduction
<1> QED
  BY <1>3 DEF Good, v

\* What has no symbol of the replacement and comes out at the front was at
\* the front before.
LEMMA FrontNotReplaced ==
  ASSUME NEW S, NEW f \in Seq(S), f # <<>>, NEW r \in Seq(S), r # <<>>, NEW z \in Seq(S),
         NEW s \in Seq(S)
  PROVE  \A u, y \in Seq(S) :
           Apart(u, r) /\ Cat(ReplaceAll(s, f, r), z) = Cat(u, y)
             => \E v \in Seq(S) : Cat(s, z) = Cat(u, v)
<1> DEFINE R(q) == ReplaceAll(q, f, r)
           Good(q) == \A u, y \in Seq(S) :
                        Apart(u, r) /\ Cat(R(q), z) = Cat(u, y)
                          => \E v \in Seq(S) : Cat(q, z) = Cat(u, v)
           T == {q \in Seq(S) : Good(q)}
<1>1. \A q \in Seq(S) : R(q) \in Seq(S)
  BY ReplaceLength
<1>2. ASSUME NEW q \in Seq(S), \A w \in Seq(S) : Len(w) < Len(q) => w \in T PROVE Good(q)
  <2> SUFFICES ASSUME NEW u \in Seq(S), NEW y \in Seq(S), Apart(u, r),
                      Cat(R(q), z) = Cat(u, y)
               PROVE  \E v \in Seq(S) : Cat(q, z) = Cat(u, v)
    OBVIOUS
  <2>1. CASE u = <<>>
    <3>1. Cat(q, z) \in Seq(S) /\ Cat(q, z) = Cat(u, Cat(q, z))
      BY <2>1, CatFacts
    <3> QED
      BY <3>1
  <2>2. CASE q = <<>>
    <3>1. R(q) = <<>>
      BY <2>2, ReplaceNothing, Zenon
    <3> QED
      BY <2>2, <3>1
  <2>3. CASE u # <<>> /\ OccursAt(f, q, 1)
    <3> HIDE DEF T, Good
    <3>1. PICK w \in Seq(S) : q = Cat(f, w)
      BY <2>3, OccursAtFront
    <3> DEFINE v == R(w)
    <3>2. R(q) = Cat(r, v)
      BY <3>1, ReplaceFound
    <3>3. v \in Seq(S)
      BY <1>1
    <3> HIDE DEF v, R
    <3>4. Cat(r, Cat(v, z)) = Cat(u, y) /\ Cat(v, z) \in Seq(S)
      BY <3>2, <3>3, CatFacts
    <3>5. ~OccursAt(u, Cat(r, Cat(v, z)), 1)
      BY <2>3, <3>4, ApartFront
    <3>6. OccursAt(u, Cat(u, y), 1)
      BY CatFacts, OccursAtFront
    <3> QED
      BY <3>4, <3>5, <3>6
  <2>4. CASE u # <<>> /\ q # <<>> /\ ~OccursAt(f, q, 1)
    <3> HIDE DEF T, Good
    <3>1. PICK x \in S, w \in Seq(S) : q = Cat(One(x), w) /\ Len(w) < Len(q)
      BY <2>4, FirstSymbol
    <3>2. PICK x2 \in S, u2 \in Seq(S) : u = Cat(One(x2), u2) /\ Len(u2) < Len(u)
      BY <2>4, FirstSymbol
    <3> DEFINE v == R(w)
    <3>3. v \in Seq(S) /\ One(x) \in Seq(S) /\ One(x2) \in Seq(S)
      BY <1>1, CatFacts
    <3>4. R(q) = Cat(One(x), v)
      BY <2>4, <3>1, ReplaceKept
    <3>5. Good(w)
      BY <1>2, <3>1 DEF T
    <3> HIDE DEF v, R
    <3>6. Cat(One(x), Cat(v, z)) = Cat(One(x2), Cat(u2, y))
      BY <3>2, <3>3, <3>4, CatFacts
    <3>7. x = x2 /\ Cat(v, z) = Cat(u2, y)
      <4>1. Cat(v, z) \in Seq(S) /\ Cat(u2, y) \in Seq(S)
        BY <3>3, CatFacts
      <4> QED
        BY <3>6, <4>1, OneEqual
    <3>8. Apart(u2, r)
      BY <3>2, <3>3, ApartCat, ApartSymmetric
    <3>9. PICK y2 \in Seq(S) : Cat(w, z) = Cat(u2, y2)
      BY <3>5, <3>7, <3>8 DEF v, Good
    <3>10. Cat(q, z) = Cat(u, y2)
      BY <3>1, <3>2, <3>3, <3>7, <3>9, CatFacts
    <3> QED
      BY <3>10
  <2> QED
    BY <2>1, <2>2, <2>3, <2>4
<1> HIDE DEF Good
<1>3. \A q \in Seq(S) : q \in T
  BY <1>2, TextSetInduction
<1> QED
  BY <1>3 DEF Good

\* A pattern that is found in front only together with what follows a text is
\* not found in the text.
LEMMA Straddles ==
  ASSUME NEW S, NEW f \in Seq(S), f # <<>>, NEW r, NEW s \in Seq(S), NEW z \in Seq(S),
         OccursAt(f, Cat(s, z), 1), ~OccursAt(f, s, 1)
  PROVE  Len(s) < Len(f) /\ ReplaceAll(s, f, r) = s
<1>1. Len(s) < Len(f)
  <2> SUFFICES ASSUME Len(f) <= Len(s) PROVE FALSE
    OBVIOUS
  <2>1. PICK y \in Seq(S) : Cat(s, z) = Cat(f, y)
    <3>1. Cat(s, z) \in Seq(S)
      BY CatFacts
    <3> QED
      BY <3>1, OccursAtFront
  <2>2. PICK e \in Seq(S) : s = Cat(f, e)
    BY <2>1, TwoCuts
  <2> QED
    BY <2>2, OccursAtFront
<1>2. ~Occurs(f, s)
  BY <1>1 DEF Occurs, OccursAt
<1> QED
  BY <1>1, <1>2 DEF ReplaceAll

\* The replacement cannot be part of a match, nor does deleting one match
\* bring the two ends of another together.
Separate(f, r) == (r = <<>> => Len(f) = 1) /\ Apart(f, r)

\* A pattern that is found at the front of what comes out is found at the front
\* of what goes in.
LEMMA FrontStays ==
  ASSUME NEW S, NEW f \in Seq(S), f # <<>>, NEW r \in Seq(S), Separate(f, r),
         NEW x \in S, NEW w \in Seq(S), NEW z \in Seq(S),
         OccursAt(f, Cat(One(x), Cat(ReplaceAll(w, f, r), z)), 1)
  PROVE  OccursAt(f, Cat(One(x), Cat(w, z)), 1)
<1> DEFINE v == ReplaceAll(w, f, r)
<1>1. v \in Seq(S)
  BY ReplaceLength
<1>2. /\ Cat(v, z) \in Seq(S) /\ Cat(w, z) \in Seq(S) /\ One(x) \in Seq(S)
      /\ Cat(One(x), Cat(v, z)) \in Seq(S) /\ Cat(One(x), Cat(w, z)) \in Seq(S)
  BY <1>1, CatFacts
<1>3. PICK y \in Seq(S) : Cat(One(x), Cat(v, z)) = Cat(f, y)
  BY <1>2, OccursAtFront
<1>4. PICK x2 \in S, t \in Seq(S) : f = Cat(One(x2), t)
  BY FirstSymbol
<1> HIDE DEF v
<1>5. One(x2) \in Seq(S) /\ Cat(t, y) \in Seq(S) /\ Cat(f, y) = Cat(One(x2), Cat(t, y))
  BY <1>4, CatFacts
<1>6. x = x2 /\ Cat(v, z) = Cat(t, y)
  BY <1>2, <1>3, <1>5, OneEqual
<1>7. \E y2 \in Seq(S) : Cat(w, z) = Cat(t, y2)
  <2>1. CASE r # <<>>
    <3>1. Apart(f, r) /\ Apart(t, r)
      BY <1>4, <1>5, ApartCat, ApartSymmetric DEF Separate
    <3> QED
      BY <1>6, <2>1, <3>1, FrontNotReplaced DEF v
  <2>2. CASE r = <<>>
    <3>1. Len(f) = 1 /\ Len(One(x2)) = 1
      BY <2>2 DEF Separate, One
    <3>2. t = <<>>
      BY <1>4, <1>5, <3>1, CatLength
    <3> QED
      BY <1>2, <3>2, CatFacts
  <2> QED
    BY <2>1, <2>2
<1>8. PICK y2 \in Seq(S) : Cat(w, z) = Cat(t, y2)
  BY <1>7
<1>9. Cat(One(x), Cat(w, z)) = Cat(f, y2)
  BY <1>4, <1>5, <1>6, <1>8, CatFacts
<1> QED
  BY <1>2, <1>9, OccursAtFront

\* A text may be replaced in two goes.  Of what comes out of the first, the part
\* p is done with; the part q, into which a match may reach that begins in p,
\* goes once more through the second, together with what follows.
THEOREM Seam ==
  ASSUME NEW S, NEW f \in Seq(S), f # <<>>, NEW r \in Seq(S), Separate(f, r),
         NEW z \in Seq(S), NEW s \in Seq(S)
  PROVE  \A p, q \in Seq(S) :
           /\ ReplaceAll(s, f, r) = Cat(p, q)
           /\ p = <<>> \/ Len(q) >= Len(f) - 1
           => ReplaceAll(Cat(s, z), f, r) = Cat(p, ReplaceAll(Cat(q, z), f, r))
<1> DEFINE R(a) == ReplaceAll(a, f, r)
           Enough(p, q) == p = <<>> \/ Len(q) >= Len(f) - 1
           Good(a) == \A p, q \in Seq(S) :
                        R(a) = Cat(p, q) /\ Enough(p, q)
                          => R(Cat(a, z)) = Cat(p, R(Cat(q, z)))
           T == {a \in Seq(S) : Good(a)}
<1>1. \A a \in Seq(S) : R(a) \in Seq(S)
  BY ReplaceLength
<1>2. ASSUME NEW a \in Seq(S), \A w \in Seq(S) : Len(w) < Len(a) => w \in T PROVE Good(a)
  <2> SUFFICES ASSUME NEW p \in Seq(S), NEW q \in Seq(S), R(a) = Cat(p, q), Enough(p, q)
               PROVE  R(Cat(a, z)) = Cat(p, R(Cat(q, z)))
    OBVIOUS
  <2> HIDE DEF T, Good
  <2>1. /\ \A w \in Seq(S) : Cat(w, z) \in Seq(S)
        /\ \A w \in Seq(S) : R(Cat(w, z)) \in Seq(S)
    BY <1>1, CatFacts
  <2>2. CASE a = <<>>
    <3>1. R(a) = <<>>
      BY <2>2, ReplaceNothing, Zenon
    <3>2. p = <<>> /\ q = <<>>
      <4> HIDE DEF Enough, R
      <4> QED
        BY <3>1, CatEmpty
    <3> QED
      BY <2>1, <2>2, <3>2, CatFacts
  <2>3. CASE OccursAt(f, a, 1)
    <3>1. PICK w \in Seq(S) : a = Cat(f, w)
      BY <2>3, OccursAtFront
    <3> DEFINE v == R(w)
    <3>2. R(a) = Cat(r, v) /\ v \in Seq(S) /\ Cat(r, v) = Cat(p, q)
      BY <1>1, <3>1, ReplaceFound
    <3>3. R(Cat(a, z)) = Cat(r, R(Cat(w, z)))
      <4>1. Cat(a, z) = Cat(f, Cat(w, z))
        BY <3>1, CatFacts
      <4> QED
        BY <2>1, <4>1, ReplaceFound
    <3>4. Good(w)
      <4>1. Len(w) < Len(a)
        <5> HIDE DEF Enough, R
        <5>1. Len(a) = Len(f) + Len(w)
          BY <3>1, CatLength
        <5>2. Len(f) \in Nat \ {0} /\ Len(w) \in Nat
          OBVIOUS
        <5> QED
          BY <5>1, <5>2
      <4> QED
        BY <1>2, <4>1 DEF T
    <3>5. CASE Len(p) <= Len(r)
      <4>1. PICK d \in Seq(S) : r = Cat(p, d) /\ q = Cat(d, v)
        <5> HIDE DEF Enough, R, v
        <5>1. Cat(p, q) = Cat(r, v) /\ v \in Seq(S)
          BY <3>2
        <5> QED
          BY <3>5, <5>1, TwoCuts
      <4>2. R(Cat(w, z)) = R(Cat(v, z))
        <5>1. R(w) = Cat(<<>>, v) /\ <<>> \in Seq(S) /\ Enough(<<>>, v)
          BY <3>2, CatFacts
        <5> HIDE DEF v, Enough, R
        <5>2. R(Cat(w, z)) = Cat(<<>>, R(Cat(v, z)))
          BY <3>2, <3>4, <5>1 DEF Good
        <5> QED
          BY <2>1, <3>2, <5>2, CatFacts
      <4> HIDE DEF v
      <4>3. R(Cat(q, z)) = Cat(d, R(Cat(v, z)))
        <5>1. Apart(f, d)
          BY <4>1, ApartCat DEF Separate
        <5>2. Cat(q, z) = Cat(d, Cat(v, z))
          BY <3>2, <4>1, CatFacts
        <5> QED
          BY <2>1, <3>2, <5>1, <5>2, ReplacePassed
      <4> HIDE DEF R
      <4> QED
        BY <2>1, <3>2, <3>3, <4>1, <4>2, <4>3, CatFacts
    <3>6. CASE Len(r) < Len(p)
      <4>1. PICK e \in Seq(S) : p = Cat(r, e) /\ v = Cat(e, q)
        <5> HIDE DEF Enough, R, v
        <5>1. Cat(r, v) = Cat(p, q) /\ v \in Seq(S) /\ Len(r) <= Len(p)
          BY <3>2, <3>6
        <5> QED
          BY <5>1, TwoCuts
      <4>2. Enough(e, q)
        BY <3>6
      <4> HIDE DEF R, Enough
      <4>3. R(Cat(w, z)) = Cat(e, R(Cat(q, z)))
        BY <3>4, <4>1, <4>2 DEF Good
      <4> QED
        BY <2>1, <3>3, <4>1, <4>3, CatFacts
    <3> QED
      BY <3>5, <3>6
  <2>4. CASE a # <<>> /\ ~OccursAt(f, a, 1) /\ OccursAt(f, Cat(a, z), 1)
    <3>1. Len(a) < Len(f) /\ R(a) = a
      BY <2>4, Straddles
    <3>2. p = <<>>
      <4> HIDE DEF R
      <4>1. Len(a) = Len(p) + Len(q) /\ Len(p) \in Nat /\ Len(q) \in Nat
        <5> HIDE DEF Enough
        <5>1. Len(a) = Len(p) + Len(q)
          BY <3>1, CatLength
        <5> QED
          BY <5>1
      <4>2. ~(Len(q) >= Len(f) - 1) \/ Len(p) = 0
        BY <3>1, <4>1
      <4> QED
        BY <4>1, <4>2
    <3>3. q = a
      BY <3>1, <3>2, CatFacts
    <3> QED
      BY <2>1, <3>2, <3>3, CatFacts
  <2>5. CASE a # <<>> /\ ~OccursAt(f, a, 1) /\ ~OccursAt(f, Cat(a, z), 1)
    <3>1. PICK x \in S, w \in Seq(S) : a = Cat(One(x), w) /\ Len(w) < Len(a)
      BY <2>5, FirstSymbol
    <3> DEFINE v == R(w)
    <3>2. One(x) \in Seq(S) /\ Len(One(x)) = 1 /\ v \in Seq(S)
      BY <1>1, CatFacts DEF One
    <3>3. Cat(a, z) = Cat(One(x), Cat(w, z))
      BY <3>1, <3>2, CatFacts
    <3>4. R(Cat(a, z)) = Cat(One(x), R(Cat(w, z)))
      BY <2>1, <2>5, <3>3, ReplaceKept
    <3>5. Cat(One(x), v) = Cat(p, q)
      BY <2>5, <3>1, ReplaceKept
    <3>6. Good(w)
      BY <1>2, <3>1 DEF T
    <3>7. CASE p = <<>>
      <4>1. R(Cat(w, z)) = R(Cat(v, z))
        <5>1. R(w) = Cat(<<>>, v) /\ <<>> \in Seq(S) /\ Enough(<<>>, v)
          BY <3>2, CatFacts
        <5> HIDE DEF v, Enough, R
        <5>2. R(Cat(w, z)) = Cat(<<>>, R(Cat(v, z)))
          BY <3>2, <3>6, <5>1 DEF Good
        <5> QED
          BY <2>1, <3>2, <5>2, CatFacts
      <4>2. ~OccursAt(f, Cat(One(x), Cat(v, z)), 1)
        BY <2>5, <3>3, FrontStays
      <4>3. Cat(q, z) = Cat(One(x), Cat(v, z))
        <5> HIDE DEF v
        <5>1. q = Cat(One(x), v)
          BY <3>2, <3>5, <3>7, CatFacts
        <5> QED
          BY <3>2, <5>1, CatFacts
      <4>4. R(Cat(q, z)) = Cat(One(x), R(Cat(v, z)))
        <5> HIDE DEF v
        <5> QED
          BY <2>1, <3>2, <4>2, <4>3, ReplaceKept
      <4> HIDE DEF v, R
      <4> QED
        BY <2>1, <3>4, <3>7, <4>1, <4>4, CatFacts
    <3>8. CASE p # <<>>
      <4>1. Len(One(x)) <= Len(p)
        BY <3>2, <3>8
      <4>2. PICK e \in Seq(S) : p = Cat(One(x), e) /\ v = Cat(e, q)
        <5> HIDE DEF Enough, R, v
        <5>1. /\ Cat(One(x), v) = Cat(p, q) /\ One(x) \in Seq(S) /\ v \in Seq(S)
              /\ Len(One(x)) <= Len(p)
          BY <3>2, <3>5, <4>1
        <5> QED
          BY <5>1, TwoCuts
      <4>3. Enough(e, q)
        BY <3>8
      <4> HIDE DEF R, Enough
      <4>4. R(Cat(w, z)) = Cat(e, R(Cat(q, z)))
        BY <3>6, <4>2, <4>3 DEF Good
      <4> QED
        BY <2>1, <3>2, <3>4, <4>2, <4>4, CatFacts
    <3> QED
      BY <3>7, <3>8
  <2> QED
    BY <2>2, <2>3, <2>4, <2>5
<1> HIDE DEF Good
<1>3. \A a \in Seq(S) : a \in T
  BY <1>2, TextSetInduction
<1> QED
  BY <1>3 DEF Good
=============================================================================
