------------------------- MODULE MCClaimPathProofs -------------------------
(***************************************************************************)
(* What the run on MCClaimPath states, for every alphabet, every bound on  *)
(* the patterns and every larger bound on the requests.  The code compares *)
(* texts, the model lists of segments: a text determines its segments, and *)
(* that is proved from where each of them ends in the text (Layout).       *)
(***************************************************************************)
EXTENDS MCClaimPath, ClaimPathProofs

\* Induction over the natural numbers, for a set of them.
LEMMA SetInduction ==
    ASSUME NEW S, 0 \in S, \A n \in Nat : n \in S => n + 1 \in S
    PROVE  \A n \in Nat : n \in S
<1> DEFINE Left == {n \in Nat : n \notin S}
<1> SUFFICES ASSUME Left # {} PROVE FALSE
  OBVIOUS
<1>1. PICK n \in Left : \A m \in Left : ~(<<m, n>> \in OpToRel(<, Nat))
  BY NatLessThanWellFounded, WFMin
<1>2. n \in Nat /\ n - 1 \in Nat
  OBVIOUS
<1>3. <<n - 1, n>> \in OpToRel(<, Nat)
  BY <1>2 DEF OpToRel
<1>4. n - 1 \in S
  BY <1>1, <1>2, <1>3
<1> QED
  BY <1>2, <1>4

-----------------------------------------------------------------------------
(* A text as the sequence of its segments. *)

\* A text with one more segment.
Grown(text, x) == text \o <<"/">> \o x

\* The function that Text folds a list with, on the sets of its first n positions.
IsFold(f, s, n) ==
    f = [S \in SUBSET (1..n) |->
            IF S = {} THEN << >> ELSE Grown(f[S \ {Max(S)}], s[Max(S)])]

\* The maximum of some positions of a list is one of them.
LEMMA MaxOf ==
    ASSUME NEW n \in Nat, NEW S \in SUBSET (1..n), S # {}
    PROVE  Max(S) \in S /\ \A k \in S : k <= Max(S)
<1>1. S \in SUBSET Nat /\ \A k \in S : k <= n
  OBVIOUS
<1>2. \E m \in S : \A k \in S : k <= m
  BY <1>1, BoundedSetHasMax
<1>3. \E m \in S : \A k \in S : m >= k
  BY <1>1, <1>2
<1>4. Max(S) \in S /\ \A k \in S : Max(S) >= k
  BY <1>3 DEF Max
<1> QED
  BY <1>1, <1>4

\* There is such a function: it is built from the one for fewer positions.
LEMMA FoldExists ==
    ASSUME NEW s
    PROVE  \A n \in Nat : \E f : IsFold(f, s, n)
<1> DEFINE P == {n \in Nat : \E f : IsFold(f, s, n)}
<1>1. 0 \in P
  <2> DEFINE f == [S \in {{}} |-> << >>]
  <2>1. SUBSET (1..0) = {{}}
    OBVIOUS
  <2>2. IsFold(f, s, 0)
    BY <2>1 DEF IsFold
  <2> QED
    BY <2>2
<1>2. ASSUME NEW n \in Nat, n \in P PROVE n + 1 \in P
  <2>1. PICK f : IsFold(f, s, n)
    BY <1>2
  <2> DEFINE g == [S \in SUBSET (1..(n + 1)) |->
                     IF S = {} THEN << >> ELSE Grown(f[S \ {Max(S)}], s[Max(S)])]
  <2>2. ASSUME NEW T \in SUBSET (1..n) PROVE g[T] = f[T]
    <3>1. T \in SUBSET (1..(n + 1))
      OBVIOUS
    <3>2. f[T] = IF T = {} THEN << >> ELSE Grown(f[T \ {Max(T)}], s[Max(T)])
      BY <2>1 DEF IsFold
    <3> QED
      BY <3>1, <3>2
  <2>3. ASSUME NEW S \in SUBSET (1..(n + 1)), S # {}
        PROVE  S \ {Max(S)} \in SUBSET (1..n)
    <3>1. n + 1 \in Nat
      OBVIOUS
    <3>2. Max(S) \in S /\ \A k \in S : k <= Max(S)
      BY <2>3, <3>1, MaxOf
    <3>3. ASSUME NEW k \in S, k # Max(S) PROVE k \in 1..n
      <4>1. k \in 1..(n + 1) /\ Max(S) \in 1..(n + 1) /\ k <= Max(S)
        BY <3>2, <2>3
      <4> QED
        BY <3>3, <4>1
    <3> QED
      BY <3>3
  <2> HIDE DEF g
  <2>4. \A S \in SUBSET (1..(n + 1)) : S # {} => g[S \ {Max(S)}] = f[S \ {Max(S)}]
    BY <2>2, <2>3
  <2>5. g = [S \in SUBSET (1..(n + 1)) |->
               IF S = {} THEN << >> ELSE Grown(g[S \ {Max(S)}], s[Max(S)])]
    BY <2>4 DEF g
  <2>6. IsFold(g, s, n + 1)
    BY <2>5 DEF IsFold
  <2> QED
    BY <2>6
<1> HIDE DEF P
<1>3. \A n \in Nat : n \in P
  BY <1>1, <1>2, SetInduction
<1> QED
  BY <1>3 DEF P

\* Text is its value on all positions.
LEMMA TextIsFold ==
    ASSUME NEW s \in Seq(Segment)
    PROVE  \E f : IsFold(f, s, Len(s)) /\ Text(s) = f[1..Len(s)]
<1>1. DOMAIN s = 1..Len(s) /\ Len(s) \in Nat
  BY LenProperties
<1> DEFINE f == CHOOSE f : IsFold(f, s, Len(s))
<1>2. IsFold(f, s, Len(s))
  BY <1>1, FoldExists
<1>3. Text(s) = f[1..Len(s)]
  BY <1>1 DEF Text, FoldLeft, MapThenFoldSet, IsFold, Grown
<1> QED
  BY <1>2, <1>3

\* It begins with nothing.
LEMMA FoldBegins ==
    ASSUME NEW f, NEW s, NEW n \in Nat, IsFold(f, s, n)
    PROVE  f[1..0] = << >>
<1>1. 1..0 \in SUBSET (1..n) /\ 1..0 = {}
  OBVIOUS
<1> QED
  BY <1>1 DEF IsFold

\* Position by position, it appends a slash and a segment.
LEMMA FoldStep ==
    ASSUME NEW f, NEW s, NEW n \in Nat, IsFold(f, s, n), NEW k \in 1..n
    PROVE  f[1..k] = Grown(f[1..(k - 1)], s[k])
<1>1. 1..k \in SUBSET (1..n) /\ 1..k # {} /\ k \in 1..k
  OBVIOUS
<1>2. Max(1..k) \in 1..k /\ \A i \in 1..k : i <= Max(1..k)
  BY <1>1, MaxOf
<1>3. Max(1..k) = k
  BY <1>1, <1>2
<1>4. 1..k \ {k} = 1..(k - 1)
  OBVIOUS
<1>5. f[1..k] = Grown(f[(1..k) \ {Max(1..k)}], s[Max(1..k)])
  BY <1>1 DEF IsFold
<1> QED
  BY <1>3, <1>4, <1>5

\* What texts are written with.
Written == Character \cup {"/"}

\* The positions of a slash and of the x characters after it, from position i on.
LEMMA Positions ==
    ASSUME NEW i \in Nat, NEW x \in Nat
    PROVE  /\ \A l \in Nat : i + 1 + x <= l =>
                 i + 1 \in 1..l /\ \A j \in 1..x : i + 1 + j \in 1..l
           /\ \A l \in 1..(i + 1 + x) : i < l => l = i + 1 \/ l - (i + 1) \in 1..x
OBVIOUS

\* What stands in a text up to its k-th segment, which ends at at[k].
LaidOut(s, text, at, k) ==
    /\ at[k - 1] \in Nat /\ at[k] = at[k - 1] + 1 + Len(s[k])
    /\ text[at[k - 1] + 1] = "/"
    /\ \A j \in 1..Len(s[k]) : text[at[k - 1] + 1 + j] = s[k][j]

Layout(s, text, at) ==
    /\ text \in Seq(Written) /\ at \in [0..Len(s) -> Nat]
    /\ at[0] = 0 /\ at[Len(s)] = Len(text)
    /\ \A k \in 1..Len(s) : LaidOut(s, text, at, k)

\* A segment is a text without a slash.
LEMMA SegmentText ==
    ASSUME NEW s \in Segment
    PROVE  /\ s \in Seq(Written) /\ Len(s) \in Nat
           /\ \A j \in 1..Len(s) : s[j] # "/"
           /\ s = Empty <=> Len(s) = 0
<1>1. s \in Seq(Character) /\ Empty = << >>
  BY TextAssumption
<1>2. s \in Seq(Written)
  BY <1>1, SeqMonotonic DEF Written
<1>3. Len(s) \in Nat /\ \A j \in 1..Len(s) : s[j] \in Character
  BY <1>1, LenProperties, ElementOfSeq
<1>4. s = << >> <=> Len(s) = 0
  BY <1>1, EmptySeq
<1> QED
  BY <1>1, <1>2, <1>3, <1>4, TextAssumption

\* What appending a slash and a segment does, character by character.
LEMMA TextStep ==
    ASSUME NEW t \in Seq(Written), NEW x \in Seq(Written)
    PROVE  /\ Grown(t, x) \in Seq(Written)
           /\ Len(Grown(t, x)) = Len(t) + 1 + Len(x)
           /\ \A i \in 1..Len(t) : Grown(t, x)[i] = t[i]
           /\ Grown(t, x)[Len(t) + 1] = "/"
           /\ \A j \in 1..Len(x) : Grown(t, x)[Len(t) + 1 + j] = x[j]
<1>1. <<"/">> \in Seq(Written) /\ Len(<<"/">>) = 1 /\ <<"/">>[1] = "/"
  <2>1. "/" \in Written
    BY DEF Written
  <2>2. <<"/">> \in [1..1 -> Written] /\ Len(<<"/">>) = 1
    BY <2>1
  <2> QED
    BY <2>2
<1>2. /\ t \o <<"/">> \in Seq(Written) /\ Len(t \o <<"/">>) = Len(t) + 1
      /\ \A i \in 1..Len(t) : (t \o <<"/">>)[i] = t[i]
      /\ (t \o <<"/">>)[Len(t) + 1] = "/"
      /\ Len(t) \in Nat /\ Len(x) \in Nat
  BY <1>1, ConcatProperties, LenProperties
<1> DEFINE u == t \o <<"/">>
<1> HIDE DEF u
<1>3. /\ u \o x \in Seq(Written) /\ Len(u \o x) = Len(u) + Len(x)
      /\ \A i \in 1..Len(u) + Len(x) : (u \o x)[i] = IF i <= Len(u) THEN u[i] ELSE x[i - Len(u)]
  BY <1>2, ConcatProperties DEF u
<1>4. /\ \A i \in 1..Len(t) : (u \o x)[i] = t[i]
      /\ (u \o x)[Len(t) + 1] = "/"
      /\ \A j \in 1..Len(x) : (u \o x)[Len(t) + 1 + j] = x[j]
  BY <1>2, <1>3 DEF u
<1>5. Grown(t, x) = u \o x
  BY DEF Grown, u
<1> QED
  BY <1>2, <1>3, <1>4, <1>5 DEF u

\* Text lays its segments out one after the other, each after a slash.
LEMMA TextLayout ==
    ASSUME NEW s \in Seq(Segment)
    PROVE  \E at : Layout(s, Text(s), at)
<1>1. Len(s) \in Nat /\ \A k \in 1..Len(s) : s[k] \in Segment
  BY LenProperties, ElementOfSeq
<1>2. PICK f : IsFold(f, s, Len(s)) /\ Text(s) = f[1..Len(s)]
  BY TextIsFold
<1>3. f[1..0] = << >> /\ \A k \in 1..Len(s) : f[1..k] = Grown(f[1..(k - 1)], s[k])
  <2>1. f[1..0] = << >>
    BY <1>1, <1>2, FoldBegins
  <2>2. ASSUME NEW k \in 1..Len(s)
        PROVE  f[1..k] = Grown(f[1..(k - 1)], s[k])
    BY <1>1, <1>2, FoldStep
  <2> QED
    BY <2>1, <2>2
<1> DEFINE n == Len(s)
           at == [k \in 0..n |-> Len(f[1..k])]
           P == {m \in Nat : m <= n =>
                   /\ f[1..m] \in Seq(Written)
                   /\ \A k \in 1..m : LaidOut(s, f[1..m], at, k) /\ at[k] <= at[m]}
<1>4. 0 \in P
  <2>1. f[1..0] \in Seq(Written)
    BY <1>3, EmptySeq
  <2> HIDE DEF at
  <2> QED
    BY <2>1
<1>5. ASSUME NEW m \in Nat, m \in P PROVE m + 1 \in P
  <2> HIDE DEF at
  <2> SUFFICES ASSUME m + 1 <= n
               PROVE  /\ f[1..(m + 1)] \in Seq(Written)
                      /\ \A k \in 1..(m + 1) : LaidOut(s, f[1..(m + 1)], at, k) /\ at[k] <= at[m + 1]
    OBVIOUS
  <2> DEFINE t == f[1..m]
             u == f[1..(m + 1)]
             x == s[m + 1]
  <2>1. m + 1 \in 1..n /\ m \in 0..n /\ m + 1 \in 0..n /\ (m + 1) - 1 = m
    BY <1>1
  <2>2. /\ t \in Seq(Written)
        /\ \A k \in 1..m : LaidOut(s, t, at, k) /\ at[k] <= at[m]
    BY <1>5
  <2>3. x \in Segment /\ x \in Seq(Written) /\ Len(x) \in Nat
    BY <1>1, <2>1, SegmentText
  <2>4. u = Grown(t, x)
    BY <1>3, <2>1
  <2>5. at[m] = Len(t) /\ at[m + 1] = Len(u) /\ Len(t) \in Nat
    BY <2>1, <2>2, LenProperties DEF at
  <2> HIDE DEF t, u, x, n
  <2>6. /\ u \in Seq(Written) /\ Len(u) = Len(t) + 1 + Len(x)
        /\ \A i \in 1..Len(t) : u[i] = t[i]
        /\ u[Len(t) + 1] = "/"
        /\ \A j \in 1..Len(x) : u[Len(t) + 1 + j] = x[j]
    BY <2>2, <2>3, <2>4, TextStep
  <2>7. LaidOut(s, u, at, m + 1)
    BY <2>1, <2>3, <2>5, <2>6 DEF LaidOut, x
  <2>8. ASSUME NEW k \in 1..m PROVE LaidOut(s, u, at, k) /\ at[k] <= at[m + 1]
    <3>1. LaidOut(s, t, at, k) /\ at[k] <= at[m]
      BY <2>2
    <3>2. Len(s[k]) \in Nat
      <4>1. k \in 1..n
        BY <2>1, <1>1 DEF n
      <4> QED
        BY <4>1, <1>1, SegmentText DEF n
    <3>3. /\ at[k - 1] \in Nat /\ at[k] = at[k - 1] + 1 + Len(s[k]) /\ at[k] <= Len(t)
          /\ t[at[k - 1] + 1] = "/"
          /\ \A j \in 1..Len(s[k]) : t[at[k - 1] + 1 + j] = s[k][j]
      BY <2>5, <3>1 DEF LaidOut
    <3>6. /\ at[k - 1] + 1 \in 1..Len(t)
          /\ \A j \in 1..Len(s[k]) : at[k - 1] + 1 + j \in 1..Len(t)
      <4>1. at[k - 1] \in Nat /\ at[k - 1] + 1 + Len(s[k]) <= Len(t) /\ Len(t) \in Nat
        BY <2>5, <3>3
      <4> QED
        BY <3>2, <4>1, Positions
    <3>4. u[at[k - 1] + 1] = "/"
      BY <2>6, <3>3, <3>6
    <3>5. ASSUME NEW j \in 1..Len(s[k]) PROVE u[at[k - 1] + 1 + j] = s[k][j]
      BY <2>6, <3>3, <3>6
    <3>7. LaidOut(s, u, at, k)
      BY <3>3, <3>4, <3>5 DEF LaidOut
    <3>8. at[k] <= at[m + 1]
      <4>1. at[m + 1] = Len(t) + 1 + Len(x)
        BY <2>5, <2>6
      <4>2. at[k] \in Nat /\ at[k] <= Len(t)
        <5>1. at[k - 1] \in Nat /\ at[k] = at[k - 1] + 1 + Len(s[k]) /\ at[k] <= Len(t)
          BY <3>3
        <5> QED
          BY <3>2, <5>1
      <4> QED
        BY <2>3, <2>5, <4>1, <4>2
    <3> QED
      BY <3>7, <3>8
  <2>9. at[m + 1] <= at[m + 1]
    BY <2>3, <2>5, <2>6
  <2>10. \A k \in 1..(m + 1) : k \in 1..m \/ k = m + 1
    OBVIOUS
  <2> QED
    BY <2>6, <2>7, <2>8, <2>9, <2>10 DEF u
<1> HIDE DEF P
<1>6. n \in P
  BY <1>1, <1>4, <1>5, SetInduction
<1>7. /\ Text(s) \in Seq(Written)
      /\ \A k \in 1..n : LaidOut(s, Text(s), at, k)
  BY <1>1, <1>2, <1>6 DEF P
<1>8. at \in [0..n -> Nat] /\ at[0] = 0 /\ at[n] = Len(Text(s))
  <2>1. ASSUME NEW k \in 0..n PROVE at[k] \in Nat
    <3>1. k \in P
      BY <1>1, <1>4, <1>5, SetInduction
    <3>2. f[1..k] \in Seq(Written)
      BY <3>1, <1>1 DEF P
    <3> QED
      BY <3>2, LenProperties
  <2>2. at[0] = 0
    BY <1>1, <1>3, EmptySeq
  <2>3. at[n] = Len(Text(s))
    BY <1>1, <1>2
  <2> QED
    BY <2>1, <2>2, <2>3
<1>9. Layout(s, Text(s), at)
  BY <1>7, <1>8 DEF Layout
<1> QED
  BY <1>9

\* The ends of the segments follow each other.
LEMMA EndsGrow ==
    ASSUME NEW s \in Seq(Segment), NEW t, NEW at, Layout(s, t, at)
    PROVE  \A k \in 0..Len(s) : \A i \in 0..k : at[i] <= at[k] /\ (i < k => at[i] < at[k])
<1> DEFINE n == Len(s)
           P == {k \in Nat : k <= n => \A i \in 0..k : at[i] <= at[k] /\ (i < k => at[i] < at[k])}
<1>1. n \in Nat /\ at \in [0..n -> Nat] /\ \A k \in 1..n : s[k] \in Segment
  BY LenProperties, ElementOfSeq DEF Layout
<1>2. ASSUME NEW k \in 1..n PROVE at[k - 1] < at[k]
  <2>1. at[k] = at[k - 1] + 1 + Len(s[k]) /\ Len(s[k]) \in Nat /\ at[k - 1] \in Nat
    BY <1>1, SegmentText DEF Layout, LaidOut
  <2> QED
    BY <2>1
<1>3. 0 \in P
  BY <1>1
<1>4. ASSUME NEW k \in Nat, k \in P PROVE k + 1 \in P
  <2> SUFFICES ASSUME k + 1 <= n, NEW i \in 0..(k + 1)
               PROVE  at[i] <= at[k + 1] /\ (i < k + 1 => at[i] < at[k + 1])
    OBVIOUS
  <2>1. at[k] < at[k + 1] /\ at[k] \in Nat /\ at[k + 1] \in Nat
    BY <1>1, <1>2
  <2>2. CASE i = k + 1
    BY <2>1, <2>2
  <2>3. CASE i \in 0..k
    <3>1. at[i] <= at[k] /\ at[i] \in Nat
      BY <1>1, <1>4, <2>3
    <3> QED
      BY <2>1, <3>1
  <2> QED
    BY <2>2, <2>3
<1> HIDE DEF P
<1>5. \A k \in Nat : k \in P
  BY <1>3, <1>4, SetInduction
<1> QED
  BY <1>1, <1>5 DEF P

\* Every character of a text is in one of its segments, or the slash before it.
LEMMA Coverage ==
    ASSUME NEW s \in Seq(Segment), NEW t, NEW at, Layout(s, t, at), NEW i \in 1..Len(t)
    PROVE  \E k \in 1..Len(s) : at[k - 1] < i /\ i <= at[k]
<1> DEFINE n == Len(s)
           P == {m \in Nat : m <= n /\ i <= at[m] => \E k \in 1..m : at[k - 1] < i /\ i <= at[k]}
<1>1. /\ n \in Nat /\ at \in [0..n -> Nat] /\ at[0] = 0 /\ at[n] = Len(t)
      /\ i \in Nat /\ 1 <= i /\ i <= at[n]
  BY LenProperties DEF Layout
<1>2. 0 \in P
  BY <1>1
<1>3. ASSUME NEW m \in Nat, m \in P PROVE m + 1 \in P
  <2> SUFFICES ASSUME m + 1 <= n, i <= at[m + 1]
               PROVE  \E k \in 1..(m + 1) : at[k - 1] < i /\ i <= at[k]
    OBVIOUS
  <2>1. CASE i <= at[m]
    BY <1>1, <1>3, <2>1
  <2>2. CASE at[m] < i
    <3>1. m + 1 \in 1..(m + 1) /\ at[(m + 1) - 1] < i
      BY <2>2
    <3> QED
      BY <3>1
  <2>3. at[m] \in Nat
    BY <1>1
  <2> QED
    BY <1>1, <2>1, <2>2, <2>3
<1> HIDE DEF P
<1>4. n \in P
  BY <1>1, <1>2, <1>3, SetInduction
<1> QED
  BY <1>1, <1>4 DEF P

\* One block of a layout, in plain terms.
LEMMA Block ==
    ASSUME NEW s \in Seq(Segment), NEW t, NEW at, Layout(s, t, at), NEW k \in 1..Len(s)
    PROVE  /\ s[k] \in Segment /\ Len(s[k]) \in Nat
           /\ at[k - 1] \in Nat /\ at[k] \in Nat /\ at[k] = at[k - 1] + 1 + Len(s[k])
           /\ at[k] <= Len(t) /\ Len(t) \in Nat
           /\ t[at[k - 1] + 1] = "/"
           /\ \A j \in 1..Len(s[k]) : t[at[k - 1] + 1 + j] = s[k][j] /\ s[k][j] # "/"
           /\ \A i \in 1..at[k] : at[k - 1] < i => i = at[k - 1] + 1 \/ i - (at[k - 1] + 1) \in 1..Len(s[k])
<1>1. s[k] \in Segment /\ Len(s) \in Nat
  BY ElementOfSeq, LenProperties
<1>2. Len(s[k]) \in Nat /\ \A j \in 1..Len(s[k]) : s[k][j] # "/"
  BY <1>1, SegmentText
<1>3. LaidOut(s, t, at, k) /\ at[Len(s)] = Len(t) /\ Len(t) \in Nat
  BY LenProperties DEF Layout
<1>4. at[k - 1] \in Nat /\ at[k] = at[k - 1] + 1 + Len(s[k])
  BY <1>3 DEF LaidOut
<1>5. at[k] <= at[Len(s)]
  BY <1>1, EndsGrow
<1>6. \A i \in 1..at[k] : at[k - 1] < i => i = at[k - 1] + 1 \/ i - (at[k - 1] + 1) \in 1..Len(s[k])
  <2>1. Len(s[k]) \in Nat
    BY <1>2
  <2> QED
    BY <1>4, <2>1, Positions
<1> QED
  BY <1>1, <1>2, <1>3, <1>4, <1>5, <1>6 DEF LaidOut

\* The block after the k-th end.
BlockAfter(s, t, at, k) ==
    /\ s[k + 1] \in Segment /\ Len(s[k + 1]) \in Nat
    /\ at[k] \in Nat /\ at[k + 1] \in Nat /\ at[k + 1] = at[k] + 1 + Len(s[k + 1])
    /\ at[k + 1] <= Len(t) /\ Len(t) \in Nat
    /\ t[at[k] + 1] = "/"
    /\ \A j \in 1..Len(s[k + 1]) :
         t[at[k] + 1 + j] = s[k + 1][j] /\ s[k + 1][j] # "/"

\* There is one after each end but the last.
LEMMA NextBlock ==
    ASSUME NEW s \in Seq(Segment), NEW t, NEW at, Layout(s, t, at),
           NEW k \in Nat, k + 1 <= Len(s)
    PROVE  BlockAfter(s, t, at, k)
<1> DEFINE c == k + 1
<1>1. c - 1 = k /\ c \in 1..Len(s)
  BY LenProperties
<1> HIDE DEF c
<1>2. /\ s[c] \in Segment /\ Len(s[c]) \in Nat
      /\ at[c - 1] \in Nat /\ at[c] \in Nat /\ at[c] = at[c - 1] + 1 + Len(s[c])
      /\ at[c] <= Len(t) /\ Len(t) \in Nat
      /\ t[at[c - 1] + 1] = "/"
      /\ \A j \in 1..Len(s[c]) : t[at[c - 1] + 1 + j] = s[c][j] /\ s[c][j] # "/"
  BY <1>1, Block
<1>3. at[c - 1] = at[k]
  BY <1>1
<1> QED
  BY <1>2, <1>3 DEF c, BlockAfter

\* Two texts whose segments begin alike begin alike.
LEMMA SameBeginning ==
    ASSUME NEW s \in Seq(Segment), NEW t, NEW at, Layout(s, t, at),
           NEW r \in Seq(Segment), NEW u, NEW bt, Layout(r, u, bt),
           NEW m \in Nat, m <= Len(s), m <= Len(r), \A i \in 1..m : r[i] = s[i]
    PROVE  at[m] = bt[m] /\ \A i \in 1..at[m] : t[i] = u[i]
<1> DEFINE P == {k \in Nat : k <= m => at[k] = bt[k]}
<1>1. Len(s) \in Nat /\ Len(r) \in Nat /\ at \in [0..Len(s) -> Nat]
  BY LenProperties DEF Layout
<1>2. 0 \in P
  BY DEF Layout
<1>3. ASSUME NEW k \in Nat, k \in P PROVE k + 1 \in P
  <2> SUFFICES ASSUME k + 1 <= m PROVE at[k + 1] = bt[k + 1]
    OBVIOUS
  <2>1. k + 1 \in 1..Len(s) /\ k + 1 \in 1..Len(r) /\ k + 1 \in 1..m /\ (k + 1) - 1 = k
    BY <1>1
  <2>2. at[k] = bt[k]
    BY <1>3
  <2>3. at[k + 1] = at[k] + 1 + Len(s[k + 1])
    BY <2>1, Block
  <2>4. bt[k + 1] = bt[k] + 1 + Len(r[k + 1])
    BY <2>1, Block
  <2> QED
    BY <2>1, <2>2, <2>3, <2>4
<1> HIDE DEF P
<1>4. \A k \in Nat : k \in P
  BY <1>2, <1>3, SetInduction
<1>5. \A k \in 0..m : at[k] = bt[k]
  BY <1>4 DEF P
<1>6. ASSUME NEW i \in 1..at[m] PROVE t[i] = u[i]
  <2>1. at[m] <= at[Len(s)] /\ at[m] \in Nat
    <3>1. Len(s) \in 0..Len(s) /\ m \in 0..Len(s)
      BY <1>1
    <3> QED
      BY <1>1, <3>1, EndsGrow
  <2>2. i \in 1..Len(t)
    BY <2>1 DEF Layout
  <2>3. PICK k \in 1..Len(s) : at[k - 1] < i /\ i <= at[k]
    BY <2>2, Coverage
  <2>4. k <= m
    <3>1. SUFFICES ASSUME m <= k - 1 PROVE FALSE
      BY <1>1
    <3>2. k - 1 \in 0..Len(s) /\ m \in 0..(k - 1)
      BY <1>1, <3>1
    <3>3. at[m] <= at[k - 1] /\ at[k - 1] \in Nat
      BY <1>1, <3>2, EndsGrow
    <3> QED
      BY <2>1, <2>3, <3>3
  <2>5. k \in 1..Len(r) /\ k \in 0..m /\ k - 1 \in 0..m /\ r[k] = s[k]
    BY <1>1, <2>4
  <2>6. at[k] = bt[k] /\ at[k - 1] = bt[k - 1]
    BY <1>5, <2>5
  <2> DEFINE j == i - (at[k - 1] + 1)
  <2>7. CASE i = at[k - 1] + 1
    <3>1. t[at[k - 1] + 1] = "/"
      BY Block
    <3>2. u[bt[k - 1] + 1] = "/"
      BY <2>5, Block
    <3> QED
      BY <2>6, <2>7, <3>1, <3>2
  <2>8. CASE j \in 1..Len(s[k])
    <3>3. at[k - 1] + 1 + j = i
      BY <2>1, Block
    <3> HIDE DEF j
    <3>1. t[at[k - 1] + 1 + j] = s[k][j]
      BY <2>8, Block
    <3>4. j \in 1..Len(r[k])
      BY <2>5, <2>8
    <3>2. u[bt[k - 1] + 1 + j] = r[k][j]
      BY <2>5, <3>4, Block
    <3> QED
      BY <2>5, <2>6, <3>1, <3>2, <3>3
  <2>9. i \in 1..at[k]
    BY <2>3, Block
  <2> QED
    BY <2>3, <2>7, <2>8, <2>9, Block
<1> QED
  BY <1>5, <1>6

\* Where two texts have the same characters, a segment of one that ends at a slash, or at
\* the end, is the segment of the other.
LEMMA SameSegment ==
    ASSUME NEW t, NEW u, Len(t) \in Nat, Len(u) \in Nat, Len(t) <= Len(u),
           \A i \in 1..Len(t) : u[i] = t[i],
           NEW l \in Nat, NEW x \in Segment, NEW y \in Segment,
           l + Len(x) <= Len(t), l + Len(y) <= Len(u),
           \A j \in 1..Len(x) : t[l + j] = x[j], \A j \in 1..Len(y) : u[l + j] = y[j],
           l + Len(x) = Len(u) \/ u[l + Len(x) + 1] = "/",
           l + Len(y) = Len(u) \/ u[l + Len(y) + 1] = "/"
    PROVE  x = y
<1>1. /\ x \in Seq(Written) /\ Len(x) \in Nat /\ \A j \in 1..Len(x) : x[j] # "/"
      /\ y \in Seq(Written) /\ Len(y) \in Nat /\ \A j \in 1..Len(y) : y[j] # "/"
  BY SegmentText
<1>2. \A j \in 1..Len(x) : l + j \in 1..Len(t) /\ u[l + j] = x[j]
  <2>1. \A j \in 1..Len(x) : l + j \in 1..Len(t)
    BY <1>1
  <2> QED
    BY <2>1
<1>3. ~(Len(y) < Len(x))
  <2> SUFFICES ASSUME Len(y) < Len(x) PROVE FALSE
    OBVIOUS
  <2>1. Len(y) + 1 \in 1..Len(x) /\ l + (Len(y) + 1) = l + Len(y) + 1 /\ l + Len(y) # Len(u)
    BY <1>1
  <2>2. u[l + (Len(y) + 1)] = x[Len(y) + 1] /\ x[Len(y) + 1] # "/"
    BY <1>1, <1>2, <2>1
  <2> QED
    BY <2>1, <2>2
<1>4. ~(Len(x) < Len(y))
  <2> SUFFICES ASSUME Len(x) < Len(y) PROVE FALSE
    OBVIOUS
  <2>1. Len(x) + 1 \in 1..Len(y) /\ l + (Len(x) + 1) = l + Len(x) + 1 /\ l + Len(x) # Len(u)
    BY <1>1
  <2>2. u[l + (Len(x) + 1)] = y[Len(x) + 1] /\ y[Len(x) + 1] # "/"
    BY <1>1, <2>1
  <2> QED
    BY <2>1, <2>2
<1>5. Len(x) = Len(y)
  BY <1>1, <1>3, <1>4
<1>6. \A j \in 1..Len(x) : x[j] = y[j]
  BY <1>2, <1>5
<1> QED
  BY <1>1, <1>5, <1>6, SeqEqual

\* A text that another begins with, up to its end or to a slash, has its segments.
LEMMA Parse ==
    ASSUME NEW s \in Seq(Segment), NEW t, NEW at, Layout(s, t, at),
           NEW r \in Seq(Segment), NEW u, NEW bt, Layout(r, u, bt),
           Len(t) <= Len(u), \A i \in 1..Len(t) : u[i] = t[i],
           Len(u) = Len(t) \/ u[Len(t) + 1] = "/"
    PROVE  /\ Len(s) <= Len(r) /\ bt[Len(s)] = Len(t)
           /\ \A i \in 1..Len(s) : r[i] = s[i]
<1> DEFINE P == {k \in Nat : k <= Len(s) =>
                   k <= Len(r) /\ at[k] = bt[k] /\ \A i \in 1..k : r[i] = s[i]}
<1>1. /\ Len(s) \in Nat /\ Len(r) \in Nat /\ Len(t) \in Nat /\ Len(u) \in Nat
      /\ at \in [0..Len(s) -> Nat] /\ bt \in [0..Len(r) -> Nat]
      /\ at[Len(s)] = Len(t) /\ bt[Len(r)] = Len(u) /\ at[0] = 0 /\ bt[0] = 0
  BY LenProperties DEF Layout
<1>2. 0 \in P
  BY <1>1
<1>3. ASSUME NEW k \in Nat, k \in P PROVE k + 1 \in P
  <2> SUFFICES ASSUME k + 1 <= Len(s)
               PROVE  /\ k + 1 <= Len(r) /\ at[k + 1] = bt[k + 1]
                      /\ \A i \in 1..(k + 1) : r[i] = s[i]
    OBVIOUS
  <2>1. k <= Len(r) /\ at[k] = bt[k] /\ \A i \in 1..k : r[i] = s[i]
    BY <1>1, <1>3
  <2>2. BlockAfter(s, t, at, k)
    BY NextBlock
  <2>3. at[k] < Len(t) /\ at[k] \in Nat
    BY <1>1, <2>2 DEF BlockAfter
  <2>4. k + 1 <= Len(r)
    <3>1. k # Len(r)
      BY <1>1, <2>1, <2>3
    <3> QED
      BY <1>1, <2>1, <3>1
  <2>5. BlockAfter(r, u, bt, k)
    BY <2>4, NextBlock
  <2>6. at[k + 1] = Len(u) \/ u[at[k + 1] + 1] = "/"
    <3>1. CASE k + 1 = Len(s)
      BY <1>1, <3>1
    <3>2. CASE (k + 1) + 1 <= Len(s)
      <4>1. BlockAfter(s, t, at, k + 1)
        BY <3>2, NextBlock
      <4>2. t[at[k + 1] + 1] = "/" /\ at[k + 1] + 1 \in 1..Len(t)
        <5>1. /\ at[k + 1] \in Nat /\ Len(s[(k + 1) + 1]) \in Nat /\ Len(t) \in Nat
              /\ at[(k + 1) + 1] = at[k + 1] + 1 + Len(s[(k + 1) + 1])
              /\ at[(k + 1) + 1] <= Len(t) /\ t[at[k + 1] + 1] = "/"
          BY <4>1 DEF BlockAfter
        <5>2. at[k + 1] + 1 + Len(s[(k + 1) + 1]) <= Len(t)
          BY <5>1
        <5> QED
          BY <5>1, <5>2, Positions
      <4> QED
        BY <4>2
    <3> QED
      BY <1>1, <3>1, <3>2
  <2>7. bt[k + 1] = Len(u) \/ u[bt[k + 1] + 1] = "/"
    <3>1. CASE k + 1 = Len(r)
      BY <1>1, <3>1
    <3>2. CASE (k + 1) + 1 <= Len(r)
      <4>1. BlockAfter(r, u, bt, k + 1)
        BY <3>2, NextBlock
      <4> QED
        BY <4>1 DEF BlockAfter
    <3> QED
      BY <1>1, <2>4, <3>1, <3>2
  <2>8. s[k + 1] = r[k + 1]
    <3> DEFINE l == at[k] + 1
               x == s[k + 1]
               y == r[k + 1]
    <3>1. /\ l \in Nat /\ x \in Segment /\ Len(x) \in Nat /\ at[k + 1] = l + Len(x)
          /\ at[k + 1] <= Len(t) /\ \A j \in 1..Len(x) : t[l + j] = x[j]
      <4>1. l \in Nat
        BY <2>3
      <4>2. x \in Segment /\ Len(x) \in Nat /\ at[k + 1] = l + Len(x) /\ at[k + 1] <= Len(t)
        BY <2>2 DEF BlockAfter
      <4>3. \A j \in 1..Len(x) : t[l + j] = x[j]
        BY <2>2 DEF BlockAfter
      <4> QED
        BY <4>1, <4>2, <4>3
    <3>2. /\ y \in Segment /\ bt[k + 1] = l + Len(y) /\ bt[k + 1] <= Len(u)
          /\ \A j \in 1..Len(y) : u[l + j] = y[j]
      BY <2>1, <2>5 DEF BlockAfter
    <3> HIDE DEF l, x, y
    <3>3. x = y
      <4>1. /\ l + Len(x) <= Len(t) /\ l + Len(y) <= Len(u)
            /\ l + Len(x) = Len(u) \/ u[l + Len(x) + 1] = "/"
            /\ l + Len(y) = Len(u) \/ u[l + Len(y) + 1] = "/"
        BY <2>6, <2>7, <3>1, <3>2
      <4>2. Len(t) \in Nat /\ Len(u) \in Nat
        BY <1>1
      <4> QED
        BY <3>1, <3>2, <4>1, <4>2, SameSegment
    <3> QED
      BY <3>3 DEF x, y
  <2>9. at[k + 1] = bt[k + 1]
    BY <2>1, <2>2, <2>5, <2>8 DEF BlockAfter
  <2>10. \A i \in 1..(k + 1) : i \in 1..k \/ i = k + 1
    OBVIOUS
  <2> QED
    BY <2>1, <2>4, <2>8, <2>9, <2>10
<1> HIDE DEF P
<1>4. Len(s) \in P
  BY <1>1, <1>2, <1>3, SetInduction
<1> QED
  BY <1>1, <1>4 DEF P
-----------------------------------------------------------------------------
(* The comparisons of texts, one by one. *)

\* The maximum of a set that has one.
LEMMA MaxIs ==
    ASSUME NEW S \in SUBSET Nat, NEW m \in S, \A k \in S : k <= m
    PROVE  Max(S) = m
<1>1. m \in S /\ \A k \in S : m >= k
  OBVIOUS
<1>2. Max(S) \in S /\ \A k \in S : Max(S) >= k
  BY <1>1 DEF Max
<1>3. Max(S) >= m /\ m >= Max(S) /\ Max(S) \in Nat /\ m \in Nat
  BY <1>1, <1>2
<1> QED
  BY <1>3

\* What TrimRight cuts: the empty segments at the end.
LEMMA TrimRightCuts ==
    ASSUME NEW s \in Seq(Segment)
    PROVE  LET r == TrimRight(s) IN
           /\ r \in Seq(Segment) /\ Len(r) \in 0..Len(s)
           /\ \A i \in 1..Len(r) : r[i] = s[i]
           /\ \A i \in 1..Len(s) : Len(r) < i => s[i] = Empty
           /\ Len(r) > 0 => r[Len(r)] # Empty
<1> DEFINE S == {0} \cup {i \in DOMAIN s : s[i] # Empty}
<1>1. Len(s) \in Nat /\ DOMAIN s = 1..Len(s) /\ \A i \in 1..Len(s) : s[i] \in Segment
  BY LenProperties, ElementOfSeq
<1>2. S \in SUBSET Nat /\ S # {} /\ \A k \in S : k <= Len(s)
  BY <1>1
<1>3. PICK m \in S : \A k \in S : k <= m
  BY <1>1, <1>2, BoundedSetHasMax
<1>4. Max(S) = m
  BY <1>2, <1>3, MaxIs
<1>5. TrimRight(s) = SubSeq(s, 1, m)
  BY <1>4 DEF TrimRight
<1>6. m \in 0..Len(s)
  BY <1>1, <1>2, <1>3
<1>7. /\ SubSeq(s, 1, m) \in Seq(Segment) /\ Len(SubSeq(s, 1, m)) = m
      /\ \A i \in 1..m : SubSeq(s, 1, m)[i] = s[i]
  BY <1>1, <1>6, SubSeqProperties
<1>8. \A i \in 1..Len(s) : m < i => s[i] = Empty
  BY <1>1, <1>3, <1>6
<1>9. m > 0 => s[m] # Empty
  BY <1>3
<1> HIDE DEF S
<1> QED
  BY <1>5, <1>6, <1>7, <1>8, <1>9

\* No segments make no text.
LEMMA NoText ==
    ASSUME NEW s \in Seq(Segment), NEW t, NEW at, Layout(s, t, at)
    PROVE  s = << >> <=> t = << >>
<1>1. Len(s) \in Nat /\ Len(t) \in Nat /\ at[0] = 0 /\ at[Len(s)] = Len(t) /\ t \in Seq(Written)
  BY LenProperties DEF Layout
<1>2. CASE Len(s) = 0
  <2>1. s = << >> /\ t = << >>
    BY <1>1, <1>2, EmptySeq
  <2> QED
    BY <2>1
<1>3. CASE Len(s) > 0
  <2>1. Len(s) \in 1..Len(s)
    BY <1>1, <1>3
  <2>3. /\ at[Len(s) - 1] \in Nat /\ at[Len(s)] = at[Len(s) - 1] + 1 + Len(s[Len(s)])
        /\ Len(s[Len(s)]) \in Nat
    BY <2>1, Block
  <2>2. Len(t) > 0
    BY <1>1, <2>3
  <2> QED
    BY <1>1, <1>3, <2>2, EmptySeq
<1> QED
  BY <1>1, <1>2, <1>3

\* Cutting the slashes at the end of a text cuts the empty segments at the end.
LEMMA TextTrimRightIs ==
    ASSUME NEW s \in Seq(Segment)
    PROVE  TextTrimRight(PathText(s)) = PathText(TrimRight(s))
<1> DEFINE r == TrimRight(s)
           m == Len(r)
           t == Text(s)
           u == Text(r)
<1>1. /\ r \in Seq(Segment) /\ m \in 0..Len(s) /\ m \in Nat /\ Len(s) \in Nat
      /\ \A i \in 1..m : r[i] = s[i]
      /\ \A i \in 1..Len(s) : m < i => s[i] = Empty
      /\ m > 0 => r[m] # Empty
  BY TrimRightCuts, LenProperties
<1>2. PICK at : Layout(s, t, at)
  BY TextLayout
<1>3. PICK bt : Layout(r, u, bt)
  BY <1>1, TextLayout
<1> HIDE DEF r, t, u
<1>4. /\ t \in Seq(Written) /\ Len(t) \in Nat /\ DOMAIN t = 1..Len(t) /\ at \in [0..Len(s) -> Nat]
      /\ at[0] = 0 /\ at[Len(s)] = Len(t)
      /\ u \in Seq(Written) /\ bt[m] = Len(u)
  BY <1>2, <1>3, LenProperties DEF Layout
<1>5. at[m] = bt[m] /\ \A i \in 1..at[m] : t[i] = u[i]
  BY <1>1, <1>2, <1>3, SameBeginning
<1>6. at[m] \in Nat /\ at[m] <= Len(t)
  <2>1. Len(s) \in 0..Len(s) /\ m \in 0..Len(s)
    BY <1>1
  <2>2. at[m] <= at[Len(s)] /\ at[m] \in Nat
    BY <1>1, <1>2, <1>4, <2>1, EndsGrow
  <2> QED
    BY <1>4, <2>2
<1> DEFINE kept == {i \in DOMAIN t : t[i] # "/"}
           trimmed == SubSeq(t, 1, Max({0} \cup kept))
<1>7. at[m] \in {0} \cup kept
  <2>1. CASE m = 0
    BY <1>4, <2>1
  <2>2. CASE m > 0
    <3>1. m \in 1..Len(s) /\ s[m] # Empty
      BY <1>1, <2>2
    <3>2. s[m] \in Segment /\ Len(s[m]) \in Nat /\ at[m] = at[m - 1] + 1 + Len(s[m]) /\ at[m - 1] \in Nat
          /\ \A j \in 1..Len(s[m]) : t[at[m - 1] + 1 + j] = s[m][j] /\ s[m][j] # "/"
      BY <1>2, <3>1, Block
    <3>3. Len(s[m]) # 0
      BY <3>1, <3>2, SegmentText
    <3>5. Len(s[m]) \in 1..Len(s[m])
      BY <3>2, <3>3
    <3>6. t[at[m - 1] + 1 + Len(s[m])] # "/"
      BY <3>2, <3>5
    <3>4. t[at[m]] # "/" /\ at[m] > 0
      BY <3>2, <3>6
    <3> QED
      BY <1>4, <1>6, <3>4
  <2> QED
    BY <1>1, <2>1, <2>2
<1>8. \A i \in {0} \cup kept : i <= at[m]
  <2> SUFFICES ASSUME NEW i \in kept, at[m] < i PROVE FALSE
    <3>1. \A i \in {0} \cup kept : i \in Nat /\ (i <= at[m] \/ at[m] < i)
      BY <1>4, <1>6
    <3>2. 0 <= at[m]
      BY <1>6
    <3> QED
      BY <3>1, <3>2
  <2>1. i \in 1..Len(t) /\ t[i] # "/"
    BY <1>4
  <2>2. PICK k \in 1..Len(s) : at[k - 1] < i /\ i <= at[k]
    BY <1>2, <2>1, Coverage
  <2>3. m < k
    <3>1. SUFFICES ASSUME k <= m PROVE FALSE
      BY <1>1
    <3>2. k \in 0..m /\ k \in 0..Len(s)
      BY <1>1, <3>1
    <3>3. at[k] <= at[m] /\ at[k] \in Nat
      BY <1>1, <1>2, <1>4, <3>2, EndsGrow
    <3> QED
      BY <1>6, <2>1, <2>2, <3>3
  <2>4. Len(s[k]) = 0
    BY <1>1, <2>3, SegmentText, SegmentAssumption
  <2>5. /\ at[k - 1] \in Nat /\ at[k] = at[k - 1] + 1 + Len(s[k]) /\ t[at[k - 1] + 1] = "/"
    BY <1>2, Block
  <2>6. i = at[k - 1] + 1
    BY <2>1, <2>2, <2>4, <2>5
  <2> QED
    BY <2>1, <2>5, <2>6
<1>9. Max({0} \cup kept) = at[m]
  <2>1. {0} \cup kept \in SUBSET Nat
    BY <1>4
  <2> QED
    BY <1>7, <1>8, <2>1, MaxIs
<1>10. SubSeq(t, 1, at[m]) = u
  <2>1. \A i \in 1..at[m] : t[i] \in Written
    BY <1>4, <1>6, ElementOfSeq
  <2>2. /\ SubSeq(t, 1, at[m]) \in Seq(Written) /\ Len(SubSeq(t, 1, at[m])) = at[m]
        /\ \A i \in 1..at[m] : SubSeq(t, 1, at[m])[i] = t[i]
    BY <1>6, <2>1, SubSeqProperties
  <2> QED
    BY <1>4, <1>5, <2>2, SeqEqual
<1>11. trimmed = u
  BY <1>9, <1>10
<1>12. TextTrimRight(t) = IF u = << >> THEN <<"/">> ELSE u
  BY <1>11 DEF TextTrimRight
<1>13. PathText(r) = IF u = << >> THEN <<"/">> ELSE u
  BY <1>1, <1>3, NoText DEF PathText, u
<1>14. CASE s # << >>
  BY <1>12, <1>13, <1>14 DEF PathText, t, r
<1>15. CASE s = << >>
  <2>1. PathText(s) = <<"/">> /\ r = << >>
    BY <1>1, <1>15, EmptySeq DEF PathText
  <2>2. TextTrimRight(<<"/">>) = <<"/">>
    <3>1. DOMAIN <<"/">> = {1} /\ <<"/">>[1] = "/"
      OBVIOUS
    <3>2. {i \in DOMAIN <<"/">> : <<"/">>[i] # "/"} = {}
      BY <3>1
    <3>3. Max({0} \cup {}) = 0
      BY MaxIs
    <3>4. SubSeq(<<"/">>, 1, 0) = << >>
      BY SubSeqEmpty
    <3> QED
      BY <3>2, <3>3, <3>4 DEF TextTrimRight
  <2> QED
    BY <2>1, <2>2 DEF PathText, r
<1> QED
  BY <1>14, <1>15

\* A base of a pattern, and a text that begins with it.
LEMMA BaseText ==
    ASSUME NEW s \in Seq(Segment), s # << >>, s[Len(s)] # Empty
    PROVE  Text(s) \in Seq(Written) /\ Len(Text(s)) \in Nat /\ Len(Text(s)) >= 2
<1>1. PICK at : Layout(s, Text(s), at)
  BY TextLayout
<1>2. Len(s) \in 1..Len(s)
  BY EmptySeq
<1>3. Len(s[Len(s)]) # 0 /\ s[Len(s)] \in Segment
  BY <1>2, SegmentText, ElementOfSeq
<1>4. /\ Len(s[Len(s)]) \in Nat /\ at[Len(s) - 1] \in Nat
      /\ at[Len(s)] = at[Len(s) - 1] + 1 + Len(s[Len(s)])
  BY <1>1, <1>2, Block
<1>5. Text(s) \in Seq(Written) /\ Len(Text(s)) \in Nat /\ at[Len(s)] = Len(Text(s))
  BY <1>1, LenProperties DEF Layout
<1> QED
  BY <1>3, <1>4, <1>5

\* That a text begins with another and a slash, character by character.
LEMMA PrefixText ==
    ASSUME NEW t \in Seq(Written), NEW u \in Seq(Written)
    PROVE  IsPrefix(t \o <<"/">>, u)
             <=> /\ Len(t) + 1 <= Len(u) /\ u[Len(t) + 1] = "/"
                 /\ \A i \in 1..Len(t) : u[i] = t[i]
<1> DEFINE v == t \o <<"/">>
<1>1. << >> \in Seq(Written) /\ Len(t) \in Nat /\ Len(u) \in Nat
  BY LenProperties, EmptySeq
<1>2. <<"/">> \in Seq(Written) /\ Len(<<"/">>) = 1 /\ <<"/">>[1] = "/"
  <2>1. "/" \in Written
    BY DEF Written
  <2>2. <<"/">> \in [1..1 -> Written] /\ Len(<<"/">>) = 1
    BY <2>1
  <2> QED
    BY <2>2
<1>3. /\ v \in Seq(Written) /\ Len(v) = Len(t) + 1
      /\ \A i \in 1..Len(t) : v[i] = t[i]
      /\ v[Len(t) + 1] = "/"
  BY <1>1, <1>2, ConcatProperties
<1> HIDE DEF v
<1>4. SubSeq(v, 1, Len(v)) = v
  BY <1>3, SubSeqFull
<1>5. ASSUME Len(v) <= Len(u)
      PROVE  /\ SubSeq(u, 1, Len(v)) \in Seq(Written) /\ Len(SubSeq(u, 1, Len(v))) = Len(v)
             /\ \A i \in 1..Len(v) : SubSeq(u, 1, Len(v))[i] = u[i]
  <2>1. Len(v) \in Int /\ 1 <= Len(v) /\ \A i \in 1..Len(v) : u[i] \in Written
    BY <1>1, <1>3, <1>5, ElementOfSeq
  <2> QED
    BY <2>1, SubSeqProperties
<1>6. ASSUME IsPrefix(v, u)
      PROVE  /\ Len(t) + 1 <= Len(u) /\ u[Len(t) + 1] = "/"
             /\ \A i \in 1..Len(t) : u[i] = t[i]
  <2>1. Len(v) <= Len(u) /\ SubSeq(u, 1, Len(v)) = v
    BY <1>4, <1>6 DEF IsPrefix
  <2>2. \A i \in 1..Len(v) : u[i] = v[i]
    BY <1>5, <2>1
  <2> QED
    BY <1>1, <1>3, <2>1, <2>2
<1>7. ASSUME Len(t) + 1 <= Len(u), u[Len(t) + 1] = "/", \A i \in 1..Len(t) : u[i] = t[i]
      PROVE  IsPrefix(v, u)
  <2>1. Len(v) <= Len(u)
    BY <1>3, <1>7
  <2>2. \A i \in 1..Len(v) : u[i] = v[i]
    BY <1>1, <1>3, <1>7
  <2>3. SubSeq(u, 1, Len(v)) = v
    BY <1>3, <1>5, <2>1, <2>2, SeqEqual
  <2> QED
    BY <1>4, <2>1, <2>3 DEF IsPrefix
<1> QED
  BY <1>6, <1>7 DEF v

\* A request has the text of a base exactly if it has its segments.
LEMMA SameText ==
    ASSUME NEW s \in Seq(Segment), s # << >>, s[Len(s)] # Empty, NEW r \in Seq(Segment)
    PROVE  PathText(r) = Text(s) <=> r = s
<1>1. Text(s) \in Seq(Written) /\ Len(Text(s)) >= 2 /\ Len(Text(s)) \in Nat
  BY BaseText
<1>2. CASE r = << >>
  <2>1. PathText(r) = <<"/">> /\ Len(<<"/">>) = 1
    BY <1>2 DEF PathText
  <2>2. PathText(r) # Text(s)
    <3>1. Len(PathText(r)) = 1
      BY <2>1
    <3>2. \A k \in Nat : k >= 2 => k # 1
      OBVIOUS
    <3>3. Len(Text(s)) # 1
      BY <1>1, <3>2
    <3> QED
      BY <3>1, <3>3
  <2> QED
    BY <1>2, <2>2
<1>3. CASE r # << >>
  <2>1. PathText(r) = Text(r)
    BY <1>3 DEF PathText
  <2>2. ASSUME Text(r) = Text(s) PROVE r = s
    <3>1. PICK at : Layout(s, Text(s), at)
      BY TextLayout
    <3>2. PICK bt : Layout(r, Text(s), bt)
      BY <2>2, TextLayout
    <3>3. Len(s) <= Len(r) /\ \A i \in 1..Len(s) : r[i] = s[i]
      BY <1>1, <3>1, <3>2, Parse
    <3>4. Len(r) <= Len(s)
      BY <1>1, <3>1, <3>2, Parse
    <3>5. Len(r) = Len(s)
      BY <3>3, <3>4, LenProperties
    <3> QED
      BY <3>3, <3>5, SeqEqual
  <2> QED
    BY <2>1, <2>2
<1> QED
  BY <1>2, <1>3

\* A request begins with the text of a base and a slash exactly if it is under it.
LEMMA TextUnder ==
    ASSUME NEW s \in Seq(Segment), s # << >>, s[Len(s)] # Empty, NEW r \in Seq(Segment)
    PROVE  IsPrefix(Text(s) \o <<"/">>, PathText(r)) <=> Under(s, r)
<1>1. Text(s) \in Seq(Written) /\ Len(Text(s)) >= 2 /\ Len(Text(s)) \in Nat
  BY BaseText
<1>2. Len(s) \in Nat /\ Len(r) \in Nat
  BY LenProperties
<1>3. CASE r = << >>
  <2>1. PathText(r) = <<"/">> /\ Len(<<"/">>) = 1
    BY <1>3 DEF PathText
  <2>2. <<"/">> \in Seq(Written)
    <3>1. "/" \in Written
      BY DEF Written
    <3> QED
      BY <3>1
  <2>3. ~IsPrefix(Text(s) \o <<"/">>, <<"/">>)
    <3>1. ~(Len(Text(s)) + 1 <= Len(<<"/">>))
      BY <1>1, <2>1
    <3> QED
      BY <1>1, <2>2, <3>1, PrefixText
  <2>4. ~Under(s, r)
    BY <1>2, <1>3, EmptySeq DEF Under
  <2> QED
    BY <2>1, <2>3, <2>4
<1>4. CASE r # << >>
  <2> DEFINE t == Text(s)
             u == Text(r)
  <2>1. PathText(r) = u
    BY <1>4 DEF PathText
  <2>2. PICK at : Layout(s, t, at)
    BY TextLayout
  <2>3. PICK bt : Layout(r, u, bt)
    BY TextLayout
  <2>4. u \in Seq(Written) /\ Len(u) \in Nat /\ bt[Len(r)] = Len(u) /\ at[Len(s)] = Len(t)
    BY <2>2, <2>3, LenProperties DEF Layout
  <2> HIDE DEF t, u
  <2>5. ASSUME Len(t) + 1 <= Len(u), u[Len(t) + 1] = "/", \A i \in 1..Len(t) : u[i] = t[i]
        PROVE  Under(s, r)
    <3>1. Len(t) \in Nat
      BY <1>1 DEF t
    <3>2. Len(s) <= Len(r) /\ bt[Len(s)] = Len(t) /\ \A i \in 1..Len(s) : r[i] = s[i]
      BY <2>2, <2>3, <2>4, <2>5, <3>1, Parse
    <3>3. Len(s) # Len(r)
      BY <2>4, <2>5, <3>1, <3>2
    <3> QED
      BY <1>2, <3>2, <3>3 DEF Under
  <2>6. ASSUME Under(s, r)
        PROVE  /\ Len(t) + 1 <= Len(u) /\ u[Len(t) + 1] = "/"
               /\ \A i \in 1..Len(t) : u[i] = t[i]
    <3>1. Len(s) < Len(r) /\ \A i \in 1..Len(s) : r[i] = s[i]
      BY <2>6 DEF Under
    <3>2. at[Len(s)] = bt[Len(s)] /\ \A i \in 1..at[Len(s)] : t[i] = u[i]
      BY <1>2, <2>2, <2>3, <3>1, SameBeginning
    <3>3. Len(s) + 1 \in 1..Len(r) /\ (Len(s) + 1) - 1 = Len(s)
      BY <1>2, <3>1
    <3>4. /\ u[bt[Len(s)] + 1] = "/" /\ bt[Len(s) + 1] = bt[Len(s)] + 1 + Len(r[Len(s) + 1])
          /\ Len(r[Len(s) + 1]) \in Nat /\ bt[Len(s) + 1] <= Len(u) /\ bt[Len(s)] \in Nat
      BY <2>3, <3>3, Block
    <3> QED
      BY <2>4, <3>2, <3>4
  <2>7. t \in Seq(Written)
    BY <1>1 DEF t
  <2> QED
    BY <2>1, <2>4, <2>5, <2>6, <2>7, PrefixText DEF t
<1> QED
  BY <1>3, <1>4

\* Below a base there is one segment exactly if there is no slash.
LEMMA TextChild ==
    ASSUME NEW s \in Seq(Segment), s # << >>, s[Len(s)] # Empty,
           NEW r \in Seq(Segment), Under(s, r)
    PROVE  LET child == SubSeq(PathText(r), Len(Text(s)) + 2, Len(PathText(r))) IN
           child # << >> /\ ~Contains(child, "/") <=> MatchesOneChild(s, r)
<1> DEFINE t == Text(s)
           u == Text(r)
           n == Len(s)
           child == SubSeq(u, Len(t) + 2, Len(u))
<1>1. n \in Nat /\ Len(r) \in Nat /\ n < Len(r) /\ \A i \in 1..n : r[i] = s[i]
  BY LenProperties DEF Under
<1>2. PathText(r) = u
  BY <1>1, EmptySeq DEF PathText
<1>3. PICK at : Layout(s, t, at)
  BY TextLayout
<1>4. PICK bt : Layout(r, u, bt)
  BY TextLayout
<1>5. /\ u \in Seq(Written) /\ Len(u) \in Nat /\ bt[Len(r)] = Len(u)
      /\ at[n] = Len(t) /\ Len(t) \in Nat
  BY <1>3, <1>4, LenProperties DEF Layout
<1> HIDE DEF t, u
<1>6. bt[n] = Len(t)
  BY <1>1, <1>3, <1>4, <1>5, SameBeginning
<1> HIDE DEF n
<1>7. n + 1 <= Len(r)
  BY <1>1
<1> DEFINE x == r[n + 1]
<1>13. BlockAfter(r, u, bt, n)
  BY <1>1, <1>4, <1>7, NextBlock
<1>8. /\ x \in Segment /\ Len(x) \in Nat /\ bt[n + 1] \in Nat /\ bt[n + 1] = Len(t) + 1 + Len(x)
      /\ bt[n + 1] <= Len(u)
      /\ \A j \in 1..Len(x) : u[Len(t) + 1 + j] = x[j] /\ x[j] # "/"
  BY <1>6, <1>13 DEF BlockAfter
<1> HIDE DEF x
<1>9. \A i \in (Len(t) + 2)..Len(u) : u[i] \in Written
  BY <1>5, ElementOfSeq
<1>10. /\ child \in Seq(Written)
       /\ Len(child) = IF Len(t) + 2 <= Len(u) THEN Len(u) - (Len(t) + 2) + 1 ELSE 0
       /\ \A i \in 1..(Len(u) - (Len(t) + 2) + 1) : child[i] = u[Len(t) + 2 + i - 1]
  BY <1>5, <1>9, SubSeqProperties
<1> HIDE DEF child
<1>11. CASE Len(r) = n + 1
  <2>1. Len(u) = Len(t) + 1 + Len(x)
    BY <1>5, <1>8, <1>11
  <2>2. Len(child) = Len(x)
    BY <1>5, <1>8, <1>10, <2>1
  <2>3. ASSUME NEW i \in 1..Len(child) PROVE child[i] # "/"
    <3>1. i \in 1..Len(x) /\ Len(t) + 2 + i - 1 = Len(t) + 1 + i
          /\ i \in 1..(Len(u) - (Len(t) + 2) + 1)
      BY <1>5, <1>8, <2>1, <2>2
    <3> QED
      BY <1>8, <1>10, <3>1
  <2>4. child # << >> <=> x # Empty
    BY <1>8, <1>10, <2>2, SegmentText, EmptySeq
  <2>5. ~Contains(child, "/")
    BY <2>3 DEF Contains
  <2>6. MatchesOneChild(s, r) <=> x # Empty
    BY <1>11 DEF MatchesOneChild, x, n
  <2> QED
    BY <1>2, <2>4, <2>5, <2>6 DEF child, t
<1>12. CASE n + 2 <= Len(r)
  <2>1. n + 2 \in 1..Len(r) /\ (n + 2) - 1 = n + 1
    BY <1>1, <1>12
  <2>2. /\ u[bt[n + 1] + 1] = "/" /\ bt[n + 2] = bt[n + 1] + 1 + Len(r[n + 2])
        /\ Len(r[n + 2]) \in Nat /\ bt[n + 2] <= Len(u) /\ bt[n + 2] \in Nat
    BY <1>4, <2>1, Block
  <2>3. /\ Len(x) + 1 \in 1..Len(child) /\ Len(x) + 1 \in 1..(Len(u) - (Len(t) + 2) + 1)
        /\ Len(t) + 2 + (Len(x) + 1) - 1 = bt[n + 1] + 1
    <3>1. Len(t) + 1 + Len(x) + 1 <= Len(u)
      <4>1. /\ bt[n + 1] = Len(t) + 1 + Len(x) /\ bt[n + 1] \in Nat /\ Len(x) \in Nat
            /\ Len(t) \in Nat /\ Len(u) \in Nat
        BY <1>5, <1>8
      <4>2. /\ bt[n + 2] = bt[n + 1] + 1 + Len(r[n + 2]) /\ Len(r[n + 2]) \in Nat
            /\ bt[n + 2] \in Nat /\ bt[n + 2] <= Len(u)
        BY <2>2
      <4>3. bt[n + 1] + 1 <= Len(u)
        <5>1. \A i, j, k, l \in Nat : i = j + 1 + k /\ i <= l => j + 1 <= l
          OBVIOUS
        <5> QED
          BY <4>1, <4>2, <5>1
      <4> QED
        BY <4>1, <4>3
    <3>2. Len(child) = Len(u) - (Len(t) + 2) + 1
      BY <1>5, <1>8, <1>10, <3>1
    <3> QED
      BY <1>5, <1>8, <3>1, <3>2
  <2>4. child[Len(x) + 1] = "/"
    BY <1>10, <2>2, <2>3
  <2>5. Contains(child, "/")
    BY <2>3, <2>4 DEF Contains
  <2>6. ~MatchesOneChild(s, r)
    BY <1>1, <1>12 DEF MatchesOneChild, n
  <2> QED
    BY <1>2, <2>5, <2>6 DEF child, t
<1> QED
  BY <1>1, <1>11, <1>12

\* Comparing segments decides exactly the requests that comparing texts does, as the
\* source does with string prefixes, for every pattern and every request.
THEOREM MatchesText ==
    ASSUME NEW p \in Pattern, NEW s \in Seq(Segment)
    PROVE  Match(p, s) <=> TextMatch(p, PathText(s))
<1> DEFINE r == TrimRight(s)
<1>1. p.base \in Seq(Segment) /\ p.base # << >> /\ p.base[Len(p.base)] # Empty /\ p.kind \in Kind
  BY DEF Pattern, Split, Valid, Trimmed
<1>2. r \in Seq(Segment)
  BY TrimRightCuts
<1>3. TextTrimRight(PathText(s)) = PathText(r)
  BY TextTrimRightIs
<1> HIDE DEF r
<1>4. PathText(r) = Text(p.base) <=> r = p.base
  BY <1>1, <1>2, SameText
<1>5. IsPrefix(Text(p.base) \o <<"/">>, PathText(r)) <=> Under(p.base, r)
  BY <1>1, <1>2, TextUnder
<1> DEFINE child == SubSeq(PathText(r), Len(Text(p.base)) + 2, Len(PathText(r)))
<1>6. Under(p.base, r) => (child # << >> /\ ~Contains(child, "/") <=> MatchesOneChild(p.base, r))
  BY <1>1, <1>2, TextChild
<1>7. MatchesOneChild(p.base, r) => Under(p.base, r)
  BY DEF MatchesOneChild
<1>8. TextMatch(p, PathText(s)) <=>
        CASE p.kind = "recursive"   -> PathText(r) = Text(p.base) \/ IsPrefix(Text(p.base) \o <<"/">>, PathText(r))
          [] p.kind = "singleLevel" -> IsPrefix(Text(p.base) \o <<"/">>, PathText(r)) /\ child # << >> /\ ~Contains(child, "/")
          [] p.kind = "exact"       -> PathText(r) = Text(p.base)
  BY <1>3 DEF TextMatch
<1> HIDE DEF child
<1>9. Match(p, s) <=> matches(p, r)
  BY DEF Match, r
<1> QED
  BY <1>1, <1>4, <1>5, <1>6, <1>7, <1>8, <1>9 DEF matches, Kind

\* The router counts the characters of a base, the model its segments: of patterns that
\* match one request, both find the same ones the narrowest.
THEOREM SpecificityCountsText ==
    ASSUME NEW p \in Pattern, NEW q \in Pattern, NEW r \in RequestPath,
           matches(p, r), matches(q, r)
    PROVE  Specificity(p) <= Specificity(q) <=> Len(Text(p.base)) <= Len(Text(q.base))
<1>1. r \in Seq(Segment) /\ p.base \in Seq(Segment) /\ q.base \in Seq(Segment)
  BY DEF RequestPath, Pattern, Split
<1>2. Len(r) \in Nat /\ Len(p.base) \in Nat /\ Len(q.base) \in Nat
  BY <1>1, LenProperties
<1>3. PICK at : Layout(r, Text(r), at)
  BY <1>1, TextLayout
<1>4. ASSUME NEW o \in {p, q}
      PROVE  Len(o.base) \in 0..Len(r) /\ Len(Text(o.base)) = at[Len(o.base)]
  <2>1. o \in Pattern /\ matches(o, r) /\ o.base \in Seq(Segment) /\ Len(o.base) \in Nat
    BY <1>1, <1>2
  <2>2. Len(o.base) <= Len(r) /\ \A i \in 1..Len(o.base) : r[i] = o.base[i]
    BY <2>1, MatchExtendsBase
  <2>3. PICK bt : Layout(o.base, Text(o.base), bt)
    BY <2>1, TextLayout
  <2>4. bt[Len(o.base)] = at[Len(o.base)]
    <3>1. Len(o.base) <= Len(o.base)
      BY <2>1
    <3> DEFINE base == o.base
    <3> HIDE DEF base
    <3>2. /\ base \in Seq(Segment) /\ Layout(base, Text(base), bt)
          /\ Len(base) \in Nat /\ Len(base) <= Len(base) /\ Len(base) <= Len(r)
          /\ \A i \in 1..Len(base) : r[i] = base[i]
      BY <2>1, <2>2, <2>3, <3>1 DEF base
    <3>3. bt[Len(base)] = at[Len(base)]
      BY <1>1, <1>3, <3>2, SameBeginning
    <3> QED
      BY <3>3 DEF base
  <2>5. bt[Len(o.base)] = Len(Text(o.base))
    BY <2>3 DEF Layout
  <2> QED
    BY <1>2, <2>1, <2>2, <2>4, <2>5
<1>5. /\ Len(p.base) \in 0..Len(r) /\ Len(Text(p.base)) = at[Len(p.base)]
      /\ Len(q.base) \in 0..Len(r) /\ Len(Text(q.base)) = at[Len(q.base)]
  BY <1>4
<1>6. \A k \in 0..Len(r) : at[k] \in Nat /\ \A i \in 0..k : at[i] <= at[k] /\ (i < k => at[i] < at[k])
  BY <1>1, <1>3, EndsGrow DEF Layout
<1>7. \A i, k \in 0..Len(r) : i <= k <=> at[i] <= at[k]
  <2> SUFFICES ASSUME NEW i \in 0..Len(r), NEW k \in 0..Len(r) PROVE i <= k <=> at[i] <= at[k]
    OBVIOUS
  <2>1. CASE i <= k
    <3>1. i \in 0..k
      BY <1>2, <2>1
    <3> QED
      BY <1>6, <2>1, <3>1
  <2>2. CASE k < i
    <3>1. k \in 0..i
      BY <1>2, <2>2
    <3>2. at[k] < at[i] /\ at[k] \in Nat /\ at[i] \in Nat
      BY <1>6, <2>2, <3>1
    <3>3. ~(at[i] <= at[k]) /\ ~(i <= k)
      BY <1>2, <2>2, <3>2
    <3> QED
      BY <3>3
  <2> QED
    BY <1>2, <2>1, <2>2
<1> QED
  BY <1>5, <1>7 DEF Specificity
-----------------------------------------------------------------------------
\* The bounded sets of the run hold sequences.
LEMMA BoundedSequences ==
    ASSUME NEW S, NEW n \in Nat
    PROVE  SeqOf(S, n) = {s \in Seq(S) : Len(s) <= n}
<1>1. ASSUME NEW s \in SeqOf(S, n) PROVE s \in Seq(S) /\ Len(s) <= n
  <2>1. PICK m \in 0..n : s \in [1..m -> S]
    BY DEF SeqOf
  <2> QED
    BY <2>1
<1>2. ASSUME NEW s \in Seq(S), Len(s) <= n PROVE s \in SeqOf(S, n)
  <2>1. Len(s) \in 0..n /\ s \in [1..Len(s) -> S]
    BY <1>2, LenProperties
  <2> QED
    BY <2>1 DEF SeqOf
<1> QED
  BY <1>1, <1>2

\* The patterns of the run are patterns, with a base no longer than the bound.
LEMMA PatternOfRun ==
    ASSUME NEW p \in Patterns
    PROVE  p \in Pattern /\ Len(p.base) <= MaxBase
<1>1. p.base \in SeqOf(Segment, MaxBase) /\ p \in [base : SeqOf(Segment, MaxBase), kind : Kind] /\ Valid(p)
  BY DEF Patterns
<1>2. p.base \in Seq(Segment) /\ Len(p.base) <= MaxBase
  BY <1>1, BoundedSequences, PathBoundAssumption
<1> QED
  BY <1>1, <1>2 DEF Pattern, Split

\* A request changes neither pattern.
LEMMA PatternsStay == Spec => [](a \in Patterns /\ b \in Patterns)
<1>1. Init => a \in Patterns /\ b \in Patterns
  BY DEF Init
<1>2. (a \in Patterns /\ b \in Patterns) /\ [Arrive]_vars
      => (a \in Patterns /\ b \in Patterns)'
  BY DEF Arrive, vars
<1> QED
  BY <1>1, <1>2, PTL DEF Spec

\* The code's comparison of texts and the model's of segments decide alike for every
\* request that may arrive, trailing slashes included.
THEOREM MatchAgrees == Spec => []MatchAgreesWithText
<1>1. Init => path \in Paths
  <2>1. << >> \in Seq(Segment) /\ Len(<< >>) = 0
    BY EmptySeq
  <2>2. SeqOf(Segment, MaxPath) = {s \in Seq(Segment) : Len(s) <= MaxPath} /\ 0 <= MaxPath
    BY BoundedSequences, PathBoundAssumption
  <2>3. << >> \in SeqOf(Segment, MaxPath)
    BY <2>1, <2>2
  <2> QED
    BY <2>3 DEF Init, Paths
<1>2. path \in Paths /\ [Arrive]_vars => (path \in Paths)'
  BY DEF Arrive, vars, Paths
<1>3. ASSUME a \in Patterns, path \in Paths PROVE MatchAgreesWithText
  <2>1. a \in Pattern /\ path \in Seq(Segment)
    BY <1>3, PatternOfRun, BoundedSequences, PathBoundAssumption DEF Paths
  <2> QED
    BY <2>1, MatchesText DEF MatchAgreesWithText
<1> QED
  BY <1>1, <1>2, <1>3, PatternsStay, PTL DEF Spec

\* Overlap(a, b) holds exactly when some request that may arrive is matched by
\* both patterns.
THEOREM OverlapExact == Spec => []OverlapIsExact
<1>1. ASSUME a \in Patterns, b \in Patterns PROVE OverlapIsExact
  <2>1. a \in Pattern /\ b \in Pattern /\ Len(a.base) <= MaxBase /\ Len(b.base) <= MaxBase
    BY <1>1, PatternOfRun
  <2>2. ASSUME NEW r \in Paths, Match(a, r), Match(b, r)
        PROVE  Overlap(a, b)
    <3>1. r \in Seq(Segment)
      BY BoundedSequences, PathBoundAssumption DEF Paths
    <3>2. TrimRight(r) \in RequestPath
      BY <3>1, TrimRightIsRequest
    <3> QED
      BY <2>1, <2>2, <3>2, OverlapSound DEF Match
  <2>3. ASSUME Overlap(a, b)
        PROVE  \E r \in Paths : Match(a, r) /\ Match(b, r)
    <3>1. PICK r \in RequestPath : Common(a, b, r)
      BY <2>1, <2>3, CommonRequest
    <3>2. r \in Seq(Segment) /\ Len(r) \in Nat
      BY LenProperties DEF RequestPath
    <3>3. Len(a.base) \in Nat /\ Len(b.base) \in Nat
      BY <2>1, PatternParts
    <3>4. Len(r) <= MaxPath
      BY <2>1, <3>1, <3>2, <3>3, PathBoundAssumption DEF Common
    <3>5. r \in Paths
      BY <3>2, <3>4, BoundedSequences, PathBoundAssumption DEF Paths
    <3>6. TrimRight(r) = r
      BY TrimRightOfRequest
    <3> QED
      BY <3>1, <3>5, <3>6 DEF Match, Common
  <2> QED
    BY <2>2, <2>3 DEF OverlapIsExact
<1> QED
  BY <1>1, PatternsStay, PTL
=============================================================================
