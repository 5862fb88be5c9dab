-------------------------- MODULE ClaimPathProofs --------------------------
(***************************************************************************)
(* Overlap is exact: it holds of two patterns if and only if some request  *)
(* path is matched by both.  Proved for every set of segments, and hence   *)
(* for paths of any length.                                                *)
(***************************************************************************)
EXTENDS ClaimPath, SequenceTheorems, WellFoundedInduction, TLAPS

\* A pattern's parts, and that its base is itself a request path.
LEMMA PatternParts ==
    ASSUME NEW p \in Pattern
    PROVE  /\ p.base \in Seq(Segment)
           /\ p.base \in RequestPath
           /\ p.kind \in Kind
           /\ Len(p.base) \in Nat \ {0}
           /\ p.base[Len(p.base)] # Empty
BY LenProperties, EmptySeq DEF Pattern, Split, Valid, Trimmed, RequestPath

\* Extending a path by one nonempty segment gives a request path that both
\* wildcard kinds of the extended base match.
LEMMA ChildOfBase ==
    ASSUME NEW p \in Pattern, NEW s \in Segment, s # Empty
    PROVE  /\ Append(p.base, s) \in RequestPath
           /\ Under(p.base, Append(p.base, s))
           /\ MatchesOneChild(p.base, Append(p.base, s))
<1>1. p.base \in Seq(Segment) /\ Len(p.base) \in Nat
  BY PatternParts
<1>2. /\ Append(p.base, s) \in Seq(Segment)
      /\ Len(Append(p.base, s)) = Len(p.base) + 1
      /\ Append(p.base, s)[Len(p.base) + 1] = s
      /\ \A i \in 1..Len(p.base) : Append(p.base, s)[i] = p.base[i]
  BY <1>1
<1>3. Append(p.base, s) \in RequestPath
  BY <1>1, <1>2 DEF RequestPath, Trimmed
<1>4. Under(p.base, Append(p.base, s))
  BY <1>1, <1>2 DEF Under
<1> QED
  BY <1>1, <1>2, <1>3, <1>4 DEF MatchesOneChild

\* Two paths of one length that begin a third are equal.
LEMMA PrefixesOfOneLength ==
    ASSUME NEW s \in Seq(Segment), NEW t \in Seq(Segment), NEW r,
           Len(s) = Len(t),
           \A i \in 1..Len(s) : r[i] = s[i],
           \A i \in 1..Len(t) : r[i] = t[i]
    PROVE  s = t
BY SeqEqual

\* Everything a pattern matches has the pattern's base as a prefix; this is
\* what carries the allowlist from claimed patterns to requests.
THEOREM MatchExtendsBase ==
    ASSUME NEW p \in Pattern, NEW r \in RequestPath, matches(p, r)
    PROVE  /\ Len(p.base) <= Len(r)
           /\ \A i \in 1..Len(p.base) : r[i] = p.base[i]
<1>1. p.base \in Seq(Segment) /\ p.kind \in Kind /\ Len(p.base) \in Nat
  BY PatternParts
<1>2. Len(r) \in Nat
  BY LenProperties DEF RequestPath
<1>3. r = p.base \/ Under(p.base, r)
  BY <1>1 DEF matches, MatchesOneChild, Kind
<1> QED
  BY <1>1, <1>2, <1>3 DEF Under

\* Overlap does not depend on which claim came first: the registry compares the
\* new path with the claimed one in that order only.
THEOREM OverlapSymmetric ==
    ASSUME NEW a \in Pattern, NEW b \in Pattern
    PROVE  Overlap(a, b) <=> Overlap(b, a)
BY PatternParts DEF Overlap, matches, Kind

\* No request is missed: patterns that match one request overlap.  This is why
\* a registry that refuses overlapping claims routes without ambiguity.
THEOREM OverlapSound ==
    ASSUME NEW a \in Pattern, NEW b \in Pattern, NEW r \in RequestPath,
           matches(a, r), matches(b, r)
    PROVE  Overlap(a, b)
<1>1. /\ a.base \in Seq(Segment) /\ Len(a.base) \in Nat \ {0} /\ a.kind \in Kind
      /\ b.base \in Seq(Segment) /\ Len(b.base) \in Nat \ {0} /\ b.kind \in Kind
      /\ a.base[Len(a.base)] # Empty /\ b.base[Len(b.base)] # Empty
  BY PatternParts
<1>2. /\ Len(a.base) <= Len(r) /\ \A i \in 1..Len(a.base) : r[i] = a.base[i]
      /\ Len(b.base) <= Len(r) /\ \A i \in 1..Len(b.base) : r[i] = b.base[i]
  BY MatchExtendsBase
<1>3. ASSUME Len(a.base) = Len(b.base)
      PROVE  a.base = b.base
  BY <1>1, <1>2, <1>3, PrefixesOfOneLength
<1>4. ASSUME Len(a.base) < Len(b.base)
      PROVE  Under(a.base, b.base)
  BY <1>1, <1>2, <1>4 DEF Under
<1>5. ASSUME Len(b.base) < Len(a.base)
      PROVE  Under(b.base, a.base)
  BY <1>1, <1>2, <1>5 DEF Under
<1>0. Len(r) \in Nat
  BY LenProperties DEF RequestPath
<1>6. CASE a.kind = "exact"
  BY <1>6 DEF Overlap, matches
<1>7. CASE a.kind # "exact" /\ b.kind = "exact"
  BY <1>7 DEF Overlap, matches
<1>8. CASE a.kind = "singleLevel" /\ b.kind = "singleLevel"
  <2>1. Len(a.base) = Len(b.base)
    BY <1>8, <1>1 DEF matches, MatchesOneChild
  <2> QED
    BY <1>3, <1>8, <2>1 DEF Overlap
<1>9. CASE a.kind = "recursive" /\ b.kind \in {"recursive", "singleLevel"}
  <2>1. CASE Len(a.base) <= Len(b.base)
    <3>1. matches(a, b.base)
      BY <1>1, <1>3, <1>4, <1>5, <1>9, <2>1 DEF matches
    <3> QED
      BY <1>9, <3>1 DEF Overlap
  <2>2. CASE Len(b.base) < Len(a.base)
    <3>1. Under(b.base, a.base)
      BY <1>4, <1>5, <2>2
    <3>2. CASE b.kind = "recursive"
      BY <1>9, <3>1, <3>2 DEF Overlap, matches
    <3>3. CASE b.kind = "singleLevel"
      <4>1. Len(a.base) = Len(b.base) + 1
        BY <1>0, <1>1, <1>2, <2>2, <3>3 DEF matches, MatchesOneChild
      <4>2. matches(b, a.base)
        BY <1>1, <3>1, <3>3, <4>1 DEF matches, MatchesOneChild
      <4> QED
        BY <1>9, <3>3, <4>2 DEF Overlap
    <3> QED
      BY <1>9, <3>2, <3>3
  <2> QED
    BY <1>1, <2>1, <2>2
<1>10. CASE b.kind = "recursive" /\ a.kind \in {"recursive", "singleLevel"}
  <2>1. CASE Len(b.base) <= Len(a.base)
    <3>1. matches(b, a.base)
      BY <1>1, <1>3, <1>4, <1>5, <1>10, <2>1 DEF matches
    <3> QED
      BY <1>10, <3>1 DEF Overlap
  <2>2. CASE Len(a.base) < Len(b.base)
    <3>1. Under(a.base, b.base)
      BY <1>4, <1>5, <2>2
    <3>2. CASE a.kind = "recursive"
      BY <1>10, <3>1, <3>2 DEF Overlap, matches
    <3>3. CASE a.kind = "singleLevel"
      <4>1. Len(b.base) = Len(a.base) + 1
        BY <1>0, <1>1, <1>2, <2>2, <3>3 DEF matches, MatchesOneChild
      <4>2. matches(a, b.base)
        BY <1>1, <3>1, <3>3, <4>1 DEF matches, MatchesOneChild
      <4> QED
        BY <1>10, <3>3, <4>2 DEF Overlap
    <3> QED
      BY <1>10, <3>2, <3>3
  <2> QED
    BY <1>1, <2>1, <2>2
<1> QED
  BY <1>1, <1>6, <1>7, <1>8, <1>9, <1>10 DEF Kind

\* A request both patterns match, at most one segment longer than a base.
Common(a, b, r) ==
    /\ matches(a, r) /\ matches(b, r)
    /\ Len(r) <= Len(a.base) + 1 \/ Len(r) <= Len(b.base) + 1

\* The witness for two wildcard patterns, one of them recursive, whose overlap
\* was found by matching the second one's base.
LEMMA CommonBelowBase ==
    ASSUME NEW a \in Pattern, NEW b \in Pattern, NEW s \in Segment, s # Empty,
           a.kind # "exact", b.kind # "exact",
           a.kind = "recursive" \/ b.kind = "recursive",
           matches(a, b.base)
    PROVE  \E r \in RequestPath : Common(a, b, r)
<1>1. /\ a.base \in Seq(Segment) /\ Len(a.base) \in Nat /\ a.kind \in Kind
      /\ b.base \in RequestPath /\ b.base \in Seq(Segment) /\ Len(b.base) \in Nat
      /\ b.kind \in Kind
  BY PatternParts
<1>2. CASE b.kind = "recursive"
  <2>1. matches(b, b.base)
    BY <1>2 DEF matches
  <2>2. Common(a, b, b.base)
    BY <1>1, <2>1 DEF Common
  <2> QED
    BY <1>1, <2>2
<1>3. CASE a.kind = "recursive" /\ b.kind = "singleLevel"
  <2> DEFINE r == Append(b.base, s)
  <2>1. r \in RequestPath /\ Under(b.base, r) /\ MatchesOneChild(b.base, r)
    BY ChildOfBase
  <2>2. matches(b, r)
    BY <1>3, <2>1 DEF matches
  <2>3. a.base = b.base \/ Under(a.base, b.base)
    BY <1>3 DEF matches
  <2>4. Len(r) \in Nat
    BY <2>1, LenProperties DEF RequestPath
  <2>5. Under(a.base, r)
    BY <1>1, <2>1, <2>3, <2>4 DEF Under
  <2>6. matches(a, r)
    BY <1>3, <2>5 DEF matches
  <2>7. Len(r) = Len(b.base) + 1
    BY <1>1
  <2> HIDE DEF r
  <2> QED
    BY <1>1, <2>1, <2>2, <2>4, <2>6, <2>7 DEF Common
<1> QED
  BY <1>1, <1>2, <1>3 DEF Kind

\* Overlapping patterns have a request in common that is short: it suffices to
\* look one segment below the longer base.
LEMMA CommonRequest ==
    ASSUME NEW a \in Pattern, NEW b \in Pattern, Overlap(a, b)
    PROVE  \E r \in RequestPath : Common(a, b, r)
<1>1. PICK s \in Segment : s # Empty
  BY SegmentAssumption
<1>2. /\ a.base \in RequestPath /\ a.kind \in Kind /\ Len(a.base) \in Nat
      /\ b.base \in RequestPath /\ b.kind \in Kind /\ Len(b.base) \in Nat
  BY PatternParts
<1>3. CASE a.kind = "exact"
  <2>1. matches(a, a.base) /\ matches(b, a.base)
    BY <1>3 DEF Overlap, matches
  <2> QED
    BY <1>2, <2>1 DEF Common
<1>4. CASE a.kind # "exact" /\ b.kind = "exact"
  <2>1. matches(a, b.base) /\ matches(b, b.base)
    BY <1>4 DEF Overlap, matches
  <2> QED
    BY <1>2, <2>1 DEF Common
<1>5. CASE a.kind = "singleLevel" /\ b.kind = "singleLevel"
  <2> DEFINE r == Append(a.base, s)
  <2>1. a.base = b.base
    BY <1>5 DEF Overlap
  <2>2. r \in RequestPath /\ MatchesOneChild(a.base, r)
    BY <1>1, ChildOfBase
  <2>3. matches(a, r) /\ matches(b, r)
    BY <1>5, <2>1, <2>2 DEF matches
  <2>4. Len(r) = Len(a.base) + 1
    BY <2>2 DEF MatchesOneChild
  <2> HIDE DEF r
  <2> QED
    BY <1>2, <2>2, <2>3, <2>4 DEF Common
<1>6. CASE /\ a.kind # "exact" /\ b.kind # "exact"
           /\ ~(a.kind = "singleLevel" /\ b.kind = "singleLevel")
  <2>1. a.kind = "recursive" \/ b.kind = "recursive"
    BY <1>2, <1>6 DEF Kind
  <2>2. matches(a, b.base) \/ matches(b, a.base)
    BY <1>6 DEF Overlap
  <2>3. ASSUME matches(a, b.base)
        PROVE  \E r \in RequestPath : Common(a, b, r)
    BY <1>1, <1>6, <2>1, <2>3, CommonBelowBase
  <2>4. ASSUME matches(b, a.base)
        PROVE  \E r \in RequestPath : Common(a, b, r)
    BY <1>1, <1>6, <2>1, <2>4, CommonBelowBase DEF Common
  <2> QED
    BY <2>2, <2>3, <2>4
<1> QED
  BY <1>3, <1>4, <1>5, <1>6

\* No claim is refused for nothing: overlapping patterns have a request path
\* in common, so "path overlaps an active tunnel" is always true.
THEOREM OverlapComplete ==
    ASSUME NEW a \in Pattern, NEW b \in Pattern, Overlap(a, b)
    PROVE  \E r \in RequestPath : matches(a, r) /\ matches(b, r)
BY CommonRequest DEF Common
-----------------------------------------------------------------------------
\* A nonempty set of naturals that is bounded has a greatest element.
LEMMA BoundedSetHasMax ==
    ASSUME NEW S \in SUBSET Nat, S # {}, NEW n \in Nat, \A k \in S : k <= n
    PROVE  \E m \in S : \A k \in S : k <= m
<1> DEFINE T == {n - k : k \in S}
<1>1. T \subseteq Nat /\ T # {}
  <2>1. ASSUME NEW k \in S PROVE n - k \in Nat
    OBVIOUS
  <2> QED
    BY <2>1
<1>2. PICK x \in T : \A y \in T : ~(<<y, x>> \in OpToRel(<, Nat))
  <2> HIDE DEF T
  <2> QED
    BY <1>1, NatLessThanWellFounded, WFMin
<1>3. \A y \in T : ~(y < x)
  BY <1>1, <1>2 DEF OpToRel
<1>4. PICK m \in S : x = n - m
  OBVIOUS
<1>5. ASSUME NEW k \in S PROVE k <= m
  <2>1. ~(n - k < n - m)
    BY <1>3, <1>4
  <2> QED
    BY <2>1
<1> QED
  BY <1>5

\* A request path is what TrimRight makes of itself.
LEMMA TrimRightOfRequest ==
    ASSUME NEW r \in RequestPath
    PROVE  TrimRight(r) = r
<1> DEFINE S == {0} \cup {i \in DOMAIN r : r[i] # Empty}
<1>1. r \in Seq(Segment) /\ Len(r) \in Nat /\ DOMAIN r = 1..Len(r)
  BY LenProperties DEF RequestPath
<1>2. Len(r) \in S
  BY <1>1, EmptySeq DEF RequestPath, Trimmed
<1>3. \A i \in S : i \in Int /\ Len(r) >= i
  BY <1>1
<1>4. Max(S) = Len(r)
  <2>1. Max(S) \in S /\ \A i \in S : Max(S) >= i
    BY <1>2, <1>3 DEF Max
  <2> QED
    BY <1>1, <1>2, <1>3, <2>1
<1>5. SubSeq(r, 1, Len(r)) = r
  BY <1>1, SubSeqProperties, SeqEqual
<1> QED
  BY <1>4, <1>5 DEF TrimRight

\* Cutting the trailing slashes off any path leaves a request path.
LEMMA TrimRightIsRequest ==
    ASSUME NEW r \in Seq(Segment)
    PROVE  TrimRight(r) \in RequestPath
<1> DEFINE S == {0} \cup {i \in DOMAIN r : r[i] # Empty}
<1>1. Len(r) \in Nat /\ DOMAIN r = 1..Len(r)
  BY LenProperties
<1>2. S \in SUBSET Nat /\ S # {} /\ \A i \in S : i <= Len(r)
  BY <1>1
<1>3. \E m \in S : \A i \in S : i <= m
  <2> HIDE DEF S
  <2> QED
    BY <1>1, <1>2, BoundedSetHasMax
<1>4. Max(S) \in S /\ \A i \in S : i <= Max(S)
  <2>1. \E m \in S : \A i \in S : m >= i
    BY <1>2, <1>3
  <2>2. Max(S) \in S /\ \A i \in S : Max(S) >= i
    BY <2>1 DEF Max
  <2> QED
    BY <1>2, <2>2
<1>5. TrimRight(r) = SubSeq(r, 1, Max(S))
  BY DEF TrimRight
<1>6. Max(S) \in 0..Len(r)
  BY <1>1, <1>4
<1>7. CASE Max(S) = 0
  <2>1. SubSeq(r, 1, 0) = << >>
    BY EmptySeq, SubSeqProperties
  <2>2. << >> \in RequestPath
    BY DEF RequestPath, Trimmed
  <2> QED
    BY <1>5, <1>7, <2>1, <2>2
<1>8. CASE Max(S) # 0
  <2>1. /\ Max(S) \in 1..Len(r)
        /\ r[Max(S)] # Empty
    BY <1>4, <1>6, <1>8
  <2>2. /\ SubSeq(r, 1, Max(S)) \in Seq(Segment)
        /\ Len(SubSeq(r, 1, Max(S))) = Max(S)
        /\ SubSeq(r, 1, Max(S))[Max(S)] = r[Max(S)]
    <3> HIDE DEF S
    <3> QED
      BY <1>1, <2>1, SubSeqProperties
  <2> QED
    BY <1>5, <2>1, <2>2 DEF RequestPath, Trimmed
<1> QED
  BY <1>7, <1>8


\* The search for the narrowest match always finds one when anything matches.
THEOREM NarrowestMatch ==
    ASSUME NEW S \in SUBSET Pattern, NEW r \in RequestPath,
           \E p \in S : matches(p, r)
    PROVE  \E p \in S : /\ Match(p, r)
                        /\ \A o \in S : Match(o, r) => Specificity(o) <= Specificity(p)
<1> DEFINE Lengths == {Len(p.base) : p \in {p \in S : matches(p, r)}}
<1>1. Len(r) \in Nat
  BY LenProperties DEF RequestPath
<1>2. \A p \in S : matches(p, r) => Len(p.base) \in Nat /\ Len(p.base) <= Len(r)
  BY MatchExtendsBase, PatternParts
<1>3. Lengths \in SUBSET Nat /\ Lengths # {} /\ \A k \in Lengths : k <= Len(r)
  BY <1>2
<1>4. PICK m \in Lengths : \A k \in Lengths : k <= m
  <2> HIDE DEF Lengths
  <2> QED
    BY <1>1, <1>3, BoundedSetHasMax
<1>5. PICK p \in S : matches(p, r) /\ m = Len(p.base)
  OBVIOUS
<1>6. \A o \in S : Match(o, r) <=> matches(o, r)
  BY TrimRightOfRequest DEF Match
<1> QED
  BY <1>4, <1>5, <1>6 DEF Specificity
=============================================================================
