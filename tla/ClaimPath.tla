----------------------------- MODULE ClaimPath -----------------------------
(***************************************************************************)
(* The claim-path algebra of internal/claimpath: patterns, the request     *)
(* paths they match, and the overlap test that keeps two claims apart.     *)
(* A path is the sequence of segments between its slashes; the leading     *)
(* slash is implicit.  Empty is the segment between two adjacent slashes.  *)
(***************************************************************************)
EXTENDS Integers, Sequences, FiniteSetsExt

CONSTANTS Segment, \* what may stand between two slashes, Empty included
          Empty    \* the empty segment

ASSUME SegmentAssumption == Empty \in Segment /\ Segment # {Empty}

Kind == {"exact", "singleLevel", "recursive"}

\* A path that is not the root and has no trailing slash.
Trimmed(s) == s = << >> \/ s[Len(s)] # Empty

\* The pair split() computes from a pattern: "/a/b/*" is <<a, b>>, singleLevel.
Split == [base : Seq(Segment), kind : Kind]

\* Normalize(p) = p, at the level of segments; PathSyntax has the text.
Valid(p) == p.base # << >> /\ Trimmed(p.base)

Pattern == {p \in Split : Valid(p)}

\* What TrimRight(requestPath, "/") leaves to match against.
RequestPath == {r \in Seq(Segment) : Trimmed(r)}

\* Counting the wildcard as a segment.
SegmentsOfText(p) == IF p.kind = "exact" THEN Len(p.base) ELSE Len(p.base) + 1

Segments(p) == Len(p.base)
-----------------------------------------------------------------------------
\* strings.HasPrefix(path, base + "/"), of a path without a trailing slash.
Under(base, path) ==
    /\ Len(base) < Len(path)
    /\ \A i \in 1..Len(base) : path[i] = base[i]

MatchesOneChild(base, path) ==
    /\ Under(base, path)
    /\ Len(path) = Len(base) + 1
    /\ path[Len(path)] # Empty

\* A "/*" whose child may be absent, as if it were "/**" cut at one level.
MatchesLoosely(p, path) ==
    CASE p.kind = "recursive"   -> path = p.base \/ Under(p.base, path)
      [] p.kind = "singleLevel" -> path = p.base \/ MatchesOneChild(p.base, path)
      [] p.kind = "exact"       -> path = p.base

matches(p, path) ==
    CASE p.kind = "recursive"   -> path = p.base \/ Under(p.base, path)
      [] p.kind = "singleLevel" -> MatchesOneChild(p.base, path)
      [] p.kind = "exact"       -> path = p.base

TrimRight(path) ==
    SubSeq(path, 1, Max({0} \cup {i \in DOMAIN path : path[i] # Empty}))

Match(p, path) == matches(p, TrimRight(path))

\* The code counts bytes.  Two bases that match one request are prefixes of it, so
\* counting their segments orders them as counting their bytes does.
Specificity(p) == Len(p.base)
-----------------------------------------------------------------------------
\* The overlap test with one of its two directions forgotten.
OverlapOneSided(a, b) ==
    IF a.kind = "exact" THEN matches(b, a.base)
    ELSE IF b.kind = "exact" THEN matches(a, b.base)
    ELSE IF a.kind = "singleLevel" /\ b.kind = "singleLevel" THEN a.base = b.base
    ELSE matches(a, b.base)

Overlap(a, b) ==
    IF a.kind = "exact" THEN matches(b, a.base)
    ELSE IF b.kind = "exact" THEN matches(a, b.base)
    ELSE IF a.kind = "singleLevel" /\ b.kind = "singleLevel" THEN a.base = b.base
    ELSE matches(a, b.base) \/ matches(b, a.base)
=============================================================================
