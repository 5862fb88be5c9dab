---------------------------- MODULE MCClaimPath ----------------------------
(***************************************************************************)
(* Checks the segment algebra of ClaimPath against the text it stands for. *)
(* A segment is spelled out here as a sequence of characters, so that one  *)
(* segment can be a prefix of another ("a" and "ab") as in real paths.     *)
(***************************************************************************)
EXTENDS ClaimPath, SequencesExt

CONSTANTS Character, \* what segments are written with
          MaxBase, \* the longest pattern base, in segments
          MaxPath  \* the longest request path, in segments

\* A request one segment below the longest base is among the paths.
ASSUME PathBoundAssumption ==
    MaxBase \in Nat /\ MaxPath \in Nat /\ MaxPath > MaxBase

ASSUME TextAssumption ==
    "/" \notin Character /\ Empty = << >> /\ Segment \subseteq Seq(Character)

MCSegment == {<< >>, <<"a">>, <<"a", "b">>}
MCEmpty == << >>

Patterns == {p \in [base : SeqOf(Segment, MaxBase), kind : Kind] : Valid(p)}
Paths == SeqOf(Segment, MaxPath)

VARIABLES a, b,  \* a new and a claimed pattern
          path   \* a request path as it arrives, trailing slashes included

vars == <<a, b, path>>

Init == a \in Patterns /\ b \in Patterns /\ path = << >>

Arrive == path' \in Paths /\ UNCHANGED <<a, b>>

Spec == Init /\ [][Arrive]_vars
-----------------------------------------------------------------------------
Text(segments) ==
    FoldLeft(LAMBDA text, s : text \o <<"/">> \o s, << >>, segments)

\* The text of a whole request path: the root is a lone slash.
PathText(segments) == IF segments = << >> THEN <<"/">> ELSE Text(segments)

\* matches() and Match() as the source spells them, on text.
TextTrimRight(text) ==
    LET kept == {i \in DOMAIN text : text[i] # "/"}
        trimmed == SubSeq(text, 1, Max({0} \cup kept))
    IN  IF trimmed = << >> THEN <<"/">> ELSE trimmed

TextMatch(p, text) ==
    LET base == Text(p.base)
        r == TextTrimRight(text)
        below == IsPrefix(base \o <<"/">>, r)
        child == SubSeq(r, Len(base) + 2, Len(r))
    IN  CASE p.kind = "recursive"   -> r = base \/ below
          [] p.kind = "singleLevel" -> below /\ child # << >> /\ ~Contains(child, "/")
          [] p.kind = "exact"       -> r = base
-----------------------------------------------------------------------------
\* Comparing segments decides exactly the requests that comparing text does: a
\* pattern never leaks to a sibling whose name it begins, trailing slashes on
\* the request do not matter, and "/x/*" takes one nonempty child.
MatchAgreesWithText == Match(a, path) <=> TextMatch(a, PathText(path))

\* Overlap(a, b) holds exactly when some request is matched by both patterns, so
\* a refusal is never spurious and two accepted claims never compete.
OverlapIsExact ==
    Overlap(a, b) <=> \E r \in Paths : Match(a, r) /\ Match(b, r)
=============================================================================
