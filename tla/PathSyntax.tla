----------------------------- MODULE PathSyntax -----------------------------
(***************************************************************************)
(* How a path typed by a user becomes the path a gateway accepts: the      *)
(* client normalizes it and sends the result, the gateway accepts a path   *)
(* only if normalizing it changes nothing.  Both run claimpath.Normalize.  *)
(* A text is its segments between slashes; blanks matter at its two ends.  *)
(***************************************************************************)
EXTENDS Integers, Sequences, FiniteSetsExt

CONSTANTS
    Segment,      \* the spellings of a segment
    Starred,      \* those that contain a "*"
    TrimBlanks,   \* TrimBlanks[s]: s without the blanks at its end
    Bytes,        \* Bytes[s]: the length of s
    MaxPathLength,
    MaxSegments   \* bound: segments in a typed path

ASSUME SyntaxAssumption ==
    /\ {"", "*", "**"} \subseteq Segment
    /\ {"*", "**"} \subseteq Starred /\ Starred \subseteq Segment
    /\ TrimBlanks \in [Segment -> Segment]
    /\ Bytes \in [Segment -> Nat]
    /\ MaxSegments \in Nat /\ MaxPathLength \in Nat

VARIABLES
    typed,   \* what the user asked for
    sent,    \* what the client sends, or Refused
    verdict  \* the gateway's answer: "pending", "accepted", "invalid_request"

vars == <<typed, sent, verdict>>

\* padded: blanks come first.  rooted: the first other character is a slash.
Typed == [padded : BOOLEAN, rooted : BOOLEAN,
          segments : UNION {[1..n -> Segment] : n \in 1..MaxSegments}]

Refused == [error |-> TRUE]
Text(segments) == [padded |-> FALSE, rooted |-> TRUE, segments |-> segments]
-----------------------------------------------------------------------------
TrimSpace(text) ==
    [text EXCEPT !.padded = FALSE,
                 !.segments[Len(text.segments)] = TrimBlanks[@]]

\* strings.TrimSuffix(base, "/"): only one trailing slash goes.
TrimOneSlash(segments) ==
    IF segments # << >> /\ segments[Len(segments)] = ""
    THEN SubSeq(segments, 1, Len(segments) - 1) ELSE segments

\* strings.TrimRight(base, "/"); none is left of the root path.
TrimSlashes(segments) ==
    SubSeq(segments, 1, Max({0} \cup {i \in DOMAIN segments : segments[i] # ""}))

\* The "/*" or "/**" at the end of a path, as a list of one segment or none.
Wildcard(segments) ==
    IF segments # << >> /\ segments[Len(segments)] \in {"*", "**"}
    THEN <<segments[Len(segments)]>> ELSE << >>

Length(segments) ==
    MapThenSumSet(LAMBDA i : 1 + Bytes[segments[i]], DOMAIN segments)

\* Normalize without its check for stray wildcards.
NormalizeUnstarred(text) ==
    LET segments == TrimSpace(text).segments
        wildcard == Wildcard(segments)
        base == TrimSlashes(SubSeq(segments, 1, Len(segments) - Len(wildcard)))
    IN  IF ~text.rooted \/ base = << >> THEN Refused ELSE Text(base \o wildcard)

Normalize(text) ==
    LET segments == TrimSpace(text).segments
        wildcard == Wildcard(segments)
        base == TrimSlashes(SubSeq(segments, 1, Len(segments) - Len(wildcard)))
    IN  IF \/ ~text.rooted
           \/ base = << >>
           \/ \E i \in DOMAIN base : base[i] \in Starred
           \/ Length(base \o wildcard) > MaxPathLength
        THEN Refused
        ELSE Text(base \o wildcard)

Valid(text) == Normalize(text) = text

\* What split() makes of an accepted text.
split(text) ==
    LET n == Len(text.segments)
        last == text.segments[n]
    IN  CASE last = "**" -> [base |-> SubSeq(text.segments, 1, n - 1), kind |-> "recursive"]
          [] last = "*"  -> [base |-> SubSeq(text.segments, 1, n - 1), kind |-> "singleLevel"]
          [] OTHER       -> [base |-> text.segments, kind |-> "exact"]
-----------------------------------------------------------------------------
Init == typed \in Typed /\ sent = Refused /\ verdict = "pending"

\* Client.Start: every path is normalized before anything is dialed.
Start ==
    /\ verdict = "pending" /\ sent = Refused
    /\ sent' = Normalize(typed)
    /\ sent' # Refused
    /\ UNCHANGED <<typed, verdict>>

\* Memory.Create: ValidPath decides on the syntax of what was sent.
Create ==
    /\ verdict = "pending" /\ sent # Refused
    /\ verdict' = IF Valid(sent) THEN "accepted" ELSE "invalid_request"
    /\ UNCHANGED <<typed, sent>>

Next == Start \/ Create

Spec == Init /\ [][Next]_vars
-----------------------------------------------------------------------------
\* A path the client accepts before dialing should not be rejected by the gateway for
\* its syntax; how far that holds: the gateway rejects only an exact path whose last
\* segment ends in a blank, which a trailing slash hid from the client's trim.
RefusalNeedsTrailingBlank ==
    verdict = "invalid_request" =>
        LET last == sent.segments[Len(sent.segments)] IN TrimBlanks[last] # last

\* The segment algebra the accepted texts feed.
Patterns == INSTANCE ClaimPath WITH Empty <- ""

\* What the registry and the router rely on: an accepted path splits into a base
\* that is not the root, ends in no slash and holds no wildcard, and a kind.
AcceptedIsPattern ==
    verdict = "accepted" =>
        LET p == split(sent) IN
        /\ Patterns!Valid(p)
        /\ \A i \in DOMAIN p.base : p.base[i] \notin Starred
        /\ ~(Length(sent.segments) > MaxPathLength)
=============================================================================
