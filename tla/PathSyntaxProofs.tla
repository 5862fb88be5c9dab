-------------------------- MODULE PathSyntaxProofs --------------------------
(***************************************************************************)
(* What the gateway accepts of what a client sends, for any spellings of   *)
(* segments, any lengths and any way to trim blanks: an accepted path is a *)
(* pattern, and one that is refused for its syntax ends in a blank.        *)
(***************************************************************************)
EXTENDS PathSyntax, SequenceTheorems, TLAPS

Proved == INSTANCE ClaimPathProofs WITH Empty <- ""

Wildcards == {<< >>, <<"*">>, <<"**">>}

\* What Normalize accepts: a base that is a request path, not the root and without
\* a "*", and a wildcard or none.
Accepts(base, wildcard) ==
    /\ base \in Seq(Segment) /\ base # << >> /\ base[Len(base)] # ""
    /\ \A i \in DOMAIN base : base[i] \notin Starred
    /\ wildcard \in Wildcards
    /\ ~(Length(base \o wildcard) > MaxPathLength)

\* The segments a segment algebra needs are there.
LEMMA SegmentsAre == "" \in Segment /\ Segment # {""}
BY SyntaxAssumption

\* Trailing slashes cut, a list ends in a segment that is not empty; if it already
\* did, nothing is cut.
LEMMA TrimSlashesEnds ==
    ASSUME NEW s \in Seq(Segment)
    PROVE  /\ TrimSlashes(s) \in Seq(Segment)
           /\ TrimSlashes(s) # << >> => TrimSlashes(s)[Len(TrimSlashes(s))] # ""
           /\ s # << >> /\ s[Len(s)] # "" => TrimSlashes(s) = s
<1>1. TrimSlashes(s) = Proved!TrimRight(s)
  BY DEF TrimSlashes, Proved!TrimRight, Max, Proved!Max
<1>2. Proved!TrimRight(s) \in Proved!RequestPath
  BY SegmentsAre, Proved!TrimRightIsRequest
<1>3. s # << >> /\ s[Len(s)] # "" => Proved!TrimRight(s) = s
  <2>1. s # << >> /\ s[Len(s)] # "" => s \in Proved!RequestPath
    BY DEF Proved!RequestPath, Proved!Trimmed
  <2> QED
    BY <2>1, SegmentsAre, Proved!TrimRightOfRequest
<1> QED
  BY <1>1, <1>2, <1>3 DEF Proved!RequestPath, Proved!Trimmed

\* A wildcard at the end of a base that has none is found.
LEMMA WildcardOf ==
    ASSUME NEW base, NEW wildcard, Accepts(base, wildcard)
    PROVE  /\ Wildcard(base \o wildcard) = wildcard
           /\ SubSeq(base \o wildcard, 1, Len(base \o wildcard) - Len(wildcard)) = base
           /\ base \o wildcard \in Seq(Segment) /\ base \o wildcard # << >>
<1>1. base \in Seq(Segment) /\ wildcard \in Seq(Segment) /\ Len(base) \in Nat \ {0}
  <2>1. base \in Seq(Segment) /\ base # << >> /\ wildcard \in Wildcards
    BY DEF Accepts
  <2>2. "*" \in Segment /\ "**" \in Segment
    BY SyntaxAssumption
  <2>3. wildcard \in Seq(Segment)
    <3>1. CASE wildcard = << >>
      BY <3>1
    <3>2. CASE wildcard = <<"*">>
      BY <2>2, <3>2
    <3>3. CASE wildcard = <<"**">>
      BY <2>2, <3>3
    <3> QED
      BY <2>1, <3>1, <3>2, <3>3 DEF Wildcards
  <2> QED
    BY <2>1, <2>3, EmptySeq
<1>2. /\ base \o wildcard \in Seq(Segment) /\ Len(base \o wildcard) = Len(base) + Len(wildcard)
      /\ \A i \in 1..Len(base) : (base \o wildcard)[i] = base[i]
      /\ \A i \in 1..Len(wildcard) : (base \o wildcard)[Len(base) + i] = wildcard[i]
  BY <1>1
<1>3. SubSeq(base \o wildcard, 1, Len(base)) = base
  BY <1>1, <1>2, SubSeqProperties, SeqEqual
<1>4. CASE wildcard = << >>
  <2>1. Len(wildcard) = 0
    BY <1>4
  <2>4. Len(base) \in DOMAIN base
    BY <1>1, LenProperties
  <2>3. base[Len(base)] \notin Starred
    BY <2>4 DEF Accepts
  <2>2. base[Len(base)] \notin {"*", "**"}
    BY <2>3, SyntaxAssumption
  <2> QED
    BY <1>1, <1>2, <1>3, <1>4, <2>1, <2>2 DEF Wildcard
<1>5. CASE wildcard \in {<<"*">>, <<"**">>}
  <2>1. Len(wildcard) = 1 /\ wildcard[1] \in {"*", "**"} /\ wildcard = <<wildcard[1]>>
    BY <1>5
  <2>2. (base \o wildcard)[Len(base \o wildcard)] = wildcard[1] /\ Len(base \o wildcard) = Len(base) + 1
    BY <1>1, <1>2, <2>1
  <2>3. Wildcard(base \o wildcard) = wildcard
    BY <1>1, <1>2, <2>1, <2>2 DEF Wildcard
  <2> QED
    BY <1>1, <1>2, <1>3, <2>1, <2>2, <2>3
<1> QED
  BY <1>4, <1>5 DEF Accepts, Wildcards

\* The text without the blanks at its ends.
LEMMA TrimSpaceOf ==
    ASSUME NEW text \in [padded : BOOLEAN, rooted : BOOLEAN, segments : Seq(Segment) \ {<< >>}]
    PROVE  LET s == TrimSpace(text).segments IN
           /\ s \in Seq(Segment) /\ s # << >> /\ Len(s) = Len(text.segments)
           /\ TrimBlanks[text.segments[Len(text.segments)]] = text.segments[Len(text.segments)]
                => s = text.segments
<1> DEFINE n == Len(text.segments)
           last == text.segments[n]
<1>1. text.segments \in Seq(Segment) /\ n \in Nat \ {0} /\ n \in 1..n
  BY EmptySeq, LenProperties
<1>2. last \in Segment /\ TrimBlanks[last] \in Segment
  <2>1. last \in Segment
    BY <1>1, ElementOfSeq
  <2> QED
    BY <2>1, SyntaxAssumption
<1>3. TrimSpace(text).segments = [text.segments EXCEPT ![n] = TrimBlanks[last]]
  BY DEF TrimSpace
<1>4. /\ [text.segments EXCEPT ![n] = TrimBlanks[last]] \in Seq(Segment)
      /\ Len([text.segments EXCEPT ![n] = TrimBlanks[last]]) = n
  BY <1>1, <1>2, ExceptSeq
<1>5. TrimBlanks[last] = last => [text.segments EXCEPT ![n] = TrimBlanks[last]] = text.segments
  BY <1>1, LenProperties
<1> QED
  BY <1>1, <1>3, <1>4, <1>5, EmptySeq

\* Normalize refuses a text or gives it the form it accepts.
LEMMA NormalForm ==
    ASSUME NEW text \in [padded : BOOLEAN, rooted : BOOLEAN, segments : Seq(Segment) \ {<< >>}],
           Normalize(text) # Refused
    PROVE  \E base, wildcard : Accepts(base, wildcard) /\ Normalize(text) = Text(base \o wildcard)
<1> DEFINE segments == TrimSpace(text).segments
           wildcard == Wildcard(segments)
           base == TrimSlashes(SubSeq(segments, 1, Len(segments) - Len(wildcard)))
<1>1. segments \in Seq(Segment) /\ segments # << >> /\ Len(segments) \in Nat \ {0}
  BY TrimSpaceOf, EmptySeq
<1>2. wildcard \in Wildcards /\ Len(wildcard) \in {0, 1}
  BY DEF Wildcard, Wildcards
<1>3. SubSeq(segments, 1, Len(segments) - Len(wildcard)) \in Seq(Segment)
  <2> HIDE DEF segments, wildcard
  <2> QED
    BY <1>1, <1>2, SubSeqProperties
<1>4. base \in Seq(Segment) /\ (base # << >> => base[Len(base)] # "")
  BY <1>3, TrimSlashesEnds
<1>5. /\ base # << >> /\ \A i \in DOMAIN base : base[i] \notin Starred
      /\ ~(Length(base \o wildcard) > MaxPathLength)
      /\ Normalize(text) = Text(base \o wildcard)
  BY DEF Normalize
<1> QED
  BY <1>2, <1>4, <1>5 DEF Accepts

\* What Normalize makes of a text it has made, unless a blank ends it: the same.
LEMMA NormalStays ==
    ASSUME NEW base, NEW wildcard, Accepts(base, wildcard),
           LET last == (base \o wildcard)[Len(base \o wildcard)] IN TrimBlanks[last] = last
    PROVE  Valid(Text(base \o wildcard))
<1> DEFINE text == Text(base \o wildcard)
<1>1. /\ Wildcard(base \o wildcard) = wildcard
      /\ SubSeq(base \o wildcard, 1, Len(base \o wildcard) - Len(wildcard)) = base
      /\ base \o wildcard \in Seq(Segment) /\ base \o wildcard # << >>
  BY WildcardOf
<1>2. /\ text \in [padded : BOOLEAN, rooted : BOOLEAN, segments : Seq(Segment) \ {<< >>}]
      /\ text.segments = base \o wildcard /\ text.rooted
  BY <1>1 DEF Text
<1>3. TrimSpace(text).segments = base \o wildcard
  BY <1>2, TrimSpaceOf
<1>4. TrimSlashes(base) = base
  BY TrimSlashesEnds DEF Accepts
<1>5. /\ base # << >> /\ ~\E i \in DOMAIN base : base[i] \in Starred
      /\ ~(Length(base \o wildcard) > MaxPathLength)
  BY DEF Accepts
<1> HIDE DEF text
<1>6. Normalize(text) = Text(base \o wildcard)
  BY <1>1, <1>2, <1>3, <1>4, <1>5 DEF Normalize
<1> QED
  BY <1>6 DEF Valid, text

\* An accepted text splits into a base and a kind of the segment algebra.
LEMMA SplitOf ==
    ASSUME NEW base, NEW wildcard, Accepts(base, wildcard)
    PROVE  /\ split(Text(base \o wildcard)).base = base
           /\ split(Text(base \o wildcard)).kind \in {"exact", "singleLevel", "recursive"}
<1> DEFINE all == base \o wildcard
           last == all[Len(all)]
<1>1. /\ Wildcard(all) = wildcard /\ SubSeq(all, 1, Len(all) - Len(wildcard)) = base
      /\ all \in Seq(Segment) /\ all # << >>
  BY WildcardOf
<1>2. CASE last \in {"*", "**"}
  <2>1. Wildcard(all) = <<last>>
    BY <1>1, <1>2 DEF Wildcard
  <2>2. Len(wildcard) = 1
    BY <1>1, <2>1
  <2>3. SubSeq(all, 1, Len(all) - 1) = base
    BY <1>1, <2>2
  <2> QED
    BY <1>2, <2>3 DEF split, Text
<1>3. CASE last \notin {"*", "**"}
  <2>1. Wildcard(all) = << >>
    BY <1>3 DEF Wildcard
  <2>3. wildcard = << >>
    BY <1>1, <2>1
  <2>4. base \in Seq(Segment)
    BY DEF Accepts
  <2>2. all = base
    BY <2>3, <2>4
  <2> QED
    BY <1>3, <2>2 DEF split, Text
<1> QED
  BY <1>2, <1>3
-----------------------------------------------------------------------------
\* The typed path is a text; the client sends nothing or what Normalize made of it,
\* and the gateway's verdict is Valid's.
IInv ==
    /\ typed \in [padded : BOOLEAN, rooted : BOOLEAN, segments : Seq(Segment) \ {<< >>}]
    /\ sent \in {Refused, Normalize(typed)}
    /\ verdict \in {"pending", "accepted", "invalid_request"}
    /\ verdict = "accepted" => sent # Refused /\ Valid(sent)
    /\ verdict = "invalid_request" => sent # Refused /\ ~Valid(sent)

\* A path is typed.
LEMMA InitIInv == Init => IInv
<1>1. ASSUME NEW n \in 1..MaxSegments, NEW s \in [1..n -> Segment]
      PROVE  s \in Seq(Segment) \ {<< >>}
  <2>3. n \in Nat \ {0}
    <3>1. MaxSegments \in Nat
      BY SyntaxAssumption
    <3> QED
      BY <3>1
  <2>1. s \in Seq(Segment)
    BY <2>3
  <2>2. Len(s) = n
    BY <2>3
  <2> QED
    BY <2>1, <2>2, EmptySeq
<1>2. Typed \subseteq [padded : BOOLEAN, rooted : BOOLEAN, segments : Seq(Segment) \ {<< >>}]
  BY <1>1 DEF Typed
<1> QED
  BY <1>2 DEF Init, IInv

\* The two steps keep it.
LEMMA NextIInv == IInv /\ [Next]_vars => IInv'
<1> SUFFICES ASSUME IInv, [Next]_vars PROVE IInv'
  OBVIOUS
<1>1. CASE Start
  BY <1>1 DEF IInv, Start
<1>2. CASE Create
  BY <1>2 DEF IInv, Create
<1>3. CASE UNCHANGED vars
  BY <1>3 DEF IInv, vars
<1> QED
  BY <1>1, <1>2, <1>3 DEF Next

\* It holds of every path on its way.
LEMMA Invariance == Spec => []IInv
BY InitIInv, NextIInv, PTL DEF Spec

\* What was sent has the form Normalize accepts.
LEMMA SentForm ==
    ASSUME IInv, sent # Refused
    PROVE  \E base, wildcard : Accepts(base, wildcard) /\ sent = Text(base \o wildcard)
BY NormalForm DEF IInv

\* "A path accepted before dialing cannot be rejected by the gateway for syntax", except
\* one: it ends in a blank, which a trailing slash hid from the client's trim.
THEOREM OnlyBlanksRefused == Spec => []RefusalNeedsTrailingBlank
<1>1. IInv => RefusalNeedsTrailingBlank
  <2> SUFFICES ASSUME IInv, verdict = "invalid_request"
               PROVE  LET last == sent.segments[Len(sent.segments)] IN TrimBlanks[last] # last
    BY DEF RefusalNeedsTrailingBlank
  <2>1. sent # Refused /\ ~Valid(sent)
    BY DEF IInv
  <2>2. PICK base, wildcard : Accepts(base, wildcard) /\ sent = Text(base \o wildcard)
    BY <2>1, SentForm
  <2>3. sent.segments = base \o wildcard
    BY <2>2 DEF Text
  <2> QED
    BY <2>1, <2>2, <2>3, NormalStays
<1> QED
  BY <1>1, Invariance, PTL

\* Every path the gateway accepts for its syntax is a pattern of the segment algebra,
\* without a stray wildcard and not too long.
THEOREM AcceptedPattern == Spec => []AcceptedIsPattern
<1>1. IInv => AcceptedIsPattern
  <2> SUFFICES ASSUME IInv, verdict = "accepted"
               PROVE  /\ Patterns!Valid(split(sent))
                      /\ \A i \in DOMAIN split(sent).base : split(sent).base[i] \notin Starred
                      /\ ~(Length(sent.segments) > MaxPathLength)
    BY DEF AcceptedIsPattern
  <2>1. sent # Refused
    BY DEF IInv
  <2>2. PICK base, wildcard : Accepts(base, wildcard) /\ sent = Text(base \o wildcard)
    BY <2>1, SentForm
  <2>3. sent.segments = base \o wildcard /\ split(sent).base = base
    BY <2>2, SplitOf DEF Text
  <2> QED
    BY <2>2, <2>3 DEF Accepts, Patterns!Valid, Patterns!Trimmed
<1> QED
  BY <1>1, Invariance, PTL
=============================================================================
