----------------------------- MODULE MCGateway -----------------------------
EXTENDS Gateway, TLC

MCSegment == {"", "a", "b"}
MCEmpty == ""

\* Two handshakes that conflict: they ask for the same list.
MCOneList == {<<[base |-> <<"a">>, kind |-> "recursive"]>>}
MCRequest == {<<"a", "b">>}
MCNoAllowlist == {}

\* Claims and owners are interchangeable: no operator chooses among them.
Symmetry == Permutations(ClaimID) \cup Permutations(Owner)
=============================================================================
