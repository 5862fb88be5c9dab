----------------------------- MODULE MCRegistry -----------------------------
EXTENDS Registry

Exact(base) == [base |-> base, kind |-> "exact"]
OneLevel(base) == [base |-> base, kind |-> "singleLevel"]
Tree(base) == [base |-> base, kind |-> "recursive"]

MCSegment == {"", "a", "b"}
MCEmpty == ""

\* Lists that overlap in each way Overlap tells apart, then lists above and
\* beside the allowed prefixes, and refused for depth, syntax and length.
MCRequested == {
    <<Tree(<<"a", "a">>)>>, <<OneLevel(<<"a", "a">>)>>, <<Exact(<<"a", "a", "b">>)>>,
    <<OneLevel(<<"a", "a", "b">>)>>, <<Tree(<<"a", "a", "a">>), Exact(<<"a", "a">>)>>,
    <<Tree(<<"a", "b">>)>>, <<Exact(<<"a", "b", "b">>), OneLevel(<<"a", "a", "a">>)>>,
    <<Tree(<< >>)>>, <<Tree(<<"b", "a">>)>>, <<Tree(<<"a">>)>>, <<OneLevel(<<"a">>)>>,
    <<Exact(<<"a", "">>)>>, << >>,
    <<Exact(<<"a", "a">>), Exact(<<"a", "b">>), Exact(<<"a", "a", "b">>)>>}

MCRequest == {<< >>, <<"a">>, <<"b", "a">>, <<"a", "a">>, <<"a", "b">>,
              <<"a", "a", "a">>, <<"a", "a", "b">>, <<"a", "b", "b">>,
              <<"a", "a", "", "b">>, <<"a", "a", "a", "b">>, <<"a", "a", "b", "a">>}
MCAllowed == {<<"a">>, <<"b", "a", "b">>}
=============================================================================
