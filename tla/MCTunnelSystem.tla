--------------------------- MODULE MCTunnelSystem ---------------------------
EXTENDS TunnelSystem

MCSegment == {"", "a"}
MCEmpty == ""
MCOneList == {<<[base |-> <<"a">>, kind |-> "recursive"]>>}
MCNoAllowlist == {}
=============================================================================
