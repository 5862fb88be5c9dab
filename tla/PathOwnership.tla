--------------------------- MODULE PathOwnership ---------------------------
(***************************************************************************)
(* What the gateway's registry promises, without patterns, limits or       *)
(* owners: a tunnel is granted request paths that no other tunnel has, and *)
(* keeps exactly those until they are all taken back.                      *)
(***************************************************************************)
CONSTANTS Tunnel,  \* claim identities
          Path     \* request paths

VARIABLE serves  \* serves[t]: the request paths tunnel t has

Init == serves = [t \in Tunnel |-> {}]

\* Only t's paths change, from none to some that no other tunnel has.
Grant(t) ==
    /\ serves[t] = {}
    /\ serves' \in [Tunnel -> SUBSET Path]
    /\ \A u \in Tunnel \ {t} :
         serves'[u] = serves[u] /\ serves'[u] \cap serves'[t] = {}

Revoke(t) == serves' = [serves EXCEPT ![t] = {}]

Next == \E t \in Tunnel : Grant(t) \/ Revoke(t)

Spec == Init /\ [][Next]_serves
=============================================================================
