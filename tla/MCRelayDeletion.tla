--------------------------- MODULE MCRelayDeletion ---------------------------
(* Small instances of RelayDeletion. *)
EXTENDS RelayDeletion

CONSTANTS r1, r2

OneRelay == {r1}
TwoRelays == {r1, r2}
NoRelay == {}

\* r2 is r1 as somebody else writes it.
OneForm == [r \in TwoRelays |-> r1]
AsIs == [r \in OneRelay |-> r]
=============================================================================
