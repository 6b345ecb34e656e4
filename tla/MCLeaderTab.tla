---------------------------- MODULE MCLeaderTab ----------------------------
(* Small instances of LeaderTab. *)
EXTENDS LeaderTab

CONSTANTS h1, h2, p1

OneHash == {h1}
TwoHashes == {h1, h2}
OnePage == {p1}
\* No accepted fault so far, and at most three messages under way.
Clean == tab.faults = {} /\ Len(wire) + Len(inbox) <= 3
=============================================================================
