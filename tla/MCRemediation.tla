---------------------------- MODULE MCRemediation ----------------------------
(* Small instances of Remediation. *)
EXTENDS Remediation

CONSTANTS g, x, s

\* Garbage, a URL every version rejects, and NATO spam the later ones do.
ThreeUrls == {g, x, s}
OneGarbage == {g}
OneSpam == {s}
ThreeRules == <<{x}, {x, s}, {x, s}>>
=============================================================================
