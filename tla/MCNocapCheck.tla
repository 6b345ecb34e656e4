---------------------------- MODULE MCNocapCheck ----------------------------
(* Small instances of NocapCheck. *)
EXTENDS NocapCheck

AllChecks == Keys
EveryRequest == SUBSET Keys \ {{}}
AskRead == {{"open", "read"}}
=============================================================================
