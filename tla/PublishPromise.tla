--------------------------- MODULE PublishPromise ---------------------------
(***************************************************************************)
(* What relaymon promises of an event handed to QueueManager.addPublishJob: *)
(* it is tried until an attempt succeeds or its attempts are used up, and   *)
(* one of the two happens.                                                  *)
(***************************************************************************)
EXTENDS Naturals

CONSTANTS
  Jobs,    \* the events handed over
  Limit    \* attempts each of them gets

VARIABLES
  fate,    \* what has become of each job
  tries    \* attempts made for it

vars == <<fate, tries>>

Init == fate = [j \in Jobs |-> "new"] /\ tries = [j \in Jobs |-> 0]

Submit(j) ==
  /\ fate[j] = "new"
  /\ fate' = [fate EXCEPT ![j] = "open"]
  /\ UNCHANGED tries

Attempt(j, ok) ==
  /\ fate[j] = "open" /\ tries[j] < Limit[j]
  /\ tries' = [tries EXCEPT ![j] = @ + 1]
  /\ fate' = [fate EXCEPT ![j] = IF ok THEN "published"
                                 ELSE IF tries[j] + 1 = Limit[j] THEN "given_up"
                                 ELSE "open"]

Next == \E j \in Jobs : Submit(j) \/ \E ok \in BOOLEAN : Attempt(j, ok)

Spec == Init /\ [][Next]_vars
             /\ \A j \in Jobs : WF_vars(\E ok \in BOOLEAN : Attempt(j, ok))
=============================================================================
