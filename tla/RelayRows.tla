------------------------------ MODULE RelayRows ------------------------------
(***************************************************************************)
(* What becomes of a relay in relay_status, for a reader who looks at the  *)
(* verdict alone and thinks of a check as instantaneous: it reads the      *)
(* ignore gate and writes its result in one step.  The daemon's modules    *)
(* each look at this table from one side and implement this specification: *)
(* CheckCycle, in which a check lasts and others go on beside it,          *)
(* RelayDeletion, in which one waits for a publish, and Remediation, whose *)
(* migrations write the same rows.                                         *)
(***************************************************************************)
CONSTANTS
  Relays,     \* relay URLs
  Malformed,  \* those whose rows are deleted as malformed
  Blockable   \* those a blocklist edited between two runs may hold

VARIABLES
  status,   \* no row, never checked, fine, or ignored for one of two reasons
  phase,    \* "boot" up to the end of warmup
  blocked   \* hostname blocklist, read once per run

vars == <<status, phase, blocked>>

Statuses == {"gone", "new", "ok", "fake", "other"}
Fresh == {r \in Relays : status[r] = "new"}

\* The database is what earlier runs, or earlier versions, left in it.
Init ==
  /\ status \in [Relays -> Statuses]
  /\ phase = "boot" /\ blocked = {}

Restart ==
  /\ phase' = "boot" /\ blocked' \in SUBSET Blockable
  /\ UNCHANGED status

\* The seeder makes a row of what it finds, but for blocked and malformed URLs.
Seed(r) ==
  /\ status[r] = "gone" /\ r \notin blocked \cup Malformed
  /\ status' = [status EXCEPT ![r] = "new"]
  /\ UNCHANGED <<phase, blocked>>

\* The migrations of initializeDB ignore a row or delete it; one that was
\* never checked keeps its first check either way.
Sweep(r) ==
  /\ phase = "boot" /\ status[r] # "gone"
  /\ \/ status' = [status EXCEPT ![r] = "gone"]
     \/ r \notin Fresh /\ status' = [status EXCEPT ![r] = "other"]
  /\ UNCHANGED <<phase, blocked>>

\* Warmup ends when every row has been checked.
EnterNormal ==
  /\ phase = "boot" /\ Fresh = {}
  /\ phase' = "normal"
  /\ UNCHANGED <<status, blocked>>

\* In warmup only the first check of a row, later any but an ignored one's.
Checkable == IF phase = "boot" THEN Fresh
             ELSE {r \in Relays : status[r] \in {"new", "ok"}}

Check(r, verdict) ==
  /\ r \in Checkable \ blocked
  /\ status' = [status EXCEPT ![r] = verdict]
  /\ UNCHANGED <<phase, blocked>>

\* Only a relay ignored as fake is looked at again.
Recheck(r) ==
  /\ phase = "normal" /\ status[r] = "fake"
  /\ status' = [status EXCEPT ![r] = "ok"]
  /\ UNCHANGED <<phase, blocked>>

\* The gate deletes a blocklisted row, a pass of the expiry loop malformed ones.
Drop(S) ==
  /\ status' = [r \in Relays |-> IF r \in S THEN "gone" ELSE status[r]]
  /\ UNCHANGED <<phase, blocked>>

Next ==
  \/ Restart \/ EnterNormal
  \/ \E r \in Relays :
       \/ Seed(r) \/ Sweep(r) \/ Recheck(r)
       \/ \E verdict \in {"ok", "fake", "other"} : Check(r, verdict)
  \/ \E S \in SUBSET (blocked \cup Malformed) : Drop(S)

Spec == Init /\ [][Next]_vars
=============================================================================
