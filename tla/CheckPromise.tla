---------------------------- MODULE CheckPromise ----------------------------
(***************************************************************************)
(* What a call of nocap's check() is to its caller, who knows of no        *)
(* promises, timers, adapters or sockets: the checks it wanted come out    *)
(* one after the other, or all of them fail, and then it is told.          *)
(***************************************************************************)
EXTENDS Naturals

CONSTANTS
  Keys,     \* the checks there are
  Rank,     \* their order
  None      \* nothing was returned

Failures == {"down", "garbage"}
Undecided == "none"

VARIABLES
  wanted,   \* the checks of the call
  options,  \* failAll and rejectFail, and whether the url holds an address
  verdict,  \* what has come out of each check
  ended,    \* how the call ended: no, returned or rejected
  answer    \* what it returned

vars == <<wanted, options, verdict, ended, answer>>

Init ==
  /\ wanted \in SUBSET Keys
  /\ options \in [failAll : BOOLEAN, rejectFail : BOOLEAN, numeric : BOOLEAN]
  /\ verdict = [k \in Keys |-> Undecided]
  /\ ended = "no" /\ answer = None

Decided(k) == verdict[k] # Undecided
HasFailed == \E k \in wanted : verdict[k] \in Failures

\* An open that failed, where that is to fail all.
Doomed == options.failAll /\ verdict["open"] = "error"

\* The checks come out in their order, each once.
Turn(k) ==
  /\ ended = "no" /\ ~Doomed
  /\ k \in wanted /\ ~Decided(k)
  /\ \A j \in wanted : Rank[j] < Rank[k] => Decided(j)

Decide(k, v) ==
  /\ Turn(k)
  /\ verdict' = [verdict EXCEPT ![k] = v]
  /\ UNCHANGED <<wanted, options, ended, answer>>

\* There is no location without an address, from the url or from dns.
Answer(k, v) ==
  /\ k = "geo" /\ v = "ok" => options.numeric \/ verdict["dns"] = "ok"
  /\ Decide(k, v)

\* Without a connection there is nothing to read from or write to.
Skip(k) == k \in {"read", "write"} /\ Decide(k, "skipped")

\* The connection fails, and every check with it, once.
Fail(f) ==
  /\ ended = "no" /\ ~HasFailed
  /\ verdict' = [k \in Keys |-> IF k \in wanted THEN f ELSE Undecided]
  /\ UNCHANGED <<wanted, options, ended, answer>>

\* The caller is told what came out of each check, and nothing of one skipped.
Return ==
  /\ ended = "no" /\ ~Doomed /\ \A k \in wanted : Decided(k)
  /\ ended' = "returned"
  /\ answer' = [k \in Keys |-> IF verdict[k] = "skipped" THEN "none" ELSE verdict[k]]
  /\ UNCHANGED <<wanted, options, verdict>>

\* The caller asked to be told with an exception when the open check hangs.
Reject ==
  /\ Turn("open") /\ options.rejectFail
  /\ ended' = "rejected"
  /\ UNCHANGED <<wanted, options, verdict, answer>>

Next ==
  \/ \E k \in Keys : Skip(k) \/ \E v \in {"ok", "error"} : Answer(k, v)
  \/ \E f \in Failures : Fail(f)
  \/ Return \/ Reject

Spec == Init /\ [][Next]_vars
=============================================================================
