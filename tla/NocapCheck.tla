----------------------------- MODULE NocapCheck -----------------------------
(***************************************************************************)
(* One call of nocap's check() on an instance made for it.  The checks run *)
(* one after the other; each has a deferred promise and a timer, and what  *)
(* settles it may be its adapter, a message of the relay, an error of the  *)
(* socket or the timer, whichever comes first.  What comes later still     *)
(* arrives: after the next check has begun, or after the call has ended.   *)
(***************************************************************************)
EXTENDS Naturals

CONSTANTS
  Requests,    \* the sets of checks that are asked for
  Installed,   \* the checks for which an adapter is in use
  None         \* no check, no answer

Keys == {"open", "read", "write", "ssl", "dns", "geo", "info"}
WebsocketKeys == {"open", "read", "write"}

\* The order of checksSupported().
Rank == [open |-> 1, read |-> 2, write |-> 3, ssl |-> 4, dns |-> 5, geo |-> 6, info |-> 7]

ASSUME NocapCheckAssumption ==
  /\ Requests \subseteq SUBSET Keys /\ Installed \subseteq Keys
  /\ None \notin Keys

VARIABLES
  requested, \* the checks asked for
  options,   \* failAllChecksOnConnectFailure and rejectOnConnectFailure, and
             \* whether the url of the call holds an IPv4 address (numeric)
  todo,      \* the checks the loop has not come to yet
  awaited,   \* the check whose promise the loop awaits
  current,   \* current
  hard,      \* hard_fail
  deferred,  \* the promise of each check and what settled it
  timer,     \* the timer of each check
  results,   \* the results by check
  running,   \* adapters under way: ssl, dns, geo, info
  asked,     \* messages sent to the relay and not answered: read, write
  ws,        \* the state of the socket
  ended,     \* how the call ended: no, returned or rejected
  answer     \* what it returned

loop == <<todo, awaited, ended, answer>>
outcome == <<hard, deferred, timer, results, current>>
input == <<requested, options>>
vars == <<input, loop, outcome, running, asked, ws>>

\* checksRequested once its dependencies are in.
Checks == requested \cup {"open"} \cup (IF "geo" \in requested THEN {"dns"} ELSE {})

Failures == {"down", "garbage"}     \* what a hard failure makes of a result
Outcomes == {"ok", "error"}         \* what an adapter or a timer makes of it

Options == [failAll : BOOLEAN, rejectFail : BOOLEAN, numeric : BOOLEAN]

Init ==
  /\ requested \in Requests
  /\ options \in Options
  /\ todo = Checks /\ awaited = None /\ current = None /\ hard = FALSE
  /\ deferred = [k \in Keys |-> "none"] /\ timer = [k \in Keys |-> "none"]
  /\ results = [k \in Keys |-> "none"]
  /\ running = {} /\ asked = {} /\ ws = "none" /\ ended = "no" /\ answer = None

\* Timers and the socket find the loop at rest: waiting for a promise that
\* is not settled, or over.
Quiet == ended # "no" \/ (awaited # None /\ deferred[awaited] = "pending")

-----------------------------------------------------------------------------
(* Results.                                                                 *)

\* Mutant: an answer counts whatever became of the promise.
IgnoreResultMutant(k) == FALSE

\* ignore_result: the promise was settled before.
IgnoreResult(k) == deferred[k] # "pending"

\* finish: without an adapter produce_result throws, and nothing follows.
Counts(k) == k \in Installed /\ ~IgnoreResult(k)
Finish(k, outcome_) ==
  /\ results' = IF Counts(k) THEN [results EXCEPT ![k] = outcome_] ELSE results
  /\ deferred' = [deferred EXCEPT ![k] =
       IF Counts(k) /\ @ = "pending" THEN outcome_ ELSE @]
  /\ UNCHANGED <<hard, current>>
Cleared(k) == IF Counts(k) THEN [timer EXCEPT ![k] = "off"] ELSE timer

\* Mutant: only the checks of the websocket fail.
FailedMutant(failure) ==
  [k \in Keys |-> IF k \in Checks \cap WebsocketKeys THEN failure ELSE results[k]]

\* Every check of the call fails, the ones that have succeeded included.
Failed(failure) == [k \in Keys |-> IF k \in Checks THEN failure ELSE results[k]]

\* The promise of the check under way resolves, if nothing else settled it.
Released ==
  [deferred EXCEPT ![current] = IF @ = "pending" THEN "failed" ELSE @]

\* websocket_hard_fail; the timer goes on.
HardFail(failure) ==
  /\ results' = Failed(failure)
  /\ IF current = None
     THEN UNCHANGED <<hard, deferred, current>>
     ELSE hard' = TRUE /\ deferred' = Released /\ current' = None
  /\ UNCHANGED timer

-----------------------------------------------------------------------------
(* The loop of check(): these steps run before any event is handled.        *)

\* The socket after terminate().
Terminated == IF ws = "open" THEN "closing" ELSE ws

\* Mutant: the loop does not wait for the check before.
FreeMutant == TRUE

\* Each check begins when the one before is over.
Free == awaited = None

\* The order the checks were sorted into.
First(k) == k \in todo /\ \A j \in todo : Rank[k] <= Rank[j]

\* Mutant: the configured timeouts have no entry for a check.
NewTimerMutant(k) == [timer EXCEPT ![k] = "none"]

\* addDeferred: a timer goes with the promise of every check.
NewTimer(k) == [timer EXCEPT ![k] = "set"]

\* start: promise and timer, precheck, and the adapter up to its first wait.
\* A check that needs a connection and finds none is resolved at once, but
\* neither its result is set nor its timer cleared.
Start(k) ==
  /\ ended = "no" /\ Free /\ ~hard /\ First(k)
  /\ todo' = todo \ {k} /\ awaited' = k /\ current' = k
  /\ LET refused == k \in Installed \cap {"read", "write"} /\ ws # "open"
     IN deferred' = [deferred EXCEPT ![k] = IF refused THEN "refused" ELSE "pending"]
  /\ timer' = NewTimer(k)
  /\ ws' = IF k \notin WebsocketKeys THEN Terminated
           ELSE IF k = "open" /\ k \in Installed THEN "connecting" ELSE ws
  /\ running' = IF k \in Installed \ WebsocketKeys THEN running \cup {k} ELSE running
  /\ asked' = IF k \in Installed \cap {"read", "write"} /\ ws = "open"
              THEN asked \cup {k} ELSE asked
  /\ UNCHANGED <<input, hard, results, ended, answer>>

\* The awaited promise is settled.  An open that failed may fail everything.
Settle ==
  /\ ended = "no" /\ awaited # None /\ deferred[awaited] # "pending"
  /\ awaited' = None
  /\ IF deferred[awaited] = "rejected"
     THEN ended' = "rejected" /\ UNCHANGED outcome
     ELSE /\ IF awaited = "open" /\ deferred[awaited] = "error" /\ options.failAll
             THEN HardFail("down")
             ELSE UNCHANGED outcome
          /\ UNCHANGED ended
  /\ UNCHANGED <<input, todo, answer, running, asked, ws>>

\* Mutant: the socket is left as it is.
LeftMutant == ws

\* The end of the call terminates a socket that is connected.
Left == Terminated

Return ==
  /\ ended = "no" /\ awaited = None /\ (hard \/ todo = {})
  /\ ended' = "returned" /\ answer' = results /\ ws' = Left
  /\ UNCHANGED <<input, todo, awaited, outcome, running, asked>>

Proceed == (\E k \in Keys : Start(k)) \/ Settle \/ Return

-----------------------------------------------------------------------------
(* Timers, adapters, the socket and the relay.                              *)

\* maybe_timeout.
Timeout(k) ==
  /\ Quiet /\ timer[k] = "set"
  /\ timer' = [timer EXCEPT ![k] = "off"]
  /\ IF k = "open" /\ options.rejectFail
     THEN /\ deferred' = [deferred EXCEPT ![k] = IF @ = "pending" THEN "rejected" ELSE @]
          /\ UNCHANGED <<hard, results, current>>
     ELSE Finish(k, "error")
  /\ UNCHANGED <<input, loop, running, asked, ws>>

\* check_geo goes by the address in the url, or by those that the result of
\* dns holds: without either it is an error.
Located(ok) == ok = "error" \/ options.numeric \/ results["dns"] = "ok"

\* An adapter finishes; ssl may also end without a word, as any may hang.
AdapterDone(k, outcome_) ==
  /\ Quiet /\ k \in running /\ (k = "geo" => Located(outcome_))
  /\ running' = running \ {k}
  /\ Finish(k, outcome_) /\ timer' = Cleared(k)
  /\ UNCHANGED <<input, loop, asked, ws>>

\* on_open, which may come after the open check timed out.
WsOpen ==
  /\ Quiet /\ ws = "connecting" /\ ws' = "open"
  /\ Finish("open", "ok") /\ timer' = Cleared("open")
  /\ UNCHANGED <<input, loop, running, asked>>

\* on_error, from the socket or from ready(), which gives up on its own.
WsError ==
  /\ Quiet /\ ws \in {"connecting", "open", "closing"} /\ ws' = "closed"
  /\ IF hard THEN UNCHANGED outcome ELSE HardFail("down")
  /\ UNCHANGED <<input, loop, running, asked>>

\* on_close: nobody is told.
WsClose ==
  /\ Quiet /\ ws \in {"open", "closing"} /\ ws' = "closed"
  /\ UNCHANGED <<input, loop, outcome, running, asked>>

\* Something that is not JSON or not of a known type.
Garbage ==
  /\ Quiet /\ ws = "open" /\ HardFail("garbage")
  /\ UNCHANGED <<input, loop, running, asked, ws>>

\* EOSE, or events above tooManyEventsLimit, for read; OK for write.
Answered(k) ==
  /\ Quiet /\ ws = "open" /\ k \in asked
  /\ asked' = asked \ {k}
  /\ Finish(k, "ok") /\ timer' = Cleared(k)
  /\ UNCHANGED <<input, loop, running, ws>>

\* A notice while the write check is under way is taken for its answer.
Notice ==
  /\ Quiet /\ ws = "open" /\ current = "write"
  /\ Finish("write", "error") /\ timer' = Cleared("write")
  /\ UNCHANGED <<input, loop, running, asked, ws>>

Event ==
  \/ \E k \in Keys : \/ Timeout(k) \/ Answered(k)
                     \/ \E outcome_ \in Outcomes : AdapterDone(k, outcome_)
  \/ WsOpen \/ WsError \/ WsClose \/ Garbage \/ Notice

Next == Proceed \/ Event

Spec == Init /\ [][Next]_vars

\* The loop goes on when its promise is settled, and timers go off.
FairSpec == Spec /\ WF_vars(Proceed) /\ \A k \in Keys : WF_vars(Timeout(k))

-----------------------------------------------------------------------------
(* Types; only the check the loop awaits is pending, and it has a timer.    *)
TypeOK ==
  /\ requested \in Requests /\ options \in Options
  /\ todo \subseteq Checks /\ hard \in BOOLEAN
  /\ awaited \in Keys \cup {None} /\ current \in Keys \cup {None}
  /\ deferred \in [Keys -> Outcomes \cup {"none", "pending", "refused", "rejected", "failed"}]
  /\ timer \in [Keys -> {"none", "set", "off"}]
  /\ results \in [Keys -> Outcomes \cup Failures \cup {"none"}]
  /\ running \subseteq Keys \ WebsocketKeys /\ asked \subseteq {"read", "write"}
  /\ ws \in {"none", "connecting", "open", "closing", "closed"}
  /\ ended \in {"no", "returned", "rejected"}
  /\ answer \in {None} \cup [Keys -> Outcomes \cup Failures \cup {"none"}]
  /\ \A k \in Keys : deferred[k] = "pending" => awaited = k

(* A result that is there is never replaced by one that comes late, be it  *)
(* of its timer, its adapter or the relay: only a hard failure, which      *)
(* replaces them all, undoes it.                                           *)
FirstAnswerCounts ==
  [][\A k \in Keys : results'[k] # results[k] =>
       results[k] = "none" \/ \E f \in Failures : \A c \in Checks : results'[c] = f]_vars

(* A call that failed hard has failed in every check, before it returned   *)
(* and in what it returned: no late answer makes part of it good again.    *)
FailsTogether ==
  /\ hard => \E f \in Failures : \A k \in Checks : results[k] = f
  /\ answer # None => \A f \in Failures :
       (\E k \in Checks : answer[k] = f) => \A k \in Checks : answer[k] = f

(* The result of a requested check is only missing from what is returned   *)
(* when the connection was lost before the check began.                    *)
MissingExplained ==
  answer # None => \A k \in Checks : answer[k] = "none" => deferred[k] = "refused"

(* The one socket a call leaves open is one that opened after the open     *)
(* check had timed out: no failure, and no order of the checks, leaves     *)
(* another behind.                                                         *)
NoSocketLeft == ended = "returned" /\ ws = "open" => deferred["open"] = "error"

(* No relay is given a location by a dns result it does not have: unless   *)
(* its url holds the address, dns has succeeded in what the caller gets.   *)
GeoFollowsDns ==
  answer # None => (answer["geo"] = "ok" => options.numeric \/ answer["dns"] = "ok")

(* Every call ends, whatever relays and adapters leave unanswered.         *)
CheckReturns == <>(ended # "no")

-----------------------------------------------------------------------------
(* Stated by the documentation, and not so.                                *)

(* A relay that connects and then does not speak nostr is told from one    *)
(* that cannot be reached: the worker looks for an open that succeeded     *)
(* beside a read that failed with the message on NIP-01.                   *)
FakeIsOnline ==
  answer # None /\ "read" \in Checks => (answer["read"] = "garbage" => answer["open"] = "ok")

-----------------------------------------------------------------------------
(* The call as its caller knows it: CheckPromise.                          *)

\* What a check has come to; late events no longer count once the call ended.
Told(k) == IF ended = "returned" THEN answer[k] ELSE results[k]
VerdictOn(k) ==
  IF ended = "rejected" THEN "none"
  ELSE IF Told(k) = "none" /\ deferred[k] = "refused" THEN "skipped" ELSE Told(k)

Verdict == [k \in Keys |-> VerdictOn(k)]

Call == INSTANCE CheckPromise WITH wanted <- Checks, verdict <- Verdict

(* Whatever adapters, timers, the socket and the relay do, and however late, *)
(* a call is one that takes its checks in order, decides each once or fails *)
(* them all once, and tells its caller just that.                           *)
KeepsPromise == Call!Spec
=============================================================================
