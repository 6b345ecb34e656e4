-------------------------- MODULE NocapCheck_proofs --------------------------
(***************************************************************************)
(* Proofs about NocapCheck, for any requests and any installed adapters:   *)
(* whatever adapters, relays, sockets and timers do, and in which order,   *)
(* the results of a call fit together and a late answer changes nothing.   *)
(***************************************************************************)
EXTENDS NocapCheck, TLAPS

USE NocapCheckAssumption

-----------------------------------------------------------------------------
(* What the events do *)

\* The promise and the result of one check that is pending become outcome_.
Answers(k, outcome_) ==
  /\ deferred[k] = "pending"
  /\ results' = [results EXCEPT ![k] = outcome_]
  /\ deferred' = [deferred EXCEPT ![k] = outcome_]
  /\ UNCHANGED <<hard, current>>

\* An open check that timed out is rejected, where that was asked for.
Rejects ==
  /\ deferred["open"] = "pending" /\ options.rejectFail
  /\ deferred' = [deferred EXCEPT !["open"] = "rejected"]
  /\ UNCHANGED <<hard, results, current>>

Fails == \E f \in Failures : HardFail(f)
Idle == UNCHANGED <<hard, deferred, results, current>>

LEMMA KeysHaveChecks ==
  ASSUME TypeOK
  PROVE  /\ Checks \subseteq Keys /\ todo \subseteq Keys
         /\ "geo" \in Checks => "dns" \in Checks
BY DEF TypeOK, Checks, Keys

\* finish either answers a pending check or is ignored.
LEMMA FinishAnswers ==
  ASSUME TypeOK, NEW k \in Keys, NEW o \in Outcomes, Finish(k, o)
  PROVE  Answers(k, o) \/ Idle
BY DEF Finish, Counts, IgnoreResult, Answers, Idle, TypeOK

\* An event answers a check, rejects the open check, fails all checks or
\* settles nothing; it leaves the loop of check() alone.
LEMMA EventEffect ==
  ASSUME TypeOK, Event
  PROVE  /\ Quiet /\ UNCHANGED <<input, loop>>
         /\ \/ \E k \in Keys, o \in Outcomes :
                 /\ Answers(k, o)
                 /\ k = "geo" /\ o = "ok" => options.numeric \/ results["dns"] = "ok"
                 /\ k = "open" /\ o = "ok" => ws' = "open"
            \/ Rejects \/ Fails \/ Idle
<1>1. ASSUME NEW k \in Keys, Timeout(k) PROVE Rejects \/ Answers(k, "error") \/ Idle
  <2>1. CASE k = "open" /\ options.rejectFail
    <3>1. deferred' = [deferred EXCEPT !["open"] = IF @ = "pending" THEN "rejected" ELSE @]
          /\ UNCHANGED <<hard, results, current>>
      BY <1>1, <2>1 DEF Timeout
    <3>2. CASE deferred["open"] = "pending"
      BY <2>1, <3>1, <3>2 DEF Rejects
    <3>3. CASE deferred["open"] # "pending"
      <4>1. deferred' = deferred
        BY <3>1, <3>3 DEF TypeOK
      <4> QED
        BY <3>1, <4>1 DEF Idle
    <3> QED
      BY <3>2, <3>3
  <2>2. CASE ~(k = "open" /\ options.rejectFail)
    BY <1>1, <2>2, FinishAnswers DEF Timeout, Outcomes
  <2> QED
    BY <2>1, <2>2
<1>2. ASSUME NEW k \in Keys, Answered(k)
      PROVE  k \in {"read", "write"} /\ (Answers(k, "ok") \/ Idle)
  BY <1>2, FinishAnswers DEF Answered, Outcomes, TypeOK
<1>3. ASSUME NEW k \in Keys, NEW o \in Outcomes, AdapterDone(k, o)
      PROVE  /\ k # "open" /\ (k = "geo" /\ o = "ok" => options.numeric \/ results["dns"] = "ok")
             /\ Answers(k, o) \/ Idle
  BY <1>3, FinishAnswers DEF AdapterDone, Located, TypeOK, WebsocketKeys
<1>4. ASSUME WsOpen PROVE ws' = "open" /\ (Answers("open", "ok") \/ Idle)
  BY <1>4, FinishAnswers DEF WsOpen, Outcomes, Keys
<1>5. ASSUME Notice PROVE Answers("write", "error") \/ Idle
  BY <1>5, FinishAnswers DEF Notice, Outcomes, Keys
<1>6. ASSUME WsError \/ Garbage PROVE Fails \/ Idle
  BY <1>6 DEF WsError, Garbage, Fails, Failures, Idle, outcome
<1>7. ASSUME WsClose PROVE Idle
  BY <1>7 DEF WsClose, Idle, outcome
<1>8. Quiet /\ UNCHANGED <<input, loop>>
  BY DEF Event, Timeout, Answered, AdapterDone, WsOpen, WsError, WsClose, Garbage, Notice
<1> QED
  BY <1>1, <1>2, <1>3, <1>4, <1>5, <1>6, <1>7, <1>8 DEF Event, Keys, Outcomes

-----------------------------------------------------------------------------
(* Types *)

LEMMA FailedTypes ==
  ASSUME TypeOK, NEW f \in Failures
  PROVE  /\ Failed(f) \in [Keys -> Outcomes \cup Failures \cup {"none"}]
         /\ Released \in [Keys -> Outcomes \cup
                            {"none", "pending", "refused", "rejected", "failed"}]
         /\ \A k \in Keys : Released[k] = "pending" => deferred[k] = "pending"
BY DEF TypeOK, Failed, Released

LEMMA EventTypes ==
  ASSUME TypeOK, Event
  PROVE  TypeOK'
<1>1. Quiet /\ UNCHANGED <<input, loop>>
  BY EventEffect
<1> DEFINE Settled == /\ hard' \in BOOLEAN /\ current' \in Keys \cup {None}
                      /\ deferred' \in [Keys -> Outcomes \cup
                           {"none", "pending", "refused", "rejected", "failed"}]
                      /\ results' \in [Keys -> Outcomes \cup Failures \cup {"none"}]
                      /\ \A k \in Keys : deferred'[k] = "pending" => deferred[k] = "pending"
<1>2. Settled
  <2>1. CASE Fails
    <3>1. PICK f \in Failures : HardFail(f)
      BY <2>1 DEF Fails
    <3>2. results' = Failed(f) /\ (deferred' = deferred \/ deferred' = Released)
      BY <3>1 DEF HardFail
    <3>3. hard' \in BOOLEAN /\ current' \in Keys \cup {None}
      BY <3>1 DEF HardFail, TypeOK
    <3> QED
      BY <3>2, <3>3, FailedTypes DEF TypeOK
  <2>2. CASE Rejects \/ Idle
    BY <2>2 DEF Rejects, Idle, TypeOK, Keys
  <2>3. ASSUME NEW k \in Keys, NEW o \in Outcomes, Answers(k, o) PROVE Settled
    BY <2>3 DEF Answers, TypeOK, Outcomes
  <2> QED
    BY <2>1, <2>2, <2>3, EventEffect
<1>3. timer' \in [Keys -> {"none", "set", "off"}]
  <2>1. ASSUME NEW k \in Keys PROVE Cleared(k) \in [Keys -> {"none", "set", "off"}]
    BY DEF Cleared, TypeOK
  <2>2. (\E k \in Keys : timer' = Cleared(k)) \/ timer' = timer
        \/ \E k \in Keys : timer' = [timer EXCEPT ![k] = "off"]
    BY DEF Event, Timeout, Answered, AdapterDone, WsOpen, WsError, WsClose, Garbage, Notice,
       HardFail, outcome, Keys
  <2> QED
    BY <2>1, <2>2 DEF TypeOK
<1>4. running' \subseteq Keys \ WebsocketKeys /\ asked' \subseteq {"read", "write"}
  BY DEF Event, Timeout, Answered, AdapterDone, WsOpen, WsError, WsClose, Garbage, Notice, TypeOK
<1>5. ws' \in {"none", "connecting", "open", "closing", "closed"}
  BY DEF Event, Timeout, Answered, AdapterDone, WsOpen, WsError, WsClose, Garbage, Notice, TypeOK
<1> QED
  BY <1>1, <1>2, <1>3, <1>4, <1>5 DEF TypeOK, Checks, input, loop

LEMMA StartTypes ==
  ASSUME TypeOK, NEW k \in Keys, Start(k)
  PROVE  TypeOK'
BY KeysHaveChecks DEF Start, Free, First, NewTimer, Terminated, TypeOK, Checks, input,
   WebsocketKeys, Keys

LEMMA SettleTypes ==
  ASSUME TypeOK, Settle
  PROVE  TypeOK'
<1>1. CASE UNCHANGED outcome
  BY <1>1 DEF Settle, TypeOK, Checks, input, outcome
<1>2. CASE HardFail("down") /\ UNCHANGED ended
  BY <1>2, FailedTypes DEF Settle, HardFail, TypeOK, Checks, input, Failures
<1> QED
  BY <1>1, <1>2 DEF Settle

LEMMA TypeStep ==
  ASSUME TypeOK, [Next]_vars
  PROVE  TypeOK'
<1>1. CASE Event
  BY <1>1, EventTypes
<1>2. ASSUME NEW k \in Keys, Start(k) PROVE TypeOK'
  BY <1>2, StartTypes
<1>3. CASE Settle
  BY <1>3, SettleTypes
<1>4. CASE Return
  BY <1>4 DEF Return, Left, Terminated, TypeOK, Checks, input, outcome
<1>5. CASE UNCHANGED vars
  BY <1>5 DEF vars, input, loop, outcome, TypeOK, Checks
<1> QED
  BY <1>1, <1>2, <1>3, <1>4, <1>5 DEF Next, Proceed

LEMMA InitTypes == Init => TypeOK
BY DEF Init, TypeOK, Keys

\* Only the check that check() awaits is pending (Base.ts:153-162, 194-207).
THEOREM TypeCorrect == Spec => []TypeOK
BY InitTypes, TypeStep, PTL DEF Spec

LEMMA InputKept ==
  ASSUME [Next]_vars
  PROVE  Checks' = Checks /\ options' = options
BY DEF Next, Proceed, Start, Settle, Return, Event, Timeout, AdapterDone, WsOpen, WsError, WsClose,
       Garbage, Answered, Notice, vars, input, Checks

-----------------------------------------------------------------------------
(* The loop: what it awaits is what is under way, until all has failed.     *)

LoopInv ==
  /\ ended # "no" => awaited = None
  /\ hard => current = None
  /\ awaited # None => awaited \in Checks \ todo /\ (current = awaited \/ hard)
  /\ hard => \A k \in Keys : deferred[k] # "pending"
  /\ \A k \in todo : deferred[k] = "none"

LEMMA InitLoop == Init => LoopInv
BY KeysHaveChecks DEF Init, LoopInv, Checks, Keys

\* While check() awaits a promise, a hard failure is one of that check.
LEMMA HardFailFromLoop ==
  ASSUME TypeOK, LoopInv, NEW f \in Failures, HardFail(f)
  PROVE  /\ results' = Failed(f)
         /\ \/ UNCHANGED <<hard, deferred, current>> /\ current = None
            \/ /\ hard' = TRUE /\ current' = None /\ deferred' = Released
               /\ \A k \in Keys : deferred'[k] # "pending"
         /\ awaited # None => hard' = TRUE
         /\ \A k \in Keys : deferred[k] # "pending" => deferred'[k] = deferred[k]
<1>1. CASE current = None
  BY <1>1 DEF HardFail, LoopInv
<1>2. CASE current # None
  <2>1. hard' = TRUE /\ current' = None /\ deferred' = Released /\ results' = Failed(f)
    BY <1>2 DEF HardFail
  <2>2. \A k \in Keys : deferred[k] = "pending" => current = k
    BY <1>2 DEF LoopInv, TypeOK
  <2> QED
    BY <2>1, <2>2 DEF Released, TypeOK
<1> QED
  BY <1>1, <1>2

LEMMA LoopStep ==
  ASSUME TypeOK, LoopInv, [Next]_vars
  PROVE  LoopInv'
<1> USE InputKept, KeysHaveChecks
<1>1. CASE Event
  <2>1. UNCHANGED <<ended, awaited, todo>>
    BY <1>1, EventEffect DEF loop
  <2>2. ASSUME NEW k \in Keys, NEW o \in Outcomes, Answers(k, o) PROVE LoopInv'
    BY <2>1, <2>2 DEF Answers, LoopInv, TypeOK, Outcomes
  <2>3. CASE Rejects
    BY <2>1, <2>3 DEF Rejects, LoopInv, TypeOK, Keys
  <2>4. CASE Fails
    <3>1. PICK f \in Failures : HardFail(f)
      BY <2>4 DEF Fails
    <3>2. \A k \in todo : deferred'[k] = "none"
      BY <3>1, HardFailFromLoop DEF LoopInv
    <3> QED
      BY <2>1, <3>1, <3>2, HardFailFromLoop DEF LoopInv
  <2>5. CASE Idle
    BY <2>1, <2>5 DEF Idle, LoopInv
  <2> QED
    BY <1>1, <2>2, <2>3, <2>4, <2>5, EventEffect
<1>2. ASSUME NEW k \in Keys, Start(k) PROVE LoopInv'
  BY <1>2 DEF Start, Free, First, LoopInv, TypeOK
<1>3. CASE Settle
  <2>1. CASE UNCHANGED outcome
    BY <1>3, <2>1 DEF Settle, LoopInv, outcome
  <2>2. CASE HardFail("down") /\ UNCHANGED ended
    <3>1. \A k \in todo : deferred'[k] = "none"
      BY <2>2, HardFailFromLoop DEF LoopInv, Failures
    <3> QED
      BY <1>3, <2>2, <3>1, HardFailFromLoop DEF Settle, LoopInv, Failures
  <2> QED
    BY <1>3, <2>1, <2>2 DEF Settle
<1>4. CASE Return
  BY <1>4 DEF Return, LoopInv, outcome
<1>5. CASE UNCHANGED vars
  BY <1>5 DEF vars, input, loop, outcome, LoopInv
<1> QED
  BY <1>1, <1>2, <1>3, <1>4, <1>5 DEF Next, Proceed

-----------------------------------------------------------------------------
(* The results: all failed or none, and none before its promise is settled. *)

ResultInv ==
  /\ hard => \E f \in Failures : \A k \in Checks : results[k] = f
  /\ ended = "no" /\ ~hard => \A k \in Checks : results[k] \notin Failures
  /\ ended = "no" /\ ~hard => \A k \in todo : results[k] = "none"
  /\ \A k \in Keys : deferred[k] = "pending" => results[k] = "none"
  /\ \A k \in Keys \ Checks : results[k] = "none"

LEMMA InitResults == Init => ResultInv
BY DEF Init, ResultInv, Failures, Checks, Keys

LEMMA HardFailResults ==
  ASSUME TypeOK, LoopInv, ResultInv, NEW f \in Failures, HardFail(f), Checks' = Checks,
         todo' = todo, ended' = "no" => awaited # None
  PROVE  ResultInv'
<1>1. \A k \in Checks : results'[k] = f
  BY HardFailFromLoop, KeysHaveChecks DEF Failed
<1>2. \A k \in Keys \ Checks : results'[k] = "none"
  BY HardFailFromLoop DEF Failed, ResultInv
<1>3. \A k \in Keys : deferred'[k] # "pending"
  BY HardFailFromLoop DEF LoopInv, TypeOK
<1> QED
  BY <1>1, <1>2, <1>3, HardFailFromLoop DEF ResultInv

LEMMA ResultStep ==
  ASSUME TypeOK, LoopInv, ResultInv, [Next]_vars
  PROVE  ResultInv'
<1> USE InputKept, KeysHaveChecks
<1>1. CASE Event
  <2>1. UNCHANGED <<ended, awaited, todo>> /\ Quiet
    BY <1>1, EventEffect DEF loop
  <2>2. ASSUME NEW k \in Keys, NEW o \in Outcomes, Answers(k, o) PROVE ResultInv'
    <3>1. awaited = k /\ ~hard /\ k \in Checks \ todo /\ o \notin Failures
      BY <2>2 DEF Answers, TypeOK, LoopInv, Outcomes, Failures
    <3> QED
      BY <2>1, <2>2, <3>1 DEF Answers, ResultInv, TypeOK, Outcomes
  <2>3. CASE Rejects
    BY <2>1, <2>3 DEF Rejects, ResultInv, TypeOK, Keys
  <2>4. CASE Fails
    <3>1. PICK f \in Failures : HardFail(f)
      BY <2>4 DEF Fails
    <3> QED
      BY <2>1, <3>1, HardFailResults DEF Quiet
  <2>5. CASE Idle
    BY <2>1, <2>5 DEF Idle, ResultInv
  <2> QED
    BY <1>1, <2>2, <2>3, <2>4, <2>5, EventEffect
<1>2. ASSUME NEW k \in Keys, Start(k) PROVE ResultInv'
  BY <1>2 DEF Start, First, ResultInv, TypeOK
<1>3. CASE Settle
  <2>1. CASE UNCHANGED outcome
    BY <1>3, <2>1 DEF Settle, ResultInv, outcome
  <2>2. CASE HardFail("down") /\ UNCHANGED ended
    BY <1>3, <2>2, HardFailResults DEF Settle, Failures
  <2> QED
    BY <1>3, <2>1, <2>2 DEF Settle
<1>4. CASE Return
  BY <1>4 DEF Return, ResultInv, outcome
<1>5. CASE UNCHANGED vars
  BY <1>5 DEF vars, input, loop, outcome, ResultInv
<1> QED
  BY <1>1, <1>2, <1>3, <1>4, <1>5 DEF Next, Proceed

-----------------------------------------------------------------------------
(* The promises: how each was settled, and what that says of its result.    *)

DoneInv ==
  /\ \A k \in Checks \ todo : deferred[k] # "none"
  /\ \A k \in Checks : deferred[k] \in Outcomes \cup {"failed"} => results[k] # "none"
  /\ \A k \in Keys : deferred[k] = "rejected" => awaited = k \/ ended = "rejected"

LEMMA InitDone == Init => DoneInv
BY KeysHaveChecks DEF Init, DoneInv, Outcomes, Checks, Keys

LEMMA HardFailDone ==
  ASSUME TypeOK, LoopInv, DoneInv, NEW f \in Failures, HardFail(f), Checks' = Checks,
         todo' = todo, ended' = ended,
         \A k \in Keys : deferred[k] = "rejected" => awaited' = awaited
  PROVE  DoneInv'
<1>1. \A k \in Checks : results'[k] # "none"
  BY HardFailFromLoop, KeysHaveChecks DEF Failed, Failures
<1>2. \A k \in Keys : deferred'[k] \in {deferred[k], "failed"}
  <2>1. deferred' = deferred \/ deferred' = Released
    BY HardFailFromLoop
  <2>2. \A k \in Keys : Released[k] \in {deferred[k], "failed"}
    BY DEF Released, TypeOK
  <2> QED
    BY <2>1, <2>2
<1> QED
  BY <1>1, <1>2, KeysHaveChecks DEF DoneInv

LEMMA DoneStep ==
  ASSUME TypeOK, LoopInv, DoneInv, [Next]_vars
  PROVE  DoneInv'
<1> USE InputKept, KeysHaveChecks
<1>1. CASE Event
  <2>1. UNCHANGED <<ended, awaited, todo>>
    BY <1>1, EventEffect DEF loop
  <2>2. ASSUME NEW k \in Keys, NEW o \in Outcomes, Answers(k, o) PROVE DoneInv'
    BY <2>1, <2>2 DEF Answers, DoneInv, TypeOK, Outcomes
  <2>3. CASE Rejects
    BY <2>1, <2>3 DEF Rejects, DoneInv, TypeOK, Keys, Outcomes
  <2>4. CASE Fails
    <3>1. PICK f \in Failures : HardFail(f)
      BY <2>4 DEF Fails
    <3> QED
      BY <2>1, <3>1, HardFailDone
  <2>5. CASE Idle
    BY <2>1, <2>5 DEF Idle, DoneInv
  <2> QED
    BY <1>1, <2>2, <2>3, <2>4, <2>5, EventEffect
<1>2. ASSUME NEW k \in Keys, Start(k) PROVE DoneInv'
  BY <1>2 DEF Start, Free, DoneInv, TypeOK, Outcomes
<1>3. CASE Settle
  <2>1. CASE deferred[awaited] = "rejected"
    BY <1>3, <2>1 DEF Settle, DoneInv, outcome
  <2>2. CASE deferred[awaited] # "rejected"
    <3>1. ended' = ended /\ ended = "no" /\ todo' = todo
          /\ \A k \in Keys : deferred[k] # "rejected"
      BY <1>3, <2>2 DEF Settle, DoneInv
    <3>2. CASE UNCHANGED outcome
      BY <3>1, <3>2 DEF DoneInv, outcome
    <3>3. CASE HardFail("down")
      BY <3>1, <3>3, HardFailDone DEF Failures
    <3> QED
      BY <1>3, <2>2, <3>2, <3>3 DEF Settle
  <2> QED
    BY <2>1, <2>2
<1>4. CASE Return
  BY <1>4 DEF Return, DoneInv, outcome
<1>5. CASE UNCHANGED vars
  BY <1>5 DEF vars, input, loop, outcome, DoneInv
<1> QED
  BY <1>1, <1>2, <1>3, <1>4, <1>5 DEF Next, Proceed

-----------------------------------------------------------------------------
(* What is returned                                                         *)

AnswerInv == (answer # None => ended = "returned") /\ FailsTogether /\ MissingExplained

LEMMA AnswerStep ==
  ASSUME TypeOK, LoopInv, ResultInv, ResultInv', DoneInv, AnswerInv, [Next]_vars
  PROVE  AnswerInv'
<1> USE InputKept, KeysHaveChecks
<1>1. hard' => \E f \in Failures : \A k \in Checks' : results'[k] = f
  BY DEF ResultInv
<1>2. CASE ended = "no" /\ ~Return
  <2>1. answer = None /\ answer' = answer
    BY <1>2 DEF AnswerInv, Next, Proceed, Start, Settle, Event, Timeout, AdapterDone, WsOpen,
       WsError, WsClose, Garbage, Answered, Notice, vars, loop
  <2> QED
    BY <1>1, <2>1 DEF AnswerInv, FailsTogether, MissingExplained
<1>3. CASE Return
  <2>1. ended = "no" /\ awaited = None /\ (hard \/ todo = {}) /\ ended' = "returned"
        /\ answer' = results /\ deferred' = deferred
    BY <1>3 DEF Return, outcome
  <2>2. \A f \in Failures : (\E k \in Checks : results[k] = f) => \A k \in Checks : results[k] = f
    BY <2>1 DEF ResultInv
  <2>3. ASSUME NEW k \in Checks, results[k] = "none" PROVE deferred[k] = "refused"
    <3>1. ~hard
      BY <2>3 DEF ResultInv, Failures
    <3>2. deferred[k] \notin Outcomes \cup {"none", "failed"}
      BY <2>1, <2>3, <3>1 DEF DoneInv
    <3>3. deferred[k] \notin {"pending", "rejected"}
      BY <2>1 DEF DoneInv, TypeOK
    <3> QED
      BY <3>2, <3>3 DEF TypeOK
  <2> QED
    BY <1>1, <2>1, <2>2, <2>3 DEF AnswerInv, FailsTogether, MissingExplained
<1>4. CASE ended # "no"
  <2>1. answer' = answer /\ ended' = ended
    BY <1>4 DEF Next, Proceed, Start, Settle, Return, Event, Timeout, AdapterDone, WsOpen,
       WsError, WsClose, Garbage, Answered, Notice, vars, loop
  <2>2. Event \/ UNCHANGED vars
    BY <1>4 DEF Next, Proceed, Start, Settle, Return
  <2>3. \A k \in Keys : deferred[k] # "pending"
    BY <1>4 DEF LoopInv, TypeOK
  <2>4. CASE Event
    <3>1. ASSUME NEW f \in Failures, HardFail(f)
          PROVE \A k \in Keys : deferred'[k] = deferred[k]
      BY <2>3, <3>1, HardFailFromLoop
    <3>2. \A k \in Keys : deferred'[k] = deferred[k]
      BY <2>3, <2>4, <3>1, EventEffect DEF Answers, Rejects, Fails, Idle, Keys
    <3> QED
      BY <1>1, <2>1, <3>2 DEF AnswerInv, FailsTogether, MissingExplained
  <2>5. CASE UNCHANGED vars
    BY <1>1, <2>1, <2>5 DEF AnswerInv, FailsTogether, MissingExplained, vars, outcome
  <2> QED
    BY <2>2, <2>4, <2>5
<1> QED
  BY <1>2, <1>3, <1>4

-----------------------------------------------------------------------------
(* The socket, and the location                                             *)

SocketInv ==
  /\ "open" \notin Installed \/ deferred["open"] = "none" => ws = "none"
  /\ ws = "connecting" => deferred["open"] \in {"pending", "error", "rejected"}
  /\ ws = "open" => deferred["open"] # "pending"
  /\ deferred["open"] = "rejected" /\ awaited # "open" => ended = "rejected"
  /\ ended = "returned" /\ ws \in {"connecting", "open"} => deferred["open"] = "error"

LEMMA SocketStep ==
  ASSUME TypeOK, LoopInv, SocketInv, [Next]_vars
  PROVE  SocketInv'
<1> "open" \in Keys
  BY DEF Keys
<1>0. deferred["open"] = "pending" => awaited = "open"
  BY DEF TypeOK
<1>1. CASE Event
  <2>1. UNCHANGED <<ended, awaited>> /\ (awaited # None => ended = "no")
    BY <1>1, EventEffect DEF loop, LoopInv
  <2>2. ASSUME NEW k \in Keys, Timeout(k) PROVE SocketInv'
    <3>1. ws' = ws /\ (deferred'["open"] = deferred["open"] \/
            (deferred["open"] = "pending" /\ deferred'["open"] \in {"error", "rejected"}))
      BY <2>2 DEF Timeout, Finish, Counts, TypeOK
    <3> QED
      BY <1>0, <2>1, <3>1, NocapCheckAssumption DEF SocketInv, Keys
  <2>3. ASSUME NEW k \in Keys \ {"open"}, NEW o \in Outcomes,
               Finish(k, o), ws' = ws
        PROVE  SocketInv'
    <3>1. deferred'["open"] = deferred["open"]
      BY <2>3 DEF Finish, TypeOK
    <3> QED
      BY <2>1, <2>3, <3>1 DEF SocketInv
  <2>4. CASE WsOpen
    <3>1. ws = "connecting" /\ ws' = "open" /\ Finish("open", "ok")
      BY <2>4 DEF WsOpen
    <3>2. "open" \in Installed
      BY <3>1 DEF SocketInv
    <3>3. deferred'["open"] = IF deferred["open"] = "pending" THEN "ok" ELSE deferred["open"]
      BY <3>1, <3>2 DEF Finish, Counts, IgnoreResult, TypeOK
    <3> QED
      BY <1>0, <2>1, <3>1, <3>2, <3>3, NocapCheckAssumption DEF SocketInv
  <2>5. CASE WsError \/ Garbage
    <3>1. \/ deferred' = deferred
          \/ \A k \in Keys : deferred[k] # "pending" => deferred'[k] = deferred[k]
      BY <2>5, HardFailFromLoop DEF WsError, Garbage, outcome, Failures
    <3>2. ws' = "closed" \/ (ws' = ws /\ ws = "open")
      BY <2>5 DEF WsError, Garbage
    <3>3. deferred["open"] = "pending" => deferred'["open"] \in {"pending", "failed"}
      BY <2>5 DEF WsError, Garbage, HardFail, Released, outcome, TypeOK
    <3> QED
      BY <1>0, <2>1, <2>5, <3>1, <3>2, <3>3 DEF SocketInv, WsError, Garbage
  <2>6. CASE WsClose
    BY <2>1, <2>6 DEF WsClose, outcome, SocketInv
  <2>7. ASSUME NEW k \in Keys, Answered(k) PROVE SocketInv'
    BY <2>3, <2>7 DEF Answered, TypeOK, Outcomes
  <2>8. ASSUME NEW k \in Keys, NEW o \in Outcomes, AdapterDone(k, o) PROVE SocketInv'
    BY <2>3, <2>8 DEF AdapterDone, TypeOK, WebsocketKeys
  <2>9. CASE Notice
    BY <2>3, <2>9 DEF Notice, Outcomes, Keys
  <2> QED
    BY <1>1, <2>2, <2>4, <2>5, <2>6, <2>7, <2>8, <2>9 DEF Event
<1>2. ASSUME NEW k \in Keys, Start(k) PROVE SocketInv'
  <2>1. /\ ended' = ended /\ ended = "no" /\ awaited = None /\ awaited' = k /\ deferred[k] = "none"
        /\ ws' = IF k \notin WebsocketKeys THEN Terminated
                 ELSE IF k = "open" /\ k \in Installed THEN "connecting" ELSE ws
    BY <1>2 DEF Start, Free, First, LoopInv
  <2>2. CASE k = "open"
    <3>1. deferred'["open"] = "pending" /\ ws = "none"
      BY <1>2, <2>1, <2>2 DEF Start, TypeOK, SocketInv
    <3> QED
      BY <2>1, <2>2, <3>1 DEF SocketInv, WebsocketKeys
  <2>3. CASE k # "open"
    <3>1. deferred'["open"] = deferred["open"]
      BY <1>2, <2>3 DEF Start, TypeOK
    <3>2. ws' = ws \/ (ws = "open" /\ ws' = "closing")
      BY <2>1, <2>3 DEF Terminated
    <3>3. deferred["open"] # "pending" /\ deferred["open"] # "rejected"
      BY <1>0, <2>1, NocapCheckAssumption DEF SocketInv
    <3> QED
      BY <2>1, <3>1, <3>2, <3>3 DEF SocketInv
  <2> QED
    BY <2>2, <2>3
<1>3. CASE Settle
  <2>1. ws' = ws /\ awaited' = None /\ ended = "no" /\ awaited \in Keys /\ deferred[awaited] # "pending"
    BY <1>3 DEF Settle, TypeOK
  <2>2. \A k \in Keys : deferred[k] # "pending"
    BY <2>1 DEF TypeOK
  <2>3. deferred'["open"] = deferred["open"]
    BY <1>3, <2>2, HardFailFromLoop DEF Settle, outcome, Failures
  <2>4. ended' \in {"no", "rejected"} /\ (deferred[awaited] = "rejected" => ended' = "rejected")
    BY <1>3, <2>1 DEF Settle
  <2> QED
    BY <2>1, <2>3, <2>4 DEF SocketInv
<1>4. CASE Return
  <2>1. awaited = None /\ ended = "no" /\ awaited' = awaited /\ deferred' = deferred
        /\ ended' = "returned" /\ ws' = Terminated
    BY <1>4 DEF Return, Left, outcome
  <2>2. deferred["open"] # "pending" /\ deferred["open"] # "rejected"
    BY <1>0, <2>1, NocapCheckAssumption DEF SocketInv
  <2> QED
    BY <2>1, <2>2 DEF Terminated, SocketInv
<1>5. CASE UNCHANGED vars
  BY <1>5 DEF vars, input, loop, outcome, SocketInv
<1> QED
  BY <1>1, <1>2, <1>3, <1>4, <1>5 DEF Next, Proceed

GeoInv ==
  /\ results["geo"] = "ok" => options.numeric \/ results["dns"] = "ok"
  /\ GeoFollowsDns

LEMMA GeoStep ==
  ASSUME TypeOK, LoopInv, ResultInv, GeoInv, [Next]_vars
  PROVE  GeoInv'
<1> USE KeysHaveChecks
<1>1. ASSUME NEW f \in Failures, HardFail(f) PROVE results'["geo"] = "ok" => options.numeric \/ results'["dns"] = "ok"
  BY <1>1, HardFailFromLoop DEF Failed, Failures, ResultInv, GeoInv, Keys
<1>2. CASE Event
  <2>1. answer' = answer
    BY <1>2, EventEffect DEF loop
  <2>2. ASSUME NEW k \in Keys, NEW o \in Outcomes, Answers(k, o),
               k = "geo" /\ o = "ok" => options.numeric \/ results["dns"] = "ok"
        PROVE results'["geo"] = "ok" => options.numeric \/ results'["dns"] = "ok"
    <3>1. k = "dns" => results["dns"] = "none"
      BY <2>2 DEF Answers, ResultInv
    <3>2. results' = [results EXCEPT ![k] = o]
      BY <2>2 DEF Answers
    <3> QED
      BY <2>2, <3>1, <3>2 DEF GeoInv, TypeOK, Keys
  <2> QED
    BY <1>1, <1>2, <2>1, <2>2, EventEffect DEF GeoInv, GeoFollowsDns, Rejects, Fails, Idle, input
<1>3. ASSUME NEW k \in Keys, Start(k) PROVE GeoInv'
  BY <1>3 DEF Start, GeoInv, GeoFollowsDns, input
<1>4. CASE Settle
  BY <1>1, <1>4 DEF Settle, GeoInv, GeoFollowsDns, outcome, input, Failures
<1>5. CASE Return
  BY <1>5 DEF Return, GeoInv, GeoFollowsDns, outcome, input
<1>6. CASE UNCHANGED vars
  BY <1>6 DEF vars, input, loop, outcome, GeoInv, GeoFollowsDns
<1> QED
  BY <1>2, <1>3, <1>4, <1>5, <1>6 DEF Next, Proceed

-----------------------------------------------------------------------------
(* The theorems                                                             *)

IInv == TypeOK /\ LoopInv /\ ResultInv /\ DoneInv /\ AnswerInv /\ SocketInv /\ GeoInv

LEMMA InitInv == Init => IInv
<1> SUFFICES ASSUME Init PROVE IInv
  OBVIOUS
<1>1. AnswerInv
  BY DEF Init, AnswerInv, FailsTogether, MissingExplained
<1>2. SocketInv /\ GeoInv
  BY DEF Init, SocketInv, GeoInv, GeoFollowsDns, Keys
<1> QED
  BY <1>1, <1>2, InitTypes, InitLoop, InitResults, InitDone DEF IInv

LEMMA Inductive == IInv /\ [Next]_vars => IInv'
BY TypeStep, LoopStep, ResultStep, DoneStep, AnswerStep, SocketStep, GeoStep DEF IInv

\* The inductive invariant the theorems below are read off.
THEOREM InvHolds == Spec => []IInv
BY InitInv, Inductive, PTL DEF Spec

\* A result only changes where there was none, or all fail.
LEMMA FirstAnswerStep ==
  ASSUME IInv, [Next]_vars, NEW k \in Keys, results'[k] # results[k]
  PROVE  results[k] = "none" \/ \E f \in Failures : \A c \in Checks : results'[c] = f
<1>1. ASSUME NEW f \in Failures, HardFail(f) PROVE \A c \in Checks : results'[c] = f
  BY <1>1, HardFailFromLoop, KeysHaveChecks DEF Failed, IInv
<1>2. ASSUME NEW j \in Keys, NEW o \in Outcomes, Answers(j, o) PROVE results[k] = "none"
  BY <1>2 DEF Answers, IInv, ResultInv, TypeOK
<1>3. CASE Event
  BY <1>1, <1>2, <1>3, EventEffect DEF Rejects, Fails, Idle, IInv
<1>4. CASE Settle
  BY <1>1, <1>4 DEF Settle, outcome, Failures
<1>5. CASE (\E j \in Keys : Start(j)) \/ Return \/ UNCHANGED vars
  BY <1>5 DEF Start, Return, vars, outcome
<1> QED
  BY <1>3, <1>4, <1>5 DEF Next, Proceed

\* A late answer finds the promise settled and is ignored (Base.ts:334-369);
\* a hard failure replaces every result (Base.ts:871-902).
THEOREM FirstAnswer == Spec => FirstAnswerCounts
<1>1. IInv /\ [Next]_vars =>
        [\A k \in Keys : results'[k] # results[k] =>
           results[k] = "none" \/ \E f \in Failures : \A c \in Checks : results'[c] = f]_vars
  BY FirstAnswerStep
<1> QED
  BY <1>1, InvHolds, PTL DEF Spec, FirstAnswerCounts

\* Hard failures (Base.ts:871-902) against answers that come late: a call
\* fails in every check or in none.
THEOREM FailTogether == Spec => []FailsTogether
<1>1. IInv => FailsTogether
  BY DEF IInv, AnswerInv
<1> QED
  BY <1>1, InvHolds, PTL

\* What may be missing from the result of check() (Base.ts:151-168, 194-207).
THEOREM MissingIsExplained == Spec => []MissingExplained
<1>1. IInv => MissingExplained
  BY DEF IInv, AnswerInv
<1> QED
  BY <1>1, InvHolds, PTL

\* The end of check() and the checks without a socket terminate the socket
\* of every open that did not time out (Base.ts:164).
THEOREM NoSocketIsLeft == Spec => []NoSocketLeft
<1>1. IInv => NoSocketLeft
  BY DEF IInv, SocketInv, NoSocketLeft
<1> QED
  BY <1>1, InvHolds, PTL

\* A location comes from the address in the url or from those that dns found in
\* the same call (GeoAdapterDefault/src/index.ts:67-92).
THEOREM GeoHasDns == Spec => []GeoFollowsDns
<1>1. IInv => GeoFollowsDns
  BY DEF IInv, GeoInv
<1> QED
  BY <1>1, InvHolds, PTL

-----------------------------------------------------------------------------
(* The refinement of CheckPromise                                           *)

\* The loop goes through the checks in their order, and awaits the open check
\* with all others still to come.
OrderInv ==
  /\ \A j \in Checks \ todo, k \in todo : Rank[j] < Rank[k]
  /\ awaited = "open" => todo = Checks \ {"open"}
  /\ \A k \in Keys \ Checks : deferred[k] = "none"

\* Until all has failed a promise says what the result is.
PromiseInv ==
  ended = "no" /\ ~hard => \A k \in Keys :
    /\ deferred[k] \in Outcomes => results[k] = deferred[k]
    /\ deferred[k] \in {"refused", "rejected"} => results[k] = "none"

\* How the options bear on the open check; an open that is to fail all others
\* is settled in the next step.
OptionInv ==
  /\ hard /\ awaited # None => deferred[awaited] = "failed"
  /\ \A k \in Keys : deferred[k] = "rejected" => k = "open" /\ options.rejectFail
  /\ options.failAll /\ ended = "no" /\ results["open"] = "error" =>
       awaited = "open" /\ deferred["open"] = "error"

CallInv == OrderInv /\ PromiseInv /\ OptionInv

LEMMA CallInit == Init => CallInv
<1> SUFFICES ASSUME Init PROVE CallInv
  OBVIOUS
<1>1. OrderInv
  BY KeysHaveChecks, InitTypes DEF Init, OrderInv, Keys
<1>2. PromiseInv /\ OptionInv
  BY DEF Init, PromiseInv, OptionInv, Outcomes, Keys
<1> QED
  BY <1>1, <1>2 DEF CallInv

LEMMA OrderStep ==
  ASSUME IInv, OrderInv, [Next]_vars
  PROVE  OrderInv'
<1> USE InputKept, KeysHaveChecks DEF IInv
<1>1. CASE Event
  <2>1. UNCHANGED <<ended, awaited, todo>>
    BY <1>1, EventEffect DEF loop
  <2>2. \A k \in Keys : deferred[k] = "none" => deferred'[k] = "none"
    <3>1. ASSUME NEW f \in Failures, HardFail(f)
          PROVE \A k \in Keys : deferred[k] = "none" => deferred'[k] = "none"
      BY <3>1, HardFailFromLoop
    <3> QED
      BY <1>1, <3>1, EventEffect DEF Answers, Rejects, Fails, Idle, TypeOK
  <2> QED
    BY <2>1, <2>2 DEF OrderInv
<1>2. ASSUME NEW k \in Keys, Start(k) PROVE OrderInv'
  <2>1. todo' = todo \ {k} /\ awaited' = k /\ k \in todo /\ \A j \in todo : Rank[k] <= Rank[j]
    BY <1>2 DEF Start, First
  <2>2. \A j \in Keys \ {k} : Rank[j] # Rank[k] /\ Rank[j] \in Nat /\ Rank[k] \in Nat
    BY DEF Rank, Keys
  <2>3. \A j \in todo' : Rank[k] < Rank[j]
    BY <2>1, <2>2
  <2>4. k = "open" => todo' = Checks \ {"open"}
    <3>1. \A j \in Keys : ~(Rank[j] < Rank["open"])
      BY DEF Rank, Keys
    <3> QED
      BY <2>1, <3>1 DEF OrderInv, TypeOK
  <2>5. \A j \in Keys \ Checks : deferred'[j] = "none"
    BY <1>2, <2>1 DEF Start, OrderInv, TypeOK
  <2> QED
    BY <2>1, <2>3, <2>4, <2>5 DEF OrderInv
<1>3. CASE Settle
  <2>1. \A k \in Keys : deferred[k] = "none" => deferred'[k] = "none"
    BY <1>3, HardFailFromLoop DEF Settle, outcome, Failures
  <2> QED
    BY <1>3, <2>1 DEF Settle, OrderInv, Keys
<1>4. CASE Return \/ UNCHANGED vars
  BY <1>4 DEF Return, vars, loop, outcome, OrderInv
<1> QED
  BY <1>1, <1>2, <1>3, <1>4 DEF Next, Proceed

LEMMA PromiseStep ==
  ASSUME IInv, PromiseInv, [Next]_vars
  PROVE  PromiseInv'
<1> USE DEF IInv
<1>1. ASSUME NEW f \in Failures, HardFail(f), ended = "no" => awaited # None, ended' = ended
      PROVE  PromiseInv'
  BY <1>1, HardFailFromLoop DEF PromiseInv
<1>2. CASE Event
  <2>1. UNCHANGED <<ended, awaited>> /\ Quiet
    BY <1>2, EventEffect DEF loop
  <2>2. ASSUME NEW k \in Keys, NEW o \in Outcomes, Answers(k, o) PROVE PromiseInv'
    BY <2>1, <2>2 DEF Answers, PromiseInv, TypeOK, Outcomes
  <2>3. CASE Rejects
    BY <2>1, <2>3 DEF Rejects, PromiseInv, ResultInv, TypeOK, Keys, Outcomes
  <2>4. CASE Fails
    BY <1>1, <2>1, <2>4 DEF Fails, Quiet
  <2>5. CASE Idle
    BY <2>1, <2>5 DEF Idle, PromiseInv
  <2> QED
    BY <1>2, <2>2, <2>3, <2>4, <2>5, EventEffect
<1>3. ASSUME NEW k \in Keys, Start(k) PROVE PromiseInv'
  BY <1>3 DEF Start, First, PromiseInv, ResultInv, TypeOK, Outcomes
<1>4. CASE Settle
  BY <1>1, <1>4 DEF Settle, PromiseInv, outcome, Failures
<1>5. CASE Return \/ UNCHANGED vars
  BY <1>5 DEF Return, vars, loop, outcome, PromiseInv
<1> QED
  BY <1>2, <1>3, <1>4, <1>5 DEF Next, Proceed

LEMMA OptionStep ==
  ASSUME IInv, PromiseInv, OptionInv, [Next]_vars
  PROVE  OptionInv'
<1> USE InputKept DEF IInv
<1>1. CASE Event
  <2>1. UNCHANGED <<ended, awaited>> /\ Quiet
    BY <1>1, EventEffect DEF loop
  <2>2. ASSUME NEW k \in Keys, NEW o \in Outcomes, Answers(k, o) PROVE OptionInv'
    <3>1. awaited = k /\ ~hard /\ hard' = hard
      BY <2>2 DEF Answers, TypeOK, LoopInv
    <3>2. results["open"] = "error" /\ options.failAll /\ ended = "no" => FALSE
      BY <2>2, <3>1 DEF OptionInv, Answers
    <3>3. results'["open"] = "error" /\ options.failAll /\ ended = "no" => k = "open" /\ o = "error"
      BY <2>2, <3>2 DEF Answers, TypeOK
    <3> QED
      BY <2>1, <2>2, <3>1, <3>3 DEF Answers, OptionInv, TypeOK, Outcomes
  <2>3. CASE Rejects
    <3>1. ~hard /\ hard' = hard
      BY <2>3 DEF Rejects, LoopInv, Keys
    <3>2. results["open"] = "none" /\ results' = results
      BY <2>3 DEF Rejects, ResultInv, Keys
    <3> QED
      BY <2>1, <2>3, <3>1, <3>2 DEF Rejects, OptionInv, TypeOK
  <2>4. CASE Fails
    <3>1. PICK f \in Failures : HardFail(f)
      BY <2>4 DEF Fails
    <3>2. "open" \in Checks
      BY DEF Checks
    <3>3. results'["open"] = f
      BY <3>1, <3>2, HardFailFromLoop DEF Failed, Keys
    <3>4. hard' /\ awaited # None => deferred'[awaited] = "failed"
      <4>1. CASE UNCHANGED <<hard, deferred, current>>
        BY <4>1 DEF OptionInv
      <4>2. CASE deferred' = Released /\ current # None /\ awaited # None
        <5>1. awaited = current /\ deferred[awaited] = "pending"
          BY <2>1, <4>2 DEF LoopInv, Quiet
        <5> QED
          BY <4>2, <5>1 DEF Released, TypeOK
      <4>3. UNCHANGED <<hard, deferred, current>> \/ (deferred' = Released /\ current # None)
        BY <3>1 DEF HardFail
      <4> QED
        BY <4>1, <4>2, <4>3
    <3>5. \A k \in Keys : deferred'[k] = "rejected" => deferred[k] = "rejected"
      BY <3>1 DEF HardFail, Released, TypeOK
    <3> QED
      BY <2>1, <3>3, <3>4, <3>5 DEF OptionInv, Failures
  <2>5. CASE Idle
    BY <2>1, <2>5 DEF Idle, OptionInv
  <2> QED
    BY <1>1, <2>2, <2>3, <2>4, <2>5, EventEffect
<1>2. ASSUME NEW k \in Keys, Start(k) PROVE OptionInv'
  BY <1>2 DEF Start, Free, OptionInv, TypeOK, Keys
<1>3. CASE Settle
  <2>1. awaited' = None /\ ended = "no" /\ (results' = results \/ HardFail("down"))
    BY <1>3 DEF Settle, outcome
  <2>2. \A k \in Keys : deferred'[k] = "rejected" => deferred[k] = "rejected"
    BY <1>3 DEF Settle, HardFail, Released, TypeOK, outcome
  <2>3. results'["open"] = "error" => results["open"] = "error" /\ UNCHANGED outcome
    <3>1. ASSUME HardFail("down") PROVE results'["open"] = "down"
      BY <3>1 DEF HardFail, Failed, Checks, Keys
    <3> QED
      BY <1>3, <3>1 DEF Settle, outcome
  <2>4. ended' = "no" /\ UNCHANGED outcome =>
          ~(options.failAll /\ results["open"] = "error")
    BY <1>3 DEF Settle, OptionInv, HardFail, LoopInv, outcome
  <2> QED
    BY <1>3, <2>2, <2>3, <2>4 DEF Settle, OptionInv
<1>4. CASE Return \/ UNCHANGED vars
  BY <1>4 DEF Return, vars, loop, outcome, OptionInv
<1> QED
  BY <1>1, <1>2, <1>3, <1>4 DEF Next, Proceed

LEMMA VerdictAt == \A k \in Keys : Verdict[k] = VerdictOn(k) /\ Verdict'[k] = VerdictOn(k)'
BY DEF Verdict

\* While the call goes on and has not failed, a verdict is the result of what
\* has one and is missing from the rest, but for what was refused.
LEMMA VerdictNow ==
  ASSUME IInv, PromiseInv, ended = "no", NEW k \in Keys
  PROVE  /\ VerdictOn(k) = IF results[k] = "none" /\ deferred[k] = "refused"
                           THEN "skipped" ELSE results[k]
         /\ answer = None
BY DEF VerdictOn, Told, IInv, AnswerInv

\* What the loop is through with has a verdict.
LEMMA PastIsDecided ==
  ASSUME IInv, ended = "no", NEW k \in Checks \ todo, k # awaited
  PROVE  VerdictOn(k) # "none"
<1>1. answer = None /\ k \in Keys
  BY KeysHaveChecks DEF IInv, AnswerInv
<1>2. deferred[k] \notin {"none", "pending", "rejected"}
  BY <1>1 DEF IInv, DoneInv, TypeOK
<1>3. deferred[k] \in Outcomes \cup {"failed", "refused"}
  BY <1>1, <1>2 DEF IInv, TypeOK
<1> QED
  BY <1>1, <1>3 DEF VerdictOn, Told, IInv, DoneInv

\* It is the turn of what the loop awaits, and of what it comes to next.
LEMMA TurnOf ==
  ASSUME IInv, CallInv, ended = "no", ~hard, NEW k \in Checks, results[k] = "none",
         deferred[k] # "refused",
         \/ awaited = k
         \/ awaited = None /\ k \in todo /\ \A j \in todo : Rank[k] <= Rank[j],
         options.failAll => results["open"] # "error"
  PROVE  Call!Turn(k)
<1>1. Checks \subseteq Keys /\ k \in Keys /\ "open" \in Keys
  BY KeysHaveChecks DEF Keys, IInv
<1>2. Verdict[k] = "none"
  BY <1>1, VerdictAt, VerdictNow DEF CallInv
<1>3. ~Call!Doomed
  BY <1>1, VerdictAt, VerdictNow DEF Call!Doomed, CallInv
<1>4. \A j \in Keys : Rank[j] \in Nat
  BY DEF Rank, Keys
<1>5. ASSUME NEW j \in Checks, Rank[j] < Rank[k] PROVE Verdict[j] # "none"
  <2>1. j \in Keys
    BY <1>1
  <2>2. j \notin todo
    <3>1. CASE awaited = k
      <4>1. k \in Checks \ todo
        BY <1>1, <3>1 DEF IInv, LoopInv
      <4> QED
        BY <1>1, <1>4, <1>5, <2>1, <4>1 DEF CallInv, OrderInv
    <3>2. CASE \A i \in todo : Rank[k] <= Rank[i]
      BY <1>1, <1>4, <1>5, <2>1, <3>2
    <3> QED
      BY <3>1, <3>2
  <2>3. j # awaited
    BY <1>1, <1>4, <1>5, <2>1
  <2> QED
    BY <2>1, <2>2, <2>3, PastIsDecided, VerdictAt
<1> QED
  BY <1>2, <1>3, <1>5 DEF Call!Turn, Call!Decided, Call!Undecided

LEMMA CallStart ==
  ASSUME IInv, CallInv, NEW k \in Keys, Start(k)
  PROVE  Call!Next \/ UNCHANGED Call!vars
<1>1. /\ ended = "no" /\ ~hard /\ awaited = None /\ k \in todo
      /\ \A j \in todo : Rank[k] <= Rank[j]
      /\ UNCHANGED <<input, hard, results, ended, answer>>
  BY DEF Start, Free, First
<1>2. k \in Checks /\ results[k] = "none" /\ deferred[k] = "none"
  BY <1>1 DEF IInv, TypeOK, ResultInv, LoopInv
<1>3. options.failAll => results["open"] # "error"
  BY <1>1 DEF CallInv, OptionInv, Keys
<1>4. Call!Turn(k)
  BY <1>1, <1>2, <1>3, TurnOf
<1>5. answer = None /\ answer' = None /\ ended' = "no"
  BY <1>1 DEF IInv, AnswerInv
<1>6. \A j \in Keys \ {k} : deferred'[j] = deferred[j]
  BY DEF Start, IInv, TypeOK
<1>7. \A j \in Keys \ {k} : VerdictOn(j)' = VerdictOn(j)
  BY <1>1, <1>6 DEF VerdictOn, Told
<1>8. CASE deferred'[k] # "refused"
  <2>1. VerdictOn(k)' = VerdictOn(k)
    BY <1>1, <1>2, <1>8 DEF VerdictOn, Told
  <2>2. Verdict' = Verdict
    BY <1>7, <2>1 DEF Verdict
  <2> QED
    BY <1>1, <2>2 DEF Call!vars, Checks, input
<1>9. CASE deferred'[k] = "refused"
  <2>1. k \in {"read", "write"}
    BY <1>9 DEF Start, IInv, TypeOK
  <2>2. VerdictOn(k)' = "skipped"
    BY <1>1, <1>2, <1>5, <1>9 DEF VerdictOn, Told
  <2>3. Verdict' = [Verdict EXCEPT ![k] = "skipped"]
    BY <1>7, <2>2 DEF Verdict
  <2>4. Call!Skip(k)
    BY <1>1, <1>4, <2>1, <2>3 DEF Call!Skip, Call!Decide, Checks, input
  <2> QED
    BY <2>4 DEF Call!Next
<1> QED
  BY <1>8, <1>9

\* A hard failure of a call that goes on is its only one.
LEMMA CallFails ==
  ASSUME IInv, CallInv, CallInv', NEW f \in Failures, HardFail(f), ended = "no", ~hard,
         UNCHANGED <<Checks, options, ended, answer>>
  PROVE  Call!Fail(f)
<1>1. answer = None /\ answer' = None /\ results' = Failed(f)
  BY DEF HardFail, IInv, AnswerInv
<1>2. ~Call!HasFailed
  <2>1. \A k \in Checks : Verdict[k] \notin Failures
    BY KeysHaveChecks, VerdictAt, VerdictNow DEF IInv, ResultInv, CallInv, Failures
  <2> QED
    BY <2>1 DEF Call!HasFailed, Call!Failures, Failures
<1>3. ASSUME NEW k \in Checks PROVE VerdictOn(k)' = f
  <2>1. results'[k] = f /\ f # "none"
    BY <1>1, KeysHaveChecks DEF IInv, Failed, Failures
  <2> QED
    BY <2>1 DEF VerdictOn, Told
<1>4. ASSUME NEW k \in Keys \ Checks PROVE VerdictOn(k)' = "none"
  <2>1. results'[k] = "none" /\ deferred'[k] = "none"
    BY <1>1 DEF Failed, IInv, ResultInv, CallInv, OrderInv
  <2> QED
    BY <1>1, <2>1 DEF VerdictOn, Told
<1>5. Verdict' = [k \in Keys |-> IF k \in Checks THEN f ELSE "none"]
  BY <1>3, <1>4 DEF Verdict
<1> QED
  BY <1>2, <1>5 DEF Call!Fail, Call!Undecided

LEMMA CallSettle ==
  ASSUME IInv, CallInv, CallInv', Settle
  PROVE  Call!Next \/ UNCHANGED Call!vars
<1>1. /\ ended = "no" /\ awaited # None /\ deferred[awaited] # "pending"
      /\ UNCHANGED <<input, answer>> /\ answer = None
  BY DEF Settle, IInv, AnswerInv
<1>2. CASE deferred[awaited] = "rejected"
  <2>1. awaited = "open" /\ options.rejectFail /\ ended' = "rejected" /\ UNCHANGED outcome
    BY <1>1, <1>2 DEF Settle, CallInv, OptionInv, IInv, TypeOK
  <2>2. ~hard
    BY <1>1, <1>2 DEF CallInv, OptionInv
  <2>3. "open" \in Keys /\ "open" \in Checks /\ results["open"] = "none"
    BY <1>1, <1>2, <2>1, <2>2 DEF CallInv, PromiseInv, Keys, Checks
  <2>4. Call!Turn("open")
    BY <1>1, <1>2, <2>1, <2>2, <2>3, TurnOf
  <2>5. ASSUME NEW k \in Keys PROVE VerdictOn(k) = "none"
    <3>1. k = "open" \/ k \in todo \/ k \in Keys \ Checks
      BY <2>1 DEF CallInv, OrderInv
    <3>2. results[k] = "none" /\ deferred[k] # "refused"
      BY <1>1, <1>2, <2>1, <2>2, <2>3, <3>1 DEF IInv, ResultInv, LoopInv, CallInv, OrderInv
    <3> QED
      BY <1>1, <3>2 DEF VerdictOn, Told
  <2>6. \A k \in Keys : VerdictOn(k)' = "none"
    BY <2>1 DEF VerdictOn
  <2>7. Verdict' = Verdict
    BY <2>5, <2>6 DEF Verdict
  <2> QED
    BY <1>1, <2>1, <2>4, <2>7 DEF Call!Next, Call!Reject, Checks, input
<1>3. CASE deferred[awaited] # "rejected" /\ UNCHANGED outcome
  <2>1. ended' = ended
    BY <1>3 DEF Settle
  <2>2. \A k \in Keys : VerdictOn(k)' = VerdictOn(k)
    BY <1>1, <1>3, <2>1 DEF VerdictOn, Told, outcome
  <2>3. Verdict' = Verdict
    BY <2>2 DEF Verdict
  <2> QED
    BY <1>1, <2>1, <2>3 DEF Call!vars, Checks, input
<1>4. CASE deferred[awaited] = "error" /\ HardFail("down") /\ ended' = ended
  <2>1. ~hard
    BY <1>1, <1>4 DEF CallInv, OptionInv
  <2>2. Call!Fail("down")
    BY <1>1, <1>4, <2>1, CallFails DEF Checks, input, Failures
  <2> QED
    BY <2>2 DEF Call!Next, Call!Failures
<1> QED
  BY <1>2, <1>3, <1>4 DEF Settle

LEMMA CallReturn ==
  ASSUME IInv, CallInv, Return
  PROVE  Call!Return
<1>1. /\ ended = "no" /\ awaited = None /\ (hard \/ todo = {}) /\ ended' = "returned"
      /\ answer' = results /\ UNCHANGED <<input, outcome>>
  BY DEF Return
<1>2. results \in [Keys -> Outcomes \cup Failures \cup {"none"}]
  BY DEF IInv, TypeOK
<1>3. answer = None
  BY <1>1 DEF IInv, AnswerInv
<1>4. ~Call!Doomed
  <2>1. results["open"] = "error" => ~options.failAll
    BY <1>1 DEF CallInv, OptionInv, Keys
  <2>2. Verdict["open"] = "error" => results["open"] = "error"
    BY <1>1, <1>3, VerdictAt DEF VerdictOn, Told, Keys
  <2> QED
    BY <2>1, <2>2 DEF Call!Doomed
<1>5. ASSUME NEW k \in Checks PROVE Verdict[k] # "none"
  <2>1. CASE hard
    BY <1>1, <1>3, <2>1, VerdictAt, KeysHaveChecks DEF IInv, ResultInv, VerdictOn, Told, Failures
  <2>2. CASE todo = {}
    <3>1. k # awaited
      BY <1>1, KeysHaveChecks DEF IInv
    <3> QED
      BY <1>1, <2>2, <3>1, PastIsDecided, VerdictAt, KeysHaveChecks DEF IInv
  <2> QED
    BY <1>1, <2>1, <2>2
<1>6. ASSUME NEW k \in Keys
      PROVE  /\ VerdictOn(k)' = VerdictOn(k)
             /\ answer'[k] = IF VerdictOn(k) = "skipped" THEN "none" ELSE VerdictOn(k)
  <2>1. Told(k) = results[k] /\ Told(k)' = results[k]
    BY <1>1, <1>2, <1>3 DEF Told
  <2>2. results[k] # "skipped"
    BY <1>2 DEF Outcomes, Failures
  <2> QED
    BY <1>1, <2>1, <2>2 DEF VerdictOn, outcome
<1>7. Verdict' = Verdict
  BY <1>6 DEF Verdict
<1>8. answer' = [k \in Keys |-> IF Verdict[k] = "skipped" THEN "none" ELSE Verdict[k]]
  BY <1>1, <1>2, <1>6, VerdictAt
<1> QED
  BY <1>1, <1>4, <1>5, <1>7, <1>8 DEF Call!Return, Call!Decided, Call!Undecided, Checks, input

\* An event that comes after the end tells the caller nothing.
LEMMA CallLate ==
  ASSUME IInv, CallInv, Event, ended # "no"
  PROVE  UNCHANGED Call!vars
<1>1. UNCHANGED <<input, ended, answer>>
  BY EventEffect DEF loop, IInv
<1>2. \A k \in Keys : deferred'[k] = deferred[k]
  <2>1. \A k \in Keys : deferred[k] # "pending"
    BY DEF IInv, LoopInv, TypeOK
  <2>2. ASSUME NEW f \in Failures, HardFail(f) PROVE \A k \in Keys : deferred'[k] = deferred[k]
    BY <2>1, <2>2, HardFailFromLoop DEF IInv
  <2> QED
    BY <2>1, <2>2, EventEffect DEF Answers, Rejects, Fails, Idle, IInv, Keys
<1>3. \A k \in Keys : VerdictOn(k)' = VerdictOn(k)
  BY <1>1, <1>2 DEF VerdictOn, Told, IInv, TypeOK
<1>4. Verdict' = Verdict
  BY <1>3 DEF Verdict
<1> QED
  BY <1>1, <1>4 DEF Call!vars, Checks, input

LEMMA CallEvent ==
  ASSUME IInv, CallInv, CallInv', Event, ended = "no"
  PROVE  Call!Next \/ UNCHANGED Call!vars
<1>1. /\ UNCHANGED <<input, ended, answer, awaited, todo, Checks, options>>
      /\ Quiet /\ answer = None
  BY EventEffect DEF loop, IInv, AnswerInv, input, Checks
<1>2. awaited \in Keys /\ deferred[awaited] = "pending" /\ ~hard
      /\ awaited \in Checks /\ results[awaited] = "none"
  BY <1>1 DEF Quiet, IInv, TypeOK, LoopInv, ResultInv
<1>3. options.failAll => results["open"] # "error"
  BY <1>1, <1>2 DEF CallInv, OptionInv
<1>4. Call!Turn(awaited)
  BY <1>1, <1>2, <1>3, TurnOf
<1>5. ASSUME NEW k \in Keys, NEW o \in Outcomes, Answers(k, o),
             k = "geo" /\ o = "ok" => options.numeric \/ results["dns"] = "ok"
      PROVE  Call!Next
  <2>1. k = awaited
    BY <1>5 DEF Answers, IInv, TypeOK
  <2>2. \A j \in Keys \ {k} : VerdictOn(j)' = VerdictOn(j)
    BY <1>1, <1>5 DEF Answers, IInv, TypeOK, VerdictOn, Told
  <2>3. VerdictOn(k)' = o
    BY <1>1, <1>5 DEF Answers, IInv, TypeOK, VerdictOn, Told, Outcomes
  <2>4. Verdict' = [Verdict EXCEPT ![k] = o]
    BY <2>2, <2>3 DEF Verdict
  <2>5. Call!Decide(k, o)
    BY <1>1, <1>4, <2>1, <2>4 DEF Call!Decide
  <2>6. results["dns"] = "ok" => Verdict["dns"] = "ok"
    BY <1>1, VerdictAt DEF VerdictOn, Told, Keys
  <2>7. Call!Answer(k, o)
    BY <1>5, <2>5, <2>6 DEF Call!Answer
  <2> QED
    BY <2>7 DEF Call!Next, Outcomes
<1>6. CASE Rejects \/ Idle
  <2>1. ASSUME NEW k \in Keys PROVE VerdictOn(k)' = VerdictOn(k)
    <3>1. results' = results /\ (deferred'[k] = "refused" <=> deferred[k] = "refused")
      BY <1>6 DEF Rejects, Idle, IInv, TypeOK
    <3> QED
      BY <1>1, <3>1 DEF VerdictOn, Told
  <2>2. Verdict' = Verdict
    BY <2>1 DEF Verdict
  <2> QED
    BY <1>1, <2>2 DEF Call!vars
<1>7. CASE Fails
  <2>1. PICK f \in Failures : HardFail(f)
    BY <1>7 DEF Fails
  <2>2. Call!Fail(f)
    BY <1>1, <1>2, <2>1, CallFails
  <2> QED
    BY <2>2 DEF Call!Next, Call!Failures, Failures
<1> QED
  BY <1>5, <1>6, <1>7, EventEffect DEF IInv

LEMMA CallStep ==
  ASSUME IInv, CallInv, IInv', CallInv', [Next]_vars
  PROVE  Call!Next \/ UNCHANGED Call!vars
<1>1. CASE Event
  BY <1>1, CallEvent, CallLate
<1>2. ASSUME NEW k \in Keys, Start(k) PROVE Call!Next \/ UNCHANGED Call!vars
  BY <1>2, CallStart
<1>3. CASE Settle
  BY <1>3, CallSettle
<1>4. CASE Return
  BY <1>4, CallReturn DEF Call!Next
<1>5. CASE UNCHANGED vars
  <2>1. \A k \in Keys : VerdictOn(k)' = VerdictOn(k)
    BY <1>5 DEF VerdictOn, Told, vars, loop, outcome
  <2>2. Verdict' = Verdict
    BY <2>1 DEF Verdict
  <2> QED
    BY <1>5, <2>2 DEF Call!vars, Checks, vars, input, loop
<1> QED
  BY <1>1, <1>2, <1>3, <1>4, <1>5 DEF Next, Proceed

LEMMA CallBegins == Init => Call!Init
<1> SUFFICES ASSUME Init PROVE Call!Init
  OBVIOUS
<1>1. \A k \in Keys : VerdictOn(k) = "none"
  BY DEF Init, VerdictOn, Told
<1>2. Verdict = [k \in Keys |-> "none"]
  BY <1>1 DEF Verdict
<1>3. Checks \subseteq Keys
  BY InitTypes, KeysHaveChecks
<1> QED
  BY <1>2, <1>3 DEF Init, Options, Call!Init, Call!Undecided

\* check() of Base.ts as its callers know it: what they wanted is decided in
\* order and once each, or fails together, and that is what they are told.
THEOREM PromiseKept == Spec => KeepsPromise
<1>1. IInv /\ CallInv /\ [Next]_vars => CallInv'
  BY OrderStep, PromiseStep, OptionStep DEF CallInv
<1>2. IInv /\ CallInv /\ IInv' /\ CallInv' /\ [Next]_vars => [Call!Next]_(Call!vars)
  BY CallStep
<1> QED
  BY <1>1, <1>2, CallInit, CallBegins, InvHolds, PTL DEF Spec, KeepsPromise, Call!Spec

-----------------------------------------------------------------------------
(* What keeps a call going                                                  *)

\* A promise that is pending has a timer that has not gone off, unless there is
\* no adapter to put its result together.
Timed == \A k \in Keys : deferred[k] = "pending" /\ k \in Installed => timer[k] = "set"

\* What answers or fails a check takes its timer, and only that one.
LEMMA FinishTimed ==
  ASSUME TypeOK, Timed, NEW j \in Keys, NEW o \in Outcomes, Finish(j, o),
         timer' = Cleared(j) \/ timer' = [timer EXCEPT ![j] = "off"]
  PROVE  Timed'
<1> SUFFICES ASSUME NEW k \in Keys, deferred'[k] = "pending", k \in Installed
             PROVE  timer'[k] = "set"
  BY DEF Timed
<1>1. deferred[k] = "pending" /\ (k = j => ~Counts(j))
  BY DEF Finish, TypeOK, Outcomes
<1>2. k # j
  BY <1>1 DEF Counts, IgnoreResult
<1> QED
  BY <1>1, <1>2 DEF Cleared, Timed, TypeOK

LEMMA TimedStep ==
  ASSUME TypeOK, Timed, [Next]_vars
  PROVE  Timed'
<1>1. ASSUME NEW f \in Failures, HardFail(f) PROVE Timed'
  <2>1. timer' = timer /\ (deferred' = deferred \/ deferred' = Released)
    BY <1>1 DEF HardFail
  <2> QED
    BY <2>1, FailedTypes DEF Timed
<1>2. ASSUME UNCHANGED <<deferred, timer>> PROVE Timed'
  BY <1>2 DEF Timed
<1>3. CASE Event
  <2>1. ASSUME NEW k \in Keys, Timeout(k) PROVE Timed'
    <3>1. CASE k = "open" /\ options.rejectFail
      BY <2>1, <3>1 DEF Timeout, Timed, TypeOK
    <3>2. CASE ~(k = "open" /\ options.rejectFail)
      BY <2>1, <3>2, FinishTimed DEF Timeout, Outcomes
    <3> QED
      BY <3>1, <3>2
  <2>2. ASSUME NEW k \in Keys, Answered(k) \/ \E o \in Outcomes : AdapterDone(k, o) PROVE Timed'
    BY <2>2, FinishTimed DEF Answered, AdapterDone, Outcomes
  <2>3. CASE WsOpen \/ Notice
    BY <2>3, FinishTimed DEF WsOpen, Notice, Outcomes, Keys
  <2>4. CASE WsError \/ WsClose \/ Garbage
    BY <1>1, <1>2, <2>4 DEF WsError, WsClose, Garbage, outcome, Failures
  <2> QED
    BY <1>3, <2>1, <2>2, <2>3, <2>4 DEF Event
<1>4. ASSUME NEW k \in Keys, Start(k) PROVE Timed'
  BY <1>4 DEF Start, NewTimer, Timed, TypeOK
<1>5. CASE Settle
  BY <1>1, <1>2, <1>5 DEF Settle, outcome, Failures
<1>6. CASE Return \/ UNCHANGED vars
  BY <1>2, <1>6 DEF Return, vars, outcome
<1> QED
  BY <1>3, <1>4, <1>5, <1>6 DEF Next, Proceed

\* Between two steps of its own the loop of check() waits for a timer that has
\* yet to go off, whatever else may come first.
WaitsOnTimer == Quiet /\ ended = "no" /\ Checks \subseteq Installed => timer[awaited] = "set"

\* The safety half of CheckReturns: addDeferred (Base.ts:1089-1096) sets a timer
\* with every promise, and only what settles the promise takes it away, so
\* that the silence of an adapter, the relay or the socket keeps no call for ever.
THEOREM WaitsAreTimed == Spec => []WaitsOnTimer
<1>1. Init => Timed
  BY DEF Init, Timed
<1>2. IInv /\ Timed /\ [Next]_vars => Timed'
  BY TimedStep DEF IInv
<1>3. IInv /\ Timed => WaitsOnTimer
  <2> SUFFICES ASSUME IInv, Timed, Quiet, ended = "no", Checks \subseteq Installed
               PROVE  timer[awaited] = "set"
    BY DEF WaitsOnTimer
  <2>1. awaited \in Checks /\ awaited \in Keys /\ deferred[awaited] = "pending"
    BY KeysHaveChecks DEF Quiet, IInv, LoopInv
  <2> QED
    BY <2>1 DEF Timed
<1> QED
  BY <1>1, <1>2, <1>3, InvHolds, PTL DEF Spec
=============================================================================
