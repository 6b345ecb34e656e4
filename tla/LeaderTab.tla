------------------------------ MODULE LeaderTab ------------------------------
(* The dashboard runs its relay connections in one browser tab, the leader;   *)
(* the others follow it over a BroadcastChannel. This module has one follower *)
(* and its keep-alive subscriptions: the RPC client (leader-tab-client.ts),   *)
(* the websocket adapter on top of it with its retries and its resubscription *)
(* after a change of leader (tab-client-adapters.ts), and what the leader's   *)
(* server keeps for this follower (leader-tab-server.ts). Followers only meet *)
(* in that server, where each adds and removes its own id, so one is enough.  *)
(* Leaders come and go by terms, at most one at a time (the Web Locks path of *)
(* ActivityManager.ts).                                                       *)
EXTENDS Integers, FiniteSets, Sequences, SequencesExt

CONSTANTS
  Hashes,     \* the subscriptions of the follower's pages
  Droppable,  \* those that a page may give up again
  PageCalls,  \* names for concurrent subscribe() calls on one hash
  MaxTries,   \* attempts of leaderCallStream: four in the code
  MaxTerm,    \* bound on the number of leaders
  MaxLate,    \* bound on timeouts that fire with the answer under way
  None

\* A stopped monitor's last call may be out beside the new monitor's first.
Monitors == {"monitor", "monitor again"}

ASSUME LeaderTabAssumption ==
  /\ IsFiniteSet(Hashes) /\ Droppable \subseteq Hashes /\ Hashes \cap Monitors = {}
  /\ "resub" \notin PageCalls
  /\ MaxTries \in Nat \ {0} /\ MaxTerm \in Nat /\ MaxLate \in Nat

VARIABLES
  term,      \* the number of leaders so far
  leader,    \* the term of the leader, 0 when there is none
  inbox,     \* requests that the leader's server holds until Route66 is ready
  attached,  \* the hashes whose clients in the server include this follower
  wire,      \* answers on their way to the follower, in posting order
  tab,       \* the follower, see TypeOK
  asks,      \* the monitor's sys.hello calls without an answer
  busy,      \* monitorInFlight
  late       \* timeouts so far that fired with the answer under way

vars == <<term, leader, inbox, attached, wire, tab, asks, busy, late>>

\* Every caller of leaderCallStream on a hash: pages and resubscribeKeepAlive.
Callers == PageCalls \cup {"resub"}
NotCalling == [st |-> "idle", tries |-> 0]
NoResub == [on |-> FALSE, at |-> None, done |-> {}]

-----------------------------------------------------------------------------
(* The follower. Operators from one state of the tab to the next, or, where   *)
(* the order of keepAliveSubs decides, to the set of the next ones.           *)

\* callStream: joins a pending call of the hash, or replaces its handlers and
\* posts a request (see Posts).
Calling(t, h, k) ==
  [t EXCEPT !.call[h][k].st = "waiting",
            !.sinks[h] = IF h \in t.pend THEN @ \cup {k} ELSE {k},
            !.pend = @ \cup {h}]

Request(op, h) == [op |-> op, hash |-> h]

\* The requests that a step from t to n posts.
Posts(t, n) ==
  SetToSeq({Request("subscribe", h) : h \in n.pend \ t.pend})

\* resubscribeKeepAlive goes on to the next kept hash, or ends.
NextResub(t) ==
  LET left == t.kept \ t.resub.done
  IN IF left = {} THEN {[t EXCEPT !.resub = NoResub]}
     ELSE {Calling([t EXCEPT !.resub = [on |-> TRUE, at |-> h, done |-> @.done \cup {h}]],
                   h, "resub") : h \in left}

\* updateLeaderInfo with its listener: a new leader starts a resubscription
\* unless one is in flight, which it does not restart.
Learn(t, info) ==
  LET n == [t EXCEPT !.info = info]
  IN IF info \in {0, t.info} \/ t.kept = {} THEN {n}
     ELSE IF t.resub.on THEN {[n EXCEPT !.faults = @ \cup (t.resub.done \ {t.resub.at})]}
     ELSE NextResub(n)

\* The callers that wait for the pending call of h.
Waiting(t, h) == {k \in Callers : t.call[h][k].st = "waiting"}

\* Mutant: the timeout leaves the call in pending.
RejectedMutant(t, h) ==
  [t EXCEPT !.sinks[h] = {},
            !.call[h] = [k \in Callers |->
                           IF k \in Waiting(t, h)
                           THEN [st |-> "lost", tries |-> @[k].tries + 1] ELSE @[k]]]

\* Their promise is rejected: each looks for a leader before its next attempt.
Rejected(t, h) ==
  [t EXCEPT !.pend = @ \ {h},
            !.sinks[h] = {},
            !.call[h] = [k \in Callers |->
                           IF k \in Waiting(t, h)
                           THEN [st |-> "lost", tries |-> @[k].tries + 1] ELSE @[k]]]

\* Mutant: a stream that is locked is not locked again.
ResolvedMutant(t, h, i) ==
  LET n == [t EXCEPT !.pend = @ \ {h},
                     !.source[h] = IF t.sinks[h] = {} \/ @ # 0 THEN @ ELSE i,
                     !.call[h] = [k \in Callers |->
                                    IF k \in Waiting(t, h) THEN NotCalling ELSE @[k]]]
  IN IF "resub" \in Waiting(t, h) THEN NextResub(n) ELSE {n}

\* Their promise is resolved by the leader of term i: the stream, if the page
\* has not closed it, is locked to that leader.
Resolved(t, h, i) ==
  LET n == [t EXCEPT !.pend = @ \ {h},
                     !.source[h] = IF t.sinks[h] = {} THEN @ ELSE i,
                     !.call[h] = [k \in Callers |->
                                    IF k \in Waiting(t, h) THEN NotCalling ELSE @[k]]]
  IN IF "resub" \in Waiting(t, h) THEN NextResub(n) ELSE {n}

\* A call of the page or of the adapter has not ended.
Calls(t, h) == {k \in Callers : t.call[h][k].st # "idle"}

-----------------------------------------------------------------------------
Init ==
  /\ term = 0 /\ leader = 0
  /\ inbox = <<>> /\ attached = {} /\ wire = <<>>
  /\ tab = [kept |-> {}, pend |-> {}, sinks |-> [h \in Hashes |-> {}],
            source |-> [h \in Hashes |-> 0], info |-> 0, resub |-> NoResub,
            call |-> [h \in Hashes |-> [k \in Callers |-> NotCalling]], faults |-> {}]
  /\ asks = {} /\ busy = FALSE /\ late = 0

\* A request reaches the server of the leader that there is, or nobody.
Post(requests) == inbox' = IF leader = 0 THEN inbox ELSE inbox \o requests

\* sys.hello is answered at once, by the leader that there is.
Ask(o) ==
  /\ asks' = asks \cup {o}
  /\ wire' = IF leader = 0 THEN wire
             ELSE Append(wire, [kind |-> "hello", to |-> o, term |-> leader])

-----------------------------------------------------------------------------
(* Leaders *)

\* A tab gets the lock and starts its server.
Elect ==
  /\ leader = 0 /\ term < MaxTerm
  /\ term' = term + 1 /\ leader' = term + 1
  /\ UNCHANGED <<inbox, attached, wire, tab, asks, busy, late>>

\* The leader's tab is closed, with all that its server kept.
Close ==
  /\ leader # 0 /\ term < MaxTerm
  /\ leader' = 0 /\ inbox' = <<>> /\ attached' = {}
  /\ UNCHANGED <<term, wire, tab, asks, busy, late>>

Serve ==
  /\ inbox # <<>>
  /\ inbox' = Tail(inbox)
  /\ LET req == Head(inbox)
     IN \/ /\ req.op = "subscribe"
           /\ attached' = attached \cup {req.hash}
           /\ wire' = Append(wire, [kind |-> "ok", to |-> req.hash, term |-> leader])
        \/ /\ req.op = "unsubscribe"
           /\ attached' = attached \ {req.hash}
           /\ wire' = wire
  /\ UNCHANGED <<term, leader, tab, asks, busy, late>>

\* Route66 does not get ready: the request is answered by an error.
Refuse ==
  /\ inbox # <<>>
  /\ inbox' = Tail(inbox)
  /\ LET req == Head(inbox)
     IN \/ /\ req.op = "subscribe"
           /\ wire' = Append(wire, [kind |-> "error", to |-> req.hash, term |-> leader])
           /\ tab' = tab
        \/ /\ req.op = "unsubscribe"
           /\ tab' = [tab EXCEPT !.faults = @ \cup {req.hash}]
           /\ wire' = wire
  /\ UNCHANGED <<term, leader, attached, asks, busy, late>>

-----------------------------------------------------------------------------
(* The follower's pages *)

\* The adapter's subscribe: the first kept hash starts the leader monitor,
\* whose first tick asks before the subscription's request is posted.
Subscribe(h, k) ==
  /\ tab.call[h][k].st = "idle"
  /\ LET n == Calling([tab EXCEPT !.kept = @ \cup {h}], h, k)
     IN tab' = n /\ Post(Posts(tab, n))
  /\ IF tab.kept = {} /\ ~busy
     THEN \E o \in Monitors \ asks : Ask(o) /\ busy' = TRUE
     ELSE UNCHANGED <<asks, wire, busy>>
  /\ UNCHANGED <<term, leader, attached, late>>

\* Mutant: the stream is not closed.
UnsubscribeMutant(h) ==
  /\ h \in tab.kept
  /\ tab' = [tab EXCEPT !.kept = @ \ {h}, !.resub.done = @ \ {h},
                        !.faults = IF Calls(tab, h) = {} THEN @ ELSE @ \cup {h}]
  /\ busy' = (busy /\ tab.kept # {h})
  /\ Post(<<Request("unsubscribe", h)>>)
  /\ UNCHANGED <<term, leader, attached, wire, asks, late>>

\* The adapter's unsubscribe, after which the last kept hash stops the monitor.
Unsubscribe(h) ==
  /\ h \in tab.kept
  /\ tab' = [tab EXCEPT !.kept = @ \ {h}, !.sinks[h] = {}, !.source[h] = 0,
                        !.resub.done = @ \ {h},
                        !.faults = IF Calls(tab, h) = {} THEN @ ELSE @ \cup {h}]
  /\ busy' = (busy /\ tab.kept # {h})
  /\ Post(<<Request("unsubscribe", h)>>)
  /\ UNCHANGED <<term, leader, attached, wire, asks, late>>

-----------------------------------------------------------------------------
(* The follower's client and adapter *)

Tick ==
  /\ tab.kept # {} /\ ~busy
  /\ \E o \in Monitors \ asks : Ask(o)
  /\ busy' = TRUE
  /\ UNCHANGED <<term, leader, inbox, attached, tab, late>>

\* A caller whose attempt failed asks for a leader (waitForLeader, whose answer
\* is read in the same step, after those on the wire), and sleeps whether there
\* is one or not.
Look(h, k) ==
  /\ tab.call[h][k].st = "lost"
  /\ \E n \in {tab} \cup (IF leader = 0 \/ wire # <<>> THEN {} ELSE Learn(tab, leader)) :
       /\ tab' = [n EXCEPT !.call[h][k].st = "sleep"]
       /\ Post(Posts(tab, n))
  /\ UNCHANGED <<term, leader, attached, wire, asks, busy, late>>

\* Mutant: one attempt too many.
RetryMutant(h, k) ==
  /\ tab.call[h][k].st = "sleep" /\ tab.call[h][k].tries <= MaxTries
  /\ LET n == Calling(tab, h, k) IN tab' = n /\ Post(Posts(tab, n))
  /\ UNCHANGED <<term, leader, attached, wire, asks, busy, late>>

Retry(h, k) ==
  /\ tab.call[h][k].st = "sleep" /\ tab.call[h][k].tries < MaxTries
  /\ LET n == Calling(tab, h, k) IN tab' = n /\ Post(Posts(tab, n))
  /\ UNCHANGED <<term, leader, attached, wire, asks, busy, late>>

\* The last attempt has failed: a page's call is rejected, a resubscription
\* goes on to its next hash.
GiveUp(h, k) ==
  /\ tab.call[h][k].st = "sleep" /\ tab.call[h][k].tries = MaxTries
  /\ LET n == [tab EXCEPT !.call[h][k] = NotCalling, !.faults = @ \cup {h}]
     IN \E m \in (IF k = "resub" THEN NextResub(n) ELSE {n}) :
          tab' = m /\ Post(Posts(tab, m))
  /\ UNCHANGED <<term, leader, attached, wire, asks, busy, late>>

\* Mutant: a failed sys.hello leaves monitorInFlight set.
AnsweredMutant(o, info) ==
  /\ asks' = asks \ {o}
  /\ busy' = (busy /\ info = 0)
  /\ \E n \in Learn(tab, info) : tab' = n /\ Post(Posts(tab, n))

\* The end of a monitor's sys.hello with the answer info, or 0 for none.
Answered(o, info) ==
  /\ asks' = asks \ {o}
  /\ busy' = FALSE
  /\ \E n \in Learn(tab, info) : tab' = n /\ Post(Posts(tab, n))

HelloAnswer ==
  /\ wire # <<>> /\ Head(wire).kind = "hello"
  /\ wire' = Tail(wire)
  /\ IF Head(wire).to \in asks
     THEN Answered(Head(wire).to, Head(wire).term)
     ELSE UNCHANGED <<asks, tab, inbox, busy>>
  /\ UNCHANGED <<term, leader, attached, late>>

CallAnswer ==
  /\ wire # <<>> /\ Head(wire).kind \in {"ok", "error"}
  /\ wire' = Tail(wire)
  /\ LET h == Head(wire).to
     IN \E n \in (IF h \notin tab.pend THEN {tab}
                  ELSE IF Head(wire).kind = "ok" THEN Resolved(tab, h, Head(wire).term)
                  ELSE {[Rejected(tab, h) EXCEPT !.source[h] = 0]}) :
          tab' = n /\ Post(Posts([tab EXCEPT !.pend = @ \ {h}], n))
  /\ UNCHANGED <<term, leader, attached, asks, busy, late>>

\* A timer fires with nothing under way, or, MaxLate times, too early.
Expires(underWay) ==
  IF underWay THEN late < MaxLate /\ late' = late + 1 ELSE late' = late

HelloTimeout(o) ==
  /\ o \in asks
  /\ Expires(\E i \in 1..Len(wire) : wire[i].kind = "hello" /\ wire[i].to = o)
  /\ Answered(o, 0)
  /\ UNCHANGED <<term, leader, attached, wire>>

\* An answer later than its timeout would settle the next call of its hash.
CallTimeout(h) ==
  /\ h \in tab.pend
  /\ LET underWay == \/ \E i \in 1..Len(wire) : wire[i].to = h
                     \/ \E i \in 1..Len(inbox) : inbox[i] = Request("subscribe", h)
     IN /\ Expires(underWay)
        /\ tab' = [Rejected(tab, h) EXCEPT !.faults = IF underWay THEN @ \cup {h} ELSE @]
  /\ UNCHANGED <<term, leader, inbox, attached, wire, asks, busy>>

-----------------------------------------------------------------------------
Next ==
  \/ Elect \/ Close \/ Serve \/ Refuse
  \/ Tick \/ HelloAnswer \/ CallAnswer
  \/ \E h \in Droppable : Unsubscribe(h)
  \/ \E h \in Hashes : CallTimeout(h)
  \/ \E h \in Hashes, k \in PageCalls : Subscribe(h, k)
  \/ \E h \in Hashes, k \in Callers : Look(h, k) \/ Retry(h, k) \/ GiveUp(h, k)
  \/ \E o \in Monitors : HelloTimeout(o)

Spec == Init /\ [][Next]_vars

\* Locks are granted, messages handled, timers fire and intervals tick; pages
\* and closing tabs are left free.
Fairness ==
  /\ WF_vars(Elect) /\ WF_vars(Serve)
  /\ WF_vars(Tick) /\ WF_vars(HelloAnswer) /\ WF_vars(CallAnswer)
  /\ \A h \in Hashes : WF_vars(CallTimeout(h))
  /\ \A h \in Hashes, k \in Callers :
       WF_vars(Look(h, k)) /\ WF_vars(Retry(h, k)) /\ WF_vars(GiveUp(h, k))
  /\ \A o \in Monitors : WF_vars(HelloTimeout(o))

FairSpec == Spec /\ Fairness

-----------------------------------------------------------------------------
(* Properties *)

CallState == [st : {"idle", "waiting", "lost", "sleep"}, tries : 0..MaxTries]

\* faults has the hashes of which the follower's state may be wrong for a
\* reason the code accepts: an unsubscribe with a call of the hash under way,
\* a call given up, a change of leader heard during a resubscription that had
\* passed the hash, an unsubscribe that the leader refused, an answer that
\* came after its timeout.
TypeOK ==
  /\ term \in 0..MaxTerm /\ leader \in {0, term}
  /\ attached \subseteq Hashes
  /\ \A i \in 1..Len(inbox) : inbox[i] \in [op : {"subscribe", "unsubscribe"}, hash : Hashes]
  /\ \A i \in 1..Len(wire) :
       \/ wire[i] \in [kind : {"hello"}, to : Monitors, term : 1..MaxTerm]
       \/ wire[i] \in [kind : {"ok", "error"}, to : Hashes, term : 1..MaxTerm]
  /\ tab \in [kept : SUBSET Hashes, pend : SUBSET Hashes,
              sinks : [Hashes -> SUBSET Callers], source : [Hashes -> 0..MaxTerm],
              info : 0..MaxTerm, faults : SUBSET Hashes,
              resub : [on : BOOLEAN, at : Hashes \cup {None}, done : SUBSET Hashes],
              call : [Hashes -> [Callers -> CallState]]]
  /\ asks \subseteq Monitors /\ busy \in BOOLEAN /\ late \in 0..MaxLate

\* Nothing about h is under way between the follower and its leader.
Settled(h) ==
  /\ leader # 0 /\ tab.info = leader
  /\ Calls(tab, h) = {} /\ ~tab.resub.on
  /\ \A i \in 1..Len(inbox) : inbox[i].hash # h

\* Events of h reach the page: the leader streams them to this follower, which
\* has a handler and takes that leader's messages.
Served(h) == h \in attached /\ tab.sinks[h] # {} /\ tab.source[h] = leader

\* Once nothing is under way, a kept subscription is served by the leader that
\* there is, whatever leaders came and went and whichever calls failed.
KeptIsServed == \A h \in tab.kept \ tab.faults : Settled(h) => Served(h)

\* ... and one that the page gave up costs the leader nothing.
DroppedIsDetached ==
  \A h \in Hashes \ (tab.kept \cup tab.faults) :
    Settled(h) => h \notin attached /\ tab.sinks[h] = {}

\* No caller is left behind: it waits for a call that is pending, and the
\* resubscription, while it is in flight, is in a call.
CallersHeard ==
  /\ \A h \in Hashes : h \in tab.pend <=> Waiting(tab, h) # {}
  /\ \A h \in Hashes : (tab.resub.on /\ tab.resub.at = h) <=> "resub" \in Calls(tab, h)

\* A call of h fails, and its callers are told.
CallFails(h) ==
  \E k \in Callers : tab.call[h][k].st = "waiting" /\ tab'.call[h][k].st = "lost"

\* What is served stays so, whoever subscribes again or is late, until the
\* leader closes, the page gives it up, or a new call of the same hash fails.
ServiceLasts ==
  [][\A h \in Hashes \ tab'.faults :
       Served(h) /\ ~Served(h)' =>
         leader' # leader \/ h \in tab.kept \ tab'.kept \/ CallFails(h)]_vars

\* A subscription that the page keeps is served in the end.
KeptGetsServed ==
  \A h \in Hashes :
    h \in tab.kept ~> (leader # 0 /\ Served(h)) \/ h \notin tab.kept \/ h \in tab.faults
=============================================================================
