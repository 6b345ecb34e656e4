--------------------------- MODULE StatePublisher ---------------------------
(***************************************************************************)
(* The event publisher of rstate.  Every 30 seconds a timer recomputes the *)
(* states of all relays and calls onAggregationComplete without waiting    *)
(* for the call before: a cycle that publishes for longer than that runs   *)
(* beside the next ones, over the same maps of previous states, statuses   *)
(* and accumulated deltas.  One JavaScript thread runs all cycles: a cycle *)
(* goes on until it awaits a publish.                                      *)
(***************************************************************************)
EXTENDS Integers, FiniteSets, Functions

CONSTANTS
  Relays,     \* relay URLs
  States,     \* aggregated states: [version, nips, score, online]
  None,       \* no state, no value, no relay
  Threshold,  \* materialChangeThreshold, in points
  Period,     \* ticks between two schedule boundaries
  Slots,      \* bound of the model: cycles in flight at the same time
  MaxTicks    \* bound of the model: ticks of the aggregation timer

Nips == UNION {s.nips : s \in States}
Versions == {s.version : s \in States} \cup {None}
Statuses == {"up", "down"}

\* RelayDelta: at most one new version, and sets of NIPs gained and lost.
Deltas == [version : Versions, set : BOOLEAN, plus : SUBSET Nips, minus : SUBSET Nips]
\* What a follower of deltas knows of a relay.
Views == [version : Versions, nips : SUBSET Nips]

ASSUME StatePublisherAssumption ==
  /\ None \notin Relays /\ None \notin Slots /\ None \notin Statuses
  /\ None \notin States /\ None \notin Deltas /\ None \notin Views
  /\ Period \in Nat \ {0} /\ MaxTicks \in Nat /\ Threshold \in Nat \ {0}
  /\ \A s \in States : s.score \in Nat /\ s.online \in BOOLEAN

VARIABLES
  core,      \* the state cache of the core: a relay's state, or None
  tick,      \* the clock, in ticks of the timer
  previous,  \* previousStates
  status,    \* operationalStatuses
  acc,       \* accumulatedDeltas, a map whose entries may be empty deltas
  asserted,  \* previousKind30385Assertions: the score last published
  last,      \* lastKind1066Publish, lastKind1166Publish and the like
  cycle,     \* the calls of onAggregationComplete in flight
  busy,      \* the cycle the thread is running, None while all await
  view,      \* history: a relay as those who apply its deltas know it
  told,      \* history: its status as the kind 20066 events say
  off        \* history: relays with an event lost or a race, by kind

maps == <<previous, status, acc, asserted, last>>
ghosts == <<view, told, off>>
vars == <<core, tick, maps, cycle, busy, ghosts>>

Boundary(t) == t \div Period
Crossed(now, then) == Boundary(now) > Boundary(then)
Status(state) == IF state.online THEN "up" ELSE "down"
Present(map) == {r \in Relays : map[r] # None}

-----------------------------------------------------------------------------
(* Deltas                                                                   *)

NoDelta == [version |-> None, set |-> FALSE, plus |-> {}, minus |-> {}]

\* detectDeltas
Detect(p, c) ==
  [version |-> IF p.version # c.version THEN c.version ELSE None,
   set |-> p.version # c.version,
   plus |-> c.nips \ p.nips, minus |-> p.nips \ c.nips]

\* Mutant: paired deltas do not cancel, the last one wins.
MergeMutant(e, d) ==
  [version |-> IF d.set THEN d.version ELSE e.version, set |-> e.set \/ d.set,
   plus |-> e.plus \cup d.plus, minus |-> e.minus \cup d.minus]

\* mergeDeltas: the latest per tag, and opposite tags cancel.
Merge(e, d) ==
  LET plus == e.plus \cup d.plus
      minus == e.minus \cup d.minus
  IN [version |-> IF d.set THEN d.version ELSE e.version,
      set |-> e.set \/ d.set, plus |-> plus \ minus, minus |-> minus \ plus]

\* What a kind 1066 event says of a delta: a value that is gone has no tag.
Wire(d) == [d EXCEPT !.set = @ /\ d.version # None]

Apply(d, s) == [version |-> IF d.set THEN d.version ELSE s.version,
                nips |-> (s.nips \cup d.plus) \ d.minus]

-----------------------------------------------------------------------------
NoCycle == [phase |-> "none", map |-> [r \in Relays |-> None], now |-> 0,
            changed |-> {}, todo |-> {}, seen |-> {},
            list |-> [r \in Relays |-> None], due |-> FALSE, at |-> None,
            delta |-> NoDelta]

InFlight == {s \in Slots : cycle[s].phase # "none"}
FreeSlot == CHOOSE s \in Slots : s \notin InFlight
Set(s, c) == cycle' = [cycle EXCEPT ![s] = c]

Init ==
  /\ core = [r \in Relays |-> None] /\ tick = 0
  /\ previous = core /\ status = core /\ acc = core /\ asserted = core
  /\ last = [kind1066 |-> 0, kind1166 |-> 0, kind30385 |-> 0]
  /\ cycle = [s \in Slots |-> NoCycle] /\ busy = None
  /\ view = core /\ told = core
  /\ off = [delta |-> {}, status |-> {}, score |-> {}]

Maps == [Relays -> States \cup {None}]

\* The timer: computeAll, then onAggregationComplete up to its first await.
\* Any relay may be among those reported as changed: one is when it was seen
\* again, one is not when only its version changed or only the clock took it
\* offline, or when policy.set recomputed the states before the timer did.
Tick(s) ==
  /\ busy = None /\ tick < MaxTicks
  /\ InFlight # Slots /\ s = FreeSlot
  /\ tick' = tick + 1
  /\ core' \in Maps
  /\ \E changed \in SUBSET Present(core') :
       Set(s, [NoCycle EXCEPT !.phase = "scan", !.map = core',
                              !.changed = changed, !.todo = changed])
  /\ busy' = s /\ UNCHANGED <<maps, ghosts>>

-----------------------------------------------------------------------------
(* The changed relays: deltas, and transitions with their kind 20066.       *)

\* acc after relay r, known before as p, is found to be c.
Gather(r, p, c) ==
  IF p = None \/ Detect(p, c) = NoDelta
  THEN acc
  ELSE [acc EXCEPT ![r] = IF @ = None THEN Detect(p, c) ELSE Merge(@, Detect(p, c))]

\* Another cycle in flight has this relay on its list too, or its deltas
\* under way.
Raced(s, r) == \E o \in InFlight \ {s} :
  \/ r \in cycle[o].changed
  \/ cycle[o].phase = "batch" /\ r \in cycle[o].seen \cup {cycle[o].at}

Scan(s, r) ==
  LET c == cycle[s]
      new == c.map[r]
      turns == status[r] # None /\ status[r] # Status(new)
  IN /\ busy = s /\ c.phase = "scan" /\ c.at = None /\ r \in c.todo
     /\ acc' = Gather(r, previous[r], new)
     /\ IF turns
        THEN /\ Set(s, [c EXCEPT !.at = r])
             /\ busy' = None /\ UNCHANGED status
        ELSE /\ Set(s, [c EXCEPT !.todo = @ \ {r}])
             /\ status' = [status EXCEPT ![r] = Status(new)] /\ UNCHANGED busy
     /\ off' = IF Raced(s, r) THEN [off EXCEPT !.delta = @ \cup {r}] ELSE off
     /\ UNCHANGED <<core, tick, previous, asserted, last, view, told>>

\* Mutant: the state is looked up again after the wait.
ReportedMutant(c) == IF core[c.at] = None THEN "down" ELSE Status(core[c.at])

\* The status that is remembered is the one the cycle saw when it began.
Reported(c) == Status(c.map[c.at])

TransitionSent(s, ok) ==
  LET c == cycle[s]
      r == c.at
  IN /\ busy = None /\ c.phase = "scan" /\ r # None
     /\ status' = [status EXCEPT ![r] = Reported(c)]
     /\ told' = IF ok THEN [told EXCEPT ![r] = Status(c.map[r])] ELSE told
     /\ off' = [off EXCEPT !.status = IF ok THEN @ \ {r} ELSE @ \cup {r}]
     /\ Set(s, [c EXCEPT !.at = None, !.todo = @ \ {r}])
     /\ busy' = s
     /\ UNCHANGED <<core, tick, previous, acc, asserted, last, view>>

\* Mutant: only the relays among the changed ones get a first status.
FirstStatusesMutant(map) == status

\* The statuses of relays never seen before, of which no event tells.
FirstStatuses(map) ==
  [r \in Relays |-> IF status[r] = None /\ map[r] # None THEN Status(map[r]) ELSE status[r]]

\* Then the clock is read, and the schedule of kind 1066.
ScanDone(s) ==
  LET c == cycle[s]
  IN /\ busy = s /\ c.phase = "scan" /\ c.at = None /\ c.todo = {}
     /\ status' = FirstStatuses(c.map)
     /\ Set(s, [c EXCEPT !.now = tick,
          !.phase = IF Crossed(tick, last.kind1066) THEN "batch" ELSE "snapshot"])
     /\ UNCHANGED <<core, tick, previous, acc, asserted, last, busy, ghosts>>

-----------------------------------------------------------------------------
(* publishKind1066Events.  The loop is over the live map: entries that      *)
(* another cycle adds while it awaits are visited as well.                  *)

Entries == {r \in Relays : acc[r] # None}

Batch(s, r) ==
  LET c == cycle[s]
  IN /\ busy = s /\ c.phase = "batch" /\ c.at = None /\ r \in Entries \ c.seen
     /\ IF c.map[r] = None
        THEN /\ Set(s, [c EXCEPT !.seen = @ \cup {r}])
             /\ off' = [off EXCEPT !.delta = @ \cup {r}]
             /\ UNCHANGED busy
        ELSE /\ Set(s, [c EXCEPT !.at = r, !.delta = Wire(acc[r]), !.seen = @ \cup {r}])
             /\ busy' = None /\ UNCHANGED off
     /\ UNCHANGED <<core, tick, maps, view, told>>

BatchSent(s, ok) ==
  LET c == cycle[s]
      r == c.at
  IN /\ busy = None /\ c.phase = "batch" /\ r # None
     /\ view' = IF ok /\ view[r] # None
                THEN [view EXCEPT ![r] = Apply(c.delta, @)] ELSE view
     /\ off' = IF ok THEN off ELSE [off EXCEPT !.delta = @ \cup {r}]
     /\ Set(s, [c EXCEPT !.at = None, !.delta = NoDelta])
     /\ busy' = s
     /\ UNCHANGED <<core, tick, maps, told>>

\* The map is cleared, with what failed too; then the heartbeats.  Iterators
\* over the map lose their place: what is added now is new to them.
BatchDone(s) ==
  LET c == cycle[s]
  IN /\ busy = s /\ c.phase = "batch" /\ c.at = None /\ Entries \subseteq c.seen
     /\ acc' = [r \in Relays |-> None]
     /\ cycle' = [o \in Slots |->
          [cycle[o] EXCEPT !.seen = {}, !.phase = IF o = s THEN "beat" ELSE @]]
     /\ busy' = IF Present(c.map) = {} THEN s ELSE None
     /\ UNCHANGED <<core, tick, previous, status, asserted, last, ghosts>>

\* The heartbeats are over, one for every relay with a state and without
\* deltas by now; they change nothing but the time, and are one wait here.
BeatsSent(s) ==
  LET c == cycle[s]
  IN /\ busy = (IF Present(c.map) = {} THEN s ELSE None) /\ c.phase = "beat"
     /\ last' = [last EXCEPT !.kind1066 = c.now]
     /\ Set(s, [c EXCEPT !.phase = "snapshot"]) /\ busy' = s
     /\ UNCHANGED <<core, tick, previous, status, acc, asserted, ghosts>>

-----------------------------------------------------------------------------
(* publishNetworkSnapshot (kind 1166) and publishKind30385Assertions.       *)

Snapshot(s) ==
  LET c == cycle[s]
  IN /\ busy = s /\ c.phase = "snapshot" /\ c.at = None
     /\ Crossed(c.now, last.kind1166)
     /\ Set(s, [c EXCEPT !.phase = "counted"])
     /\ busy' = None
     /\ UNCHANGED <<core, tick, maps, ghosts>>

\* Mutant: a score is compared with that of the previous cycle.
ShownMutant(s, r, score) ==
  \/ cycle[s].due
  \/ asserted[r] = None
  \/ previous[r] # None /\ score - previous[r].score >= Threshold
  \/ previous[r] # None /\ previous[r].score - score >= Threshold

\* Whether an assertion is published: at every refresh, the first time, and
\* when it moved by the threshold since it was last published.
Shown(s, r, score) ==
  \/ cycle[s].due
  \/ asserted[r] = None
  \/ score - asserted[r] >= Threshold \/ asserted[r] - score >= Threshold

\* Whether a refresh is due is decided here; the list of assertions is what the
\* core holds by now.
ToAssertions(s) ==
  LET c == cycle[s]
  IN /\ \/ busy = None /\ c.phase = "counted"
           /\ last' = [last EXCEPT !.kind1166 = c.now]
        \/ busy = s /\ c.phase = "snapshot" /\ c.at = None
           /\ ~Crossed(c.now, last.kind1166) /\ UNCHANGED last
     /\ Set(s, [c EXCEPT !.phase = "assert", !.todo = Present(core),
          !.due = Crossed(c.now, last.kind30385),
          !.list = [r \in Relays |-> IF core[r] = None THEN None ELSE core[r].score]])
     /\ busy' = s
     /\ UNCHANGED <<core, tick, previous, status, acc, asserted, ghosts>>

PublishAssertion(s, r) ==
  LET c == cycle[s]
  IN /\ busy = s /\ c.phase = "assert" /\ c.at = None /\ r \in c.todo
     /\ IF Shown(s, r, c.list[r])
        THEN Set(s, [c EXCEPT !.at = r]) /\ busy' = None
        ELSE Set(s, [c EXCEPT !.todo = @ \ {r}]) /\ UNCHANGED busy
     /\ UNCHANGED <<core, tick, maps, ghosts>>

\* Only what got out is what later assertions are compared with.
Remembered(r, score, ok) == IF ok THEN [asserted EXCEPT ![r] = score] ELSE asserted

AssertSent(s, ok) ==
  LET c == cycle[s]
      r == c.at
      alone == \A o \in InFlight \ {s} : cycle[o].phase # "assert"
  IN /\ busy = None /\ c.phase = "assert" /\ r # None
     /\ asserted' = Remembered(r, c.list[r], ok)
     /\ off' = [off EXCEPT !.score = IF ok /\ alone THEN @ \ {r} ELSE @ \cup {r}]
     /\ Set(s, [c EXCEPT !.at = None, !.todo = @ \ {r}])
     /\ busy' = s
     /\ UNCHANGED <<core, tick, previous, status, acc, last, view, told>>

\* Mutant: the states of all relays are kept, not only of the changed ones.
KeptMutant(c) == Present(c.map)

\* The relays whose previous state a cycle replaces when it ends.
Kept(c) == c.changed \cap Present(c.map)

\* The end of a cycle.  Whoever follows a relay starts from its first state.
EndCycle(s) ==
  LET c == cycle[s]
  IN /\ busy = s /\ c.phase = "assert" /\ c.at = None /\ c.todo = {}
     /\ last' = IF c.due THEN [last EXCEPT !.kind30385 = c.now] ELSE last
     /\ previous' = [r \in Relays |-> IF r \in Kept(c) THEN c.map[r] ELSE previous[r]]
     /\ view' = [r \in Relays |->
          IF r \in Kept(c) /\ previous[r] = None
          THEN [version |-> c.map[r].version, nips |-> c.map[r].nips] ELSE view[r]]
     /\ Set(s, NoCycle) /\ busy' = None
     /\ UNCHANGED <<core, tick, status, acc, asserted, told, off>>

-----------------------------------------------------------------------------
Step(s) ==
  \/ \E r \in Relays : Scan(s, r) \/ Batch(s, r) \/ PublishAssertion(s, r)
  \/ ScanDone(s) \/ BatchDone(s) \/ BeatsSent(s) \/ Snapshot(s)
  \/ ToAssertions(s) \/ EndCycle(s)
  \/ \E ok \in BOOLEAN : TransitionSent(s, ok) \/ BatchSent(s, ok) \/ AssertSent(s, ok)

Next == \E s \in Slots : Tick(s) \/ Step(s)

Spec == Init /\ [][Next]_vars

-----------------------------------------------------------------------------
Phases == {"none", "scan", "batch", "beat", "snapshot", "counted", "assert"}

(* Types; a relay whose deltas are followed has a previous state, and a    *)
(* cycle past its scan leaves no relay with a state without a status.      *)
TypeOK ==
  /\ core \in Maps /\ previous \in Maps /\ tick \in 0..MaxTicks
  /\ status \in [Relays -> Statuses \cup {None}] /\ told \in [Relays -> Statuses \cup {None}]
  /\ \A s \in Slots : cycle[s].phase \in Phases /\ cycle[s].map \in Maps
  /\ busy \in InFlight \cup {None}
  /\ \A r \in Relays : previous[r] # None <=> view[r] # None
  /\ \A s \in InFlight : cycle[s].phase # "scan" =>
       \A r \in Present(cycle[s].map) : status[r] # None

\* The state a relay's deltas have been brought up to: that of the cycle in
\* flight that has been through it, or the previous one.
Handled(s, r) ==
  /\ r \in cycle[s].changed
  /\ cycle[s].phase = "scan" => r \notin cycle[s].todo \/ cycle[s].at = r
Reached(r) ==
  LET by == {s \in InFlight : Handled(s, r)}
  IN IF by = {} THEN previous[r] ELSE cycle[CHOOSE s \in by : TRUE].map[r]

(* What was published of a relay's changes and what is accumulated lead to *)
(* its state, however the two interleave with the recomputation of states  *)
(* and its batches (a version that is gone is not told), unless an event    *)
(* of the relay failed, it had left the states when its batch came, or two  *)
(* cycles were in flight that both had to do with it.                       *)
ChainIntact ==
  \A r \in Relays : previous[r] # None /\ r \notin off.delta =>
    LET pending == IF acc[r] = None THEN NoDelta ELSE Wire(acc[r])
        known == Apply(pending, view[r])
    IN /\ known.nips = Reached(r).nips
       /\ known.version = IF Reached(r).version = None THEN view[r].version
                          ELSE Reached(r).version

(* The last transition a subscriber was told of is the status on record,   *)
(* even between cycles that overlap, unless its event failed.              *)
ToldOnRecord ==
  \A r \in Relays : told[r] # None /\ r \notin off.status => told[r] = status[r]

(* Once a cycle has been through a relay's assertion, what is published of *)
(* it is less than the threshold away, however small the steps were, unless *)
(* its publish failed or two cycles were publishing assertions.            *)
AssertionsNear ==
  \A s \in InFlight : cycle[s].phase = "assert" =>
    \A r \in Relays \ (cycle[s].todo \cup off.score) : cycle[s].list[r] # None =>
      /\ asserted[r] # None
      /\ asserted[r] - cycle[s].list[r] < Threshold
      /\ cycle[s].list[r] - asserted[r] < Threshold

-----------------------------------------------------------------------------
(* Those who follow a relay's deltas: DeltaFollower.                        *)

\* The state a relay was found in, as far as deltas speak of it.
Found(r) ==
  IF Reached(r) = None THEN None
  ELSE [version |-> Reached(r).version, nips |-> Reached(r).nips]
State == [r \in Relays |-> Found(r)]

Follower == INSTANCE DeltaFollower WITH state <- State, known <- view, lost <- off.delta

(* However cycles, batches and recomputations overlap, an event brings those *)
(* who apply it to the state the relay is in when it goes out, and to no     *)
(* state it has never been in.                                               *)
FollowersLag == Follower!Spec
=============================================================================
