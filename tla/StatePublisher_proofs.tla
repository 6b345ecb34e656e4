------------------------ MODULE StatePublisher_proofs ------------------------
(***************************************************************************)
(* Proofs about StatePublisher, for any relays and states, any threshold   *)
(* and schedule, and any number of overlapping cycles: what is published   *)
(* of a relay's status, score and changes fits the state it is brought to. *)
(***************************************************************************)
EXTENDS StatePublisher, TLAPS

USE StatePublisherAssumption

-----------------------------------------------------------------------------
(* Types                                                                    *)

CycleType ==
  [phase : Phases, map : Maps, now : 0..MaxTicks, changed : SUBSET Relays,
   todo : SUBSET Relays, seen : SUBSET Relays, list : [Relays -> Nat \cup {None}],
   due : BOOLEAN, at : Relays \cup {None}, delta : Deltas]

Types ==
  /\ core \in Maps /\ previous \in Maps /\ tick \in 0..MaxTicks
  /\ status \in [Relays -> Statuses \cup {None}] /\ told \in [Relays -> Statuses \cup {None}]
  /\ acc \in [Relays -> Deltas \cup {None}]
  /\ asserted \in [Relays -> Nat \cup {None}]
  /\ view \in [Relays -> Views \cup {None}]
  /\ off \in [delta : SUBSET Relays, status : SUBSET Relays, score : SUBSET Relays]
  /\ cycle \in [Slots -> CycleType] /\ busy \in InFlight \cup {None}

\* A cycle is about relays that had a state when it began, and goes through
\* those it was told of.
CycleInv ==
  \A s \in Slots :
    /\ cycle[s].changed \subseteq Present(cycle[s].map)
    /\ cycle[s].phase = "scan" =>
         /\ cycle[s].todo \subseteq cycle[s].changed /\ cycle[s].at \in cycle[s].todo \cup {None}
         /\ cycle[s].seen = {}

LEMMA DetectType ==
  ASSUME NEW p \in States, NEW c \in States
  PROVE  Detect(p, c) \in Deltas
<1>1. p.version \in Versions /\ c.version \in Versions /\ p.nips \subseteq Nips /\ c.nips \subseteq Nips
  BY DEF Versions, Nips
<1> QED
  BY <1>1 DEF Detect, Deltas, Versions

LEMMA MergeType ==
  ASSUME NEW e \in Deltas, NEW d \in Deltas
  PROVE  Merge(e, d) \in Deltas
BY DEF Merge, Deltas

LEMMA WireType ==
  ASSUME NEW d \in Deltas
  PROVE  Wire(d) \in Deltas
BY DEF Wire, Deltas

LEMMA NoDeltaType == NoDelta \in Deltas
BY DEF NoDelta, Deltas, Versions

LEMMA ApplyType ==
  ASSUME NEW d \in Deltas, NEW v \in Views
  PROVE  Apply(d, v) \in Views
BY DEF Apply, Deltas, Views

LEMMA CycleSet ==
  ASSUME cycle \in [Slots -> CycleType], NEW s \in Slots, NEW c \in CycleType, Set(s, c)
  PROVE  /\ cycle' \in [Slots -> CycleType] /\ cycle'[s] = c
         /\ \A o \in Slots \ {s} : cycle'[o] = cycle[o]
         /\ c.phase # "none" => InFlight' = InFlight \cup {s}
         /\ c.phase # "none" /\ s \in InFlight => InFlight' = InFlight
         /\ c.phase = "none" => InFlight' = InFlight \ {s}
<1>1. /\ cycle' \in [Slots -> CycleType] /\ cycle'[s] = c
      /\ \A o \in Slots \ {s} : cycle'[o] = cycle[o]
  BY DEF Set
<1> QED
  BY <1>1 DEF InFlight

LEMMA StatusTypes ==
  ASSUME NEW state
  PROVE  Status(state) \in Statuses /\ Status(state) # None
BY DEF Status, Statuses

LEMMA NoCycleType ==
  /\ NoCycle \in CycleType
  /\ NoCycle.phase = "none" /\ NoCycle.changed = {} /\ NoCycle.at = None /\ NoCycle.seen = {}
<1>1. NoDelta \in Deltas
  BY DEF NoDelta, Deltas, Versions
<1>2. 0 \in 0..MaxTicks /\ [r \in Relays |-> None] \in Maps
  BY DEF Maps
<1> QED
  BY <1>1, <1>2 DEF NoCycle, CycleType, Maps, Phases

LEMMA TypesInit == Init => Types /\ CycleInv
<1> SUFFICES ASSUME Init PROVE Types /\ CycleInv
  OBVIOUS
<1>1. NoCycle \in CycleType
  BY NoCycleType
<1>2. cycle \in [Slots -> CycleType] /\ \A s \in Slots : cycle[s] = NoCycle
  BY <1>1 DEF Init
<1>3. CycleInv
  BY <1>2 DEF CycleInv, NoCycle, Present
<1> QED
  BY <1>2, <1>3 DEF Init, Types, Maps

-----------------------------------------------------------------------------
(* Types, one step per action                                               *)

LEMMA TickTypes ==
  ASSUME Types, CycleInv, NEW s \in Slots, Tick(s)
  PROVE  /\ Types' /\ CycleInv' /\ cycle[s].phase = "none"
         /\ cycle'[s].phase = "scan" /\ cycle'[s].todo = cycle'[s].changed /\ cycle'[s].at = None
         /\ \A o \in Slots \ {s} : cycle'[o] = cycle[o]
<1>1. PICK changed \in SUBSET Present(core') :
        Set(s, [NoCycle EXCEPT !.phase = "scan", !.map = core',
                               !.changed = changed, !.todo = changed])
  BY DEF Tick
<1> DEFINE c == [NoCycle EXCEPT !.phase = "scan", !.map = core',
                                !.changed = changed, !.todo = changed]
<1>2. core' \in Maps /\ tick' \in 0..MaxTicks /\ changed \subseteq Relays
  BY <1>1 DEF Tick, Types, Present
<1>3. /\ c \in CycleType /\ c.phase = "scan" /\ c.changed = changed /\ c.todo = changed
      /\ c.at = None /\ c.map = core' /\ c.seen = {}
  BY <1>2, NoCycleType DEF CycleType, Phases
<1> HIDE DEF c
<1>4. Set(s, c)
  BY <1>1 DEF c
<1>5. /\ cycle' \in [Slots -> CycleType] /\ cycle'[s] = c /\ InFlight' = InFlight \cup {s}
      /\ \A o \in Slots \ {s} : cycle'[o] = cycle[o]
  BY <1>3, <1>4, CycleSet DEF Types
<1>6. s \notin InFlight
  <2>1. \E o \in Slots : o \notin InFlight
    BY DEF Tick, InFlight
  <2> QED
    BY <2>1 DEF Tick, FreeSlot
<1>7. Types'
  BY <1>2, <1>5 DEF Tick, Types, maps, ghosts
<1>8. CycleInv'
  BY <1>1, <1>3, <1>5 DEF CycleInv, Present
<1> QED
  BY <1>3, <1>5, <1>6, <1>7, <1>8 DEF InFlight

LEMMA ScanTypes ==
  ASSUME Types, CycleInv, NEW s \in Slots, NEW r \in Relays, Scan(s, r)
  PROVE  /\ Types' /\ CycleInv'
         /\ cycle[s].map[r] \in States
         /\ \A o \in Slots \ {s} : cycle'[o] = cycle[o]
         /\ cycle'[s] \in {[cycle[s] EXCEPT !.at = r], [cycle[s] EXCEPT !.todo = @ \ {r}]}
<1> DEFINE c == cycle[s]
           c1 == [c EXCEPT !.at = r]
           c2 == [c EXCEPT !.todo = @ \ {r}]
<1>1. c \in CycleType /\ c1 \in CycleType /\ c2 \in CycleType
  BY DEF Types, CycleType
<1>2. c.map[r] \in States
  BY <1>1 DEF Scan, CycleInv, Present, Maps, CycleType
<1>3. (Set(s, c1) /\ busy' = None) \/ (Set(s, c2) /\ busy' = s)
  BY DEF Scan
<1>a. c1.phase # "none" /\ c2.phase # "none" /\ s \in InFlight
  BY <1>1 DEF Scan, CycleType, InFlight
<1>4. /\ cycle' \in [Slots -> CycleType] /\ cycle'[s] \in {c1, c2} /\ InFlight' = InFlight
      /\ \A o \in Slots \ {s} : cycle'[o] = cycle[o]
  <2> HIDE DEF c, c1, c2
  <2>1. c1.phase # "none" /\ c2.phase # "none" /\ s \in InFlight
    BY <1>a
  <2>2. cycle \in [Slots -> CycleType]
    BY DEF Types
  <2>3. CASE Set(s, c1)
    BY <1>1, <2>1, <2>2, <2>3, CycleSet
  <2>4. CASE Set(s, c2)
    BY <1>1, <2>1, <2>2, <2>4, CycleSet
  <2> QED
    BY <1>3, <2>3, <2>4
<1>5. acc' \in [Relays -> Deltas \cup {None}]
  <2>1. CASE previous[r] = None \/ Detect(previous[r], c.map[r]) = NoDelta
    BY <2>1 DEF Scan, Gather, Types
  <2>2. CASE ~(previous[r] = None \/ Detect(previous[r], c.map[r]) = NoDelta)
    <3>1. previous[r] \in States
      BY <2>2 DEF Types, Maps
    <3>2. Detect(previous[r], c.map[r]) \in Deltas
      BY <1>2, <3>1, DetectType
    <3>3. acc[r] # None => Merge(acc[r], Detect(previous[r], c.map[r])) \in Deltas
      BY <3>2, MergeType DEF Types
    <3> QED
      BY <2>2, <3>2, <3>3 DEF Scan, Gather, Types
  <2> QED
    BY <2>1, <2>2
<1>6. status' \in [Relays -> Statuses \cup {None}]
  BY StatusTypes DEF Scan, Types
<1>7. off' \in [delta : SUBSET Relays, status : SUBSET Relays, score : SUBSET Relays]
  BY DEF Scan, Types
<1>8. busy' \in InFlight' \cup {None}
  BY <1>3, <1>4 DEF Scan, Types
<1>9. Types'
  BY <1>4, <1>5, <1>6, <1>7, <1>8 DEF Scan, Types
<1>10. CycleInv'
  <2>1. /\ c1.phase = c.phase /\ c1.map = c.map /\ c1.changed = c.changed /\ c1.todo = c.todo
        /\ c1.seen = c.seen
        /\ c2.phase = c.phase /\ c2.map = c.map /\ c2.changed = c.changed /\ c2.todo \subseteq c.todo
        /\ c2.seen = c.seen
    BY <1>1 DEF CycleType
  <2>2. c1.at \in c.todo /\ c2.at = None /\ c.phase = "scan"
    BY <1>1 DEF Scan, CycleType
  <2>3. /\ c.changed \subseteq Present(c.map) /\ c.todo \subseteq c.changed
        /\ c.at \in c.todo \cup {None} /\ c.seen = {}
    BY <2>2 DEF CycleInv
  <2> HIDE DEF c, c1, c2
  <2>4. /\ cycle'[s].changed \subseteq Present(cycle'[s].map)
        /\ cycle'[s].todo \subseteq cycle'[s].changed
        /\ cycle'[s].at \in cycle'[s].todo \cup {None} /\ cycle'[s].seen = {}
    <3>1. CASE cycle'[s] = c1
      BY <2>1, <2>2, <2>3, <3>1
    <3>2. CASE cycle'[s] = c2
      BY <2>1, <2>2, <2>3, <3>2
    <3> QED
      BY <1>4, <3>1, <3>2
  <2> QED
    BY <1>4, <2>4 DEF CycleInv, Present
<1> QED
  BY <1>2, <1>4, <1>9, <1>10

\* What a cycle goes on to, while it is in flight.
Goes(s, c) ==
  /\ Set(s, c) /\ c \in CycleType /\ c.phase # "none" /\ s \in InFlight
  /\ c.changed = cycle[s].changed /\ c.map = cycle[s].map
  /\ c.phase = "scan" =>
       c.todo \subseteq c.changed /\ c.at \in c.todo \cup {None} /\ c.seen = {}

LEMMA GoesOn ==
  ASSUME Types, CycleInv, NEW s \in Slots, NEW c, Goes(s, c), busy' \in {s, None}
  PROVE  /\ cycle' \in [Slots -> CycleType] /\ busy' \in InFlight' \cup {None}
         /\ CycleInv' /\ cycle'[s] = c /\ InFlight' = InFlight
         /\ \A o \in Slots \ {s} : cycle'[o] = cycle[o]
<1>1. /\ cycle' \in [Slots -> CycleType] /\ cycle'[s] = c /\ InFlight' = InFlight
      /\ \A o \in Slots \ {s} : cycle'[o] = cycle[o]
  BY CycleSet DEF Goes, Types
<1>2. CycleInv'
  BY <1>1 DEF Goes, CycleInv, Present
<1> QED
  BY <1>1, <1>2 DEF Goes

LEMMA TransitionGoes ==
  ASSUME Types, CycleInv, NEW s \in Slots, NEW ok \in BOOLEAN, TransitionSent(s, ok)
  PROVE  /\ Types' /\ cycle[s].at \in Relays
         /\ Goes(s, [cycle[s] EXCEPT !.at = None, !.todo = @ \ {cycle[s].at}])
<1> DEFINE c == [cycle[s] EXCEPT !.at = None, !.todo = @ \ {cycle[s].at}]
<1>1. Goes(s, c)
  <2>1. /\ cycle[s] \in CycleType /\ cycle[s].phase = "scan" /\ s \in InFlight
        /\ cycle[s].todo \subseteq cycle[s].changed /\ cycle[s].seen = {}
    BY DEF TransitionSent, Types, CycleInv, InFlight
  <2>2. /\ c \in CycleType /\ c.phase # "none" /\ c.at = None /\ c.seen = {}
        /\ c.changed = cycle[s].changed /\ c.map = cycle[s].map /\ c.todo \subseteq cycle[s].todo
    BY <2>1 DEF CycleType
  <2>3. Set(s, c)
    BY DEF TransitionSent
  <2> QED
    BY <2>1, <2>2, <2>3 DEF Goes
<1>2. cycle[s].at \in Relays
  BY DEF TransitionSent, Types, CycleType
<1>3. cycle' \in [Slots -> CycleType] /\ busy' \in InFlight' \cup {None}
  BY <1>1, GoesOn DEF TransitionSent
<1>4. status' \in [Relays -> Statuses \cup {None}] /\ told' \in [Relays -> Statuses \cup {None}]
  BY <1>2, StatusTypes DEF TransitionSent, Reported, Types
<1>5. off' \in [delta : SUBSET Relays, status : SUBSET Relays, score : SUBSET Relays]
  BY <1>2 DEF TransitionSent, Types
<1> QED
  BY <1>1, <1>2, <1>3, <1>4, <1>5 DEF TransitionSent, Types

LEMMA ScanDoneGoes ==
  ASSUME Types, CycleInv, NEW s \in Slots, ScanDone(s)
  PROVE  /\ Types'
         /\ \E p \in {"batch", "snapshot"} : Goes(s, [cycle[s] EXCEPT !.now = tick, !.phase = p])
<1> DEFINE c(p) == [cycle[s] EXCEPT !.now = tick, !.phase = p]
<1>1. PICK p \in {"batch", "snapshot"} : Set(s, c(p))
  BY DEF ScanDone
<1>2. Goes(s, c(p))
  <2>1. cycle[s] \in CycleType /\ c(p) \in CycleType /\ c(p).phase = p
    <3>1. cycle[s] \in CycleType /\ tick \in 0..MaxTicks /\ p \in Phases
      BY DEF Types, Phases
    <3> QED
      BY <3>1 DEF CycleType
  <2>2. c(p).changed = cycle[s].changed /\ c(p).map = cycle[s].map
    BY <2>1 DEF CycleType
  <2> QED
    BY <1>1, <2>1, <2>2 DEF Goes, ScanDone, InFlight
<1>3. cycle' \in [Slots -> CycleType] /\ busy' \in InFlight' \cup {None}
  BY <1>2, GoesOn DEF ScanDone
<1>4. status' \in [Relays -> Statuses \cup {None}]
  BY StatusTypes DEF ScanDone, FirstStatuses, Types
<1> QED
  BY <1>2, <1>3, <1>4 DEF ScanDone, Types, ghosts

LEMMA BatchGoes ==
  ASSUME Types, CycleInv, NEW s \in Slots, NEW r \in Relays, Batch(s, r)
  PROVE  /\ Types'
         /\ \/ /\ cycle[s].map[r] = None
               /\ Goes(s, [cycle[s] EXCEPT !.seen = @ \cup {r}])
            \/ /\ cycle[s].map[r] # None
               /\ Goes(s, [cycle[s] EXCEPT !.at = r, !.delta = Wire(acc[r]), !.seen = @ \cup {r}])
<1>1. acc[r] \in Deltas /\ Wire(acc[r]) \in Deltas
  <2>1. acc[r] \in Deltas
    BY DEF Batch, Entries, Types
  <2> QED
    BY <2>1, WireType
<1>2. CASE cycle[s].map[r] = None
  <2>1. Goes(s, [cycle[s] EXCEPT !.seen = @ \cup {r}])
    BY <1>2 DEF Goes, Batch, Types, CycleType, InFlight
  <2>2. cycle' \in [Slots -> CycleType] /\ busy' \in InFlight' \cup {None}
    BY <1>2, <2>1, GoesOn DEF Batch
  <2> QED
    BY <1>2, <2>1, <2>2 DEF Batch, Types, maps
<1>3. CASE cycle[s].map[r] # None
  <2>1. Goes(s, [cycle[s] EXCEPT !.at = r, !.delta = Wire(acc[r]), !.seen = @ \cup {r}])
    <3> DEFINE c == [cycle[s] EXCEPT !.at = r, !.delta = Wire(acc[r]), !.seen = @ \cup {r}]
    <3>1. /\ c \in CycleType /\ c.phase = "batch" /\ s \in InFlight
          /\ c.changed = cycle[s].changed /\ c.map = cycle[s].map
      <4>1. cycle[s] \in CycleType /\ cycle[s].phase = "batch" /\ s \in InFlight
        BY DEF Batch, Types, InFlight
      <4> QED
        BY <1>1, <4>1 DEF CycleType
    <3>2. Set(s, c)
      BY <1>3 DEF Batch
    <3> QED
      BY <3>1, <3>2 DEF Goes
  <2>2. cycle' \in [Slots -> CycleType] /\ busy' \in InFlight' \cup {None}
    BY <1>3, <2>1, GoesOn DEF Batch
  <2> QED
    BY <1>3, <2>1, <2>2 DEF Batch, Types, maps
<1> QED
  BY <1>2, <1>3

LEMMA BatchSentGoes ==
  ASSUME Types, CycleInv, NEW s \in Slots, NEW ok \in BOOLEAN, BatchSent(s, ok)
  PROVE  /\ Types' /\ cycle[s].at \in Relays
         /\ Goes(s, [cycle[s] EXCEPT !.at = None, !.delta = NoDelta])
<1>1. Goes(s, [cycle[s] EXCEPT !.at = None, !.delta = NoDelta])
  <2> DEFINE c == [cycle[s] EXCEPT !.at = None, !.delta = NoDelta]
  <2>1. /\ c \in CycleType /\ c.phase = "batch" /\ s \in InFlight
        /\ c.changed = cycle[s].changed /\ c.map = cycle[s].map
    <3>1. cycle[s] \in CycleType /\ cycle[s].phase = "batch" /\ s \in InFlight
      BY DEF BatchSent, Types, InFlight
    <3> QED
      BY <3>1, NoDeltaType DEF CycleType
  <2>2. Set(s, c)
    BY DEF BatchSent
  <2> QED
    BY <2>1, <2>2 DEF Goes
<1>2. cycle[s].at \in Relays /\ cycle[s].delta \in Deltas
  BY DEF BatchSent, Types, CycleType
<1>3. cycle' \in [Slots -> CycleType] /\ busy' \in InFlight' \cup {None}
  BY <1>1, GoesOn DEF BatchSent
<1>4. view' \in [Relays -> Views \cup {None}]
  BY <1>2, ApplyType DEF BatchSent, Types
<1>5. off' \in [delta : SUBSET Relays, status : SUBSET Relays, score : SUBSET Relays]
  BY <1>2 DEF BatchSent, Types
<1> QED
  BY <1>1, <1>2, <1>3, <1>4, <1>5 DEF BatchSent, Types, maps

\* The end of a batch empties acc, and what every cycle has seen of it.
LEMMA BatchDoneTypes ==
  ASSUME Types, CycleInv, NEW s \in Slots, BatchDone(s)
  PROVE  /\ Types' /\ CycleInv' /\ cycle[s].phase = "batch" /\ cycle'[s].phase = "beat"
         /\ \A o \in Slots : cycle'[o] =
              [cycle[o] EXCEPT !.seen = {}, !.phase = IF o = s THEN "beat" ELSE cycle[o].phase]
<1>1. /\ cycle[s].phase = "batch" /\ cycle' = [o \in Slots |->
          [cycle[o] EXCEPT !.seen = {}, !.phase = IF o = s THEN "beat" ELSE @]]
  BY DEF BatchDone
<1>2. \A o \in Slots : cycle[o] \in CycleType
  BY DEF Types
<1>3. \A o \in Slots : /\ cycle'[o] \in CycleType /\ cycle'[o].changed = cycle[o].changed
                       /\ cycle'[o].map = cycle[o].map /\ cycle'[o].todo = cycle[o].todo
                       /\ cycle'[o].at = cycle[o].at /\ cycle'[o].seen = {}
                       /\ cycle'[o].phase = IF o = s THEN "beat" ELSE cycle[o].phase
  BY <1>1, <1>2 DEF CycleType, Phases
<1>4. cycle' \in [Slots -> CycleType]
  BY <1>1, <1>3
<1>5. InFlight' = InFlight /\ s \in InFlight
  <2>1. cycle[s].phase = "batch"
    BY <1>1
  <2>2. ASSUME NEW o \in Slots PROVE cycle'[o].phase # "none" <=> cycle[o].phase # "none"
    <3>1. CASE o = s
      BY <1>3, <2>1, <3>1
    <3>2. CASE o # s
      BY <1>3, <3>2
    <3> QED
      BY <3>1, <3>2
  <2> QED
    BY <2>1, <2>2 DEF InFlight
<1>6. CycleInv'
  BY <1>3 DEF CycleInv, Present
<1>7. busy' \in InFlight' \cup {None}
  BY <1>5 DEF BatchDone
<1>8. Types'
  BY <1>4, <1>7 DEF BatchDone, Types, ghosts
<1> QED
  BY <1>1, <1>3, <1>6, <1>8

LEMMA BeatsGo ==
  ASSUME Types, CycleInv, NEW s \in Slots, BeatsSent(s)
  PROVE  Types' /\ Goes(s, [cycle[s] EXCEPT !.phase = "snapshot"])
<1>1. cycle[s] \in CycleType /\ cycle[s].phase = "beat" /\ s \in InFlight
  BY DEF BeatsSent, Types, InFlight
<1>2. Goes(s, [cycle[s] EXCEPT !.phase = "snapshot"])
  BY <1>1 DEF BeatsSent, Goes, CycleType, Phases
<1>3. cycle' \in [Slots -> CycleType] /\ busy' \in InFlight' \cup {None}
  BY <1>2, GoesOn DEF BeatsSent
<1> QED
  BY <1>2, <1>3 DEF BeatsSent, Types, ghosts

LEMMA SnapshotGoes ==
  ASSUME Types, CycleInv, NEW s \in Slots, Snapshot(s)
  PROVE  Types' /\ Goes(s, [cycle[s] EXCEPT !.phase = "counted"])
<1>1. cycle[s] \in CycleType /\ cycle[s].phase = "snapshot" /\ s \in InFlight
  BY DEF Snapshot, Types, InFlight
<1>2. Goes(s, [cycle[s] EXCEPT !.phase = "counted"])
  BY <1>1 DEF Snapshot, Goes, CycleType, Phases
<1>3. cycle' \in [Slots -> CycleType] /\ busy' \in InFlight' \cup {None}
  BY <1>2, GoesOn DEF Snapshot
<1> QED
  BY <1>2, <1>3 DEF Snapshot, Types, maps, ghosts

\* The scores of the relays that have a state.
Scores == [r \in Relays |-> IF core[r] = None THEN None ELSE core[r].score]

\* A cycle that has come to its assertions.
Listed(s) ==
  [cycle[s] EXCEPT !.phase = "assert", !.todo = Present(core),
                   !.due = Crossed(cycle[s].now, last.kind30385), !.list = Scores]

LEMMA ToAssertionsGoes ==
  ASSUME Types, CycleInv, NEW s \in Slots, ToAssertions(s)
  PROVE  /\ Types' /\ cycle[s].phase \in {"counted", "snapshot"}
         /\ Goes(s, Listed(s))
<1>1. cycle[s] \in CycleType /\ cycle[s].phase \in {"counted", "snapshot"} /\ s \in InFlight
  BY DEF ToAssertions, Types, InFlight
<1>2. Scores \in [Relays -> Nat \cup {None}] /\ Present(core) \subseteq Relays
  BY DEF Scores, Types, Maps, Present
<1>3. Goes(s, Listed(s))
  <2> DEFINE c == Listed(s)
  <2>1. /\ c \in CycleType /\ c.phase = "assert"
        /\ c.changed = cycle[s].changed /\ c.map = cycle[s].map
    <3>1. Crossed(cycle[s].now, last.kind30385) \in BOOLEAN /\ "assert" \in Phases
      BY DEF Crossed, Phases
    <3> QED
      BY <1>1, <1>2, <3>1 DEF CycleType, Listed
  <2>2. Set(s, c)
    BY DEF ToAssertions, Scores, Listed
  <2> QED
    BY <1>1, <2>1, <2>2 DEF Goes
<1>4. cycle' \in [Slots -> CycleType] /\ busy' \in InFlight' \cup {None}
  BY <1>3, GoesOn DEF ToAssertions
<1> QED
  BY <1>1, <1>3, <1>4 DEF ToAssertions, Types, ghosts

LEMMA PublishAssertionGoes ==
  ASSUME Types, CycleInv, NEW s \in Slots, NEW r \in Relays, PublishAssertion(s, r)
  PROVE  /\ Types'
         /\ \/ Goes(s, [cycle[s] EXCEPT !.at = r])
            \/ /\ ~Shown(s, r, cycle[s].list[r])
               /\ Goes(s, [cycle[s] EXCEPT !.todo = @ \ {r}])
<1>1. cycle[s] \in CycleType /\ cycle[s].phase = "assert" /\ s \in InFlight
  BY DEF PublishAssertion, Types, InFlight
<1>2. CASE Shown(s, r, cycle[s].list[r])
  <2>1. Goes(s, [cycle[s] EXCEPT !.at = r])
    BY <1>1, <1>2 DEF PublishAssertion, Goes, CycleType
  <2>2. cycle' \in [Slots -> CycleType] /\ busy' \in InFlight' \cup {None}
    BY <1>2, <2>1, GoesOn DEF PublishAssertion
  <2> QED
    BY <2>1, <2>2 DEF PublishAssertion, Types, maps, ghosts
<1>3. CASE ~Shown(s, r, cycle[s].list[r])
  <2>1. Goes(s, [cycle[s] EXCEPT !.todo = @ \ {r}])
    BY <1>1, <1>3 DEF PublishAssertion, Goes, CycleType
  <2>2. cycle' \in [Slots -> CycleType] /\ busy' \in InFlight' \cup {None}
    BY <1>3, <2>1, GoesOn DEF PublishAssertion
  <2> QED
    BY <1>3, <2>1, <2>2 DEF PublishAssertion, Types, maps, ghosts
<1> QED
  BY <1>2, <1>3

LEMMA AssertSentGoes ==
  ASSUME Types, CycleInv, NEW s \in Slots, NEW ok \in BOOLEAN, AssertSent(s, ok)
  PROVE  /\ Types' /\ cycle[s].at \in Relays
         /\ Goes(s, [cycle[s] EXCEPT !.at = None, !.todo = @ \ {cycle[s].at}])
<1>1. cycle[s] \in CycleType /\ cycle[s].phase = "assert" /\ s \in InFlight
  BY DEF AssertSent, Types, InFlight
<1>2. cycle[s].at \in Relays /\ cycle[s].list \in [Relays -> Nat \cup {None}]
  BY <1>1 DEF AssertSent, CycleType
<1>3. Goes(s, [cycle[s] EXCEPT !.at = None, !.todo = @ \ {cycle[s].at}])
  BY <1>1 DEF AssertSent, Goes, CycleType
<1>4. cycle' \in [Slots -> CycleType] /\ busy' \in InFlight' \cup {None}
  BY <1>3, GoesOn DEF AssertSent
<1>5. asserted' \in [Relays -> Nat \cup {None}]
  BY <1>2 DEF AssertSent, Remembered, Types
<1>6. off' \in [delta : SUBSET Relays, status : SUBSET Relays, score : SUBSET Relays]
  BY <1>2 DEF AssertSent, Types
<1> QED
  BY <1>2, <1>3, <1>4, <1>5, <1>6 DEF AssertSent, Types

LEMMA EndCycleTypes ==
  ASSUME Types, CycleInv, NEW s \in Slots, EndCycle(s)
  PROVE  /\ Types' /\ CycleInv' /\ cycle'[s].phase = "none"
         /\ \A o \in Slots \ {s} : cycle'[o] = cycle[o]
         /\ Kept(cycle[s]) = cycle[s].changed /\ Kept(cycle[s]) \subseteq Relays
         /\ \A r \in Kept(cycle[s]) : cycle[s].map[r] \in States
<1>1. cycle[s] \in CycleType
  BY DEF Types
<1>2. /\ Kept(cycle[s]) = cycle[s].changed /\ Kept(cycle[s]) \subseteq Relays
      /\ \A r \in Kept(cycle[s]) : cycle[s].map[r] \in States
  BY <1>1 DEF Kept, CycleInv, CycleType, Present, Maps
<1>3. NoCycle \in CycleType /\ NoCycle.phase = "none" /\ NoCycle.changed = {}
  BY NoCycleType
<1>4. /\ cycle' \in [Slots -> CycleType] /\ cycle'[s] = NoCycle
      /\ \A o \in Slots \ {s} : cycle'[o] = cycle[o]
  BY <1>3, CycleSet DEF EndCycle, Types
<1>5. previous' \in Maps
  BY <1>2 DEF EndCycle, Types, Maps
<1>6. view' \in [Relays -> Views \cup {None}]
  <2>1. \A x \in States : [version |-> x.version, nips |-> x.nips] \in Views
    BY DEF Views, Versions, Nips
  <2> QED
    BY <1>2, <2>1 DEF EndCycle, Types
<1>7. CycleInv'
  BY <1>3, <1>4 DEF CycleInv, Present
<1> QED
  BY <1>2, <1>3, <1>4, <1>5, <1>6, <1>7 DEF EndCycle, Types

LEMMA StepTypes ==
  ASSUME Types, CycleInv, NEW s \in Slots, Step(s)
  PROVE  Types' /\ CycleInv'
<1>1. ASSUME NEW r \in Relays, Scan(s, r) PROVE Types' /\ CycleInv'
  BY <1>1, ScanTypes
<1>2. ASSUME NEW r \in Relays, Batch(s, r) PROVE Types' /\ CycleInv'
  BY <1>2, BatchGoes, GoesOn DEF Batch
<1>3. ASSUME NEW r \in Relays, PublishAssertion(s, r) PROVE Types' /\ CycleInv'
  BY <1>3, PublishAssertionGoes, GoesOn DEF PublishAssertion
<1>4. CASE ScanDone(s)
  BY <1>4, ScanDoneGoes, GoesOn DEF ScanDone
<1>5. CASE BatchDone(s)
  BY <1>5, BatchDoneTypes
<1>6. CASE BeatsSent(s)
  BY <1>6, BeatsGo, GoesOn DEF BeatsSent
<1>7. CASE Snapshot(s)
  BY <1>7, SnapshotGoes, GoesOn DEF Snapshot
<1>8. CASE ToAssertions(s)
  BY <1>8, ToAssertionsGoes, GoesOn DEF ToAssertions
<1>9. CASE EndCycle(s)
  BY <1>9, EndCycleTypes
<1>10. ASSUME NEW ok \in BOOLEAN, TransitionSent(s, ok) PROVE Types' /\ CycleInv'
  BY <1>10, TransitionGoes, GoesOn DEF TransitionSent
<1>11. ASSUME NEW ok \in BOOLEAN, BatchSent(s, ok) PROVE Types' /\ CycleInv'
  BY <1>11, BatchSentGoes, GoesOn DEF BatchSent
<1>12. ASSUME NEW ok \in BOOLEAN, AssertSent(s, ok) PROVE Types' /\ CycleInv'
  BY <1>12, AssertSentGoes, GoesOn DEF AssertSent
<1> QED
  BY <1>1, <1>2, <1>3, <1>4, <1>5, <1>6, <1>7, <1>8, <1>9, <1>10, <1>11, <1>12 DEF Step

LEMMA TypesStep ==
  ASSUME Types, CycleInv, [Next]_vars
  PROVE  Types' /\ CycleInv'
<1>1. CASE Next
  BY <1>1, TickTypes, StepTypes DEF Next
<1>2. CASE UNCHANGED vars
  BY <1>2 DEF vars, maps, ghosts, Types, CycleInv, InFlight
<1> QED
  BY <1>1, <1>2

-----------------------------------------------------------------------------
(* What is on record                                                        *)

Followed == \A r \in Relays : previous[r] # None <=> view[r] # None
Recorded ==
  \A s \in InFlight : cycle[s].phase # "scan" =>
    \A r \in Present(cycle[s].map) : status[r] # None

LEMMA FollowedStep ==
  ASSUME Types, CycleInv, Followed, [Next]_vars
  PROVE  Followed'
<1>1. ASSUME NEW s \in Slots, NEW ok \in BOOLEAN, BatchSent(s, ok) PROVE Followed'
  <2>1. cycle[s].at \in Relays /\ cycle[s].delta \in Deltas
    BY <1>1, BatchSentGoes DEF Types, CycleType
  <2>2. \A r \in Relays : view'[r] # None <=> view[r] # None
    BY <1>1, <2>1, ApplyType DEF BatchSent, Types
  <2> QED
    BY <1>1, <2>2 DEF BatchSent, Followed, maps
<1>2. ASSUME NEW s \in Slots, EndCycle(s) PROVE Followed'
  <2>1. \A x \in States : [version |-> x.version, nips |-> x.nips] # None
    <3>1. \A x \in States : [version |-> x.version, nips |-> x.nips] \in Views
      BY DEF Views, Versions, Nips
    <3> QED
      BY <3>1
  <2>2. \A r \in Kept(cycle[s]) : cycle[s].map[r] \in States /\ cycle[s].map[r] # None
    BY <1>2, EndCycleTypes
  <2>3. \A r \in Relays :
          /\ previous'[r] # None <=> r \in Kept(cycle[s]) \/ previous[r] # None
          /\ view'[r] # None <=> (r \in Kept(cycle[s]) /\ previous[r] = None) \/ view[r] # None
    <3>1. \A r \in Relays : previous'[r] = (IF r \in Kept(cycle[s]) THEN cycle[s].map[r] ELSE previous[r])
      BY <1>2 DEF EndCycle
    <3>2. \A r \in Relays : view'[r] =
            (IF r \in Kept(cycle[s]) /\ previous[r] = None
             THEN [version |-> cycle[s].map[r].version, nips |-> cycle[s].map[r].nips] ELSE view[r])
      BY <1>2 DEF EndCycle
    <3> QED
      BY <2>1, <2>2, <3>1, <3>2 DEF Followed
  <2> QED
    BY <2>3 DEF Followed
<1>3. CASE /\ ~\E s \in Slots, ok \in BOOLEAN : BatchSent(s, ok)
           /\ ~\E s \in Slots : EndCycle(s)
  <2>1. UNCHANGED <<previous, view>>
    BY <1>3 DEF Next, Step, vars, maps, ghosts, Tick, Scan, Batch, PublishAssertion, ScanDone,
       BatchDone, BeatsSent, Snapshot, ToAssertions, TransitionSent, AssertSent
  <2> QED
    BY <2>1 DEF Followed
<1> QED
  BY <1>1, <1>2, <1>3

\* A status is never forgotten.
LEMMA StatusStays ==
  ASSUME Types, CycleInv, [Next]_vars, NEW r \in Relays, status[r] # None
  PROVE  status'[r] # None
<1>1. ASSUME NEW s \in Slots, NEW q \in Relays, Scan(s, q) PROVE status'[r] # None
  BY <1>1, StatusTypes DEF Scan, Types
<1>2. ASSUME NEW s \in Slots, NEW ok \in BOOLEAN, TransitionSent(s, ok) PROVE status'[r] # None
  BY <1>2, StatusTypes DEF TransitionSent, Reported, Types
<1>3. ASSUME NEW s \in Slots, ScanDone(s) PROVE status'[r] # None
  BY <1>3 DEF ScanDone, FirstStatuses
<1>4. CASE ~\E s \in Slots :
             \/ \E q \in Relays : Scan(s, q)
             \/ \E ok \in BOOLEAN : TransitionSent(s, ok)
             \/ ScanDone(s)
  <2>1. UNCHANGED status
    BY <1>4 DEF Next, Step, vars, maps, ghosts, Tick, Batch, PublishAssertion,
       BatchDone, BeatsSent, Snapshot, ToAssertions, BatchSent, AssertSent, EndCycle
  <2> QED
    BY <2>1
<1> QED
  BY <1>1, <1>2, <1>3, <1>4

\* A cycle keeps its states, and leaves its scan by ScanDone only.
LEMMA CyclesKeepStates ==
  ASSUME Types, CycleInv, [Next]_vars, NEW o \in InFlight', cycle'[o].phase # "scan"
  PROVE  /\ o \in InFlight /\ cycle'[o].map = cycle[o].map
         /\ cycle[o].phase # "scan" \/ ScanDone(o)
<1> DEFINE Goal == /\ o \in InFlight /\ cycle'[o].map = cycle[o].map
                   /\ cycle[o].phase # "scan" \/ ScanDone(o)
<1>0. o \in Slots /\ cycle'[o].phase # "none"
  BY DEF InFlight
<1>a. ASSUME cycle'[o] = cycle[o] PROVE Goal
  BY <1>0, <1>a DEF InFlight
<1>b. ASSUME NEW s \in Slots, \A x \in Slots \ {s} : cycle'[x] = cycle[x],
             s = o => Goal
      PROVE  Goal
  BY <1>0, <1>a, <1>b
<1>c. ASSUME NEW s \in Slots, NEW c, Goes(s, c), busy' \in {s, None},
             c.phase = "scan" \/ cycle[s].phase # "scan" \/ ScanDone(s)
      PROVE  Goal
  <2>1. cycle'[s] = c /\ \A x \in Slots \ {s} : cycle'[x] = cycle[x]
    BY <1>c, GoesOn
  <2>2. s = o => Goal
    BY <1>c, <2>1 DEF Goes
  <2> QED
    BY <1>b, <2>1, <2>2
<1> HIDE DEF Goal
<1>1. ASSUME NEW s \in Slots, Tick(s) PROVE Goal
  <2>1. s # o
    BY <1>1, TickTypes
  <2> QED
    BY <1>1, <1>b, <2>1, TickTypes
<1>2. ASSUME NEW s \in Slots, NEW r \in Relays, Scan(s, r) PROVE Goal
  <2>1. cycle[s] \in CycleType
    BY DEF Types
  <2>2. cycle'[s].phase = "scan"
    BY <1>2, <2>1, ScanTypes DEF Scan, CycleType
  <2> QED
    BY <1>2, <1>b, <2>2, ScanTypes
<1>3. ASSUME NEW s \in Slots, NEW r \in Relays, Batch(s, r) PROVE Goal
  BY <1>3, <1>c, BatchGoes DEF Batch
<1>4. ASSUME NEW s \in Slots, NEW r \in Relays, PublishAssertion(s, r) PROVE Goal
  BY <1>4, <1>c, PublishAssertionGoes DEF PublishAssertion
<1>5. ASSUME NEW s \in Slots, ScanDone(s) PROVE Goal
  BY <1>5, <1>c, ScanDoneGoes DEF ScanDone
<1>6. ASSUME NEW s \in Slots, BatchDone(s) PROVE Goal
  <2>1. cycle[o] \in CycleType /\ cycle[s].phase = "batch"
    BY <1>0, <1>6, BatchDoneTypes DEF Types
  <2>2. /\ cycle'[o].map = cycle[o].map
        /\ cycle'[o].phase = (IF o = s THEN "beat" ELSE cycle[o].phase)
    <3>1. cycle'[o] =
            [cycle[o] EXCEPT !.seen = {}, !.phase = IF o = s THEN "beat" ELSE cycle[o].phase]
      BY <1>0, <1>6, BatchDoneTypes
    <3> QED
      BY <2>1, <3>1 DEF CycleType
  <2> QED
    BY <1>0, <2>1, <2>2 DEF Goal, InFlight
<1>7. ASSUME NEW s \in Slots, BeatsSent(s) PROVE Goal
  BY <1>7, <1>c, BeatsGo DEF BeatsSent
<1>8. ASSUME NEW s \in Slots, Snapshot(s) PROVE Goal
  BY <1>8, <1>c, SnapshotGoes DEF Snapshot
<1>9. ASSUME NEW s \in Slots, ToAssertions(s) PROVE Goal
  BY <1>9, <1>c, ToAssertionsGoes DEF ToAssertions
<1>10. ASSUME NEW s \in Slots, EndCycle(s) PROVE Goal
  <2>1. s # o
    BY <1>0, <1>10, EndCycleTypes
  <2> QED
    BY <1>10, <1>b, <2>1, EndCycleTypes
<1>11. ASSUME NEW s \in Slots, NEW ok \in BOOLEAN, TransitionSent(s, ok) PROVE Goal
  <2>1. cycle[s] \in CycleType
    BY DEF Types
  <2>2. [cycle[s] EXCEPT !.at = None, !.todo = @ \ {cycle[s].at}].phase = "scan"
    BY <1>11, <2>1 DEF TransitionSent, CycleType
  <2> QED
    BY <1>11, <1>c, <2>2, TransitionGoes DEF TransitionSent
<1>12. ASSUME NEW s \in Slots, NEW ok \in BOOLEAN, BatchSent(s, ok) PROVE Goal
  BY <1>12, <1>c, BatchSentGoes DEF BatchSent
<1>13. ASSUME NEW s \in Slots, NEW ok \in BOOLEAN, AssertSent(s, ok) PROVE Goal
  BY <1>13, <1>c, AssertSentGoes DEF AssertSent
<1>14. CASE UNCHANGED vars
  <2>1. cycle' = cycle
    BY <1>14 DEF vars
  <2> QED
    BY <2>1, <1>a DEF Goal
<1> QED
  BY <1>1, <1>2, <1>3, <1>4, <1>5, <1>6, <1>7, <1>8, <1>9, <1>10, <1>11, <1>12, <1>13, <1>14
  DEF Next, Step, Goal

LEMMA RecordedStep ==
  ASSUME Types, CycleInv, Recorded, [Next]_vars
  PROVE  Recorded'
<1> SUFFICES ASSUME NEW o \in InFlight', cycle'[o].phase # "scan", NEW r \in Present(cycle[o].map)
             PROVE  status'[r] # None
  BY CyclesKeepStates DEF Recorded
<1>1. o \in InFlight /\ r \in Relays /\ cycle[o].map[r] # None
  BY CyclesKeepStates DEF Present
<1>2. CASE cycle[o].phase # "scan"
  BY <1>1, <1>2, StatusStays DEF Recorded
<1>3. CASE ScanDone(o)
  BY <1>1, <1>3, StatusTypes DEF ScanDone, FirstStatuses
<1> QED
  BY <1>2, <1>3, CyclesKeepStates

LEMMA ToldStep ==
  ASSUME Types, CycleInv, ToldOnRecord, [Next]_vars
  PROVE  ToldOnRecord'
<1>1. ASSUME NEW s \in Slots, NEW q \in Relays, Scan(s, q) PROVE ToldOnRecord'
  BY <1>1 DEF Scan, Types, ToldOnRecord
<1>2. ASSUME NEW s \in Slots, NEW ok \in BOOLEAN, TransitionSent(s, ok) PROVE ToldOnRecord'
  <2>1. cycle[s].at \in Relays
    BY <1>2, TransitionGoes
  <2> QED
    BY <1>2, <2>1 DEF TransitionSent, Reported, Types, ToldOnRecord
<1>3. ASSUME NEW s \in Slots, ScanDone(s) PROVE ToldOnRecord'
  BY <1>3 DEF ScanDone, FirstStatuses, ghosts, ToldOnRecord
<1>4. CASE ~\E s \in Slots :
             \/ \E q \in Relays : Scan(s, q)
             \/ \E ok \in BOOLEAN : TransitionSent(s, ok)
             \/ ScanDone(s)
  <2>1. UNCHANGED <<status, told>>
    BY <1>4 DEF Next, Step, vars, maps, ghosts, Tick, Batch, PublishAssertion,
       BatchDone, BeatsSent, Snapshot, ToAssertions, BatchSent, AssertSent, EndCycle
  <2>2. ASSUME NEW s \in Slots, Tick(s) \/ Step(s) PROVE off'.status = off.status
    <3>1. off' = off \/ \E x : off' = [off EXCEPT !.delta = x] \/ off' = [off EXCEPT !.score = x]
      BY <1>4, <2>2 DEF Step, maps, ghosts, Tick, Batch, PublishAssertion,
         BatchDone, BeatsSent, Snapshot, ToAssertions, BatchSent, AssertSent, EndCycle
    <3> QED
      BY <3>1 DEF Types
  <2>3. off'.status = off.status
    BY <2>2 DEF Next, vars, ghosts
  <2> QED
    BY <2>1, <2>3 DEF ToldOnRecord
<1> QED
  BY <1>1, <1>2, <1>3, <1>4

-----------------------------------------------------------------------------
(* Assertions                                                               *)

Asserting(s) ==
  \/ ToAssertions(s)
  \/ \E r \in Relays : PublishAssertion(s, r)
  \/ \E ok \in BOOLEAN : AssertSent(s, ok)

\* Only these steps of a cycle change what it goes by while it asserts.
LEMMA AssertsAlone ==
  ASSUME Types, CycleInv, [Next]_vars, NEW o \in Slots, cycle'[o].phase = "assert", ~Asserting(o)
  PROVE  /\ cycle[o].phase = "assert"
         /\ cycle'[o].todo = cycle[o].todo /\ cycle'[o].list = cycle[o].list
<1> DEFINE Goal == /\ cycle[o].phase = "assert"
                   /\ cycle'[o].todo = cycle[o].todo /\ cycle'[o].list = cycle[o].list
<1>a. ASSUME cycle'[o] = cycle[o] PROVE Goal
  BY <1>a
<1>b. ASSUME NEW s \in Slots, \A x \in Slots \ {s} : cycle'[x] = cycle[x],
             cycle'[s].phase # "assert" \/ Asserting(s)
      PROVE  Goal
  BY <1>a, <1>b
<1>c. ASSUME NEW s \in Slots, NEW c, Goes(s, c), busy' \in {s, None},
             c.phase # "assert" \/ Asserting(s)
      PROVE  Goal
  <2>1. cycle'[s] = c /\ \A x \in Slots \ {s} : cycle'[x] = cycle[x]
    BY <1>c, GoesOn
  <2> QED
    BY <1>b, <1>c, <2>1
<1>d. \A s \in Slots : cycle[s] \in CycleType
  BY DEF Types
<1> HIDE DEF Goal
<1>1. ASSUME NEW s \in Slots, Tick(s) PROVE Goal
  BY <1>1, <1>b, TickTypes
<1>2. ASSUME NEW s \in Slots, NEW r \in Relays, Scan(s, r) PROVE Goal
  <2>1. cycle'[s].phase = "scan"
    BY <1>2, <1>d, ScanTypes DEF Scan, CycleType
  <2> QED
    BY <1>2, <1>b, <2>1, ScanTypes
<1>3. ASSUME NEW s \in Slots, NEW r \in Relays, Batch(s, r) PROVE Goal
  <2>1. cycle[s] \in CycleType /\ cycle[s].phase = "batch"
    BY <1>3, <1>d DEF Batch
  <2>2. /\ [cycle[s] EXCEPT !.seen = @ \cup {r}].phase = "batch"
        /\ [cycle[s] EXCEPT !.at = r, !.delta = Wire(acc[r]), !.seen = @ \cup {r}].phase = "batch"
    BY <2>1 DEF CycleType
  <2> QED
    BY <1>3, <1>c, <2>2, BatchGoes DEF Batch
<1>4. ASSUME NEW s \in Slots, ScanDone(s) PROVE Goal
  <2>1. \A p \in {"batch", "snapshot"} : [cycle[s] EXCEPT !.now = tick, !.phase = p].phase # "assert"
    BY <1>d DEF CycleType
  <2> QED
    BY <1>4, <1>c, <2>1, ScanDoneGoes DEF ScanDone
<1>5. ASSUME NEW s \in Slots, BatchDone(s) PROVE Goal
  <2>1. cycle'[o] =
          [cycle[o] EXCEPT !.seen = {}, !.phase = IF o = s THEN "beat" ELSE cycle[o].phase]
    BY <1>5, BatchDoneTypes
  <2> QED
    BY <1>d, <2>1 DEF Goal, CycleType
<1>6. ASSUME NEW s \in Slots, BeatsSent(s) PROVE Goal
  <2>1. [cycle[s] EXCEPT !.phase = "snapshot"].phase # "assert"
    BY <1>d DEF CycleType
  <2> QED
    BY <1>6, <1>c, <2>1, BeatsGo DEF BeatsSent
<1>7. ASSUME NEW s \in Slots, Snapshot(s) PROVE Goal
  <2>1. [cycle[s] EXCEPT !.phase = "counted"].phase # "assert"
    BY <1>d DEF CycleType
  <2> QED
    BY <1>7, <1>c, <2>1, SnapshotGoes DEF Snapshot
<1>8. ASSUME NEW s \in Slots, EndCycle(s) PROVE Goal
  BY <1>8, <1>b, EndCycleTypes
<1>9. ASSUME NEW s \in Slots, NEW ok \in BOOLEAN, TransitionSent(s, ok) PROVE Goal
  <2>1. [cycle[s] EXCEPT !.at = None, !.todo = @ \ {cycle[s].at}].phase = "scan"
    BY <1>9, <1>d DEF TransitionSent, CycleType
  <2> QED
    BY <1>9, <1>c, <2>1, TransitionGoes DEF TransitionSent
<1>10. ASSUME NEW s \in Slots, NEW ok \in BOOLEAN, BatchSent(s, ok) PROVE Goal
  <2>1. [cycle[s] EXCEPT !.at = None, !.delta = NoDelta].phase = "batch"
    BY <1>10, <1>d DEF BatchSent, CycleType
  <2> QED
    BY <1>10, <1>c, <2>1, BatchSentGoes DEF BatchSent
<1>11. ASSUME NEW s \in Slots, ToAssertions(s) PROVE Goal
  BY <1>11, <1>c, ToAssertionsGoes DEF ToAssertions, Asserting
<1>12. ASSUME NEW s \in Slots, NEW r \in Relays, PublishAssertion(s, r) PROVE Goal
  BY <1>12, <1>c, PublishAssertionGoes DEF PublishAssertion, Asserting
<1>13. ASSUME NEW s \in Slots, NEW ok \in BOOLEAN, AssertSent(s, ok) PROVE Goal
  BY <1>13, <1>c, AssertSentGoes DEF AssertSent, Asserting
<1>14. CASE UNCHANGED vars
  <2>1. cycle' = cycle
    BY <1>14 DEF vars
  <2> QED
    BY <2>1, <1>a DEF Goal
<1> QED
  BY <1>1, <1>2, <1>3, <1>4, <1>5, <1>6, <1>7, <1>8, <1>9, <1>10, <1>11, <1>12, <1>13, <1>14
  DEF Next, Step, Goal

\* What AssertionsNear says of one cycle and one relay.
Near(s, r) ==
  cycle[s].phase = "assert" /\ r \notin cycle[s].todo \cup off.score /\ cycle[s].list[r] # None =>
    /\ asserted[r] # None
    /\ asserted[r] - cycle[s].list[r] < Threshold
    /\ cycle[s].list[r] - asserted[r] < Threshold

LEMMA NearStep ==
  ASSUME Types, CycleInv, \A s \in Slots, r \in Relays : Near(s, r), [Next]_vars
  PROVE  \A s \in Slots, r \in Relays : Near(s, r)'
<1>0. \A s \in Slots : cycle[s] \in CycleType
  BY DEF Types
<1>1. ASSUME NEW s \in Slots, NEW ok \in BOOLEAN, AssertSent(s, ok),
             NEW o \in Slots, NEW r \in Relays
      PROVE  Near(o, r)'
  <2> DEFINE q == cycle[s].at
             c == [cycle[s] EXCEPT !.at = None, !.todo = @ \ {q}]
  <2>1. /\ cycle'[s] = c /\ cycle'[s].phase = "assert" /\ cycle'[s].list = cycle[s].list
        /\ cycle'[s].todo = cycle[s].todo \ {q} /\ q \in Relays
        /\ \A x \in Slots \ {s} : cycle'[x] = cycle[x]
    <3>1. cycle'[s] = c /\ q \in Relays /\ \A x \in Slots \ {s} : cycle'[x] = cycle[x]
      BY <1>1, AssertSentGoes, GoesOn DEF AssertSent
    <3> QED
      BY <1>0, <1>1, <3>1 DEF AssertSent, CycleType
  <2>2. CASE r # q
    <3>1. asserted'[r] = asserted[r] /\ (r \in off'.score <=> r \in off.score)
      BY <1>1, <2>2 DEF AssertSent, Remembered, Types
    <3>2. /\ cycle'[o].phase = "assert" => cycle[o].phase = "assert"
          /\ cycle'[o].list[r] = cycle[o].list[r]
          /\ r \in cycle[o].todo => r \in cycle'[o].todo
      BY <1>1, <2>1, <2>2 DEF AssertSent
    <3> QED
      BY <3>1, <3>2 DEF Near
  <2>3. CASE r = q /\ ok
    <3>1. CASE \E x \in InFlight \ {s} : cycle[x].phase = "assert"
      BY <1>1, <2>3, <3>1 DEF AssertSent, Near, Types
    <3>2. CASE \A x \in InFlight \ {s} : cycle[x].phase # "assert"
      <4>1. o # s => cycle'[o].phase # "assert"
        BY <2>1, <3>2 DEF InFlight
      <4>2. asserted'[r] = cycle[s].list[r]
        BY <1>1, <2>3 DEF AssertSent, Remembered, Types
      <4>3. cycle[s].list[r] \in Nat \cup {None}
        BY <1>0 DEF CycleType
      <4>4. o = s => Near(o, r)'
        <5>1. cycle'[s].list[r] = cycle[s].list[r]
          BY <2>1
        <5> QED
          BY <4>2, <4>3, <5>1 DEF Near
      <4> QED
        BY <4>1, <4>4 DEF Near
    <3> QED
      BY <3>1, <3>2
  <2>4. CASE r = q /\ ~ok
    BY <1>1, <2>4 DEF AssertSent, Near, Types
  <2> QED
    BY <2>2, <2>3, <2>4
<1>2. CASE ~\E s \in Slots, ok \in BOOLEAN : AssertSent(s, ok)
  <2>1. UNCHANGED asserted
    BY <1>2 DEF Next, Step, vars, maps, ghosts, Tick, Scan, Batch, PublishAssertion, ScanDone,
       BatchDone, BeatsSent, Snapshot, ToAssertions, TransitionSent, BatchSent, EndCycle
  <2>2. off'.score = off.score
    <3>1. ASSUME NEW s \in Slots, Tick(s) \/ Step(s) PROVE off'.score = off.score
      <4>1. off' = off \/ \E x : off' = [off EXCEPT !.delta = x] \/ off' = [off EXCEPT !.status = x]
        BY <1>2, <3>1 DEF Step, maps, ghosts, Tick, Scan, Batch, PublishAssertion, ScanDone,
           BatchDone, BeatsSent, Snapshot, ToAssertions, TransitionSent, BatchSent, EndCycle
      <4> QED
        BY <4>1 DEF Types
    <3> QED
      BY <3>1 DEF Next, vars, ghosts
  <2>3. ASSUME NEW o \in Slots, NEW r \in Relays PROVE Near(o, r)'
    <3>1. CASE ~Asserting(o)
      BY <2>1, <2>2, <3>1, AssertsAlone DEF Near
    <3>2. CASE ToAssertions(o)
      <4> DEFINE c == Listed(o)
      <4>1. cycle'[o] = c
        BY <3>2, ToAssertionsGoes, GoesOn DEF ToAssertions
      <4>2. cycle'[o].todo = Present(core) /\ cycle'[o].list = Scores
        BY <1>0, <4>1 DEF CycleType, Listed
      <4> QED
        BY <4>2 DEF Near, Scores, Present
    <3>3. ASSUME NEW q \in Relays, PublishAssertion(o, q) PROVE Near(o, r)'
      <4>1. /\ cycle'[o].list = cycle[o].list /\ cycle[o].phase = "assert"
            /\ \/ cycle'[o].todo = cycle[o].todo
               \/ cycle'[o].todo = cycle[o].todo \ {q} /\ ~Shown(o, q, cycle[o].list[q])
        <5>1. \/ cycle'[o] = [cycle[o] EXCEPT !.at = q]
              \/ /\ cycle'[o] = [cycle[o] EXCEPT !.todo = @ \ {q}]
                 /\ ~Shown(o, q, cycle[o].list[q])
          <6>1. busy' \in {o, None}
            BY <3>3 DEF PublishAssertion
          <6>2. CASE Goes(o, [cycle[o] EXCEPT !.at = q])
            BY <6>1, <6>2, GoesOn
          <6>3. CASE /\ ~Shown(o, q, cycle[o].list[q])
                     /\ Goes(o, [cycle[o] EXCEPT !.todo = @ \ {q}])
            BY <6>1, <6>3, GoesOn
          <6> QED
            BY <3>3, <6>2, <6>3, PublishAssertionGoes
        <5> QED
          BY <1>0, <3>3, <5>1 DEF PublishAssertion, CycleType
      <4>2. cycle[o].list[q] \in Nat \cup {None} /\ asserted[q] \in Nat \cup {None}
        BY <1>0 DEF CycleType, Types
      <4>3. CASE cycle'[o].todo = cycle[o].todo
        BY <2>1, <2>2, <4>1, <4>3 DEF Near
      <4>4. CASE cycle'[o].todo = cycle[o].todo \ {q} /\ ~Shown(o, q, cycle[o].list[q])
        <5>1. CASE r = q
          BY <2>1, <4>1, <4>2, <4>4, <5>1 DEF Near, Shown
        <5>2. CASE r # q
          BY <2>1, <2>2, <4>1, <4>4, <5>2 DEF Near
        <5> QED
          BY <5>1, <5>2
      <4> QED
        BY <4>1, <4>3, <4>4
    <3> QED
      BY <1>2, <3>1, <3>2, <3>3 DEF Asserting
  <2> QED
    BY <2>3
<1> QED
  BY <1>1, <1>2

-----------------------------------------------------------------------------
(* Deltas                                                                   *)

\* A follower that knows v, and is told d, knows the state x (who is not told
\* that a version is gone goes on with the one it knows).
Fits(d, v, x) ==
  /\ Apply(d, v).nips = x.nips
  /\ Apply(d, v).version = IF x.version = None THEN v.version ELSE x.version

\* What d has to add is new to v, and what it takes away is there.
Apart(d, v) == d.plus \cap v.nips = {} /\ d.minus \subseteq v.nips

LEMMA ApplyNothing ==
  ASSUME NEW v \in Views
  PROVE  Apply(NoDelta, v) = v
BY DEF Apply, NoDelta, Views

LEMMA ApplyTwice ==
  ASSUME NEW v \in Views, NEW d \in Deltas
  PROVE  Apply(d, Apply(d, v)) = Apply(d, v)
BY DEF Apply, Views, Deltas

\* detectDeltas finds what leads from a state to the next.
LEMMA DetectLeads ==
  ASSUME NEW v \in Views, NEW p \in States, NEW c \in States, Fits(NoDelta, v, p)
  PROVE  /\ Fits(Wire(Detect(p, c)), v, c) /\ Apart(Detect(p, c), v)
         /\ Detect(p, c) = NoDelta => Fits(NoDelta, v, c)
<1>1. v.nips = p.nips /\ (p.version # None => v.version = p.version)
  BY DEF Fits, Apply, NoDelta
<1>2. Apart(Detect(p, c), v)
  BY <1>1 DEF Apart, Detect
<1>3. Fits(Wire(Detect(p, c)), v, c)
  BY <1>1 DEF Fits, Wire, Detect, Apply
<1>4. ASSUME Detect(p, c) = NoDelta PROVE Fits(NoDelta, v, c)
  <2>1. p.version = c.version /\ p.nips \ c.nips = {} /\ c.nips \ p.nips = {}
    BY <1>4 DEF Detect, NoDelta
  <2> QED
    BY <1>1, <2>1 DEF Fits, Apply, NoDelta
<1> QED
  BY <1>2, <1>3, <1>4

\* mergeDeltas makes one delta of two that follow one another, as long as the
\* first has not been told yet.
LEMMA MergeLeads ==
  ASSUME NEW v \in Views, NEW e \in Deltas, NEW p \in States, NEW c \in States,
         Fits(Wire(e), v, p), Apart(e, v)
  PROVE  /\ Fits(Wire(Merge(e, Detect(p, c))), v, c) /\ Apart(Merge(e, Detect(p, c)), v)
         /\ Detect(p, c) = NoDelta => Fits(Wire(e), v, c)
<1>1. /\ p.nips = (v.nips \cup e.plus) \ e.minus
      /\ (IF p.version = None THEN v.version ELSE p.version)
           = IF e.set /\ e.version # None THEN e.version ELSE v.version
  BY DEF Fits, Apply, Wire, Deltas
<1> DEFINE m == Merge(e, Detect(p, c))
           plus == e.plus \cup (c.nips \ p.nips)
           minus == e.minus \cup (p.nips \ c.nips)
<1>2. /\ m.plus = plus \ minus /\ m.minus = minus \ plus
      /\ m.set = (e.set \/ p.version # c.version)
      /\ m.version = IF p.version # c.version THEN c.version ELSE e.version
  BY DEF Merge, Detect
<1>3. Apart(m, v)
  BY <1>1, <1>2 DEF Apart
<1>4. (v.nips \cup m.plus) \ m.minus = c.nips
  BY <1>1, <1>2 DEF Apart
<1>a. m \in Deltas
  BY DetectType, MergeType
<1> HIDE DEF m
<1>5. Fits(Wire(m), v, c)
  <2>1. Apply(Wire(m), v).nips = c.nips
    BY <1>a, <1>4 DEF Apply, Wire, Deltas
  <2>2. Apply(Wire(m), v).version = IF m.set /\ m.version # None THEN m.version ELSE v.version
    BY <1>a DEF Apply, Wire, Deltas
  <2> QED
    BY <1>1, <1>2, <2>1, <2>2 DEF Fits, Deltas
<1>6. ASSUME Detect(p, c) = NoDelta PROVE Fits(Wire(e), v, c)
  <2>1. p.version = c.version /\ p.nips \ c.nips = {} /\ c.nips \ p.nips = {}
    BY <1>6 DEF Detect, NoDelta
  <2>2. p.nips = c.nips
    BY <2>1
  <2> QED
    BY <2>1, <2>2 DEF Fits
<1> QED
  BY <1>3, <1>5, <1>6 DEF m

-----------------------------------------------------------------------------
(* The chain of a relay's deltas                                            *)

\* A cycle has been through r and will make its state the previous one; its
\* batch has seen r; its batch is sending the deltas of r.
Hands(s, r) == cycle[s].phase # "none" /\ Handled(s, r)
Seen(s, r) == cycle[s].phase = "batch" /\ r \in cycle[s].seen
Sending(s, r) == cycle[s].phase = "batch" /\ cycle[s].at = r

Pending(r) == IF acc[r] = None THEN NoDelta ELSE Wire(acc[r])

\* At most one cycle has r in hand; what is published and what is pending fit
\* its state. What is pending has not been told, or, once a batch has seen it,
\* has been told or is being sent, and can be told again.
ChainOf(r) ==
  /\ \A s, o \in Slots : Hands(s, r) /\ Hands(o, r) => s = o
  /\ previous[r] # None =>
       /\ \A s \in Slots : Hands(s, r) => Fits(Pending(r), view[r], cycle[s].map[r])
       /\ (\A s \in Slots : ~Hands(s, r)) => Fits(Pending(r), view[r], previous[r])
  /\ acc[r] # None /\ (\A s \in Slots : ~Seen(s, r) /\ ~Sending(s, r)) => Apart(acc[r], view[r])
  /\ \A s \in Slots : Sending(s, r) =>
       IF acc[r] = None THEN Apply(cycle[s].delta, view[r]) = view[r]
       ELSE Seen(s, r) /\ cycle[s].delta = Wire(acc[r])
  /\ \A s \in Slots : Seen(s, r) /\ ~Sending(s, r) /\ acc[r] # None =>
       Apply(Wire(acc[r]), view[r]) = view[r]

Chain(r) ==
  /\ acc[r] # None \/ (\E s \in Slots : Sending(s, r)) => previous[r] # None
  /\ r \notin off.delta => ChainOf(r)

\* The state r was found in, as seen from the cycle that has it in hand.
LEMMA ReachedBy ==
  \A r \in Relays : ChainOf(r) =>
    /\ \A s \in Slots : Hands(s, r) => Reached(r) = cycle[s].map[r]
    /\ (\A s \in Slots : ~Hands(s, r)) => Reached(r) = previous[r]
<1> SUFFICES ASSUME NEW r \in Relays, ChainOf(r)
             PROVE  /\ \A s \in Slots : Hands(s, r) => Reached(r) = cycle[s].map[r]
                    /\ (\A s \in Slots : ~Hands(s, r)) => Reached(r) = previous[r]
  OBVIOUS
<1> DEFINE by == {s \in InFlight : Handled(s, r)}
           x == CHOOSE s \in by : TRUE
<1>1. by \subseteq Slots /\ \A s \in Slots : s \in by <=> Hands(s, r)
  BY DEF Hands, InFlight
<1>2. Reached(r) = IF by = {} THEN previous[r] ELSE cycle[x].map[r]
  BY DEF Reached
<1>3. by # {} => x \in by
  OBVIOUS
<1> HIDE DEF by, x
<1>4. ASSUME NEW s \in Slots, Hands(s, r) PROVE Reached(r) = cycle[s].map[r]
  <2>1. s \in by /\ x = s
    BY <1>1, <1>3, <1>4 DEF ChainOf
  <2> QED
    BY <1>2, <2>1
<1>5. (\A s \in Slots : ~Hands(s, r)) => Reached(r) = previous[r]
  BY <1>1, <1>2
<1> QED
  BY <1>4, <1>5

LEMMA ReachedByNext ==
  (\A r \in Relays : ChainOf(r) =>
    /\ \A s \in Slots : Hands(s, r) => Reached(r) = cycle[s].map[r]
    /\ (\A s \in Slots : ~Hands(s, r)) => Reached(r) = previous[r])'
BY ReachedBy, PTL

\* What a step may do to those who follow r.
Lags(r) ==
  \/ Found(r)' = Found(r) /\ view'[r] = view[r]
  \/ Found(r)' # None /\ view'[r] = view[r]
  \/ /\ Found(r) # None /\ Found(r)' = Found(r)
     /\ view'[r] = Follower!Told(Found(r), view[r])

\* What every step does: it keeps the chain, and its followers lag behind r.
Follows(r) == Chain(r)' /\ (r \notin off'.delta => Lags(r))

\* A step leaves a cycle's part in r as it was.
Same(s, r) ==
  /\ Hands(s, r)' <=> Hands(s, r)
  /\ Seen(s, r)' <=> Seen(s, r)
  /\ Sending(s, r)' <=> Sending(s, r)
  /\ cycle'[s].map[r] = cycle[s].map[r] \/ ~Hands(s, r)
  /\ cycle'[s].delta = cycle[s].delta \/ ~Sending(s, r)

LEMMA Frame ==
  ASSUME NEW r \in Relays, Chain(r), \A s \in Slots : Same(s, r),
         acc'[r] = acc[r], previous'[r] = previous[r], view'[r] = view[r],
         r \in off.delta => r \in off'.delta
  PROVE  Follows(r)
<1>1. Pending(r)' = Pending(r)
  BY DEF Pending
<1>2. ASSUME r \notin off'.delta PROVE ChainOf(r)'
  <2>1. ChainOf(r)
    BY <1>2 DEF Chain
  <2>2. \A s, o \in Slots : Hands(s, r)' /\ Hands(o, r)' => s = o
    BY <2>1 DEF ChainOf, Same
  <2>3. previous'[r] # None =>
          /\ \A s \in Slots : Hands(s, r)' => Fits(Pending(r)', view'[r], cycle'[s].map[r])
          /\ (\A s \in Slots : ~Hands(s, r)') => Fits(Pending(r)', view'[r], previous'[r])
    BY <1>1, <2>1 DEF ChainOf, Same
  <2>4. acc'[r] # None /\ (\A s \in Slots : ~Seen(s, r)' /\ ~Sending(s, r)') => Apart(acc'[r], view'[r])
    BY <2>1 DEF ChainOf, Same
  <2>5. \A s \in Slots : Sending(s, r)' =>
          IF acc'[r] = None THEN Apply(cycle'[s].delta, view'[r]) = view'[r]
          ELSE Seen(s, r)' /\ cycle'[s].delta = Wire(acc'[r])
    BY <2>1 DEF ChainOf, Same
  <2>6. \A s \in Slots : Seen(s, r)' /\ ~Sending(s, r)' /\ acc'[r] # None =>
          Apply(Wire(acc'[r]), view'[r]) = view'[r]
    BY <2>1 DEF ChainOf, Same
  <2> QED
    BY <2>2, <2>3, <2>4, <2>5, <2>6 DEF ChainOf
<1>3. acc'[r] # None \/ (\E s \in Slots : Sending(s, r)') => previous'[r] # None
  BY DEF Chain, Same
<1>4. ASSUME r \notin off'.delta PROVE Lags(r)
  <2>1. ChainOf(r) /\ ChainOf(r)'
    BY <1>2, <1>4 DEF Chain
  <2>2. Reached(r)' = Reached(r)
    BY <2>1, ReachedBy, ReachedByNext DEF Same
  <2> QED
    BY <2>2 DEF Lags, Found
<1> QED
  BY <1>2, <1>3, <1>4 DEF Chain, Follows

\* A cycle that the step does not touch.
LEMMA SameCycle ==
  ASSUME NEW s, NEW r, cycle'[s] = cycle[s]
  PROVE  Same(s, r)
BY DEF Same, Hands, Handled, Seen, Sending

\* A cycle neither before nor after the step in a batch, whose scan has got as
\* far as before.
LEMMA SameBeyond ==
  ASSUME NEW s, NEW r,
         cycle[s].phase \notin {"none", "scan", "batch"}, cycle'[s].phase \notin {"none", "scan", "batch"},
         cycle'[s].changed = cycle[s].changed, cycle'[s].map = cycle[s].map
  PROVE  Same(s, r)
BY DEF Same, Hands, Handled, Seen, Sending

ChainInv == Types /\ CycleInv /\ Followed /\ \A r \in Relays : Chain(r)

LEMMA TickChain ==
  ASSUME ChainInv, NEW s \in Slots, Tick(s), NEW r \in Relays
  PROVE  Follows(r)
<1>1. /\ cycle[s].phase = "none" /\ cycle'[s].phase = "scan"
      /\ cycle'[s].todo = cycle'[s].changed /\ cycle'[s].at = None
      /\ \A o \in Slots \ {s} : cycle'[o] = cycle[o]
  BY TickTypes DEF ChainInv
<1>2. Same(s, r)
  BY <1>1 DEF Same, Hands, Handled, Seen, Sending
<1>3. \A o \in Slots : Same(o, r)
  BY <1>1, <1>2, SameCycle
<1> QED
  BY <1>3, Frame DEF ChainInv, Tick, maps, ghosts

LEMMA TransitionChain ==
  ASSUME ChainInv, NEW s \in Slots, NEW ok \in BOOLEAN, TransitionSent(s, ok), NEW r \in Relays
  PROVE  Follows(r)
<1> DEFINE q == cycle[s].at
           c == [cycle[s] EXCEPT !.at = None, !.todo = @ \ {q}]
<1>1. cycle[s] \in CycleType /\ cycle[s].phase = "scan"
  BY DEF ChainInv, Types, TransitionSent
<1>2. cycle'[s] = c /\ \A o \in Slots \ {s} : cycle'[o] = cycle[o]
  BY TransitionGoes, GoesOn DEF ChainInv, TransitionSent
<1>3. /\ cycle'[s].phase = "scan" /\ cycle'[s].at = None /\ cycle'[s].todo = cycle[s].todo \ {q}
      /\ cycle'[s].changed = cycle[s].changed /\ cycle'[s].map = cycle[s].map
  BY <1>1, <1>2 DEF CycleType
<1>4. Same(s, r)
  BY <1>1, <1>3 DEF Same, Hands, Handled, Seen, Sending
<1>5. \A o \in Slots : Same(o, r)
  BY <1>2, <1>4, SameCycle
<1>6. off'.delta = off.delta
  BY DEF ChainInv, Types, TransitionSent
<1> QED
  BY <1>5, <1>6, Frame DEF ChainInv, TransitionSent

LEMMA ScanDoneChain ==
  ASSUME ChainInv, NEW s \in Slots, ScanDone(s), NEW r \in Relays
  PROVE  Follows(r)
<1>1. /\ cycle[s] \in CycleType /\ cycle[s].phase = "scan" /\ cycle[s].at = None
      /\ cycle[s].todo = {} /\ cycle[s].seen = {}
  BY DEF ChainInv, Types, CycleInv, ScanDone
<1>2. PICK p \in {"batch", "snapshot"} : Goes(s, [cycle[s] EXCEPT !.now = tick, !.phase = p])
  BY ScanDoneGoes DEF ChainInv
<1>3. /\ cycle'[s] = [cycle[s] EXCEPT !.now = tick, !.phase = p]
      /\ \A o \in Slots \ {s} : cycle'[o] = cycle[o]
  BY <1>2, GoesOn DEF ChainInv, ScanDone
<1>4. /\ cycle'[s].phase = p /\ cycle'[s].at = None /\ cycle'[s].seen = {}
      /\ cycle'[s].changed = cycle[s].changed /\ cycle'[s].map = cycle[s].map
  BY <1>1, <1>3 DEF CycleType
<1>5. Same(s, r)
  BY <1>1, <1>4 DEF Same, Hands, Handled, Seen, Sending
<1>6. \A o \in Slots : Same(o, r)
  BY <1>3, <1>5, SameCycle
<1> QED
  BY <1>6, Frame DEF ChainInv, ScanDone, ghosts

\* The steps after a batch change nothing that the chain is made of.
LEMMA BeyondChain ==
  ASSUME ChainInv, NEW s \in Slots, NEW r \in Relays,
         \/ BeatsSent(s) \/ Snapshot(s) \/ ToAssertions(s)
         \/ \E q \in Relays : PublishAssertion(s, q)
         \/ \E ok \in BOOLEAN : AssertSent(s, ok)
  PROVE  Follows(r)
<1>1. ASSUME NEW c, Goes(s, c), busy' \in {s, None}, c.phase \notin {"scan", "batch"},
             cycle[s].phase \notin {"none", "scan", "batch"}
      PROVE  \A o \in Slots : Same(o, r)
  <2>1. cycle'[s] = c /\ \A o \in Slots \ {s} : cycle'[o] = cycle[o]
    BY <1>1, GoesOn DEF ChainInv
  <2>2. Same(s, r)
    BY <1>1, <2>1, SameBeyond DEF Goes
  <2> QED
    BY <2>1, <2>2, SameCycle
<1>2. cycle[s] \in CycleType /\ Types /\ CycleInv
  BY DEF ChainInv, Types
<1>3. CASE BeatsSent(s)
  <2>1. [cycle[s] EXCEPT !.phase = "snapshot"].phase = "snapshot"
    BY <1>2 DEF CycleType
  <2>2. \A o \in Slots : Same(o, r)
    BY <1>1, <1>2, <1>3, <2>1, BeatsGo DEF BeatsSent
  <2> QED
    BY <1>3, <2>2, Frame DEF ChainInv, BeatsSent, ghosts
<1>4. CASE Snapshot(s)
  <2>1. [cycle[s] EXCEPT !.phase = "counted"].phase = "counted"
    BY <1>2 DEF CycleType
  <2>2. \A o \in Slots : Same(o, r)
    BY <1>1, <1>2, <1>4, <2>1, SnapshotGoes DEF Snapshot
  <2> QED
    BY <1>4, <2>2, Frame DEF ChainInv, Snapshot, maps, ghosts
<1>5. CASE ToAssertions(s)
  <2>1. Listed(s).phase = "assert"
    BY <1>2 DEF CycleType, Listed
  <2>2. \A o \in Slots : Same(o, r)
    BY <1>1, <1>2, <1>5, <2>1, ToAssertionsGoes DEF ToAssertions
  <2> QED
    BY <1>5, <2>2, Frame DEF ChainInv, ToAssertions, ghosts
<1>6. ASSUME NEW q \in Relays, PublishAssertion(s, q) PROVE Follows(r)
  <2>1. /\ [cycle[s] EXCEPT !.at = q].phase = "assert"
        /\ [cycle[s] EXCEPT !.todo = @ \ {q}].phase = "assert"
    BY <1>2, <1>6 DEF CycleType, PublishAssertion
  <2>2. \A o \in Slots : Same(o, r)
    BY <1>1, <1>2, <1>6, <2>1, PublishAssertionGoes DEF PublishAssertion
  <2> QED
    BY <1>6, <2>2, Frame DEF ChainInv, PublishAssertion, maps, ghosts
<1>7. ASSUME NEW ok \in BOOLEAN, AssertSent(s, ok) PROVE Follows(r)
  <2>1. [cycle[s] EXCEPT !.at = None, !.todo = @ \ {cycle[s].at}].phase = "assert"
    BY <1>2, <1>7 DEF CycleType, AssertSent
  <2>2. \A o \in Slots : Same(o, r)
    BY <1>1, <1>2, <1>7, <2>1, AssertSentGoes DEF AssertSent
  <2>3. off'.delta = off.delta
    BY <1>2, <1>7 DEF Types, AssertSent
  <2> QED
    BY <1>7, <2>2, <2>3, Frame DEF ChainInv, AssertSent
<1> QED
  BY <1>3, <1>4, <1>5, <1>6, <1>7

\* The relay that is scanned has new deltas, unless two cycles are about it.
LEMMA ScanChain ==
  ASSUME ChainInv, NEW s \in Slots, NEW q \in Relays, Scan(s, q), NEW r \in Relays
  PROVE  Follows(r)
<1> DEFINE c == cycle[s].map[q]
           p == previous[q]
<1>1. /\ cycle[s] \in CycleType /\ cycle[s].phase = "scan" /\ cycle[s].at = None
      /\ q \in cycle[s].todo /\ q \in cycle[s].changed /\ c \in States
      /\ \A o \in Slots \ {s} : cycle'[o] = cycle[o]
  BY ScanTypes DEF ChainInv, Types, CycleInv, Scan
<1>2. /\ cycle'[s].phase = "scan" /\ cycle'[s].changed = cycle[s].changed
      /\ cycle'[s].map = cycle[s].map
      /\ \/ cycle'[s].at = q /\ cycle'[s].todo = cycle[s].todo
         \/ cycle'[s].at = None /\ cycle'[s].todo = cycle[s].todo \ {q}
  <2>1. cycle'[s] \in {[cycle[s] EXCEPT !.at = q], [cycle[s] EXCEPT !.todo = @ \ {q}]}
    BY ScanTypes DEF ChainInv
  <2> QED
    BY <1>1, <2>1 DEF CycleType
<1>3. /\ previous' = previous /\ view' = view
      /\ acc' = Gather(q, p, c)
      /\ off'.delta = IF Raced(s, q) THEN off.delta \cup {q} ELSE off.delta
  BY DEF Scan, ChainInv, Types
<1>4. CASE r # q
  <2>1. Same(s, r)
    BY <1>1, <1>2, <1>4 DEF Same, Hands, Handled, Seen, Sending
  <2>2. \A o \in Slots : Same(o, r)
    BY <1>1, <2>1, SameCycle
  <2>3. acc'[r] = acc[r]
    BY <1>3, <1>4 DEF Gather, ChainInv, Types
  <2> QED
    BY <1>3, <2>2, <2>3, Frame DEF ChainInv
<1>5. CASE r = q
  <2>1. p = None => acc' = acc
    BY <1>3 DEF Gather
  <2>2. acc'[r] # None \/ (\E o \in Slots : Sending(o, r)') => previous'[r] # None
    BY <1>1, <1>2, <1>3, <1>5, <2>1 DEF ChainInv, Chain, Sending
  <2>3. ASSUME ~Raced(s, q), r \notin off'.delta PROVE ChainOf(r)'
    <3>1. ChainOf(r)
      BY <1>3, <2>3 DEF ChainInv, Chain
    <3>2. \A o \in Slots \ {s} : ~Hands(o, r) /\ ~Seen(o, r) /\ ~Sending(o, r)
      BY <1>5, <2>3 DEF Raced, Hands, Handled, Seen, Sending, InFlight
    <3>3. ~Hands(s, r) /\ ~Seen(s, r) /\ ~Sending(s, r)
      BY <1>1, <1>5 DEF Hands, Handled, Seen, Sending
    <3>4. \A o \in Slots \ {s} : ~Hands(o, r)' /\ ~Seen(o, r)' /\ ~Sending(o, r)'
      BY <1>1, <3>2 DEF Hands, Handled, Seen, Sending
    <3>5. ~Seen(s, r)' /\ ~Sending(s, r)' /\ Hands(s, r)'
      BY <1>1, <1>2, <1>5 DEF Hands, Handled, Seen, Sending
    <3>6. /\ previous'[r] # None => Fits(Pending(r)', view'[r], cycle'[s].map[r])
          /\ acc'[r] # None => Apart(acc'[r], view'[r])
      <4>1. CASE p = None
        BY <1>3, <1>5, <2>2, <4>1
      <4>2. CASE p # None
        <5>1. p \in States /\ view[r] \in Views
          BY <1>5, <4>2 DEF ChainInv, Types, Maps, Followed
        <5>2. Fits(Pending(r), view[r], p) /\ (acc[r] # None => Apart(acc[r], view[r]))
          BY <1>5, <3>1, <3>2, <3>3, <4>2 DEF ChainOf
        <5>3. CASE Detect(p, c) = NoDelta
          <6>1. acc'[r] = acc[r] /\ Pending(r)' = Pending(r)
            BY <1>3, <5>3 DEF Gather, Pending
          <6>2. Fits(Pending(r), view[r], c)
            <7>1. CASE acc[r] = None
              BY <1>1, <5>1, <5>2, <5>3, <7>1, DetectLeads DEF Pending
            <7>2. CASE acc[r] # None
              <8>1. acc[r] \in Deltas
                BY <7>2 DEF ChainInv, Types
              <8> QED
                BY <1>1, <5>1, <5>2, <5>3, <7>2, <8>1, MergeLeads DEF Pending
            <7> QED
              BY <7>1, <7>2
          <6> QED
            BY <1>2, <1>3, <1>5, <5>2, <6>1, <6>2
        <5>4. CASE Detect(p, c) # NoDelta /\ acc[r] = None
          <6>1. Detect(p, c) \in Deltas
            BY <1>1, <5>1, DetectType
          <6>2. acc'[r] = Detect(p, c)
            BY <1>3, <1>5, <4>2, <5>4 DEF Gather, ChainInv, Types
          <6>3. Pending(r)' = Wire(Detect(p, c))
            BY <6>1, <6>2 DEF Pending
          <6>4. Pending(r) = NoDelta
            BY <5>4 DEF Pending
          <6>5. Fits(Wire(Detect(p, c)), view[r], c) /\ Apart(Detect(p, c), view[r])
            BY <1>1, <5>1, <5>2, <6>4, DetectLeads
          <6> QED
            BY <1>2, <1>3, <1>5, <6>2, <6>3, <6>5
        <5>5. CASE Detect(p, c) # NoDelta /\ acc[r] # None
          <6> DEFINE m == Merge(acc[r], Detect(p, c))
          <6>1. acc[r] \in Deltas
            BY <5>5 DEF ChainInv, Types
          <6>2. m \in Deltas
            BY <1>1, <5>1, <6>1, DetectType, MergeType
          <6>3. acc'[r] = m
            BY <1>3, <1>5, <4>2, <5>5 DEF Gather, ChainInv, Types
          <6>4. Pending(r)' = Wire(m)
            BY <6>2, <6>3 DEF Pending
          <6>5. Fits(Wire(acc[r]), view[r], p) /\ Apart(acc[r], view[r])
            BY <5>2, <5>5 DEF Pending
          <6>6. Fits(Wire(m), view[r], c) /\ Apart(m, view[r])
            BY <1>1, <5>1, <6>1, <6>5, MergeLeads
          <6> HIDE DEF m
          <6> QED
            BY <1>2, <1>3, <1>5, <6>3, <6>4, <6>6
        <5> QED
          BY <5>3, <5>4, <5>5
      <4> QED
        BY <4>1, <4>2
    <3> QED
      BY <3>4, <3>5, <3>6 DEF ChainOf
  <2>4. ASSUME ~Raced(s, q), r \notin off'.delta PROVE Lags(r)
    <3>1. ChainOf(r)' /\ Hands(s, r)'
      BY <1>1, <1>2, <1>5, <2>3, <2>4 DEF Hands, Handled
    <3>2. Reached(r)' = c /\ c # None
      BY <1>1, <1>2, <1>5, <3>1, ReachedByNext
    <3>3. Found(r)' \in Views
      BY <1>1, <3>2 DEF Found, Views, Versions, Nips
    <3> QED
      BY <1>3, <3>3 DEF Lags
  <2> QED
    BY <1>3, <1>5, <2>2, <2>3, <2>4 DEF Chain, Follows
<1> QED
  BY <1>4, <1>5

\* A relay whose deltas are being sent is told what is pending.
LEMMA BatchChain ==
  ASSUME ChainInv, NEW s \in Slots, NEW q \in Relays, Batch(s, q), NEW r \in Relays
  PROVE  Follows(r)
<1>1. /\ cycle[s] \in CycleType /\ cycle[s].phase = "batch" /\ cycle[s].at = None
      /\ acc[q] # None /\ acc' = acc /\ previous' = previous /\ view' = view
  BY DEF ChainInv, Types, Batch, Entries, maps
<1>2. /\ cycle'[s].phase = "batch" /\ cycle'[s].seen = cycle[s].seen \cup {q}
      /\ cycle'[s].changed = cycle[s].changed /\ cycle'[s].map = cycle[s].map
      /\ cycle[s].map[q] = None => cycle'[s].at = None
      /\ cycle[s].map[q] # None => cycle'[s].at = q /\ cycle'[s].delta = Wire(acc[q])
      /\ \A o \in Slots \ {s} : cycle'[o] = cycle[o]
  <2>1. busy' \in {s, None}
    BY DEF Batch
  <2>2. CASE cycle[s].map[q] = None
    <3>1. /\ cycle'[s] = [cycle[s] EXCEPT !.seen = @ \cup {q}]
          /\ \A o \in Slots \ {s} : cycle'[o] = cycle[o]
      BY <2>1, <2>2, BatchGoes, GoesOn DEF ChainInv
    <3> QED
      BY <1>1, <2>2, <3>1 DEF CycleType
  <2>3. CASE cycle[s].map[q] # None
    <3>1. /\ cycle'[s] = [cycle[s] EXCEPT !.at = q, !.delta = Wire(acc[q]), !.seen = @ \cup {q}]
          /\ \A o \in Slots \ {s} : cycle'[o] = cycle[o]
      BY <2>1, <2>3, BatchGoes, GoesOn DEF ChainInv
    <3> QED
      BY <1>1, <2>3, <3>1 DEF CycleType
  <2> QED
    BY <2>2, <2>3
<1>3. off'.delta = IF cycle[s].map[q] = None THEN off.delta \cup {q} ELSE off.delta
  BY DEF ChainInv, Types, Batch
<1>4. CASE r # q
  <2>1. Same(s, r)
    BY <1>1, <1>2, <1>4 DEF Same, Hands, Handled, Seen, Sending
  <2>2. \A o \in Slots : Same(o, r)
    BY <1>2, <2>1, SameCycle
  <2> QED
    BY <1>1, <1>3, <2>2, Frame DEF ChainInv
<1>5. CASE r = q
  <2>1. previous'[r] # None
    BY <1>1, <1>5 DEF ChainInv, Chain
  <2>2. ASSUME r \notin off'.delta PROVE ChainOf(r)'
    <3>1. ChainOf(r) /\ cycle[s].map[q] # None
      BY <1>3, <1>5, <2>2 DEF ChainInv, Chain
    <3>2. Pending(r)' = Pending(r) /\ \A o \in Slots : Hands(o, r)' <=> Hands(o, r)
      BY <1>1, <1>2 DEF Pending, Hands, Handled
    <3>3. \A o \in Slots : cycle'[o].map = cycle[o].map
      BY <1>2
    <3>4. \A o \in Slots \ {s} : Same(o, r) /\ cycle'[o] = cycle[o]
      BY <1>2, SameCycle
    <3>5. Seen(s, r)' /\ Sending(s, r)' /\ cycle'[s].delta = Wire(acc'[r]) /\ acc'[r] # None
      BY <1>1, <1>2, <1>5, <3>1 DEF Seen, Sending
    <3>6. \A o, t \in Slots : Hands(o, r)' /\ Hands(t, r)' => o = t
      BY <3>1, <3>2 DEF ChainOf
    <3>7. previous'[r] # None =>
            /\ \A o \in Slots : Hands(o, r)' => Fits(Pending(r)', view'[r], cycle'[o].map[r])
            /\ (\A o \in Slots : ~Hands(o, r)') => Fits(Pending(r)', view'[r], previous'[r])
      BY <1>1, <3>1, <3>2, <3>3 DEF ChainOf
    <3>8. \A o \in Slots : Sending(o, r)' => Seen(o, r)' /\ cycle'[o].delta = Wire(acc'[r])
      BY <1>1, <1>5, <3>1, <3>4, <3>5 DEF ChainOf, Same
    <3>9. \A o \in Slots : Seen(o, r)' /\ ~Sending(o, r)' =>
            Apply(Wire(acc'[r]), view'[r]) = view'[r]
      BY <1>1, <1>5, <3>1, <3>4, <3>5 DEF ChainOf, Same
    <3> QED
      BY <3>5, <3>6, <3>7, <3>8, <3>9 DEF ChainOf
  <2>3. ASSUME r \notin off'.delta PROVE Lags(r)
    <3>1. ChainOf(r) /\ ChainOf(r)'
      BY <1>3, <1>5, <2>2, <2>3 DEF ChainInv, Chain
    <3>2. \A o \in Slots : (Hands(o, r)' <=> Hands(o, r)) /\ cycle'[o].map = cycle[o].map
      BY <1>1, <1>2 DEF Hands, Handled
    <3>3. Reached(r)' = Reached(r)
      BY <1>1, <3>1, <3>2, ReachedBy, ReachedByNext
    <3> QED
      BY <1>1, <3>3 DEF Lags, Found
  <2> QED
    BY <1>1, <2>1, <2>2, <2>3 DEF Chain, Follows
<1> QED
  BY <1>4, <1>5

\* What was sent has been told; that it stays pending until the batch is over
\* does no harm.
LEMMA BatchSentChain ==
  ASSUME ChainInv, NEW s \in Slots, NEW ok \in BOOLEAN, BatchSent(s, ok), NEW r \in Relays
  PROVE  Follows(r)
<1> DEFINE q == cycle[s].at
           d == cycle[s].delta
<1>1. /\ cycle[s] \in CycleType /\ cycle[s].phase = "batch" /\ q \in Relays /\ d \in Deltas
      /\ acc' = acc /\ previous' = previous
  BY BatchSentGoes DEF ChainInv, Types, CycleType, BatchSent, maps
<1>2. /\ cycle'[s] = [cycle[s] EXCEPT !.at = None, !.delta = NoDelta]
      /\ \A o \in Slots \ {s} : cycle'[o] = cycle[o]
  BY BatchSentGoes, GoesOn DEF ChainInv, BatchSent
<1>3. /\ cycle'[s].phase = "batch" /\ cycle'[s].at = None /\ cycle'[s].seen = cycle[s].seen
      /\ cycle'[s].changed = cycle[s].changed /\ cycle'[s].map = cycle[s].map
  BY <1>1, <1>2 DEF CycleType
<1>4. off'.delta = IF ok THEN off.delta ELSE off.delta \cup {q}
  BY DEF ChainInv, Types, BatchSent
<1>5. CASE r # q
  <2>1. Same(s, r)
    BY <1>1, <1>3, <1>5 DEF Same, Hands, Handled, Seen, Sending
  <2>2. \A o \in Slots : Same(o, r)
    BY <1>2, <2>1, SameCycle
  <2>3. view'[r] = view[r]
    BY <1>5 DEF BatchSent, ChainInv, Types
  <2> QED
    BY <1>1, <1>4, <2>2, <2>3, Frame DEF ChainInv
<1>6. CASE r = q
  <2>1. Sending(s, r) /\ previous[r] # None
    BY <1>1, <1>6 DEF Sending, ChainInv, Chain
  <2>2. view[r] \in Views
    BY <2>1 DEF ChainInv, Followed, Types
  <2>3. ASSUME r \notin off'.delta PROVE ChainOf(r)'
    <3>1. ChainOf(r) /\ ok
      BY <1>4, <1>6, <2>3 DEF ChainInv, Chain
    <3>2. view'[r] = Apply(d, view[r])
      BY <1>6, <2>2, <3>1 DEF BatchSent, ChainInv, Types
    <3>3. /\ Pending(r)' = Pending(r)
          /\ \A o \in Slots :
               /\ Hands(o, r)' <=> Hands(o, r)
               /\ Seen(o, r)' <=> Seen(o, r)
               /\ cycle'[o].map = cycle[o].map
      BY <1>1, <1>2, <1>3 DEF Pending, Hands, Handled, Seen
    <3>4. ~Sending(s, r)'
      BY <1>1, <1>3, <1>6 DEF Sending
    <3>5. \A o \in Slots \ {s} : (Sending(o, r)' <=> Sending(o, r)) /\ cycle'[o].delta = cycle[o].delta
      BY <1>2 DEF Sending
    <3>6. /\ \A x : Fits(Pending(r), view[r], x) => Fits(Pending(r), view'[r], x)
          /\ acc[r] = None => view'[r] = view[r]
          /\ acc[r] # None => Seen(s, r) /\ Apply(Wire(acc[r]), view'[r]) = view'[r]
      <4>1. CASE acc[r] = None
        BY <2>1, <3>1, <3>2, <4>1 DEF ChainOf
      <4>2. CASE acc[r] # None
        <5>1. Pending(r) = d /\ d = Wire(acc[r]) /\ Seen(s, r)
          BY <2>1, <3>1, <4>2 DEF ChainOf, Pending
        <5>2. Apply(d, view'[r]) = view'[r]
          BY <1>1, <2>2, <3>2, ApplyTwice
        <5> HIDE DEF d
        <5> QED
          BY <3>2, <4>2, <5>1, <5>2 DEF Fits
      <4> QED
        BY <4>1, <4>2
    <3>7. \A o, t \in Slots : Hands(o, r)' /\ Hands(t, r)' => o = t
      BY <3>1, <3>3 DEF ChainOf
    <3>8. previous'[r] # None =>
            /\ \A o \in Slots : Hands(o, r)' => Fits(Pending(r)', view'[r], cycle'[o].map[r])
            /\ (\A o \in Slots : ~Hands(o, r)') => Fits(Pending(r)', view'[r], previous'[r])
      BY <1>1, <3>1, <3>3, <3>6 DEF ChainOf
    <3>9. acc'[r] # None => Seen(s, r)'
      BY <1>1, <3>3, <3>6
    <3>10. \A o \in Slots : Sending(o, r)' =>
             IF acc'[r] = None THEN Apply(cycle'[o].delta, view'[r]) = view'[r]
             ELSE Seen(o, r)' /\ cycle'[o].delta = Wire(acc'[r])
      BY <1>1, <3>1, <3>3, <3>4, <3>5, <3>6 DEF ChainOf
    <3>11. acc'[r] # None => Apply(Wire(acc'[r]), view'[r]) = view'[r]
      BY <1>1, <3>6
    <3> QED
      BY <3>7, <3>8, <3>9, <3>10, <3>11 DEF ChainOf
  <2>4. ASSUME r \notin off'.delta PROVE Lags(r)
    <3>1. ChainOf(r) /\ ok /\ ChainOf(r)'
      BY <1>4, <1>6, <2>3, <2>4 DEF ChainInv, Chain
    <3>2. \A o \in Slots : (Hands(o, r)' <=> Hands(o, r)) /\ cycle'[o].map = cycle[o].map
      BY <1>1, <1>2, <1>3 DEF Hands, Handled
    <3>3. Reached(r)' = Reached(r) /\ Found(r)' = Found(r)
      <4>1. Reached(r)' = Reached(r)
        BY <1>1, <3>1, <3>2, ReachedBy, ReachedByNext
      <4> QED
        BY <4>1 DEF Found
    <3>4. view'[r] = Apply(d, view[r])
      BY <1>6, <2>2, <3>1 DEF BatchSent, ChainInv, Types
    <3>5. CASE acc[r] = None
      <4>1. view'[r] = view[r]
        BY <2>1, <3>1, <3>4, <3>5 DEF ChainOf
      <4> QED
        BY <3>3, <4>1 DEF Lags
    <3>6. CASE acc[r] # None
      <4>1. d = Pending(r)
        BY <2>1, <3>1, <3>6 DEF ChainOf, Pending
      <4>2. Fits(d, view[r], Reached(r)) /\ Reached(r) # None
        <5>1. \A o \in Slots : Hands(o, r) => cycle[o].map[r] # None
          BY DEF ChainInv, CycleInv, Hands, Handled, Present
        <5> QED
          BY <2>1, <3>1, <4>1, <5>1, ReachedBy DEF ChainOf
      <4>3. Found(r) = [version |-> Reached(r).version, nips |-> Reached(r).nips]
        BY <4>2 DEF Found
      <4>4. Follower!Told(Found(r), view[r]) =
              [version |-> IF Reached(r).version = None THEN view[r].version ELSE Reached(r).version,
               nips |-> Reached(r).nips]
        <5>1. view[r] # None
          BY <2>1 DEF ChainInv, Followed
        <5> QED
          BY <4>3, <5>1 DEF Follower!Told
      <4>5. Apply(d, view[r]) = Follower!Told(Found(r), view[r])
        BY <4>2, <4>4 DEF Fits, Apply
      <4>6. Found(r) # None
        <5>1. Found(r) \in Views
          <6>1. Reached(r) \in States
            <7>1. \A o \in Slots : cycle[o].map[r] \in States \cup {None}
              BY DEF ChainInv, Types, CycleType, Maps
            <7> QED
              BY <3>1, <4>2, <7>1, ReachedBy DEF ChainInv, Types, Maps
          <6> QED
            BY <4>3, <6>1 DEF Views, Versions, Nips
        <5> QED
          BY <5>1
      <4> QED
        BY <3>3, <3>4, <4>5, <4>6 DEF Lags
    <3> QED
      BY <3>5, <3>6
  <2> QED
    BY <1>1, <2>1, <2>3, <2>4 DEF Chain, Follows
<1> QED
  BY <1>5, <1>6

\* What is dropped with the accumulated deltas has been told, or will be.
LEMMA BatchDoneChain ==
  ASSUME ChainInv, NEW s \in Slots, BatchDone(s), NEW r \in Relays
  PROVE  Follows(r)
<1>1. /\ cycle[s].phase = "batch" /\ cycle[s].at = None
      /\ \A x \in Relays : acc[x] # None => x \in cycle[s].seen
      /\ previous' = previous /\ view' = view /\ off' = off /\ acc'[r] = None
  BY DEF BatchDone, Entries, ghosts
<1>2. ASSUME NEW o \in Slots
      PROVE  /\ cycle'[o].seen = {} /\ cycle'[o].at = cycle[o].at /\ cycle'[o].todo = cycle[o].todo
             /\ cycle'[o].changed = cycle[o].changed /\ cycle'[o].map = cycle[o].map
             /\ cycle'[o].delta = cycle[o].delta
             /\ cycle'[o].phase = IF o = s THEN "beat" ELSE cycle[o].phase
  <2>1. cycle[o] \in CycleType
    BY DEF ChainInv, Types
  <2>2. cycle'[o] =
          [cycle[o] EXCEPT !.seen = {}, !.phase = IF o = s THEN "beat" ELSE cycle[o].phase]
    BY BatchDoneTypes DEF ChainInv
  <2> QED
    BY <2>1, <2>2 DEF CycleType
<1>3. ASSUME NEW o \in Slots
      PROVE  (Hands(o, r)' <=> Hands(o, r)) /\ ~Seen(o, r)' /\ (Sending(o, r)' => Sending(o, r))
  <2>1. CASE o = s
    BY <1>1, <1>2, <2>1 DEF Hands, Handled, Seen, Sending
  <2>2. CASE o # s
    BY <1>2, <2>2 DEF Hands, Handled, Seen, Sending
  <2> QED
    BY <2>1, <2>2
<1>4. (\E o \in Slots : Sending(o, r)') => previous'[r] # None
  BY <1>1, <1>3 DEF ChainInv, Chain
<1>5. ASSUME r \notin off'.delta PROVE ChainOf(r)'
  <2>1. ChainOf(r)
    BY <1>1, <1>5 DEF ChainInv, Chain
  <2>2. acc[r] # None => Apply(Wire(acc[r]), view[r]) = view[r]
    BY <1>1, <2>1 DEF ChainOf, Seen, Sending
  <2>3. \A o \in Slots : Sending(o, r)' => Apply(cycle'[o].delta, view'[r]) = view'[r]
    BY <1>1, <1>2, <1>3, <2>1, <2>2 DEF ChainOf
  <2>4. Pending(r)' = NoDelta
    BY <1>1 DEF Pending
  <2>5. ASSUME previous[r] # None, NEW x, Fits(Pending(r), view[r], x)
        PROVE  Fits(NoDelta, view[r], x)
    <3>1. view[r] \in Views
      BY <2>5 DEF ChainInv, Followed, Types
    <3>2. Apply(NoDelta, view[r]) = view[r]
      BY <3>1, ApplyNothing
    <3> QED
      BY <2>2, <2>5, <3>2 DEF Fits, Pending
  <2>6. \A o, t \in Slots : Hands(o, r)' /\ Hands(t, r)' => o = t
    BY <1>3, <2>1 DEF ChainOf
  <2>7. ASSUME previous'[r] # None
        PROVE  /\ \A o \in Slots : Hands(o, r)' => Fits(Pending(r)', view'[r], cycle'[o].map[r])
               /\ (\A o \in Slots : ~Hands(o, r)') => Fits(Pending(r)', view'[r], previous'[r])
    <3>1. /\ \A o \in Slots : Hands(o, r) => Fits(Pending(r), view[r], cycle[o].map[r])
          /\ (\A o \in Slots : ~Hands(o, r)) => Fits(Pending(r), view[r], previous[r])
      BY <1>1, <2>1, <2>7 DEF ChainOf
    <3> QED
      BY <1>1, <1>2, <1>3, <2>4, <2>5, <2>7, <3>1
  <2> QED
    BY <1>1, <1>3, <2>3, <2>6, <2>7 DEF ChainOf
<1>6. ASSUME r \notin off'.delta PROVE Lags(r)
  <2>1. ChainOf(r) /\ ChainOf(r)'
    BY <1>1, <1>5, <1>6 DEF ChainInv, Chain
  <2>2. Reached(r)' = Reached(r)
    BY <1>1, <1>2, <1>3, <2>1, ReachedBy, ReachedByNext
  <2> QED
    BY <1>1, <2>2 DEF Lags, Found
<1> QED
  BY <1>1, <1>4, <1>5, <1>6 DEF Chain, Follows

\* The state that a cycle leaves behind is the one its deltas lead to.
LEMMA EndCycleChain ==
  ASSUME ChainInv, NEW s \in Slots, EndCycle(s), NEW r \in Relays
  PROVE  Follows(r)
<1>1. /\ cycle[s].phase = "assert" /\ cycle'[s].phase = "none"
      /\ \A o \in Slots \ {s} : cycle'[o] = cycle[o]
      /\ acc' = acc /\ off' = off
  BY EndCycleTypes DEF ChainInv, EndCycle
<1>2. Kept(cycle[s]) = cycle[s].changed /\ (r \in cycle[s].changed => cycle[s].map[r] \in States)
  BY EndCycleTypes DEF ChainInv
<1>3. /\ previous'[r] = IF r \in cycle[s].changed THEN cycle[s].map[r] ELSE previous[r]
      /\ view'[r] = IF r \in cycle[s].changed /\ previous[r] = None
                    THEN [version |-> cycle[s].map[r].version, nips |-> cycle[s].map[r].nips]
                    ELSE view[r]
  BY <1>2 DEF EndCycle
<1>4. CASE r \notin cycle[s].changed
  <2>1. Same(s, r)
    BY <1>1, <1>4 DEF Same, Hands, Handled, Seen, Sending
  <2>2. \A o \in Slots : Same(o, r)
    BY <1>1, <2>1, SameCycle
  <2> QED
    BY <1>1, <1>3, <1>4, <2>2, Frame DEF ChainInv
<1>5. CASE r \in cycle[s].changed
  <2>1. Hands(s, r) /\ ~Seen(s, r) /\ ~Sending(s, r)
    BY <1>1, <1>5 DEF Hands, Handled, Seen, Sending
  <2>2. ~Hands(s, r)' /\ ~Seen(s, r)' /\ ~Sending(s, r)'
    BY <1>1 DEF Hands, Handled, Seen, Sending
  <2>3. \A o \in Slots \ {s} : Same(o, r) /\ cycle'[o] = cycle[o]
    BY <1>1, SameCycle
  <2>4. previous'[r] = cycle[s].map[r] /\ previous'[r] # None /\ Pending(r)' = Pending(r)
    BY <1>1, <1>2, <1>3, <1>5 DEF Pending
  <2>5. ASSUME r \notin off'.delta PROVE ChainOf(r)'
    <3>1. ChainOf(r)
      BY <1>1, <2>5 DEF ChainInv, Chain
    <3>2. \A o \in Slots : ~Hands(o, r)'
      BY <2>1, <2>2, <2>3, <3>1 DEF ChainOf, Same
    <3>3. \A o \in Slots : Seen(o, r)' <=> Seen(o, r)
      BY <2>1, <2>2, <2>3 DEF Same
    <3>4. \A o \in Slots : (Sending(o, r)' <=> Sending(o, r)) /\ (Sending(o, r) => cycle'[o].delta = cycle[o].delta)
      BY <2>1, <2>2, <2>3 DEF Same
    <3>5. CASE previous[r] = None
      <4>1. acc[r] = None /\ \A o \in Slots : ~Sending(o, r)
        BY <3>5 DEF ChainInv, Chain
      <4>2. Fits(Pending(r)', view'[r], previous'[r])
        BY <1>3, <1>5, <2>4, <3>5, <4>1 DEF Fits, Pending, Apply, NoDelta
      <4> QED
        BY <1>1, <3>2, <3>4, <4>1, <4>2 DEF ChainOf
    <3>6. CASE previous[r] # None
      <4>1. view'[r] = view[r]
        BY <1>3, <3>6
      <4>2. Fits(Pending(r)', view'[r], previous'[r])
        BY <2>1, <2>4, <3>1, <3>6, <4>1 DEF ChainOf
      <4>3. acc'[r] # None /\ (\A o \in Slots : ~Seen(o, r)' /\ ~Sending(o, r)') => Apart(acc'[r], view'[r])
        BY <1>1, <3>1, <3>3, <3>4, <4>1 DEF ChainOf
      <4>4. \A o \in Slots : Sending(o, r)' =>
              IF acc'[r] = None THEN Apply(cycle'[o].delta, view'[r]) = view'[r]
              ELSE Seen(o, r)' /\ cycle'[o].delta = Wire(acc'[r])
        BY <1>1, <3>1, <3>3, <3>4, <4>1 DEF ChainOf
      <4>5. \A o \in Slots : Seen(o, r)' /\ ~Sending(o, r)' /\ acc'[r] # None =>
              Apply(Wire(acc'[r]), view'[r]) = view'[r]
        BY <1>1, <3>1, <3>3, <3>4, <4>1 DEF ChainOf
      <4> QED
        BY <3>2, <4>2, <4>3, <4>4, <4>5 DEF ChainOf
    <3> QED
      BY <3>5, <3>6
  <2>6. ASSUME r \notin off'.delta PROVE Lags(r)
    <3>1. ChainOf(r) /\ ChainOf(r)'
      BY <1>1, <2>5, <2>6 DEF ChainInv, Chain
    <3>2. \A o \in Slots : ~Hands(o, r)'
      BY <2>1, <2>2, <2>3, <3>1 DEF ChainOf, Same
    <3>3. Reached(r)' = Reached(r) /\ Reached(r) = cycle[s].map[r]
      BY <2>1, <2>4, <3>1, <3>2, ReachedBy, ReachedByNext
    <3>4. /\ Found(r) = [version |-> cycle[s].map[r].version, nips |-> cycle[s].map[r].nips]
          /\ Found(r)' = Found(r)
      BY <2>4, <3>3 DEF Found
    <3>5. Found(r) # None
      <4>1. Found(r) \in Views
        BY <1>2, <1>5, <3>4 DEF Views, Versions, Nips
      <4> QED
        BY <4>1
    <3>6. CASE previous[r] = None
      <4>1. view[r] = None /\ view'[r] = Found(r)
        BY <1>3, <1>5, <3>4, <3>6 DEF ChainInv, Followed
      <4>2. Follower!Told(Found(r), view[r]) = Found(r)
        BY <3>4, <4>1 DEF Follower!Told
      <4> QED
        BY <3>4, <3>5, <4>1, <4>2 DEF Lags
    <3>7. CASE previous[r] # None
      BY <1>3, <3>4, <3>7 DEF Lags
    <3> QED
      BY <3>6, <3>7
  <2> QED
    BY <2>4, <2>5, <2>6 DEF Chain, Follows
<1> QED
  BY <1>4, <1>5

\* An event that is missing stays missing.
LEMMA OffGrows ==
  ASSUME Types, [Next]_vars
  PROVE  off.delta \subseteq off'.delta
<1>1. ASSUME NEW s \in Slots, Tick(s) \/ Step(s) PROVE off.delta \subseteq off'.delta
  <2>1. \/ off' = off
        \/ \E x : \/ off' = [off EXCEPT !.delta = @ \cup {x}] 
                 \/ off' = [off EXCEPT !.status = x] \/ off' = [off EXCEPT !.score = x]
    BY <1>1 DEF Step, maps, ghosts, Tick, Scan, Batch, PublishAssertion, ScanDone, BatchDone,
       BeatsSent, Snapshot, ToAssertions, TransitionSent, BatchSent, AssertSent, EndCycle
  <2> QED
    BY <2>1 DEF Types
<1> QED
  BY <1>1 DEF Next, vars, ghosts

LEMMA ChainStep ==
  ASSUME ChainInv, [Next]_vars
  PROVE  ChainInv' /\ \A r \in Relays : Follows(r)
<1>1. Types' /\ CycleInv' /\ Followed'
  BY TypesStep, FollowedStep DEF ChainInv
<1>2. ASSUME NEW r \in Relays PROVE Follows(r)
  <2>1. CASE Next
    BY <2>1, TickChain, ScanChain, TransitionChain, ScanDoneChain, BatchChain, BatchSentChain,
       BatchDoneChain, BeyondChain, EndCycleChain DEF Next, Step
  <2>2. CASE UNCHANGED vars
    <3>1. \A s \in Slots : Same(s, r)
      BY <2>2, SameCycle DEF vars
    <3> QED
      BY <2>2, <3>1, Frame DEF ChainInv, vars, maps, ghosts
  <2> QED
    BY <2>1, <2>2
<1> QED
  BY <1>1, <1>2 DEF ChainInv, Follows

-----------------------------------------------------------------------------
(* The theorems                                                             *)

IInv == ChainInv /\ Recorded /\ ToldOnRecord /\ \A s \in Slots, r \in Relays : Near(s, r)

\* The inductive invariant the theorems below are read off.
THEOREM InvHolds == Spec => []IInv
<1>1. Init => IInv
  <2> SUFFICES ASSUME Init PROVE IInv
    OBVIOUS
  <2>1. Types /\ CycleInv
    BY TypesInit
  <2>2. \A s \in Slots : cycle[s].phase = "none"
    BY DEF Init, NoCycle
  <2>3. ASSUME NEW r \in Relays PROVE Chain(r)
    BY <2>2 DEF Init, Chain, ChainOf, Hands, Seen, Sending
  <2>4. Followed /\ Recorded /\ ToldOnRecord
    BY <2>2 DEF Init, Followed, Recorded, ToldOnRecord, InFlight
  <2>5. \A s \in Slots, r \in Relays : Near(s, r)
    BY <2>2 DEF Near
  <2> QED
    BY <2>1, <2>3, <2>4, <2>5 DEF IInv, ChainInv
<1>2. IInv /\ [Next]_vars => IInv'
  <2> SUFFICES ASSUME IInv, [Next]_vars PROVE IInv'
    OBVIOUS
  <2>1. Types /\ CycleInv
    BY DEF IInv, ChainInv
  <2>2. ChainInv'
    BY ChainStep DEF IInv
  <2>3. Recorded'
    BY <2>1, RecordedStep DEF IInv
  <2>4. ToldOnRecord'
    BY <2>1, ToldStep DEF IInv
  <2>5. (\A s \in Slots, r \in Relays : Near(s, r))'
    BY <2>1, NearStep DEF IInv
  <2> QED
    BY <2>2, <2>3, <2>4, <2>5 DEF IInv
<1> QED
  BY <1>1, <1>2, PTL DEF Spec

\* Whoever follows a relay's kind 1066 events, and the deltas that have been
\* gathered since (event-publisher.ts:135-256), comes to its state, unless an
\* event failed or two cycles were about it.
THEOREM ChainHolds == Spec => []ChainIntact
<1>1. IInv => ChainIntact
  <2> SUFFICES ASSUME IInv, NEW r \in Relays, previous[r] # None, r \notin off.delta
               PROVE  Fits(Pending(r), view[r], Reached(r))
    BY DEF ChainIntact, Fits, Pending
  <2>1. ChainOf(r)
    BY DEF IInv, ChainInv, Chain
  <2> QED
    BY <2>1, ReachedBy DEF ChainOf
<1> QED
  BY <1>1, InvHolds, PTL

\* The last kind 20066 event of a relay says what operationalStatuses says
\* (event-publisher.ts:159-191), whatever cycles overlap.
THEOREM ToldIsOnRecord == Spec => []ToldOnRecord
<1>1. IInv => ToldOnRecord
  BY DEF IInv
<1> QED
  BY <1>1, InvHolds, PTL

\* shouldPublishKind30385 (event-publisher.ts:378-394) lets no score drift away
\* from the one that was published.
THEOREM AssertionsStayNear == Spec => []AssertionsNear
<1>1. IInv => AssertionsNear
  BY DEF IInv, AssertionsNear, Near, InFlight
<1> QED
  BY <1>1, InvHolds, PTL

\* The types, with previousStates and operationalStatuses filled when they are
\* read.
THEOREM TypeCorrect == Spec => []TypeOK
<1>1. IInv => TypeOK
  <2> SUFFICES ASSUME IInv PROVE TypeOK
    OBVIOUS
  <2>1. Types /\ Followed /\ Recorded
    BY DEF IInv, ChainInv
  <2>2. \A s \in Slots : cycle[s].phase \in Phases /\ cycle[s].map \in Maps
    BY <2>1 DEF Types, CycleType
  <2> QED
    BY <2>1, <2>2 DEF TypeOK, Types, Followed, Recorded
<1> QED
  BY <1>1, InvHolds, PTL

\* The kind 1066 events of a relay (event-publisher.ts:193-256) bring those who
\* apply them to the state that the relay is in, and to no state it was never
\* in: the publisher implements DeltaFollower.
THEOREM FollowersFollow == Spec => FollowersLag
<1>1. Init => Follower!Init
  <2> SUFFICES ASSUME Init PROVE Follower!Init
    OBVIOUS
  <2>1. ASSUME NEW r \in Relays PROVE Found(r) = None
    <3>1. ChainOf(r) /\ \A s \in Slots : ~Hands(s, r)
      BY DEF Init, NoCycle, ChainOf, Hands, Seen, Sending
    <3> QED
      BY <3>1, ReachedBy DEF Init, Found
  <2> QED
    BY <2>1 DEF Init, Follower!Init, State
<1>2. IInv /\ [Next]_vars => [Follower!Next]_Follower!vars
  <2> SUFFICES ASSUME IInv, [Next]_vars PROVE Follower!Next
    OBVIOUS
  <2>1. off.delta \subseteq off'.delta
    BY OffGrows DEF IInv, ChainInv
  <2>2. ASSUME NEW r \in Relays \ off'.delta
        PROVE  \/ State'[r] = State[r] /\ view'[r] = view[r]
               \/ Follower!Changes(r) \/ Follower!Hears(r)
    <3>1. Lags(r)
      BY <2>2, ChainStep DEF IInv, Follows
    <3>2. State[r] = Found(r) /\ State'[r] = Found(r)'
      BY DEF State
    <3> QED
      BY <3>1, <3>2 DEF Lags, Follower!Changes, Follower!Hears
  <2> QED
    BY <2>1, <2>2 DEF Follower!Next
<1> QED
  BY <1>1, <1>2, InvHolds, PTL DEF Spec, FollowersLag, Follower!Spec
=============================================================================
