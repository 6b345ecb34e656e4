------------------------ MODULE RelayDeletion_proofs ------------------------
(***************************************************************************)
(* Proofs about RelayDeletion, for any relays, blocklists and queue bound: *)
(* what the daemon takes for deleted is deleted, and a deletion it was     *)
(* told of is not sent again, by any caller and across restarts.           *)
(***************************************************************************)
EXTENDS RelayDeletion, PQueue_proofs

USE RelayDeletionAssumption

-----------------------------------------------------------------------------
(* The invariant *)

\* What the network has taken of the deletions under way was sent.
TakenInv ==
  /\ \A d \in direct \cap taken : d.url \in sent
  /\ current # None /\ current.kind = "deletion" /\ current \in taken => current.relay \in sent

\* Hostname dedup publishes deletions in checks of relays that have a row, and
\* what the daemon was told of an ignored relay is on the row.
Inv ==
  /\ TypeOK /\ BelievedDeleted /\ TakenInv
  /\ IsFiniteSet(direct)
  /\ \A d \in direct : d.by = "dedup" => d.relay \in Rows
  /\ heard \subseteq marked

\* A publish without the queue is none of its jobs.
LEMMA JobsApart ==
  ASSUME NEW d \in DirectType
  PROVE  d \notin JobType
<1>1. "by" \in DOMAIN d
  BY DEF DirectType
<1>2. \A j \in JobType : DOMAIN j = {"kind", "relay", "isRetry"}
  BY DEF JobType
<1> QED
  BY <1>1, <1>2

LEMMA InsertJob ==
  ASSUME TypeOK, NEW e \in JobType
  PROVE  Insert(queue, e) \in Seq(JobType)
BY InsertPosition DEF TypeOK

LEMMA JobTypes ==
  ASSUME NEW r \in Relays, NEW k \in {"result", "deletion"}
  PROVE  Job(k, r) \in JobType /\ [Job(k, r) EXCEPT !.isRetry = TRUE] \in JobType
         /\ Job(k, r).kind = k /\ [Job(k, r) EXCEPT !.isRetry = TRUE].kind = k
BY DEF Job, JobType

\* What deleteRelayCheckEvent does with a queue.
LEMMA QueuedDeletion ==
  ASSUME TypeOK, NEW r \in Relays, NEW mem \in SUBSET Relays, NEW rows,
         DeleteQueued(r, mem, rows)
  PROVE  /\ queue' \in Seq(JobType) /\ deleted' \in SUBSET Relays
         /\ deleted' \subseteq mem \cup rows
<1>1. Insert(queue, Job("deletion", r)) \in Seq(JobType)
  BY InsertJob, JobTypes
<1>2. queue \in Seq(JobType)
  BY DEF TypeOK
<1> QED
  BY <1>1, <1>2 DEF DeleteQueued, Skip

LEMMA DirectDeletion ==
  ASSUME Inv, NEW by \in {"dedup", "sweep", "sync"}, NEW r \in Relays, NEW url \in Relays,
         DeleteDirect(by, r, url), taken' = taken, sent' = sent, current' = current
  PROVE  /\ direct' \subseteq DirectType /\ IsFiniteSet(direct') /\ direct \subseteq direct'
         /\ \A d \in direct' : d.by = "dedup" => d \in direct \/ (d.relay = r /\ by = "dedup")
         /\ direct' = direct \cup {[by |-> by, relay |-> r, url |-> url]}
         /\ TakenInv'
<1>1. /\ direct' = direct \cup {[by |-> by, relay |-> r, url |-> url]}
      /\ [by |-> by, relay |-> r, url |-> url] \in DirectType
  BY DEF DeleteDirect, DirectType
<1>2. IsFiniteSet(direct')
  BY <1>1, FS_AddElement DEF Inv
<1>3. TakenInv'
  <2> DEFINE e == [by |-> by, relay |-> r, url |-> url]
  <2>1. CASE e \notin taken
    BY <1>1, <2>1 DEF Inv, TakenInv
  <2>2. CASE e \in taken
    <3>1. e \in direct
      BY <1>1, <2>2, JobsApart DEF Inv, TypeOK
    <3> QED
      BY <1>1, <3>1 DEF Inv, TakenInv
  <2> QED
    BY <2>1, <2>2
<1> QED
  BY <1>1, <1>2, <1>3 DEF Inv, TypeOK

LEMMA AttemptEffect ==
  ASSUME Inv, NEW by \in {"sweep", "sync"}, NEW r \in Relays, Attempt(by, r),
         taken' = taken, sent' = sent, current' = current
  PROVE  /\ direct' \subseteq DirectType /\ IsFiniteSet(direct') /\ direct \subseteq direct'
         /\ TakenInv'
         /\ \A d \in direct' : d.by = "dedup" => d \in direct
         /\ deleted' \in SUBSET Relays /\ deleted' \subseteq deleted \cup marked
<1>1. CASE Sendable(r, deleted, marked)
  BY <1>1, DirectDeletion DEF Attempt, Inv, TypeOK
<1>2. CASE ~Sendable(r, deleted, marked)
  BY <1>2 DEF Attempt, Inv, TakenInv, TypeOK, Skip
<1> QED
  BY <1>1, <1>2

-----------------------------------------------------------------------------
(* One step per action *)

LEMMA InitInv == Init => Inv
<1> SUFFICES ASSUME Init PROVE Inv
  OBVIOUS
<1>1. TypeOK
  BY EmptySeq DEF Init, TypeOK, Rows, Ignored
<1> QED
  BY <1>1, FS_EmptySet DEF Init, Inv, BelievedDeleted, TakenInv

LEMMA RestartStep ==
  ASSUME Inv, Restart
  PROVE  Inv'
BY EmptySeq, FS_EmptySet DEF Restart, Inv, TypeOK, BelievedDeleted, TakenInv, Rows, Ignored, history

LEMMA SeedStep ==
  ASSUME Inv, NEW r \in Relays, Seed(r)
  PROVE  Inv'
BY DEF Seed, Inv, TypeOK, BelievedDeleted, TakenInv, Rows, Ignored, history, jobs

LEMMA EnterNormalStep ==
  ASSUME Inv, EnterNormal
  PROVE  Inv'
BY DEF EnterNormal, Inv, TypeOK, BelievedDeleted, TakenInv, Rows, Ignored, history, jobs

LEMMA DropStep ==
  ASSUME Inv, NEW r \in Relays, Drop(r)
  PROVE  Inv'
<1>1. queue' \in Seq(JobType) /\ deleted' \in SUBSET Relays /\ deleted' \subseteq deleted \cup marked
  BY QueuedDeletion DEF Drop, Inv, TypeOK
<1>2. \A d \in direct : d.by = "dedup" => d.relay # r
  BY DEF Drop, Runs
<1> QED
  BY <1>1, <1>2 DEF Drop, Inv, TypeOK, BelievedDeleted, TakenInv, Rows, Ignored

LEMMA GateStep ==
  ASSUME Inv, NEW r \in Relays, GateDeletes(r)
  PROVE  Inv'
<1>1. queue' \in Seq(JobType) /\ deleted' \in SUBSET Relays /\ deleted' \subseteq deleted \cup marked
  BY QueuedDeletion DEF GateDeletes, Inv, TypeOK
<1> QED
  BY <1>1 DEF GateDeletes, Inv, TypeOK, BelievedDeleted, TakenInv, Rows, Ignored, history

LEMMA FineStep ==
  ASSUME Inv, NEW r \in Relays, NEW open \in BOOLEAN, CheckFine(r, open)
  PROVE  Inv'
<1>1. queue' \in Seq(JobType)
  <2>1. Insert(queue, Job("result", r)) \in Seq(JobType)
    BY InsertJob, JobTypes DEF Inv
  <2>2. queue \in Seq(JobType)
    BY DEF Inv, TypeOK
  <2> QED
    BY <2>1, <2>2 DEF CheckFine
<1> QED
  BY <1>1 DEF CheckFine, Inv, TypeOK, BelievedDeleted, TakenInv, Rows, Ignored

LEMMA RecheckStep ==
  ASSUME Inv, NEW r \in Relays, Recheck(r)
  PROVE  Inv'
BY DEF Recheck, Inv, TypeOK, BelievedDeleted, TakenInv, Rows, Ignored, jobs

\* A verdict ignores the relay and leaves its column as it is.
LEMMA VerdictEffect ==
  ASSUME Inv, NEW r \in Relays, NEW fake \in BOOLEAN, NEW mem \in SUBSET Relays,
         NEW rows \in SUBSET Relays, Verdict(r, fake, mem, rows)
  PROVE  /\ queue' \in Seq(JobType) /\ deleted' \in SUBSET Relays
         /\ deleted' \subseteq mem \cup rows /\ marked' = rows
         /\ status' \in [Relays -> {"gone", "new", "ok", "fake", "other"}]
         /\ Rows' = Rows \cup {r} /\ Ignored' = Ignored \cup {r} /\ kick' = kick \ {r}
<1>1. CASE fake
  BY <1>1, QueuedDeletion DEF Verdict, Kept, Inv, TypeOK, Rows, Ignored
<1>2. CASE ~fake
  BY <1>2 DEF Verdict, Kept, Inv, TypeOK, Rows, Ignored
<1> QED
  BY <1>1, <1>2

LEMMA IgnoresStep ==
  ASSUME Inv, NEW r \in Relays, NEW dup, NEW fake \in BOOLEAN, CheckIgnores(r, dup, fake)
  PROVE  Inv'
<1> DEFINE mem == IF dup = None THEN deleted ELSE Skip(dup, deleted, marked)
<1>1. mem \in SUBSET Relays /\ mem \subseteq deleted \cup marked /\ marked \in SUBSET Relays
  BY DEF Skip, Inv, TypeOK, Rows
<1>2. Verdict(r, fake, mem, marked) /\ UNCHANGED <<direct, taken, history>>
  BY DEF CheckIgnores
<1> HIDE DEF mem
<1>3. /\ queue' \in Seq(JobType) /\ deleted' \in SUBSET Relays
      /\ deleted' \subseteq mem \cup marked /\ marked' = marked
      /\ status' \in [Relays -> {"gone", "new", "ok", "fake", "other"}]
      /\ Rows' = Rows \cup {r} /\ Ignored' = Ignored \cup {r} /\ kick' = kick \ {r}
  BY <1>1, <1>2, VerdictEffect
<1> QED
  BY <1>1, <1>2, <1>3 DEF Verdict, Inv, TypeOK, BelievedDeleted, TakenInv, history

LEMMA DedupBeginsStep ==
  ASSUME Inv, NEW r \in Relays, NEW url \in DedupUrls(r), DedupBegins(r, url)
  PROVE  Inv'
<1>1. /\ r \in Rows /\ url \in Relays /\ DeleteDirect("dedup", r, url)
      /\ taken' = taken /\ sent' = sent /\ current' = current
  BY DEF DedupBegins, Checks, Runs, DedupUrls, history, jobs
<1>2. /\ direct' \subseteq DirectType /\ IsFiniteSet(direct') /\ direct \subseteq direct'
      /\ \A d \in direct' : d.by = "dedup" => d \in direct \/ d.relay = r
      /\ TakenInv'
  BY <1>1, DirectDeletion
<1> QED
  BY <1>1, <1>2 DEF DedupBegins, Inv, TypeOK, BelievedDeleted, Rows, Ignored, history, jobs

\* What a publish leaves behind that has ended, whoever waited for it.
LEMMA EndTaken ==
  ASSUME Inv, NEW d \in direct, direct' = direct \ {d}, taken' = taken \ {d},
         sent' = sent, current' = current
  PROVE  /\ TakenInv' /\ IsFiniteSet(direct') /\ direct' \subseteq DirectType
         /\ taken' \subseteq direct' \cup {j \in {current'} : j # None /\ j.kind = "deletion"}
BY FS_RemoveElement DEF Inv, TakenInv, TypeOK

LEMMA DedupEndsStep ==
  ASSUME Inv, NEW d \in direct, NEW ok \in BOOLEAN, NEW fake \in BOOLEAN, DedupEnds(d, ok, fake)
  PROVE  Inv'
<1> DEFINE r == d.relay
           mem == deleted \cup Taken(d.url, ok)
           rows == marked \cup Marks(d.url, ok)
           told == Told(d.url, ok, Ignored \cup {r})
<1>1. r \in Relays /\ r \in Rows /\ d.url \in Relays
  BY DEF DedupEnds, Inv, TypeOK, DirectType
<1>2. mem \in SUBSET Relays /\ rows \in SUBSET Relays /\ rows \subseteq Rows
  BY <1>1 DEF Taken, Marks, Inv, TypeOK, Rows
<1>3. Verdict(r, fake, mem, rows) /\ direct' = direct \ {d} /\ taken' = taken \ {d}
      /\ sent' = sent /\ heard' = heard \cup told
  BY DEF DedupEnds
<1>4. mem \cup rows \subseteq sent
  <2>1. ok => d.url \in sent
    BY DEF DedupEnds, Inv, TakenInv
  <2> QED
    BY <2>1 DEF Taken, Marks, Inv, BelievedDeleted
<1>5. told \subseteq rows /\ told \subseteq Ignored \cup {r} /\ marked \subseteq rows
  BY <1>1 DEF Told, Marks, Taken, Ignored, Rows
<1> HIDE DEF r, mem, rows, told
<1>7. /\ queue' \in Seq(JobType) /\ deleted' \in SUBSET Relays
      /\ deleted' \subseteq mem \cup rows /\ marked' = rows
      /\ status' \in [Relays -> {"gone", "new", "ok", "fake", "other"}]
      /\ Rows' = Rows \cup {r} /\ Ignored' = Ignored \cup {r} /\ kick' = kick \ {r}
  BY <1>1, <1>2, <1>3, VerdictEffect
<1>8. UNCHANGED <<phase, blocked, current, timers, sweep>>
  BY <1>3 DEF Verdict
<1>6. /\ TakenInv' /\ IsFiniteSet(direct') /\ direct' \subseteq DirectType
      /\ taken' \subseteq direct' \cup {j \in {current'} : j # None /\ j.kind = "deletion"}
  BY <1>3, <1>8, EndTaken
<1>9. sent' \subseteq Relays /\ heard' \subseteq Ignored' /\ heard' \subseteq marked'
  BY <1>1, <1>3, <1>5, <1>7 DEF Inv, TypeOK
<1>10. TypeOK'
  <2>1. marked' \subseteq Rows' /\ kick' \subseteq Rows'
    BY <1>2, <1>3, <1>7 DEF Inv, TypeOK
  <2> QED
    BY <1>6, <1>7, <1>8, <1>9, <2>1 DEF Inv, TypeOK
<1>11. BelievedDeleted'
  BY <1>3, <1>4, <1>7 DEF BelievedDeleted
<1>12. \A e \in direct' : e.by = "dedup" => e.relay \in Rows'
  BY <1>3, <1>7 DEF Inv
<1> QED
  BY <1>6, <1>9, <1>10, <1>11, <1>12 DEF Inv

LEMMA SweepSteps ==
  ASSUME Inv, NEW r \in Relays, SweepBegins(r) \/ SweepNext(r) \/ SyncNext(r)
  PROVE  Inv'
<1>1. \E by \in {"sweep", "sync"} : Attempt(by, r)
  BY DEF SweepBegins, SweepNext, SyncNext
<1>4. UNCHANGED <<status, marked, phase, blocked, kick, jobs, taken, history>>
  BY DEF SweepBegins, SweepNext, SyncNext
<1>2. /\ direct' \subseteq DirectType /\ IsFiniteSet(direct') /\ direct \subseteq direct'
      /\ TakenInv'
      /\ \A d \in direct' : d.by = "dedup" => d \in direct
      /\ deleted' \in SUBSET Relays /\ deleted' \subseteq deleted \cup marked
  BY <1>1, <1>4, AttemptEffect DEF history, jobs
<1>3. sweep' \subseteq Relays
  BY DEF SweepBegins, SweepNext, SyncNext, Pending, Ignored, Inv, TypeOK
<1> QED
  BY <1>2, <1>3, <1>4 DEF Inv, TypeOK, BelievedDeleted, Rows, Ignored, history, jobs

\* A deletion that ends, by either way of publishing.
LEMMA ToldStep ==
  ASSUME Inv, NEW u \in Relays, NEW ok \in BOOLEAN, ok => u \in sent, sent' = sent,
         heard' = heard \cup Told(u, ok, Ignored),
         deleted' = deleted \cup Taken(u, ok), marked' = marked \cup Marks(u, ok),
         status' = status
  PROVE  /\ BelievedDeleted' /\ heard' \subseteq marked' /\ deleted' \subseteq Relays
         /\ marked' \subseteq Rows' /\ sent' \subseteq Relays /\ heard' \subseteq Ignored'
BY DEF Told, Taken, Marks, Inv, TypeOK, BelievedDeleted, Rows, Ignored

LEMMA DirectEndsStep ==
  ASSUME Inv, NEW d \in direct, NEW ok \in BOOLEAN, DirectEnds(d, ok)
  PROVE  Inv'
<1>1. d.url \in Relays /\ (ok => d.url \in sent)
  BY DEF DirectEnds, Inv, TypeOK, TakenInv, DirectType
<1>2. /\ TakenInv' /\ IsFiniteSet(direct') /\ direct' \subseteq DirectType
      /\ taken' \subseteq direct' \cup {j \in {current'} : j # None /\ j.kind = "deletion"}
  BY EndTaken DEF DirectEnds, jobs
<1>3. /\ BelievedDeleted' /\ heard' \subseteq marked' /\ deleted' \subseteq Relays
      /\ marked' \subseteq Rows' /\ sent' \subseteq Relays /\ heard' \subseteq Ignored'
  BY <1>1, ToldStep DEF DirectEnds
<1> QED
  BY <1>2, <1>3 DEF DirectEnds, Inv, TypeOK, Rows, Ignored, jobs

LEMMA EndDeletionStep ==
  ASSUME Inv, NEW ok \in BOOLEAN, EndDeletion(ok)
  PROVE  Inv'
<1>1. current.relay \in Relays /\ (ok => current.relay \in sent)
  BY DEF EndDeletion, Inv, TypeOK, TakenInv, JobType
<1>2. /\ BelievedDeleted' /\ heard' \subseteq marked' /\ deleted' \subseteq Relays
      /\ marked' \subseteq Rows' /\ sent' \subseteq Relays /\ heard' \subseteq Ignored'
  BY <1>1, ToldStep DEF EndDeletion
<1>3. /\ TakenInv'
      /\ taken' \subseteq direct' \cup {j \in {current'} : j # None /\ j.kind = "deletion"}
  BY DEF EndDeletion, Inv, TypeOK, TakenInv
<1> QED
  BY <1>2, <1>3 DEF EndDeletion, Inv, TypeOK, Rows, Ignored

\* A relay takes what is under way.
LEMMA NetworkStep ==
  ASSUME Inv, NetworkTakesJob \/ \E d \in direct : NetworkTakes(d)
  PROVE  Inv'
<1>1. CASE NetworkTakesJob
  <2>1. current.relay \in Relays /\ current \notin direct
    BY <1>1, JobsApart DEF NetworkTakesJob, Inv, TypeOK, JobType
  <2> QED
    BY <1>1, <2>1 DEF NetworkTakesJob, Inv, TypeOK, TakenInv, BelievedDeleted, Rows,
       Ignored, jobs
<1>2. ASSUME NEW d \in direct, NetworkTakes(d) PROVE Inv'
  <2>1. d.url \in Relays
    BY DEF Inv, TypeOK, DirectType
  <2>2. current # None => current # d
    BY JobsApart DEF Inv, TypeOK
  <2> QED
    BY <1>2, <2>1, <2>2 DEF NetworkTakes, Inv, TypeOK, TakenInv, BelievedDeleted, Rows,
       Ignored, jobs
<1> QED
  BY <1>1, <1>2

LEMMA QueueSteps ==
  ASSUME Inv, \/ StartJob \/ (\E ok, again \in BOOLEAN : EndResult(ok, again))
              \/ (\E r \in Relays : TimerFires(r))
  PROVE  Inv'
<1>1. CASE StartJob
  <2>1. queue' \in Seq(JobType) /\ current' \in JobType
    BY <1>1, HeadTailProperties DEF StartJob, Inv, TypeOK
  <2>2. taken' \subseteq direct' /\ current' \notin direct'
    <3>1. UNCHANGED <<taken, direct>> /\ taken \subseteq direct /\ direct \subseteq DirectType
      BY <1>1 DEF StartJob, Inv, TypeOK
    <3> QED
      BY <2>1, <3>1, JobsApart
  <2>3. TakenInv'
    BY <1>1, <2>2 DEF StartJob, Inv, TakenInv, history
  <2> QED
    BY <1>1, <2>1, <2>2, <2>3 DEF StartJob, Inv, TypeOK, BelievedDeleted, Rows, Ignored, history
<1>2. ASSUME NEW ok \in BOOLEAN, NEW again \in BOOLEAN, EndResult(ok, again) PROVE Inv'
  <2>1. timers' \in [Relays -> Nat]
    BY <1>2 DEF EndResult, Inv, TypeOK, JobType
  <2> QED
    BY <1>2, <2>1 DEF EndResult, Inv, TypeOK, BelievedDeleted, TakenInv, Rows, Ignored, history
<1>3. ASSUME NEW r \in Relays, TimerFires(r) PROVE Inv'
  <2>1. queue' \in Seq(JobType)
    BY <1>3, InsertJob, JobTypes DEF TimerFires, Inv
  <2>2. timers' \in [Relays -> Nat]
    BY <1>3 DEF TimerFires, Inv, TypeOK
  <2> QED
    BY <1>3, <2>1, <2>2 DEF TimerFires, Inv, TypeOK, BelievedDeleted, TakenInv, Rows, Ignored, history
<1> QED
  BY <1>1, <1>2, <1>3

LEMMA Inductive ==
  ASSUME Inv, [Next]_vars
  PROVE  Inv'
<1>1. CASE UNCHANGED vars
  BY <1>1 DEF vars, jobs, history, Inv, TypeOK, BelievedDeleted, TakenInv, Rows, Ignored
<1>2. ASSUME NEW r \in Relays, CheckJob(r) PROVE Inv'
  BY <1>2, DropStep, GateStep, FineStep, IgnoresStep, DedupBeginsStep DEF CheckJob
<1>3. ASSUME NEW d \in direct, NEW ok \in BOOLEAN, EndsDirect(d, ok) PROVE Inv'
  BY <1>3, DirectEndsStep, DedupEndsStep DEF EndsDirect
<1> QED
  BY <1>1, <1>2, <1>3, RestartStep, EnterNormalStep, SeedStep, RecheckStep, SweepSteps,
     QueueSteps, EndDeletionStep, NetworkStep DEF Next

\* The inductive invariant the theorems below are read off.
THEOREM InvHolds == Spec => []Inv
BY InitInv, Inductive, PTL DEF Spec

\* What the daemon keeps in memory and in the rows: marks are on rows, and of
\* ignored relays alone is a deletion known to be taken.
THEOREM TypeCorrect == Spec => []TypeOK
<1>1. Inv => TypeOK
  BY DEF Inv
<1> QED
  BY <1>1, InvHolds, PTL

\* deletedRelays and deletion_published_at (deletion.ts:138-142, 163-167) only
\* name relays of which the network has taken a deletion.
THEOREM BeliefIsTrue == Spec => []BelievedDeleted
<1>1. Inv => BelievedDeleted
  BY DEF Inv
<1> QED
  BY <1>1, InvHolds, PTL

-----------------------------------------------------------------------------
(* No deletion is sent again                                                *)

\* The deletions of a URL, as entries of the queue.
DeletionsOf(r) == {e \in JobType : e.kind = "deletion" /\ e.relay = r}
DirectOf(r) == {d \in direct : d.url = r}
Running(r) ==
  IF current # None /\ current.kind = "deletion" /\ current.relay = r THEN 1 ELSE 0

LEMMA UnderWayIs ==
  ASSUME queue \in Seq(JobType), NEW r
  PROVE  UnderWay(r) = Cardinality(Positions(queue, DeletionsOf(r)))
                         + Cardinality(DirectOf(r)) + Running(r)
<1>1. {i \in DOMAIN queue : queue[i].kind = "deletion" /\ queue[i].relay = r}
        = Positions(queue, DeletionsOf(r))
  BY DEF Positions, DeletionsOf
<1> QED
  BY <1>1 DEF UnderWay, DirectOf, Running

LEMMA UnderWayIsNext ==
  ASSUME queue' \in Seq(JobType), NEW r
  PROVE  UnderWay(r)' = Cardinality(Positions(queue', DeletionsOf(r)))
                          + Cardinality(DirectOf(r)') + Running(r)'
<1>1. {i \in DOMAIN queue' : queue'[i].kind = "deletion" /\ queue'[i].relay = r}
        = Positions(queue', DeletionsOf(r))
  BY DEF Positions, DeletionsOf
<1> QED
  BY <1>1 DEF UnderWay, DirectOf, Running

\* A step that queues at most a job of another kind or relay, and adds no
\* deletion to those under way, adds none in all.
LEMMA NoneMore ==
  ASSUME Inv, Inv', NEW r \in Relays,
         queue' = queue \/ \E e \in JobType : e \notin DeletionsOf(r) /\ queue' = Insert(queue, e),
         DirectOf(r)' \subseteq DirectOf(r), Running(r)' <= Running(r)
  PROVE  UnderWay(r)' <= UnderWay(r)
<1>1. queue \in Seq(JobType) /\ queue' \in Seq(JobType)
  BY DEF Inv, TypeOK
<1>2. Cardinality(Positions(queue', DeletionsOf(r))) = Cardinality(Positions(queue, DeletionsOf(r)))
  <2>1. Cardinality(Positions(queue, DeletionsOf(r))) \in Nat
    BY <1>1, PositionsFinite
  <2>2. ASSUME NEW e \in JobType, e \notin DeletionsOf(r), queue' = Insert(queue, e)
        PROVE  Cardinality(Positions(queue', DeletionsOf(r)))
                 = Cardinality(Positions(queue, DeletionsOf(r)))
    BY <1>1, <2>1, <2>2, InsertCount
  <2> QED
    BY <2>2
<1>3. /\ IsFiniteSet(DirectOf(r)) /\ Cardinality(DirectOf(r)) \in Nat
      /\ Cardinality(DirectOf(r)') <= Cardinality(DirectOf(r))
      /\ Cardinality(DirectOf(r)') \in Nat
  <2>1. DirectOf(r) \in SUBSET direct
    BY DEF DirectOf
  <2>2. IsFiniteSet(DirectOf(r))
    BY <2>1, FS_Subset DEF Inv
  <2> QED
    BY <2>2, FS_Subset, FS_CardinalityType
<1>4. Cardinality(Positions(queue, DeletionsOf(r))) \in Nat
  BY <1>1, PositionsFinite
<1>5. Running(r) \in Nat /\ Running(r)' \in Nat
  BY DEF Running
<1> QED
  BY <1>1, <1>2, <1>3, <1>4, <1>5, UnderWayIs, UnderWayIsNext

LEMMA HeardIsKnown ==
  ASSUME Inv, NEW r \in heard, NEW q, NEW mem, NEW rows, marked \subseteq rows,
         Sendable(q, mem, rows)
  PROVE  q # r
BY DEF Sendable, Inv

\* A deletion queued by a check job is of another relay.
LEMMA QueuedIsOther ==
  ASSUME Inv, NEW r \in heard, NEW q \in Relays, NEW mem, NEW rows, marked \subseteq rows,
         DeleteQueued(q, mem, rows)
  PROVE  queue' = queue \/ \E e \in JobType : e \notin DeletionsOf(r) /\ queue' = Insert(queue, e)
<1>1. CASE Sendable(q, mem, rows)
  <2>1. Job("deletion", q) \in JobType /\ Job("deletion", q) \notin DeletionsOf(r)
    BY <1>1, HeardIsKnown, JobTypes DEF DeletionsOf, Job
  <2> QED
    BY <1>1, <2>1 DEF DeleteQueued
<1>2. CASE ~Sendable(q, mem, rows)
  BY <1>2 DEF DeleteQueued
<1> QED
  BY <1>1, <1>2

LEMMA DirectIsOther ==
  ASSUME Inv, NEW r \in heard, NEW q \in Relays, NEW p, NEW by, DeleteDirect(by, p, q)
  PROVE  DirectOf(r)' = DirectOf(r)
BY HeardIsKnown DEF DeleteDirect, DirectOf

\* The steps of a check job on q.
LEMMA CheckSendsOther ==
  ASSUME Inv, Inv', NEW r \in heard, NEW q \in Relays, CheckJob(q)
  PROVE  UnderWay(r)' <= UnderWay(r)
<1>1. r \in Relays /\ r \in marked
  BY DEF Inv, TypeOK, Ignored
<1>2. UNCHANGED current
  BY DEF CheckJob, Drop, GateDeletes, DedupBegins, CheckFine, CheckIgnores, Verdict, jobs
<1>3. Running(r)' <= Running(r)
  BY <1>2 DEF Running
<1>4. DirectOf(r)' \subseteq DirectOf(r)
  <2>1. ASSUME NEW url \in DedupUrls(q), DedupBegins(q, url)
        PROVE  DirectOf(r)' \subseteq DirectOf(r)
    <3>1. url \in Relays
      BY DEF DedupUrls
    <3> QED
      BY <2>1, <3>1, DirectIsOther DEF DedupBegins
  <2>2. CASE ~(\E url \in DedupUrls(q) : DedupBegins(q, url))
    BY <2>2 DEF CheckJob, Drop, GateDeletes, CheckFine, CheckIgnores, DirectOf
  <2> QED
    BY <2>1, <2>2
<1>5. queue' = queue \/ \E e \in JobType : e \notin DeletionsOf(r) /\ queue' = Insert(queue, e)
  <2>1. CASE Drop(q) \/ GateDeletes(q)
    BY <2>1, QueuedIsOther DEF Drop, GateDeletes
  <2>2. ASSUME NEW open \in BOOLEAN, CheckFine(q, open)
        PROVE  queue' = queue
               \/ \E e \in JobType : e \notin DeletionsOf(r) /\ queue' = Insert(queue, e)
    BY <2>2, JobTypes DEF CheckFine, DeletionsOf
  <2>3. ASSUME NEW dup, NEW fake \in BOOLEAN, CheckIgnores(q, dup, fake)
        PROVE  queue' = queue
               \/ \E e \in JobType : e \notin DeletionsOf(r) /\ queue' = Insert(queue, e)
    BY <2>3, QueuedIsOther DEF CheckIgnores, Verdict
  <2>4. ASSUME NEW url \in DedupUrls(q), DedupBegins(q, url) PROVE queue' = queue
    BY <2>4 DEF DedupBegins, jobs
  <2> QED
    BY <2>1, <2>2, <2>3, <2>4 DEF CheckJob
<1> QED
  BY <1>1, <1>3, <1>4, <1>5, NoneMore

\* The end of a deletion published without the queue.
LEMMA EndsSendOther ==
  ASSUME Inv, Inv', NEW r \in heard, NEW d \in direct, NEW ok \in BOOLEAN, EndsDirect(d, ok)
  PROVE  UnderWay(r)' <= UnderWay(r)
<1>1. r \in Relays /\ d.relay \in Relays
  BY DEF Inv, TypeOK, Ignored, DirectType
<1>2. UNCHANGED current /\ direct' = direct \ {d}
  BY DEF EndsDirect, DirectEnds, DedupEnds, Verdict, jobs
<1>3. Running(r)' <= Running(r) /\ DirectOf(r)' \subseteq DirectOf(r)
  BY <1>2 DEF Running, DirectOf
<1>4. queue' = queue \/ \E e \in JobType : e \notin DeletionsOf(r) /\ queue' = Insert(queue, e)
  <2>1. CASE DirectEnds(d, ok)
    BY <2>1 DEF DirectEnds, jobs
  <2>2. ASSUME NEW fake \in BOOLEAN, DedupEnds(d, ok, fake)
        PROVE  queue' = queue
               \/ \E e \in JobType : e \notin DeletionsOf(r) /\ queue' = Insert(queue, e)
    <3>1. marked \subseteq marked \cup Marks(d.url, ok)
      OBVIOUS
    <3> QED
      BY <1>1, <2>2, <3>1, QueuedIsOther DEF DedupEnds, Verdict
  <2> QED
    BY <2>1, <2>2 DEF EndsDirect
<1> QED
  BY <1>1, <1>3, <1>4, NoneMore

\* The slot of the queue takes a deletion from it, and lets it go.
LEMMA SlotSendsNone ==
  ASSUME Inv, Inv', NEW r \in heard, StartJob
  PROVE  UnderWay(r)' <= UnderWay(r)
<1>1. queue \in Seq(JobType) /\ queue' \in Seq(JobType) /\ queue # <<>> /\ current = None
      /\ queue' = Tail(queue) /\ current' = Head(queue) /\ direct' = direct
  BY DEF StartJob, Inv, TypeOK
<1>2. Cardinality(Positions(queue, DeletionsOf(r)))
        = Cardinality(Positions(queue', DeletionsOf(r)))
            + (IF Head(queue) \in DeletionsOf(r) THEN 1 ELSE 0)
  BY <1>1, TailCount
<1>3. Running(r) = 0 /\ Running(r)' <= (IF Head(queue) \in DeletionsOf(r) THEN 1 ELSE 0)
      /\ Running(r)' \in Nat
  <2>1. Head(queue) \in JobType
    BY <1>1, HeadTailProperties
  <2> QED
    BY <1>1, <2>1 DEF Running, DeletionsOf
<1>4. Cardinality(Positions(queue', DeletionsOf(r))) \in Nat
  BY <1>1, PositionsFinite
<1>5. DirectOf(r)' = DirectOf(r)
  BY <1>1 DEF DirectOf
<1>6. Cardinality(DirectOf(r)) \in Nat
  <2>1. DirectOf(r) \in SUBSET direct
    BY DEF DirectOf
  <2> QED
    BY <2>1, FS_Subset, FS_CardinalityType DEF Inv
<1> QED
  BY <1>1, <1>2, <1>3, <1>4, <1>5, <1>6, UnderWayIs, UnderWayIsNext

\* A restart loses what is under way.
LEMMA RestartSendsNone ==
  ASSUME Inv, Inv', NEW r \in heard, Restart
  PROVE  UnderWay(r)' <= UnderWay(r)
<1>1. queue' = <<>> /\ direct' = {} /\ current' = None
  BY DEF Restart
<1>2. Positions(queue', DeletionsOf(r)) = {} /\ DirectOf(r)' = {} /\ Running(r)' = 0
  BY <1>1 DEF Positions, DirectOf, Running
<1>3. UnderWay(r)' = 0
  <2>1. UnderWay(r)' = Cardinality(Positions(queue', DeletionsOf(r)))
                         + Cardinality(DirectOf(r)') + Running(r)'
    BY UnderWayIsNext DEF Inv, TypeOK
  <2>2. UnderWay(r)' = Cardinality({}) + Cardinality({}) + 0
    BY <1>2, <2>1
  <2> QED
    BY <2>2, FS_EmptySet
<1>4. Cardinality(Positions(queue, DeletionsOf(r))) \in Nat
  BY PositionsFinite DEF Inv, TypeOK
<1>5. Cardinality(DirectOf(r)) \in Nat
  <2>1. DirectOf(r) \in SUBSET direct
    BY DEF DirectOf
  <2> QED
    BY <2>1, FS_Subset, FS_CardinalityType DEF Inv
<1>6. UnderWay(r) \in Nat
  <2>1. Running(r) \in Nat
    BY DEF Running
  <2>2. queue \in Seq(JobType)
    BY DEF Inv, TypeOK
  <2> QED
    BY <1>4, <1>5, <2>1, <2>2, UnderWayIs
<1> QED
  BY <1>3, <1>6

\* Every other step.
LEMMA OthersSendNone ==
  ASSUME Inv, Inv', NEW r \in heard,
         \/ EnterNormal \/ UNCHANGED vars
         \/ NetworkTakesJob \/ (\E d \in direct : NetworkTakes(d))
         \/ \E q \in Relays : \/ Seed(q) \/ Recheck(q) \/ SweepBegins(q) \/ SweepNext(q)
                              \/ SyncNext(q) \/ TimerFires(q)
         \/ (\E ok, again \in BOOLEAN : EndResult(ok, again))
         \/ (\E ok \in BOOLEAN : EndDeletion(ok))
  PROVE  UnderWay(r)' <= UnderWay(r)
<1>1. r \in Relays
  BY DEF Inv, TypeOK, Ignored
<1>2. Running(r)' <= Running(r)
  <2>1. current' = current \/ current' = None
    BY DEF EnterNormal, NetworkTakesJob, NetworkTakes, vars, Seed, Recheck, SweepBegins, SweepNext, SyncNext, TimerFires,
       EndResult, EndDeletion, jobs
  <2> QED
    BY <2>1 DEF Running
<1>3. DirectOf(r)' \subseteq DirectOf(r)
  <2>1. ASSUME NEW q \in Relays, NEW by, Attempt(by, q) PROVE DirectOf(r)' \subseteq DirectOf(r)
    BY <2>1, DirectIsOther DEF Attempt, DirectOf
  <2>2. ASSUME NEW q \in Relays, SweepBegins(q) \/ SweepNext(q) \/ SyncNext(q)
        PROVE  DirectOf(r)' \subseteq DirectOf(r)
    BY <2>1, <2>2 DEF SweepBegins, SweepNext, SyncNext
  <2>3. CASE direct' = direct
    BY <2>3 DEF DirectOf
  <2> QED
    BY <2>2, <2>3 DEF EnterNormal, NetworkTakesJob, NetworkTakes, vars, Seed, Recheck, TimerFires, EndResult, EndDeletion
<1>4. queue' = queue \/ \E e \in JobType : e \notin DeletionsOf(r) /\ queue' = Insert(queue, e)
  <2>1. ASSUME NEW q \in Relays, TimerFires(q)
        PROVE  \E e \in JobType : e \notin DeletionsOf(r) /\ queue' = Insert(queue, e)
    BY <2>1, JobTypes DEF TimerFires, DeletionsOf
  <2> QED
    BY <2>1 DEF EnterNormal, NetworkTakesJob, NetworkTakes, vars, Seed, Recheck, SweepBegins, SweepNext, SyncNext, EndResult,
       EndDeletion, jobs
<1> QED
  BY <1>1, <1>2, <1>3, <1>4, NoneMore

LEMMA NoneSentAgain ==
  ASSUME Inv, Inv', [Next]_vars, NEW r \in heard
  PROVE  UnderWay(r)' <= UnderWay(r)
BY CheckSendsOther, EndsSendOther, SlotSendsNone, RestartSendsNone, OthersSendNone DEF Next

\* Once the daemon was told that a deletion is taken (deletion.ts:138-142, 163-
\* 167), none is signed again, whichever caller of deleteRelayCheckEvent comes
\* next (deletion.ts:88-118), in this run or a later one.
THEOREM SentOnce == Spec => NotSentAgain
<1> DEFINE NoneAgain == \A r \in heard : UnderWay(r)' <= UnderWay(r)
<1>1. Inv /\ Inv' /\ [Next]_vars => NoneAgain
  BY NoneSentAgain
<1>2. [][NoneAgain]_vars => NotSentAgain
  BY DEF NotSentAgain
<1> HIDE DEF NoneAgain
<1> QED
  BY <1>1, <1>2, InvHolds, PTL DEF Spec

-----------------------------------------------------------------------------
(* The refinement of RelayRows *)

\* The relay of a check that hostname dedup is in may still be checked: no
\* other job of it runs, and nobody else touches a row that is not ignored.
Checkable(r) == phase = "normal" /\ status[r] \in {"new", "ok"} /\ r \notin blocked
DedupInv ==
  /\ \A d \in direct : d.by = "dedup" => Checkable(d.relay)
  /\ \A d, e \in direct : d.by = "dedup" /\ e.by = "dedup" /\ d.relay = e.relay => d = e

LEMMA DedupStep ==
  ASSUME Inv, DedupInv, [Next]_vars
  PROVE  DedupInv'
<1>0. \A d \in direct : d \in DirectType /\ d.relay \in Relays
  BY DEF Inv, TypeOK, DirectType
<1>1. ASSUME phase' = phase, blocked' = blocked,
             NEW d \in direct, d.by = "dedup", status'[d.relay] = status[d.relay]
      PROVE  Checkable(d.relay)'
  <2>1. PICK r \in Relays : r = d.relay /\ Checkable(r)
    BY <1>0, <1>1 DEF DedupInv
  <2>2. Checkable(r)'
    BY <1>1, <2>1 DEF Checkable
  <2> QED
    BY <2>1, <2>2
<1>2. ASSUME UNCHANGED <<status, phase, blocked>>,
             \A d \in direct' : d.by = "dedup" => d \in direct
      PROVE  DedupInv'
  BY <1>1, <1>2 DEF DedupInv, Checkable
<1>3. CASE Restart
  BY <1>3 DEF Restart, DedupInv
<1>4. ASSUME NEW r \in Relays, Seed(r) \/ Recheck(r) PROVE DedupInv'
  <2>1. /\ status[r] \in {"gone", "fake"} /\ direct' = direct
        /\ UNCHANGED <<phase, blocked>> /\ \A q \in Relays \ {r} : status'[q] = status[q]
    BY <1>4 DEF Seed, Recheck, Inv, TypeOK
  <2>2. \A d \in direct : d.by = "dedup" => d.relay # r
    BY <2>1 DEF DedupInv, Checkable
  <2> QED
    BY <1>0, <1>1, <2>1, <2>2 DEF DedupInv, Checkable
<1>5. CASE EnterNormal
  BY <1>5 DEF EnterNormal, DedupInv, Checkable
<1>6. ASSUME NEW r \in Relays, Runs(r), direct' = direct, UNCHANGED <<phase, blocked>>,
             \A q \in Relays \ {r} : status'[q] = status[q]
      PROVE  DedupInv'
  <2>1. \A d \in direct : d.by = "dedup" => d.relay # r
    BY <1>6 DEF Runs
  <2> QED
    BY <1>0, <1>1, <1>6, <2>1 DEF DedupInv, Checkable
<1>7. ASSUME NEW r \in Relays, Drop(r) \/ GateDeletes(r) PROVE DedupInv'
  BY <1>6, <1>7 DEF Drop, GateDeletes, Inv, TypeOK
<1>8. ASSUME NEW r \in Relays, NEW open \in BOOLEAN, CheckFine(r, open) PROVE DedupInv'
  BY <1>6, <1>8 DEF CheckFine, Checks, Inv, TypeOK
<1>9. ASSUME NEW r \in Relays, NEW dup, NEW fake \in BOOLEAN,
             CheckIgnores(r, dup, fake)
      PROVE  DedupInv'
  BY <1>6, <1>9 DEF CheckIgnores, Verdict, Checks, Inv, TypeOK
<1>10. ASSUME NEW r \in Relays, NEW url, DedupBegins(r, url) PROVE DedupInv'
  <2> DEFINE new == [by |-> "dedup", relay |-> r, url |-> url]
  <2>1. /\ UNCHANGED <<status, phase, blocked>> /\ direct' = direct \cup {new}
        /\ phase = "normal" /\ r \in Rows \ Ignored /\ r \notin blocked
        /\ \A d \in direct : d.by = "dedup" => d.relay # r
    BY <1>10 DEF DedupBegins, DeleteDirect, Sendable, Checks, Runs
  <2>2. Checkable(r)'
    BY <2>1 DEF Checkable, Rows, Ignored, Inv, TypeOK
  <2>4. new.by = "dedup" /\ new.relay = r
    OBVIOUS
  <2> HIDE DEF new
  <2>3. ASSUME NEW d \in direct', d.by = "dedup" PROVE Checkable(d.relay)'
    <3>1. CASE d \in direct
      BY <1>1, <2>1, <2>3, <3>1
    <3>2. CASE d = new
      BY <2>2, <2>4, <3>2
    <3> QED
      BY <2>1, <3>1, <3>2
  <2>5. \A d, e \in direct' : d.by = "dedup" /\ e.by = "dedup" /\ d.relay = e.relay => d = e
    BY <2>1, <2>4 DEF DedupInv
  <2> QED
    BY <2>3, <2>5 DEF DedupInv, Checkable
<1>11. ASSUME NEW d \in direct, NEW ok \in BOOLEAN, NEW fake \in BOOLEAN,
              DedupEnds(d, ok, fake)
       PROVE  DedupInv'
  <2>1. /\ direct' = direct \ {d} /\ UNCHANGED <<phase, blocked>> /\ d.by = "dedup"
        /\ \A q \in Relays \ {d.relay} : status'[q] = status[q]
    BY <1>11 DEF DedupEnds, Verdict, Inv, TypeOK
  <2>2. ASSUME NEW e \in direct', e.by = "dedup" PROVE Checkable(e.relay)'
    <3>1. e.relay # d.relay
      BY <2>1, <2>2 DEF DedupInv
    <3> QED
      BY <1>0, <1>1, <2>1, <2>2, <3>1
  <2> QED
    BY <2>1, <2>2 DEF DedupInv, Checkable
<1>15. ASSUME NetworkTakesJob \/ \E d \in direct : NetworkTakes(d) PROVE DedupInv'
  BY <1>2, <1>15 DEF NetworkTakesJob, NetworkTakes
<1>12. ASSUME NEW r \in Relays, SweepBegins(r) \/ SweepNext(r) \/ SyncNext(r)
       PROVE  DedupInv'
  <2>1. PICK by \in {"sweep", "sync"} : Attempt(by, r)
    BY <1>12 DEF SweepBegins, SweepNext, SyncNext
  <2> QED
    BY <1>2, <1>12, <2>1, AttemptEffect DEF SweepBegins, SweepNext, SyncNext, history, jobs
<1>13. ASSUME NEW d \in direct, NEW ok \in BOOLEAN, DirectEnds(d, ok) PROVE DedupInv'
  BY <1>2, <1>13 DEF DirectEnds
<1>14. CASE StartJob \/ (\E r \in Relays : TimerFires(r))
            \/ (\E ok, again \in BOOLEAN : EndResult(ok, again))
            \/ (\E ok \in BOOLEAN : EndDeletion(ok)) \/ UNCHANGED vars
  BY <1>2, <1>14 DEF StartJob, TimerFires, EndResult, EndDeletion, vars
<1> QED
  BY <1>3, <1>4, <1>5, <1>7, <1>8, <1>9, <1>10, <1>11, <1>12, <1>13, <1>14, <1>15
  DEF Next, CheckJob, EndsDirect

LEMMA TableStep ==
  ASSUME Inv, DedupInv, [Next]_vars
  PROVE  [Table!Next]_(Table!vars)
<1>1. CASE Restart
  BY <1>1 DEF Restart, Table!Next, Table!Restart
<1>2. CASE EnterNormal
  <2>1. Table!EnterNormal
    BY <1>2 DEF EnterNormal, Rows, Table!EnterNormal, Table!Fresh
  <2> QED
    BY <2>1 DEF Table!Next
<1>3. ASSUME NEW r \in Relays, Seed(r) PROVE Table!Next
  BY <1>3 DEF Seed, Table!Seed, Table!Next
<1>4. ASSUME NEW r \in Relays, Recheck(r) PROVE Table!Next
  BY <1>4 DEF Recheck, Table!Recheck, Table!Next
<1>5. ASSUME NEW r \in Relays, Drop(r) PROVE Table!Next
  <2>1. status' = [q \in Relays |-> IF q \in {r} THEN "gone" ELSE status[q]]
    BY <1>5 DEF Drop, Inv, TypeOK
  <2>2. Table!Drop({r}) /\ r \in blocked
    BY <1>5, <2>1 DEF Drop, Table!Drop
  <2> QED
    BY <2>2 DEF Table!Next
<1>6. ASSUME NEW r \in Relays, Checks(r) PROVE r \in Table!Checkable \ blocked
  BY <1>6 DEF Checks, Runs, Rows, Ignored, Table!Checkable, Table!Fresh, Inv, TypeOK
<1>7. ASSUME NEW r \in Relays, NEW open \in BOOLEAN, CheckFine(r, open) PROVE Table!Next
  <2>1. Table!Check(r, "ok")
    BY <1>6, <1>7 DEF CheckFine, Table!Check
  <2> QED
    BY <2>1 DEF Table!Next
<1>8. ASSUME NEW r \in Relays, NEW dup, NEW fake \in BOOLEAN,
             CheckIgnores(r, dup, fake)
      PROVE  Table!Next
  <2>1. Table!Check(r, IF fake THEN "fake" ELSE "other")
    BY <1>6, <1>8 DEF CheckIgnores, Verdict, Table!Check
  <2> QED
    BY <2>1 DEF Table!Next
<1>9. ASSUME NEW d \in direct, NEW ok \in BOOLEAN, NEW fake \in BOOLEAN,
             DedupEnds(d, ok, fake)
      PROVE  Table!Next
  <2>1. d.relay \in Relays /\ Checkable(d.relay)
    BY <1>9 DEF DedupEnds, DedupInv, Inv, TypeOK, DirectType
  <2>2. d.relay \in Table!Checkable \ blocked
    BY <2>1 DEF Checkable, Table!Checkable
  <2>3. Table!Check(d.relay, IF fake THEN "fake" ELSE "other")
    BY <1>9, <2>2 DEF DedupEnds, Verdict, Table!Check
  <2> QED
    BY <2>1, <2>3 DEF Table!Next
<1>10. CASE UNCHANGED <<status, phase, blocked>>
  BY <1>10 DEF Table!vars
<1>11. ASSUME NEW r \in Relays, GateDeletes(r) \/ (\E url \in DedupUrls(r) : DedupBegins(r, url))
       PROVE  UNCHANGED <<status, phase, blocked>>
  BY <1>11 DEF GateDeletes, DedupBegins
<1>12. ASSUME NEW r \in Relays, SweepBegins(r) \/ SweepNext(r) \/ SyncNext(r) \/ TimerFires(r)
       PROVE  UNCHANGED <<status, phase, blocked>>
  BY <1>12 DEF SweepBegins, SweepNext, SyncNext, TimerFires
<1>13. ASSUME NEW d \in direct, NEW ok \in BOOLEAN, DirectEnds(d, ok)
       PROVE  UNCHANGED <<status, phase, blocked>>
  BY <1>13 DEF DirectEnds
<1>14. CASE StartJob \/ (\E ok, again \in BOOLEAN : EndResult(ok, again))
            \/ (\E ok \in BOOLEAN : EndDeletion(ok)) \/ UNCHANGED vars
            \/ NetworkTakesJob \/ (\E d \in direct : NetworkTakes(d))
  BY <1>10, <1>14 DEF StartJob, EndResult, EndDeletion, vars, NetworkTakesJob, NetworkTakes
<1> QED
  BY <1>1, <1>2, <1>3, <1>4, <1>5, <1>7, <1>8, <1>9, <1>10, <1>11, <1>12, <1>13, <1>14
  DEF Next, CheckJob, EndsDirect

\* The verdict of a check is written as if the check had read the gate then,
\* also where hostname dedup has waited for the network inside it
\* (worker.ts:261-354): what CheckCycle says of every check.
THEOREM ChecksAreAtomic == Spec => ChecksAtomic
<1>1. Init => Table!Init /\ DedupInv
  BY DEF Init, Table!Init, Table!Statuses, DedupInv
<1>2. Inv /\ DedupInv /\ [Next]_vars => DedupInv' /\ [Table!Next]_(Table!vars)
  BY DedupStep, TableStep
<1> QED
  BY <1>1, <1>2, InvHolds, PTL DEF Spec, ChecksAtomic, Table!Spec
=============================================================================
