---------------------------- MODULE RelayDeletion ----------------------------
(***************************************************************************)
(* The NIP-09 deletions of relaymon: once a relay is ignored, a kind 5     *)
(* event takes its check event (kind 30166) off the network, one per       *)
(* ignore episode.  utils/deletion.ts decides, over a set in memory and a  *)
(* column of relay_status; check jobs, the deletion sweep and the sync     *)
(* with other monitors call it and wait for the network at the same time,  *)
(* while check events of the same relay are waiting to be published.       *)
(***************************************************************************)
EXTENDS Integers, PQueue

CONSTANTS
  Relays,     \* relay URLs, as the rows of relay_status have them
  Canonical,  \* normalizeURL, as a function on them
  Blockable,  \* those a blocklist edited between two runs may hold
  Syncable,   \* those other monitors may come to block
  None,       \* no publish job under way
  MaxQueue    \* bound of the model: publish jobs that wait or back off

ASSUME RelayDeletionAssumption ==
  /\ Canonical \in [Relays -> Relays]
  /\ \A r \in Relays : Canonical[Canonical[r]] = Canonical[r]
  /\ Blockable \subseteq Relays
  /\ Syncable \subseteq {r \in Relays : Canonical[r] = r}
  /\ None \notin Relays /\ MaxQueue \in Nat \ {0}

VARIABLES
  status,    \* the row of a relay in relay_status                (durable)
  marked,    \* rows with a deletion_published_at                 (durable)
  phase,     \* "boot" up to the end of warmup: nothing is published
  blocked,   \* hostname blocklist, read once per run
  kick,      \* relays with a job of kickstartPublishing still to run
  deleted,   \* deletedRelays
  queue,     \* publishQueue: check events and deletions waiting
  current,   \* its one job under way
  timers,    \* check events of each relay waiting for their backoff
  direct,    \* deletions published without the queue, under way
  taken,     \* publishes under way that a relay has taken, the caller not told
  sweep,     \* rest of the snapshot publishDeletions goes through
  sent,      \* history: URLs of which the network has taken a deletion
  heard      \* history: ignored rows whose deletion the daemon was told is taken

history == <<sent, heard>>
jobs == <<queue, current, timers>>
vars == <<status, marked, phase, blocked, kick, deleted, jobs, direct, taken,
          sweep, history>>

Rows == {r \in Relays : status[r] # "gone"}
Ignored == {r \in Relays : status[r] \in {"fake", "other"}}

-----------------------------------------------------------------------------
(* deleteRelayCheckEvent *)

\* A deletion is signed unless suppressed or already published, as the set in
\* memory (mem) or the column (rows) knows.
Sendable(r, mem, rows) == phase = "normal" /\ r \notin mem \cup rows

\* A deletion found to be published already is remembered.
Skip(r, mem, rows) ==
  IF phase = "normal" /\ r \in mem \cup rows THEN mem \cup {r} ELSE mem

Job(k, r) == [kind |-> k, relay |-> r, isRetry |-> FALSE]

Outstanding ==
  Len(queue) + (IF current = None THEN 0 ELSE 1) + FoldFunction(+, 0, timers)
Room == Outstanding < MaxQueue

\* With a queue manager: the deletion is signed now and published later.
DeleteQueued(r, mem, rows) ==
  /\ deleted' = Skip(r, mem, rows)
  /\ IF Sendable(r, mem, rows)
     THEN Room /\ queue' = Insert(queue, Job("deletion", r))
     ELSE UNCHANGED queue

\* Without: the caller waits until the network took it or did not.
DeleteDirect(by, r, url) ==
  /\ Sendable(url, deleted, marked)
  /\ direct' = direct \cup {[by |-> by, relay |-> r, url |-> url]}

\* Mutant: a deletion that no relay took is recorded as well.
TakenMutant(url, ok) == {url}
\* The daemon remembers the deletion if the publish succeeded.
Taken(url, ok) == IF ok THEN {url} ELSE {}

\* Mutant: the column is written by an upsert.
MarksMutant(url, ok) == Taken(url, ok)
\* The update of the column finds the row of exactly this URL, if there is one.
Marks(url, ok) == Taken(url, ok) \cap Rows

\* History: what the daemon is told of the rows it ignores.
Told(url, ok, ignored) == {u \in {url} \cap ignored : ok}

-----------------------------------------------------------------------------
Init ==
  /\ status \in [Relays -> {"gone", "new"}] /\ marked = {}
  /\ phase = "boot" /\ blocked = {} /\ kick = {} /\ deleted = {}
  /\ queue = <<>> /\ current = None /\ timers = [r \in Relays |-> 0]
  /\ direct = {} /\ taken = {} /\ sweep = {}
  /\ sent = {} /\ heard = {}

\* The process ends; what it had signed and not sent is lost, and so is the
\* answer to what a relay has taken and the daemon has not yet recorded.
Restart ==
  /\ phase = "normal"
  /\ phase' = "boot" /\ blocked' \in SUBSET Blockable
  /\ kick' = {} /\ deleted' = {}
  /\ queue' = <<>> /\ current' = None /\ timers' = [r \in Relays |-> 0]
  /\ direct' = {} /\ taken' = {} /\ sweep' = {}
  /\ UNCHANGED <<status, marked, history>>

Seed(r) ==
  /\ status[r] = "gone" /\ r \notin blocked
  /\ status' = [status EXCEPT ![r] = "new"]
  /\ UNCHANGED <<marked, phase, blocked, kick, deleted, jobs, direct, taken,
                 sweep, history>>

\* Warmup is over when every row has been checked; kickstartPublishing queues
\* relays whether they are ignored or not.
EnterNormal ==
  /\ phase = "boot" /\ \A r \in Rows : status[r] # "new"
  /\ phase' = "normal" /\ kick' \in SUBSET Rows
  /\ UNCHANGED <<status, marked, blocked, deleted, jobs, direct, taken, sweep,
                 history>>

-----------------------------------------------------------------------------
(* Check jobs, up to where deletions are concerned *)

\* Mutant: a check runs beside one of the same relay that dedup holds up.
RunsMutant(r) ==
  /\ r \in Rows
  /\ phase = "boot" => status[r] = "new"
  /\ phase = "normal" => r \notin Ignored \/ r \in kick

\* A relay's check job runs: in warmup its first one, later any.
Runs(r) ==
  /\ r \in Rows
  /\ \A d \in direct : d.by = "dedup" => d.relay # r
  /\ phase = "boot" => status[r] = "new"
  /\ phase = "normal" => r \notin Ignored \/ r \in kick

Checks(r) == Runs(r) /\ r \notin Ignored /\ r \notin blocked

\* The gate finds the relay on the blocklist: its row goes.
Drop(r) ==
  /\ Runs(r) /\ r \in blocked
  /\ DeleteQueued(r, deleted, marked)
  /\ status' = [status EXCEPT ![r] = "gone"]
  /\ marked' = marked \ {r} /\ kick' = kick \ {r} /\ heard' = heard \ {r}
  /\ UNCHANGED <<phase, blocked, current, timers, direct, taken, sweep, sent>>

\* The gate finds it ignored.
GateDeletes(r) ==
  /\ Runs(r) /\ r \in Ignored \ blocked
  /\ DeleteQueued(r, deleted, marked)
  /\ kick' = kick \ {r}
  /\ UNCHANGED <<status, marked, phase, blocked, current, timers, direct, taken,
                 sweep, history>>

\* Nothing is wrong with it; its check event is queued if it is online.
CheckFine(r, open) ==
  /\ Checks(r)
  /\ status' = [status EXCEPT ![r] = "ok"]
  /\ marked' = marked \ {r} /\ kick' = kick \ {r} /\ heard' = heard \ {r}
  /\ IF open /\ phase = "normal"
     THEN Room /\ queue' = Insert(queue, Job("result", r))
     ELSE UNCHANGED queue
  /\ UNCHANGED <<phase, blocked, deleted, current, timers, direct, taken, sweep,
                 sent>>

\* Mutant: persistResult clears the column of an ignored relay as well.
KeptMutant(rows, r) == rows \ {r}
Kept(rows, r) == rows

\* It will be ignored, as a fake relay or as a duplicate: the deletion of a
\* fake one is queued, and persistResult keeps the column.
Verdict(r, fake, mem, rows) ==
  /\ status' = [status EXCEPT ![r] = IF fake THEN "fake" ELSE "other"]
  /\ marked' = Kept(rows, r) /\ kick' = kick \ {r}
  /\ IF fake THEN DeleteQueued(r, mem, rows)
             ELSE deleted' = mem /\ UNCHANGED queue
  /\ UNCHANGED <<phase, blocked, current, timers, sweep>>

\* Hostname dedup asks for the deletion of the canonical form of the URL, its
\* defensive branch for that of the URL itself.
DedupUrls(r) == {r, Canonical[r]}

\* Hostname dedup (of dup, if any) has no deletion to publish, or the relay is
\* only fake.
CheckIgnores(r, dup, fake) ==
  /\ Checks(r) /\ (dup # None \/ fake)
  /\ dup # None => dup \in DedupUrls(r) /\ ~Sendable(dup, deleted, marked)
  /\ Verdict(r, fake, IF dup = None THEN deleted ELSE Skip(dup, deleted, marked), marked)
  /\ UNCHANGED <<direct, taken, history>>

\* Hostname dedup publishes the deletion itself, inside the check.
DedupBegins(r, url) ==
  /\ Checks(r) /\ url \in DedupUrls(r)
  /\ DeleteDirect("dedup", r, url)
  /\ UNCHANGED <<status, marked, phase, blocked, kick, deleted, jobs, taken,
                 sweep, history>>

\* publishEvent has come back; then the row of the check is written.
DedupEnds(d, ok, fake) ==
  /\ d \in direct /\ d.by = "dedup" /\ (ok => d \in taken)
  /\ direct' = direct \ {d} /\ taken' = taken \ {d}
  /\ Verdict(d.relay, fake, deleted \cup Taken(d.url, ok), marked \cup Marks(d.url, ok))
  /\ heard' = heard \cup Told(d.url, ok, Ignored \cup {d.relay})
  /\ UNCHANGED sent

\* recheckIgnoredRelay finds that a fake relay speaks nostr after all.
Recheck(r) ==
  /\ phase = "normal" /\ status[r] = "fake"
  /\ status' = [status EXCEPT ![r] = "ok"]
  /\ marked' = marked \ {r} /\ heard' = heard \ {r}
  /\ UNCHANGED <<phase, blocked, kick, deleted, jobs, direct, taken, sweep,
                 sent>>

-----------------------------------------------------------------------------
(* publishDeletions and sync: one deletion at a time, in sequence *)

Busy(by) == \E d \in direct : d.by = by

\* Either publishes the deletion or finds that there is nothing to publish.
Attempt(by, r) ==
  IF Sendable(r, deleted, marked)
  THEN DeleteDirect(by, r, r) /\ UNCHANGED deleted
  ELSE deleted' = Skip(r, deleted, marked) /\ UNCHANGED direct

\* Mutant: only fake relays are swept.
PendingMutant == {r \in Ignored \ marked : status[r] = "fake"}
Pending == Ignored \ marked

\* The snapshot is taken, and its first relay seen to at once.
SweepBegins(r) ==
  /\ phase = "normal" /\ sweep = {} /\ ~Busy("sweep")
  /\ r \in Pending
  /\ sweep' = Pending \ {r}
  /\ Attempt("sweep", r)
  /\ UNCHANGED <<status, marked, phase, blocked, kick, jobs, taken, history>>

\* The next relay of the snapshot, which may be old by now.
SweepNext(r) ==
  /\ r \in sweep /\ ~Busy("sweep")
  /\ sweep' = sweep \ {r}
  /\ Attempt("sweep", r)
  /\ UNCHANGED <<status, marked, phase, blocked, kick, jobs, taken, history>>

\* A relay that another monitor has come to block; our row stays as it is.
SyncNext(r) ==
  /\ phase = "normal" /\ r \in Syncable /\ ~Busy("sync")
  /\ Attempt("sync", r)
  /\ UNCHANGED <<status, marked, phase, blocked, kick, jobs, taken, sweep,
                 history>>

\* Succeeds only if a relay took it; may fail nonetheless, the answer being late.
DirectEnds(d, ok) ==
  /\ d \in direct /\ d.by # "dedup" /\ (ok => d \in taken)
  /\ direct' = direct \ {d} /\ taken' = taken \ {d}
  /\ deleted' = deleted \cup Taken(d.url, ok)
  /\ marked' = marked \cup Marks(d.url, ok)
  /\ heard' = heard \cup Told(d.url, ok, Ignored)
  /\ UNCHANGED <<status, phase, blocked, kick, jobs, sweep, sent>>

\* A relay takes a deletion under way; the daemon has no answer yet.
NetworkTakes(d) ==
  /\ d \in direct \ taken
  /\ taken' = taken \cup {d} /\ sent' = sent \cup {d.url}
  /\ UNCHANGED <<status, marked, phase, blocked, kick, deleted, jobs, direct,
                 sweep, heard>>

-----------------------------------------------------------------------------
(* publishQueue, one job at a time *)

StartJob ==
  /\ current = None /\ queue # <<>>
  /\ queue' = Tail(queue) /\ current' = Head(queue)
  /\ UNCHANGED <<status, marked, phase, blocked, kick, deleted, timers, direct,
                 taken, sweep, history>>

\* A check event that failed is retried until its attempts are used up.
EndResult(ok, again) ==
  /\ current # None /\ current.kind = "result"
  /\ current' = None
  /\ timers' = [timers EXCEPT ![current.relay] = IF ~ok /\ again THEN @ + 1 ELSE @]
  /\ UNCHANGED <<status, marked, phase, blocked, kick, deleted, queue, direct,
                 taken, sweep, history>>

NetworkTakesJob ==
  /\ current # None /\ current.kind = "deletion" /\ current \notin taken
  /\ taken' = taken \cup {current} /\ sent' = sent \cup {current.relay}
  /\ UNCHANGED <<status, marked, phase, blocked, kick, deleted, jobs, direct,
                 sweep, heard>>

\* A deletion that failed is not.
EndDeletion(ok) ==
  /\ current # None /\ current.kind = "deletion" /\ (ok => current \in taken)
  /\ current' = None /\ taken' = taken \ {current}
  /\ deleted' = deleted \cup Taken(current.relay, ok)
  /\ marked' = marked \cup Marks(current.relay, ok)
  /\ heard' = heard \cup Told(current.relay, ok, Ignored)
  /\ UNCHANGED <<status, phase, blocked, kick, queue, timers, direct, sweep,
                 sent>>

TimerFires(r) ==
  /\ timers[r] > 0
  /\ timers' = [timers EXCEPT ![r] = @ - 1]
  /\ queue' = Insert(queue, [Job("result", r) EXCEPT !.isRetry = TRUE])
  /\ UNCHANGED <<status, marked, phase, blocked, kick, deleted, current, direct,
                 taken, sweep, history>>

-----------------------------------------------------------------------------
CheckJob(r) ==
  \/ Drop(r) \/ GateDeletes(r)
  \/ \E url \in DedupUrls(r) : DedupBegins(r, url)
  \/ \E yes \in BOOLEAN : CheckFine(r, yes)
  \/ \E dup \in DedupUrls(r) \cup {None}, fake \in BOOLEAN : CheckIgnores(r, dup, fake)

EndsDirect(d, ok) == DirectEnds(d, ok) \/ \E fake \in BOOLEAN : DedupEnds(d, ok, fake)

Next ==
  \/ Restart \/ EnterNormal \/ StartJob \/ NetworkTakesJob
  \/ \E r \in Relays :
       \/ Seed(r) \/ CheckJob(r) \/ Recheck(r)
       \/ SweepBegins(r) \/ SweepNext(r) \/ SyncNext(r) \/ TimerFires(r)
  \/ \E d \in direct : NetworkTakes(d) \/ \E ok \in BOOLEAN : EndsDirect(d, ok)
  \/ \E ok, again \in BOOLEAN : EndResult(ok, again)
  \/ \E ok \in BOOLEAN : EndDeletion(ok)

Spec == Init /\ [][Next]_vars

Swept(r) == [by |-> "sweep", relay |-> r, url |-> r]

\* The sweep comes round every deletion_interval and goes through its list, and
\* of a relay's deletions not every one is refused or left without an answer.
FairSpec ==
  /\ Spec
  /\ WF_vars(\E r \in Relays : SweepBegins(r) \/ SweepNext(r))
  /\ \A r \in Relays :
       /\ SF_vars(NetworkTakes(Swept(r)))
       /\ SF_vars(DirectEnds(Swept(r), TRUE))

-----------------------------------------------------------------------------
(* Properties *)

JobType == [kind : {"result", "deletion"}, relay : Relays, isRetry : BOOLEAN]
DirectType == [by : {"dedup", "sweep", "sync"}, relay : Relays, url : Relays]

TypeOK ==
  /\ status \in [Relays -> {"gone", "new", "ok", "fake", "other"}]
  /\ marked \subseteq Rows
  /\ phase \in {"boot", "normal"} /\ blocked \subseteq Blockable
  /\ kick \subseteq Rows /\ deleted \subseteq Relays
  /\ queue \in Seq(JobType) /\ current \in JobType \cup {None}
  /\ timers \in [Relays -> Nat]
  /\ direct \subseteq DirectType /\ sweep \subseteq Relays
  /\ taken \subseteq direct \cup {j \in {current} : j # None /\ j.kind = "deletion"}
  /\ sent \subseteq Relays /\ heard \subseteq Ignored

\* Deletions of a URL that are signed and not yet settled.
UnderWay(u) ==
  Cardinality({i \in DOMAIN queue : queue[i].kind = "deletion" /\ queue[i].relay = u})
  + Cardinality({d \in direct : d.url = u})
  + (IF current # None /\ current.kind = "deletion" /\ current.relay = u THEN 1 ELSE 0)

\* Once the daemon was told that an ignored relay's deletion is taken, no further
\* one is signed while the relay stays ignored, by whichever caller, under
\* whichever form of the URL, and across restarts.  (What was taken without the
\* daemon being told, because it was killed or the answer came too late, is
\* sent again.)
NotSentAgain == [][\A r \in heard : UnderWay(r)' <= UnderWay(r)]_vars

\* What the daemon believes to be deleted, in memory or in a row, is a URL whose
\* deletion some relay has taken, whatever became of the row in between and
\* whichever deletion under way a late answer belongs to.
BelievedDeleted == deleted \cup marked \subseteq sent

\* An ignored relay whose deletion is not published gets it published, unless
\* it is un-ignored or the process ends, or the set in memory has an earlier
\* deletion of it.
PendingPublished ==
  \A r \in Relays :
    (phase = "normal" /\ r \in Ignored \ (marked \cup deleted))
      ~> (r \in marked \/ r \notin Ignored \/ phase = "boot")

\* The same, of a relay with an earlier deletion as well: what is ignored again
\* is deleted again.
ReignoredPublished ==
  \A r \in Relays :
    (phase = "normal" /\ r \in Ignored \ marked)
      ~> (r \in marked \/ r \notin Ignored \/ phase = "boot")

-----------------------------------------------------------------------------
(* The table of relays, as RelayRows has it *)

Table == INSTANCE RelayRows WITH Malformed <- {}

\* A check is one step here unless hostname dedup publishes inside it, beside
\* everything else; its row is written as if that check had been one step too.
ChecksAtomic == Table!Spec
=============================================================================
