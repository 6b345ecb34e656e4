----------------------------- MODULE CheckCycle -----------------------------
(***************************************************************************)
(* The check cycle of the relaymon daemon: boot, warmup, kickstart and the *)
(* expiry loop (core/daemon.ts) feed the check queue (utils/queueManager.ts)*)
(* whose jobs run Worker.processRelay (core/worker.ts); a separate loop     *)
(* re-checks the relays ignored as fake.  A step is a stretch of code      *)
(* between two awaits that leave the process, so the jobs of different     *)
(* relays, the loops and a restart interleave at those points only.        *)
(***************************************************************************)
EXTENDS Integers, FiniteSets

CONSTANTS
  Relays,      \* relay URLs the seeder can find
  Malformed,   \* those that contain a "|"
  Blockable,   \* those a blocklist edited between two runs may hold
  Slots,       \* concurrency of the check queue
  None,        \* a free slot; no re-check under way
  MaxBatch,    \* checks.options.max: relays enqueued at once
  PoisonAt,    \* retries above which a relay counts as poisoned (7)
  RetryCap     \* bound of the model: retry counters saturate here

\* A check job that is running, and whether it began in warmup.
Jobs == [relay : Relays, warm : BOOLEAN]

ASSUME CheckCycleAssumption ==
  /\ Malformed \subseteq Relays /\ Blockable \subseteq Relays
  /\ None \notin Relays \cup Jobs
  /\ PoisonAt \in Nat /\ RetryCap \in Nat /\ PoisonAt < RetryCap
  /\ MaxBatch \in Nat \ {0}

VARIABLES
  row,         \* relay_status: one row per relay                    (durable)
  blocked,     \* hostname blocklist, read once per run
  phase,       \* where runDaemon is
  known,       \* Worker.knownRelayStatus
  mem,         \* Worker.relayRetries
  enqueued,    \* QueueManager.enqueuedRelays
  waiting,     \* jobs of each relay waiting in checkQueue
  slot,        \* jobs running in checkQueue, with the mode they began in
  rechecking,  \* relay that recheckIgnoredRelay is waiting for
  seenOnline   \* history: relays some check has found online

vars == <<row, blocked, phase, known, mem, enqueued, waiting, slot,
          rechecking, seenOnline>>
queues == <<enqueued, waiting, slot>>

-----------------------------------------------------------------------------
(* Rows of relay_status *)

Rows == [present : BOOLEAN, online : BOOLEAN, ignore : {"no", "fake", "other"},
         retries : 0..RetryCap, checked : BOOLEAN]
NoRow == [present |-> FALSE, online |-> FALSE, ignore |-> "no",
          retries |-> 0, checked |-> FALSE]
NewRow == [NoRow EXCEPT !.present = TRUE]

Present == {r \in Relays : row[r].present}
Ignored == {r \in Present : row[r].ignore # "no"}
Unchecked == {r \in Present : ~row[r].checked}

Bump(n) == IF n < RetryCap THEN n + 1 ELSE n

RunningOn(r) == {k \in Slots : slot[k] # None /\ slot[k].relay = r}
\* Mutant: waits for an empty queue and not for the running jobs.
QueueIdleMutant == \A r \in Relays : waiting[r] = 0
QueueIdle == (\A r \in Relays : waiting[r] = 0) /\ (\A k \in Slots : slot[k] = None)

\* What Worker.initializeRelayStatusFromDB loads.
LoadKnown == [r \in Relays |-> IF ~row[r].present THEN "unknown"
                               ELSE IF row[r].online THEN "online" ELSE "offline"]
\* Mutant: the retries of an earlier run are not loaded.
LoadRetriesMutant == [r \in Relays |-> 0]
LoadRetries == [r \in Relays |-> row[r].retries]

-----------------------------------------------------------------------------
(* Every run begins here, the first one with a database that holds only    *)
(* what an older version may have left in it: malformed rows, offline or   *)
(* never checked.                                                          *)

NoneWaiting == [r \in Relays |-> 0]
AllFree == [k \in Slots |-> None]

Init ==
  /\ phase = "boot"
  /\ enqueued = {} /\ waiting = NoneWaiting /\ slot = AllFree /\ rechecking = None
  /\ \E done \in SUBSET Malformed :
       row = [r \in Relays |-> IF r \in Malformed
                               THEN [NewRow EXCEPT !.checked = r \in done] ELSE NoRow]
  /\ blocked = {}
  /\ known = LoadKnown /\ mem = LoadRetries
  /\ seenOnline = {}

\* The process ends at any point; the next one has the database only.
Restart ==
  /\ phase # "boot"
  /\ phase' = "boot"
  /\ enqueued' = {} /\ waiting' = NoneWaiting /\ slot' = AllFree /\ rechecking' = None
  /\ blocked' \in SUBSET Blockable
  /\ known' = LoadKnown /\ mem' = LoadRetries
  /\ UNCHANGED <<row, seenOnline>>

\* RelaySeeder.seed: at boot, and from its own loop once warmup is over.
Seed(r) ==
  /\ phase \in {"boot", "normal"}
  /\ r \notin blocked \cup Malformed
  /\ ~row[r].present
  /\ row' = [row EXCEPT ![r] = NewRow]
  /\ UNCHANGED <<blocked, phase, known, mem, queues, rechecking, seenOnline>>

\* softIgnoreRow: the nostrings sweep of initializeDB ignores a kept row.
SoftIgnore(r) ==
  /\ phase = "boot"
  /\ r \in Present \ Ignored
  /\ row' = [row EXCEPT ![r].ignore = "other"]
  /\ UNCHANGED <<blocked, phase, known, mem, queues, rechecking, seenOnline>>

BeginWarmup ==
  /\ phase = "boot"
  /\ phase' = "warmup"
  /\ UNCHANGED <<row, blocked, known, mem, queues, rechecking, seenOnline>>

\* addCheckJob for every relay of a batch.
Enqueue(batch) ==
  /\ enqueued' = enqueued \cup batch
  /\ waiting' = [r \in Relays |-> waiting[r] + (IF r \in batch THEN 1 ELSE 0)]
  /\ UNCHANGED slot

\* One round of runWarmup: every unchecked relay is queued, but a malformed
\* one is skipped; the next round waits for the queue to be idle.
WarmupRound ==
  /\ phase = "warmup" /\ QueueIdle
  /\ Unchecked # {}
  /\ Enqueue(Unchecked \ Malformed)
  /\ UNCHANGED <<row, blocked, phase, known, mem, rechecking, seenOnline>>

\* The retry-poisoning reset: the rows it leaves behind.
Online == {r \in Present \ Ignored : row[r].online}
Poisoned == {r \in Online : row[r].retries > PoisonAt}
ResetIfPoisoned ==
  IF 2 * Cardinality(Poisoned) > Cardinality(Online)
  THEN [r \in Relays |-> [row[r] EXCEPT !.retries = 0]]
  ELSE row

\* The first MaxBatch of a list, for some order of it.
Batches(S) ==
  {B \in SUBSET S : \/ B = S /\ Cardinality(S) <= MaxBatch
                    \/ Cardinality(B) = MaxBatch}

\* Warmup ends when no row is unchecked; retries are reset if they look
\* poisoned and kickstartPublishing queues the relays, ignored ones included.
EnterNormal ==
  /\ phase = "warmup" /\ QueueIdle
  /\ Unchecked = {}
  /\ phase' = "normal"
  /\ row' = ResetIfPoisoned
  /\ \E batch \in Batches(Present \ Malformed) : Enqueue(batch)
  /\ UNCHANGED <<blocked, known, mem, rechecking, seenOnline>>

\* One pass of checkExpiredRelays: getExpiredRelays yields the unignored rows
\* that are due (a never checked one always is), online ones first; those
\* already queued are left out, a malformed one is deleted.
ExpiredPass ==
  /\ phase = "normal"
  /\ \E due \in SUBSET (Present \ Ignored) :
       /\ Unchecked \ Ignored \subseteq due
       /\ \E batch \in Batches(due \ enqueued) :
            /\ batch # {}
            /\ \A r \in batch, s \in (due \ enqueued) \ batch :
                 row[s].online => row[r].online
            /\ row' = [r \in Relays |-> IF r \in batch \cap Malformed
                                        THEN NoRow ELSE row[r]]
            /\ Enqueue(batch \ Malformed)
  /\ UNCHANGED <<blocked, phase, known, mem, rechecking, seenOnline>>

-----------------------------------------------------------------------------
(* Worker.processRelay *)

\* A queued job gets a slot.  A blocklisted relay loses its row, an ignored
\* one is left alone (the warmup check of a never checked row excepted); both
\* jobs are over at once.  Any other relay's check begins.
\* Mutant: the gate lets every relay through until it has a result online.
GatedMutant(r) == r \in Ignored /\ row[r].online
Gated(r) == r \in Ignored /\ ~(phase = "warmup" /\ r \in Unchecked)

StartCheck(k, r) ==
  /\ slot[k] = None /\ waiting[r] > 0
  /\ waiting' = [waiting EXCEPT ![r] = @ - 1]
  /\ IF r \in blocked \/ Gated(r)
     THEN /\ enqueued' = enqueued \ {r}
          /\ UNCHANGED slot
     ELSE /\ slot' = [slot EXCEPT ![k] = [relay |-> r, warm |-> phase = "warmup"]]
          /\ UNCHANGED enqueued
  /\ row' = IF r \in blocked THEN [row EXCEPT ![r] = NoRow] ELSE row
  /\ UNCHANGED <<blocked, phase, known, mem, rechecking, seenOnline>>

\* Mutant: a relay is released only by a job that failed.
ReleaseMutant(k) ==
  /\ slot' = [slot EXCEPT ![k] = None]
  /\ UNCHANGED <<enqueued, waiting>>

\* Mutant: a finished job is taken off the queue a second time.
ReleaseTwice(k) ==
  /\ enqueued' = enqueued \ {slot[k].relay}
  /\ slot' = [slot EXCEPT ![k] = None]
  /\ waiting' = [waiting EXCEPT ![slot[k].relay] = @ - 1]

\* The job of slot k is done: the wrapper of addCheckJob releases the relay.
Release(k) ==
  /\ enqueued' = enqueued \ {slot[k].relay}
  /\ slot' = [slot EXCEPT ![k] = None]
  /\ UNCHANGED waiting

\* Mutant: an online result keeps the retries of the row.
ResultRowKeepsRetries(r, on, ign) ==
  [present |-> TRUE, online |-> on, ignore |-> ign, checked |-> TRUE,
   retries |-> IF known[r] = "unknown" \/ on THEN row[r].retries
               ELSE Bump(row[r].retries)]

\* Mutant: only an online result stamps checked_at.
ResultRowStampsOnline(r, on, ign) ==
  [present |-> TRUE, online |-> on, ignore |-> ign, checked |-> on \/ row[r].checked,
   retries |-> IF on THEN 0
               ELSE IF known[r] # "unknown" THEN Bump(row[r].retries)
               ELSE row[r].retries]

\* The row persistResult and incrementRetryCount write.
ResultRow(r, on, ign) ==
  [present |-> TRUE, online |-> on, ignore |-> ign, checked |-> TRUE,
   retries |-> IF on THEN 0
               ELSE IF known[r] # "unknown" THEN Bump(row[r].retries)
               ELSE row[r].retries]

\* The check has an answer: the socket opened or not, the relay proved to be
\* fake (it opens and speaks no nostr) or hostname dedup wants it ignored.
FinishCheck(k, open, fake, dup) ==
  /\ slot[k] # None
  /\ fake => open
  /\ LET r == slot[k].relay
         on == open /\ ~fake
         ign == IF fake THEN "fake" ELSE IF dup THEN "other" ELSE "no"
     IN /\ row' = [row EXCEPT ![r] = ResultRow(r, on, ign)]
        /\ mem' = [mem EXCEPT ![r] = IF on THEN 0
                                     ELSE IF known[r] # "unknown" THEN Bump(@) ELSE @]
        /\ known' = [known EXCEPT ![r] = IF on THEN "online" ELSE "offline"]
        /\ seenOnline' = IF on THEN seenOnline \cup {r} ELSE seenOnline
  /\ Release(k)
  /\ UNCHANGED <<blocked, phase, rechecking>>

\* The check throws: nothing is persisted; a second error in a row counts.
CheckThrows(k) ==
  /\ slot[k] # None
  /\ LET r == slot[k].relay
     IN IF mem[r] > 0
        THEN /\ mem' = [mem EXCEPT ![r] = Bump(@)]
             /\ row' = IF row[r].present
                       THEN [row EXCEPT ![r].retries = Bump(@)] ELSE row
        ELSE UNCHANGED <<mem, row>>
  /\ Release(k)
  /\ UNCHANGED <<blocked, phase, known, rechecking, seenOnline>>

-----------------------------------------------------------------------------
(* runIgnoredRelayReevaluation and Worker.recheckIgnoredRelay *)

RecheckBegin(r) ==
  /\ phase = "normal" /\ rechecking = None
  /\ r \in Ignored /\ row[r].ignore = "fake"
  /\ rechecking' = r
  /\ UNCHANGED <<row, blocked, phase, known, mem, queues, seenOnline>>

RecheckKeeps ==
  /\ rechecking # None
  /\ rechecking' = None
  /\ UNCHANGED <<row, blocked, phase, known, mem, queues, seenOnline>>

RecheckUnignores ==
  /\ rechecking # None
  /\ LET r == rechecking
     IN /\ row' = IF row[r].present
                  THEN [row EXCEPT ![r].ignore = "no", ![r].retries = 0] ELSE row
        /\ mem' = [mem EXCEPT ![r] = 0]
        /\ known' = [known EXCEPT ![r] = "online"]
  /\ rechecking' = None
  /\ UNCHANGED <<blocked, phase, queues, seenOnline>>

-----------------------------------------------------------------------------
Starts(r) == \E k \in Slots : StartCheck(k, r)
Answers(k) == \E open, fake, dup \in BOOLEAN : FinishCheck(k, open, fake, dup)
Ends(k) == Answers(k) \/ CheckThrows(k)

Next ==
  \/ Restart
  \/ BeginWarmup \/ WarmupRound \/ EnterNormal \/ ExpiredPass
  \/ \E r \in Relays : Seed(r) \/ SoftIgnore(r) \/ Starts(r) \/ RecheckBegin(r)
  \/ \E k \in Slots : Ends(k)
  \/ RecheckKeeps \/ RecheckUnignores

Spec == Init /\ [][Next]_vars

\* The daemon's own code goes on: p-queue is first in, first out, so a queued
\* job gets its slot (strong fairness stands for the order the bag of waiting
\* jobs forgets), every check ends by its timeouts, and runWarmup loops.
Fairness ==
  /\ WF_vars(BeginWarmup) /\ WF_vars(WarmupRound) /\ WF_vars(EnterNormal)
  /\ \A r \in Relays : SF_vars(Starts(r))
  /\ \A k \in Slots : WF_vars(Ends(k))

FairSpec == Spec /\ Fairness

\* The network's part: a relay's check does not throw every single time.
AnswersFor(r) == \E k \in Slots : k \in RunningOn(r) /\ Answers(k)
AnsweringSpec == FairSpec /\ \A r \in Relays : SF_vars(AnswersFor(r))
-----------------------------------------------------------------------------
(* Properties *)

TypeOK ==
  /\ row \in [Relays -> Rows]
  /\ blocked \subseteq Blockable
  /\ phase \in {"boot", "warmup", "normal"}
  /\ known \in [Relays -> {"unknown", "online", "offline"}]
  /\ mem \in [Relays -> 0..RetryCap]
  /\ enqueued \subseteq Relays
  /\ waiting \in [Relays -> Nat]
  /\ slot \in [Slots -> Jobs \cup {None}]
  /\ rechecking \in Relays \cup {None}
  /\ seenOnline \subseteq Relays

\* A relay never has two check jobs at once, queued or running, although the
\* warmup and kickstart batches do not look at enqueuedRelays; and
\* enqueuedRelays holds exactly the relays that have one, so that no relay is
\* passed over for ever by checkExpiredRelays.
OneJobPerRelay ==
  \A r \in Relays :
    /\ r \in enqueued <=> (waiting[r] > 0 \/ RunningOn(r) # {})
    /\ waiting[r] <= 1
    /\ waiting[r] > 0 => RunningOn(r) = {}
    /\ \A j, k \in RunningOn(r) : j = k

\* A check that began in warmup ends in warmup, and the other way round, so
\* that publishing is suppressed for all of a warmup check and for none of a
\* normal one.
WarmupDrains ==
  \A k \in Slots : slot[k] # None => (slot[k].warm <=> phase = "warmup")

\* The retry count kept in memory is never below the one in the database,
\* whatever restarts, re-checks, thrown checks and poisoning resets did.
RetriesBehind == \A r \in Relays : row[r].retries <= mem[r]

\* A row whose last check was online has no retries.
OnlineHasNoRetries == \A r \in Present : row[r].online => row[r].retries = 0

\* The relay a running check will write the result of is not ignored, unless
\* this is its first check ever: the gate of processRelay still holds when
\* the check ends, many awaits later.
GateHolds ==
  \A k \in Slots : slot[k] # None => slot[k].relay \notin Ignored \ Unchecked

\* Only the re-evaluation of fake relays un-ignores a relay once checked (or
\* its row is deleted): no check result overwrites an ignore verdict.
IgnoreSticks ==
  [][\A r \in Ignored \ Unchecked :
       (r \in Ignored)' \/ (r \notin Present)' \/ r = rechecking]_vars

\* A relay that is queued is released again.
EnqueuedReleased == \A r \in Relays : r \in enqueued ~> r \notin enqueued

\* Warmup ends, or the process does, unless a row that was never checked is
\* malformed: every round selects such a row (370) and skips it (384).
WarmupEnds == phase = "warmup" ~> phase # "warmup" \/ Unchecked \cap Malformed # {}

\* Retries are reset at startup when most relays that have been online have
\* come to count as poisoned.
Outaged == {r \in seenOnline \cap (Present \ Ignored) : row[r].retries > PoisonAt}
OutageRecovers ==
  [][phase = "warmup" /\ phase' = "normal"
       /\ 2 * Cardinality(Outaged) > Cardinality(seenOnline \cap (Present \ Ignored))
     => \A r \in Outaged : row'[r].retries = 0]_vars

-----------------------------------------------------------------------------
(* The table of relays, as RelayRows has it *)

\* A row that was never checked gets its first check, ignored or not.
StatusOf(r) ==
  IF ~row[r].present THEN "gone"
  ELSE IF ~row[r].checked THEN "new"
  ELSE IF row[r].ignore = "no" THEN "ok" ELSE row[r].ignore

RowStatus == [r \in Relays |-> StatusOf(r)]
RunPhase == IF phase = "normal" THEN "normal" ELSE "boot"

Table == INSTANCE RelayRows WITH status <- RowStatus, phase <- RunPhase

\* A check reads the gate long before it writes its result, beside other
\* checks, re-checks and loops; the rows are as if it did both at once: no
\* result goes to a row that was deleted, blocklisted or ignored meanwhile, a
\* warmup check is a first check, and a re-check un-ignores only what is
\* ignored as fake at that moment.
ChecksAtomic == Table!Spec
=============================================================================
