----------------------------- MODULE Remediation -----------------------------
(***************************************************************************)
(* The startup migrations of relaymon and the queue they leave behind.     *)
(* Before the daemon runs, initializeDB sweeps relay_status by the rules   *)
(* of the current nostrings version, purges NATO phonetic spam once, and   *)
(* queues the deletions both ask for; the daemon drains the queue after    *)
(* warmup.  Every statement is a write of its own, and the process may be  *)
(* killed between any two.                                                 *)
(***************************************************************************)
EXTENDS Integers

CONSTANTS
  Urls,         \* relay URLs
  Garbage,      \* those new URL() does not parse
  Spam,         \* those isNatoPhoneticSpam accepts
  LastVersion,  \* bound of the model: nostrings versions are 1..LastVersion
  Rejects,      \* parseable URLs qualifyRelayUrl rejects, for each version
  None          \* no URL

Versions == 1..LastVersion

ASSUME RemediationAssumption ==
  /\ LastVersion \in Nat \ {0}
  /\ None \notin Urls \cup [op : {"send", "remove"}, url : Urls]
  /\ Garbage \subseteq Urls /\ Spam \subseteq Urls \ Garbage
  /\ Rejects \in [Versions -> SUBSET (Urls \ Garbage)]

VARIABLES
  row,      \* relay_status: absent, fine, ignored by a check or by a sweep
  fresh,    \* rows with checked_at = -1
  marked,   \* rows with a deletion_published_at
  dq,       \* remediation_deletion_queue
  swept,    \* versions with a sentinel in relaymon_migrations
  purged,   \* sentinel of the NATO purge
  file,     \* nato-purged-urls.txt                     (all durable up to here)
  version,  \* nostrings version of this run
  stage,    \* how far this run has come
  todo,     \* rest of the list the current loop goes through
  found,    \* spamUrls of the purge
  gap,      \* URL whose row is written and whose deletion is not yet queued
  doing,    \* the drain's step under way
  removed,  \* history: URLs whose row a migration removed
  done,     \* history: URLs whose entry was removed as published
  lost,     \* history: URLs whose removal was cut off from its announcement
  unfiled,  \* history: URLs of the purge's file that this run could not queue
  failed    \* history: URLs for which a step of this sweep or drain failed

tables == <<row, fresh, marked>>
records == <<swept, purged, file, version>>
history == <<removed, done, lost, unfiled, failed>>
vars == <<tables, dq, records, stage, todo, found, gap, doing, history>>

Rows == {u \in Urls : row[u] # "gone"}
Ignored == {u \in Urls : row[u] \in {"fake", "swept"}}

Init ==
  /\ row \in [Urls -> {"gone", "ok", "fake"}]
  /\ fresh \in SUBSET {u \in Urls : row[u] = "ok"}
  /\ marked = {} /\ dq = {} /\ swept = {} /\ purged = FALSE /\ file = {}
  /\ version = 1 /\ stage = "boot"
  /\ todo = {} /\ found = {} /\ gap = None /\ doing = None
  /\ removed = {} /\ done = {} /\ lost = {} /\ unfiled = {} /\ failed = {}

\* Rows taken off by a purge that has not come to its sentinel.
Unwritten == IF stage \in {"purging", "purged"} THEN found \ todo ELSE {}

\* The process is killed or stopped; the next one may come with new rules.
Restart ==
  /\ version' \in version..LastVersion
  /\ stage' = "boot" /\ todo' = {} /\ found' = {} /\ gap' = None /\ doing' = None
  /\ lost' = lost \cup Unwritten \cup ({gap} \cap Urls) /\ unfiled' = {}
  /\ UNCHANGED <<tables, dq, swept, purged, file, removed, done, failed>>

-----------------------------------------------------------------------------
(* rerunNostringsSweepMigration *)

\* Mutant: only rows that are not ignored are looked at, as in the dedup migration.
ToSweepMutant == Rows \ Ignored
ToSweep == Rows

\* With the sentinel of this version in place there is nothing to do.
BeginSweep ==
  /\ stage = "boot"
  /\ stage' = "sweeping" /\ failed' = {}
  /\ todo' = IF version \in swept THEN {} ELSE ToSweep
  /\ UNCHANGED <<tables, dq, records, found, gap, doing, removed, done, lost,
                 unfiled>>

\* The loop's next row, once the one before is done with.
Sweeps(u) == stage = "sweeping" /\ gap = None /\ u \in todo /\ todo' = todo \ {u}

SweepLeaves(u) ==
  /\ Sweeps(u) /\ u \notin Garbage \cup Rejects[version]
  /\ UNCHANGED <<tables, dq, records, stage, found, gap, doing, history>>

\* hardDeleteRow up to its COMMIT.
SweepRemoves(u) ==
  /\ Sweeps(u) /\ u \in Garbage
  /\ row' = [row EXCEPT ![u] = "gone"]
  /\ fresh' = fresh \ {u} /\ marked' = marked \ {u}
  /\ gap' = u /\ removed' = removed \cup {u}
  /\ UNCHANGED <<dq, records, stage, found, doing, done, lost, unfiled, failed>>

\* softIgnoreRow up to its UPDATE.
SweepIgnores(u) ==
  /\ Sweeps(u) /\ u \in Rejects[version]
  /\ row' = [row EXCEPT ![u] = "swept"] /\ gap' = u
  /\ UNCHANGED <<fresh, marked, dq, records, stage, found, doing, history>>

\* A statement fails and is rolled back; the sweep goes on.
SweepErrs(u) ==
  /\ Sweeps(u) /\ u \in Garbage \cup Rejects[version]
  /\ failed' = failed \cup {u}
  /\ UNCHANGED <<tables, dq, records, stage, found, gap, doing, removed, done,
                 lost, unfiled>>

\* enqueueRemediationDeletion, which only logs a failure.
EnqueueDeletion(ok) ==
  /\ gap # None /\ gap' = None
  /\ IF ok THEN dq' = dq \cup {gap} /\ UNCHANGED <<lost, failed>>
           ELSE /\ lost' = lost \cup {gap} /\ failed' = failed \cup {gap}
                /\ UNCHANGED dq
  /\ UNCHANGED <<tables, records, stage, todo, found, doing, removed, done,
                 unfiled>>

\* The sentinel comes last.
EndSweep ==
  /\ stage = "sweeping" /\ gap = None /\ todo = {}
  /\ swept' = swept \cup {version} /\ stage' = "swept"
  /\ UNCHANGED <<tables, dq, purged, file, version, todo, found, gap, doing,
                 history>>

-----------------------------------------------------------------------------
(* purgeNatoPhoneticSpam and enqueueNatoPurgedUrls *)

BeginPurge ==
  /\ stage = "swept" /\ ~purged
  /\ stage' = "purging" /\ found' = Rows \cap Spam /\ todo' = found'
  /\ UNCHANGED <<tables, dq, records, gap, doing, history>>

\* enqueueNatoPurgedUrls reads the file at every start; a file it cannot read is
\* passed over in silence.
ReadsFile(readable) ==
  /\ stage' = "filing" /\ found' = {}
  /\ IF readable THEN todo' = file /\ UNCHANGED unfiled
                 ELSE todo' = {} /\ unfiled' = file

SkipPurge(readable) ==
  /\ stage = "swept" /\ purged
  /\ ReadsFile(readable)
  /\ UNCHANGED <<tables, dq, records, gap, doing, removed, done, lost, failed>>

PurgeRow(u) ==
  /\ stage = "purging" /\ u \in todo
  /\ todo' = todo \ {u}
  /\ row' = [row EXCEPT ![u] = "gone"]
  /\ fresh' = fresh \ {u} /\ marked' = marked \ {u}
  /\ removed' = removed \cup {u}
  /\ UNCHANGED <<dq, records, stage, found, gap, doing, done, lost, unfiled,
                 failed>>

\* A statement fails: the purge is given up for this run.
PurgeErrs(readable) ==
  /\ stage = "purging" /\ todo # {}
  /\ ReadsFile(readable)
  /\ lost' = lost \cup Unwritten
  /\ UNCHANGED <<tables, dq, records, gap, doing, removed, done, failed>>

\* The list is written over what the file held; a failure is only logged.
WritePurged(ok) ==
  /\ stage = "purging" /\ todo = {}
  /\ stage' = "purged"
  /\ file' = IF ok THEN found ELSE file
  /\ lost' = IF ok THEN lost ELSE lost \cup found
  /\ UNCHANGED <<tables, dq, swept, purged, version, todo, found, gap, doing,
                 removed, done, unfiled, failed>>

EndPurge(readable) ==
  /\ stage = "purged"
  /\ purged' = TRUE
  /\ ReadsFile(readable)
  /\ UNCHANGED <<tables, dq, swept, file, version, gap, doing, removed, done,
                 lost, failed>>

\* enqueueRemediationDeletion again: after a failure only the file names the URL.
FileRow(u, ok) ==
  /\ stage = "filing" /\ u \in todo
  /\ todo' = todo \ {u}
  /\ dq' = IF ok THEN dq \cup {u} ELSE dq
  /\ unfiled' = IF ok THEN unfiled ELSE unfiled \cup {u}
  /\ UNCHANGED <<tables, records, stage, found, gap, doing, removed, done, lost,
                 failed>>

-----------------------------------------------------------------------------
(* The daemon *)

BeginWarmup ==
  /\ stage = "filing" /\ todo = {}
  /\ stage' = "warmup"
  /\ UNCHANGED <<tables, dq, records, todo, found, gap, doing, history>>

\* The seeder takes what the current rules accept.
Seed(u) ==
  /\ stage \in {"warmup", "normal"} /\ row[u] = "gone"
  /\ u \notin Garbage \cup Rejects[version]
  /\ row' = [row EXCEPT ![u] = "ok"] /\ fresh' = fresh \cup {u}
  /\ removed' = removed \ {u} /\ done' = done \ {u}
  /\ UNCHANGED <<marked, dq, records, stage, todo, found, gap, doing, lost,
                 unfiled, failed>>

\* A check's result is written.  In warmup a first check passes the ignore
\* gate; otherwise only a relay that is not ignored is checked.
Check(u, fake) ==
  /\ IF stage = "warmup" THEN u \in fresh ELSE stage = "normal" /\ row[u] = "ok"
  /\ row' = [row EXCEPT ![u] = IF fake THEN "fake" ELSE "ok"]
  /\ fresh' = fresh \ {u}
  /\ marked' = IF fake THEN marked ELSE marked \ {u}
  /\ done' = done \ {u}
  /\ UNCHANGED <<dq, records, stage, todo, found, gap, doing, removed, lost,
                 unfiled, failed>>

\* recheckIgnoredRelay, for fake relays only.
Recheck(u) ==
  /\ stage = "normal" /\ row[u] = "fake"
  /\ row' = [row EXCEPT ![u] = "ok"]
  /\ marked' = marked \ {u} /\ done' = done \ {u}
  /\ UNCHANGED <<fresh, dq, records, stage, todo, found, gap, doing, removed,
                 lost, unfiled, failed>>

\* publishDeletions and the other callers get a deletion through.
SweepPublishes(u) ==
  /\ stage = "normal" /\ u \in Ignored \ marked
  /\ marked' = marked \cup {u}
  /\ UNCHANGED <<row, fresh, dq, records, stage, todo, found, gap, doing,
                 history>>

-----------------------------------------------------------------------------
(* drainRemediationDeletionQueue: nothing has been deleted in this run yet, so
   that only the column can tell that a deletion was published *)

\* Mutant: warmup does not wait for rows that are ignored.
BeginDrainMutant ==
  /\ stage = "warmup" /\ fresh \subseteq Ignored
  /\ stage' = "draining" /\ todo' = dq /\ failed' = {}
  /\ UNCHANGED <<tables, dq, records, found, gap, doing, removed, done, lost,
                 unfiled>>

BeginDrain ==
  /\ stage = "warmup" /\ fresh = {}
  /\ stage' = "draining" /\ todo' = dq /\ failed' = {}
  /\ UNCHANGED <<tables, dq, records, found, gap, doing, removed, done, lost,
                 unfiled>>

Drains(u) == stage = "draining" /\ doing = None /\ u \in todo /\ todo' = todo \ {u}

\* Mutant: the column is not asked.
PublishedMutant(u) == FALSE
Published(u) == u \in marked

\* deleteRelayCheckEvent returns false for a deletion that is published already.
DrainSkips(u) ==
  /\ Drains(u) /\ Published(u)
  /\ UNCHANGED <<tables, dq, records, stage, found, gap, doing, history>>

DrainSends(u) ==
  /\ Drains(u) /\ ~Published(u)
  /\ doing' = [op |-> "send", url |-> u]
  /\ UNCHANGED <<tables, dq, records, stage, found, gap, history>>

\* Mutant: the column is written by an upsert.
MarkedRowsMutant(u) == marked \cup {u}
\* The update finds no row of a URL that has none.
MarkedRows(u) == marked \cup ({u} \cap Rows)

\* The publish has succeeded: the row is marked.
DrainTaken ==
  /\ doing # None /\ doing.op = "send"
  /\ marked' = MarkedRows(doing.url)
  /\ doing' = [doing EXCEPT !.op = "remove"]
  /\ UNCHANGED <<row, fresh, dq, records, stage, todo, found, gap, history>>

\* Mutant: the entry is removed whether the network took it or not.
DrainFailsMutant ==
  /\ doing # None /\ doing.op = "send"
  /\ doing' = None /\ failed' = failed \cup {doing.url}
  /\ dq' = dq \ {doing.url}
  /\ UNCHANGED <<tables, records, stage, todo, found, gap, removed, done, lost,
                 unfiled>>

\* It has failed: the entry stays for the next start.
DrainFails ==
  /\ doing # None /\ doing.op = "send"
  /\ doing' = None /\ failed' = failed \cup {doing.url}
  /\ UNCHANGED <<tables, dq, records, stage, todo, found, gap, removed, done,
                 lost, unfiled>>

\* Mutant: the entry of a published deletion stays.
LeftMutant(u) == dq
Left(u) == dq \ {u}

DrainRemoves ==
  /\ doing # None /\ doing.op = "remove"
  /\ doing' = None
  /\ dq' = Left(doing.url) /\ done' = done \cup {doing.url}
  /\ UNCHANGED <<tables, records, stage, todo, found, gap, removed, lost,
                 unfiled, failed>>

\* The delete fails: the entry of a published deletion stays.
DrainKeeps ==
  /\ doing # None /\ doing.op = "remove"
  /\ doing' = None /\ failed' = failed \cup {doing.url}
  /\ UNCHANGED <<tables, dq, records, stage, todo, found, gap, removed, done,
                 lost, unfiled>>

\* The select or the update of a failed entry throws: the drain is given up.
DrainErrs ==
  /\ stage = "draining"
  /\ todo' = {} /\ doing' = None
  /\ failed' = failed \cup todo \cup {u \in Urls : doing # None /\ doing.url = u}
  /\ UNCHANGED <<tables, dq, records, stage, found, gap, removed, done, lost,
                 unfiled>>

EndDrain ==
  /\ stage = "draining" /\ todo = {} /\ doing = None
  /\ stage' = "normal"
  /\ UNCHANGED <<tables, dq, records, todo, found, gap, doing, history>>

-----------------------------------------------------------------------------
Migrates ==
  \/ BeginSweep \/ EndSweep \/ BeginPurge
  \/ \E ok \in BOOLEAN : EnqueueDeletion(ok) \/ WritePurged(ok)
  \/ \E readable \in BOOLEAN : SkipPurge(readable) \/ PurgeErrs(readable) \/ EndPurge(readable)
  \/ \E u \in Urls :
       \/ SweepLeaves(u) \/ SweepRemoves(u) \/ SweepIgnores(u) \/ SweepErrs(u)
       \/ PurgeRow(u)
       \/ \E ok \in BOOLEAN : FileRow(u, ok)

Monitors ==
  \/ BeginWarmup \/ BeginDrain \/ EndDrain
  \/ DrainTaken \/ DrainFails \/ DrainRemoves \/ DrainKeeps \/ DrainErrs
  \/ \E u \in Urls :
       \/ Seed(u) \/ Recheck(u) \/ SweepPublishes(u)
       \/ DrainSkips(u) \/ DrainSends(u)
       \/ \E fake \in BOOLEAN : Check(u, fake)

Next == Restart \/ Migrates \/ Monitors

Spec == Init /\ [][Next]_vars

-----------------------------------------------------------------------------
(* Properties *)

Stages == {"boot", "sweeping", "swept", "purging", "purged", "filing", "warmup",
           "draining", "normal"}

TypeOK ==
  /\ row \in [Urls -> {"gone", "ok", "fake", "swept"}]
  /\ fresh \subseteq Rows /\ marked \subseteq Rows
  /\ dq \subseteq Urls /\ swept \subseteq Versions /\ purged \in BOOLEAN
  /\ file \subseteq Spam /\ version \in Versions /\ stage \in Stages
  /\ todo \subseteq Urls /\ found \subseteq Spam
  /\ gap \in Urls \cup {None} /\ (gap # None => stage = "sweeping")
  /\ doing \in [op : {"send", "remove"}, url : Urls] \cup {None}
  /\ (doing # None => stage = "draining")
  /\ removed \subseteq Urls /\ done \subseteq Urls
  /\ lost \subseteq Urls /\ unfiled \subseteq Urls /\ failed \subseteq Urls

\* When the daemon monitors, the deletion of every row a migration removed is
\* queued or was published, or waits in the purge's file for the next start
\* because this one could not read the file or queue the URL (db.ts:284-291,
\* remediation.ts:280-282), unless a crash or a failed write fell between the
\* removal and its record (remediation.ts:394-408, nato-purge.ts:126-155).
RemovedAnnounced ==
  stage \in {"warmup", "draining", "normal"} =>
    removed \subseteq dq \cup done \cup lost \cup (unfiled \cap file)

\* A version's sentinel is written when no garbage row is left and every row its
\* rules reject is ignored with its deletion queued, whatever an earlier attempt
\* of the same sweep left half done, but for rows whose own statement failed.
SentinelHonest ==
  [][\A v \in swept' \ swept : \A u \in Rows' \ failed' :
       /\ u \notin Garbage
       /\ u \in Rejects[v] => u \in Ignored' \cap dq']_vars

\* A drain leaves in the queue what the network did not take and what was
\* published before, and nothing else.
DrainClears ==
  [][stage = "draining" /\ stage' = "normal" => dq' \subseteq failed' \cup marked']_vars

Sends(u) == doing = None /\ doing' = [op |-> "send", url |-> u]

\* A deletion whose entry was removed as published is sent again only if the
\* purge's file names it or a crash cut the purge off from writing the file.
OnlyFileResends == [][\A u \in done \ (file \cup lost) : ~Sends(u)]_vars

-----------------------------------------------------------------------------
(* The table of relays, as RelayRows has it *)

\* A row that was never checked gets its first check, swept or not.
StatusOf(u) ==
  IF u \in fresh THEN "new" ELSE IF row[u] = "swept" THEN "other" ELSE row[u]

RowStatus == [u \in Urls |-> StatusOf(u)]
RunPhase == IF stage = "normal" THEN "normal" ELSE "boot"

Table == INSTANCE RelayRows WITH
           Relays <- Urls, Malformed <- {}, Blockable <- {}, blocked <- {},
           status <- RowStatus, phase <- RunPhase

\* Whatever the migrations do to a row, and wherever they are cut off, its fate
\* is that of RelayRows: once the daemon monitors no row is left over that was
\* never checked, and no re-check un-ignores what a sweep has ignored.
TableKept == Table!Spec
=============================================================================
