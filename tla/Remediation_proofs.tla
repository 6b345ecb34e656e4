-------------------------- MODULE Remediation_proofs --------------------------
(***************************************************************************)
(* Proofs about Remediation, for any URLs, any rules and any number of     *)
(* versions: its invariant and its action properties hold wherever a run   *)
(* is killed and whichever statements fail.                                *)
(***************************************************************************)
EXTENDS Remediation, TLAPS

USE RemediationAssumption

-----------------------------------------------------------------------------
(* Types *)

LEMMA TypeStep ==
  ASSUME TypeOK, [Next]_vars
  PROVE  TypeOK'
<1>1. CASE Restart
  BY <1>1 DEF Restart, TypeOK, Rows, Stages, Versions, Unwritten, tables
<1>2. CASE BeginSweep
  BY <1>2 DEF BeginSweep, ToSweep, TypeOK, Rows, Stages, tables, records
<1>3. CASE EndSweep
  BY <1>3 DEF EndSweep, TypeOK, Rows, Stages, tables, history
<1>4. CASE BeginPurge
  BY <1>4 DEF BeginPurge, TypeOK, Rows, Stages, tables, records, history
<1>5. ASSUME NEW readable \in BOOLEAN, SkipPurge(readable) PROVE TypeOK'
  BY <1>5 DEF SkipPurge, ReadsFile, TypeOK, Rows, Stages, tables, records, history
<1>6. ASSUME NEW readable \in BOOLEAN, PurgeErrs(readable) PROVE TypeOK'
  BY <1>6 DEF PurgeErrs, ReadsFile, TypeOK, Rows, Stages, Unwritten, tables,
    records
<1>7. ASSUME NEW readable \in BOOLEAN, EndPurge(readable) PROVE TypeOK'
  BY <1>7 DEF EndPurge, ReadsFile, TypeOK, Rows, Stages, tables, history
<1>8. ASSUME NEW ok \in BOOLEAN, EnqueueDeletion(ok) PROVE TypeOK'
  BY <1>8 DEF EnqueueDeletion, TypeOK, Rows, tables, records
<1>9. ASSUME NEW ok \in BOOLEAN, WritePurged(ok) PROVE TypeOK'
  BY <1>9 DEF WritePurged, TypeOK, Rows, Stages, tables
<1>10. ASSUME NEW u \in Urls, SweepLeaves(u) PROVE TypeOK'
  BY <1>10 DEF SweepLeaves, Sweeps, TypeOK, Rows, tables, records, history
<1>11. ASSUME NEW u \in Urls, SweepRemoves(u) PROVE TypeOK'
  BY <1>11 DEF SweepRemoves, Sweeps, TypeOK, Rows, records
<1>12. ASSUME NEW u \in Urls, SweepIgnores(u) PROVE TypeOK'
  BY <1>12 DEF SweepIgnores, Sweeps, TypeOK, Rows, records, history
<1>13. ASSUME NEW u \in Urls, SweepErrs(u) PROVE TypeOK'
  BY <1>13 DEF SweepErrs, Sweeps, TypeOK, Rows, tables, records
<1>14. ASSUME NEW u \in Urls, PurgeRow(u) PROVE TypeOK'
  BY <1>14 DEF PurgeRow, TypeOK, Rows, records
<1>15. ASSUME NEW u \in Urls, NEW ok \in BOOLEAN, FileRow(u, ok) PROVE TypeOK'
  BY <1>15 DEF FileRow, TypeOK, Rows, tables, records, history
<1>16. CASE BeginWarmup
  BY <1>16 DEF BeginWarmup, TypeOK, Rows, Stages, tables, records, history
<1>17. CASE BeginDrain
  BY <1>17 DEF BeginDrain, TypeOK, Rows, Stages, tables, records
<1>18. CASE EndDrain
  BY <1>18 DEF EndDrain, TypeOK, Rows, Stages, tables, records, history
<1>19. CASE DrainTaken
  BY <1>19 DEF DrainTaken, MarkedRows, TypeOK, Rows, records, history
<1>20. CASE DrainFails \/ DrainKeeps \/ DrainErrs
  BY <1>20 DEF DrainFails, DrainKeeps, DrainErrs, TypeOK, Rows, tables, records
<1>21. CASE DrainRemoves
  BY <1>21 DEF DrainRemoves, Left, TypeOK, Rows, tables, records
<1>22. ASSUME NEW u \in Urls, Seed(u) PROVE TypeOK'
  BY <1>22 DEF Seed, TypeOK, Rows, records
<1>23. ASSUME NEW u \in Urls, Recheck(u) PROVE TypeOK'
  BY <1>23 DEF Recheck, TypeOK, Rows, records
<1>24. ASSUME NEW u \in Urls, SweepPublishes(u) PROVE TypeOK'
  BY <1>24 DEF SweepPublishes, Ignored, TypeOK, Rows, records, history
<1>25. ASSUME NEW u \in Urls, DrainSkips(u) PROVE TypeOK'
  BY <1>25 DEF DrainSkips, Drains, TypeOK, Rows, tables, records, history
<1>26. ASSUME NEW u \in Urls, DrainSends(u) PROVE TypeOK'
  BY <1>26 DEF DrainSends, Drains, TypeOK, Rows, tables, records, history
<1>27. ASSUME NEW u \in Urls, NEW fake \in BOOLEAN, Check(u, fake) PROVE TypeOK'
  BY <1>27 DEF Check, TypeOK, Rows, records
<1>28. CASE UNCHANGED vars
  BY <1>28 DEF vars, TypeOK, Rows, tables, records, history
<1> QED
  BY <1>1, <1>2, <1>3, <1>4, <1>5, <1>6, <1>7, <1>8, <1>9, <1>10, <1>11, <1>12,
     <1>13, <1>14, <1>15, <1>16, <1>17, <1>18, <1>19, <1>20, <1>21, <1>22, <1>23,
     <1>24, <1>25, <1>26, <1>27, <1>28 DEF Next, Migrates, Monitors

-----------------------------------------------------------------------------
(* The purge's file and the lists the loops go through *)

\* Before the purge's sentinel all the file names is lost already, but for the
\* list just written; afterwards the file is the list.
FileInv ==
  /\ purged => stage \notin {"purging", "purged"}
  /\ ~purged /\ stage # "purged" => file \subseteq lost
  /\ stage = "purged" => todo = {} /\ found \subseteq file \cup lost
                                   /\ file \subseteq found \cup lost
  /\ stage = "filing" => todo \subseteq file
  /\ stage = "purging" => todo \subseteq found

LEMMA FileStep ==
  ASSUME TypeOK, FileInv, [Next]_vars
  PROVE  FileInv'
<1>1. ASSUME NEW readable \in BOOLEAN, SkipPurge(readable) PROVE FileInv'
  BY <1>1 DEF SkipPurge, ReadsFile, FileInv, records
<1>2. ASSUME NEW readable \in BOOLEAN, PurgeErrs(readable) PROVE FileInv'
  BY <1>2 DEF PurgeErrs, ReadsFile, FileInv, records
<1>3. ASSUME NEW readable \in BOOLEAN, EndPurge(readable) PROVE FileInv'
  BY <1>3 DEF EndPurge, ReadsFile, FileInv
<1>4. ASSUME NEW u \in Urls, SweepRemoves(u) PROVE FileInv'
  BY <1>4 DEF SweepRemoves, Sweeps, FileInv, records
<1>5. ASSUME NEW u \in Urls, SweepIgnores(u) PROVE FileInv'
  BY <1>5 DEF SweepIgnores, Sweeps, FileInv, records, history
<1>6. ASSUME NEW u \in Urls, PurgeRow(u) PROVE FileInv'
  BY <1>6 DEF PurgeRow, FileInv, records
<1>7. ASSUME NEW u \in Urls, Seed(u) PROVE FileInv'
  BY <1>7 DEF Seed, FileInv, records
<1>8. ASSUME NEW u \in Urls, Recheck(u) PROVE FileInv'
  BY <1>8 DEF Recheck, FileInv, records
<1>9. ASSUME NEW u \in Urls, NEW fake \in BOOLEAN, Check(u, fake) PROVE FileInv'
  BY <1>9 DEF Check, FileInv, records
<1>10. CASE Restart \/ BeginSweep \/ EndSweep \/ BeginPurge \/ BeginWarmup \/
          BeginDrain \/ EndDrain \/ DrainTaken \/ DrainFails \/ DrainKeeps \/
          DrainErrs \/ DrainRemoves
  BY <1>10 DEF Restart, FileInv, Unwritten, BeginSweep, records, EndSweep,
    history, BeginPurge, BeginWarmup, BeginDrain, EndDrain, DrainTaken,
    DrainFails, DrainKeeps, DrainErrs, DrainRemoves
<1>11. ASSUME NEW ok \in BOOLEAN, EnqueueDeletion(ok) \/ WritePurged(ok)
     PROVE FileInv'
  BY <1>11 DEF EnqueueDeletion, FileInv, records, WritePurged
<1>12. ASSUME NEW u \in Urls,
          SweepLeaves(u) \/ SweepErrs(u) \/ (\E ok \in BOOLEAN : FileRow(u, ok)) \/
          SweepPublishes(u) \/
          DrainSkips(u) \/ DrainSends(u) PROVE FileInv'
  BY <1>12 DEF SweepLeaves, Sweeps, FileInv, records, history, SweepErrs, FileRow,
    SweepPublishes, DrainSkips, Drains, DrainSends
<1>13. CASE UNCHANGED vars
  BY <1>13 DEF vars, FileInv, records, history
<1> QED
  BY <1>1, <1>2, <1>3, <1>4, <1>5, <1>6, <1>7, <1>8, <1>9, <1>10, <1>11, <1>12,
     <1>13 DEF Next, Migrates, Monitors

\* Removed URLs have no row, and what a loop is still to remove has one.
RowsInv ==
  /\ removed \cap Rows = {}
  /\ stage \in {"sweeping", "purging"} => todo \subseteq Rows

LEMMA RowsStep ==
  ASSUME TypeOK, FileInv, RowsInv, [Next]_vars
  PROVE  RowsInv'
<1>1. CASE BeginSweep
  BY <1>1 DEF BeginSweep, ToSweep, RowsInv, Rows, tables
<1>2. ASSUME NEW readable \in BOOLEAN, SkipPurge(readable) PROVE RowsInv'
  BY <1>2 DEF SkipPurge, ReadsFile, RowsInv, Rows, tables, history
<1>3. ASSUME NEW readable \in BOOLEAN, PurgeErrs(readable) PROVE RowsInv'
  BY <1>3 DEF PurgeErrs, ReadsFile, RowsInv, Rows, tables
<1>4. ASSUME NEW readable \in BOOLEAN, EndPurge(readable) PROVE RowsInv'
  BY <1>4 DEF EndPurge, ReadsFile, RowsInv, Rows, tables, history
<1>5. ASSUME NEW u \in Urls, SweepRemoves(u) PROVE RowsInv'
  BY <1>5 DEF SweepRemoves, Sweeps, RowsInv, TypeOK, Rows
<1>6. ASSUME NEW u \in Urls, SweepIgnores(u) PROVE RowsInv'
  BY <1>6 DEF SweepIgnores, Sweeps, RowsInv, Rows, history
<1>7. ASSUME NEW u \in Urls, PurgeRow(u) PROVE RowsInv'
  BY <1>7 DEF PurgeRow, RowsInv, TypeOK, Rows
<1>8. ASSUME NEW u \in Urls, Seed(u) PROVE RowsInv'
  BY <1>8 DEF Seed, RowsInv, Rows
<1>9. ASSUME NEW u \in Urls, Recheck(u) PROVE RowsInv'
  BY <1>9 DEF Recheck, RowsInv, Rows
<1>10. ASSUME NEW u \in Urls, NEW fake \in BOOLEAN, Check(u, fake) PROVE RowsInv'
  BY <1>10 DEF Check, RowsInv, TypeOK, Rows
<1>11. CASE Restart \/ EndSweep \/ BeginPurge \/ BeginWarmup \/ BeginDrain \/
          EndDrain \/ DrainTaken \/ DrainFails \/ DrainKeeps \/ DrainErrs \/
          DrainRemoves
  BY <1>11 DEF Restart, RowsInv, Rows, tables, EndSweep, history, BeginPurge,
    BeginWarmup, BeginDrain, EndDrain, DrainTaken, DrainFails, DrainKeeps,
    DrainErrs, DrainRemoves
<1>12. ASSUME NEW ok \in BOOLEAN, EnqueueDeletion(ok) \/ WritePurged(ok)
     PROVE RowsInv'
  BY <1>12 DEF EnqueueDeletion, RowsInv, Rows, tables, WritePurged
<1>13. ASSUME NEW u \in Urls,
          SweepLeaves(u) \/ SweepErrs(u) \/ (\E ok \in BOOLEAN : FileRow(u, ok)) \/
          SweepPublishes(u) \/
          DrainSkips(u) \/ DrainSends(u) PROVE RowsInv'
  BY <1>13 DEF SweepLeaves, Sweeps, RowsInv, Rows, tables, history, SweepErrs,
    FileRow, SweepPublishes, DrainSkips, Drains, DrainSends
<1>14. CASE UNCHANGED vars
  BY <1>14 DEF vars, RowsInv, Rows, tables, history
<1> QED
  BY <1>1, <1>2, <1>3, <1>4, <1>5, <1>6, <1>7, <1>8, <1>9, <1>10, <1>11, <1>12,
     <1>13, <1>14 DEF Next, Migrates, Monitors

-----------------------------------------------------------------------------
(* A removed row's deletion is always somewhere *)

\* Where the URLs of removed rows wait for the reading of the purge's file.
Announcing ==
  IF stage \in {"boot", "sweeping", "swept"} THEN IF purged THEN file ELSE {}
  ELSE IF stage = "filing" THEN todo ELSE {}

\* RemovedAnnounced for every stage: the URL between the two statements, the
\* purge's list and the file are where a deletion waits on its way to the queue.
AnnounceInv ==
  removed \subseteq dq \cup done \cup lost \cup (unfiled \cap file)
                    \cup {gap} \cup Unwritten \cup Announcing

LEMMA AnnounceStep ==
  ASSUME TypeOK, FileInv, RowsInv, AnnounceInv, [Next]_vars
  PROVE  AnnounceInv'
<1>1. CASE Restart
  <2>1. /\ lost' = lost \cup Unwritten \cup ({gap} \cap Urls)
        /\ UNCHANGED <<removed, done, dq, file>>
        /\ Announcing' = IF purged THEN file ELSE {}
    BY <1>1 DEF Restart, Announcing
  <2>2. Announcing \cup (unfiled \cap file) \subseteq Announcing' \cup lost \cup Unwritten
    BY <2>1 DEF Announcing, FileInv, Unwritten
  <2>3. removed \subseteq Urls
    BY DEF TypeOK
  <2> QED
    BY <2>1, <2>2, <2>3 DEF AnnounceInv
<1>2. ASSUME NEW readable \in BOOLEAN, SkipPurge(readable) PROVE AnnounceInv'
  <2>1. /\ Announcing = file /\ Unwritten = {} /\ Unwritten' = {} /\ file' = file
        /\ UNCHANGED <<removed, done, lost, dq, gap>>
    BY <1>2 DEF SkipPurge, ReadsFile, Announcing, Unwritten, records
  <2>2. Announcing' = todo'
    BY <1>2 DEF SkipPurge, ReadsFile, Announcing
  <2>3. todo' = file \/ unfiled' = file
    BY <1>2 DEF SkipPurge, ReadsFile
  <2> QED
    BY <2>1, <2>2, <2>3 DEF AnnounceInv
<1>3. ASSUME NEW readable \in BOOLEAN, EndPurge(readable) PROVE AnnounceInv'
  BY <1>3 DEF EndPurge, ReadsFile, AnnounceInv, Announcing, Unwritten, FileInv,
    history, records
<1>4. ASSUME NEW u \in Urls, SweepRemoves(u) PROVE AnnounceInv'
  BY <1>4 DEF SweepRemoves, Sweeps, AnnounceInv, Announcing, Unwritten, TypeOK,
    records, FileInv
<1>5. ASSUME NEW u \in Urls, SweepIgnores(u) PROVE AnnounceInv'
  BY <1>5 DEF SweepIgnores, Sweeps, AnnounceInv, Announcing, Unwritten, TypeOK,
    records, history, FileInv
<1>6. ASSUME NEW u \in Urls, PurgeRow(u) PROVE AnnounceInv'
  BY <1>6 DEF PurgeRow, AnnounceInv, Announcing, Unwritten, FileInv, records
<1>7. CASE DrainTaken
  BY <1>7 DEF DrainTaken, AnnounceInv, Announcing, Unwritten, TypeOK, history,
    records, FileInv
<1>8. CASE DrainFails \/ DrainKeeps \/ DrainErrs
  BY <1>8 DEF DrainFails, DrainKeeps, DrainErrs, AnnounceInv, Announcing,
    Unwritten, TypeOK, records, FileInv
<1>9. CASE DrainRemoves
  BY <1>9 DEF DrainRemoves, Left, AnnounceInv, Announcing, Unwritten, TypeOK,
    records, FileInv
<1>10. ASSUME NEW u \in Urls, Seed(u) PROVE AnnounceInv'
  BY <1>10 DEF Seed, AnnounceInv, Announcing, Unwritten, records, FileInv
<1>11. ASSUME NEW u \in Urls, Recheck(u) PROVE AnnounceInv'
  BY <1>11 DEF Recheck, AnnounceInv, Announcing, Unwritten, RowsInv, Rows, records,
    FileInv
<1>12. ASSUME NEW u \in Urls, NEW fake \in BOOLEAN, Check(u, fake) PROVE AnnounceInv'
  BY <1>12 DEF Check, AnnounceInv, Announcing, Unwritten, RowsInv, TypeOK, Rows,
    records, FileInv
<1>13. CASE BeginSweep \/ EndSweep \/ BeginPurge \/
          (\E readable \in BOOLEAN : PurgeErrs(readable)) \/ BeginWarmup \/
          BeginDrain \/ EndDrain
  BY <1>13 DEF ReadsFile, BeginSweep, AnnounceInv, Announcing, Unwritten, records,
    EndSweep,
    history, BeginPurge, PurgeErrs, BeginWarmup, BeginDrain, EndDrain, FileInv
<1>14. ASSUME NEW ok \in BOOLEAN, EnqueueDeletion(ok) \/ WritePurged(ok)
     PROVE AnnounceInv'
  BY <1>14 DEF EnqueueDeletion, AnnounceInv, Announcing, Unwritten, records,
    WritePurged, FileInv
<1>15. ASSUME NEW u \in Urls,
          SweepLeaves(u) \/ SweepErrs(u) \/ (\E ok \in BOOLEAN : FileRow(u, ok)) \/
          SweepPublishes(u) \/
          DrainSkips(u) \/ DrainSends(u) PROVE AnnounceInv'
  BY <1>15 DEF SweepLeaves, Sweeps, AnnounceInv, Announcing, Unwritten, records,
    history, SweepErrs, FileRow, SweepPublishes, DrainSkips, Drains, DrainSends,
    FileInv
<1>16. CASE UNCHANGED vars
  BY <1>16 DEF vars, AnnounceInv, Announcing, Unwritten, records, history, FileInv
<1> QED
  BY <1>1, <1>2, <1>3, <1>4, <1>5, <1>6, <1>7, <1>8, <1>9, <1>10, <1>11, <1>12,
     <1>13, <1>14, <1>15, <1>16 DEF Next, Migrates, Monitors

-----------------------------------------------------------------------------
(* The drain *)

\* What the drain is through with has failed or is marked; the entry under way is
\* still there, and marked once it is taken.
DrainInv ==
  /\ stage = "draining" =>
       /\ todo \subseteq dq
       /\ dq \subseteq todo \cup failed \cup marked \cup (IF doing = None THEN {} ELSE {doing.url})
  /\ doing # None => /\ doing.url \in dq \ todo
                     /\ doing.op = "remove" /\ doing.url \in Rows => doing.url \in marked

LEMMA DrainStep ==
  ASSUME TypeOK, DrainInv, [Next]_vars
  PROVE  DrainInv'
<1>1. CASE BeginSweep
  BY <1>1 DEF BeginSweep, DrainInv, TypeOK
<1>2. CASE EndSweep
  BY <1>2 DEF EndSweep, DrainInv, TypeOK
<1>3. CASE BeginPurge
  BY <1>3 DEF BeginPurge, DrainInv, TypeOK
<1>4. ASSUME NEW readable \in BOOLEAN, SkipPurge(readable) PROVE DrainInv'
  BY <1>4 DEF SkipPurge, ReadsFile, DrainInv, TypeOK
<1>5. ASSUME NEW readable \in BOOLEAN, PurgeErrs(readable) PROVE DrainInv'
  BY <1>5 DEF PurgeErrs, ReadsFile, DrainInv, TypeOK
<1>6. ASSUME NEW readable \in BOOLEAN, EndPurge(readable) PROVE DrainInv'
  BY <1>6 DEF EndPurge, ReadsFile, DrainInv, TypeOK
<1>7. ASSUME NEW ok \in BOOLEAN, EnqueueDeletion(ok) PROVE DrainInv'
  BY <1>7 DEF EnqueueDeletion, DrainInv, TypeOK
<1>8. ASSUME NEW ok \in BOOLEAN, WritePurged(ok) PROVE DrainInv'
  BY <1>8 DEF WritePurged, DrainInv, TypeOK
<1>9. ASSUME NEW u \in Urls, SweepLeaves(u) PROVE DrainInv'
  BY <1>9 DEF SweepLeaves, Sweeps, DrainInv, TypeOK
<1>10. ASSUME NEW u \in Urls, SweepRemoves(u) PROVE DrainInv'
  BY <1>10 DEF SweepRemoves, Sweeps, DrainInv, TypeOK
<1>11. ASSUME NEW u \in Urls, SweepIgnores(u) PROVE DrainInv'
  BY <1>11 DEF SweepIgnores, Sweeps, DrainInv, TypeOK
<1>12. ASSUME NEW u \in Urls, SweepErrs(u) PROVE DrainInv'
  BY <1>12 DEF SweepErrs, Sweeps, DrainInv, TypeOK
<1>13. ASSUME NEW u \in Urls, PurgeRow(u) PROVE DrainInv'
  BY <1>13 DEF PurgeRow, DrainInv, TypeOK
<1>14. ASSUME NEW u \in Urls, NEW ok \in BOOLEAN, FileRow(u, ok) PROVE DrainInv'
  BY <1>14 DEF FileRow, DrainInv, TypeOK
<1>15. CASE BeginWarmup
  BY <1>15 DEF BeginWarmup, DrainInv, TypeOK
<1>16. CASE BeginDrain
  BY <1>16 DEF BeginDrain, DrainInv, TypeOK
<1>17. CASE DrainTaken
  BY <1>17 DEF DrainTaken, MarkedRows, DrainInv, TypeOK, Rows, history
<1>18. CASE DrainRemoves
  BY <1>18 DEF DrainRemoves, Left, DrainInv, tables
<1>19. ASSUME NEW u \in Urls, Seed(u) PROVE DrainInv'
  BY <1>19 DEF Seed, DrainInv, TypeOK
<1>20. ASSUME NEW u \in Urls, Recheck(u) PROVE DrainInv'
  BY <1>20 DEF Recheck, DrainInv, TypeOK
<1>21. ASSUME NEW u \in Urls, SweepPublishes(u) PROVE DrainInv'
  BY <1>21 DEF SweepPublishes, DrainInv, TypeOK
<1>22. ASSUME NEW u \in Urls, DrainSkips(u) PROVE DrainInv'
  BY <1>22 DEF DrainSkips, Drains, Published, DrainInv, tables, history
<1>23. ASSUME NEW u \in Urls, NEW fake \in BOOLEAN, Check(u, fake) PROVE DrainInv'
  BY <1>23 DEF Check, DrainInv, TypeOK
<1>24. CASE Restart \/ EndDrain
  BY <1>24 DEF Restart, DrainInv, EndDrain, tables
<1>27. CASE DrainFails \/ DrainKeeps
  BY <1>27 DEF DrainInv, DrainFails, DrainKeeps, tables
<1>28. CASE DrainErrs
  BY <1>28 DEF DrainErrs, DrainInv, TypeOK, tables
<1>25. ASSUME NEW u \in Urls,
          DrainSends(u) PROVE DrainInv'
  BY <1>25 DEF DrainSends, Drains, DrainInv, tables, history
<1>26. CASE UNCHANGED vars
  BY <1>26 DEF vars, DrainInv, Rows, tables, history
<1> QED
  BY <1>1, <1>2, <1>3, <1>4, <1>5, <1>6, <1>7, <1>8, <1>9, <1>10, <1>11, <1>12,
     <1>13, <1>14, <1>15, <1>16, <1>17, <1>18, <1>19, <1>20, <1>21, <1>22, <1>23,
     <1>24, <1>25, <1>26, <1>27, <1>28 DEF Next, Migrates, Monitors

-----------------------------------------------------------------------------
(* What was published stays published *)

\* Garbage is queued after its row is gone, and never gets a row again.
GarbageInv ==
  /\ Garbage \cap Rows \cap (dq \cup done) = {}
  /\ gap \in Garbage => gap \notin Rows \cup done
  /\ gap \in Urls \ Garbage => gap \in Rows

LEMMA GarbageStep ==
  ASSUME TypeOK, FileInv, RowsInv, DrainInv, GarbageInv, [Next]_vars
  PROVE  GarbageInv'
<1>1. ASSUME NEW u \in Urls, SweepRemoves(u) PROVE GarbageInv'
  BY <1>1 DEF SweepRemoves, Sweeps, GarbageInv, RowsInv, TypeOK, Rows
<1>2. ASSUME NEW u \in Urls, SweepIgnores(u) PROVE GarbageInv'
  BY <1>2 DEF SweepIgnores, GarbageInv, TypeOK, Rows, history
<1>3. ASSUME NEW u \in Urls, PurgeRow(u) PROVE GarbageInv'
  BY <1>3 DEF PurgeRow, GarbageInv, TypeOK, Rows
<1>4. ASSUME NEW u \in Urls, NEW ok \in BOOLEAN, FileRow(u, ok) PROVE GarbageInv'
  BY <1>4 DEF FileRow, GarbageInv, FileInv, TypeOK, Rows, tables, history
<1>5. CASE DrainRemoves
  BY <1>5 DEF DrainRemoves, Left, GarbageInv, DrainInv, TypeOK, Rows, tables
<1>6. ASSUME NEW u \in Urls, Seed(u) PROVE GarbageInv'
  BY <1>6 DEF Seed, GarbageInv, Rows
<1>7. ASSUME NEW u \in Urls, Recheck(u) PROVE GarbageInv'
  BY <1>7 DEF Recheck, GarbageInv, Rows
<1>8. ASSUME NEW u \in Urls, NEW fake \in BOOLEAN, Check(u, fake) PROVE GarbageInv'
  BY <1>8 DEF Check, GarbageInv, TypeOK, Rows
<1>9. CASE Restart \/ BeginSweep \/ EndSweep \/ BeginPurge \/
          (\E readable \in BOOLEAN : SkipPurge(readable)) \/
          (\E readable \in BOOLEAN : PurgeErrs(readable)) \/
          (\E readable \in BOOLEAN : EndPurge(readable)) \/ BeginWarmup \/
          BeginDrain \/ EndDrain \/
          DrainTaken \/ DrainFails \/ DrainKeeps \/ DrainErrs
  BY <1>9 DEF ReadsFile, Restart, GarbageInv, Rows, tables, BeginSweep, EndSweep,
    history,
    BeginPurge, SkipPurge, PurgeErrs, EndPurge, BeginWarmup, BeginDrain, EndDrain,
    DrainTaken, DrainFails, DrainKeeps, DrainErrs
<1>10. ASSUME NEW ok \in BOOLEAN, EnqueueDeletion(ok) \/ WritePurged(ok)
     PROVE GarbageInv'
  BY <1>10 DEF EnqueueDeletion, GarbageInv, Rows, tables, WritePurged
<1>11. ASSUME NEW u \in Urls,
          SweepLeaves(u) \/ SweepErrs(u) \/ SweepPublishes(u) \/ DrainSkips(u) \/
          DrainSends(u) PROVE GarbageInv'
  BY <1>11 DEF SweepLeaves, GarbageInv, Rows, tables, history, SweepErrs,
    SweepPublishes, DrainSkips, DrainSends
<1>12. CASE UNCHANGED vars
  BY <1>12 DEF vars, GarbageInv, Rows, tables, history
<1> QED
  BY <1>1, <1>2, <1>3, <1>4, <1>5, <1>6, <1>7, <1>8, <1>9, <1>10, <1>11,
    <1>12 DEF Next, Migrates, Monitors

\* A published deletion is on the record of the row if there is one; if there is
\* none, an entry for it comes from the file or from a purge that was cut off.
ResendInv ==
  /\ done \cap Rows \subseteq marked
  /\ (done \cap dq) \ Rows \subseteq file \cup lost \cup Unwritten

LEMMA ResendStep ==
  ASSUME TypeOK, FileInv, RowsInv, DrainInv, GarbageInv, ResendInv, [Next]_vars
  PROVE  ResendInv'
<1>1. CASE BeginPurge
  BY <1>1 DEF BeginPurge, ResendInv, FileInv, Rows, Unwritten, tables, history
<1>2. ASSUME NEW readable \in BOOLEAN, PurgeErrs(readable) PROVE ResendInv'
  BY <1>2 DEF PurgeErrs, ResendInv, FileInv, Rows, tables
<1>3. ASSUME NEW readable \in BOOLEAN, EndPurge(readable) PROVE ResendInv'
  BY <1>3 DEF EndPurge, ResendInv, FileInv, Rows, Unwritten, tables, history
<1>4. ASSUME NEW ok \in BOOLEAN, EnqueueDeletion(ok) PROVE ResendInv'
  BY <1>4 DEF EnqueueDeletion, ResendInv, GarbageInv, TypeOK, Rows, Unwritten,
    tables, records
<1>5. ASSUME NEW ok \in BOOLEAN, WritePurged(ok) PROVE ResendInv'
  BY <1>5 DEF WritePurged, ResendInv, FileInv, Rows, Unwritten, tables
<1>6. ASSUME NEW u \in Urls, SweepRemoves(u) PROVE ResendInv'
  BY <1>6 DEF SweepRemoves, Sweeps, ResendInv, GarbageInv, Rows, Unwritten,
    records
<1>7. ASSUME NEW u \in Urls, SweepIgnores(u) PROVE ResendInv'
  BY <1>7 DEF SweepIgnores, Sweeps, ResendInv, RowsInv, Rows, Unwritten, records,
    history
<1>8. ASSUME NEW u \in Urls, PurgeRow(u) PROVE ResendInv'
  BY <1>8 DEF PurgeRow, ResendInv, FileInv, TypeOK, Rows, Unwritten
<1>9. ASSUME NEW u \in Urls, NEW ok \in BOOLEAN, FileRow(u, ok) PROVE ResendInv'
  BY <1>9 DEF FileRow, ResendInv, FileInv, Rows, Unwritten, tables, records,
    history
<1>10. CASE DrainTaken
  BY <1>10 DEF DrainTaken, MarkedRows, ResendInv, Rows, Unwritten, records,
    history
<1>11. CASE DrainRemoves
  BY <1>11 DEF DrainRemoves, Left, ResendInv, DrainInv, Rows, Unwritten, tables,
    records
<1>12. ASSUME NEW u \in Urls, Seed(u) PROVE ResendInv'
  BY <1>12 DEF Seed, ResendInv, Rows, Unwritten, records
<1>13. ASSUME NEW u \in Urls, Recheck(u) PROVE ResendInv'
  BY <1>13 DEF Recheck, ResendInv, Rows, Unwritten, records
<1>14. ASSUME NEW u \in Urls, NEW fake \in BOOLEAN, Check(u, fake) PROVE ResendInv'
  BY <1>14 DEF Check, ResendInv, Rows, Unwritten, records
<1>15. CASE Restart \/ BeginSweep \/ EndSweep \/
          (\E readable \in BOOLEAN : SkipPurge(readable)) \/ BeginWarmup \/
          BeginDrain \/ EndDrain \/ DrainFails \/ DrainKeeps \/ DrainErrs
  BY <1>15 DEF ReadsFile, Restart, ResendInv, Rows, tables, BeginSweep, Unwritten,
    records,
    EndSweep, history, SkipPurge, BeginWarmup, BeginDrain, EndDrain, DrainFails,
    DrainKeeps, DrainErrs
<1>16. ASSUME NEW u \in Urls,
          SweepLeaves(u) \/ SweepErrs(u) \/ SweepPublishes(u) \/ DrainSkips(u) \/
          DrainSends(u) PROVE ResendInv'
  BY <1>16 DEF SweepLeaves, Sweeps, ResendInv, Rows, Unwritten, tables, records,
    history, SweepErrs, SweepPublishes, DrainSkips, Drains, DrainSends
<1>17. CASE UNCHANGED vars
  BY <1>17 DEF vars, ResendInv, Rows, Unwritten, tables, records, history
<1> QED
  BY <1>1, <1>2, <1>3, <1>4, <1>5, <1>6, <1>7, <1>8, <1>9, <1>10, <1>11, <1>12,
     <1>13, <1>14, <1>15, <1>16, <1>17 DEF Next, Migrates, Monitors

-----------------------------------------------------------------------------
(* The sweep *)

\* A row the sweep is through with is qualified, or failed, or ignored and queued,
\* or about to be.
SweepInv ==
  stage = "sweeping" /\ version \notin swept =>
    \A u \in Rows \ (todo \cup failed) :
      /\ u \notin Garbage
      /\ u \in Rejects[version] => row[u] = "swept" /\ u \in dq \cup {gap}

LEMMA SweepStep ==
  ASSUME TypeOK, RowsInv, SweepInv, [Next]_vars
  PROVE  SweepInv'
<1>1. CASE BeginSweep
  BY <1>1 DEF BeginSweep, ToSweep, SweepInv, Rows, tables, records
<1>2. ASSUME NEW readable \in BOOLEAN, SkipPurge(readable) PROVE SweepInv'
  BY <1>2 DEF SkipPurge, ReadsFile, SweepInv
<1>3. ASSUME NEW readable \in BOOLEAN, PurgeErrs(readable) PROVE SweepInv'
  BY <1>3 DEF PurgeErrs, ReadsFile, SweepInv
<1>4. ASSUME NEW readable \in BOOLEAN, EndPurge(readable) PROVE SweepInv'
  BY <1>4 DEF EndPurge, ReadsFile, SweepInv
<1>5. ASSUME NEW u \in Urls, SweepRemoves(u) PROVE SweepInv'
  BY <1>5 DEF SweepRemoves, Sweeps, SweepInv, TypeOK, Rows, records
<1>6. ASSUME NEW u \in Urls, SweepIgnores(u) PROVE SweepInv'
  BY <1>6 DEF SweepIgnores, Sweeps, SweepInv, TypeOK, Rows, records, history
<1>7. ASSUME NEW u \in Urls, PurgeRow(u) PROVE SweepInv'
  BY <1>7 DEF PurgeRow, SweepInv
<1>8. CASE DrainTaken
  BY <1>8 DEF DrainTaken, SweepInv, TypeOK
<1>9. CASE DrainFails \/ DrainKeeps \/ DrainErrs
  BY <1>9 DEF DrainFails, DrainKeeps, DrainErrs, SweepInv, TypeOK
<1>10. CASE DrainRemoves
  BY <1>10 DEF DrainRemoves, SweepInv, TypeOK
<1>11. ASSUME NEW u \in Urls, Seed(u) PROVE SweepInv'
  BY <1>11 DEF Seed, SweepInv
<1>12. ASSUME NEW u \in Urls, Recheck(u) PROVE SweepInv'
  BY <1>12 DEF Recheck, SweepInv
<1>13. ASSUME NEW u \in Urls, NEW fake \in BOOLEAN, Check(u, fake) PROVE SweepInv'
  BY <1>13 DEF Check, SweepInv
<1>14. CASE Restart \/ EndSweep \/ BeginPurge \/ BeginWarmup \/ BeginDrain \/
          EndDrain
  BY <1>14 DEF Restart, SweepInv, EndSweep, BeginPurge, BeginWarmup, BeginDrain,
    EndDrain
<1>15. ASSUME NEW ok \in BOOLEAN, EnqueueDeletion(ok) \/ WritePurged(ok)
     PROVE SweepInv'
  BY <1>15 DEF EnqueueDeletion, SweepInv, Rows, tables, records, WritePurged
<1>16. ASSUME NEW u \in Urls,
          SweepLeaves(u) \/ SweepErrs(u) \/ (\E ok \in BOOLEAN : FileRow(u, ok)) \/
          SweepPublishes(u) \/
          DrainSkips(u) \/ DrainSends(u) PROVE SweepInv'
  BY <1>16 DEF SweepLeaves, Sweeps, SweepInv, Rows, tables, records, history,
    SweepErrs, FileRow, SweepPublishes, DrainSkips, Drains, DrainSends
<1>17. CASE UNCHANGED vars
  BY <1>17 DEF vars, SweepInv, Rows, tables, records, history
<1> QED
  BY <1>1, <1>2, <1>3, <1>4, <1>5, <1>6, <1>7, <1>8, <1>9, <1>10, <1>11, <1>12,
     <1>13, <1>14, <1>15, <1>16, <1>17 DEF Next, Migrates, Monitors

-----------------------------------------------------------------------------
(* Theorems *)

IInv ==
  /\ TypeOK /\ FileInv /\ RowsInv /\ AnnounceInv
  /\ DrainInv /\ GarbageInv /\ ResendInv /\ SweepInv

LEMMA IInvInit == Init => IInv
<1> SUFFICES ASSUME Init PROVE IInv
  OBVIOUS
<1>1. TypeOK
  <2>1. row \in [Urls -> {"gone", "ok", "fake", "swept"}] /\ fresh \subseteq Rows
    BY DEF Init, Rows
  <2>2. version \in Versions /\ stage \in Stages
    BY DEF Init, Versions, Stages
  <2> QED
    BY <2>1, <2>2 DEF Init, TypeOK
<1>2. FileInv /\ RowsInv /\ AnnounceInv
  BY DEF Init, FileInv, RowsInv, AnnounceInv
<1>3. DrainInv /\ GarbageInv /\ ResendInv /\ SweepInv
  BY DEF Init, DrainInv, GarbageInv, ResendInv, SweepInv
<1> QED
  BY <1>1, <1>2, <1>3 DEF IInv

LEMMA IInvStep == IInv /\ [Next]_vars => IInv'
BY TypeStep, FileStep, RowsStep, AnnounceStep, DrainStep, GarbageStep, ResendStep,
   SweepStep DEF IInv

LEMMA Invariance == Spec => []IInv
BY IInvInit, IInvStep, PTL DEF Spec

\* Every reachable state is of the declared types (Remediation.tla, TypeOK).
THEOREM TypeCorrect == Spec => []TypeOK
<1>1. IInv => TypeOK
  BY DEF IInv
<1> QED
  BY <1>1, Invariance, PTL

\* No removed row is left unannounced but for a cut that is on record: no stage at
\* which the daemon monitors leaves a deletion waiting outside the queue.
THEOREM RemovalsAnnounced == Spec => []RemovedAnnounced
<1>1. IInv => RemovedAnnounced
  BY DEF IInv, RemovedAnnounced, AnnounceInv, Announcing, Unwritten, TypeOK
<1> QED
  BY <1>1, Invariance, PTL

\* A sentinel of the sweep is written over a table it is through with
\* (remediation.ts:536-542); only EndSweep writes one.
THEOREM SentinelsHonest == Spec => SentinelHonest
<1>1. ASSUME IInv, [Next]_vars
      PROVE  [\A v \in swept' \ swept : \A u \in Rows' \ failed' :
                /\ u \notin Garbage
                /\ u \in Rejects[v] => u \in Ignored' \cap dq']_vars
  <2>1. CASE EndSweep
    BY <1>1, <2>1 DEF EndSweep, IInv, SweepInv, TypeOK, Rows, Ignored, tables,
      history
  <2>2. CASE ~EndSweep
    <3>1. swept' = swept
      BY <1>1, <2>2 DEF Next, Migrates, Monitors, vars, records, Restart,
        BeginSweep,
         BeginPurge, SkipPurge, PurgeErrs, EndPurge, EnqueueDeletion, WritePurged,
         SweepLeaves, SweepRemoves, SweepIgnores, SweepErrs, PurgeRow, FileRow,
         BeginWarmup, BeginDrain, EndDrain, DrainTaken, DrainFails, DrainKeeps,
         DrainErrs, DrainRemoves,
         Seed, Recheck, SweepPublishes, DrainSkips, DrainSends, Check
    <3> QED
      BY <3>1
  <2> QED
    BY <2>1, <2>2
<1> QED
  BY <1>1, Invariance, PTL DEF Spec, SentinelHonest

\* The drain leaves what failed or was published before (remediation.ts:326-345);
\* only EndDrain leaves this stage for the normal loops.
THEOREM DrainsClear == Spec => DrainClears
<1>1. ASSUME IInv, [Next]_vars
      PROVE  [stage = "draining" /\ stage' = "normal" => dq' \subseteq failed' \cup marked']_vars
  <2>1. CASE EndDrain
    BY <1>1, <2>1 DEF EndDrain, IInv, DrainInv, TypeOK, tables, history
  <2>2. CASE ~EndDrain
    <3>1. ~(stage = "draining" /\ stage' = "normal")
      BY <1>1, <2>2 DEF Next, Migrates, Monitors, vars, ReadsFile, Restart,
        BeginSweep,
         EndSweep, BeginPurge, SkipPurge, PurgeErrs, EndPurge, EnqueueDeletion,
         WritePurged, Sweeps, SweepLeaves, SweepRemoves, SweepIgnores, SweepErrs,
         PurgeRow, FileRow, BeginWarmup, BeginDrain, DrainTaken, DrainFails,
         DrainKeeps, DrainErrs,
         DrainRemoves, Seed, Recheck, SweepPublishes, DrainSkips, DrainSends, Check
    <3> QED
      BY <3>1
  <2> QED
    BY <2>1, <2>2
<1> QED
  BY <1>1, Invariance, PTL DEF Spec, DrainClears

\* A published deletion is sent again only for a URL of the purge's file or of a
\* purge that was cut off (db.ts:301-303); only DrainSends sends.
THEOREM ResendsFromFileOnly == Spec => OnlyFileResends
<1>1. ASSUME IInv, [Next]_vars
      PROVE  [\A u \in done \ (file \cup lost) : ~Sends(u)]_vars
  <2> SUFFICES ASSUME NEW u \in done \ (file \cup lost), Sends(u) PROVE FALSE
    OBVIOUS
  <2>1. doing = None /\ doing' # None
    BY <1>1 DEF Sends, IInv, TypeOK
  <2>2. PICK w \in Urls : DrainSends(w)
    BY <1>1, <2>1 DEF Next, Migrates, Monitors, vars, history, Restart, BeginSweep,
       EndSweep, BeginPurge, SkipPurge, PurgeErrs, EndPurge, EnqueueDeletion,
       WritePurged, SweepLeaves, SweepRemoves, SweepIgnores, SweepErrs, PurgeRow,
       FileRow, BeginWarmup, BeginDrain, EndDrain, DrainTaken, DrainFails,
       DrainKeeps, DrainErrs,
       DrainRemoves, Seed, Recheck, SweepPublishes, DrainSkips, Check
  <2>3. w = u
    BY <2>2 DEF DrainSends, Sends
  <2>4. u \in dq /\ u \notin marked /\ stage = "draining"
    BY <1>1, <2>2, <2>3 DEF DrainSends, Drains, Published, IInv, DrainInv
  <2>5. u \in file \cup lost \cup Unwritten
    BY <1>1, <2>4 DEF IInv, ResendInv
  <2> QED
    BY <2>4, <2>5 DEF Unwritten
<1> QED
  BY <1>1, Invariance, PTL DEF Spec, OnlyFileResends

-----------------------------------------------------------------------------
(* The refinement of RelayRows *)

\* The drain waits for the first check of every row; what is seeded beside the
\* normal loops is ignored by nothing but its own check.
FreshInv ==
  /\ stage = "draining" => fresh = {}
  /\ stage = "normal" => \A u \in fresh : row[u] = "ok"

LEMMA FreshStep ==
  ASSUME TypeOK, FreshInv, [Next]_vars
  PROVE  FreshInv'
<1>1. CASE UNCHANGED <<row, fresh, stage>>
  BY <1>1 DEF FreshInv
<1>2. CASE stage' \notin {"draining", "normal"}
  BY <1>2 DEF FreshInv
<1>3. CASE BeginDrain \/ EndDrain
  BY <1>3 DEF BeginDrain, EndDrain, FreshInv, tables
<1>4. ASSUME NEW u \in Urls, Seed(u) PROVE FreshInv'
  BY <1>4 DEF Seed, FreshInv, TypeOK, Rows
<1>5. ASSUME NEW u \in Urls, NEW fake \in BOOLEAN, Check(u, fake) PROVE FreshInv'
  BY <1>5 DEF Check, FreshInv, TypeOK, Rows
<1>6. ASSUME NEW u \in Urls, Recheck(u) PROVE FreshInv'
  BY <1>6 DEF Recheck, FreshInv, TypeOK, Rows
<1>7. CASE DrainTaken \/ DrainFails \/ DrainKeeps \/ DrainErrs \/ DrainRemoves \/
          UNCHANGED vars
  BY <1>1, <1>7 DEF DrainTaken, DrainFails, DrainKeeps, DrainErrs, DrainRemoves,
    vars, tables
<1>8. ASSUME NEW u \in Urls, SweepPublishes(u) \/ DrainSkips(u) \/ DrainSends(u)
      PROVE  FreshInv'
  BY <1>1, <1>8 DEF SweepPublishes, DrainSkips, DrainSends, Drains, tables
<1>9. CASE Restart \/ BeginWarmup
  BY <1>2, <1>9 DEF Restart, BeginWarmup
<1>10. CASE Migrates
  <2>1. stage' \notin {"draining", "normal"}
    BY <1>10 DEF Migrates, BeginSweep, EndSweep, BeginPurge, SkipPurge, PurgeErrs,
      EndPurge,
       ReadsFile, EnqueueDeletion, WritePurged, SweepLeaves, SweepRemoves,
       SweepIgnores,
       SweepErrs, Sweeps, PurgeRow, FileRow, TypeOK
  <2> QED
    BY <1>2, <2>1
<1> QED
  BY <1>3, <1>4, <1>5, <1>6, <1>7, <1>8, <1>9, <1>10 DEF Next, Monitors

\* The status of a URL after a step that writes its row.
LEMMA StatusOne ==
  ASSUME NEW u \in Urls, NEW v, StatusOf(u)' = v,
         \A w \in Urls \ {u} : row'[w] = row[w] /\ (w \in fresh' <=> w \in fresh)
  PROVE  RowStatus' = [RowStatus EXCEPT ![u] = v]
<1>1. \A w \in Urls \ {u} : StatusOf(w)' = StatusOf(w)
  BY DEF StatusOf
<1> QED
  BY <1>1 DEF RowStatus

\* A statement of a migration deletes or ignores the next row of its list.
LEMMA SweepsRow ==
  ASSUME TypeOK, NEW u \in Rows, NEW v \in {"gone", "swept"},
         stage # "normal", stage' = stage, row' = [row EXCEPT ![u] = v],
         fresh' = IF v = "gone" THEN fresh \ {u} ELSE fresh
  PROVE  [Table!Next]_(Table!vars)
<1>0. /\ u \in Urls /\ row[u] # "gone" /\ row'[u] = v
      /\ \A w \in Urls \ {u} : row'[w] = row[w] /\ (w \in fresh' <=> w \in fresh)
  BY DEF TypeOK, Rows
<1>1. RunPhase = "boot" /\ RunPhase' = RunPhase
  BY DEF RunPhase
<1>2. RowStatus[u] # "gone"
  BY <1>0 DEF RowStatus, StatusOf
<1>3. CASE v = "gone"
  <2>1. StatusOf(u)' = "gone"
    BY <1>0, <1>3 DEF StatusOf
  <2>2. RowStatus' = [RowStatus EXCEPT ![u] = "gone"]
    BY <1>0, <2>1, StatusOne
  <2>3. Table!Sweep(u)
    BY <1>1, <1>2, <2>2 DEF Table!Sweep
  <2> QED
    BY <1>0, <2>3 DEF Table!Next
<1>4. CASE v = "swept" /\ u \notin fresh
  <2>1. StatusOf(u)' = "other" /\ StatusOf(u) # "new"
    BY <1>0, <1>4 DEF StatusOf, TypeOK
  <2>2. RowStatus' = [RowStatus EXCEPT ![u] = "other"] /\ u \notin Table!Fresh
    BY <1>0, <2>1, StatusOne DEF Table!Fresh, RowStatus
  <2>3. Table!Sweep(u)
    BY <1>1, <1>2, <2>2 DEF Table!Sweep
  <2> QED
    BY <1>0, <2>3 DEF Table!Next
<1>5. CASE v = "swept" /\ u \in fresh
  <2>1. \A w \in Urls : StatusOf(w)' = StatusOf(w)
    BY <1>0, <1>5 DEF StatusOf
  <2>2. RowStatus' = RowStatus
    BY <2>1 DEF RowStatus
  <2> QED
    BY <1>1, <2>2 DEF Table!vars
<1> QED
  BY <1>3, <1>4, <1>5

LEMMA TableStep ==
  ASSUME TypeOK, RowsInv, FreshInv, [Next]_vars
  PROVE  [Table!Next]_(Table!vars)
<1>0. ASSUME UNCHANGED <<row, fresh>>, RunPhase' = RunPhase
      PROVE  UNCHANGED Table!vars
  BY <1>0 DEF RowStatus, StatusOf, Table!vars
<1>1. CASE Restart
  <2>1. RowStatus' = RowStatus /\ RunPhase' = "boot"
    BY <1>1 DEF Restart, tables, RowStatus, StatusOf, RunPhase
  <2>2. Table!Restart
    BY <2>1 DEF Table!Restart
  <2> QED
    BY <2>2 DEF Table!Next
<1>2. ASSUME NEW u \in Urls, SweepRemoves(u) PROVE [Table!Next]_(Table!vars)
  <2>1. u \in Rows /\ stage # "normal" /\ stage' = stage
    BY <1>2 DEF SweepRemoves, Sweeps, RowsInv, records
  <2> QED
    BY <1>2, <2>1, SweepsRow DEF SweepRemoves
<1>3. ASSUME NEW u \in Urls, SweepIgnores(u) PROVE [Table!Next]_(Table!vars)
  <2>1. u \in Rows /\ stage # "normal" /\ stage' = stage
    BY <1>3 DEF SweepIgnores, Sweeps, RowsInv, records
  <2> QED
    BY <1>3, <2>1, SweepsRow DEF SweepIgnores
<1>4. ASSUME NEW u \in Urls, PurgeRow(u) PROVE [Table!Next]_(Table!vars)
  <2>1. u \in Rows /\ stage # "normal" /\ stage' = stage
    BY <1>4 DEF PurgeRow, RowsInv, records
  <2> QED
    BY <1>4, <2>1, SweepsRow DEF PurgeRow
<1>5. ASSUME NEW u \in Urls, Seed(u) PROVE Table!Next
  <2>1. /\ row[u] = "gone" /\ u \notin fresh /\ stage' = stage
        /\ fresh' = fresh \cup {u} /\ row' = [row EXCEPT ![u] = "ok"]
    BY <1>5 DEF Seed, TypeOK, Rows
  <2>2. StatusOf(u)' = "new" /\ RowStatus[u] = "gone"
    BY <2>1 DEF StatusOf, RowStatus
  <2>3. RowStatus' = [RowStatus EXCEPT ![u] = "new"]
    BY <2>1, <2>2, StatusOne DEF TypeOK
  <2>4. Table!Seed(u)
    BY <2>1, <2>2, <2>3 DEF Table!Seed, RunPhase
  <2> QED
    BY <2>4 DEF Table!Next
<1>6. ASSUME NEW u \in Urls, NEW fake \in BOOLEAN, Check(u, fake) PROVE Table!Next
  <2> DEFINE v == IF fake THEN "fake" ELSE "ok"
  <2>1. /\ stage' = stage /\ fresh' = fresh \ {u} /\ row' = [row EXCEPT ![u] = v]
        /\ IF stage = "warmup" THEN u \in fresh ELSE stage = "normal" /\ row[u] = "ok"
    BY <1>6 DEF Check
  <2>2. row'[u] = v /\ u \notin fresh'
    BY <2>1 DEF TypeOK
  <2>3. StatusOf(u)' = v
    BY <2>2 DEF StatusOf
  <2>4. RowStatus' = [RowStatus EXCEPT ![u] = v]
    BY <2>1, <2>3, StatusOne DEF TypeOK
  <2>5. u \in Table!Checkable
    BY <2>1 DEF Table!Checkable, Table!Fresh, RowStatus, StatusOf, RunPhase
  <2>6. Table!Check(u, v)
    BY <2>1, <2>4, <2>5 DEF Table!Check, RunPhase
  <2> QED
    BY <2>6 DEF Table!Next
<1>7. ASSUME NEW u \in Urls, Recheck(u) PROVE Table!Next
  <2>1. /\ stage = "normal" /\ stage' = stage /\ row[u] = "fake" /\ u \notin fresh
        /\ fresh' = fresh /\ row' = [row EXCEPT ![u] = "ok"]
    BY <1>7 DEF Recheck, FreshInv
  <2>2. row'[u] = "ok" /\ u \notin fresh'
    BY <2>1 DEF TypeOK
  <2>3. StatusOf(u)' = "ok" /\ RowStatus[u] = "fake"
    BY <2>1, <2>2 DEF StatusOf, RowStatus
  <2>4. RowStatus' = [RowStatus EXCEPT ![u] = "ok"]
    BY <2>1, <2>3, StatusOne DEF TypeOK
  <2>5. Table!Recheck(u)
    BY <2>1, <2>3, <2>4 DEF Table!Recheck, RunPhase
  <2> QED
    BY <2>5 DEF Table!Next
<1>8. CASE EndDrain
  <2>1. /\ fresh = {} /\ UNCHANGED <<row, fresh>>
        /\ RunPhase = "boot" /\ RunPhase' = "normal"
    BY <1>8 DEF EndDrain, FreshInv, tables, RunPhase
  <2>2. Table!Fresh = {}
    BY <2>1 DEF Table!Fresh, RowStatus, StatusOf, TypeOK
  <2>3. RowStatus' = RowStatus
    BY <2>1 DEF RowStatus, StatusOf
  <2>4. Table!EnterNormal
    BY <2>1, <2>2, <2>3 DEF Table!EnterNormal
  <2> QED
    BY <2>4 DEF Table!Next
<1>9. CASE BeginSweep \/ EndSweep \/ BeginPurge \/
          (\E readable \in BOOLEAN : SkipPurge(readable)) \/
          (\E readable \in BOOLEAN : PurgeErrs(readable)) \/
          (\E readable \in BOOLEAN : EndPurge(readable))
           \/ (\E ok \in BOOLEAN : EnqueueDeletion(ok) \/ WritePurged(ok))
           \/ BeginWarmup \/ BeginDrain \/ DrainTaken \/ DrainFails
           \/ DrainKeeps \/ DrainErrs \/ DrainRemoves
           \/ UNCHANGED vars
  BY <1>0, <1>9 DEF BeginSweep, EndSweep, BeginPurge, SkipPurge, PurgeErrs,
    EndPurge,
     ReadsFile, EnqueueDeletion, WritePurged, BeginWarmup, BeginDrain, DrainTaken,
     DrainFails, DrainKeeps, DrainErrs, DrainRemoves, vars, tables, records,
     RunPhase
<1>10. ASSUME NEW u \in Urls, \/ SweepLeaves(u) \/ SweepErrs(u)
                              \/ (\E ok \in BOOLEAN : FileRow(u, ok))
                              \/ SweepPublishes(u) \/ DrainSkips(u) \/ DrainSends(u)
       PROVE  UNCHANGED Table!vars
  BY <1>0, <1>10 DEF SweepLeaves, SweepErrs, FileRow, SweepPublishes, DrainSkips,
     DrainSends, tables, records, RunPhase
<1> QED
  BY <1>1, <1>2, <1>3, <1>4, <1>5, <1>6, <1>7, <1>8, <1>9, <1>10
  DEF Next, Migrates, Monitors

\* The migrations, the drain and what the daemon does beside them write the
\* rows as RelayRows lets them, wherever a run is killed.
THEOREM TableIsKept == Spec => TableKept
<1>1. Init => Table!Init /\ FreshInv
  BY DEF Init, Table!Init, Table!Statuses, FreshInv, RowStatus, StatusOf, RunPhase
<1>2. IInv => TypeOK /\ RowsInv
  BY DEF IInv
<1>3. IInv /\ FreshInv /\ [Next]_vars => FreshInv' /\ [Table!Next]_(Table!vars)
  BY <1>2, FreshStep, TableStep
<1> QED
  BY <1>1, <1>3, Invariance, PTL DEF Spec, TableKept, Table!Spec
=============================================================================
