-------------------------- MODULE CheckCycle_proofs --------------------------
(***************************************************************************)
(* Proofs about CheckCycle, for any set of relays, any number of check     *)
(* slots and any bounds.  The invariants are proved in the order in which  *)
(* they lean on each other: types, the queue (OneJobPerRelay and           *)
(* WarmupDrains), the retry counters, and the ignore gate.                 *)
(***************************************************************************)
EXTENDS CheckCycle, TLAPS

USE CheckCycleAssumption

-----------------------------------------------------------------------------
(* Types *)

LEMMA RowsOfBoot == NoRow \in Rows /\ NewRow \in Rows
<1>1. NoRow \in Rows
  BY DEF NoRow, Rows
<1> QED
  BY <1>1 DEF NewRow, Rows

\* The updates of a row that the actions make.
LEMMA RowUpdates ==
  ASSUME NEW x \in Rows, NEW b \in BOOLEAN, NEW n \in 0..RetryCap,
         NEW i \in {"no", "fake", "other"}
  PROVE  /\ [x EXCEPT !.checked = b] \in Rows
         /\ [x EXCEPT !.retries = n] \in Rows
         /\ [x EXCEPT !.ignore = i] \in Rows
         /\ [x EXCEPT !.ignore = i, !.retries = n] \in Rows
BY DEF Rows

\* A counter stays within its bound.
LEMMA BumpType ==
  ASSUME NEW n \in 0..RetryCap
  PROVE  Bump(n) \in 0..RetryCap /\ n <= Bump(n)
BY DEF Bump

LEMMA LoadTypes ==
  ASSUME row \in [Relays -> Rows]
  PROVE  /\ LoadKnown \in [Relays -> {"unknown", "online", "offline"}]
         /\ LoadRetries \in [Relays -> 0..RetryCap]
BY DEF LoadKnown, LoadRetries, Rows

LEMMA ResultRowType ==
  ASSUME TypeOK, NEW r \in Relays, NEW on \in BOOLEAN,
         NEW ign \in {"no", "fake", "other"}
  PROVE  ResultRow(r, on, ign) \in Rows
<1>1. row[r].retries \in 0..RetryCap
  BY DEF TypeOK, Rows
<1>2. Bump(row[r].retries) \in 0..RetryCap
  BY <1>1, BumpType
<1> QED
  BY <1>1, <1>2 DEF ResultRow, Rows

\* The queue operations keep the types of the queue's variables.
LEMMA EnqueueType ==
  ASSUME TypeOK, NEW batch \in SUBSET Relays, Enqueue(batch)
  PROVE  enqueued' \subseteq Relays /\ waiting' \in [Relays -> Nat] /\ slot' = slot
BY DEF TypeOK, Enqueue

LEMMA ReleaseType ==
  ASSUME TypeOK, NEW k \in Slots, slot[k] # None, Release(k)
  PROVE  /\ enqueued' \subseteq Relays /\ waiting' = waiting
         /\ slot' \in [Slots -> Jobs \cup {None}]
         /\ slot[k].relay \in Relays
BY DEF TypeOK, Release, Jobs

LEMMA TypeInit == Init => TypeOK
<1> SUFFICES ASSUME Init PROVE TypeOK
  OBVIOUS
<1>1. row \in [Relays -> Rows]
  <2>1. PICK done \in SUBSET Malformed :
          row = [r \in Relays |-> IF r \in Malformed
                                  THEN [NewRow EXCEPT !.checked = r \in done] ELSE NoRow]
    BY DEF Init
  <2>2. ASSUME NEW r \in Relays PROVE [NewRow EXCEPT !.checked = r \in done] \in Rows
    <3>1. (r \in done) \in BOOLEAN
      OBVIOUS
    <3> QED
      BY <3>1, RowsOfBoot DEF Rows
  <2> QED
    BY <2>1, <2>2, RowsOfBoot
<1>2. /\ known \in [Relays -> {"unknown", "online", "offline"}]
      /\ mem \in [Relays -> 0..RetryCap]
  BY <1>1, LoadTypes DEF Init
<1> QED
  BY <1>1, <1>2 DEF Init, TypeOK, NoneWaiting, AllFree

LEMMA TypeStep == TypeOK /\ [Next]_vars => TypeOK'
<1> SUFFICES ASSUME TypeOK, [Next]_vars PROVE TypeOK'
  OBVIOUS
<1>1. CASE Restart
  <2>1. /\ known' \in [Relays -> {"unknown", "online", "offline"}]
        /\ mem' \in [Relays -> 0..RetryCap]
    BY <1>1, LoadTypes DEF Restart, TypeOK
  <2> QED
    BY <1>1, <2>1 DEF Restart, TypeOK, NoneWaiting, AllFree
<1>2. ASSUME NEW r \in Relays, Seed(r) PROVE TypeOK'
  BY <1>2, RowsOfBoot DEF Seed, TypeOK, queues
<1>3. ASSUME NEW r \in Relays, SoftIgnore(r) PROVE TypeOK'
  <2>1. row[r] \in Rows
    BY DEF TypeOK
  <2>2. [row[r] EXCEPT !.ignore = "other"] \in Rows
    BY <2>1 DEF Rows
  <2>3. row' \in [Relays -> Rows]
    BY <1>3, <2>2 DEF SoftIgnore, TypeOK
  <2> QED
    BY <1>3, <2>3 DEF SoftIgnore, TypeOK, queues
<1>4. CASE BeginWarmup
  BY <1>4 DEF BeginWarmup, TypeOK, queues
<1>5. CASE WarmupRound
  <2>1. Unchecked \ Malformed \in SUBSET Relays
    BY DEF Unchecked, Present
  <2> QED
    BY <1>5, <2>1, EnqueueType DEF WarmupRound, TypeOK
<1>6. CASE EnterNormal
  <2>1. row' \in [Relays -> Rows]
    <3>1. ASSUME NEW r \in Relays PROVE [row[r] EXCEPT !.retries = 0] \in Rows
      <4>1. row[r] \in Rows /\ 0 \in 0..RetryCap
        BY DEF TypeOK
      <4> QED
        BY <4>1, RowUpdates
    <3> QED
      BY <1>6, <3>1 DEF EnterNormal, ResetIfPoisoned, TypeOK
  <2>2. PICK batch \in Batches(Present \ Malformed) : Enqueue(batch)
    BY <1>6 DEF EnterNormal
  <2>3. batch \in SUBSET Relays
    BY DEF Batches, Present
  <2> QED
    BY <1>6, <2>1, <2>2, <2>3, EnqueueType DEF EnterNormal, TypeOK
<1>7. CASE ExpiredPass
  <2>1. PICK due \in SUBSET (Present \ Ignored) :
          \E batch \in Batches(due \ enqueued) :
            /\ row' = [r \in Relays |-> IF r \in batch \cap Malformed
                                        THEN NoRow ELSE row[r]]
            /\ Enqueue(batch \ Malformed)
    BY <1>7 DEF ExpiredPass
  <2>2. PICK batch \in Batches(due \ enqueued) :
            /\ row' = [r \in Relays |-> IF r \in batch \cap Malformed
                                        THEN NoRow ELSE row[r]]
            /\ Enqueue(batch \ Malformed)
    BY <2>1
  <2>3. batch \ Malformed \in SUBSET Relays
    BY DEF Batches, Present
  <2>4. row' \in [Relays -> Rows]
    BY <2>2, RowsOfBoot DEF TypeOK
  <2> QED
    BY <1>7, <2>2, <2>3, <2>4, EnqueueType DEF ExpiredPass, TypeOK
<1>8. ASSUME NEW k \in Slots, NEW r \in Relays, StartCheck(k, r) PROVE TypeOK'
  <2>1. row' \in [Relays -> Rows]
    BY <1>8, RowsOfBoot DEF StartCheck, TypeOK
  <2>2. waiting' \in [Relays -> Nat]
    BY <1>8 DEF StartCheck, TypeOK
  <2>3. enqueued' \subseteq Relays
    BY <1>8 DEF StartCheck, TypeOK
  <2>4. slot' \in [Slots -> Jobs \cup {None}]
    <3>1. (phase = "warmup") \in BOOLEAN
      OBVIOUS
    <3>2. [relay |-> r, warm |-> phase = "warmup"] \in Jobs
      BY <3>1, Zenon DEF Jobs
    <3> QED
      BY <1>8, <3>2 DEF StartCheck, TypeOK
  <2> QED
    BY <1>8, <2>1, <2>2, <2>3, <2>4 DEF StartCheck, TypeOK
<1>9. ASSUME NEW k \in Slots,
             NEW open \in BOOLEAN, NEW fake \in BOOLEAN, NEW dup \in BOOLEAN,
             FinishCheck(k, open, fake, dup)
      PROVE TypeOK'
  <2> DEFINE r == slot[k].relay
             on == open /\ ~fake
             ign == IF fake THEN "fake" ELSE IF dup THEN "other" ELSE "no"
  <2>1. /\ enqueued' \subseteq Relays /\ waiting' = waiting
        /\ slot' \in [Slots -> Jobs \cup {None}]
        /\ r \in Relays
    BY <1>9, ReleaseType DEF FinishCheck
  <2>2. ResultRow(r, on, ign) \in Rows
    BY <2>1, ResultRowType
  <2>3. row' \in [Relays -> Rows]
    BY <1>9, <2>1, <2>2 DEF FinishCheck, TypeOK
  <2>4. mem' \in [Relays -> 0..RetryCap]
    <3>1. Bump(mem[r]) \in 0..RetryCap
      BY <2>1, BumpType DEF TypeOK
    <3> QED
      BY <1>9, <2>1, <3>1 DEF FinishCheck, TypeOK
  <2>5. /\ known' \in [Relays -> {"unknown", "online", "offline"}]
        /\ seenOnline' \subseteq Relays
    BY <1>9, <2>1 DEF FinishCheck, TypeOK
  <2> QED
    BY <1>9, <2>1, <2>3, <2>4, <2>5 DEF FinishCheck, TypeOK
<1>10. ASSUME NEW k \in Slots, CheckThrows(k) PROVE TypeOK'
  <2> DEFINE r == slot[k].relay
  <2>1. /\ enqueued' \subseteq Relays /\ waiting' = waiting
        /\ slot' \in [Slots -> Jobs \cup {None}]
        /\ r \in Relays
    BY <1>10, ReleaseType DEF CheckThrows
  <2>2. Bump(mem[r]) \in 0..RetryCap /\ Bump(row[r].retries) \in 0..RetryCap
    BY <2>1, BumpType DEF TypeOK, Rows
  <2>3. mem' \in [Relays -> 0..RetryCap]
    BY <1>10, <2>1, <2>2 DEF CheckThrows, TypeOK
  <2>4. row' \in [Relays -> Rows]
    <3>1. [row[r] EXCEPT !.retries = Bump(row[r].retries)] \in Rows
      BY <2>1, <2>2, RowUpdates DEF TypeOK
    <3> QED
      BY <1>10, <2>1, <3>1 DEF CheckThrows, TypeOK
  <2> QED
    BY <1>10, <2>1, <2>3, <2>4 DEF CheckThrows, TypeOK
<1>11. ASSUME NEW r \in Relays, RecheckBegin(r) PROVE TypeOK'
  BY <1>11 DEF RecheckBegin, TypeOK, queues
<1>12. CASE RecheckKeeps
  BY <1>12 DEF RecheckKeeps, TypeOK, queues
<1>13. CASE RecheckUnignores
  <2>1. rechecking \in Relays
    BY <1>13 DEF RecheckUnignores, TypeOK
  <2>2. row' \in [Relays -> Rows]
    <3>1. row[rechecking] \in Rows /\ 0 \in 0..RetryCap
      BY <2>1 DEF TypeOK
    <3>2. [row[rechecking] EXCEPT !.ignore = "no", !.retries = 0] \in Rows
      BY <3>1, RowUpdates
    <3> QED
      BY <1>13, <2>1, <3>2 DEF RecheckUnignores, TypeOK
  <2>3. mem' \in [Relays -> 0..RetryCap]
    BY <1>13, <2>1 DEF RecheckUnignores, TypeOK
  <2> QED
    BY <1>13, <2>1, <2>2, <2>3 DEF RecheckUnignores, TypeOK, queues
<1>14. CASE UNCHANGED vars
  BY <1>14 DEF vars, TypeOK
<1> QED
  BY <1>1, <1>2, <1>3, <1>4, <1>5, <1>6, <1>7, <1>8, <1>9, <1>10, <1>11,
     <1>12, <1>13, <1>14
  DEF Next, Starts, Ends, Answers

\* Every variable keeps to its type, whatever the interleaving.
THEOREM TypeCorrect == Spec => []TypeOK
BY TypeInit, TypeStep, PTL DEF Spec
-----------------------------------------------------------------------------
(* The check queue *)

\* Nothing is queued before warmup begins, so that no job of the run is left
\* without the mode it ends in.
BootIdle == phase = "boot" => QueueIdle

JobsInv == OneJobPerRelay /\ WarmupDrains /\ BootIdle

\* In an idle queue no relay counts as enqueued.
LEMMA IdleMeansReleased ==
  ASSUME TypeOK, OneJobPerRelay, QueueIdle
  PROVE  enqueued = {}
<1>1. ASSUME NEW r \in Relays PROVE r \notin enqueued
  BY DEF OneJobPerRelay, QueueIdle, RunningOn
<1> QED
  BY <1>1 DEF TypeOK

\* Relays that are not enqueued may be queued.
LEMMA EnqueueJobs ==
  ASSUME TypeOK, OneJobPerRelay, NEW batch \in SUBSET Relays,
         batch \cap enqueued = {}, Enqueue(batch)
  PROVE  OneJobPerRelay' /\ slot' = slot
<1>1. slot' = slot /\ \A r \in Relays : RunningOn(r)' = RunningOn(r)
  BY DEF Enqueue, RunningOn
<1>2. ASSUME NEW r \in batch
      PROVE  waiting'[r] = 1 /\ RunningOn(r) = {} /\ r \in enqueued'
  <2>1. waiting[r] = 0 /\ RunningOn(r) = {}
    BY DEF OneJobPerRelay, TypeOK
  <2> QED
    BY <2>1 DEF Enqueue
<1>3. ASSUME NEW r \in Relays \ batch
      PROVE  waiting'[r] = waiting[r] /\ (r \in enqueued' <=> r \in enqueued)
  BY DEF Enqueue, TypeOK
<1>4. ASSUME NEW r \in Relays
      PROVE  /\ r \in enqueued' <=> (waiting'[r] > 0 \/ RunningOn(r)' # {})
             /\ waiting'[r] <= 1
             /\ waiting'[r] > 0 => RunningOn(r)' = {}
             /\ \A j, k \in RunningOn(r)' : j = k
  <2>1. CASE r \in batch
    BY <1>1, <1>2, <2>1
  <2>2. CASE r \notin batch
    BY <1>1, <1>3, <2>2 DEF OneJobPerRelay
  <2> QED
    BY <2>1, <2>2
<1> QED
  BY <1>1, <1>4 DEF OneJobPerRelay

\* A job that starts, or is turned away at the gate, keeps the books.
LEMMA StartJobs ==
  ASSUME TypeOK, OneJobPerRelay, NEW k \in Slots, NEW r \in Relays, StartCheck(k, r)
  PROVE  OneJobPerRelay'
<1>1. /\ slot[k] = None /\ waiting[r] = 1 /\ waiting'[r] = 0 /\ RunningOn(r) = {}
      /\ \A s \in Relays \ {r} : waiting'[s] = waiting[s]
  BY DEF StartCheck, OneJobPerRelay, TypeOK
<1>2. CASE r \in blocked \/ Gated(r)
  <2>1. enqueued' = enqueued \ {r} /\ slot' = slot
    BY <1>2 DEF StartCheck
  <2>2. \A s \in Relays : RunningOn(s)' = RunningOn(s)
    BY <2>1 DEF RunningOn
  <2> QED
    BY <1>1, <2>1, <2>2 DEF OneJobPerRelay
<1>3. CASE ~(r \in blocked \/ Gated(r))
  <2>1. /\ enqueued' = enqueued
        /\ slot' = [slot EXCEPT ![k] = [relay |-> r, warm |-> phase = "warmup"]]
    BY <1>3 DEF StartCheck
  <2>2. [relay |-> r, warm |-> phase = "warmup"] # None
    <3>1. (phase = "warmup") \in BOOLEAN
      OBVIOUS
    <3>2. [relay |-> r, warm |-> phase = "warmup"] \in Jobs
      BY <3>1, Zenon DEF Jobs
    <3> QED
      BY <3>2
  <2>3. slot'[k] = [relay |-> r, warm |-> phase = "warmup"]
    BY <2>1 DEF TypeOK
  <2>4. slot'[k] # None /\ slot'[k].relay = r
    BY <2>2, <2>3
  <2>5. \A j \in Slots \ {k} : slot'[j] = slot[j]
    BY <2>1 DEF TypeOK
  <2>6. RunningOn(r)' = {k}
    BY <1>1, <2>4, <2>5 DEF RunningOn
  <2>7. \A s \in Relays \ {r} : RunningOn(s)' = RunningOn(s)
    BY <1>1, <2>4, <2>5 DEF RunningOn
  <2>8. r \in enqueued'
    BY <1>1, <2>1 DEF OneJobPerRelay
  <2> QED
    BY <1>1, <2>1, <2>6, <2>7, <2>8 DEF OneJobPerRelay
<1> QED
  BY <1>2, <1>3

\* A job that ends was the relay's only one.
LEMMA ReleaseJobs ==
  ASSUME TypeOK, OneJobPerRelay, NEW k \in Slots, slot[k] # None, Release(k)
  PROVE  OneJobPerRelay'
<1>0. PICK r \in Relays : r = slot[k].relay
  BY ReleaseType
<1>1. /\ enqueued' = enqueued \ {r} /\ waiting' = waiting /\ slot'[k] = None
      /\ \A j \in Slots \ {k} : slot'[j] = slot[j]
  BY <1>0, ReleaseType DEF Release, TypeOK
<1>2. RunningOn(r) = {k} /\ waiting[r] = 0
  <2>1. k \in RunningOn(r)
    BY <1>0 DEF RunningOn
  <2> QED
    BY <1>1, <2>1 DEF OneJobPerRelay, TypeOK
<1>3. RunningOn(r)' = {}
  BY <1>1, <1>2 DEF RunningOn
<1>4. \A s \in Relays \ {r} : RunningOn(s)' = RunningOn(s)
  BY <1>0, <1>1 DEF RunningOn
<1> QED
  BY <1>1, <1>2, <1>3, <1>4 DEF OneJobPerRelay

LEMMA JobsInit == Init => JobsInv
BY DEF Init, JobsInv, OneJobPerRelay, WarmupDrains, BootIdle, QueueIdle, RunningOn,
       NoneWaiting, AllFree

LEMMA JobsStep == TypeOK /\ JobsInv /\ [Next]_vars => JobsInv'
<1> SUFFICES ASSUME TypeOK, JobsInv, [Next]_vars PROVE JobsInv'
  OBVIOUS
<1> USE DEF JobsInv
<1>1. CASE Restart
  BY <1>1 DEF Restart, OneJobPerRelay, WarmupDrains, BootIdle, QueueIdle,
              RunningOn, NoneWaiting, AllFree
<1>2. ASSUME UNCHANGED <<enqueued, waiting, slot, phase>> PROVE JobsInv'
  BY <1>2 DEF OneJobPerRelay, WarmupDrains, BootIdle, QueueIdle, RunningOn
<1>3. CASE BeginWarmup
  <2>1. \A k \in Slots : slot[k] = None
    BY <1>3 DEF BeginWarmup, BootIdle, QueueIdle
  <2> QED
    BY <1>3, <2>1 DEF BeginWarmup, queues, OneJobPerRelay, WarmupDrains, BootIdle,
                      RunningOn
<1>4. CASE WarmupRound
  <2>1. Unchecked \ Malformed \in SUBSET Relays
    BY DEF Unchecked, Present
  <2>2. OneJobPerRelay' /\ slot' = slot /\ phase' = "warmup" /\ phase = "warmup"
    BY <1>4, <2>1, IdleMeansReleased, EnqueueJobs DEF WarmupRound
  <2> QED
    BY <2>2 DEF WarmupDrains, BootIdle
<1>5. CASE EnterNormal
  <2>1. PICK batch \in Batches(Present \ Malformed) : Enqueue(batch)
    BY <1>5 DEF EnterNormal
  <2>2. batch \in SUBSET Relays
    BY DEF Batches, Present
  <2>3. OneJobPerRelay' /\ slot' = slot /\ phase' = "normal"
    BY <1>5, <2>1, <2>2, IdleMeansReleased, EnqueueJobs DEF EnterNormal
  <2>4. \A k \in Slots : slot[k] = None
    BY <1>5 DEF EnterNormal, QueueIdle
  <2> QED
    BY <2>3, <2>4 DEF WarmupDrains, BootIdle
<1>6. CASE ExpiredPass
  <2>1. PICK due \in SUBSET (Present \ Ignored) :
          \E batch \in Batches(due \ enqueued) : Enqueue(batch \ Malformed)
    BY <1>6 DEF ExpiredPass
  <2>2. PICK batch \in Batches(due \ enqueued) : Enqueue(batch \ Malformed)
    BY <2>1
  <2>3. /\ batch \ Malformed \in SUBSET Relays
        /\ (batch \ Malformed) \cap enqueued = {}
    BY DEF Batches, Present
  <2>4. OneJobPerRelay' /\ slot' = slot /\ phase' = "normal" /\ phase = "normal"
    BY <1>6, <2>2, <2>3, EnqueueJobs DEF ExpiredPass
  <2> QED
    BY <2>4 DEF WarmupDrains, BootIdle
<1>7. ASSUME NEW k \in Slots, NEW r \in Relays, StartCheck(k, r) PROVE JobsInv'
  <2>1. OneJobPerRelay'
    BY <1>7, StartJobs
  <2>2. phase' = phase /\ phase # "boot"
    <3>1. waiting[r] > 0
      BY <1>7 DEF StartCheck
    <3>2. phase # "boot"
      BY <3>1 DEF BootIdle, QueueIdle
    <3> QED
      BY <1>7, <3>2 DEF StartCheck
  <2>3. WarmupDrains'
    <3>1. ASSUME NEW j \in Slots, slot'[j] # None
          PROVE  slot'[j].warm <=> phase' = "warmup"
      <4>1. CASE slot'[j] = slot[j]
        BY <2>2, <3>1, <4>1 DEF WarmupDrains
      <4>2. CASE slot'[j] # slot[j]
        <5>1. slot'[j] = [relay |-> r, warm |-> phase = "warmup"]
          BY <1>7, <4>2 DEF StartCheck, TypeOK
        <5>2. slot'[j].warm = (phase = "warmup")
          BY <5>1
        <5> QED
          BY <2>2, <5>2, Zenon
      <4> QED
        BY <4>1, <4>2
    <3> QED
      BY <3>1 DEF WarmupDrains
  <2> QED
    BY <2>1, <2>2, <2>3 DEF BootIdle
<1>8. ASSUME NEW k \in Slots, slot[k] # None, Release(k), UNCHANGED phase
      PROVE  JobsInv'
  <2>1. OneJobPerRelay'
    BY <1>8, ReleaseJobs
  <2>2. phase # "boot"
    BY <1>8 DEF BootIdle, QueueIdle
  <2>3. WarmupDrains'
    BY <1>8 DEF WarmupDrains, Release, TypeOK
  <2> QED
    BY <1>8, <2>1, <2>2, <2>3 DEF BootIdle
<1>9. ASSUME NEW k \in Slots,
             NEW open \in BOOLEAN, NEW fake \in BOOLEAN, NEW dup \in BOOLEAN,
             FinishCheck(k, open, fake, dup)
      PROVE JobsInv'
  BY <1>8, <1>9 DEF FinishCheck
<1>10. ASSUME NEW k \in Slots, CheckThrows(k) PROVE JobsInv'
  BY <1>8, <1>10 DEF CheckThrows
<1>11. ASSUME NEW r \in Relays, Seed(r) \/ SoftIgnore(r) \/ RecheckBegin(r)
       PROVE  JobsInv'
  BY <1>2, <1>11 DEF Seed, SoftIgnore, RecheckBegin, queues
<1>12. CASE RecheckKeeps \/ RecheckUnignores
  BY <1>2, <1>12 DEF RecheckKeeps, RecheckUnignores, queues
<1>13. CASE UNCHANGED vars
  BY <1>2, <1>13 DEF vars
<1> QED
  BY <1>1, <1>3, <1>4, <1>5, <1>6, <1>7, <1>9, <1>10, <1>11, <1>12, <1>13
  DEF Next, Starts, Ends, Answers

\* No relay ever has two check jobs, and enqueuedRelays holds exactly those
\* that have one.
THEOREM OneJobEach == Spec => []OneJobPerRelay
BY TypeInit, TypeStep, JobsInit, JobsStep, PTL DEF Spec, JobsInv

\* Every check ends in the mode it began in.
THEOREM ChecksKeepTheirMode == Spec => []WarmupDrains
BY TypeInit, TypeStep, JobsInit, JobsStep, PTL DEF Spec, JobsInv
-----------------------------------------------------------------------------
(* The retry counters *)

\* What an online result resets stays reset until the relay is offline, in
\* memory too: a thrown check may only count on a relay with retries in memory.
OnlineReset ==
  \A r \in Relays : row[r].online => row[r].retries = 0 /\ mem[r] = 0

\* A row that does not exist has no retries.
AbsentClean == \A r \in Relays : ~row[r].present => row[r].retries = 0

RetryInv == RetriesBehind /\ OnlineReset /\ AbsentClean

LEMMA BumpBehind ==
  ASSUME NEW m \in 0..RetryCap, NEW n \in 0..RetryCap, n <= m
  PROVE  Bump(n) <= Bump(m)
BY DEF Bump

LEMMA RetryInit == Init => RetryInv
<1> SUFFICES ASSUME Init PROVE RetryInv
  OBVIOUS
<1>1. PICK done \in SUBSET Malformed :
        row = [r \in Relays |-> IF r \in Malformed
                                THEN [NewRow EXCEPT !.checked = r \in done] ELSE NoRow]
  BY DEF Init
<1>2. \A r \in Relays : row[r].retries = 0 /\ ~row[r].online
  BY <1>1 DEF NewRow, NoRow
<1> QED
  BY <1>2 DEF Init, LoadRetries, RetryInv, RetriesBehind, OnlineReset, AbsentClean

\* The counters of one relay change: the invariant holds of the others.
LEMMA RetryOne ==
  ASSUME TypeOK, RetryInv, NEW r \in Relays,
         row'[r].retries <= mem'[r],
         row'[r].online => row'[r].retries = 0 /\ mem'[r] = 0,
         ~row'[r].present => row'[r].retries = 0,
         \A s \in Relays \ {r} : row'[s] = row[s] /\ mem'[s] = mem[s]
  PROVE  RetryInv'
<1>1. \A s \in Relays : row'[s].retries <= mem'[s]
  BY DEF RetryInv, RetriesBehind
<1>2. \A s \in Relays : row'[s].online => row'[s].retries = 0 /\ mem'[s] = 0
  BY DEF RetryInv, OnlineReset
<1>3. \A s \in Relays : ~row'[s].present => row'[s].retries = 0
  BY DEF RetryInv, AbsentClean
<1> QED
  BY <1>1, <1>2, <1>3 DEF RetryInv, RetriesBehind, OnlineReset, AbsentClean

LEMMA RetryStep == TypeOK /\ RetryInv /\ [Next]_vars => RetryInv'
<1> SUFFICES ASSUME TypeOK, RetryInv, [Next]_vars PROVE RetryInv'
  OBVIOUS
<1>1. CASE Restart
  BY <1>1 DEF Restart, LoadRetries, RetryInv, RetriesBehind, OnlineReset, AbsentClean,
              TypeOK, Rows
<1>2. ASSUME UNCHANGED mem,
             \A s \in Relays : \/ /\ row'[s].retries \in {row[s].retries, 0}
                                  /\ row'[s].online = row[s].online
                                  /\ row'[s].present = row[s].present
                               \/ row'[s] = NoRow \/ row'[s] = NewRow
      PROVE  RetryInv'
  <2>1. \A s \in Relays : mem[s] \in 0..RetryCap /\ row[s].retries \in 0..RetryCap
    BY DEF TypeOK, Rows
  <2>2. /\ NoRow.retries = 0 /\ ~NoRow.online
        /\ NewRow.retries = 0 /\ ~NewRow.online
    BY DEF NoRow, NewRow
  <2>3. ASSUME NEW s \in Relays
        PROVE  /\ row'[s].retries <= mem'[s]
               /\ row'[s].online => row'[s].retries = 0 /\ mem'[s] = 0
               /\ ~row'[s].present => row'[s].retries = 0
    BY <1>2, <2>1, <2>2 DEF RetryInv, RetriesBehind, OnlineReset, AbsentClean
  <2> QED
    BY <2>3 DEF RetryInv, RetriesBehind, OnlineReset, AbsentClean
<1>3. ASSUME NEW r \in Relays, Seed(r) \/ SoftIgnore(r) \/ RecheckBegin(r)
      PROVE  RetryInv'
  BY <1>2, <1>3 DEF Seed, SoftIgnore, RecheckBegin, TypeOK, Rows
<1>4. CASE BeginWarmup \/ WarmupRound \/ RecheckKeeps
  BY <1>2, <1>4 DEF BeginWarmup, WarmupRound, RecheckKeeps
<1>5. CASE EnterNormal
  BY <1>2, <1>5 DEF EnterNormal, ResetIfPoisoned, TypeOK, Rows
<1>6. CASE ExpiredPass
  <2>1. UNCHANGED mem /\ \E del \in SUBSET Relays :
          row' = [r \in Relays |-> IF r \in del THEN NoRow ELSE row[r]]
    <3>1. PICK due \in SUBSET (Present \ Ignored) :
            \E batch \in Batches(due \ enqueued) :
              row' = [r \in Relays |-> IF r \in batch \cap Malformed
                                        THEN NoRow ELSE row[r]]
      BY <1>6 DEF ExpiredPass
    <3>2. PICK batch \in Batches(due \ enqueued) :
              row' = [r \in Relays |-> IF r \in batch \cap Malformed
                                        THEN NoRow ELSE row[r]]
      BY <3>1
    <3>3. batch \cap Malformed \in SUBSET Relays
      BY DEF Batches, Present
    <3> QED
      BY <1>6, <3>2, <3>3 DEF ExpiredPass
  <2> QED
    BY <1>2, <2>1
<1>7. ASSUME NEW k \in Slots, NEW r \in Relays, StartCheck(k, r) PROVE RetryInv'
  BY <1>2, <1>7 DEF StartCheck, TypeOK
<1>8. ASSUME NEW k \in Slots,
             NEW open \in BOOLEAN, NEW fake \in BOOLEAN, NEW dup \in BOOLEAN,
             FinishCheck(k, open, fake, dup)
      PROVE RetryInv'
  <2>1. PICK r \in Relays : r = slot[k].relay
    BY <1>8, ReleaseType DEF FinishCheck
  <2> DEFINE ign == IF fake THEN "fake" ELSE IF dup THEN "other" ELSE "no"
  <2>0. PICK on \in BOOLEAN : on = (open /\ ~fake)
    OBVIOUS
  <2>2. /\ row'[r] = ResultRow(r, on, ign)
        /\ mem'[r] = IF on THEN 0 ELSE IF known[r] # "unknown" THEN Bump(mem[r])
                                       ELSE mem[r]
        /\ \A s \in Relays \ {r} : row'[s] = row[s] /\ mem'[s] = mem[s]
    BY <1>8, <2>0, <2>1 DEF FinishCheck, TypeOK
  <2>3. /\ mem[r] \in 0..RetryCap /\ row[r].retries \in 0..RetryCap
        /\ row[r].retries <= mem[r]
    BY DEF TypeOK, Rows, RetryInv, RetriesBehind
  <2>4. CASE on
    BY <2>2, <2>4, RetryOne DEF ResultRow
  <2>5. CASE ~on
    <3>1. Bump(row[r].retries) <= Bump(mem[r])
      BY <2>3, BumpBehind
    <3>2. ~row'[r].online /\ row'[r].present
      BY <2>2, <2>5 DEF ResultRow
    <3>3. row'[r].retries <= mem'[r]
      BY <2>2, <2>3, <2>5, <3>1 DEF ResultRow
    <3> QED
      BY <2>2, <3>2, <3>3, RetryOne
  <2> QED
    BY <2>4, <2>5
<1>9. ASSUME NEW k \in Slots, CheckThrows(k) PROVE RetryInv'
  <2>1. PICK r \in Relays : r = slot[k].relay
    BY <1>9, ReleaseType DEF CheckThrows
  <2>2. CASE ~(mem[r] > 0)
    BY <1>2, <1>9, <2>1, <2>2 DEF CheckThrows
  <2>3. CASE mem[r] > 0
    <3>1. /\ mem[r] \in 0..RetryCap /\ row[r].retries \in 0..RetryCap
          /\ row[r].retries <= mem[r]
          /\ ~row[r].online
      BY <2>3 DEF TypeOK, Rows, RetryInv, RetriesBehind, OnlineReset
    <3>2. Bump(row[r].retries) <= Bump(mem[r]) /\ row[r].retries <= Bump(mem[r])
      BY <3>1, BumpBehind, BumpType
    <3>3. /\ mem'[r] = Bump(mem[r])
          /\ row' = IF row[r].present
                    THEN [row EXCEPT ![r].retries = Bump(@)] ELSE row
          /\ \A s \in Relays \ {r} : row'[s] = row[s] /\ mem'[s] = mem[s]
      BY <1>9, <2>1, <2>3 DEF CheckThrows, TypeOK
    <3>4. CASE row[r].present
      <4>1. row'[r] = [row[r] EXCEPT !.retries = Bump(row[r].retries)]
        BY <3>3, <3>4 DEF TypeOK
      <4>2. /\ row'[r].online = row[r].online /\ row'[r].present = row[r].present
            /\ row'[r].retries = Bump(row[r].retries)
        BY <4>1 DEF TypeOK, Rows
      <4> QED
        BY <3>1, <3>2, <3>3, <3>4, <4>2, RetryOne
    <3>5. CASE ~row[r].present
      <4>1. row'[r] = row[r] /\ row[r].retries = 0
        BY <3>3, <3>5 DEF RetryInv, AbsentClean
      <4> QED
        BY <3>1, <3>2, <3>3, <4>1, RetryOne
    <3> QED
      BY <3>4, <3>5
  <2> QED
    BY <2>2, <2>3
<1>10. CASE RecheckUnignores
  <2>1. PICK r \in Relays : r = rechecking
    BY <1>10 DEF RecheckUnignores, TypeOK
  <2>2. /\ mem'[r] = 0
        /\ row' = IF row[r].present
                  THEN [row EXCEPT ![r].ignore = "no", ![r].retries = 0] ELSE row
        /\ \A s \in Relays \ {r} : mem'[s] = mem[s]
    BY <1>10, <2>1 DEF RecheckUnignores, TypeOK
  <2>3. \A s \in Relays \ {r} : row'[s] = row[s] /\ mem'[s] = mem[s]
    BY <2>2 DEF TypeOK
  <2>4. mem'[r] = 0
    BY <2>2
  <2>5. ASSUME row[r].present PROVE row'[r].retries = 0
    <3>1. row'[r] = [row[r] EXCEPT !.ignore = "no", !.retries = 0]
      BY <2>2, <2>5 DEF TypeOK
    <3>2. row'[r].retries = 0
      BY <3>1 DEF TypeOK, Rows
    <3> QED
      BY <3>2
  <2>6. ASSUME ~row[r].present PROVE row'[r].retries = 0
    BY <2>2, <2>6 DEF RetryInv, AbsentClean
  <2>7. row'[r].retries = 0
    BY <2>5, <2>6
  <2> QED
    BY <2>3, <2>4, <2>7, RetryOne
<1>11. CASE UNCHANGED vars
  BY <1>2, <1>11 DEF vars
<1> QED
  BY <1>1, <1>3, <1>4, <1>5, <1>6, <1>7, <1>8, <1>9, <1>10, <1>11
  DEF Next, Starts, Ends, Answers
\* The retry count in memory is never below the one in the database.
THEOREM RetriesStayBehind == Spec => []RetriesBehind
BY TypeInit, TypeStep, RetryInit, RetryStep, PTL DEF Spec, RetryInv

\* A row that is online has no retries: the rows the retry-poisoning reset
\* looks for do not exist.
LEMMA OnlineFromInv == RetryInv => OnlineHasNoRetries
BY DEF RetryInv, OnlineReset, OnlineHasNoRetries, Present

THEOREM OnlineMeansNoRetries == Spec => []OnlineHasNoRetries
<1>1. RetryInv => OnlineHasNoRetries
  BY OnlineFromInv
<1> QED
  BY <1>1, TypeInit, TypeStep, RetryInit, RetryStep, PTL DEF Spec

-----------------------------------------------------------------------------
(* The ignore gate *)

GateInv == JobsInv /\ GateHolds

LEMMA GateInit == Init => GateHolds
BY DEF Init, GateHolds, AllFree

\* A step that keeps the slots and ignores no row anew keeps the gate.
LEMMA GateQuiet ==
  ASSUME TypeOK, GateHolds, slot' = slot,
         \A s \in Relays : s \in (Ignored \ Unchecked)' => s \in Ignored \ Unchecked
  PROVE  GateHolds'
<1>1. \A k \in Slots : slot[k] # None => slot[k].relay \in Relays
  BY DEF TypeOK, Jobs
<1> QED
  BY <1>1 DEF GateHolds

\* A step after which no slot is taken keeps it as well.
LEMMA GateFree ==
  ASSUME \A k \in Slots : slot'[k] = None
  PROVE  GateHolds'
BY DEF GateHolds

\* The ignored, checked rows of a step that changes only counters or creates
\* and deletes rows.
LEMMA IgnoredRow ==
  ASSUME NEW s \in Relays,
         \/ /\ row'[s].present = row[s].present /\ row'[s].ignore = row[s].ignore
            /\ row'[s].checked = row[s].checked
         \/ row'[s] = NoRow \/ row'[s] = NewRow
  PROVE  s \in (Ignored \ Unchecked)' => s \in Ignored \ Unchecked
BY DEF Ignored, Unchecked, Present, NoRow, NewRow

LEMMA GateStep == TypeOK /\ GateInv /\ [Next]_vars => GateHolds'
<1> SUFFICES ASSUME TypeOK, GateInv, [Next]_vars PROVE GateHolds'
  OBVIOUS
<1> USE DEF GateInv
<1>1. CASE Restart
  BY <1>1, GateFree DEF Restart, AllFree
<1>2. ASSUME NEW r \in Relays, Seed(r) PROVE GateHolds'
  BY <1>2, GateQuiet, IgnoredRow DEF Seed, queues, TypeOK
<1>3. ASSUME NEW r \in Relays, SoftIgnore(r) PROVE GateHolds'
  BY <1>3, GateFree DEF SoftIgnore, queues, JobsInv, BootIdle, QueueIdle
<1>4. CASE BeginWarmup \/ WarmupRound \/ RecheckKeeps
  <2>1. slot' = slot /\ row' = row
    BY <1>4 DEF BeginWarmup, WarmupRound, RecheckKeeps, Enqueue, queues
  <2> QED
    BY <2>1, GateQuiet DEF Ignored, Unchecked, Present
<1>5. CASE EnterNormal
  <2>1. slot' = slot
    BY <1>5 DEF EnterNormal, Enqueue
  <2> QED
    BY <1>5, <2>1, GateFree DEF EnterNormal, QueueIdle
<1>6. CASE ExpiredPass
  <2>1. slot' = slot /\ \E del \in SUBSET Relays :
          row' = [r \in Relays |-> IF r \in del THEN NoRow ELSE row[r]]
    <3>1. PICK due \in SUBSET (Present \ Ignored) :
            \E batch \in Batches(due \ enqueued) :
              /\ row' = [r \in Relays |-> IF r \in batch \cap Malformed
                                          THEN NoRow ELSE row[r]]
              /\ Enqueue(batch \ Malformed)
      BY <1>6 DEF ExpiredPass
    <3>2. PICK batch \in Batches(due \ enqueued) :
              /\ row' = [r \in Relays |-> IF r \in batch \cap Malformed
                                          THEN NoRow ELSE row[r]]
              /\ Enqueue(batch \ Malformed)
      BY <3>1
    <3>3. batch \cap Malformed \in SUBSET Relays
      BY DEF Batches, Present
    <3> QED
      BY <3>2, <3>3 DEF Enqueue
  <2>2. \A s \in Relays : row'[s] = row[s] \/ row'[s] = NoRow
    BY <2>1
  <2> QED
    BY <2>1, <2>2, GateQuiet, IgnoredRow
<1>7. ASSUME NEW k \in Slots, NEW r \in Relays, StartCheck(k, r) PROVE GateHolds'
  <2>1. \A s \in Relays : row'[s] = row[s] \/ row'[s] = NoRow
    BY <1>7 DEF StartCheck, TypeOK
  <2>2. \A s \in Relays : s \in (Ignored \ Unchecked)' => s \in Ignored \ Unchecked
    BY <2>1, IgnoredRow
  <2>3. CASE r \in blocked \/ Gated(r)
    BY <1>7, <2>2, <2>3, GateQuiet DEF StartCheck
  <2>4. CASE ~(r \in blocked \/ Gated(r))
    <3>1. ASSUME NEW j \in Slots, slot'[j] # None
          PROVE  slot'[j].relay \notin (Ignored \ Unchecked)'
      <4>1. CASE j = k
        <5>1. slot'[j].relay = r
          BY <1>7, <2>4, <4>1 DEF StartCheck, TypeOK
        <5>2. r \notin Ignored \ Unchecked
          BY <2>4 DEF Gated
        <5> QED
          BY <2>2, <5>1, <5>2
      <4>2. CASE j # k
        <5>1. slot'[j] = slot[j]
          BY <1>7, <2>4, <4>2 DEF StartCheck, TypeOK
        <5>2. slot[j].relay \in Relays /\ slot[j].relay \notin Ignored \ Unchecked
          BY <3>1, <5>1 DEF TypeOK, Jobs, GateHolds
        <5> QED
          BY <2>2, <5>1, <5>2
      <4> QED
        BY <4>1, <4>2
    <3> QED
      BY <3>1 DEF GateHolds
  <2> QED
    BY <2>3, <2>4
<1>8. ASSUME NEW k \in Slots, slot[k] # None, Release(k),
             \A s \in Relays \ {slot[k].relay} : row'[s] = row[s]
      PROVE  GateHolds'
  <2>1. ASSUME NEW j \in Slots, slot'[j] # None
        PROVE  slot'[j].relay \notin (Ignored \ Unchecked)'
    <3>1. j # k /\ slot'[j] = slot[j]
      BY <1>8, <2>1 DEF Release, TypeOK
    <3>2. PICK s \in Relays : s = slot[j].relay /\ s \notin Ignored \ Unchecked
      BY <2>1, <3>1 DEF TypeOK, Jobs, GateHolds
    <3>3. s # slot[k].relay
      BY <1>8, <2>1, <3>1, <3>2 DEF JobsInv, OneJobPerRelay, RunningOn
    <3>4. row'[s] = row[s]
      BY <1>8, <3>3
    <3> QED
      BY <3>1, <3>2, <3>4, IgnoredRow
  <2> QED
    BY <2>1 DEF GateHolds
<1>9. ASSUME NEW k \in Slots,
             NEW open \in BOOLEAN, NEW fake \in BOOLEAN, NEW dup \in BOOLEAN,
             FinishCheck(k, open, fake, dup)
      PROVE GateHolds'
  BY <1>8, <1>9 DEF FinishCheck, TypeOK
<1>10. ASSUME NEW k \in Slots, CheckThrows(k) PROVE GateHolds'
  BY <1>8, <1>10 DEF CheckThrows, TypeOK
<1>11. ASSUME NEW r \in Relays, RecheckBegin(r) PROVE GateHolds'
  BY <1>11, GateQuiet DEF RecheckBegin, queues, Ignored, Unchecked, Present
<1>12. CASE RecheckUnignores
  <2>1. slot' = slot
    BY <1>12 DEF RecheckUnignores, queues
  <2>2. ASSUME NEW s \in Relays
        PROVE  s \in (Ignored \ Unchecked)' => s \in Ignored \ Unchecked
    <3>1. CASE s = rechecking /\ row[s].present
      <4>1. row'[s] = [row[s] EXCEPT !.ignore = "no", !.retries = 0]
        BY <1>12, <3>1 DEF RecheckUnignores, TypeOK
      <4>2. row'[s].ignore = "no"
        BY <4>1 DEF TypeOK, Rows
      <4> QED
        BY <4>2 DEF Ignored
    <3>2. CASE s # rechecking \/ ~row[s].present
      <4>1. row'[s] = row[s]
        BY <1>12, <3>2 DEF RecheckUnignores, TypeOK
      <4> QED
        BY <4>1, IgnoredRow
    <3> QED
      BY <3>1, <3>2
  <2> QED
    BY <2>1, <2>2, GateQuiet
<1>13. CASE UNCHANGED vars
  BY <1>13, GateQuiet DEF vars, Ignored, Unchecked, Present
<1> QED
  BY <1>1, <1>2, <1>3, <1>4, <1>5, <1>6, <1>7, <1>9, <1>10, <1>11, <1>12, <1>13
  DEF Next, Starts, Ends, Answers

\* The gate of processRelay still holds when the check ends.
THEOREM GateStays == Spec => []GateHolds
<1>1. TypeOK /\ GateInv /\ [Next]_vars => GateInv'
  BY JobsStep, GateStep DEF GateInv
<1>2. Init => GateInv
  BY JobsInit, GateInit DEF GateInv
<1>3. GateInv => GateHolds
  BY DEF GateInv
<1> QED
  BY <1>1, <1>2, <1>3, TypeInit, TypeStep, PTL DEF Spec
\* What IgnoreSticks says of a step.
Sticks ==
  \A r \in Ignored \ Unchecked :
    (r \in Ignored)' \/ (r \notin Present)' \/ r = rechecking

\* Rows that keep their verdict or are gone.
LEMMA SticksQuiet ==
  ASSUME \A s \in Relays : \/ /\ row'[s].present = row[s].present
                              /\ row'[s].ignore = row[s].ignore
                           \/ row'[s] = NoRow
  PROVE  Sticks
BY DEF Sticks, Ignored, Unchecked, Present, NoRow

LEMMA SticksStep == TypeOK /\ GateHolds /\ Next => Sticks
<1> SUFFICES ASSUME TypeOK, GateHolds, Next PROVE Sticks
  OBVIOUS
<1>1. CASE UNCHANGED row
  BY <1>1, SticksQuiet
<1>2. CASE Restart \/ BeginWarmup \/ WarmupRound \/ RecheckKeeps
  BY <1>1, <1>2 DEF Restart, BeginWarmup, WarmupRound, RecheckKeeps
<1>3. ASSUME NEW r \in Relays, Seed(r) PROVE Sticks
  BY <1>3 DEF Seed, Sticks, Ignored, Present, TypeOK
<1>4. ASSUME NEW r \in Relays, SoftIgnore(r) PROVE Sticks
  BY <1>4 DEF SoftIgnore, Sticks, Ignored, Present, TypeOK
<1>5. ASSUME NEW r \in Relays, RecheckBegin(r) PROVE Sticks
  BY <1>1, <1>5 DEF RecheckBegin
<1>6. CASE EnterNormal
  <2>1. row' = row \/ row' = [r \in Relays |-> [row[r] EXCEPT !.retries = 0]]
    BY <1>6 DEF EnterNormal, ResetIfPoisoned
  <2>2. ASSUME NEW s \in Relays, row' = [r \in Relays |-> [row[r] EXCEPT !.retries = 0]]
        PROVE  row'[s].present = row[s].present /\ row'[s].ignore = row[s].ignore
    BY <2>2 DEF TypeOK, Rows
  <2> QED
    BY <1>1, <2>1, <2>2, SticksQuiet
<1>7. CASE ExpiredPass
  <2>1. \E del : row' = [r \in Relays |-> IF r \in del THEN NoRow ELSE row[r]]
    <3>1. PICK due \in SUBSET (Present \ Ignored) :
            \E batch \in Batches(due \ enqueued) :
              row' = [r \in Relays |-> IF r \in batch \cap Malformed
                                       THEN NoRow ELSE row[r]]
      BY <1>7 DEF ExpiredPass
    <3> QED
      BY <3>1
  <2> QED
    BY <2>1, SticksQuiet
<1>8. ASSUME NEW k \in Slots, NEW r \in Relays, StartCheck(k, r) PROVE Sticks
  <2>1. \A s \in Relays : row'[s] = row[s] \/ row'[s] = NoRow
    BY <1>8 DEF StartCheck, TypeOK
  <2> QED
    BY <2>1, SticksQuiet
<1>9. ASSUME NEW k \in Slots,
             NEW open \in BOOLEAN, NEW fake \in BOOLEAN, NEW dup \in BOOLEAN,
             FinishCheck(k, open, fake, dup)
      PROVE Sticks
  <2>1. /\ slot[k].relay \in Relays \ (Ignored \ Unchecked)
        /\ \A s \in Relays \ {slot[k].relay} : row'[s] = row[s]
    BY <1>9, ReleaseType DEF FinishCheck, TypeOK, GateHolds
  <2> QED
    BY <2>1 DEF Sticks, Ignored, Present
<1>10. ASSUME NEW k \in Slots, CheckThrows(k) PROVE Sticks
  <2>1. /\ slot[k].relay \in Relays \ (Ignored \ Unchecked)
        /\ \A s \in Relays \ {slot[k].relay} : row'[s] = row[s]
    BY <1>10, ReleaseType DEF CheckThrows, TypeOK, GateHolds
  <2> QED
    BY <2>1 DEF Sticks, Ignored, Present
<1>11. CASE RecheckUnignores
  <2>1. \A s \in Relays \ {rechecking} : row'[s] = row[s]
    BY <1>11 DEF RecheckUnignores, TypeOK
  <2> QED
    BY <2>1 DEF Sticks, Ignored, Present
<1> QED
  BY <1>2, <1>3, <1>4, <1>5, <1>6, <1>7, <1>8, <1>9, <1>10, <1>11
  DEF Next, Starts, Ends, Answers

\* No check result overwrites an ignore verdict: only the re-evaluation of
\* fake relays does, or the row is deleted.
THEOREM VerdictsStick == Spec => IgnoreSticks
<1>1. TypeOK /\ GateHolds /\ [Next]_vars => [Sticks]_vars
  BY SticksStep
<1> QED
  BY <1>1, TypeCorrect, GateStays, PTL DEF Spec, IgnoreSticks, Sticks

-----------------------------------------------------------------------------
(* The refinement of RelayRows: jobs that wait or run, and re-checks, are    *)
(* still about the rows they were begun for.                                 *)

JobHasRow(r) == r \in Present /\ (phase = "warmup" => r \in Unchecked)
Admitted(r) ==
  /\ JobHasRow(r) /\ r \notin blocked
  /\ phase = "normal" => r \notin Ignored
StillFake(r) ==
  /\ phase = "normal"
  /\ IF row[r].present THEN row[r].ignore = "fake" ELSE r \in blocked

RowsInv ==
  /\ \A r \in Relays : waiting[r] > 0 => JobHasRow(r)
  /\ \A k \in Slots : slot[k] # None => Admitted(slot[k].relay)
  /\ rechecking # None => StillFake(rechecking)
  /\ phase = "normal" => Ignored \cap Unchecked = {}

\* The relays with a job, and the one that is re-checked, keep their rows.
KeepsRow(s) ==
  /\ row'[s].present = row[s].present /\ row'[s].checked = row[s].checked
  /\ row'[s].ignore = row[s].ignore

LEMMA KeptMeans ==
  ASSUME NEW s \in Relays, KeepsRow(s), phase' = phase, blocked' = blocked
  PROVE  /\ JobHasRow(s) => JobHasRow(s)'
         /\ Admitted(s) => Admitted(s)'
         /\ StillFake(s) => StillFake(s)'
         /\ s \in (Ignored \cap Unchecked)' => s \in Ignored \cap Unchecked
BY DEF KeepsRow, JobHasRow, Admitted, StillFake, Present, Ignored, Unchecked

\* What a slot and a re-check are about.
LEMMA SlotRelay ==
  ASSUME TypeOK, NEW k \in Slots, slot[k] # None
  PROVE  slot[k].relay \in Relays /\ k \in RunningOn(slot[k].relay)
BY DEF TypeOK, Jobs, RunningOn

\* A step that gives no relay a new job keeps the invariant if it keeps the
\* rows of those that have one.
LEMMA RowsQuiet ==
  ASSUME TypeOK, RowsInv, phase' = phase, blocked' = blocked,
         \A s \in Relays : waiting'[s] > 0 => waiting[s] > 0 /\ KeepsRow(s),
         \A k \in Slots : slot'[k] # None => slot'[k] = slot[k] /\ KeepsRow(slot[k].relay),
         rechecking' # None => rechecking' = rechecking /\ KeepsRow(rechecking),
         phase = "normal" => (Ignored \cap Unchecked)' = {}
  PROVE  RowsInv'
<1>1. \A s \in Relays : waiting'[s] > 0 => JobHasRow(s)'
  BY KeptMeans DEF RowsInv
<1>2. ASSUME NEW k \in Slots, slot'[k] # None PROVE Admitted(slot[k].relay)'
  <2>1. PICK s \in Relays : s = slot[k].relay /\ slot'[k].relay = s
    BY <1>2, SlotRelay
  <2>2. Admitted(s) /\ KeepsRow(s)
    BY <1>2, <2>1 DEF RowsInv
  <2>3. Admitted(s)'
    BY <2>2, KeptMeans
  <2> QED
    BY <2>1, <2>3
<1>3. ASSUME rechecking' # None PROVE StillFake(rechecking)'
  <2>1. PICK s \in Relays : s = rechecking /\ rechecking' = s
    BY <1>3 DEF TypeOK
  <2>2. StillFake(s) /\ KeepsRow(s)
    BY <1>3, <2>1 DEF RowsInv
  <2>3. StillFake(s)'
    BY <2>2, KeptMeans
  <2> QED
    BY <2>1, <2>3
<1>4. (phase = "normal" => Ignored \cap Unchecked = {})'
  OBVIOUS
<1> QED
  BY <1>1, <1>2, <1>3, <1>4 DEF RowsInv

LEMMA RowsInit == Init => RowsInv
BY DEF Init, RowsInv, NoneWaiting, AllFree

\* A step that begins with an idle queue and no re-check.
LEMMA RowsIdle ==
  ASSUME TypeOK, QueueIdle, slot' = slot, rechecking = None, rechecking' = None,
         \A r \in Relays : waiting'[r] > 0 => waiting[r] > 0 \/ JobHasRow(r)',
         (phase = "normal" => Ignored \cap Unchecked = {})'
  PROVE  RowsInv'
BY DEF RowsInv, QueueIdle

\* The job that ends was its relay's only one; the rows of the others are kept.
LEMMA RowsRelease ==
  ASSUME TypeOK, JobsInv, RowsInv, NEW k \in Slots, slot[k] # None, Release(k),
         phase' = phase, blocked' = blocked, rechecking' = rechecking,
         \A s \in Relays \ {slot[k].relay} : KeepsRow(s),
         rechecking = slot[k].relay => KeepsRow(rechecking),
         phase = "normal" => (Ignored \cap Unchecked)' = {}
  PROVE  RowsInv'
<1>1. PICK r \in Relays : r = slot[k].relay /\ k \in RunningOn(r)
  BY SlotRelay
<1>2. waiting' = waiting /\ ~(waiting[r] > 0)
  BY <1>1 DEF Release, JobsInv, OneJobPerRelay
<1>3. \A s \in Relays : waiting'[s] > 0 => waiting[s] > 0 /\ KeepsRow(s)
  BY <1>1, <1>2
<1>4. ASSUME NEW j \in Slots, slot'[j] # None
      PROVE  slot'[j] = slot[j] /\ KeepsRow(slot[j].relay)
  <2>1. j # k /\ slot'[j] = slot[j]
    BY <1>4 DEF Release, TypeOK
  <2>2. PICK s \in Relays : s = slot[j].relay /\ j \in RunningOn(s)
    BY <1>4, <2>1, SlotRelay
  <2>3. s # r
    BY <1>1, <2>1, <2>2 DEF JobsInv, OneJobPerRelay
  <2> QED
    BY <1>1, <2>1, <2>2, <2>3
<1>5. rechecking' # None => rechecking' = rechecking /\ KeepsRow(rechecking)
  BY <1>1 DEF TypeOK
<1> QED
  BY <1>3, <1>4, <1>5, RowsQuiet

\* A check that ends in normal operation is not of the relay re-checked.
LEMMA NotRechecked ==
  ASSUME TypeOK, RowsInv, NEW k \in Slots, slot[k] # None
  PROVE  rechecking # slot[k].relay
<1>1. PICK r \in Relays : r = slot[k].relay /\ Admitted(r)
  BY SlotRelay DEF RowsInv
<1>2. r # None
  BY <1>1
<1>3. StillFake(r) => r \in Ignored
  BY <1>1 DEF StillFake, Admitted, JobHasRow, Present, Ignored
<1>4. ~StillFake(r)
  BY <1>1, <1>3 DEF Admitted, StillFake
<1> QED
  BY <1>1, <1>2, <1>4 DEF RowsInv

LEMMA RowsStart ==
  ASSUME TypeOK, JobsInv, RowsInv, NEW k \in Slots, NEW r \in Relays, StartCheck(k, r)
  PROVE  RowsInv'
<1>1. /\ ~(waiting'[r] > 0) /\ RunningOn(r) = {} /\ JobHasRow(r)
      /\ \A s \in Relays \ {r} : waiting'[s] = waiting[s] /\ row'[s] = row[s]
      /\ phase' = phase /\ blocked' = blocked /\ rechecking' = rechecking
      /\ slot[k] = None
  BY DEF StartCheck, JobsInv, OneJobPerRelay, TypeOK, RowsInv
<1>2. \A s \in Relays : waiting'[s] > 0 => JobHasRow(s)'
  <2>1. ASSUME NEW s \in Relays, waiting'[s] > 0 PROVE JobHasRow(s)'
    <3>1. s # r /\ JobHasRow(s) /\ KeepsRow(s)
      BY <1>1, <2>1 DEF RowsInv, KeepsRow
    <3> QED
      BY <1>1, <3>1, KeptMeans
  <2> QED
    BY <2>1
<1>3. rechecking' # None => StillFake(rechecking)'
  <2>1. ASSUME rechecking' # None PROVE StillFake(rechecking)'
    <3>1. PICK s \in Relays : s = rechecking /\ rechecking' = s /\ StillFake(s)
      BY <1>1, <2>1 DEF TypeOK, RowsInv
    <3>2. CASE row'[s] = row[s]
      <4>1. StillFake(s)'
        BY <1>1, <3>1, <3>2 DEF StillFake
      <4> QED
        BY <3>1, <4>1
    <3>3. CASE row'[s] # row[s]
      <4>1. s = r /\ r \in blocked /\ row'[s] = NoRow
        BY <1>1, <3>3 DEF StartCheck, TypeOK
      <4>2. StillFake(s)'
        BY <1>1, <3>1, <4>1 DEF StillFake, NoRow
      <4> QED
        BY <3>1, <4>2
    <3> QED
      BY <3>2, <3>3
  <2> QED
    BY <2>1
<1>4. (phase = "normal" => Ignored \cap Unchecked = {})'
  <2>1. \A s \in Relays : row'[s] = row[s] \/ row'[s] = NoRow
    BY DEF StartCheck, TypeOK
  <2> QED
    BY <1>1, <2>1 DEF RowsInv, Ignored, Unchecked, Present, NoRow
<1>5. ASSUME NEW j \in Slots, slot'[j] # None PROVE Admitted(slot[j].relay)'
  <2>1. CASE slot'[j] = slot[j]
    <3>1. PICK s \in Relays : s = slot[j].relay /\ slot'[j].relay = s /\ j \in RunningOn(s)
      BY <1>5, <2>1, SlotRelay
    <3>2. s # r /\ Admitted(s)
      BY <1>1, <1>5, <2>1, <3>1 DEF RowsInv
    <3>3. KeepsRow(s)
      BY <1>1, <3>2 DEF KeepsRow
    <3>4. Admitted(s)'
      BY <1>1, <3>2, <3>3, KeptMeans
    <3> QED
      BY <3>1, <3>4
  <2>2. CASE slot'[j] # slot[j]
    <3>1. ~(r \in blocked \/ Gated(r)) /\ slot'[j].relay = r
      BY <2>2 DEF StartCheck, TypeOK
    <3>2. row' = row
      BY <3>1 DEF StartCheck
    <3>3. Admitted(r)
      BY <1>1, <3>1 DEF Admitted, Gated
    <3>4. Admitted(r)'
      BY <1>1, <3>2, <3>3 DEF Admitted, JobHasRow, Present, Ignored, Unchecked
    <3> QED
      BY <3>1, <3>4
  <2> QED
    BY <2>1, <2>2
<1> QED
  BY <1>2, <1>3, <1>4, <1>5 DEF RowsInv

LEMMA RowsStep == TypeOK /\ JobsInv /\ RowsInv /\ [Next]_vars => RowsInv'
<1> SUFFICES ASSUME TypeOK, JobsInv, RowsInv, [Next]_vars PROVE RowsInv'
  OBVIOUS
<1>0. phase # "normal" => rechecking = None
  BY DEF RowsInv, StillFake
<1>1. CASE Restart
  BY <1>1 DEF Restart, RowsInv, NoneWaiting, AllFree
<1>2. ASSUME NEW r \in Relays, Seed(r) PROVE RowsInv'
  <2>1. /\ row'[r] = NewRow /\ \A s \in Relays \ {r} : row'[s] = row[s]
        /\ ~row[r].present /\ r \notin blocked
        /\ UNCHANGED <<blocked, phase, waiting, slot, rechecking>>
    BY <1>2 DEF Seed, TypeOK, queues
  <2>2. \A s \in Relays : waiting[s] > 0 => KeepsRow(s)
    BY <2>1 DEF RowsInv, JobHasRow, Present, KeepsRow
  <2>3. \A k \in Slots : slot[k] # None => KeepsRow(slot[k].relay)
    BY <2>1, SlotRelay DEF RowsInv, Admitted, JobHasRow, Present, KeepsRow
  <2>4. rechecking # None => KeepsRow(rechecking)
    BY <2>1 DEF RowsInv, StillFake, KeepsRow, TypeOK
  <2>5. phase = "normal" => (Ignored \cap Unchecked)' = {}
    BY <2>1 DEF RowsInv, Ignored, Unchecked, Present, NewRow, NoRow
  <2> QED
    BY <2>1, <2>2, <2>3, <2>4, <2>5, RowsQuiet
<1>3. ASSUME NEW r \in Relays, SoftIgnore(r) PROVE RowsInv'
  BY <1>0, <1>3, RowsIdle DEF SoftIgnore, queues, JobsInv, BootIdle
<1>4. CASE BeginWarmup
  <2>1. phase = "boot" /\ phase' = "warmup" /\ UNCHANGED <<waiting, slot, rechecking>>
    BY <1>4 DEF BeginWarmup, queues
  <2> QED
    BY <1>0, <2>1, RowsIdle DEF JobsInv, BootIdle
<1>5. CASE WarmupRound
  <2>1. \A r \in Relays : waiting'[r] > 0 => r \in Unchecked
    BY <1>5 DEF WarmupRound, Enqueue, QueueIdle
  <2>2. /\ phase = "warmup" /\ QueueIdle /\ slot' = slot
        /\ UNCHANGED <<row, phase, rechecking>>
    BY <1>5 DEF WarmupRound, Enqueue
  <2>3. \A r \in Relays : waiting'[r] > 0 => JobHasRow(r)'
    BY <2>1, <2>2 DEF JobHasRow, Unchecked, Present
  <2> QED
    BY <1>0, <2>2, <2>3, RowsIdle
<1>6. CASE EnterNormal
  <2>1. /\ phase = "warmup" /\ phase' = "normal" /\ QueueIdle /\ slot' = slot
        /\ rechecking' = rechecking /\ Unchecked = {}
        /\ \A s \in Relays : KeepsRow(s)
    <3>1. row' = row \/ row' = [r \in Relays |-> [row[r] EXCEPT !.retries = 0]]
      BY <1>6 DEF EnterNormal, ResetIfPoisoned
    <3>2. \A s \in Relays : KeepsRow(s)
      BY <3>1 DEF KeepsRow, TypeOK, Rows
    <3> QED
      BY <1>6, <3>2 DEF EnterNormal, Enqueue
  <2>2. PICK batch \in Batches(Present \ Malformed) : Enqueue(batch)
    BY <1>6 DEF EnterNormal
  <2>3. \A r \in Relays : waiting'[r] > 0 => r \in Present
    BY <2>1, <2>2 DEF Enqueue, QueueIdle, Batches
  <2>4. \A r \in Relays : waiting'[r] > 0 => JobHasRow(r)'
    BY <2>1, <2>3 DEF JobHasRow, Present, KeepsRow
  <2>5. (Ignored \cap Unchecked)' = {}
    BY <2>1 DEF KeepsRow, Ignored, Unchecked, Present
  <2> QED
    BY <1>0, <2>1, <2>4, <2>5, RowsIdle
<1>7. CASE ExpiredPass
  <2>1. PICK due \in SUBSET (Present \ Ignored) :
          \E batch \in Batches(due \ enqueued) :
            /\ row' = [r \in Relays |-> IF r \in batch \cap Malformed
                                        THEN NoRow ELSE row[r]]
            /\ Enqueue(batch \ Malformed)
    BY <1>7 DEF ExpiredPass
  <2>2. PICK batch \in Batches(due \ enqueued) :
            /\ row' = [r \in Relays |-> IF r \in batch \cap Malformed
                                        THEN NoRow ELSE row[r]]
            /\ Enqueue(batch \ Malformed)
    BY <2>1
  <2>3. /\ phase = "normal" /\ phase' = phase /\ blocked' = blocked
        /\ slot' = slot /\ rechecking' = rechecking
    BY <1>7, <2>2 DEF ExpiredPass, Enqueue
  <2>4. batch \subseteq (Present \ Ignored) \ enqueued
    BY DEF Batches
  <2>5. \A s \in Relays : s \notin batch \cap Malformed => row'[s] = row[s] /\ KeepsRow(s)
    BY <2>2 DEF KeepsRow
  <2>6. ASSUME NEW s \in Relays, waiting'[s] > 0 PROVE JobHasRow(s)'
    <3>1. s \in Present /\ s \notin batch \cap Malformed
      <4>1. CASE s \in batch \ Malformed
        BY <2>4, <4>1
      <4>2. CASE s \notin batch \ Malformed
        <5>1. waiting[s] > 0
          BY <2>2, <2>6, <4>2 DEF Enqueue, TypeOK
        <5>2. s \in enqueued /\ s \in Present
          BY <5>1 DEF JobsInv, OneJobPerRelay, RowsInv, JobHasRow
        <5> QED
          BY <2>4, <5>2
      <4> QED
        BY <4>1, <4>2
    <3> QED
      BY <2>3, <2>5, <3>1 DEF JobHasRow, Present
  <2>7. ASSUME NEW k \in Slots, slot[k] # None PROVE Admitted(slot[k].relay)'
    <3>1. PICK s \in Relays : s = slot[k].relay /\ slot'[k].relay = s /\ k \in RunningOn(s)
      BY <2>3, <2>7, SlotRelay
    <3>2. s \in enqueued /\ Admitted(s)
      BY <2>7, <3>1 DEF JobsInv, OneJobPerRelay, RowsInv
    <3>3. KeepsRow(s)
      BY <2>4, <2>5, <3>2
    <3>4. Admitted(s)'
      BY <2>3, <3>2, <3>3, KeptMeans
    <3> QED
      BY <3>1, <3>4
  <2>8. ASSUME rechecking # None PROVE StillFake(rechecking)'
    <3>1. PICK s \in Relays : s = rechecking /\ rechecking' = s /\ StillFake(s)
      BY <2>3, <2>8 DEF TypeOK, RowsInv
    <3>2. s \notin batch
      BY <2>4, <3>1 DEF StillFake, Present, Ignored
    <3>3. StillFake(s)'
      BY <2>3, <2>5, <3>1, <3>2, KeptMeans
    <3> QED
      BY <3>1, <3>3
  <2>9. (Ignored \cap Unchecked)' = {}
    BY <2>2, <2>3 DEF RowsInv, Ignored, Unchecked, Present, NoRow
  <2> QED
    BY <2>3, <2>6, <2>7, <2>8, <2>9 DEF RowsInv
<1>8. ASSUME NEW k \in Slots, NEW r \in Relays, StartCheck(k, r) PROVE RowsInv'
  BY <1>8, RowsStart
<1>9. ASSUME NEW k \in Slots,
             NEW open \in BOOLEAN, NEW fake \in BOOLEAN, NEW dup \in BOOLEAN,
             FinishCheck(k, open, fake, dup)
      PROVE RowsInv'
  <2>1. PICK r \in Relays : r = slot[k].relay
    BY <1>9, SlotRelay DEF FinishCheck
  <2>2. /\ row'[r].checked /\ \A s \in Relays \ {r} : row'[s] = row[s]
        /\ UNCHANGED <<blocked, phase, rechecking>> /\ slot[k] # None /\ Release(k)
    BY <1>9, <2>1 DEF FinishCheck, ResultRow, TypeOK
  <2>3. \A s \in Relays \ {r} : KeepsRow(s)
    BY <2>2 DEF KeepsRow
  <2>4. phase = "normal" => (Ignored \cap Unchecked)' = {}
    BY <2>2 DEF RowsInv, Ignored, Unchecked, Present
  <2> QED
    BY <2>1, <2>2, <2>3, <2>4, NotRechecked, RowsRelease
<1>10. ASSUME NEW k \in Slots, CheckThrows(k) PROVE RowsInv'
  <2>1. PICK r \in Relays : r = slot[k].relay
    BY <1>10, SlotRelay DEF CheckThrows
  <2>2. /\ row' = row \/ row' = [row EXCEPT ![r].retries = Bump(@)]
        /\ UNCHANGED <<blocked, phase, rechecking>> /\ slot[k] # None /\ Release(k)
    BY <1>10, <2>1 DEF CheckThrows
  <2>3. \A s \in Relays : KeepsRow(s)
    BY <2>2 DEF KeepsRow, TypeOK, Rows
  <2>4. phase = "normal" => (Ignored \cap Unchecked)' = {}
    BY <2>2, <2>3 DEF RowsInv, KeepsRow, Ignored, Unchecked, Present
  <2> QED
    BY <2>1, <2>2, <2>3, <2>4, RowsRelease
<1>11. ASSUME NEW r \in Relays, RecheckBegin(r) PROVE RowsInv'
  <2>1. /\ phase = "normal" /\ row[r].present /\ row[r].ignore = "fake"
        /\ UNCHANGED <<row, blocked, phase, waiting, slot>> /\ rechecking' = r
    BY <1>11 DEF RecheckBegin, Ignored, Present, queues
  <2>2. StillFake(r)'
    BY <2>1 DEF StillFake
  <2>3. StillFake(rechecking)'
    BY <2>1, <2>2
  <2>4. \A s \in Relays : (JobHasRow(s) => JobHasRow(s)') /\ (Admitted(s) => Admitted(s)')
    BY <2>1 DEF JobHasRow, Admitted, Present, Unchecked, Ignored
  <2>5. ASSUME NEW k \in Slots, slot'[k] # None PROVE Admitted(slot[k].relay)'
    <3>1. PICK s \in Relays : s = slot[k].relay /\ slot'[k].relay = s /\ Admitted(s)
      BY <2>1, <2>5, SlotRelay DEF RowsInv
    <3> QED
      BY <2>4, <3>1
  <2>6. \A s \in Relays : waiting'[s] > 0 => JobHasRow(s)'
    BY <2>1, <2>4 DEF RowsInv
  <2>7. (phase = "normal" => Ignored \cap Unchecked = {})'
    BY <2>1 DEF RowsInv, Ignored, Unchecked, Present
  <2> QED
    BY <2>3, <2>5, <2>6, <2>7 DEF RowsInv
<1>12. CASE RecheckKeeps \/ UNCHANGED vars
  <2>1. /\ UNCHANGED <<row, blocked, phase, waiting, slot>>
        /\ rechecking' \in {None, rechecking}
    BY <1>12 DEF RecheckKeeps, vars, queues
  <2>2. \A s \in Relays : KeepsRow(s)
    BY <2>1 DEF KeepsRow
  <2>3. phase = "normal" => (Ignored \cap Unchecked)' = {}
    BY <2>1 DEF RowsInv, Ignored, Unchecked, Present
  <2> QED
    BY <2>1, <2>2, <2>3, SlotRelay, RowsQuiet DEF TypeOK
<1>13. CASE RecheckUnignores
  <2>1. PICK r \in Relays : r = rechecking
    BY <1>13 DEF RecheckUnignores, TypeOK
  <2>2. /\ UNCHANGED <<blocked, phase, waiting, slot>> /\ rechecking' = None
        /\ row' = IF row[r].present
                  THEN [row EXCEPT ![r].ignore = "no", ![r].retries = 0] ELSE row
    BY <1>13, <2>1 DEF RecheckUnignores, queues
  <2>3. \A s \in Relays : /\ row'[s].present = row[s].present
                          /\ row'[s].checked = row[s].checked
                          /\ row'[s].ignore \in {row[s].ignore, "no"}
    BY <2>2 DEF TypeOK, Rows
  <2>4. \A s \in Relays : (JobHasRow(s) => JobHasRow(s)') /\ (Admitted(s) => Admitted(s)')
    BY <2>2, <2>3 DEF JobHasRow, Admitted, Present, Unchecked, Ignored
  <2>5. ASSUME NEW k \in Slots, slot'[k] # None PROVE Admitted(slot[k].relay)'
    <3>1. PICK s \in Relays : s = slot[k].relay /\ slot'[k].relay = s /\ Admitted(s)
      BY <2>2, <2>5, SlotRelay DEF RowsInv
    <3> QED
      BY <2>4, <3>1
  <2>6. \A s \in Relays : waiting'[s] > 0 => JobHasRow(s)'
    BY <2>2, <2>4 DEF RowsInv
  <2>7. (phase = "normal" => Ignored \cap Unchecked = {})'
    BY <2>2, <2>3 DEF RowsInv, Ignored, Unchecked, Present
  <2> QED
    BY <2>2, <2>5, <2>6, <2>7 DEF RowsInv
<1> QED
  BY <1>1, <1>2, <1>3, <1>4, <1>5, <1>6, <1>7, <1>8, <1>9, <1>10, <1>11,
     <1>12, <1>13
  DEF Next, Starts, Ends, Answers

LEMMA TableInit == Init => Table!Init
<1> SUFFICES ASSUME Init PROVE Table!Init
  OBVIOUS
<1>1. PICK done \in SUBSET Malformed :
        row = [r \in Relays |-> IF r \in Malformed
                                THEN [NewRow EXCEPT !.checked = r \in done] ELSE NoRow]
  BY DEF Init
<1>2. \A r \in Relays : row[r].ignore = "no"
  BY <1>1 DEF NewRow, NoRow
<1>3. RowStatus \in [Relays -> Table!Statuses]
  BY <1>2 DEF RowStatus, StatusOf, Table!Statuses
<1> QED
  BY <1>3 DEF Init, Table!Init, RunPhase

\* The status of the relays after a step that writes one row, or none.
LEMMA StatusSame ==
  ASSUME \A s \in Relays : KeepsRow(s)
  PROVE  RowStatus' = RowStatus
BY DEF RowStatus, StatusOf, KeepsRow

LEMMA StatusOne ==
  ASSUME NEW r \in Relays, NEW v, StatusOf(r)' = v,
         \A s \in Relays \ {r} : row'[s] = row[s]
  PROVE  RowStatus' = [RowStatus EXCEPT ![r] = v]
<1>1. \A s \in Relays \ {r} : StatusOf(s)' = StatusOf(s)
  BY DEF StatusOf
<1> QED
  BY <1>1 DEF RowStatus

LEMMA StatusGone ==
  ASSUME NEW S, row' = [r \in Relays |-> IF r \in S THEN NoRow ELSE row[r]]
  PROVE  RowStatus' = [r \in Relays |-> IF r \in S THEN "gone" ELSE RowStatus[r]]
BY DEF RowStatus, StatusOf, NoRow

\* A check that may write its result is one RelayRows lets begin and end.
LEMMA AdmittedCheckable ==
  ASSUME TypeOK, NEW r \in Relays, Admitted(r), phase \in {"warmup", "normal"}
  PROVE  r \in Table!Checkable \ blocked
<1>1. row[r].present /\ r \notin blocked /\ RowStatus[r] = StatusOf(r)
  BY DEF Admitted, JobHasRow, Present, RowStatus
<1>2. CASE phase = "warmup"
  BY <1>1, <1>2 DEF Admitted, JobHasRow, Unchecked, StatusOf, Table!Checkable,
                    Table!Fresh, RunPhase
<1>3. CASE phase = "normal"
  BY <1>1, <1>3 DEF Admitted, Ignored, Present, StatusOf, Table!Checkable, RunPhase
<1> QED
  BY <1>2, <1>3

LEMMA TableStep ==
  ASSUME TypeOK, JobsInv, RowsInv, [Next]_vars
  PROVE  [Table!Next]_(Table!vars)
<1>0. ASSUME \A s \in Relays : KeepsRow(s), RunPhase' = RunPhase, blocked' = blocked
      PROVE  UNCHANGED Table!vars
  BY <1>0, StatusSame DEF Table!vars
<1>00. ASSUME UNCHANGED row PROVE \A s \in Relays : KeepsRow(s)
  BY <1>00 DEF KeepsRow
<1>1. CASE Restart
  <2>1. RowStatus' = RowStatus
    BY <1>1, StatusSame DEF Restart, KeepsRow
  <2> QED
    BY <1>1, <2>1 DEF Restart, Table!Next, Table!Restart, RunPhase
<1>2. ASSUME NEW r \in Relays, Seed(r) PROVE Table!Next
  <2>1. StatusOf(r)' = "new" /\ \A s \in Relays \ {r} : row'[s] = row[s]
    BY <1>2 DEF Seed, StatusOf, NewRow, NoRow, TypeOK
  <2>2. RowStatus' = [RowStatus EXCEPT ![r] = "new"]
    BY <2>1, StatusOne
  <2>3. RowStatus[r] = "gone"
    BY <1>2 DEF Seed, RowStatus, StatusOf
  <2>4. Table!Seed(r)
    BY <1>2, <2>2, <2>3 DEF Seed, Table!Seed, RunPhase
  <2> QED
    BY <2>4 DEF Table!Next
<1>3. ASSUME NEW r \in Relays, SoftIgnore(r) PROVE [Table!Next]_(Table!vars)
  <2>1. /\ row[r].present /\ phase = "boot" /\ UNCHANGED <<phase, blocked>>
        /\ row'[r] = [row[r] EXCEPT !.ignore = "other"]
        /\ \A s \in Relays \ {r} : row'[s] = row[s]
    BY <1>3 DEF SoftIgnore, Present, Ignored, TypeOK
  <2>2. row'[r].present /\ row'[r].checked = row[r].checked /\ row'[r].ignore = "other"
    BY <2>1 DEF TypeOK, Rows
  <2>3. CASE row[r].checked
    <3>1. StatusOf(r)' = "other"
      BY <2>2, <2>3 DEF StatusOf
    <3>2. RowStatus' = [RowStatus EXCEPT ![r] = "other"]
      BY <2>1, <3>1, StatusOne
    <3>3. StatusOf(r) \notin {"gone", "new"}
      BY <2>1, <2>3 DEF StatusOf, TypeOK, Rows
    <3>4. RowStatus[r] # "gone" /\ r \notin Table!Fresh
      BY <3>3 DEF Table!Fresh, RowStatus
    <3>5. Table!Sweep(r)
      BY <2>1, <3>2, <3>4 DEF Table!Sweep, RunPhase
    <3> QED
      BY <3>5 DEF Table!Next
  <2>4. CASE ~row[r].checked
    <3>1. StatusOf(r)' = "new" /\ StatusOf(r) = "new"
      BY <2>1, <2>2, <2>4 DEF StatusOf
    <3>2. RowStatus' = RowStatus
      <4>1. \A s \in Relays : StatusOf(s)' = StatusOf(s)
        BY <2>1, <3>1 DEF StatusOf
      <4> QED
        BY <4>1 DEF RowStatus
    <3> QED
      BY <2>1, <3>2 DEF Table!vars, RunPhase
  <2> QED
    BY <2>3, <2>4
<1>4. CASE BeginWarmup \/ WarmupRound
  BY <1>0, <1>00, <1>4 DEF BeginWarmup, WarmupRound, RunPhase
<1>5. CASE EnterNormal
  <2>1. \A s \in Relays : KeepsRow(s)
    <3>1. row' = row \/ row' = [r \in Relays |-> [row[r] EXCEPT !.retries = 0]]
      BY <1>5 DEF EnterNormal, ResetIfPoisoned
    <3> QED
      BY <3>1 DEF KeepsRow, TypeOK, Rows
  <2>2. Table!Fresh = {}
    BY <1>5 DEF EnterNormal, Unchecked, Present, Table!Fresh, RowStatus, StatusOf, TypeOK, Rows
  <2>3. Table!EnterNormal
    BY <1>5, <2>1, <2>2, StatusSame DEF EnterNormal, Table!EnterNormal, RunPhase
  <2> QED
    BY <2>3 DEF Table!Next
<1>6. CASE ExpiredPass
  <2>1. PICK S \in SUBSET Malformed :
          row' = [r \in Relays |-> IF r \in S THEN NoRow ELSE row[r]]
    <3>1. PICK due \in SUBSET (Present \ Ignored) :
            \E batch \in Batches(due \ enqueued) :
              row' = [r \in Relays |-> IF r \in batch \cap Malformed
                                        THEN NoRow ELSE row[r]]
      BY <1>6 DEF ExpiredPass
    <3> QED
      BY <3>1
  <2>2. Table!Drop(S)
    BY <1>6, <2>1, StatusGone DEF ExpiredPass, Table!Drop, RunPhase
  <2> QED
    BY <2>2 DEF Table!Next
<1>7. ASSUME NEW k \in Slots, NEW r \in Relays, StartCheck(k, r)
      PROVE  [Table!Next]_(Table!vars)
  <2>1. CASE r \in blocked
    <3>1. row' = [s \in Relays |-> IF s \in {r} THEN NoRow ELSE row[s]]
      BY <1>7, <2>1 DEF StartCheck, TypeOK
    <3>2. Table!Drop({r})
      BY <1>7, <3>1, StatusGone DEF StartCheck, Table!Drop, RunPhase
    <3> QED
      BY <2>1, <3>2 DEF Table!Next
  <2>2. CASE r \notin blocked
    BY <1>0, <1>00, <1>7, <2>2 DEF StartCheck, RunPhase
  <2> QED
    BY <2>1, <2>2
<1>8. ASSUME NEW k \in Slots,
             NEW open \in BOOLEAN, NEW fake \in BOOLEAN, NEW dup \in BOOLEAN,
             FinishCheck(k, open, fake, dup)
      PROVE  Table!Next
  <2> DEFINE ign == IF fake THEN "fake" ELSE IF dup THEN "other" ELSE "no"
  <2>0. PICK on \in BOOLEAN : on = (open /\ ~fake)
    OBVIOUS
  <2>1. PICK r \in Relays : r = slot[k].relay /\ Admitted(r)
    BY <1>8, SlotRelay DEF FinishCheck, RowsInv
  <2>2. /\ row'[r] = ResultRow(r, on, ign) /\ \A s \in Relays \ {r} : row'[s] = row[s]
        /\ phase' = phase /\ blocked' = blocked
    BY <1>8, <2>0, <2>1 DEF FinishCheck, TypeOK
  <2>3. phase \in {"warmup", "normal"}
    <3>1. ~QueueIdle
      BY <1>8 DEF FinishCheck, QueueIdle
    <3> QED
      BY <3>1 DEF JobsInv, BootIdle, TypeOK
  <2> DEFINE v == IF ign = "no" THEN "ok" ELSE ign
  <2>4. row'[r].present /\ row'[r].checked /\ row'[r].ignore = ign
    BY <2>2 DEF ResultRow
  <2>5. StatusOf(r)' = v
    BY <2>4 DEF StatusOf
  <2>6. RowStatus' = [RowStatus EXCEPT ![r] = v]
    BY <2>2, <2>5, StatusOne
  <2>7. Table!Check(r, v) /\ v \in {"ok", "fake", "other"}
    BY <2>1, <2>2, <2>3, <2>6, AdmittedCheckable DEF Table!Check, RunPhase
  <2> QED
    BY <2>7 DEF Table!Next
<1>9. ASSUME NEW k \in Slots, CheckThrows(k) PROVE UNCHANGED Table!vars
  <2>1. PICK r \in Relays : r = slot[k].relay
    BY <1>9, SlotRelay DEF CheckThrows
  <2>2. row' = row \/ row' = [row EXCEPT ![r].retries = Bump(@)]
    BY <1>9, <2>1 DEF CheckThrows
  <2>3. \A s \in Relays : KeepsRow(s)
    BY <2>2 DEF KeepsRow, TypeOK, Rows
  <2> QED
    BY <1>0, <1>9, <2>3 DEF CheckThrows, RunPhase
<1>10. CASE RecheckKeeps \/ (\E r \in Relays : RecheckBegin(r)) \/ UNCHANGED vars
  BY <1>0, <1>00, <1>10 DEF RecheckKeeps, RecheckBegin, vars, RunPhase
<1>11. CASE RecheckUnignores
  <2>1. PICK r \in Relays : r = rechecking /\ StillFake(r)
    BY <1>11 DEF RecheckUnignores, TypeOK, RowsInv
  <2>2. CASE ~row[r].present
    BY <1>0, <1>00, <1>11, <2>1, <2>2 DEF RecheckUnignores, RunPhase
  <2>3. CASE row[r].present
    <3>1. row' = [row EXCEPT ![r].ignore = "no", ![r].retries = 0]
      BY <1>11, <2>1, <2>3 DEF RecheckUnignores
    <3>2. row'[r] = [row[r] EXCEPT !.ignore = "no", !.retries = 0]
      BY <3>1 DEF TypeOK
    <3>3. row'[r].present /\ row'[r].checked = row[r].checked /\ row'[r].ignore = "no"
      BY <2>3, <3>2 DEF TypeOK, Rows
    <3>4. phase = "normal" /\ row[r].ignore = "fake" /\ row[r].checked
      BY <2>1, <2>3 DEF StillFake, RowsInv, Ignored, Unchecked, Present
    <3>5. StatusOf(r)' = "ok" /\ StatusOf(r) = "fake"
      BY <2>3, <3>3, <3>4 DEF StatusOf
    <3>6. RowStatus' = [RowStatus EXCEPT ![r] = "ok"] /\ RowStatus[r] = "fake"
      BY <3>1, <3>5, StatusOne DEF TypeOK, RowStatus
    <3>7. Table!Recheck(r)
      BY <1>11, <3>4, <3>6 DEF RecheckUnignores, Table!Recheck, RunPhase
    <3> QED
      BY <3>7 DEF Table!Next
  <2> QED
    BY <2>2, <2>3
<1> QED
  BY <1>1, <1>2, <1>3, <1>4, <1>5, <1>6, <1>7, <1>8, <1>9, <1>10, <1>11
  DEF Next, Starts, Ends, Answers

\* Every check of the daemon is, to the table of relays, one step that reads
\* the gate and writes the result.
THEOREM ChecksAreAtomic == Spec => ChecksAtomic
<1>1. TypeOK /\ JobsInv /\ RowsInv /\ [Next]_vars => [Table!Next]_(Table!vars)
  BY TableStep
<1> QED
  BY <1>1, TableInit, TypeInit, TypeStep, JobsInit, JobsStep, RowsInit, RowsStep, PTL
  DEF Spec, ChecksAtomic, Table!Spec
=============================================================================
