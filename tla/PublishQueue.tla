---------------------------- MODULE PublishQueue ----------------------------
(***************************************************************************)
(* QueueManager.publishQueue (utils/queueManager.ts) and the retry chains  *)
(* of the jobs Worker adds to it (core/worker.ts): check results, delta    *)
(* events and trusted relay assertions retry themselves, deletions and     *)
(* announcements do not.  The queue lives in memory: it begins empty.      *)
(***************************************************************************)
EXTENDS Naturals, FiniteSets, SequencesExt, PQueue

CONSTANTS
  Jobs,          \* the events handed to the queue
  CategoryOf,    \* the category each is first added under
  MaxRetries,    \* publishMaxRetries
  Concurrency    \* of publishQueue: 1 in the daemon

Categories == {"check", "delta", "deletion", "announce", "other"}

ASSUME PublishQueueAssumption ==
  /\ IsFiniteSet(Jobs)
  /\ CategoryOf \in [Jobs -> Categories]
  /\ MaxRetries \in Nat
  /\ Concurrency \in Nat \ {0}

VARIABLES
  queue,        \* entries waiting in publishQueue
  running,      \* entries whose job is under way
  timers,       \* retries waiting for their backoff
  fate,         \* history: what has become of each job
  tries,        \* history: attempts made for it
  retrying,     \* retryingPublishes
  published,    \* publishedEvents
  failed,       \* failedPublishes
  byCategory    \* publishedByCategory

places == <<queue, running, timers>>
counters == <<retrying, published, failed, byCategory>>
vars == <<places, fate, tries, counters>>

-----------------------------------------------------------------------------
(* Entries of publishQueue *)

Entries == [job : Jobs, attempt : 0..MaxRetries, category : Categories, isRetry : BOOLEAN]

\* The category a retry is added under; the others have no retry of their own.
RetryCategory == [check |-> "delta", delta |-> "check", other |-> "other"]


RetriesOf(j) == IF CategoryOf[j] \in DOMAIN RetryCategory THEN MaxRetries ELSE 0

\* Mutant: only a retry that succeeded leaves the counter.
SettledMutant(e, ok) == IF e.isRetry /\ ok THEN retrying - 1 ELSE retrying

\* retryingPublishes once an entry has run, never below zero.
Settled(e, ok) == IF e.isRetry /\ retrying > 0 THEN retrying - 1 ELSE retrying

-----------------------------------------------------------------------------
Init ==
  /\ queue = <<>> /\ running = {} /\ timers = {}
  /\ fate = [j \in Jobs |-> "new"] /\ tries = [j \in Jobs |-> 0]
  /\ retrying = 0 /\ published = 0 /\ failed = 0
  /\ byCategory = [c \in Categories |-> 0]

\* addPublishJob for a first attempt.
Submit(j) ==
  /\ fate[j] = "new"
  /\ queue' = Insert(queue, [job |-> j, attempt |-> 0,
                             category |-> CategoryOf[j], isRetry |-> FALSE])
  /\ fate' = [fate EXCEPT ![j] = "open"]
  /\ UNCHANGED <<running, timers, tries, counters>>

\* Mutant: the last entry is left waiting.
StartMutant ==
  /\ Len(queue) > 1 /\ Cardinality(running) < Concurrency
  /\ running' = running \cup {Head(queue)}
  /\ queue' = Tail(queue)
  /\ UNCHANGED <<timers, fate, tries, counters>>

Start ==
  /\ queue # <<>> /\ Cardinality(running) < Concurrency
  /\ running' = running \cup {Head(queue)}
  /\ queue' = Tail(queue)
  /\ UNCHANGED <<timers, fate, tries, counters>>

\* Some relay took the event.
Succeed(e) ==
  /\ e \in running
  /\ running' = running \ {e}
  /\ fate' = [fate EXCEPT ![e.job] = "published"]
  /\ tries' = [tries EXCEPT ![e.job] = @ + 1]
  /\ published' = published + 1
  /\ byCategory' = [byCategory EXCEPT ![e.category] = @ + 1]
  /\ retrying' = Settled(e, TRUE)
  /\ UNCHANGED <<queue, timers, failed>>

\* Mutant: the bound is compared with the number of the attempt to come.
GoesOnMutant(e) ==
  CategoryOf[e.job] \in DOMAIN RetryCategory /\ e.attempt <= RetriesOf(e.job)

\* publishJob sets a timer for another attempt.
GoesOn(e) == e.attempt < RetriesOf(e.job)

\* Only a first attempt counts.
FailedAfter(e) == IF e.isRetry THEN failed ELSE failed + 1

\* No relay took it.
Fail(e) ==
  /\ e \in running
  /\ running' = running \ {e}
  /\ tries' = [tries EXCEPT ![e.job] = @ + 1]
  /\ failed' = FailedAfter(e)
  /\ retrying' = Settled(e, FALSE)
  /\ IF GoesOn(e)
     THEN /\ timers' = timers \cup
                {[job |-> e.job, attempt |-> e.attempt + 1,
                  category |-> RetryCategory[CategoryOf[e.job]], isRetry |-> TRUE]}
          /\ UNCHANGED fate
     ELSE /\ fate' = [fate EXCEPT ![e.job] = "given_up"]
          /\ UNCHANGED timers
  /\ UNCHANGED <<queue, published, byCategory>>

\* Mutant: the timer is not spent, and would add the retry once more.
SpentMutant(t) == timers

Spent(t) == timers \ {t}

\* The backoff is over: addPublishJob for the retry.
TimerFires(t) ==
  /\ t \in timers
  /\ timers' = Spent(t)
  /\ retrying' = retrying + 1
  /\ queue' = Insert(queue, t)
  /\ UNCHANGED <<running, fate, tries, published, failed, byCategory>>

Ends(j) == \E e \in running : e.job = j /\ (Succeed(e) \/ Fail(e))
Fires(j) == \E t \in timers : t.job = j /\ TimerFires(t)

Next ==
  \/ Start
  \/ \E j \in Jobs : Submit(j)
  \/ \E e \in running : Succeed(e) \/ Fail(e)
  \/ \E t \in timers : TimerFires(t)

Spec == Init /\ [][Next]_vars

\* p-queue starts jobs as slots come free, a publish settles when its relays
\* have answered or timed out, and timers go off.
FairSpec ==
  Spec /\ WF_vars(Start) /\ \A j \in Jobs : WF_vars(Ends(j)) /\ WF_vars(Fires(j))

-----------------------------------------------------------------------------
(* Properties *)

TypeOK ==
  /\ queue \in Seq(Entries) /\ running \subseteq Entries /\ timers \subseteq Entries
  /\ fate \in [Jobs -> {"new", "open", "published", "given_up"}]
  /\ tries \in [Jobs -> 0..(MaxRetries + 1)]
  /\ retrying \in Nat /\ published \in Nat /\ failed \in Nat
  /\ byCategory \in [Categories -> Nat]

Queued == {queue[i] : i \in DOMAIN queue}
Everywhere == Queued \cup running \cup timers

\* An open job is in exactly one place, with the number of the attempts made
\* for it so far, and no other job is anywhere: nothing is published twice
\* because a retry ran beside the attempt it repeats.
EachJobOnce ==
  /\ \A i, k \in DOMAIN queue : queue[i].job = queue[k].job => i = k
  /\ \A j \in Jobs :
       fate[j] = "open" <=> \E e \in Everywhere : e.job = j
  /\ \A d, e \in Everywhere : d.job = e.job => d = e
  /\ Queued \cap running = {} /\ Queued \cap timers = {} /\ running \cap timers = {}
  /\ \A e \in Everywhere : e.attempt = tries[e.job] /\ (e.isRetry <=> e.attempt > 0)

\* retryingPublishes is the number of retries queued or running: its floor at
\* zero never hides a count that went wrong.
RetryingCount ==
  retrying = Cardinality({e \in Queued \cup running : e.isRetry})

\* What the queue promises: PublishPromise.
AttemptLimit == [j \in Jobs |-> RetriesOf(j) + 1]
Promise == INSTANCE PublishPromise WITH Limit <- AttemptLimit
KeepsPromise == Promise!Spec

\* A job that was added is published or given up in the end.
JobsSettle == \A j \in Jobs : fate[j] = "open" ~> fate[j] \in {"published", "given_up"}

\* Every published event is counted once, under the category it was added
\* with, but for check events and deltas: their retries are added under each
\* other's category, so only the sum of the two is right.
PublishedIn(C) == Cardinality({j \in Jobs : CategoryOf[j] \in C /\ fate[j] = "published"})
PublishedCount ==
  /\ published = PublishedIn(Categories)
  /\ \A c \in {"deletion", "announce", "other"} : byCategory[c] = PublishedIn({c})
  /\ byCategory["check"] + byCategory["delta"] = PublishedIn({"check", "delta"})

\* The counters the status page shows agree with what the queue has done and
\* holds, after every order of attempts, retries and answers.
CountersRight == RetryingCount /\ PublishedCount
=============================================================================
