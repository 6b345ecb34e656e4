------------------------- MODULE PublishQueue_proofs -------------------------
(***************************************************************************)
(* Proofs about PublishQueue, for any events, retry bound and number of    *)
(* slots: no job is in two places, the counters count what happened, and   *)
(* every step is one that PublishPromise allows.                           *)
(***************************************************************************)
EXTENDS PublishQueue, PQueue_proofs

USE PublishQueueAssumption

-----------------------------------------------------------------------------
(* Entries *)

\* The retry chain an entry belongs to.
Chained(e) ==
  /\ e.attempt <= RetriesOf(e.job)
  /\ e.isRetry => CategoryOf[e.job] \in DOMAIN RetryCategory
  /\ e.category = IF e.isRetry THEN RetryCategory[CategoryOf[e.job]] ELSE CategoryOf[e.job]

FirstEntry(j) ==
  [job |-> j, attempt |-> 0, category |-> CategoryOf[j], isRetry |-> FALSE]
RetryEntry(e) ==
  [job |-> e.job, attempt |-> e.attempt + 1,
   category |-> RetryCategory[CategoryOf[e.job]], isRetry |-> TRUE]

LEMMA RetryFacts ==
  /\ DOMAIN RetryCategory = {"check", "delta", "other"}
  /\ \A c \in DOMAIN RetryCategory : RetryCategory[c] \in Categories
  /\ \A j \in Jobs : RetriesOf(j) \in 0..MaxRetries
  /\ \A j \in Jobs : RetriesOf(j) > 0 => CategoryOf[j] \in DOMAIN RetryCategory
BY DEF RetryCategory, RetriesOf, Categories

LEMMA FirstEntryOK ==
  ASSUME NEW j \in Jobs
  PROVE  FirstEntry(j) \in Entries /\ Chained(FirstEntry(j))
BY RetryFacts DEF FirstEntry, Entries, Chained

LEMMA RetryEntryOK ==
  ASSUME NEW e \in Entries, GoesOn(e)
  PROVE  RetryEntry(e) \in Entries /\ Chained(RetryEntry(e))
<1>1. e.attempt + 1 \in 0..MaxRetries /\ e.job \in Jobs /\ e.attempt + 1 <= RetriesOf(e.job)
      /\ CategoryOf[e.job] \in DOMAIN RetryCategory
  BY RetryFacts DEF GoesOn, Entries
<1> QED
  BY <1>1, RetryFacts DEF RetryEntry, Entries, Chained

-----------------------------------------------------------------------------
(* The three places, as sets                                                *)

JobsDiffer == \A i, k \in DOMAIN queue : queue[i].job = queue[k].job => i = k
Places ==
  /\ queue \in Seq(Entries) /\ running \subseteq Entries /\ timers \subseteq Entries
  /\ fate \in [Jobs -> {"new", "open", "published", "given_up"}]
  /\ tries \in [Jobs -> Nat]
  /\ EachJobOnce
  /\ \A j \in Jobs : fate[j] = "new" => tries[j] = 0
  /\ \A e \in Everywhere : Chained(e)
  /\ \A t \in timers : t.isRetry

\* EachJobOnce of the places, put as sets.
Once(q, r, t) ==
  /\ \A j \in Jobs : fate[j] = "open" <=> \E e \in q \cup r \cup t : e.job = j
  /\ \A d, e \in q \cup r \cup t : d.job = e.job => d = e
  /\ q \cap r = {} /\ q \cap t = {} /\ r \cap t = {}
  /\ \A e \in q \cup r \cup t : e.attempt = tries[e.job] /\ (e.isRetry <=> e.attempt > 0)

LEMMA OnceIs ==
  /\ EachJobOnce <=> JobsDiffer /\ Once(Queued, running, timers)
  /\ Queued = Elements(queue) /\ Everywhere = Queued \cup running \cup timers
BY DEF EachJobOnce, JobsDiffer, Once, Queued, Everywhere, Elements

LEMMA OnceIsNext ==
  /\ EachJobOnce' <=> JobsDiffer' /\ Once(Queued, running, timers)'
  /\ Queued' = Elements(queue') /\ Everywhere' = Queued' \cup running' \cup timers'
BY DEF EachJobOnce, JobsDiffer, Once, Queued, Everywhere, Elements

LEMMA EntriesHaveJobs ==
  ASSUME Places
  PROVE  /\ Everywhere \subseteq Entries
         /\ \A e \in Everywhere : e.job \in Jobs /\ e.attempt \in Nat /\ fate[e.job] = "open"
<1>1. Queued \subseteq Entries
  BY DEF Places, Queued
<1> QED
  BY <1>1, OnceIs DEF Places, Once, Entries

-----------------------------------------------------------------------------
(* What the actions do to the places                                        *)

LEMMA SubmitStep ==
  ASSUME Places, NEW j \in Jobs, Submit(j)
  PROVE  Places' /\ Queued' = Queued \cup {FirstEntry(j)} /\ FirstEntry(j) \notin Everywhere
<1> DEFINE n == FirstEntry(j)
<1>1. n \in Entries /\ Chained(n) /\ n.job = j /\ n.attempt = 0 /\ ~n.isRetry
  BY FirstEntryOK DEF FirstEntry
<1>2. /\ fate[j] = "new" /\ queue' = Insert(queue, n)
      /\ fate' = [fate EXCEPT ![j] = "open"] /\ UNCHANGED <<running, timers, tries>>
  BY DEF Submit, FirstEntry
<1> HIDE DEF n
<1>3. queue \in Seq(Entries)
  BY DEF Places
<1>4. \A e \in Everywhere : e.job # j
  BY <1>2, EntriesHaveJobs
<1>5. queue' \in Seq(Entries) /\ Queued' = Queued \cup {n}
  <2>1. Insert(queue, n) \in Seq(Entries)
    BY <1>1, <1>3, InsertPosition
  <2>2. Elements(Insert(queue, n)) = Elements(queue) \cup {n}
    BY <1>1, <1>3, InsertElements
  <2> QED
    BY <1>2, <2>1, <2>2, OnceIs, OnceIsNext
<1>6. JobsDiffer'
  <2>1. \A i \in DOMAIN queue : queue[i].job # n.job
    BY <1>1, <1>4 DEF Everywhere, Queued
  <2>2. JobsDiffer
    BY OnceIs DEF Places
  <2> QED
    BY <1>1, <1>2, <1>3, <2>1, <2>2, InsertDistinct DEF JobsDiffer
<1>7. n \notin Everywhere
  BY <1>1, <1>4
<1>8. Once(Queued, running, timers)'
  <2>1. Once(Queued, running, timers)
    BY OnceIs DEF Places
  <2>2. tries[j] = 0
    BY <1>2 DEF Places
  <2>3. fate'[j] = "open" /\ \A k \in Jobs : k # j => fate'[k] = fate[k]
    BY <1>2 DEF Places
  <2> QED
    BY <1>1, <1>2, <1>4, <1>5, <1>7, <2>1, <2>2, <2>3, OnceIs DEF Once
<1>9. \A e \in Everywhere' : Chained(e)'
  BY <1>1, <1>2, <1>5, OnceIs, OnceIsNext DEF Places, Chained, RetriesOf
<1>10. /\ fate' \in [Jobs -> {"new", "open", "published", "given_up"}]
       /\ \A k \in Jobs : fate'[k] = "new" => tries'[k] = 0
  BY <1>2 DEF Places
<1> QED
  BY <1>2, <1>5, <1>6, <1>7, <1>8, <1>9, <1>10, OnceIsNext DEF Places, n

LEMMA StartStep ==
  ASSUME Places, Start
  PROVE  Places' /\ Queued = Queued' \cup {Head(queue)} /\ Head(queue) \notin Queued'
         /\ running' = running \cup {Head(queue)}
<1> DEFINE h == Head(queue)
<1>1. queue # <<>> /\ queue' = Tail(queue) /\ running' = running \cup {h}
      /\ UNCHANGED <<timers, fate, tries>>
  BY DEF Start
<1>2. queue \in Seq(Entries) /\ JobsDiffer /\ Once(Queued, running, timers)
  BY OnceIs DEF Places
<1>3. Queued = Queued' \cup {h} /\ h \in Entries /\ queue' \in Seq(Entries)
  BY <1>1, <1>2, TailElements, OnceIs, OnceIsNext
<1>4. /\ DOMAIN queue = 1..Len(queue) /\ DOMAIN queue' = 1..(Len(queue) - 1) /\ h = queue[1]
      /\ \A i \in 1..(Len(queue) - 1) : queue'[i] = queue[i + 1] /\ i + 1 \in 1..Len(queue)
      /\ 1 \in DOMAIN queue
  <2>1. Len(queue) \in Nat \ {0} /\ Len(Tail(queue)) = Len(queue) - 1
        /\ \A i \in 1..(Len(queue) - 1) : Tail(queue)[i] = queue[i + 1]
    BY <1>1, <1>2, HeadTailProperties, LenProperties, EmptySeq
  <2>2. DOMAIN Tail(queue) = 1..(Len(queue) - 1) /\ DOMAIN queue = 1..Len(queue)
        /\ Head(queue) = queue[1]
    BY <1>1, <1>2
  <2> QED
    BY <1>1, <2>1, <2>2
<1>5. JobsDiffer'
  <2> SUFFICES ASSUME NEW i \in DOMAIN queue', NEW k \in DOMAIN queue',
                      queue'[i].job = queue'[k].job
               PROVE  i = k
    BY DEF JobsDiffer
  <2>1. /\ i + 1 \in DOMAIN queue /\ queue'[i] = queue[i + 1]
        /\ k + 1 \in DOMAIN queue /\ queue'[k] = queue[k + 1]
    BY <1>4
  <2>2. i + 1 = k + 1
    BY <1>2, <2>1 DEF JobsDiffer
  <2> QED
    BY <1>4, <2>2
<1>6. h \notin Queued'
  <2>1. ASSUME NEW i \in DOMAIN queue' PROVE queue'[i] # h
    <3>1. i + 1 \in DOMAIN queue /\ i + 1 # 1 /\ queue'[i] = queue[i + 1]
      BY <1>4
    <3> QED
      BY <1>2, <1>4, <3>1 DEF JobsDiffer
  <2> QED
    BY <2>1 DEF Queued
<1> HIDE DEF h
<1>7. Once(Queued, running, timers)'
  BY <1>1, <1>2, <1>3, <1>6 DEF Once
<1>8. \A e \in Everywhere' : Chained(e)'
  BY <1>1, <1>3, OnceIs, OnceIsNext DEF Places, Chained, RetriesOf
<1> QED
  BY <1>1, <1>3, <1>5, <1>6, <1>7, <1>8, OnceIsNext DEF Places, h

\* An entry that runs has its job to itself.
LEMMA Alone ==
  ASSUME Places, NEW e \in running
  PROVE  /\ e \in Entries /\ e.job \in Jobs /\ e.attempt \in 0..MaxRetries
         /\ fate[e.job] = "open" /\ tries[e.job] = e.attempt /\ Chained(e)
         /\ \A d \in Everywhere : d.job = e.job => d = e
         /\ e \notin Queued /\ e \notin timers
<1>1. Once(Queued, running, timers) /\ e \in Everywhere
  BY OnceIs DEF Places
<1>2. e \in Entries /\ Chained(e)
  BY <1>1 DEF Places
<1>3. fate[e.job] = "open" /\ e.job \in Jobs
  BY <1>1, EntriesHaveJobs
<1> QED
  BY <1>1, <1>2, <1>3, OnceIs DEF Once, Entries

LEMMA SucceedStep ==
  ASSUME Places, NEW e \in running, Succeed(e)
  PROVE  Places' /\ Queued' = Queued
<1>1. /\ running' = running \ {e} /\ fate' = [fate EXCEPT ![e.job] = "published"]
      /\ tries' = [tries EXCEPT ![e.job] = @ + 1] /\ UNCHANGED <<queue, timers>>
  BY DEF Succeed
<1>2. Queued' = Queued /\ JobsDiffer' /\ Once(Queued, running, timers)
  BY <1>1, OnceIs DEF Places, Queued, JobsDiffer
<1>3. Once(Queued, running, timers)'
  <2>1. \A d \in Everywhere' : d.job # e.job /\ d \in Everywhere
    BY <1>1, <1>2, Alone, OnceIs, OnceIsNext
  <2>2. \A k \in Jobs : k # e.job => fate'[k] = fate[k] /\ tries'[k] = tries[k]
    BY <1>1 DEF Places
  <2>3. fate'[e.job] = "published"
    BY <1>1, Alone DEF Places
  <2>4. \A d \in Everywhere : d # e => d \in Everywhere'
    BY <1>1, <1>2, OnceIs, OnceIsNext
  <2> QED
    BY <1>1, <1>2, <2>1, <2>2, <2>3, <2>4, Alone, OnceIs, OnceIsNext, EntriesHaveJobs DEF Once
<1>4. \A d \in Everywhere' : Chained(d)'
  BY <1>1, <1>2, OnceIs, OnceIsNext DEF Places, Chained, RetriesOf
<1>5. /\ fate' \in [Jobs -> {"new", "open", "published", "given_up"}]
      /\ tries' \in [Jobs -> Nat] /\ \A k \in Jobs : fate'[k] = "new" => tries'[k] = 0
  BY <1>1, Alone DEF Places
<1> QED
  BY <1>1, <1>2, <1>3, <1>4, <1>5, OnceIsNext DEF Places

LEMMA FailStep ==
  ASSUME Places, NEW e \in running, Fail(e)
  PROVE  Places' /\ Queued' = Queued
<1>1. /\ running' = running \ {e} /\ UNCHANGED queue
      /\ tries' = [tries EXCEPT ![e.job] = @ + 1]
      /\ GoesOn(e) => timers' = timers \cup {RetryEntry(e)} /\ fate' = fate
      /\ ~GoesOn(e) => fate' = [fate EXCEPT ![e.job] = "given_up"] /\ timers' = timers
  BY DEF Fail, RetryEntry
<1>2. Queued' = Queued /\ JobsDiffer' /\ Once(Queued, running, timers)
  BY <1>1, OnceIs DEF Places, Queued, JobsDiffer
<1>3. /\ \A k \in Jobs : k # e.job => fate'[k] = fate[k] /\ tries'[k] = tries[k]
      /\ tries'[e.job] = e.attempt + 1
      /\ fate'[e.job] = IF GoesOn(e) THEN "open" ELSE "given_up"
  BY <1>1, Alone DEF Places
<1>4. /\ fate' \in [Jobs -> {"new", "open", "published", "given_up"}]
      /\ tries' \in [Jobs -> Nat] /\ \A k \in Jobs : fate'[k] = "new" => tries'[k] = 0
  <2>1. tries' \in [Jobs -> Nat] /\ fate[e.job] = "open"
    BY <1>1, Alone DEF Places
  <2>2. fate' \in [Jobs -> {"new", "open", "published", "given_up"}]
    BY <1>1, Alone DEF Places
  <2> QED
    BY <1>3, <2>1, <2>2, Alone DEF Places
<1>5. CASE GoesOn(e)
  <2> DEFINE t == RetryEntry(e)
  <2>1. t \in Entries /\ Chained(t) /\ t.job = e.job /\ t.attempt = e.attempt + 1 /\ t.isRetry
    BY <1>5, Alone, RetryEntryOK DEF RetryEntry
  <2>2. timers' = timers \cup {t}
    BY <1>1, <1>5
  <2> HIDE DEF t
  <2>3. t \notin Everywhere
    BY <2>1, Alone DEF Once
  <2>4. \A d \in Everywhere' : d = t \/ (d.job # e.job /\ d \in Everywhere)
    <3>1. Everywhere' = (Queued \cup (running \ {e}) \cup timers) \cup {t}
      BY <1>1, <1>2, <2>2, OnceIsNext
    <3>2. \A d \in Queued \cup (running \ {e}) \cup timers : d \in Everywhere /\ d # e
      BY Alone, OnceIs
    <3>3. \A d \in Everywhere : d.job = e.job => d = e
      BY Alone
    <3> QED
      BY <3>1, <3>2, <3>3
  <2>5. \A d \in Everywhere : d # e => d \in Everywhere'
    BY <1>1, <1>2, <2>2, OnceIs, OnceIsNext
  <2>6. t \in Everywhere'
    BY <2>2, OnceIsNext
  <2>7. Once(Queued, running, timers)'
    <3>1. \A j \in Jobs : fate'[j] = "open" <=> \E d \in Everywhere' : d.job = j
      BY <1>2, <1>3, <1>5, <2>1, <2>4, <2>5, <2>6, OnceIs DEF Once
    <3>2. \A d \in Everywhere' :
            d.attempt = tries'[d.job] /\ (d.isRetry <=> d.attempt > 0)
      BY <1>2, <1>3, <2>1, <2>4, OnceIs, EntriesHaveJobs, Alone DEF Once
    <3>3. \A c, d \in Everywhere' : c.job = d.job => c = d
      BY <1>2, <2>1, <2>4, OnceIs DEF Once
    <3>4. Queued' \cap running' = {} /\ Queued' \cap timers' = {} /\ running' \cap timers' = {}
      BY <1>1, <1>2, <2>2, <2>3, OnceIs DEF Once
    <3> QED
      BY <3>1, <3>2, <3>3, <3>4, OnceIsNext DEF Once
  <2>8. \A d \in Everywhere' : Chained(d)'
    BY <2>1, <2>4 DEF Places, Chained, RetriesOf
  <2> QED
    BY <1>1, <1>2, <1>4, <2>1, <2>2, <2>7, <2>8, OnceIsNext DEF Places
<1>6. CASE ~GoesOn(e)
  <2>1. timers' = timers
    BY <1>1, <1>6
  <2>2. \A d \in Everywhere' : d.job # e.job /\ d \in Everywhere
    BY <1>1, <1>2, <2>1, Alone, OnceIs, OnceIsNext
  <2>3. \A d \in Everywhere : d # e => d \in Everywhere'
    BY <1>1, <1>2, <2>1, OnceIs, OnceIsNext
  <2>4. Once(Queued, running, timers)'
    BY <1>1, <1>2, <1>3, <1>6, <2>1, <2>2, <2>3, Alone, OnceIs, OnceIsNext, EntriesHaveJobs
       DEF Once
  <2>5. \A d \in Everywhere' : Chained(d)'
    BY <2>2 DEF Places, Chained, RetriesOf
  <2> QED
    BY <1>1, <1>2, <1>4, <2>1, <2>4, <2>5, OnceIsNext DEF Places
<1> QED
  BY <1>2, <1>5, <1>6

LEMMA TimerStep ==
  ASSUME Places, NEW t \in timers, TimerFires(t)
  PROVE  Places' /\ Queued' = Queued \cup {t} /\ t \notin Queued \cup running /\ t.isRetry
<1>1. timers' = timers \ {t} /\ queue' = Insert(queue, t) /\ UNCHANGED <<running, fate, tries>>
  BY DEF TimerFires, Spent
<1>2. queue \in Seq(Entries) /\ t \in Entries /\ JobsDiffer /\ Once(Queued, running, timers)
  BY OnceIs DEF Places
<1>3. t \in Everywhere /\ t \notin Queued /\ t \notin running
  BY <1>2, OnceIs DEF Once
<1>4. queue' \in Seq(Entries)
  BY <1>1, <1>2, InsertPosition
<1>5. Queued' = Queued \cup {t}
  BY <1>1, <1>2, InsertElements, OnceIs, OnceIsNext
<1>6. JobsDiffer'
  <2>1. \A i \in DOMAIN queue : queue[i].job # t.job
    BY <1>2, <1>3, OnceIs DEF Once, Queued
  <2> QED
    BY <1>1, <1>2, <2>1, InsertDistinct DEF JobsDiffer
<1>7. Everywhere' = Everywhere
  BY <1>1, <1>3, <1>5, OnceIs, OnceIsNext
<1>8. Once(Queued, running, timers)'
  BY <1>1, <1>2, <1>3, <1>5, <1>7, OnceIs, OnceIsNext DEF Once
<1>9. \A d \in Everywhere' : Chained(d)'
  BY <1>7 DEF Places, Chained, RetriesOf
<1>10. t.isRetry
  BY DEF Places
<1> QED
  BY <1>1, <1>3, <1>4, <1>5, <1>6, <1>8, <1>9, <1>10, OnceIsNext DEF Places

-----------------------------------------------------------------------------
(* The counters                                                             *)

Retries == {e \in Queued \cup running : e.isRetry}

Counts ==
  /\ \A j \in Jobs : tries[j] <= MaxRetries + 1
  /\ retrying \in Nat /\ published \in Nat /\ failed \in Nat /\ byCategory \in [Categories -> Nat]
  /\ IsFiniteSet(Retries) /\ retrying = Cardinality(Retries)
  /\ PublishedCount

\* The jobs of some categories that are published.
PublishedJobs(C) == {j \in Jobs : CategoryOf[j] \in C /\ fate[j] = "published"}

LEMMA PublishedFinite ==
  ASSUME NEW C
  PROVE  IsFiniteSet(PublishedJobs(C)) /\ Cardinality(PublishedJobs(C)) \in Nat
         /\ PublishedIn(C) = Cardinality(PublishedJobs(C))
<1>1. PublishedJobs(C) \in SUBSET Jobs
  BY DEF PublishedJobs
<1> QED
  BY <1>1, FS_Subset, FS_CardinalityType DEF PublishedIn, PublishedJobs

LEMMA PublishedMore ==
  ASSUME Places, NEW e \in running, Succeed(e), NEW C
  PROVE  PublishedIn(C)' = PublishedIn(C) + (IF CategoryOf[e.job] \in C THEN 1 ELSE 0)
<1>1. e.job \in Jobs /\ fate[e.job] = "open"
  BY Alone
<1>2. fate'[e.job] = "published" /\ \A j \in Jobs : j # e.job => fate'[j] = fate[j]
  BY <1>1 DEF Succeed, Places
<1>3. PublishedIn(C)' = Cardinality(PublishedJobs(C)')
  BY DEF PublishedIn, PublishedJobs
<1>4. e.job \notin PublishedJobs(C)
  BY <1>1 DEF PublishedJobs
<1>5. CASE CategoryOf[e.job] \in C
  <2>1. PublishedJobs(C)' = PublishedJobs(C) \cup {e.job}
    BY <1>1, <1>2, <1>5 DEF PublishedJobs
  <2> QED
    BY <1>3, <1>4, <1>5, <2>1, PublishedFinite, FS_AddElement
<1>6. CASE CategoryOf[e.job] \notin C
  <2>1. PublishedJobs(C)' = PublishedJobs(C)
    BY <1>1, <1>2, <1>6 DEF PublishedJobs
  <2> QED
    BY <1>3, <1>6, <2>1, PublishedFinite
<1> QED
  BY <1>5, <1>6

LEMMA PublishedSame ==
  ASSUME \A j \in Jobs : fate'[j] = "published" <=> fate[j] = "published", NEW C
  PROVE  PublishedIn(C)' = PublishedIn(C)
<1>1. PublishedJobs(C)' = PublishedJobs(C)
  BY DEF PublishedJobs
<1>2. PublishedIn(C)' = Cardinality(PublishedJobs(C)')
  BY DEF PublishedIn, PublishedJobs
<1> QED
  BY <1>1, <1>2, PublishedFinite

LEMMA CountSame ==
  ASSUME \A j \in Jobs : fate'[j] = "published" <=> fate[j] = "published",
         UNCHANGED <<published, byCategory>>, PublishedCount
  PROVE  PublishedCount'
<1>1. \A C : PublishedIn(C)' = PublishedIn(C)
  BY PublishedSame
<1>2. PublishedIn(Categories)' = PublishedIn(Categories)
      /\ PublishedIn({"check", "delta"})' = PublishedIn({"check", "delta"})
      /\ \A c \in {"deletion", "announce", "other"} : PublishedIn({c})' = PublishedIn({c})
  BY <1>1
<1> QED
  BY <1>2 DEF PublishedCount

\* The category an entry runs under says which sum its success belongs to.
LEMMA CountMore ==
  ASSUME Places, NEW e \in running, Succeed(e), PublishedCount, published \in Nat,
         byCategory \in [Categories -> Nat]
  PROVE  PublishedCount'
<1>1. e \in Entries /\ Chained(e) /\ e.job \in Jobs /\ CategoryOf[e.job] \in Categories
  BY Alone
<1>2. /\ e.category \in Categories
      /\ \A c \in {"deletion", "announce", "other"} : e.category = c <=> CategoryOf[e.job] = c
      /\ e.category \in {"check", "delta"} <=> CategoryOf[e.job] \in {"check", "delta"}
  BY <1>1, RetryFacts DEF Chained, RetryCategory, Categories, Entries
<1>3. published' = published + 1 /\ byCategory' = [byCategory EXCEPT ![e.category] = @ + 1]
  BY DEF Succeed
<1>4. published' = PublishedIn(Categories)'
  BY <1>1, <1>3, PublishedMore DEF PublishedCount
<1>5. ASSUME NEW c \in {"deletion", "announce", "other"}
      PROVE  byCategory'[c] = PublishedIn({c})'
  <2>1. PublishedIn({c})' = PublishedIn({c}) + (IF CategoryOf[e.job] = c THEN 1 ELSE 0)
    <3>1. PublishedIn({c})' = PublishedIn({c}) + (IF CategoryOf[e.job] \in {c} THEN 1 ELSE 0)
      BY PublishedMore
    <3> QED
      BY <3>1
  <2>2. byCategory[c] = PublishedIn({c}) /\ byCategory[c] \in Nat
    BY DEF PublishedCount, Categories
  <2>3. c \in Categories /\ (e.category = c <=> CategoryOf[e.job] = c)
    BY <1>2 DEF Categories
  <2> QED
    BY <1>3, <2>1, <2>2, <2>3
<1>6. byCategory'["check"] + byCategory'["delta"] = PublishedIn({"check", "delta"})'
  <2>1. PublishedIn({"check", "delta"})' = PublishedIn({"check", "delta"})
          + (IF CategoryOf[e.job] \in {"check", "delta"} THEN 1 ELSE 0)
    BY PublishedMore
  <2>2. byCategory["check"] + byCategory["delta"] = PublishedIn({"check", "delta"})
        /\ byCategory["check"] \in Nat /\ byCategory["delta"] \in Nat
    BY DEF PublishedCount, Categories
  <2> QED
    BY <1>2, <1>3, <2>1, <2>2 DEF Categories
<1> QED
  BY <1>4, <1>5, <1>6 DEF PublishedCount

\* The floor of retryingPublishes is not needed: a retry that ends was counted.
LEMMA SettledCounts ==
  ASSUME Places, Counts, NEW e \in running, NEW ok \in BOOLEAN,
         retrying' = Settled(e, ok), running' = running \ {e}, Queued' = Queued
  PROVE  retrying' \in Nat /\ IsFiniteSet(Retries') /\ retrying' = Cardinality(Retries')
<1>1. e \notin Queued /\ e \in Entries
  BY Alone
<1>2. CASE e.isRetry
  <2>1. Retries' = Retries \ {e} /\ e \in Retries
    BY <1>1, <1>2 DEF Retries
  <2>2. IsFiniteSet(Retries \ {e}) /\ Cardinality(Retries \ {e}) = Cardinality(Retries) - 1
        /\ Cardinality(Retries \ {e}) \in Nat
    BY <2>1, FS_RemoveElement, FS_CardinalityType DEF Counts
  <2> QED
    BY <1>2, <2>1, <2>2 DEF Counts, Settled
<1>3. CASE ~e.isRetry
  <2>1. Retries' = Retries
    BY <1>1, <1>3 DEF Retries
  <2> QED
    BY <1>3, <2>1 DEF Counts, Settled
<1> QED
  BY <1>2, <1>3

-----------------------------------------------------------------------------
(* The inductive invariant                                                  *)

IInv == Places /\ Counts

LEMMA InitInv == Init => IInv
<1> SUFFICES ASSUME Init PROVE IInv
  OBVIOUS
<1>1. queue = <<>> /\ running = {} /\ timers = {} /\ fate = [j \in Jobs |-> "new"]
      /\ tries = [j \in Jobs |-> 0]
  BY DEF Init
<1>2. Queued = {} /\ Everywhere = {}
  BY <1>1 DEF Queued, Everywhere
<1>3. Once(Queued, running, timers) /\ JobsDiffer
  BY <1>1, <1>2, OnceIs DEF Once, JobsDiffer
<1>4. Places
  BY <1>1, <1>2, <1>3, OnceIs, EmptySeq DEF Places
<1>5. Retries = {} /\ \A C : PublishedJobs(C) = {}
  BY <1>1, <1>2 DEF Retries, PublishedJobs
<1>6. PublishedCount
  <2>1. \A C : PublishedIn(C) = 0
    BY <1>5, PublishedFinite, FS_EmptySet
  <2> QED
    BY <2>1 DEF Init, PublishedCount, Categories
<1>7. Counts
  BY <1>1, <1>5, <1>6, FS_EmptySet DEF Init, Counts
<1> QED
  BY <1>4, <1>7 DEF IInv

LEMMA Inductive == IInv /\ [Next]_vars => IInv'
<1> SUFFICES ASSUME IInv, [Next]_vars PROVE IInv'
  OBVIOUS
<1> USE DEF IInv
<1>1. ASSUME NEW j \in Jobs, Submit(j) PROVE IInv'
  <2>1. Places' /\ Queued' = Queued \cup {FirstEntry(j)} /\ running' = running
        /\ ~FirstEntry(j).isRetry
    BY <1>1, SubmitStep DEF Submit, FirstEntry
  <2>2. Retries' = Retries
    BY <2>1 DEF Retries
  <2>3. UNCHANGED <<tries, counters>>
    BY <1>1 DEF Submit
  <2>4. PublishedCount'
    <3>1. \A k \in Jobs : fate'[k] = "published" <=> fate[k] = "published"
      BY <1>1 DEF Submit, Places
    <3> QED
      BY <2>3, <3>1, CountSame DEF Counts, counters
  <2> QED
    BY <2>1, <2>2, <2>3, <2>4 DEF Counts, counters
<1>2. CASE Start
  <2>1. Places' /\ Queued' \cup running' = Queued \cup running
    BY <1>2, StartStep
  <2>2. Retries' = Retries
    BY <2>1 DEF Retries
  <2>3. UNCHANGED <<fate, tries, counters>>
    BY <1>2 DEF Start
  <2>4. PublishedCount'
    BY <2>3, CountSame DEF Counts, counters
  <2> QED
    BY <2>1, <2>2, <2>3, <2>4 DEF Counts, counters
<1>3. ASSUME NEW e \in running, Succeed(e) PROVE IInv'
  <2>1. Places' /\ Queued' = Queued /\ PublishedCount'
    BY <1>3, SucceedStep, CountMore DEF Counts
  <2>2. /\ running' = running \ {e} /\ retrying' = Settled(e, TRUE) /\ failed' = failed
        /\ published' = published + 1
    BY <1>3 DEF Succeed
  <2>3. retrying' \in Nat /\ IsFiniteSet(Retries') /\ retrying' = Cardinality(Retries')
    BY <2>1, <2>2, SettledCounts
  <2>4. \A j \in Jobs : tries'[j] <= MaxRetries + 1
    <3>1. tries' = [tries EXCEPT ![e.job] = @ + 1]
      BY <1>3 DEF Succeed
    <3>2. e.job \in Jobs /\ tries[e.job] \in 0..MaxRetries /\ tries \in [Jobs -> Nat]
      BY Alone DEF Places
    <3>3. \A j \in Jobs : tries[j] <= MaxRetries + 1
      BY DEF Counts
    <3> QED
      BY <3>1, <3>2, <3>3
  <2>5. byCategory' \in [Categories -> Nat] /\ published' \in Nat
    <3>1. byCategory' = [byCategory EXCEPT ![e.category] = @ + 1] /\ e.category \in Categories
      BY <1>3, Alone DEF Succeed, Entries
    <3> QED
      BY <2>2, <3>1 DEF Counts
  <2> QED
    BY <2>1, <2>2, <2>3, <2>4, <2>5 DEF Counts
<1>4. ASSUME NEW e \in running, Fail(e) PROVE IInv'
  <2>1. Places' /\ Queued' = Queued
    BY <1>4, FailStep
  <2>2. /\ running' = running \ {e} /\ retrying' = Settled(e, FALSE)
        /\ failed' = FailedAfter(e) /\ UNCHANGED <<published, byCategory>>
        /\ tries' = [tries EXCEPT ![e.job] = @ + 1]
        /\ fate' = fate \/ fate' = [fate EXCEPT ![e.job] = "given_up"]
    BY <1>4 DEF Fail
  <2>3. retrying' \in Nat /\ IsFiniteSet(Retries') /\ retrying' = Cardinality(Retries')
    BY <2>1, <2>2, SettledCounts
  <2>4. \A j \in Jobs : tries'[j] <= MaxRetries + 1
    BY <2>2, Alone DEF Counts, Places
  <2>5. PublishedCount'
    <3>1. \A k \in Jobs : fate'[k] = "published" <=> fate[k] = "published"
      BY <2>2, Alone DEF Places
    <3> QED
      BY <2>2, <3>1, CountSame DEF Counts
  <2>6. failed' \in Nat
    BY <2>2 DEF FailedAfter, Counts
  <2> QED
    BY <2>1, <2>2, <2>3, <2>4, <2>5, <2>6 DEF Counts
<1>5. ASSUME NEW t \in timers, TimerFires(t) PROVE IInv'
  <2>1. Places' /\ Queued' = Queued \cup {t} /\ t \notin Queued \cup running /\ t.isRetry
    BY <1>5, TimerStep
  <2>2. /\ retrying' = retrying + 1 /\ running' = running
        /\ UNCHANGED <<fate, tries, published, failed, byCategory>>
    BY <1>5 DEF TimerFires
  <2>3. Retries' = Retries \cup {t} /\ t \notin Retries
    BY <2>1, <2>2 DEF Retries
  <2>4. IsFiniteSet(Retries') /\ Cardinality(Retries') = Cardinality(Retries) + 1
    BY <2>3, FS_AddElement DEF Counts
  <2>5. PublishedCount'
    BY <2>2, CountSame DEF Counts
  <2> QED
    BY <2>1, <2>2, <2>4, <2>5 DEF Counts
<1>6. CASE UNCHANGED vars
  <2>1. UNCHANGED <<places, fate, tries, counters>>
    BY <1>6 DEF vars
  <2>2. Queued' = Queued /\ Everywhere' = Everywhere /\ JobsDiffer' /\ Retries' = Retries
    BY <2>1, OnceIs DEF Places, places, Queued, Everywhere, JobsDiffer, Retries
  <2>3. EachJobOnce'
    <3>1. Once(Queued, running, timers)'
      BY <2>1, <2>2, OnceIs DEF Places, places, Once
    <3> QED
      BY <2>2, <3>1, OnceIsNext
  <2>4. Places'
    BY <2>1, <2>2, <2>3 DEF Places, places, Chained, RetriesOf
  <2>5. PublishedCount'
    BY <2>1, CountSame DEF Counts, counters
  <2> QED
    BY <2>1, <2>2, <2>4, <2>5 DEF Counts, counters
<1> QED
  BY <1>1, <1>2, <1>3, <1>4, <1>5, <1>6 DEF Next

-----------------------------------------------------------------------------
(* The theorems                                                             *)

\* The inductive invariant the theorems below are read off.
THEOREM InvHolds == Spec => []IInv
BY InitInv, Inductive, PTL DEF Spec

LEMMA InvGives ==
  ASSUME IInv
  PROVE  TypeOK /\ EachJobOnce /\ RetryingCount /\ PublishedCount
<1>1. TypeOK
  BY DEF IInv, Places, Counts, TypeOK
<1>2. RetryingCount
  BY DEF IInv, Counts, RetryingCount, Retries
<1> QED
  BY <1>1, <1>2 DEF IInv, Places, Counts

\* What the queue, its slots, the timers and the counters hold.
THEOREM TypeCorrect == Spec => []TypeOK
BY InvGives, InvHolds, PTL

\* An event handed to addPublishJob (queueManager.ts:120-166), or to the timer of
\* its next attempt, is in one place only.
THEOREM EachOnce == Spec => []EachJobOnce
BY InvGives, InvHolds, PTL

\* retryingPublishes is exact, and its floor at zero never used.
THEOREM RetryingIsCounted == Spec => []RetryingCount
BY InvGives, InvHolds, PTL

\* publishedEvents and publishedByCategory count each published event once.
THEOREM PublishedIsCounted == Spec => []PublishedCount
BY InvGives, InvHolds, PTL

\* The counters of the status page agree with what the queue has done and
\* holds.
THEOREM CountersAreRight == Spec => []CountersRight
BY RetryingIsCounted, PublishedIsCounted, PTL DEF CountersRight

-----------------------------------------------------------------------------
(* The refinement of PublishPromise                                         *)

LEMMA PromiseInit == Init => Promise!Init
BY DEF Init, Promise!Init

LEMMA PromiseStep ==
  ASSUME IInv, [Next]_vars
  PROVE  [Promise!Next]_(Promise!vars)
<1> USE DEF IInv
<1>1. ASSUME NEW j \in Jobs, Submit(j) PROVE Promise!Submit(j)
  BY <1>1 DEF Submit, Promise!Submit
<1>2. ASSUME NEW e \in running, Succeed(e) PROVE Promise!Attempt(e.job, TRUE)
  <2>1. tries[e.job] < AttemptLimit[e.job]
    BY Alone, RetryFacts DEF AttemptLimit, Chained
  <2> QED
    BY <1>2, <2>1, Alone DEF Succeed, Promise!Attempt
<1>3. ASSUME NEW e \in running, Fail(e) PROVE Promise!Attempt(e.job, FALSE)
  <2>1. /\ e.job \in Jobs /\ fate[e.job] = "open" /\ tries[e.job] = e.attempt
        /\ e.attempt \in Nat /\ e.attempt <= RetriesOf(e.job) /\ RetriesOf(e.job) \in Nat
        /\ AttemptLimit[e.job] = RetriesOf(e.job) + 1
    BY Alone, RetryFacts DEF AttemptLimit, Chained
  <2>2. GoesOn(e) <=> tries[e.job] + 1 # AttemptLimit[e.job]
    BY <2>1 DEF GoesOn
  <2>3. fate' = [fate EXCEPT ![e.job] = IF GoesOn(e) THEN "open" ELSE "given_up"]
    BY <1>3, <2>1 DEF Fail, Places
  <2>4. tries' = [tries EXCEPT ![e.job] = @ + 1]
    BY <1>3 DEF Fail
  <2>5. tries[e.job] < AttemptLimit[e.job]
    BY <2>1
  <2>6. fate' = [fate EXCEPT ![e.job] = IF tries[e.job] + 1 = AttemptLimit[e.job]
                                        THEN "given_up" ELSE "open"]
    BY <2>2, <2>3
  <2> QED
    BY <2>1, <2>4, <2>5, <2>6 DEF Promise!Attempt
<1>4. CASE Start \/ (\E t \in timers : TimerFires(t)) \/ UNCHANGED vars
  BY <1>4 DEF Start, TimerFires, vars, Promise!vars
<1>5. \A e \in running : e.job \in Jobs
  BY Alone
<1> QED
  BY <1>1, <1>2, <1>3, <1>4, <1>5 DEF Next, Promise!Next

\* Every step of the queue is one that the promise of publishJob allows: an
\* event is tried while it is open and has attempts left, and is given up
\* with its last one.
THEOREM PromiseKept == Spec => Promise!Init /\ [][Promise!Next]_(Promise!vars)
<1>1. IInv /\ [Next]_vars => [Promise!Next]_(Promise!vars)
  BY PromiseStep
<1> QED
  BY <1>1, PromiseInit, InvHolds, PTL DEF Spec
=============================================================================
