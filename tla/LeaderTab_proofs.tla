-------------------------- MODULE LeaderTab_proofs --------------------------
(***************************************************************************)
(* Proofs about LeaderTab, for any subscriptions, any concurrent callers,  *)
(* any number of leaders, attempts and late timers: no caller is left      *)
(* behind, a subscription that is kept is served once nothing is under     *)
(* way, and one that was given up is detached.                             *)
(***************************************************************************)
EXTENDS LeaderTab, FiniteSetTheorems, SequenceTheorems, TLAPS

USE LeaderTabAssumption

-----------------------------------------------------------------------------
(* Types                                                                    *)

\* A caller that waits has an attempt left to count; one at rest has made none.
CallType ==
  {c \in CallState : /\ c.st = "waiting" => c.tries < MaxTries
                     /\ c.st = "idle" => c.tries = 0}
ResubType == [on : BOOLEAN, at : Hashes \cup {None}, done : SUBSET Hashes]
TabType ==
  [kept : SUBSET Hashes, pend : SUBSET Hashes,
   sinks : [Hashes -> SUBSET Callers], source : [Hashes -> 0..MaxTerm],
   info : 0..MaxTerm, faults : SUBSET Hashes, resub : ResubType,
   call : [Hashes -> [Callers -> CallType]]]
RequestType == [op : {"subscribe", "unsubscribe"}, hash : Hashes]
HelloType == [kind : {"hello"}, to : Monitors, term : 1..MaxTerm]
AnswerType == [kind : {"ok", "error"}, to : Hashes, term : 1..MaxTerm]
WireType == HelloType \cup AnswerType

LEMMA ResubIsCaller == "resub" \in Callers /\ PageCalls \subseteq Callers
BY DEF Callers

LEMMA CallTypes ==
  /\ NotCalling \in CallType
  /\ \A c \in CallType : c.st \in {"idle", "waiting", "lost", "sleep"} /\ c.tries \in 0..MaxTries
  /\ \A c \in CallType : c.tries < MaxTries => [c EXCEPT !.st = "waiting"] \in CallType
  /\ \A c \in CallType : c.st = "waiting" => [st |-> "lost", tries |-> c.tries + 1] \in CallType
  /\ \A c \in CallType : c.st = "lost" => [c EXCEPT !.st = "sleep"] \in CallType
  /\ \A c \in CallType : [c EXCEPT !.st = "waiting"].st = "waiting"
  /\ \A c \in CallType : [c EXCEPT !.st = "sleep"].st = "sleep"
BY DEF CallType, CallState, NotCalling

LEMMA TabTypes ==
  ASSUME NEW t \in TabType
  PROVE  /\ t.kept \in SUBSET Hashes /\ t.pend \in SUBSET Hashes /\ t.faults \in SUBSET Hashes
         /\ t.sinks \in [Hashes -> SUBSET Callers] /\ t.source \in [Hashes -> 0..MaxTerm]
         /\ t.info \in 0..MaxTerm /\ t.resub \in ResubType
         /\ t.call \in [Hashes -> [Callers -> CallType]]
         /\ \A h \in Hashes, k \in Callers : t.call[h][k] \in CallType
BY DEF TabType

-----------------------------------------------------------------------------
(* Requests                                                                 *)

\* A step that makes at most one hash pending posts at most one request.
LEMMA PostsOne ==
  ASSUME NEW t, NEW n, NEW g \in Hashes, n.pend \ t.pend = {g}
  PROVE  Posts(t, n) = <<Request("subscribe", g)>>
<1> DEFINE S == {Request("subscribe", h) : h \in n.pend \ t.pend}
           x == Request("subscribe", g)
           F == [1..1 -> {x}]
<1>1. S = {x}
  OBVIOUS
<1>2. Cardinality(S) = 1
  BY <1>1, FS_Singleton
<1>3. <<x>> \in F /\ IsInjective(<<x>>)
  BY DEF IsInjective
<1>4. \A f \in F : f = <<x>>
  OBVIOUS
<1>5. SetToSeq(S) = CHOOSE f \in F : IsInjective(f)
  BY <1>1, <1>2 DEF SetToSeq
<1>6. SetToSeq(S) \in F
  BY <1>3, <1>5
<1> QED
  BY <1>4, <1>6 DEF Posts

LEMMA PostsNone ==
  ASSUME NEW t, NEW n, n.pend \ t.pend = {}
  PROVE  Posts(t, n) = <<>>
<1> DEFINE S == {Request("subscribe", h) : h \in n.pend \ t.pend}
           F == [1..0 -> {}]
<1>1. S = {}
  OBVIOUS
<1>2. Cardinality(S) = 0
  BY <1>1, FS_EmptySet
<1>3. <<>> \in F /\ IsInjective(<<>>)
  BY DEF IsInjective
<1>4. SetToSeq(S) = CHOOSE f \in F : IsInjective(f)
  BY <1>1, <1>2 DEF SetToSeq
<1>5. SetToSeq(S) \in F
  BY <1>3, <1>4
<1> QED
  BY <1>5 DEF Posts

-----------------------------------------------------------------------------
(* What the operators of the follower do                                    *)

\* The fields that callStream leaves alone.
SameBut(t, n) ==
  /\ n.kept = t.kept /\ n.source = t.source /\ n.info = t.info
  /\ n.resub = t.resub /\ n.faults = t.faults

LEMMA CallingDoes ==
  ASSUME NEW t \in TabType, NEW h \in Hashes, NEW k \in Callers, t.call[h][k].tries < MaxTries,
         NEW n, n = Calling(t, h, k)
  PROVE  /\ n \in TabType /\ SameBut(t, n) /\ n.pend = t.pend \cup {h}
         /\ n.sinks[h] # {} /\ \A g \in Hashes \ {h} : n.sinks[g] = t.sinks[g]
         /\ \A g \in Hashes : Waiting(n, g) = IF g = h THEN Waiting(t, h) \cup {k} ELSE Waiting(t, g)
         /\ \A g \in Hashes : Calls(n, g) = IF g = h THEN Calls(t, h) \cup {k} ELSE Calls(t, g)
         /\ \A g \in Hashes, l \in Callers : g # h \/ l # k => n.call[g][l] = t.call[g][l]
<1> DEFINE c == [t.call EXCEPT ![h][k].st = "waiting"]
           s == [t.sinks EXCEPT ![h] = IF h \in t.pend THEN @ \cup {k} ELSE {k}]
<1>1. /\ n = [t EXCEPT !.call = c, !.sinks = s, !.pend = @ \cup {h}]
  BY DEF Calling
<1>2. /\ c \in [Hashes -> [Callers -> CallType]]
      /\ \A g \in Hashes, l \in Callers :
           /\ c[g][l].st = IF g = h /\ l = k THEN "waiting" ELSE t.call[g][l].st
           /\ g # h \/ l # k => c[g][l] = t.call[g][l]
  BY TabTypes, CallTypes
<1>3. s \in [Hashes -> SUBSET Callers] /\ s[h] # {} /\ \A g \in Hashes \ {h} : s[g] = t.sinks[g]
  BY TabTypes
<1> HIDE DEF c, s
<1>4. /\ n.call = c /\ n.sinks = s /\ n.pend = t.pend \cup {h} /\ SameBut(t, n)
  BY <1>1 DEF TabType, SameBut
<1>5. n \in TabType
  <2>1. t.pend \cup {h} \in SUBSET Hashes
    BY TabTypes
  <2> QED
    BY <1>1, <1>2, <1>3, <2>1 DEF TabType
<1>6. \A g \in Hashes : Waiting(n, g) = IF g = h THEN Waiting(t, h) \cup {k} ELSE Waiting(t, g)
  BY <1>2, <1>4 DEF Waiting
<1>7. \A g \in Hashes : Calls(n, g) = IF g = h THEN Calls(t, h) \cup {k} ELSE Calls(t, g)
  BY <1>2, <1>4 DEF Calls
<1> QED
  BY <1>2, <1>3, <1>4, <1>5, <1>6, <1>7

-----------------------------------------------------------------------------
(* The invariant of the follower                                            *)

PendHeard(t) == \A h \in Hashes : h \in t.pend <=> Waiting(t, h) # {}
ResubHeard(t) == \A h \in Hashes : (t.resub.on /\ t.resub.at = h) <=> "resub" \in Calls(t, h)
ResubInv(t) == IF t.resub.on THEN t.resub.at \in Hashes ELSE t.resub = NoResub

\* A pending call has its handlers.
Attended(t) == \A h \in t.pend \ t.faults : t.sinks[h] # {}

\* What is not kept is not called and has no handlers.
Dropped(t) == \A h \in Hashes \ (t.kept \cup t.faults) : Calls(t, h) = {} /\ t.sinks[h] = {}

\* The page has handlers, and takes the messages of the leader it knows or of
\* one after it.
Current(t, h) == t.sinks[h] # {} /\ t.source[h] >= t.info

\* What is kept and not called is current, or the resubscription comes to it.
Covered(t) ==
  \A h \in t.kept \ t.faults :
    Calls(t, h) = {} /\ (t.resub.on => h \in t.resub.done) => Current(t, h)

TabInv(t) ==
  /\ t \in TabType
  /\ PendHeard(t) /\ ResubHeard(t) /\ ResubInv(t)
  /\ Attended(t) /\ Dropped(t) /\ Covered(t)

\* At most one call more is pending in n than in p.
Joins(p, n) == n.pend = p \/ \E g \in Hashes : n.pend = p \cup {g}

\* The resubscription goes on from a state in which it is in no call, and what
\* it has been through is current.
LEMMA NextResubDoes ==
  ASSUME NEW t \in TabType, PendHeard(t), Attended(t), Dropped(t),
         \A h \in Hashes : "resub" \notin Calls(t, h),
         \A h \in t.kept \ t.faults :
           Calls(t, h) = {} /\ h \in t.resub.done => Current(t, h),
         NEW n \in NextResub(t)
  PROVE  /\ TabInv(n) /\ Joins(t.pend, n)
         /\ n.kept = t.kept /\ n.source = t.source /\ n.info = t.info /\ n.faults = t.faults
         /\ \A h \in Hashes : \A k \in Calls(t, h) : n.call[h][k] = t.call[h][k]
<1> DEFINE left == t.kept \ t.resub.done
<1>1. CASE left = {}
  <2>1. n = [t EXCEPT !.resub = NoResub]
    BY <1>1 DEF NextResub
  <2>2. NoResub \in ResubType /\ NoResub.on = FALSE
    BY DEF NoResub, ResubType
  <2>3. /\ n.kept = t.kept /\ n.source = t.source /\ n.info = t.info /\ n.faults = t.faults
        /\ n.pend = t.pend /\ n.call = t.call /\ n.sinks = t.sinks /\ n.resub = NoResub
    BY <2>1 DEF TabType
  <2>4. n \in TabType
    BY <2>1, <2>2 DEF TabType
  <2>5. \A h \in Hashes : Waiting(n, h) = Waiting(t, h) /\ Calls(n, h) = Calls(t, h)
    BY <2>3 DEF Waiting, Calls
  <2>6. \A h : Current(n, h) <=> Current(t, h)
    BY <2>3 DEF Current
  <2>7. PendHeard(n) /\ ResubHeard(n) /\ ResubInv(n) /\ Attended(n) /\ Dropped(n)
    BY <2>2, <2>3, <2>5 DEF PendHeard, ResubHeard, ResubInv, Attended, Dropped
  <2>8. Covered(n)
    BY <1>1, <2>3, <2>5, <2>6, TabTypes DEF Covered
  <2> QED
    BY <2>3, <2>4, <2>7, <2>8 DEF TabInv, Joins
<1>2. CASE left # {}
  <2>1. PICK h \in left :
          n = Calling([t EXCEPT !.resub = [on |-> TRUE, at |-> h, done |-> @.done \cup {h}]],
                      h, "resub")
    BY <1>2 DEF NextResub
  <2>2. h \in Hashes /\ h \in t.kept
    BY <2>1, TabTypes
  <2> DEFINE r == [on |-> TRUE, at |-> h, done |-> t.resub.done \cup {h}]
             u == [t EXCEPT !.resub = r]
  <2>3. r \in ResubType
    <3>1. t.resub.done \cup {h} \in SUBSET Hashes
      BY <2>2, TabTypes DEF ResubType
    <3> QED
      BY <2>2, <3>1 DEF ResubType
  <2>4. r.on = TRUE /\ r.at = h /\ r.done = t.resub.done \cup {h}
    OBVIOUS
  <2> HIDE DEF r
  <2>5. u \in TabType
    BY <2>3 DEF TabType
  <2>6. /\ u.kept = t.kept /\ u.source = t.source /\ u.info = t.info /\ u.faults = t.faults
        /\ u.pend = t.pend /\ u.call = t.call /\ u.sinks = t.sinks /\ u.resub = r
    BY DEF TabType
  <2>7. n = Calling(u, h, "resub")
    BY <2>1 DEF r
  <2> HIDE DEF u
  <2>8. u.call[h]["resub"].tries < MaxTries
    <3>1. t.call[h]["resub"] \in CallType /\ t.call[h]["resub"].st = "idle"
      BY <2>2, TabTypes, ResubIsCaller DEF Calls
    <3> QED
      BY <2>6, <3>1 DEF CallType
  <2>9. \A g \in Hashes : Waiting(u, g) = Waiting(t, g) /\ Calls(u, g) = Calls(t, g)
    BY <2>6 DEF Waiting, Calls
  <2>10. /\ n \in TabType /\ SameBut(u, n) /\ n.pend = u.pend \cup {h}
         /\ n.sinks[h] # {} /\ \A g \in Hashes \ {h} : n.sinks[g] = u.sinks[g]
         /\ \A g \in Hashes : Waiting(n, g) = IF g = h THEN Waiting(u, h) \cup {"resub"} ELSE Waiting(u, g)
         /\ \A g \in Hashes : Calls(n, g) = IF g = h THEN Calls(u, h) \cup {"resub"} ELSE Calls(u, g)
         /\ \A g \in Hashes, l \in Callers : g # h \/ l # "resub" => n.call[g][l] = u.call[g][l]
    BY <2>2, <2>5, <2>7, <2>8, CallingDoes, ResubIsCaller
  <2>11. /\ n.kept = t.kept /\ n.source = t.source /\ n.info = t.info /\ n.faults = t.faults
         /\ n.pend = t.pend \cup {h} /\ n.resub = r
    BY <2>6, <2>10 DEF SameBut
  <2>12. PendHeard(n)
    BY <2>9, <2>10, <2>11 DEF PendHeard
  <2>13. ResubHeard(n) /\ ResubInv(n)
    BY <2>2, <2>4, <2>9, <2>10, <2>11 DEF ResubHeard, ResubInv
  <2>14. Attended(n) /\ Dropped(n)
    BY <2>2, <2>6, <2>9, <2>10, <2>11, TabTypes DEF Attended, Dropped
  <2>15. Covered(n)
    <3> SUFFICES ASSUME NEW g \in t.kept \ t.faults, Calls(n, g) = {}, g \in r.done
                 PROVE  Current(n, g)
      BY <2>4, <2>11 DEF Covered
    <3>1. g \in Hashes /\ g # h
      BY <2>2, <2>10, TabTypes
    <3>2. Current(t, g)
      BY <2>4, <2>9, <2>10, <3>1
    <3> QED
      BY <2>6, <2>10, <2>11, <3>1, <3>2 DEF Current
  <2>16. \A g \in Hashes : \A k \in Calls(t, g) : n.call[g][k] = t.call[g][k]
    BY <2>6, <2>10 DEF Calls
  <2> QED
    BY <2>2, <2>10, <2>11, <2>12, <2>13, <2>14, <2>15, <2>16 DEF TabInv, Joins
<1> QED
  BY <1>1, <1>2

LEMMA SameCalls ==
  ASSUME NEW t, NEW n, n.call = t.call
  PROVE  \A h : Waiting(n, h) = Waiting(t, h) /\ Calls(n, h) = Calls(t, h)
BY DEF Waiting, Calls

LEMMA FaultsGrow ==
  ASSUME NEW t, TabInv(t), NEW F \in SUBSET Hashes,
         NEW n, n = [t EXCEPT !.faults = @ \cup F]
  PROVE  /\ TabInv(n) /\ n.kept = t.kept /\ n.source = t.source /\ n.info = t.info
         /\ n.pend = t.pend /\ n.faults = t.faults \cup F
<1>1. t \in TabType
  BY DEF TabInv
<1>2. t.faults \cup F \in SUBSET Hashes
  BY <1>1, TabTypes
<1>3. n \in TabType
  BY <1>1, <1>2 DEF TabType
<1>4. /\ n.kept = t.kept /\ n.source = t.source /\ n.info = t.info /\ n.resub = t.resub
      /\ n.pend = t.pend /\ n.faults = t.faults \cup F /\ n.sinks = t.sinks /\ n.call = t.call
  BY <1>1 DEF TabType
<1>5. \A h : Waiting(n, h) = Waiting(t, h) /\ Calls(n, h) = Calls(t, h)
  BY <1>4, SameCalls
<1>6. PendHeard(n) /\ ResubHeard(n) /\ ResubInv(n)
  BY <1>4, <1>5 DEF TabInv, PendHeard, ResubHeard, ResubInv
<1>7. Attended(n) /\ Dropped(n)
  BY <1>4, <1>5 DEF TabInv, Attended, Dropped
<1>8. Covered(n)
  BY <1>4, <1>5 DEF TabInv, Covered, Current
<1> QED
  BY <1>3, <1>4, <1>6, <1>7, <1>8 DEF TabInv

\* A caller of h, whose call keeps h from being judged, is waiting again.
LEMMA CallingKeeps ==
  ASSUME NEW t \in TabType, PendHeard(t), ResubHeard(t), ResubInv(t), Attended(t), Dropped(t),
         NEW h \in t.kept \cup t.faults, NEW k \in Callers,
         \A g \in (t.kept \ t.faults) \ {h} :
           Calls(t, g) = {} /\ (t.resub.on => g \in t.resub.done) => Current(t, g),
         t.call[h][k].tries < MaxTries, k # "resub" \/ "resub" \in Calls(t, h),
         NEW n, n = Calling(t, h, k)
  PROVE  TabInv(n) /\ Joins(t.pend, n) /\ SameBut(t, n)
<1>1. h \in Hashes
  BY TabTypes
<1>2. /\ n \in TabType /\ SameBut(t, n) /\ n.pend = t.pend \cup {h}
      /\ n.sinks[h] # {} /\ \A g \in Hashes \ {h} : n.sinks[g] = t.sinks[g]
      /\ \A g \in Hashes : Waiting(n, g) = IF g = h THEN Waiting(t, h) \cup {k} ELSE Waiting(t, g)
      /\ \A g \in Hashes : Calls(n, g) = IF g = h THEN Calls(t, h) \cup {k} ELSE Calls(t, g)
  BY <1>1, CallingDoes
<1>3. PendHeard(n)
  BY <1>2 DEF PendHeard
<1>4. ResubHeard(n) /\ ResubInv(n)
  BY <1>2 DEF ResubHeard, ResubInv, SameBut
<1>5. Attended(n) /\ Dropped(n)
  BY <1>1, <1>2, TabTypes DEF Attended, Dropped, SameBut
<1>6. Covered(n)
  <2> SUFFICES ASSUME NEW g \in t.kept \ t.faults, Calls(n, g) = {}, t.resub.on => g \in t.resub.done
               PROVE  Current(n, g)
    BY <1>2 DEF Covered, SameBut
  <2>1. g \in Hashes /\ g # h
    BY <1>2, TabTypes
  <2>2. Current(t, g)
    BY <1>2, <2>1
  <2> QED
    BY <1>2, <2>1, <2>2 DEF Current, SameBut
<1> QED
  BY <1>1, <1>2, <1>3, <1>4, <1>5, <1>6 DEF TabInv, Joins

\* updateLeaderInfo.
LEMMA LearnDoes ==
  ASSUME NEW t, TabInv(t), NEW info \in 0..MaxTerm, NEW n \in Learn(t, info)
  PROVE  /\ TabInv(n) /\ Joins(t.pend, n)
         /\ n.kept = t.kept /\ n.source = t.source /\ n.info = info /\ t.faults \subseteq n.faults
         /\ \A h \in Hashes : \A k \in Calls(t, h) : n.call[h][k] = t.call[h][k]
<1> DEFINE u == [t EXCEPT !.info = info]
           F == t.resub.done \ {t.resub.at}
<1>1. t \in TabType
  BY DEF TabInv
<1>2. u \in TabType
  BY <1>1 DEF TabType
<1>3. /\ u.kept = t.kept /\ u.source = t.source /\ u.info = info /\ u.resub = t.resub
      /\ u.pend = t.pend /\ u.faults = t.faults /\ u.sinks = t.sinks /\ u.call = t.call
  BY <1>1 DEF TabType
<1>4. n \in (IF info \in {0, t.info} \/ t.kept = {} THEN {u}
             ELSE IF t.resub.on THEN {[u EXCEPT !.faults = @ \cup F]}
             ELSE NextResub(u))
  BY DEF Learn
<1> HIDE DEF u
<1>5. \A h : Waiting(u, h) = Waiting(t, h) /\ Calls(u, h) = Calls(t, h)
  BY <1>3, SameCalls
<1>6. PendHeard(u) /\ ResubHeard(u) /\ ResubInv(u) /\ Attended(u) /\ Dropped(u)
  BY <1>3, <1>5 DEF TabInv, PendHeard, ResubHeard, ResubInv, Attended, Dropped
<1>7. CASE info \in {0, t.info} \/ t.kept = {}
  <2>1. Covered(u)
    <3> SUFFICES ASSUME NEW h \in t.kept \ t.faults, Current(t, h)
                 PROVE  Current(u, h)
      BY <1>3, <1>5 DEF TabInv, Covered
    <3>1. t.source[h] \in 0..MaxTerm /\ info \in {0, t.info}
      BY <1>1, <1>7, TabTypes
    <3> QED
      BY <1>3, <3>1 DEF Current
  <2>2. n = u
    BY <1>4, <1>7
  <2>3. TabInv(n)
    BY <1>2, <1>6, <2>1, <2>2 DEF TabInv
  <2> QED
    BY <1>3, <2>2, <2>3 DEF Joins
<1>8. CASE ~(info \in {0, t.info} \/ t.kept = {}) /\ t.resub.on
  <2>1. n = [u EXCEPT !.faults = @ \cup F]
    BY <1>4, <1>8
  <2>2. u.faults \cup F \in SUBSET Hashes
    BY <1>1, <1>3, TabTypes DEF ResubType
  <2> HIDE DEF F
  <2>3. n \in TabType
    BY <1>2, <2>1, <2>2 DEF TabType
  <2>4. /\ n.kept = t.kept /\ n.source = t.source /\ n.info = info /\ n.resub = t.resub
        /\ n.pend = t.pend /\ n.faults = t.faults \cup F /\ n.sinks = t.sinks /\ n.call = t.call
    BY <1>2, <1>3, <2>1 DEF TabType
  <2>5. \A h : Waiting(n, h) = Waiting(t, h) /\ Calls(n, h) = Calls(t, h)
    BY <2>4, SameCalls
  <2>6. PendHeard(n) /\ ResubHeard(n) /\ ResubInv(n)
    BY <2>4, <2>5 DEF TabInv, PendHeard, ResubHeard, ResubInv
  <2>7. Attended(n) /\ Dropped(n)
    BY <2>4, <2>5 DEF TabInv, Attended, Dropped
  <2>8. Covered(n)
    <3> SUFFICES ASSUME NEW h \in t.kept \ (t.faults \cup F), Calls(t, h) = {}, h \in t.resub.done
                 PROVE  FALSE
      BY <1>8, <2>4, <2>5 DEF Covered
    <3>1. h \in Hashes /\ h = t.resub.at
      BY <1>1, TabTypes DEF F
    <3> QED
      BY <1>8, <3>1 DEF TabInv, ResubHeard
  <2> QED
    BY <2>3, <2>4, <2>6, <2>7, <2>8 DEF TabInv, Joins
<1>9. CASE ~(info \in {0, t.info} \/ t.kept = {}) /\ ~t.resub.on
  <2>1. t.resub = NoResub
    BY <1>9 DEF TabInv, ResubInv
  <2>2. \A h \in Hashes : "resub" \notin Calls(u, h)
    BY <1>5, <1>9 DEF TabInv, ResubHeard
  <2>3. u.resub.done = {}
    BY <1>3, <2>1 DEF NoResub
  <2>4. n \in NextResub(u)
    BY <1>4, <1>9
  <2>5. /\ TabInv(n) /\ Joins(u.pend, n)
        /\ n.kept = u.kept /\ n.source = u.source /\ n.info = u.info /\ n.faults = u.faults
        /\ \A h \in Hashes : \A k \in Calls(u, h) : n.call[h][k] = u.call[h][k]
    BY <1>2, <1>6, <2>2, <2>3, <2>4, NextResubDoes
  <2> QED
    BY <1>3, <1>5, <2>5
<1> QED
  BY <1>7, <1>8, <1>9

\* The promise of a pending call is resolved.
LEMMA ResolvedDoes ==
  ASSUME NEW t, TabInv(t), NEW h \in t.pend, NEW i \in 1..MaxTerm, i >= t.info,
         NEW n \in Resolved(t, h, i)
  PROVE  /\ TabInv(n) /\ Joins(t.pend \ {h}, n)
         /\ n.kept = t.kept /\ n.info = t.info /\ n.faults = t.faults
         /\ \A g \in Hashes \ {h} : n.source[g] = t.source[g]
         /\ n.source[h] \in {t.source[h], i}
<1> DEFINE c == [k \in Callers |-> IF k \in Waiting(t, h) THEN NotCalling ELSE t.call[h][k]]
           x == IF t.sinks[h] = {} THEN t.source[h] ELSE i
           u == [t EXCEPT !.pend = @ \ {h}, !.source[h] = x, !.call[h] = c]
<1>1. t \in TabType /\ h \in Hashes /\ h \in t.pend
  BY TabTypes DEF TabInv
<1>2. n \in (IF "resub" \in Waiting(t, h) THEN NextResub(u) ELSE {u})
  BY DEF Resolved
<1>3. /\ c \in [Callers -> CallType]
      /\ \A k \in Callers : c[k].st = IF k \in Waiting(t, h) THEN "idle" ELSE t.call[h][k].st
  BY <1>1, TabTypes, CallTypes DEF NotCalling
<1>4. x \in 0..MaxTerm
  BY <1>1, TabTypes
<1> HIDE DEF c, x
<1>5. t.pend \ {h} \in SUBSET Hashes
  BY <1>1, TabTypes
<1>6. u \in TabType
  BY <1>1, <1>3, <1>4, <1>5 DEF TabType
<1>7. /\ u.kept = t.kept /\ u.info = t.info /\ u.resub = t.resub /\ u.faults = t.faults
      /\ u.pend = t.pend \ {h} /\ u.sinks = t.sinks
      /\ u.source = [t.source EXCEPT ![h] = x] /\ u.call = [t.call EXCEPT ![h] = c]
  BY <1>1 DEF TabType
<1> HIDE DEF u
<1>8. /\ u.source[h] = x /\ \A g \in Hashes \ {h} : u.source[g] = t.source[g]
      /\ u.call[h] = c /\ \A g \in Hashes \ {h} : u.call[g] = t.call[g]
  BY <1>1, <1>7, TabTypes
<1>9. /\ Waiting(u, h) = {} /\ Calls(u, h) = Calls(t, h) \ Waiting(t, h)
      /\ \A g \in Hashes \ {h} : Waiting(u, g) = Waiting(t, g) /\ Calls(u, g) = Calls(t, g)
  BY <1>3, <1>8 DEF Waiting, Calls
<1>10. PendHeard(u) /\ ResubInv(u) /\ Attended(u) /\ Dropped(u)
  <2>1. PendHeard(u)
    BY <1>7, <1>9 DEF TabInv, PendHeard
  <2>2. ResubInv(u) /\ Attended(u)
    BY <1>7 DEF TabInv, ResubInv, Attended
  <2>3. Dropped(u)
    BY <1>7, <1>9 DEF TabInv, Dropped
  <2> QED
    BY <2>1, <2>2, <2>3
<1>11. h \notin t.faults => Current(u, h)
  <2> SUFFICES ASSUME h \notin t.faults PROVE Current(u, h)
    OBVIOUS
  <2>1. t.sinks[h] # {}
    BY <1>1 DEF TabInv, Attended
  <2> QED
    BY <1>7, <1>8, <2>1 DEF Current, x
<1>12. \A g \in t.kept \ t.faults :
         Calls(u, g) = {} /\ (t.resub.on => g \in t.resub.done) => Current(u, g)
  <2> SUFFICES ASSUME NEW g \in t.kept \ t.faults, g # h,
                      Calls(u, g) = {}, t.resub.on => g \in t.resub.done
               PROVE  Current(u, g)
    BY <1>11
  <2>1. g \in Hashes \ {h}
    BY <1>1, TabTypes
  <2>2. Current(t, g)
    BY <1>9, <2>1 DEF TabInv, Covered
  <2> QED
    BY <1>7, <1>8, <2>1, <2>2 DEF Current
<1>13. CASE "resub" \in Waiting(t, h)
  <2>1. "resub" \in Calls(t, h)
    BY <1>13 DEF Waiting, Calls
  <2>2. t.resub.on /\ t.resub.at = h
    BY <1>1, <2>1 DEF TabInv, ResubHeard
  <2>3. \A g \in Hashes : "resub" \notin Calls(u, g)
    <3>1. "resub" \notin Calls(u, h)
      BY <1>9, <1>13
    <3>2. ASSUME NEW g \in Hashes \ {h} PROVE "resub" \notin Calls(u, g)
      BY <1>9, <2>2 DEF TabInv, ResubHeard
    <3> QED
      BY <3>1, <3>2
  <2>4. \A g \in u.kept \ u.faults : Calls(u, g) = {} /\ g \in u.resub.done => Current(u, g)
    BY <1>7, <1>12
  <2>5. n \in NextResub(u)
    BY <1>2, <1>13
  <2>6. /\ TabInv(n) /\ Joins(u.pend, n)
        /\ n.kept = u.kept /\ n.source = u.source /\ n.info = u.info /\ n.faults = u.faults
    BY <1>6, <1>10, <2>3, <2>4, <2>5, NextResubDoes
  <2> QED
    BY <1>7, <1>8, <2>6 DEF x
<1>14. CASE "resub" \notin Waiting(t, h)
  <2>1. n = u
    BY <1>2, <1>14
  <2>2. \A g \in Hashes : "resub" \in Calls(u, g) <=> "resub" \in Calls(t, g)
    BY <1>9, <1>14
  <2>3. ResubHeard(u)
    BY <1>7, <2>2 DEF TabInv, ResubHeard
  <2>4. Covered(u)
    BY <1>7, <1>12 DEF Covered
  <2>5. TabInv(n)
    BY <1>6, <1>10, <2>1, <2>3, <2>4 DEF TabInv
  <2>6. Joins(t.pend \ {h}, n)
    BY <1>7, <2>1 DEF Joins
  <2> QED
    BY <1>7, <1>8, <2>1, <2>5, <2>6 DEF x
<1> QED
  BY <1>13, <1>14

\* The promise of a pending call is rejected.
LEMMA RejectedDoes ==
  ASSUME NEW t, TabInv(t), NEW h \in t.pend, NEW n, n = Rejected(t, h)
  PROVE  /\ TabInv(n) /\ n.pend = t.pend \ {h} /\ n.kept = t.kept /\ n.info = t.info
         /\ n.faults = t.faults /\ n.source = t.source /\ Calls(n, h) # {}
<1> DEFINE c == [k \in Callers |-> IF k \in Waiting(t, h)
                                   THEN [st |-> "lost", tries |-> t.call[h][k].tries + 1]
                                   ELSE t.call[h][k]]
<1>1. t \in TabType /\ h \in Hashes /\ h \in t.pend
  BY TabTypes DEF TabInv
<1>2. n = [t EXCEPT !.pend = @ \ {h}, !.sinks[h] = {}, !.call[h] = c]
  BY DEF Rejected
<1>3. /\ c \in [Callers -> CallType]
      /\ \A k \in Callers : c[k].st = IF k \in Waiting(t, h) THEN "lost" ELSE t.call[h][k].st
  <2>1. ASSUME NEW k \in Callers PROVE c[k] \in CallType
    BY <1>1, TabTypes, CallTypes DEF Waiting
  <2> QED
    BY <2>1
<1> HIDE DEF c
<1>4. t.pend \ {h} \in SUBSET Hashes
  BY <1>1, TabTypes
<1>5. n \in TabType
  <2> DEFINE s == [t.sinks EXCEPT ![h] = {}]
             d == [t.call EXCEPT ![h] = c]
  <2>1. s \in [Hashes -> SUBSET Callers] /\ d \in [Hashes -> [Callers -> CallType]]
    BY <1>1, <1>3, TabTypes
  <2>2. n = [t EXCEPT !.pend = t.pend \ {h}, !.sinks = s, !.call = d]
    BY <1>2
  <2> HIDE DEF s, d
  <2> QED
    BY <1>1, <1>4, <2>1, <2>2 DEF TabType
<1>6. /\ n.kept = t.kept /\ n.info = t.info /\ n.resub = t.resub /\ n.faults = t.faults
      /\ n.pend = t.pend \ {h} /\ n.source = t.source
      /\ n.sinks = [t.sinks EXCEPT ![h] = {}] /\ n.call = [t.call EXCEPT ![h] = c]
  BY <1>1, <1>2 DEF TabType
<1>7. /\ n.sinks[h] = {} /\ \A g \in Hashes \ {h} : n.sinks[g] = t.sinks[g]
      /\ n.call[h] = c /\ \A g \in Hashes \ {h} : n.call[g] = t.call[g]
  BY <1>1, <1>6, TabTypes
<1>8. /\ Waiting(n, h) = {} /\ Calls(n, h) = Calls(t, h)
      /\ \A g \in Hashes \ {h} : Waiting(n, g) = Waiting(t, g) /\ Calls(n, g) = Calls(t, g)
  BY <1>3, <1>7 DEF Waiting, Calls
<1>9. Calls(t, h) # {}
  <2>1. Waiting(t, h) # {}
    BY <1>1 DEF TabInv, PendHeard
  <2> QED
    BY <2>1 DEF Waiting, Calls
<1>10. PendHeard(n)
  BY <1>6, <1>8 DEF TabInv, PendHeard
<1>11. ResubHeard(n) /\ ResubInv(n)
  BY <1>1, <1>6, <1>8 DEF TabInv, ResubHeard, ResubInv
<1>12. Attended(n)
  BY <1>1, <1>6, <1>7, TabTypes DEF TabInv, Attended
<1>13. Dropped(n)
  BY <1>6, <1>7, <1>8 DEF TabInv, Dropped
<1>14. Covered(n)
  <2> SUFFICES ASSUME NEW g \in t.kept \ t.faults, Calls(n, g) = {}, t.resub.on => g \in t.resub.done
               PROVE  Current(n, g)
    BY <1>6 DEF Covered
  <2>1. g \in Hashes \ {h}
    BY <1>1, <1>8, <1>9, TabTypes
  <2>2. Current(t, g)
    BY <1>8, <2>1 DEF TabInv, Covered
  <2> QED
    BY <1>6, <1>7, <2>1, <2>2 DEF Current
<1> QED
  BY <1>5, <1>6, <1>8, <1>9, <1>10, <1>11, <1>12, <1>13, <1>14 DEF TabInv

\* An error leaves the stream without a source as well.
Cleared(t, h) == [t EXCEPT !.source[h] = 0]

LEMMA SourceCleared ==
  ASSUME NEW t, TabInv(t), NEW h \in Hashes, Calls(t, h) # {},
         NEW n, n = Cleared(t, h)
  PROVE  /\ TabInv(n) /\ n.pend = t.pend /\ n.kept = t.kept /\ n.info = t.info
         /\ n.faults = t.faults /\ n.source[h] = 0
         /\ \A g \in Hashes \ {h} : n.source[g] = t.source[g]
<1>1. t \in TabType
  BY DEF TabInv
<1>2. n \in TabType
  <2> DEFINE x == [t.source EXCEPT ![h] = 0]
  <2>1. x \in [Hashes -> 0..MaxTerm]
    BY <1>1, TabTypes
  <2>2. n = [t EXCEPT !.source = x]
    BY DEF Cleared
  <2> HIDE DEF x
  <2> QED
    BY <1>1, <2>1, <2>2 DEF TabType
<1>3. /\ n.kept = t.kept /\ n.info = t.info /\ n.resub = t.resub /\ n.faults = t.faults
      /\ n.pend = t.pend /\ n.sinks = t.sinks /\ n.call = t.call
      /\ n.source = [t.source EXCEPT ![h] = 0]
  BY <1>1 DEF TabType, Cleared
<1>4. n.source[h] = 0 /\ \A g \in Hashes \ {h} : n.source[g] = t.source[g]
  BY <1>1, <1>3, TabTypes
<1>5. \A g : Waiting(n, g) = Waiting(t, g) /\ Calls(n, g) = Calls(t, g)
  BY <1>3, SameCalls
<1>6. PendHeard(n) /\ ResubHeard(n) /\ ResubInv(n) /\ Attended(n) /\ Dropped(n)
  BY <1>3, <1>5 DEF TabInv, PendHeard, ResubHeard, ResubInv, Attended, Dropped
<1>7. Covered(n)
  <2> SUFFICES ASSUME NEW g \in t.kept \ t.faults, Calls(n, g) = {}, t.resub.on => g \in t.resub.done
               PROVE  Current(n, g)
    BY <1>3 DEF Covered
  <2>1. g \in Hashes \ {h} /\ Current(t, g)
    BY <1>1, <1>5, TabTypes DEF TabInv, Covered
  <2> QED
    BY <1>3, <1>4, <2>1 DEF Current
<1> QED
  BY <1>2, <1>3, <1>4, <1>6, <1>7 DEF TabInv

-----------------------------------------------------------------------------
(* What the actions of the follower do                                      *)

\* At most one request is added to those the server holds, of a call that is
\* pending now and was not.
Posted(p, n) ==
  \/ inbox' = inbox
  \/ \E g \in n.pend \ p : leader # 0 /\ inbox' = Append(inbox, Request("subscribe", g))

LEMMA PostDoes ==
  ASSUME NEW t, t.pend \in SUBSET Hashes, NEW n, Joins(t.pend, n), inbox \in Seq(RequestType),
         Post(Posts(t, n))
  PROVE  Posted(t.pend, n)
<1>1. CASE n.pend \ t.pend = {}
  <2>1. Posts(t, n) = <<>>
    BY <1>1, PostsNone
  <2>2. inbox \o <<>> = inbox
    OBVIOUS
  <2> QED
    BY <2>1, <2>2 DEF Post, Posted
<1>2. CASE n.pend \ t.pend # {}
  <2>1. PICK g \in Hashes : n.pend = t.pend \cup {g}
    BY <1>2 DEF Joins
  <2>2. n.pend \ t.pend = {g}
    BY <1>2, <2>1
  <2>3. Posts(t, n) = <<Request("subscribe", g)>>
    BY <2>2, PostsOne
  <2>4. Request("subscribe", g) \in RequestType
    BY DEF Request, RequestType
  <2>5. inbox \o <<Request("subscribe", g)>> = Append(inbox, Request("subscribe", g))
    BY <2>4
  <2> QED
    BY <2>2, <2>3, <2>5 DEF Post, Posted
<1> QED
  BY <1>1, <1>2

\* The follower goes from tab to n: calls join, hashes are kept, faults are
\* noted, but no call ends and no stream changes.
Grows(n) ==
  /\ TabInv(n) /\ Joins(tab.pend, n) /\ Posted(tab.pend, n)
  /\ tab.kept \subseteq n.kept /\ tab.faults \subseteq n.faults /\ n.source = tab.source

LEMMA SubscribeDoes ==
  ASSUME TabInv(tab), inbox \in Seq(RequestType), NEW h \in Hashes, NEW k \in PageCalls,
         Subscribe(h, k)
  PROVE  Grows(tab') /\ tab'.info = tab.info
<1> DEFINE u == [tab EXCEPT !.kept = @ \cup {h}]
<1>1. tab \in TabType
  BY DEF TabInv
<1>2. tab.kept \cup {h} \in SUBSET Hashes
  BY <1>1, TabTypes
<1>3. u \in TabType
  BY <1>1, <1>2 DEF TabType
<1>4. /\ u.kept = tab.kept \cup {h} /\ u.source = tab.source /\ u.info = tab.info
      /\ u.resub = tab.resub /\ u.pend = tab.pend /\ u.faults = tab.faults
      /\ u.sinks = tab.sinks /\ u.call = tab.call
  BY <1>1 DEF TabType
<1>5. tab' = Calling(u, h, k) /\ Post(Posts(tab, tab')) /\ tab.call[h][k].st = "idle"
  BY DEF Subscribe
<1> HIDE DEF u
<1>6. \A g : Waiting(u, g) = Waiting(tab, g) /\ Calls(u, g) = Calls(tab, g)
  BY <1>4, SameCalls
<1>7. PendHeard(u) /\ ResubHeard(u) /\ ResubInv(u) /\ Attended(u) /\ Dropped(u)
  BY <1>4, <1>6 DEF TabInv, PendHeard, ResubHeard, ResubInv, Attended, Dropped
<1>8. \A g \in (u.kept \ u.faults) \ {h} :
        Calls(u, g) = {} /\ (u.resub.on => g \in u.resub.done) => Current(u, g)
  BY <1>4, <1>6 DEF TabInv, Covered, Current
<1>9. u.call[h][k].tries < MaxTries /\ k # "resub" /\ k \in Callers
  <2>1. k \in Callers /\ k # "resub"
    BY ResubIsCaller
  <2>2. tab.call[h][k] \in CallType
    BY <1>1, <2>1, TabTypes
  <2> QED
    BY <1>4, <1>5, <2>1, <2>2 DEF CallType
<1>10. TabInv(tab') /\ Joins(u.pend, tab') /\ SameBut(u, tab')
  BY <1>3, <1>4, <1>5, <1>7, <1>8, <1>9, CallingKeeps
<1>11. Posted(tab.pend, tab')
  BY <1>1, <1>4, <1>5, <1>10, PostDoes, TabTypes
<1> QED
  BY <1>4, <1>10, <1>11 DEF Grows, SameBut

LEMMA RetryDoes ==
  ASSUME TabInv(tab), inbox \in Seq(RequestType), NEW h \in Hashes, NEW k \in Callers, Retry(h, k)
  PROVE  Grows(tab') /\ tab'.info = tab.info
<1>1. tab \in TabType
  BY DEF TabInv
<1>2. tab' = Calling(tab, h, k) /\ Post(Posts(tab, tab'))
  BY DEF Retry
<1>3. k \in Calls(tab, h) /\ tab.call[h][k].tries < MaxTries
  BY DEF Retry, Calls
<1>4. h \in tab.kept \cup tab.faults
  BY <1>3 DEF TabInv, Dropped
<1>5. TabInv(tab') /\ Joins(tab.pend, tab') /\ SameBut(tab, tab')
  <2>1. \A g \in (tab.kept \ tab.faults) \ {h} :
          Calls(tab, g) = {} /\ (tab.resub.on => g \in tab.resub.done) => Current(tab, g)
    BY DEF TabInv, Covered
  <2> QED
    BY <1>1, <1>2, <1>3, <1>4, <2>1, CallingKeeps DEF TabInv
<1>6. Posted(tab.pend, tab')
  BY <1>1, <1>2, <1>5, PostDoes, TabTypes
<1> QED
  BY <1>5, <1>6 DEF Grows, SameBut

\* A caller that has looked for a leader sleeps.
LEMMA SleepsKeeps ==
  ASSUME NEW t, TabInv(t), NEW h \in Hashes, NEW k \in Callers, t.call[h][k].st = "lost",
         NEW n, n = [t EXCEPT !.call[h][k].st = "sleep"]
  PROVE  TabInv(n) /\ SameBut(t, n) /\ n.pend = t.pend
<1> DEFINE c == [t.call EXCEPT ![h][k].st = "sleep"]
<1>1. t \in TabType
  BY DEF TabInv
<1>2. n = [t EXCEPT !.call = c]
  OBVIOUS
<1>3. /\ c \in [Hashes -> [Callers -> CallType]]
      /\ \A g \in Hashes, l \in Callers :
           c[g][l].st = IF g = h /\ l = k THEN "sleep" ELSE t.call[g][l].st
  BY <1>1, TabTypes, CallTypes
<1> HIDE DEF c
<1>4. n \in TabType
  BY <1>1, <1>2, <1>3 DEF TabType
<1>5. /\ n.call = c /\ n.kept = t.kept /\ n.info = t.info /\ n.resub = t.resub
      /\ n.faults = t.faults /\ n.pend = t.pend /\ n.sinks = t.sinks /\ n.source = t.source
  BY <1>1, <1>2 DEF TabType
<1>6. \A g \in Hashes : Waiting(n, g) = Waiting(t, g) /\ Calls(n, g) = Calls(t, g)
  BY <1>3, <1>5 DEF Waiting, Calls
<1>7. PendHeard(n) /\ ResubHeard(n) /\ ResubInv(n) /\ Attended(n) /\ Dropped(n)
  BY <1>5, <1>6 DEF TabInv, PendHeard, ResubHeard, ResubInv, Attended, Dropped
<1>8. Covered(n)
  BY <1>1, <1>5, <1>6, TabTypes DEF TabInv, Covered, Current
<1> QED
  BY <1>4, <1>5, <1>7, <1>8 DEF TabInv, SameBut

LEMMA LookDoes ==
  ASSUME TabInv(tab), inbox \in Seq(RequestType), leader \in 0..MaxTerm,
         NEW h \in Hashes, NEW k \in Callers, Look(h, k)
  PROVE  /\ Grows(tab')
         /\ tab'.info = tab.info \/ (leader # 0 /\ wire = <<>> /\ tab'.info = leader)
<1>1. PICK n \in {tab} \cup (IF leader = 0 \/ wire # <<>> THEN {} ELSE Learn(tab, leader)) :
        tab' = [n EXCEPT !.call[h][k].st = "sleep"] /\ Post(Posts(tab, n))
  BY DEF Look
<1>2. tab.call[h][k].st = "lost" /\ k \in Calls(tab, h)
  BY DEF Look, Calls
<1>3. /\ TabInv(n) /\ Joins(tab.pend, n) /\ n.call[h][k].st = "lost"
      /\ n.kept = tab.kept /\ n.source = tab.source /\ tab.faults \subseteq n.faults
      /\ n.info = tab.info \/ (leader # 0 /\ wire = <<>> /\ n.info = leader)
  <2>1. CASE n = tab
    BY <1>2, <2>1 DEF Joins
  <2>2. CASE leader # 0 /\ wire = <<>> /\ n \in Learn(tab, leader)
    BY <1>2, <2>2, LearnDoes
  <2> QED
    BY <2>1, <2>2
<1>4. TabInv(tab') /\ SameBut(n, tab') /\ tab'.pend = n.pend
  BY <1>1, <1>3, SleepsKeeps
<1>5. Posted(tab.pend, tab')
  <2>1. Posted(tab.pend, n)
    BY <1>1, <1>3, PostDoes, TabTypes DEF TabInv
  <2> QED
    BY <1>4, <2>1 DEF Posted
<1>6. Joins(tab.pend, tab')
  BY <1>3, <1>4 DEF Joins
<1> QED
  BY <1>3, <1>4, <1>5, <1>6 DEF Grows, SameBut

LEMMA GiveUpDoes ==
  ASSUME TabInv(tab), inbox \in Seq(RequestType), NEW h \in Hashes, NEW k \in Callers, GiveUp(h, k)
  PROVE  Grows(tab') /\ tab'.info = tab.info
<1> DEFINE c == [tab.call EXCEPT ![h][k] = NotCalling]
           F == tab.faults \cup {h}
           u == [tab EXCEPT !.call = c, !.faults = F]
<1>1. tab \in TabType
  BY DEF TabInv
<1>2. PICK m \in (IF k = "resub" THEN NextResub(u) ELSE {u}) : tab' = m /\ Post(Posts(tab, m))
  BY DEF GiveUp
<1>3. tab.call[h][k].st = "sleep" /\ k \in Calls(tab, h)
  BY DEF GiveUp, Calls
<1>4. /\ c \in [Hashes -> [Callers -> CallType]]
      /\ \A g \in Hashes, l \in Callers :
           c[g][l].st = IF g = h /\ l = k THEN "idle" ELSE tab.call[g][l].st
  BY <1>1, TabTypes, CallTypes DEF NotCalling
<1>5. F \in SUBSET Hashes /\ tab.faults \subseteq F /\ h \in F
  BY <1>1, TabTypes
<1> HIDE DEF c, F
<1>6. u \in TabType
  BY <1>1, <1>4, <1>5 DEF TabType
<1>7. /\ u.call = c /\ u.faults = F /\ u.kept = tab.kept /\ u.info = tab.info
      /\ u.resub = tab.resub /\ u.pend = tab.pend /\ u.sinks = tab.sinks /\ u.source = tab.source
  BY <1>1 DEF TabType
<1> HIDE DEF u
<1>8. \A g \in Hashes : /\ Waiting(u, g) = Waiting(tab, g)
                        /\ Calls(u, g) = IF g = h THEN Calls(tab, g) \ {k} ELSE Calls(tab, g)
  BY <1>3, <1>4, <1>7 DEF Waiting, Calls
<1>9. PendHeard(u) /\ ResubInv(u) /\ Attended(u)
  BY <1>5, <1>7, <1>8 DEF TabInv, PendHeard, ResubInv, Attended
<1>10. Dropped(u)
  BY <1>5, <1>7, <1>8 DEF TabInv, Dropped
<1>11. Covered(u)
  <2> SUFFICES ASSUME NEW g \in tab.kept \ F, Calls(u, g) = {},
                      tab.resub.on => g \in tab.resub.done
               PROVE  Current(u, g)
    BY <1>7 DEF Covered
  <2>1. g \in Hashes /\ g # h
    BY <1>1, <1>5, TabTypes
  <2>2. Current(tab, g)
    BY <1>5, <1>8, <2>1 DEF TabInv, Covered
  <2> QED
    BY <1>7, <2>2 DEF Current
<1>12. TabInv(tab') /\ Joins(u.pend, tab') /\ tab'.kept = u.kept /\ tab'.source = u.source
       /\ tab'.info = u.info /\ tab'.faults = u.faults
  <2>1. CASE k = "resub"
    <3>1. tab.resub.on /\ tab.resub.at = h
      BY <1>3, <2>1 DEF TabInv, ResubHeard
    <3>2. \A g \in Hashes : "resub" \notin Calls(u, g)
      BY <1>8, <2>1, <3>1 DEF TabInv, ResubHeard
    <3>3. \A g \in u.kept \ u.faults : Calls(u, g) = {} /\ g \in u.resub.done => Current(u, g)
      BY <1>11 DEF Covered
    <3>4. tab' \in NextResub(u)
      BY <1>2, <2>1
    <3> QED
      BY <1>6, <1>9, <1>10, <3>2, <3>3, <3>4, NextResubDoes
  <2>2. CASE k # "resub"
    <3>1. tab' = u
      BY <1>2, <2>2
    <3>2. \A g \in Hashes : "resub" \in Calls(u, g) <=> "resub" \in Calls(tab, g)
      BY <1>8, <2>2
    <3>3. ResubHeard(u)
      BY <1>7, <3>2 DEF TabInv, ResubHeard
    <3> QED
      BY <1>6, <1>9, <1>10, <1>11, <3>1, <3>3 DEF TabInv, Joins
  <2> QED
    BY <2>1, <2>2
<1>13. Posted(tab.pend, tab')
  BY <1>1, <1>2, <1>7, <1>12, PostDoes, TabTypes
<1> QED
  BY <1>5, <1>7, <1>12, <1>13 DEF Grows

LEMMA AnsweredDoes ==
  ASSUME TabInv(tab), inbox \in Seq(RequestType), NEW o, NEW info \in 0..MaxTerm, Answered(o, info)
  PROVE  Grows(tab') /\ tab'.info = info
<1>1. PICK n \in Learn(tab, info) : tab' = n /\ Post(Posts(tab, n))
  BY DEF Answered
<1>2. /\ TabInv(tab') /\ Joins(tab.pend, tab')
      /\ tab'.kept = tab.kept /\ tab'.source = tab.source /\ tab'.info = info
      /\ tab.faults \subseteq tab'.faults
  BY <1>1, LearnDoes
<1>3. Posted(tab.pend, tab')
  BY <1>1, <1>2, PostDoes, TabTypes DEF TabInv
<1> QED
  BY <1>2, <1>3 DEF Grows

\* The answer at the head of the wire settles a call of its hash.
LEMMA CallAnswerDoes ==
  ASSUME TabInv(tab), inbox \in Seq(RequestType), wire \in Seq(WireType),
         wire # <<>> => Head(wire).term >= tab.info, CallAnswer
  PROVE  /\ wire # <<>> /\ Head(wire) \in AnswerType /\ wire' = Tail(wire)
         /\ TabInv(tab') /\ Joins(tab.pend \ {Head(wire).to}, tab')
         /\ Posted(tab.pend \ {Head(wire).to}, tab')
         /\ tab'.kept = tab.kept /\ tab'.info = tab.info /\ tab'.faults = tab.faults
         /\ \A g \in Hashes \ {Head(wire).to} : tab'.source[g] = tab.source[g]
         /\ LET h == Head(wire).to
            IN \/ tab'.source[h] \in {0, tab.source[h]}
               \/ h \in tab.pend /\ Head(wire).kind = "ok" /\ tab'.source[h] = Head(wire).term
<1> DEFINE h == Head(wire).to
           base == [tab EXCEPT !.pend = @ \ {h}]
<1>1. wire # <<>> /\ Head(wire).kind \in {"ok", "error"} /\ wire' = Tail(wire)
  BY DEF CallAnswer
<1>2. Head(wire) \in AnswerType
  BY <1>1, HeadTailProperties DEF WireType, HelloType, AnswerType
<1>3. h \in Hashes /\ Head(wire).term \in 1..MaxTerm
  BY <1>2 DEF AnswerType
<1>4. PICK n \in (IF h \notin tab.pend THEN {tab}
                  ELSE IF Head(wire).kind = "ok" THEN Resolved(tab, h, Head(wire).term)
                  ELSE {[Rejected(tab, h) EXCEPT !.source[h] = 0]}) :
        tab' = n /\ Post(Posts(base, n))
  BY DEF CallAnswer
<1>5. tab \in TabType /\ base.pend = tab.pend \ {h} /\ tab.pend \in SUBSET Hashes
  BY TabTypes DEF TabInv, TabType
<1> HIDE DEF h, base
<1>6. /\ TabInv(tab') /\ Joins(tab.pend \ {h}, tab')
      /\ tab'.kept = tab.kept /\ tab'.info = tab.info /\ tab'.faults = tab.faults
      /\ \A g \in Hashes \ {h} : tab'.source[g] = tab.source[g]
      /\ \/ tab'.source[h] \in {0, tab.source[h]}
         \/ h \in tab.pend /\ Head(wire).kind = "ok" /\ tab'.source[h] = Head(wire).term
  <2>1. CASE h \notin tab.pend
    <3>1. tab' = tab /\ tab.pend \ {h} = tab.pend
      BY <1>4, <2>1
    <3> QED
      BY <3>1 DEF Joins
  <2>2. CASE h \in tab.pend /\ Head(wire).kind = "ok"
    <3> DEFINE i == Head(wire).term
    <3>1. tab' \in Resolved(tab, h, i) /\ i \in 1..MaxTerm /\ i >= tab.info
      BY <1>1, <1>3, <1>4, <2>2
    <3> HIDE DEF i
    <3>2. /\ TabInv(tab') /\ Joins(tab.pend \ {h}, tab')
          /\ tab'.kept = tab.kept /\ tab'.info = tab.info /\ tab'.faults = tab.faults
          /\ \A g \in Hashes \ {h} : tab'.source[g] = tab.source[g]
          /\ tab'.source[h] \in {tab.source[h], i}
      BY <2>2, <3>1, ResolvedDoes
    <3> QED
      BY <2>2, <3>2 DEF i
  <2>3. CASE h \in tab.pend /\ Head(wire).kind # "ok"
    <3> DEFINE u == Rejected(tab, h)
    <3>1. tab' = Cleared(u, h)
      BY <1>4, <2>3 DEF Cleared
    <3>2. /\ TabInv(u) /\ u.pend = tab.pend \ {h} /\ u.kept = tab.kept /\ u.info = tab.info
          /\ u.faults = tab.faults /\ u.source = tab.source /\ Calls(u, h) # {}
      BY <2>3, RejectedDoes
    <3> HIDE DEF u
    <3>3. /\ TabInv(tab') /\ tab'.pend = u.pend /\ tab'.kept = u.kept /\ tab'.info = u.info
          /\ tab'.faults = u.faults /\ tab'.source[h] = 0
          /\ \A g \in Hashes \ {h} : tab'.source[g] = u.source[g]
      BY <1>3, <3>1, <3>2, SourceCleared
    <3> QED
      BY <3>2, <3>3 DEF Joins
  <2> QED
    BY <2>1, <2>2, <2>3
<1>7. Posted(tab.pend \ {h}, tab')
  <2>1. base.pend \in SUBSET Hashes
    BY <1>5
  <2>2. Joins(base.pend, tab') /\ Post(Posts(base, tab'))
    BY <1>4, <1>5, <1>6
  <2>3. Posted(base.pend, tab')
    BY <2>1, <2>2, PostDoes
  <2> QED
    BY <1>5, <2>3
<1> QED
  BY <1>1, <1>2, <1>6, <1>7 DEF h

LEMMA CallTimeoutDoes ==
  ASSUME TabInv(tab), NEW h \in Hashes, CallTimeout(h)
  PROVE  /\ TabInv(tab') /\ tab'.pend = tab.pend \ {h} /\ tab'.kept = tab.kept
         /\ tab'.info = tab.info /\ tab'.source = tab.source
         /\ tab.faults \subseteq tab'.faults
         /\ h \notin tab'.faults =>
              /\ \A i \in 1..Len(wire) : wire[i].to # h
              /\ \A i \in 1..Len(inbox) : inbox[i] # Request("subscribe", h)
<1> DEFINE under == \/ \E i \in 1..Len(wire) : wire[i].to = h
                    \/ \E i \in 1..Len(inbox) : inbox[i] = Request("subscribe", h)
           u == Rejected(tab, h)
           F == IF under THEN {h} ELSE {}
<1>1. h \in tab.pend /\ tab' = [u EXCEPT !.faults = IF under THEN @ \cup {h} ELSE @]
  BY DEF CallTimeout
<1>2. /\ TabInv(u) /\ u.pend = tab.pend \ {h} /\ u.kept = tab.kept /\ u.info = tab.info
      /\ u.faults = tab.faults /\ u.source = tab.source
  BY <1>1, RejectedDoes
<1> HIDE DEF u
<1>3. tab' = [u EXCEPT !.faults = @ \cup F]
  <2>1. (IF under THEN u.faults \cup {h} ELSE u.faults) = u.faults \cup F
    OBVIOUS
  <2> QED
    BY <1>1, <2>1
<1>4. F \in SUBSET Hashes
  OBVIOUS
<1>5. /\ TabInv(tab') /\ tab'.kept = u.kept /\ tab'.source = u.source /\ tab'.info = u.info
      /\ tab'.pend = u.pend /\ tab'.faults = u.faults \cup F
  <2> HIDE DEF F
  <2> QED
    BY <1>2, <1>3, <1>4, FaultsGrow
<1> QED
  BY <1>2, <1>5

LEMMA UnsubscribeDoes ==
  ASSUME TabInv(tab), NEW h \in Hashes, Unsubscribe(h)
  PROVE  /\ TabInv(tab') /\ tab'.pend = tab.pend /\ tab'.kept = tab.kept \ {h}
         /\ tab'.info = tab.info /\ tab'.source = [tab.source EXCEPT ![h] = 0]
         /\ tab.faults \subseteq tab'.faults
         /\ h \in tab.pend => h \in tab'.faults
         /\ inbox' = IF leader = 0 THEN inbox ELSE inbox \o <<Request("unsubscribe", h)>>
<1> DEFINE s == [tab.sinks EXCEPT ![h] = {}]
           x == [tab.source EXCEPT ![h] = 0]
           r == [tab.resub EXCEPT !.done = @ \ {h}]
           F == IF Calls(tab, h) = {} THEN tab.faults ELSE tab.faults \cup {h}
           K == tab.kept \ {h}
<1>1. tab \in TabType
  BY DEF TabInv
<1>2. tab' = [tab EXCEPT !.kept = K, !.sinks = s, !.source = x, !.resub = r, !.faults = F]
  BY DEF Unsubscribe
<1>3. /\ s \in [Hashes -> SUBSET Callers] /\ s[h] = {}
      /\ \A g \in Hashes \ {h} : s[g] = tab.sinks[g]
  BY <1>1, TabTypes
<1>4. x \in [Hashes -> 0..MaxTerm] /\ \A g \in Hashes \ {h} : x[g] = tab.source[g]
  BY <1>1, TabTypes
<1>5. /\ r \in ResubType /\ r.on = tab.resub.on /\ r.at = tab.resub.at
      /\ r.done = tab.resub.done \ {h}
  BY <1>1, TabTypes DEF ResubType
<1>6. tab.resub = NoResub => r = NoResub
  <2>1. NoResub.done \ {h} = NoResub.done /\ [NoResub EXCEPT !.done = NoResub.done] = NoResub
    BY DEF NoResub
  <2> QED
    BY <2>1
<1>7. F \in SUBSET Hashes /\ K \in SUBSET Hashes
  BY <1>1, TabTypes
<1>8. tab.faults \subseteq F /\ (Calls(tab, h) # {} => h \in F)
  OBVIOUS
<1> HIDE DEF s, x, r, F
<1>9. tab' \in TabType
  BY <1>1, <1>2, <1>3, <1>4, <1>5, <1>7 DEF TabType
<1>10. /\ tab'.kept = K /\ tab'.sinks = s /\ tab'.source = x /\ tab'.resub = r /\ tab'.faults = F
       /\ tab'.pend = tab.pend /\ tab'.info = tab.info /\ tab'.call = tab.call
  BY <1>1, <1>2 DEF TabType
<1>11. \A g : Waiting(tab', g) = Waiting(tab, g) /\ Calls(tab', g) = Calls(tab, g)
  BY <1>10, SameCalls
<1>12. h \in tab.pend => h \in F
  <2>1. h \in tab.pend => Waiting(tab, h) # {}
    BY DEF TabInv, PendHeard
  <2>2. Waiting(tab, h) \subseteq Calls(tab, h)
    BY DEF Waiting, Calls
  <2> QED
    BY <1>8, <2>1, <2>2
<1>13. PendHeard(tab') /\ ResubHeard(tab') /\ ResubInv(tab')
  BY <1>5, <1>6, <1>10, <1>11 DEF TabInv, PendHeard, ResubHeard, ResubInv
<1>14. Attended(tab')
  BY <1>1, <1>3, <1>8, <1>10, <1>12, TabTypes DEF TabInv, Attended
<1>15. Dropped(tab')
  BY <1>3, <1>8, <1>10, <1>11 DEF TabInv, Dropped
<1>16. Covered(tab')
  <2> SUFFICES ASSUME NEW g \in K \ F, Calls(tab, g) = {}, r.on => g \in r.done
               PROVE  Current(tab', g)
    BY <1>10, <1>11 DEF Covered
  <2>1. g \in Hashes \ {h} /\ Current(tab, g)
    BY <1>1, <1>5, <1>8, TabTypes DEF TabInv, Covered
  <2> QED
    BY <1>3, <1>4, <1>10, <2>1 DEF Current
<1>17. inbox' = IF leader = 0 THEN inbox ELSE inbox \o <<Request("unsubscribe", h)>>
  BY DEF Unsubscribe, Post
<1> QED
  BY <1>8, <1>9, <1>10, <1>12, <1>13, <1>14, <1>15, <1>16, <1>17 DEF TabInv, x

-----------------------------------------------------------------------------
(* What is on the wire and in the inbox                                     *)

LEMMA TailAt ==
  ASSUME NEW S, NEW s \in Seq(S), s # <<>>
  PROVE  /\ Tail(s) \in Seq(S) /\ Head(s) \in S /\ Head(s) = s[1] /\ Len(s) >= 1
         /\ Len(Tail(s)) = Len(s) - 1
         /\ \A i \in 1..Len(Tail(s)) : i + 1 \in 1..Len(s) /\ Tail(s)[i] = s[i + 1]
BY HeadTailProperties

LEMMA AppendAt ==
  ASSUME NEW S, NEW s \in Seq(S), NEW x \in S
  PROVE  /\ Append(s, x) \in Seq(S) /\ Len(Append(s, x)) = Len(s) + 1
         /\ Append(s, x)[Len(s) + 1] = x
         /\ \A i \in 1..Len(s) : Append(s, x)[i] = s[i]
BY AppendProperties

Answering(w, h) == \E i \in 1..Len(w) : w[i].to = h
Accepting(w, h, l) == \E i \in 1..Len(w) : w[i].to = h /\ w[i].kind = "ok" /\ w[i].term = l
OneAnswer(w, h) == \A i, j \in 1..Len(w) : w[i].to = h /\ w[j].to = h => i = j

Asking(q, h) == \E i \in 1..Len(q) : q[i] = Request("subscribe", h)
Leaving(q, h) == \E i \in 1..Len(q) : q[i] = Request("unsubscribe", h)
OneRequest(q, h) ==
  \A i, j \in 1..Len(q) :
    q[i] = Request("subscribe", h) /\ q[j] = Request("subscribe", h) => i = j
LeavesFirst(q, h) ==
  \A i, j \in 1..Len(q) :
    q[i] = Request("subscribe", h) /\ q[j] = Request("unsubscribe", h) => j < i

LEMMA WireTail ==
  ASSUME NEW S, NEW w \in Seq(S), w # <<>>, NEW h, OneAnswer(w, h)
  PROVE  /\ OneAnswer(Tail(w), h)
         /\ Answering(Tail(w), h) => Answering(w, h) /\ Head(w).to # h
         /\ \A l : Accepting(Tail(w), h, l) => Accepting(w, h, l)
         /\ Head(w).to = h => Answering(w, h)
         /\ Head(w).to = h /\ Head(w).kind = "ok" => Accepting(w, h, Head(w).term)
<1>1. /\ Head(w) = w[1] /\ Len(w) \in Nat /\ Len(w) >= 1 /\ Len(Tail(w)) = Len(w) - 1
      /\ \A i \in 1..Len(Tail(w)) : i + 1 \in 1..Len(w) /\ Tail(w)[i] = w[i + 1]
  BY TailAt
<1>2. OneAnswer(Tail(w), h)
  BY <1>1 DEF OneAnswer
<1>3. Answering(Tail(w), h) => Answering(w, h) /\ Head(w).to # h
  <2> SUFFICES ASSUME NEW i \in 1..Len(Tail(w)), Tail(w)[i].to = h
               PROVE  Answering(w, h) /\ Head(w).to # h
    BY DEF Answering
  <2>1. i + 1 \in 1..Len(w) /\ w[i + 1].to = h /\ 1 \in 1..Len(w) /\ i + 1 # 1
    BY <1>1
  <2> QED
    BY <1>1, <2>1 DEF Answering, OneAnswer
<1>4. \A l : Accepting(Tail(w), h, l) => Accepting(w, h, l)
  BY <1>1 DEF Accepting
<1>5. /\ Head(w).to = h => Answering(w, h)
      /\ Head(w).to = h /\ Head(w).kind = "ok" => Accepting(w, h, Head(w).term)
  BY <1>1 DEF Answering, Accepting
<1> QED
  BY <1>2, <1>3, <1>4, <1>5

LEMMA WireAppend ==
  ASSUME NEW S, NEW w \in Seq(S), NEW x \in S, NEW h, OneAnswer(w, h)
  PROVE  /\ x.to # h \/ ~Answering(w, h) => OneAnswer(Append(w, x), h)
         /\ Answering(Append(w, x), h) => Answering(w, h) \/ x.to = h
         /\ \A l : Accepting(Append(w, x), h, l) =>
                     Accepting(w, h, l) \/ (x.to = h /\ x.kind = "ok")
<1> DEFINE v == Append(w, x)
<1>1. /\ Len(w) \in Nat /\ Len(v) = Len(w) + 1 /\ v[Len(w) + 1] = x
      /\ \A i \in 1..Len(w) : v[i] = w[i]
  BY AppendAt
<1> HIDE DEF v
<1>2. x.to # h \/ ~Answering(w, h) => OneAnswer(v, h)
  BY <1>1 DEF OneAnswer, Answering
<1>3. Answering(v, h) => Answering(w, h) \/ x.to = h
  BY <1>1 DEF Answering
<1>4. \A l : Accepting(v, h, l) => Accepting(w, h, l) \/ (x.to = h /\ x.kind = "ok")
  BY <1>1 DEF Accepting
<1> QED
  BY <1>2, <1>3, <1>4 DEF v

LEMMA Requests ==
  /\ \A g, h : Request("subscribe", g) # Request("unsubscribe", h)
  /\ \A g, h : Request("subscribe", g) = Request("subscribe", h) => g = h
  /\ \A g, h : Request("unsubscribe", g) = Request("unsubscribe", h) => g = h
  /\ \A h \in Hashes : Request("subscribe", h) \in RequestType /\ Request("unsubscribe", h) \in RequestType
  /\ \A r \in RequestType : r.op \in {"subscribe", "unsubscribe"} /\ r.hash \in Hashes /\ r = Request(r.op, r.hash)
<1>1. \A g, h : Request("subscribe", g) # Request("unsubscribe", h)
  <2>1. \A g, h : Request("subscribe", g).op # Request("unsubscribe", h).op
    BY DEF Request
  <2> QED
    BY <2>1
<1>2. \A o, g : Request(o, g).hash = g
  BY DEF Request
<1>3. /\ \A h \in Hashes : Request("subscribe", h) \in RequestType /\ Request("unsubscribe", h) \in RequestType
      /\ \A r \in RequestType : r.op \in {"subscribe", "unsubscribe"} /\ r.hash \in Hashes /\ r = Request(r.op, r.hash)
  BY DEF Request, RequestType
<1>4. \A o, g, h : Request(o, g) = Request(o, h) => g = h
  BY <1>2
<1> QED
  BY <1>1, <1>3, <1>4

LEMMA InboxTail ==
  ASSUME NEW S, NEW q \in Seq(S), q # <<>>, NEW h, OneRequest(q, h), LeavesFirst(q, h)
  PROVE  /\ OneRequest(Tail(q), h) /\ LeavesFirst(Tail(q), h)
         /\ Asking(Tail(q), h) => Asking(q, h) /\ Head(q) # Request("subscribe", h)
         /\ Leaving(Tail(q), h) => Leaving(q, h)
         /\ Leaving(q, h) => Leaving(Tail(q), h) \/ Head(q) = Request("unsubscribe", h)
         /\ Head(q) = Request("subscribe", h) => Asking(q, h) /\ ~Leaving(q, h)
         /\ Head(q) = Request("unsubscribe", h) => Leaving(q, h)
<1> DEFINE v == Tail(q)
           su == Request("subscribe", h)
           un == Request("unsubscribe", h)
<1>1. /\ Head(q) = q[1] /\ Len(q) \in Nat /\ Len(q) >= 1 /\ Len(v) = Len(q) - 1
      /\ \A i \in 1..Len(v) : i + 1 \in 1..Len(q) /\ v[i] = q[i + 1]
  BY TailAt
<1>2. su # un
  BY Requests
<1> HIDE DEF v, su, un
<1>3. OneRequest(v, h)
  BY <1>1 DEF OneRequest, su
<1>4. LeavesFirst(v, h)
  <2> SUFFICES ASSUME NEW i \in 1..Len(v), NEW j \in 1..Len(v), v[i] = su, v[j] = un
               PROVE  j < i
    BY DEF LeavesFirst, su, un
  <2>1. j + 1 < i + 1
    BY <1>1 DEF LeavesFirst, su, un
  <2> QED
    BY <2>1
<1>5. Asking(v, h) => Asking(q, h) /\ Head(q) # su
  <2> SUFFICES ASSUME NEW i \in 1..Len(v), v[i] = su
               PROVE  Asking(q, h) /\ Head(q) # su
    BY DEF Asking, su
  <2>1. i + 1 \in 1..Len(q) /\ q[i + 1] = su /\ 1 \in 1..Len(q) /\ i + 1 # 1
    BY <1>1
  <2> QED
    BY <1>1, <2>1 DEF Asking, OneRequest, su
<1>6. Leaving(v, h) => Leaving(q, h)
  BY <1>1 DEF Leaving
<1>7. Leaving(q, h) => Leaving(v, h) \/ Head(q) = un
  <2> SUFFICES ASSUME NEW i \in 1..Len(q), q[i] = un, i # 1
               PROVE  Leaving(v, h)
    BY <1>1 DEF Leaving, un
  <2>1. i - 1 \in 1..Len(v) /\ v[i - 1] = un
    BY <1>1
  <2> QED
    BY <2>1 DEF Leaving, un
<1>8. Head(q) = su => Asking(q, h) /\ ~Leaving(q, h)
  <2> SUFFICES ASSUME q[1] = su
               PROVE  Asking(q, h) /\ ~Leaving(q, h)
    BY <1>1
  <2>1. 1 \in 1..Len(q)
    BY <1>1
  <2>2. ASSUME NEW j \in 1..Len(q), q[j] = un PROVE FALSE
    BY <2>1, <2>2 DEF LeavesFirst, su, un
  <2> QED
    BY <2>1, <2>2 DEF Asking, Leaving, su, un
<1>9. Head(q) = un => Leaving(q, h)
  BY <1>1 DEF Leaving, un
<1> QED
  BY <1>3, <1>4, <1>5, <1>6, <1>7, <1>8, <1>9 DEF v, su, un

LEMMA InboxAppend ==
  ASSUME NEW S, NEW q \in Seq(S), NEW x \in S, NEW h, OneRequest(q, h), LeavesFirst(q, h)
  PROVE  /\ x # Request("subscribe", h) \/ ~Asking(q, h) => OneRequest(Append(q, x), h)
         /\ x # Request("unsubscribe", h) \/ ~Asking(q, h) => LeavesFirst(Append(q, x), h)
         /\ Asking(Append(q, x), h) => Asking(q, h) \/ x = Request("subscribe", h)
         /\ Leaving(Append(q, x), h) <=> Leaving(q, h) \/ x = Request("unsubscribe", h)
<1> DEFINE v == Append(q, x)
           su == Request("subscribe", h)
           un == Request("unsubscribe", h)
<1>1. /\ Len(q) \in Nat /\ Len(v) = Len(q) + 1 /\ v[Len(q) + 1] = x
      /\ \A i \in 1..Len(q) : v[i] = q[i]
  BY AppendAt
<1>2. su # un
  BY Requests
<1> HIDE DEF v, su, un
<1>3. x # su \/ ~Asking(q, h) => OneRequest(v, h)
  BY <1>1 DEF OneRequest, Asking, su
<1>4. x # un \/ ~Asking(q, h) => LeavesFirst(v, h)
  <2> SUFFICES ASSUME x # un \/ ~Asking(q, h),
                      NEW i \in 1..Len(v), NEW j \in 1..Len(v), v[i] = su, v[j] = un
               PROVE  j < i
    BY DEF LeavesFirst, su, un
  <2>1. CASE j = Len(q) + 1
    <3>1. x = un /\ i # j /\ i \in 1..Len(q) /\ q[i] = su
      BY <1>1, <1>2, <2>1
    <3> QED
      BY <3>1 DEF Asking, su
  <2>2. CASE j # Len(q) + 1
    <3>1. j \in 1..Len(q) /\ q[j] = un
      BY <1>1, <2>2
    <3> QED
      BY <1>1, <3>1 DEF LeavesFirst, su, un
  <2> QED
    BY <2>1, <2>2
<1>5. Asking(v, h) => Asking(q, h) \/ x = su
  BY <1>1 DEF Asking, su
<1>6. Leaving(v, h) <=> Leaving(q, h) \/ x = un
  BY <1>1 DEF Leaving, un
<1> QED
  BY <1>3, <1>4, <1>5, <1>6 DEF v, su, un

-----------------------------------------------------------------------------
(* The invariant of a hash between the follower and the leader              *)

\* Of the tab t, the wire w, the inbox q, the attached hashes a and the leader
\* l: at most one request or answer of h is under way, and one is under way
\* only while a call of h is pending; an unsubscribe in the inbox is ahead of
\* any subscribe, and nothing of h has been heard since; a stream that is, or is
\* to be, locked to the leader is attached there; one that is given up is
\* attached only until its unsubscribe is served.
Link(h, t, w, q, a, l) ==
  /\ OneAnswer(w, h) /\ OneRequest(q, h) /\ LeavesFirst(q, h)
  /\ ~(Answering(w, h) /\ Asking(q, h))
  /\ Answering(w, h) \/ Asking(q, h) => h \in t.pend
  /\ Leaving(q, h) => t.source[h] = 0 /\ ~Answering(w, h)
  /\ l # 0 /\ (t.source[h] = l \/ Accepting(w, h, l)) => h \in a
  /\ h \notin t.kept /\ h \in a => Leaving(q, h)

Links(t, w, q, a, l) == \A h \in Hashes \ t.faults : Link(h, t, w, q, a, l)

Channels ==
  /\ term \in 0..MaxTerm /\ leader \in {0, term}
  /\ inbox \in Seq(RequestType) /\ wire \in Seq(WireType)
  /\ attached \subseteq Hashes
  /\ leader = 0 => inbox = <<>> /\ attached = {}
  /\ asks \subseteq Monitors /\ busy \in BOOLEAN /\ late \in 0..MaxLate

\* Answers come in the order of their terms, and the follower has heard of no
\* later one.
Times(w, info, m) ==
  /\ info <= m
  /\ \A i \in 1..Len(w) : info <= w[i].term /\ w[i].term <= m
  /\ \A i, j \in 1..Len(w) : i <= j => w[i].term <= w[j].term

Past(t, m) == \A h \in Hashes : t.source[h] <= m

IInv ==
  /\ TabInv(tab) /\ Channels /\ Times(wire, tab.info, term) /\ Past(tab, term)
  /\ Links(tab, wire, inbox, attached, leader)

LEMMA TimesTail ==
  ASSUME NEW w \in Seq(WireType), w # <<>>, NEW info \in 0..MaxTerm, NEW m \in 0..MaxTerm,
         Times(w, info, m)
  PROVE  /\ Times(Tail(w), info, m) /\ Times(Tail(w), Head(w).term, m)
         /\ Head(w).term >= info /\ Head(w).term <= m /\ Head(w).term \in 0..MaxTerm
<1>1. /\ Head(w) = w[1] /\ Len(w) \in Nat /\ Len(w) >= 1 /\ Len(Tail(w)) = Len(w) - 1
      /\ \A i \in 1..Len(Tail(w)) : i + 1 \in 1..Len(w) /\ Tail(w)[i] = w[i + 1]
      /\ Head(w) \in WireType
  BY TailAt
<1>2. 1 \in 1..Len(w) /\ info <= w[1].term /\ w[1].term <= m
  BY <1>1 DEF Times
<1>3. \A i \in 1..Len(Tail(w)) : info <= Tail(w)[i].term /\ w[1].term <= Tail(w)[i].term /\ Tail(w)[i].term <= m
  <2> SUFFICES ASSUME NEW i \in 1..Len(Tail(w))
               PROVE  info <= w[i + 1].term /\ w[1].term <= w[i + 1].term /\ w[i + 1].term <= m
    BY <1>1
  <2>1. i + 1 \in 1..Len(w) /\ 1 <= i + 1
    BY <1>1
  <2> QED
    BY <1>2, <2>1 DEF Times
<1>4. \A i, j \in 1..Len(Tail(w)) : i <= j => Tail(w)[i].term <= Tail(w)[j].term
  <2> SUFFICES ASSUME NEW i \in 1..Len(Tail(w)), NEW j \in 1..Len(Tail(w)), i <= j
               PROVE  w[i + 1].term <= w[j + 1].term
    BY <1>1
  <2>1. i + 1 \in 1..Len(w) /\ j + 1 \in 1..Len(w) /\ i + 1 <= j + 1
    BY <1>1
  <2> QED
    BY <2>1 DEF Times
<1>5. Head(w).term \in 0..MaxTerm
  BY <1>1 DEF WireType, HelloType, AnswerType
<1> QED
  BY <1>1, <1>2, <1>3, <1>4, <1>5 DEF Times

LEMMA TimesAppend ==
  ASSUME NEW w \in Seq(WireType), NEW x \in WireType, NEW info \in 0..MaxTerm, x.term \in 0..MaxTerm,
         Times(w, info, x.term)
  PROVE  Times(Append(w, x), info, x.term)
<1> DEFINE v == Append(w, x)
<1>1. /\ Len(w) \in Nat /\ Len(v) = Len(w) + 1 /\ v[Len(w) + 1] = x
      /\ \A i \in 1..Len(w) : v[i] = w[i]
  BY AppendAt
<1> HIDE DEF v
<1>2. \A i \in 1..Len(v) : info <= v[i].term /\ v[i].term <= x.term
  <2> TAKE i \in 1..Len(v)
  <2>1. CASE i = Len(w) + 1
    BY <1>1, <2>1 DEF Times
  <2>2. CASE i # Len(w) + 1
    <3>1. i \in 1..Len(w)
      BY <1>1, <2>2
    <3> QED
      BY <1>1, <3>1 DEF Times
  <2> QED
    BY <2>1, <2>2
<1>3. ASSUME NEW i \in 1..Len(v), NEW j \in 1..Len(v), i <= j
      PROVE  v[i].term <= v[j].term
  <2>1. CASE j = Len(w) + 1
    BY <1>1, <1>2, <2>1
  <2>2. CASE j # Len(w) + 1
    <3>1. i \in 1..Len(w) /\ j \in 1..Len(w)
      BY <1>1, <1>3, <2>2
    <3> QED
      BY <1>1, <1>3, <3>1 DEF Times
  <2> QED
    BY <2>1, <2>2
<1> QED
  BY <1>2, <1>3 DEF Times, v

-----------------------------------------------------------------------------
(* Steps of a hash's link                                                   *)

\* A step of the follower posts at most a subscribe of a call that was not
\* pending, and hears no answer of h.
LEMMA GrowsLink ==
  ASSUME NEW h \in Hashes, Channels, TabInv(tab), Grows(tab'), h \notin tab.faults,
         Link(h, tab, wire, inbox, attached, leader),
         NEW v, OneAnswer(v, h), Answering(v, h) => Answering(wire, h),
         \A l : Accepting(v, h, l) => Accepting(wire, h, l)
  PROVE  Link(h, tab', v, inbox', attached, leader)
<1>1. Joins(tab.pend, tab') /\ Posted(tab.pend, tab') /\ tab.kept \subseteq tab'.kept
      /\ tab'.source = tab.source
  BY DEF Grows
<1>2. tab.pend \subseteq tab'.pend
  BY <1>1 DEF Joins
<1>3. OneRequest(inbox, h) /\ LeavesFirst(inbox, h)
  BY DEF Link
<1>4. CASE inbox' = inbox
  BY <1>1, <1>2, <1>4 DEF Link
<1>5. CASE inbox' # inbox
  <2>1. PICK g \in tab'.pend \ tab.pend : inbox' = Append(inbox, Request("subscribe", g))
    BY <1>1, <1>5 DEF Posted
  <2>2. g \in Hashes
    BY <2>1, TabTypes DEF Grows, TabInv
  <2> DEFINE x == Request("subscribe", g)
  <2>3. x \in RequestType /\ inbox \in Seq(RequestType)
    BY <2>2, Requests DEF Channels
  <2>4. x # Request("unsubscribe", h) /\ (x = Request("subscribe", h) <=> g = h)
    BY Requests
  <2>5. inbox' = Append(inbox, x)
    BY <2>1
  <2> HIDE DEF x
  <2>6. /\ x # Request("subscribe", h) \/ ~Asking(inbox, h) => OneRequest(inbox', h)
        /\ LeavesFirst(inbox', h)
        /\ Asking(inbox', h) => Asking(inbox, h) \/ x = Request("subscribe", h)
        /\ Leaving(inbox', h) <=> Leaving(inbox, h)
    BY <1>3, <2>3, <2>4, <2>5, InboxAppend
  <2>7. g = h => ~Asking(inbox, h) /\ ~Answering(wire, h)
    BY <2>1 DEF Link
  <2>8. /\ OneRequest(inbox', h) /\ ~(Answering(v, h) /\ Asking(inbox', h))
        /\ Answering(v, h) \/ Asking(inbox', h) => h \in tab'.pend
    BY <1>2, <2>1, <2>4, <2>6, <2>7 DEF Link
  <2> QED
    BY <1>1, <2>6, <2>8 DEF Link
<1> QED
  BY <1>4, <1>5

LEMMA LinkSame ==
  ASSUME NEW h, NEW t, NEW n, n.pend = t.pend, n.source = t.source, n.kept = t.kept,
         NEW w, NEW q, NEW a, NEW l, Link(h, t, w, q, a, l)
  PROVE  Link(h, n, w, q, a, l)
BY DEF Link

\* The leader takes a request from its inbox, and answers it or detaches; of
\* the hash of an unsubscribe that it refuses nothing is claimed.
LEMMA TakenLink ==
  ASSUME NEW h \in Hashes, Channels, TabInv(tab), h \notin tab.faults, inbox # <<>>,
         Link(h, tab, wire, inbox, attached, leader),
         NEW v, NEW b, NEW kd \in {"ok", "error"},
         \/ /\ Head(inbox).op = "subscribe"
            /\ v = Append(wire, [kind |-> kd, to |-> Head(inbox).hash, term |-> leader])
            /\ b = IF kd = "ok" THEN attached \cup {Head(inbox).hash} ELSE attached
         \/ /\ Head(inbox).op = "unsubscribe" /\ v = wire
            /\ b = attached \ {Head(inbox).hash} \/ (b = attached /\ Head(inbox).hash # h)
  PROVE  Link(h, tab, v, Tail(inbox), b, leader)
<1> DEFINE g == Head(inbox).hash
           q == Tail(inbox)
           x == [kind |-> kd, to |-> g, term |-> leader]
<1>1. Head(inbox) \in RequestType /\ inbox \in Seq(RequestType)
  BY TailAt DEF Channels
<1>2. g \in Hashes /\ Head(inbox) = Request(Head(inbox).op, g)
  BY <1>1, Requests
<1>3. /\ OneRequest(q, h) /\ LeavesFirst(q, h)
      /\ Asking(q, h) => Asking(inbox, h) /\ Head(inbox) # Request("subscribe", h)
      /\ Leaving(q, h) => Leaving(inbox, h)
      /\ Leaving(inbox, h) => Leaving(q, h) \/ Head(inbox) = Request("unsubscribe", h)
      /\ Head(inbox) = Request("subscribe", h) => Asking(inbox, h) /\ ~Leaving(inbox, h)
      /\ Head(inbox) = Request("unsubscribe", h) => Leaving(inbox, h)
  BY <1>1, InboxTail DEF Link
<1>4. x.to = g /\ x.kind = kd /\ x \in WireType
  <2>1. leader \in 1..MaxTerm
    BY DEF Channels
  <2> QED
    BY <1>2, <2>1 DEF WireType, AnswerType
<1>5. h \notin tab.kept => h \notin tab.pend
  <2>1. h \notin tab.kept => Calls(tab, h) = {}
    BY DEF TabInv, Dropped
  <2>2. Waiting(tab, h) \subseteq Calls(tab, h)
    BY DEF Waiting, Calls
  <2> QED
    BY <2>1, <2>2 DEF TabInv, PendHeard
<1>6. CASE Head(inbox).op = "subscribe"
  <2>1. v = Append(wire, x) /\ b = IF kd = "ok" THEN attached \cup {g} ELSE attached
    BY <1>6
  <2>2. Head(inbox) = Request("subscribe", g)
    BY <1>2, <1>6
  <2>3. Head(inbox) # Request("unsubscribe", h) /\ (Head(inbox) = Request("subscribe", h) <=> g = h)
    BY <2>2, Requests
  <2> HIDE DEF g, q, x
  <2>4. g = h => Asking(inbox, h) /\ ~Leaving(inbox, h) /\ ~Answering(wire, h) /\ h \in tab.pend
    BY <1>3, <2>3 DEF Link
  <2>5. /\ g # h \/ ~Answering(wire, h) => OneAnswer(v, h)
        /\ Answering(v, h) => Answering(wire, h) \/ g = h
        /\ \A l : Accepting(v, h, l) => Accepting(wire, h, l) \/ (g = h /\ kd = "ok")
    <3>1. wire \in Seq(WireType) /\ OneAnswer(wire, h)
      BY DEF Channels, Link
    <3> QED
      BY <1>4, <2>1, <3>1, WireAppend
  <2>6. /\ OneAnswer(v, h) /\ ~(Answering(v, h) /\ Asking(q, h))
        /\ Answering(v, h) \/ Asking(q, h) => h \in tab.pend
    BY <1>3, <2>3, <2>4, <2>5 DEF Link
  <2>7. Leaving(q, h) => tab.source[h] = 0 /\ ~Answering(v, h)
    BY <1>3, <2>4, <2>5 DEF Link
  <2>8. leader # 0 /\ (tab.source[h] = leader \/ Accepting(v, h, leader)) => h \in b
    BY <2>1, <2>5 DEF Link
  <2>9. h \notin tab.kept /\ h \in b => Leaving(q, h)
    BY <1>3, <1>5, <2>1, <2>3, <2>4 DEF Link
  <2> QED
    BY <1>3, <2>6, <2>7, <2>8, <2>9 DEF Link, q
<1>7. CASE Head(inbox).op = "unsubscribe"
  <2>1. v = wire /\ (b = attached \ {g} \/ (b = attached /\ g # h))
    BY <1>7
  <2>2. Head(inbox) = Request("unsubscribe", g)
    BY <1>2, <1>7
  <2>3. Head(inbox) = Request("unsubscribe", h) <=> g = h
    BY <2>2, Requests
  <2> HIDE DEF g, q, x
  <2>4. leader # 0 /\ (tab.source[h] = leader \/ Accepting(wire, h, leader)) => h \in b
    <3>1. Accepting(wire, h, leader) => Answering(wire, h)
      BY DEF Accepting, Answering
    <3> QED
      BY <1>3, <2>1, <2>3, <3>1 DEF Link
  <2>5. h \notin tab.kept /\ h \in b => Leaving(q, h)
    BY <1>3, <2>1, <2>3 DEF Link
  <2> QED
    BY <1>3, <2>1, <2>4, <2>5 DEF Link, q
<1> QED
  BY <1>6, <1>7

\* The answer at the head of the wire ends the call of its hash; a call that is
\* made in the same step is of a hash with nothing under way.
LEMMA CallAnswerLink ==
  ASSUME NEW h \in Hashes, Channels, TabInv(tab), wire # <<>> => Head(wire).term >= tab.info,
         h \notin tab.faults, CallAnswer, Link(h, tab, wire, inbox, attached, leader)
  PROVE  Link(h, tab', wire', inbox', attached, leader)
<1> DEFINE e == Head(wire).to
<1>1. inbox \in Seq(RequestType) /\ wire \in Seq(WireType)
  BY DEF Channels
<1>2. /\ wire # <<>> /\ wire' = Tail(wire)
      /\ TabInv(tab') /\ Joins(tab.pend \ {e}, tab') /\ Posted(tab.pend \ {e}, tab')
      /\ tab'.kept = tab.kept
      /\ \A g \in Hashes \ {e} : tab'.source[g] = tab.source[g]
      /\ \/ tab'.source[e] \in {0, tab.source[e]}
         \/ e \in tab.pend /\ Head(wire).kind = "ok" /\ tab'.source[e] = Head(wire).term
  BY <1>1, CallAnswerDoes
<1>3. /\ OneAnswer(wire', h)
      /\ Answering(wire', h) => Answering(wire, h) /\ e # h
      /\ \A l : Accepting(wire', h, l) => Accepting(wire, h, l)
      /\ e = h => Answering(wire, h)
      /\ e = h /\ Head(wire).kind = "ok" => Accepting(wire, h, Head(wire).term)
  BY <1>1, <1>2, WireTail DEF Link
<1> HIDE DEF e
<1>4. h \in tab.pend /\ h # e => h \in tab'.pend
  BY <1>2 DEF Joins
<1>5. e = h => ~Answering(wire', h) /\ ~Asking(inbox, h)
  BY <1>3 DEF Link
<1>6. tab'.source[h] # tab.source[h] =>
        e = h /\ (tab'.source[h] = 0 \/ Accepting(wire, h, tab'.source[h]))
  BY <1>2, <1>3
<1>7. e = h => ~Leaving(inbox, h)
  BY <1>3 DEF Link
<1>8. leader # 0 /\ (tab'.source[h] = leader \/ Accepting(wire', h, leader)) => h \in attached
  BY <1>3, <1>6 DEF Link
<1>9. CASE inbox' = inbox
  <2>1. Answering(wire', h) \/ Asking(inbox', h) => h \in tab'.pend
    BY <1>3, <1>4, <1>5, <1>9 DEF Link
  <2>2. Leaving(inbox', h) => tab'.source[h] = 0 /\ ~Answering(wire', h)
    BY <1>3, <1>6, <1>7, <1>9 DEF Link
  <2> QED
    BY <1>2, <1>3, <1>8, <1>9, <2>1, <2>2 DEF Link
<1>10. CASE inbox' # inbox
  <2>1. PICK g \in tab'.pend \ (tab.pend \ {e}) : inbox' = Append(inbox, Request("subscribe", g))
    BY <1>2, <1>10 DEF Posted
  <2>2. g \in Hashes
    BY <1>2, <2>1, TabTypes DEF TabInv
  <2> DEFINE x == Request("subscribe", g)
  <2>3. x \in RequestType
    BY <2>2, Requests
  <2>4. x # Request("unsubscribe", h) /\ (x = Request("subscribe", h) <=> g = h)
    BY Requests
  <2>5. inbox' = Append(inbox, x)
    BY <2>1
  <2> HIDE DEF x
  <2>6. /\ x # Request("subscribe", h) \/ ~Asking(inbox, h) => OneRequest(inbox', h)
        /\ LeavesFirst(inbox', h)
        /\ Asking(inbox', h) => Asking(inbox, h) \/ x = Request("subscribe", h)
        /\ Leaving(inbox', h) <=> Leaving(inbox, h)
    BY <1>1, <2>3, <2>4, <2>5, InboxAppend DEF Link
  <2>7. g = h => ~Asking(inbox, h) /\ ~Answering(wire', h) /\ h \in tab'.pend
    BY <1>3, <1>5, <2>1 DEF Link
  <2>8. Answering(wire', h) \/ Asking(inbox, h) => h \in tab'.pend
    BY <1>3, <1>4, <1>5 DEF Link
  <2>9. /\ OneRequest(inbox', h) /\ ~(Answering(wire', h) /\ Asking(inbox', h))
        /\ Answering(wire', h) \/ Asking(inbox', h) => h \in tab'.pend
    BY <1>3, <2>4, <2>6, <2>7, <2>8 DEF Link
  <2>10. Leaving(inbox', h) => tab'.source[h] = 0 /\ ~Answering(wire', h)
    BY <1>3, <1>6, <1>7, <2>6 DEF Link
  <2>11. h \notin tab'.kept /\ h \in attached => Leaving(inbox', h)
    BY <1>2, <2>6 DEF Link
  <2> QED
    BY <1>3, <1>8, <2>6, <2>9, <2>10, <2>11 DEF Link
<1> QED
  BY <1>9, <1>10

LEMMA CallTimeoutLink ==
  ASSUME NEW h \in Hashes, TabInv(tab), NEW g \in Hashes, CallTimeout(g), h \notin tab'.faults,
         Link(h, tab, wire, inbox, attached, leader)
  PROVE  Link(h, tab', wire, inbox, attached, leader)
<1>1. /\ tab'.pend = tab.pend \ {g} /\ tab'.kept = tab.kept /\ tab'.source = tab.source
      /\ h = g => /\ \A i \in 1..Len(wire) : wire[i].to # h
                  /\ \A i \in 1..Len(inbox) : inbox[i] # Request("subscribe", h)
  BY CallTimeoutDoes
<1>2. h = g => ~Answering(wire, h) /\ ~Asking(inbox, h)
  BY <1>1 DEF Answering, Asking
<1> QED
  BY <1>1, <1>2 DEF Link

LEMMA UnsubscribeLink ==
  ASSUME NEW h \in Hashes, Channels, TabInv(tab), NEW g \in Hashes, Unsubscribe(g),
         h \notin tab'.faults, Link(h, tab, wire, inbox, attached, leader)
  PROVE  Link(h, tab', wire, inbox', attached, leader)
<1> DEFINE x == Request("unsubscribe", g)
<1>1. /\ tab'.pend = tab.pend /\ tab'.kept = tab.kept \ {g}
      /\ tab'.source = [tab.source EXCEPT ![g] = 0]
      /\ g \in tab.pend => g \in tab'.faults
      /\ inbox' = IF leader = 0 THEN inbox ELSE inbox \o <<x>>
  BY UnsubscribeDoes
<1>2. x \in RequestType /\ inbox \in Seq(RequestType)
  BY Requests DEF Channels
<1>3. x # Request("subscribe", h) /\ (x = Request("unsubscribe", h) <=> g = h)
  BY Requests
<1>4. inbox \o <<x>> = Append(inbox, x)
  BY <1>2
<1> HIDE DEF x
<1>5. tab'.source[h] = IF g = h THEN 0 ELSE tab.source[h]
  <2>1. tab.source \in [Hashes -> 0..MaxTerm]
    BY TabTypes DEF TabInv
  <2> QED
    BY <1>1, <2>1
<1>6. g = h => ~Answering(wire, h) /\ ~Asking(inbox, h)
  BY <1>1 DEF Link
<1>7. leader # 0 /\ (tab'.source[h] = leader \/ Accepting(wire, h, leader)) => h \in attached
  BY <1>5 DEF Link
<1>8. CASE leader = 0
  <2>1. inbox' = inbox /\ h \notin attached
    BY <1>1, <1>8 DEF Channels
  <2> QED
    BY <1>1, <1>5, <1>7, <2>1 DEF Link
<1>9. CASE leader # 0
  <2>1. /\ OneRequest(inbox', h)
        /\ g # h \/ ~Asking(inbox, h) => LeavesFirst(inbox', h)
        /\ Asking(inbox', h) => Asking(inbox, h)
        /\ Leaving(inbox', h) <=> Leaving(inbox, h) \/ g = h
    <3>1. inbox' = Append(inbox, x)
      BY <1>1, <1>4, <1>9
    <3>2. OneRequest(inbox, h) /\ LeavesFirst(inbox, h)
      BY DEF Link
    <3> QED
      BY <1>2, <1>3, <3>1, <3>2, InboxAppend
  <2>2. h \notin tab'.kept /\ h \in attached => Leaving(inbox', h)
    BY <1>1, <2>1 DEF Link
  <2>3. Leaving(inbox', h) => tab'.source[h] = 0 /\ ~Answering(wire, h)
    BY <1>5, <1>6, <2>1 DEF Link
  <2> QED
    BY <1>1, <1>6, <1>7, <2>1, <2>2, <2>3 DEF Link
<1> QED
  BY <1>8, <1>9

-----------------------------------------------------------------------------
(* The invariant is inductive                                               *)

LEMMA EmptyHolds ==
  \A h : /\ OneAnswer(<<>>, h) /\ OneRequest(<<>>, h) /\ LeavesFirst(<<>>, h)
         /\ ~Answering(<<>>, h) /\ ~Asking(<<>>, h) /\ ~Leaving(<<>>, h)
         /\ \A l : ~Accepting(<<>>, h, l)
BY DEF OneAnswer, OneRequest, LeavesFirst, Answering, Asking, Leaving, Accepting

LEMMA InitInv == Init => IInv
<1> SUFFICES ASSUME Init PROVE IInv
  OBVIOUS
<1> DEFINE s == [h \in Hashes |-> {}]
           x == [h \in Hashes |-> 0]
           c == [h \in Hashes |-> [k \in Callers |-> NotCalling]]
<1>1. tab = [kept |-> {}, pend |-> {}, sinks |-> s, source |-> x, info |-> 0,
             resub |-> NoResub, call |-> c, faults |-> {}]
  BY DEF Init
<1>2. /\ s \in [Hashes -> SUBSET Callers] /\ x \in [Hashes -> 0..MaxTerm]
      /\ c \in [Hashes -> [Callers -> CallType]]
  BY CallTypes
<1>3. NoResub \in ResubType /\ NoResub.on = FALSE
  BY DEF NoResub, ResubType
<1>4. /\ \A h \in Hashes : s[h] = {} /\ x[h] = 0
      /\ \A h \in Hashes, k \in Callers : c[h][k].st = "idle"
  BY DEF NotCalling
<1> HIDE DEF s, x, c
<1>5. tab \in TabType
  BY <1>1, <1>2, <1>3 DEF TabType
<1>6. \A h \in Hashes : Waiting(tab, h) = {} /\ Calls(tab, h) = {} /\ tab.sinks[h] = {}
  BY <1>1, <1>4 DEF Waiting, Calls
<1>7. TabInv(tab)
  BY <1>1, <1>3, <1>5, <1>6
     DEF TabInv, PendHeard, ResubHeard, ResubInv, Attended, Dropped, Covered
<1>8. Channels
  <2>1. /\ term = 0 /\ leader = 0 /\ inbox = <<>> /\ wire = <<>> /\ attached = {}
        /\ asks = {} /\ busy = FALSE /\ late = 0
    BY DEF Init
  <2>2. <<>> \in Seq(RequestType) /\ <<>> \in Seq(WireType)
    OBVIOUS
  <2>3. inbox \in Seq(RequestType) /\ wire \in Seq(WireType)
    BY <2>1, <2>2
  <2>4. term \in 0..MaxTerm /\ late \in 0..MaxLate
    BY <2>1
  <2> QED
    BY <2>1, <2>3, <2>4, Zenon DEF Channels
<1>9. Times(wire, tab.info, term) /\ Past(tab, term)
  BY <1>1, <1>4 DEF Init, Times, Past
<1>10. Links(tab, wire, inbox, attached, leader)
  <2>1. wire = <<>> /\ inbox = <<>> /\ attached = {} /\ leader = 0
    BY DEF Init
  <2> QED
    BY <2>1, EmptyHolds DEF Links, Link
<1> QED
  BY <1>7, <1>8, <1>9, <1>10 DEF IInv

\* Steps of the follower that end no call and change no stream.
LEMMA GrowsKeeps ==
  ASSUME IInv, Grows(tab'), term' = term, leader' = leader, attached' = attached,
         asks' \subseteq Monitors, busy' \in BOOLEAN, late' \in 0..MaxLate,
         \/ wire' = wire /\ tab'.info \in {0, tab.info}
         \/ wire' = wire /\ wire = <<>> /\ tab'.info = leader
         \/ /\ leader # 0 /\ tab'.info = tab.info
            /\ \E o \in Monitors :
                 wire' = Append(wire, [kind |-> "hello", to |-> o, term |-> leader])
         \/ /\ wire # <<>> /\ wire' = Tail(wire)
            /\ tab'.info \in {tab.info, Head(wire).term}
  PROVE  IInv'
<1>1. /\ TabInv(tab) /\ Channels /\ Times(wire, tab.info, term) /\ Past(tab, term)
      /\ Links(tab, wire, inbox, attached, leader)
  BY DEF IInv
<1>2. /\ TabInv(tab') /\ Posted(tab.pend, tab') /\ tab'.source = tab.source
      /\ tab.faults \subseteq tab'.faults
  BY DEF Grows
<1>3. /\ wire \in Seq(WireType) /\ term \in 0..MaxTerm /\ leader \in {0, term}
      /\ tab.info \in 0..MaxTerm
  BY <1>1, TabTypes DEF Channels, TabInv
<1>4. inbox' \in Seq(RequestType) /\ (leader = 0 => inbox' = <<>>)
  <2>1. CASE inbox' = inbox
    BY <1>1, <2>1 DEF Channels
  <2>2. CASE inbox' # inbox
    <3>1. PICK g \in tab'.pend : leader # 0 /\ inbox' = Append(inbox, Request("subscribe", g))
      BY <1>2, <2>2 DEF Posted
    <3>2. Request("subscribe", g) \in RequestType
      BY <1>2, <3>1, TabTypes, Requests DEF TabInv
    <3> QED
      BY <1>1, <3>1, <3>2, AppendAt DEF Channels
  <2> QED
    BY <2>1, <2>2
<1>5. /\ wire' \in Seq(WireType) /\ Times(wire', tab'.info, term)
      /\ \A h \in Hashes : OneAnswer(wire, h) =>
           /\ OneAnswer(wire', h)
           /\ Answering(wire', h) => Answering(wire, h)
           /\ \A l : Accepting(wire', h, l) => Accepting(wire, h, l)
  <2>1. CASE wire' = wire /\ tab'.info \in {0, tab.info}
    <3>1. Times(wire, 0, term)
      <4>1. \A i \in 1..Len(wire) : wire[i].term >= 0
        BY <1>3 DEF WireType, HelloType, AnswerType
      <4> QED
        BY <1>1, <1>3, <4>1 DEF Times
    <3> QED
      BY <1>1, <1>3, <2>1, <3>1
  <2>2. CASE wire' = wire /\ wire = <<>> /\ tab'.info = leader
    <3>1. Times(<<>>, leader, term)
      BY <1>3 DEF Times
    <3> QED
      BY <1>3, <2>2, <3>1
  <2>3. CASE /\ leader # 0 /\ tab'.info = tab.info
             /\ \E o \in Monitors :
                  wire' = Append(wire, [kind |-> "hello", to |-> o, term |-> leader])
    <3>1. PICK o \in Monitors : wire' = Append(wire, [kind |-> "hello", to |-> o, term |-> leader])
      BY <2>3
    <3> DEFINE x == [kind |-> "hello", to |-> o, term |-> leader]
    <3>2. x \in WireType /\ x.term = term /\ \A h \in Hashes : x.to # h
      BY <1>3, <2>3, <3>1 DEF WireType, HelloType
    <3>3. wire' = Append(wire, x)
      BY <3>1
    <3> HIDE DEF x
    <3>4. Times(wire', tab.info, term)
      BY <1>1, <1>3, <3>2, <3>3, TimesAppend
    <3>5. wire' \in Seq(WireType)
      BY <1>3, <3>2, <3>3, AppendAt
    <3>6. ASSUME NEW h \in Hashes, OneAnswer(wire, h)
          PROVE  /\ OneAnswer(wire', h)
                 /\ Answering(wire', h) => Answering(wire, h)
                 /\ \A l : Accepting(wire', h, l) => Accepting(wire, h, l)
      BY <1>3, <3>2, <3>3, <3>6, WireAppend
    <3> QED
      BY <2>3, <3>4, <3>5, <3>6
  <2>4. CASE wire # <<>> /\ wire' = Tail(wire) /\ tab'.info \in {tab.info, Head(wire).term}
    <3>1. Times(wire', tab'.info, term)
      BY <1>1, <1>3, <2>4, TimesTail
    <3>2. wire' \in Seq(WireType)
      BY <1>3, <2>4, TailAt
    <3>3. ASSUME NEW h \in Hashes, OneAnswer(wire, h)
          PROVE  /\ OneAnswer(wire', h)
                 /\ Answering(wire', h) => Answering(wire, h)
                 /\ \A l : Accepting(wire', h, l) => Accepting(wire, h, l)
      BY <1>3, <2>4, <3>3, WireTail
    <3> QED
      BY <3>1, <3>2, <3>3
  <2> QED
    BY <2>1, <2>2, <2>3, <2>4
<1>6. Channels'
  BY <1>1, <1>4, <1>5 DEF Channels
<1>7. Past(tab', term')
  BY <1>1, <1>2 DEF Past
<1>8. Links(tab', wire', inbox', attached', leader')
  <2> SUFFICES ASSUME NEW h \in Hashes \ tab'.faults
               PROVE  Link(h, tab', wire', inbox', attached, leader)
    BY DEF Links
  <2>1. h \in Hashes /\ h \notin tab.faults /\ Link(h, tab, wire, inbox, attached, leader)
    BY <1>1, <1>2 DEF Links
  <2>2. OneAnswer(wire, h)
    BY <2>1 DEF Link
  <2>3. /\ OneAnswer(wire', h)
        /\ Answering(wire', h) => Answering(wire, h)
        /\ \A l : Accepting(wire', h, l) => Accepting(wire, h, l)
    BY <1>5, <2>1, <2>2
  <2> QED
    BY <1>1, <2>1, <2>3, GrowsLink
<1> QED
  BY <1>2, <1>5, <1>6, <1>7, <1>8 DEF IInv

LEMMA SameGrows ==
  ASSUME TabInv(tab), tab' = tab, inbox' = inbox
  PROVE  Grows(tab')
BY DEF Grows, Joins, Posted

\* The steps of the follower and its monitor.
LEMMA FollowerKeeps ==
  ASSUME IInv,
         \/ Tick \/ HelloAnswer
         \/ \E h \in Hashes, k \in PageCalls : Subscribe(h, k)
         \/ \E h \in Hashes, k \in Callers : Look(h, k) \/ Retry(h, k) \/ GiveUp(h, k)
         \/ \E o \in Monitors : HelloTimeout(o)
  PROVE  IInv'
<1>1. /\ TabInv(tab) /\ Channels /\ inbox \in Seq(RequestType) /\ wire \in Seq(WireType)
      /\ leader \in 0..MaxTerm /\ tab.info \in 0..MaxTerm
      /\ asks \subseteq Monitors /\ busy \in BOOLEAN /\ late \in 0..MaxLate
  BY TabTypes DEF IInv, Channels, TabInv
<1>2. ASSUME NEW o \in Monitors \ asks, Ask(o)
      PROVE  /\ asks' \subseteq Monitors
             /\ \/ wire' = wire
                \/ /\ leader # 0
                   /\ wire' = Append(wire, [kind |-> "hello", to |-> o, term |-> leader])
  BY <1>1, <1>2 DEF Ask
<1>3. CASE Tick
  <2>1. Grows(tab') /\ tab'.info = tab.info
    BY <1>1, <1>3, SameGrows DEF Tick
  <2>2. PICK o \in Monitors \ asks : Ask(o)
    BY <1>3 DEF Tick
  <2>3. term' = term /\ leader' = leader /\ attached' = attached /\ busy' = TRUE /\ late' = late
    BY <1>3 DEF Tick
  <2> QED
    BY <1>1, <1>2, <2>1, <2>2, <2>3, GrowsKeeps
<1>4. ASSUME NEW h \in Hashes, NEW k \in PageCalls, Subscribe(h, k)
      PROVE  IInv'
  <2>1. Grows(tab') /\ tab'.info = tab.info
    BY <1>1, <1>4, SubscribeDoes
  <2>2. term' = term /\ leader' = leader /\ attached' = attached /\ late' = late
    BY <1>4 DEF Subscribe
  <2>3. \/ \E o \in Monitors \ asks : Ask(o) /\ busy' = TRUE
        \/ asks' = asks /\ wire' = wire /\ busy' = busy
    BY <1>4 DEF Subscribe
  <2> QED
    BY <1>1, <1>2, <2>1, <2>2, <2>3, GrowsKeeps
<1>5. ASSUME NEW h \in Hashes, NEW k \in Callers, Look(h, k) \/ Retry(h, k) \/ GiveUp(h, k)
      PROVE  IInv'
  <2>1. /\ Grows(tab')
        /\ tab'.info = tab.info \/ (leader # 0 /\ wire = <<>> /\ tab'.info = leader)
    BY <1>1, <1>5, LookDoes, RetryDoes, GiveUpDoes
  <2>2. UNCHANGED <<term, leader, attached, wire, asks, busy, late>>
    BY <1>5 DEF Look, Retry, GiveUp
  <2> QED
    BY <1>1, <2>1, <2>2, GrowsKeeps
<1>6. CASE HelloAnswer
  <2>1. wire # <<>> /\ wire' = Tail(wire) /\ UNCHANGED <<term, leader, attached, late>>
    BY <1>6 DEF HelloAnswer
  <2>2. CASE Head(wire).to \in asks
    <3>1. Answered(Head(wire).to, Head(wire).term)
      BY <1>6, <2>2 DEF HelloAnswer
    <3>2. Head(wire).term \in 0..MaxTerm
      <4>1. Head(wire) \in WireType
        BY <1>1, <2>1, TailAt
      <4> QED
        BY <4>1 DEF WireType, HelloType, AnswerType
    <3>3. Grows(tab') /\ tab'.info = Head(wire).term
      BY <1>1, <3>1, <3>2, AnsweredDoes
    <3>4. asks' \subseteq Monitors /\ busy' = FALSE
      BY <1>1, <3>1 DEF Answered
    <3> QED
      BY <1>1, <2>1, <3>3, <3>4, GrowsKeeps
  <2>3. CASE Head(wire).to \notin asks
    <3>1. UNCHANGED <<asks, tab, inbox, busy>>
      BY <1>6, <2>3 DEF HelloAnswer
    <3>2. Grows(tab')
      BY <1>1, <3>1, SameGrows
    <3> QED
      BY <1>1, <2>1, <3>1, <3>2, GrowsKeeps
  <2> QED
    BY <2>2, <2>3
<1>7. ASSUME NEW o \in Monitors, HelloTimeout(o)
      PROVE  IInv'
  <2>1. Answered(o, 0) /\ UNCHANGED <<term, leader, attached, wire>>
    BY <1>7 DEF HelloTimeout
  <2>2. Grows(tab') /\ tab'.info = 0
    BY <1>1, <2>1, AnsweredDoes
  <2>3. late' \in 0..MaxLate
    BY <1>1, <1>7 DEF HelloTimeout, Expires
  <2>4. asks' \subseteq Monitors /\ busy' = FALSE
    BY <1>1, <2>1 DEF Answered
  <2> QED
    BY <2>1, <2>2, <2>3, <2>4, GrowsKeeps
<1> QED
  BY <1>3, <1>4, <1>5, <1>6, <1>7

\* The steps of the leader's server.
LEMMA ServerKeeps ==
  ASSUME IInv, Serve \/ Refuse
  PROVE  IInv'
<1> DEFINE r == Head(inbox)
           x(kd) == [kind |-> kd, to |-> r.hash, term |-> leader]
<1>1. /\ TabInv(tab) /\ Channels /\ Times(wire, tab.info, term) /\ Past(tab, term)
      /\ Links(tab, wire, inbox, attached, leader)
  BY DEF IInv
<1>2. /\ inbox # <<>> /\ inbox' = Tail(inbox) /\ UNCHANGED <<term, leader, asks, busy, late>>
      /\ r.op \in {"subscribe", "unsubscribe"}
  BY DEF Serve, Refuse
<1>3. PICK kd \in {"ok", "error"} :
        \/ /\ r.op = "subscribe" /\ tab' = tab
           /\ wire' = Append(wire, x(kd))
           /\ attached' = IF kd = "ok" THEN attached \cup {r.hash} ELSE attached
        \/ /\ r.op = "unsubscribe" /\ wire' = wire
           /\ \/ attached' = attached \ {r.hash} /\ tab' = tab
              \/ attached' = attached /\ tab' = [tab EXCEPT !.faults = @ \cup {r.hash}]
  <2>1. CASE Serve
    BY <2>1 DEF Serve
  <2>2. CASE Refuse
    BY <2>2 DEF Refuse
  <2> QED
    BY <2>1, <2>2
<1>4. inbox \in Seq(RequestType) /\ wire \in Seq(WireType) /\ tab.info \in 0..MaxTerm
  BY <1>1, TabTypes DEF Channels, TabInv
<1>5. r \in RequestType /\ r.hash \in Hashes /\ Tail(inbox) \in Seq(RequestType)
  <2>1. r \in RequestType /\ Tail(inbox) \in Seq(RequestType)
    BY <1>2, <1>4, TailAt
  <2> QED
    BY <2>1, Requests
<1>6. leader = term /\ leader \in 1..MaxTerm
  BY <1>1, <1>2 DEF Channels
<1>7. x(kd) \in WireType /\ x(kd).term = term
  BY <1>5, <1>6 DEF WireType, AnswerType
<1>8. /\ TabInv(tab') /\ tab'.pend = tab.pend /\ tab'.source = tab.source
      /\ tab'.kept = tab.kept /\ tab'.info = tab.info /\ tab.faults \subseteq tab'.faults
      /\ \/ tab' = tab
         \/ tab'.faults = tab.faults \cup {r.hash}
  <2>1. CASE tab' = tab
    BY <1>1, <2>1
  <2>2. CASE tab' = [tab EXCEPT !.faults = @ \cup {r.hash}]
    <3> DEFINE F == {r.hash}
    <3>1. F \in SUBSET Hashes /\ tab' = [tab EXCEPT !.faults = @ \cup F]
      BY <1>5, <2>2
    <3> HIDE DEF F
    <3>2. /\ TabInv(tab') /\ tab'.pend = tab.pend /\ tab'.source = tab.source
          /\ tab'.kept = tab.kept /\ tab'.info = tab.info
          /\ tab'.faults = tab.faults \cup F
      BY <1>1, <3>1, FaultsGrow
    <3> QED
      BY <3>2 DEF F
  <2> QED
    BY <1>3, <2>1, <2>2
<1> HIDE DEF x
<1>9. wire' \in Seq(WireType) /\ Times(wire', tab'.info, term)
  <2>1. CASE wire' = wire
    BY <1>1, <1>4, <1>8, <2>1
  <2>2. CASE wire' = Append(wire, x(kd))
    <3>1. Times(wire', tab.info, term)
      <4>1. term \in 0..MaxTerm
        BY <1>6
      <4> QED
        BY <1>1, <1>4, <1>7, <2>2, <4>1, TimesAppend
    <3>2. wire' \in Seq(WireType)
      BY <1>4, <1>7, <2>2, AppendAt
    <3> QED
      BY <1>8, <3>1, <3>2
  <2> QED
    BY <1>3, <2>1, <2>2
<1>10. Channels'
  <2>1. attached' \subseteq Hashes
    BY <1>1, <1>3, <1>5 DEF Channels
  <2> QED
    BY <1>1, <1>2, <1>5, <1>6, <1>9, <2>1 DEF Channels
<1>11. Past(tab', term')
  BY <1>1, <1>2, <1>8 DEF Past
<1>12. Links(tab', wire', inbox', attached', leader')
  <2> SUFFICES ASSUME NEW h \in Hashes \ tab'.faults
               PROVE  Link(h, tab', wire', inbox', attached', leader)
    BY <1>2 DEF Links
  <2>1. h \in Hashes /\ h \notin tab.faults /\ Link(h, tab, wire, inbox, attached, leader)
    BY <1>1, <1>8 DEF Links
  <2>2. \/ /\ r.op = "subscribe" /\ wire' = Append(wire, x(kd))
           /\ attached' = IF kd = "ok" THEN attached \cup {r.hash} ELSE attached
        \/ /\ r.op = "unsubscribe" /\ wire' = wire
           /\ attached' = attached \ {r.hash} \/ (attached' = attached /\ r.hash # h)
    <3>1. ASSUME tab' = [tab EXCEPT !.faults = @ \cup {r.hash}]
          PROVE  r.hash # h
      <4>1. tab'.faults = tab.faults \cup {r.hash}
        BY <1>1, <3>1 DEF TabInv, TabType
      <4> QED
        BY <4>1
    <3> QED
      BY <1>3, <3>1
  <2>3. Link(h, tab, wire', inbox', attached', leader)
    BY <1>1, <1>2, <2>1, <2>2, TakenLink DEF x
  <2> QED
    BY <1>8, <2>3, LinkSame
<1> QED
  BY <1>2, <1>8, <1>9, <1>10, <1>11, <1>12 DEF IInv

\* The ends of calls, and of subscriptions.
LEMMA EndsKeep ==
  ASSUME IInv,
         \/ CallAnswer
         \/ \E h \in Droppable : Unsubscribe(h)
         \/ \E h \in Hashes : CallTimeout(h)
  PROVE  IInv'
<1>1. /\ TabInv(tab) /\ Channels /\ Times(wire, tab.info, term) /\ Past(tab, term)
      /\ Links(tab, wire, inbox, attached, leader)
  BY DEF IInv
<1>2. /\ inbox \in Seq(RequestType) /\ wire \in Seq(WireType)
      /\ term \in 0..MaxTerm /\ tab.info \in 0..MaxTerm
      /\ tab.source \in [Hashes -> 0..MaxTerm]
  BY <1>1, TabTypes DEF Channels, TabInv
<1>3. CASE CallAnswer
  <2>1. wire # <<>> => Head(wire).term >= tab.info
    BY <1>1, <1>2, TimesTail
  <2>2. /\ wire # <<>> /\ Head(wire) \in AnswerType /\ wire' = Tail(wire)
        /\ TabInv(tab') /\ Posted(tab.pend \ {Head(wire).to}, tab')
        /\ tab'.info = tab.info /\ tab'.faults = tab.faults
        /\ \A g \in Hashes \ {Head(wire).to} : tab'.source[g] = tab.source[g]
        /\ tab'.source[Head(wire).to] \in {0, tab.source[Head(wire).to], Head(wire).term}
    BY <1>1, <1>2, <1>3, <2>1, CallAnswerDoes
  <2>3. UNCHANGED <<term, leader, attached, asks, busy, late>>
    BY <1>3 DEF CallAnswer
  <2>4. wire' \in Seq(WireType) /\ Times(wire', tab'.info, term') /\ Head(wire).term <= term
    BY <1>1, <1>2, <2>2, <2>3, TailAt, TimesTail
  <2>5. inbox' \in Seq(RequestType) /\ (leader = 0 => inbox' = <<>>)
    <3>1. CASE inbox' = inbox
      BY <1>1, <3>1 DEF Channels
    <3>2. CASE inbox' # inbox
      <4>1. PICK g \in tab'.pend : leader # 0 /\ inbox' = Append(inbox, Request("subscribe", g))
        BY <2>2, <3>2 DEF Posted
      <4>2. Request("subscribe", g) \in RequestType
        BY <2>2, <4>1, TabTypes, Requests DEF TabInv
      <4> QED
        BY <1>2, <4>1, <4>2, AppendAt
    <3> QED
      BY <3>1, <3>2
  <2>6. Channels'
    BY <1>1, <2>3, <2>4, <2>5 DEF Channels
  <2>7. Past(tab', term')
    <3> SUFFICES ASSUME NEW h \in Hashes PROVE tab'.source[h] <= term
      BY <2>3 DEF Past
    <3>1. tab.source[h] <= term /\ 0 <= term
      BY <1>1, <1>2 DEF Past
    <3>2. tab'.source[h] \in {0, tab.source[h], Head(wire).term}
      BY <2>2
    <3> QED
      BY <2>4, <3>1, <3>2
  <2>8. Links(tab', wire', inbox', attached', leader')
    <3> SUFFICES ASSUME NEW h \in Hashes \ tab'.faults
                 PROVE  Link(h, tab', wire', inbox', attached, leader)
      BY <2>3 DEF Links
    <3>1. h \in Hashes /\ h \notin tab.faults /\ Link(h, tab, wire, inbox, attached, leader)
      BY <1>1, <2>2 DEF Links
    <3> QED
      BY <1>1, <1>3, <2>1, <3>1, CallAnswerLink
  <2> QED
    BY <2>2, <2>4, <2>6, <2>7, <2>8 DEF IInv
<1>4. ASSUME NEW g \in Hashes, CallTimeout(g)
      PROVE  IInv'
  <2>1. /\ TabInv(tab') /\ tab'.info = tab.info /\ tab'.source = tab.source
        /\ tab.faults \subseteq tab'.faults
    BY <1>1, <1>4, CallTimeoutDoes
  <2>2. UNCHANGED <<term, leader, inbox, attached, wire, asks, busy>>
    BY <1>4 DEF CallTimeout
  <2>3. late' \in 0..MaxLate
    BY <1>1, <1>4 DEF CallTimeout, Expires, Channels
  <2>4. Channels' /\ Times(wire', tab'.info, term') /\ Past(tab', term')
    BY <1>1, <2>1, <2>2, <2>3 DEF Channels, Past
  <2>5. Links(tab', wire', inbox', attached', leader')
    <3> SUFFICES ASSUME NEW h \in Hashes \ tab'.faults
                 PROVE  Link(h, tab', wire, inbox, attached, leader)
      BY <2>2 DEF Links
    <3>1. Link(h, tab, wire, inbox, attached, leader)
      BY <1>1, <2>1 DEF Links
    <3> QED
      BY <1>1, <1>4, <3>1, CallTimeoutLink
  <2> QED
    BY <2>1, <2>4, <2>5 DEF IInv
<1>5. ASSUME NEW g \in Droppable, Unsubscribe(g)
      PROVE  IInv'
  <2>1. g \in Hashes
    OBVIOUS
  <2>2. /\ TabInv(tab') /\ tab'.info = tab.info
        /\ tab'.source = [tab.source EXCEPT ![g] = 0]
        /\ tab.faults \subseteq tab'.faults
        /\ inbox' = IF leader = 0 THEN inbox ELSE inbox \o <<Request("unsubscribe", g)>>
    BY <1>1, <1>5, <2>1, UnsubscribeDoes
  <2>3. UNCHANGED <<term, leader, attached, wire, asks, late>> /\ busy' \in BOOLEAN
    BY <1>1, <1>5 DEF Unsubscribe, Channels
  <2>4. inbox' \in Seq(RequestType) /\ (leader = 0 => inbox' = inbox)
    <3>1. Request("unsubscribe", g) \in RequestType
      BY <2>1, Requests
    <3> QED
      BY <1>2, <2>2, <3>1
  <2>5. Channels' /\ Times(wire', tab'.info, term')
    BY <1>1, <2>2, <2>3, <2>4 DEF Channels
  <2>6. Past(tab', term')
    BY <1>1, <1>2, <2>2, <2>3 DEF Past
  <2>7. Links(tab', wire', inbox', attached', leader')
    <3> SUFFICES ASSUME NEW h \in Hashes \ tab'.faults
                 PROVE  Link(h, tab', wire, inbox', attached, leader)
      BY <2>3 DEF Links
    <3>1. Link(h, tab, wire, inbox, attached, leader)
      BY <1>1, <2>2 DEF Links
    <3> QED
      BY <1>1, <1>5, <2>1, <3>1, UnsubscribeLink
  <2> QED
    BY <2>2, <2>5, <2>6, <2>7 DEF IInv
<1> QED
  BY <1>3, <1>4, <1>5

\* A new leader has a number that no answer and no stream bears.
LEMMA LeaderKeeps ==
  ASSUME IInv, Elect \/ Close
  PROVE  IInv'
<1>1. /\ TabInv(tab) /\ Channels /\ Times(wire, tab.info, term) /\ Past(tab, term)
      /\ Links(tab, wire, inbox, attached, leader)
  BY DEF IInv
<1>2. /\ tab' = tab /\ wire' = wire /\ UNCHANGED <<asks, busy, late>>
      /\ inbox' = <<>> /\ attached' = {}
      /\ \/ leader' = 0 /\ term' = term
         \/ leader' = term + 1 /\ term' = term + 1 /\ term < MaxTerm
  BY <1>1 DEF Elect, Close, Channels
<1>3. /\ term \in 0..MaxTerm /\ wire \in Seq(WireType) /\ tab.info \in 0..MaxTerm
      /\ tab.source \in [Hashes -> 0..MaxTerm]
      /\ \A i \in 1..Len(wire) : wire[i].term \in 0..MaxTerm
  <2>1. /\ term \in 0..MaxTerm /\ wire \in Seq(WireType) /\ tab.info \in 0..MaxTerm
        /\ tab.source \in [Hashes -> 0..MaxTerm]
    BY <1>1, TabTypes DEF Channels, TabInv
  <2> QED
    BY <2>1 DEF WireType, HelloType, AnswerType
<1>4. term' >= term
  BY <1>2, <1>3
<1>5. Channels'
  BY <1>1, <1>2, <1>3 DEF Channels
<1>6. Times(wire', tab'.info, term') /\ Past(tab', term')
  BY <1>1, <1>2, <1>3 DEF Times, Past
<1>7. Links(tab', wire', inbox', attached', leader')
  <2> SUFFICES ASSUME NEW h \in Hashes \ tab.faults
               PROVE  Link(h, tab, wire, <<>>, {}, leader')
    BY <1>2 DEF Links
  <2>1. Link(h, tab, wire, inbox, attached, leader)
    BY <1>1 DEF Links
  <2>2. leader' # 0 => tab.source[h] # leader' /\ ~Accepting(wire, h, leader')
    BY <1>1, <1>2, <1>3 DEF Past, Times, Accepting
  <2> QED
    BY <2>1, <2>2, EmptyHolds DEF Link
<1> QED
  BY <1>1, <1>2, <1>5, <1>6, <1>7 DEF IInv

LEMMA Inductive == IInv /\ [Next]_vars => IInv'
<1> SUFFICES ASSUME IInv, [Next]_vars PROVE IInv'
  OBVIOUS
<1>1. CASE Next
  BY <1>1, LeaderKeeps, ServerKeeps, FollowerKeeps, EndsKeep DEF Next
<1>2. CASE UNCHANGED vars
  BY <1>2 DEF vars, IInv, Channels
<1> QED
  BY <1>1, <1>2

\* IInv holds in every reachable state, whatever the constants.
THEOREM InvHolds == Spec => []IInv
BY InitInv, Inductive, PTL DEF Spec

-----------------------------------------------------------------------------
(* What follows                                                             *)

\* The follower, its leader's server and the messages between them keep their
\* types: no message names a leader that was not, no caller counts more than
\* MaxTries attempts (leaderCallStream), no timer is late more than MaxLate
\* times.
THEOREM TypeCorrect == Spec => []TypeOK
<1>1. IInv => TypeOK
  <2> SUFFICES ASSUME IInv PROVE TypeOK
    OBVIOUS
  <2>1. Channels /\ tab \in TabType
    BY DEF IInv, TabInv
  <2>2. \A i \in 1..Len(inbox) : inbox[i] \in RequestType
    BY <2>1 DEF Channels
  <2>3. \A i \in 1..Len(wire) : wire[i] \in HelloType \/ wire[i] \in AnswerType
    BY <2>1 DEF Channels, WireType
  <2>4. [Hashes -> [Callers -> CallType]] \subseteq [Hashes -> [Callers -> CallState]]
    BY DEF CallType
  <2>5. tab \in [kept : SUBSET Hashes, pend : SUBSET Hashes,
                 sinks : [Hashes -> SUBSET Callers], source : [Hashes -> 0..MaxTerm],
                 info : 0..MaxTerm, faults : SUBSET Hashes, resub : ResubType,
                 call : [Hashes -> [Callers -> CallState]]]
    BY <2>1, <2>4 DEF TabType
  <2> QED
    BY <2>1, <2>2, <2>3, <2>5
       DEF TypeOK, Channels, RequestType, HelloType, AnswerType, ResubType
<1> QED
  BY <1>1, InvHolds, PTL

\* No caller of leaderCallStream is left behind: a hash has callers that wait
\* exactly while its call is in pending, and resubscribeKeepAlive, while it is
\* in flight, is in a call (leader-tab-client.ts, tab-client-adapters.ts).
THEOREM CallersAreHeard == Spec => []CallersHeard
<1>1. IInv => CallersHeard
  BY DEF IInv, TabInv, PendHeard, ResubHeard, CallersHeard
<1> QED
  BY <1>1, InvHolds, PTL

\* A kept subscription of which nothing is under way is served by the leader
\* that there is: that leader's server streams its events to this follower, and
\* the page has a handler and takes them. Its stream is locked to a leader not
\* before the one the follower knows (Covered) and not after the last (Past),
\* and a stream locked to the leader is attached there (Link).
THEOREM KeptServed == Spec => []KeptIsServed
<1>1. IInv => KeptIsServed
  <2> SUFFICES ASSUME IInv, NEW h \in tab.kept \ tab.faults, Settled(h)
               PROVE  Served(h)
    BY DEF KeptIsServed
  <2>1. h \in Hashes /\ tab.source[h] \in 0..MaxTerm
    BY TabTypes DEF IInv, TabInv
  <2>2. leader # 0 /\ leader = term /\ tab.info = leader /\ term \in 0..MaxTerm
    BY DEF IInv, Channels, Settled
  <2>3. Current(tab, h)
    BY DEF IInv, TabInv, Covered, Settled
  <2>4. tab.source[h] = leader
    BY <2>1, <2>2, <2>3 DEF IInv, Past, Current
  <2>5. h \in attached
    BY <2>1, <2>2, <2>4 DEF IInv, Links, Link
  <2> QED
    BY <2>3, <2>4, <2>5 DEF Served, Current
<1> QED
  BY <1>1, InvHolds, PTL

\* A subscription that the page gave up, once nothing of it is under way, is
\* neither streamed by the leader nor handled by the page.
THEOREM DroppedDetached == Spec => []DroppedIsDetached
<1>1. IInv => DroppedIsDetached
  <2> SUFFICES ASSUME IInv, NEW h \in Hashes \ (tab.kept \cup tab.faults), Settled(h)
               PROVE  h \notin attached /\ tab.sinks[h] = {}
    BY DEF DroppedIsDetached
  <2>1. tab.sinks[h] = {}
    BY DEF IInv, TabInv, Dropped
  <2>2. ~Leaving(inbox, h)
    <3>1. Request("unsubscribe", h).hash = h
      BY DEF Request
    <3> QED
      BY <3>1 DEF Settled, Leaving
  <2>3. h \notin attached
    BY <2>2 DEF IInv, Links, Link
  <2> QED
    BY <2>1, <2>3
<1> QED
  BY <1>1, InvHolds, PTL

-----------------------------------------------------------------------------
(* Service lasts                                                            *)

\* No step of the follower other than the end of a call and unsubscribe takes
\* a page's handlers away.
Handled(t, n) == \A h \in Hashes : t.sinks[h] # {} => n.sinks[h] # {}

LEMMA CallingHandles ==
  ASSUME NEW t \in TabType, NEW h \in Hashes, NEW k
  PROVE  Handled(t, Calling(t, h, k))
<1> DEFINE s == [t.sinks EXCEPT ![h] = IF h \in t.pend THEN @ \cup {k} ELSE {k}]
<1>1. s[h] # {} /\ \A g \in Hashes \ {h} : s[g] = t.sinks[g]
  BY TabTypes
<1>2. Calling(t, h, k).sinks = s
  BY DEF Calling, TabType
<1> QED
  BY <1>1, <1>2 DEF Handled

LEMMA NextResubHandles ==
  ASSUME NEW t \in TabType, NEW n \in NextResub(t)
  PROVE  Handled(t, n)
<1> DEFINE left == t.kept \ t.resub.done
<1>1. CASE left = {}
  <2>1. n = [t EXCEPT !.resub = NoResub]
    BY <1>1 DEF NextResub
  <2> QED
    BY <2>1 DEF TabType, Handled
<1>2. CASE left # {}
  <2>1. PICK h \in left :
          n = Calling([t EXCEPT !.resub = [on |-> TRUE, at |-> h, done |-> @.done \cup {h}]],
                      h, "resub")
    BY <1>2 DEF NextResub
  <2> DEFINE r == [on |-> TRUE, at |-> h, done |-> t.resub.done \cup {h}]
             u == [t EXCEPT !.resub = r]
  <2>2. h \in Hashes
    BY <2>1, TabTypes
  <2>3. r \in ResubType
    <3>1. t.resub.done \cup {h} \in SUBSET Hashes
      BY <2>2, TabTypes DEF ResubType
    <3> QED
      BY <2>2, <3>1 DEF ResubType
  <2>4. n = Calling(u, h, "resub")
    BY <2>1
  <2> HIDE DEF r
  <2>5. u \in TabType /\ u.sinks = t.sinks
    BY <2>3 DEF TabType
  <2> HIDE DEF u
  <2>6. Handled(u, n)
    BY <2>2, <2>4, <2>5, CallingHandles
  <2> QED
    BY <2>5, <2>6 DEF Handled
<1> QED
  BY <1>1, <1>2

LEMMA LearnHandles ==
  ASSUME NEW t \in TabType, NEW info \in 0..MaxTerm, NEW n \in Learn(t, info)
  PROVE  Handled(t, n)
<1> DEFINE u == [t EXCEPT !.info = info]
           F == t.resub.done \ {t.resub.at}
<1>1. u \in TabType /\ u.sinks = t.sinks
  BY DEF TabType
<1>2. n \in (IF info \in {0, t.info} \/ t.kept = {} THEN {u}
             ELSE IF t.resub.on THEN {[u EXCEPT !.faults = @ \cup F]}
             ELSE NextResub(u))
  BY DEF Learn
<1> HIDE DEF u, F
<1>3. n = u \/ n = [u EXCEPT !.faults = @ \cup F] \/ n \in NextResub(u)
  BY <1>2
<1>4. Handled(u, n)
  BY <1>1, <1>3, NextResubHandles DEF Handled, TabType
<1> QED
  BY <1>1, <1>4 DEF Handled

LEMMA GiveUpHandles ==
  ASSUME TabInv(tab), inbox \in Seq(RequestType), NEW h \in Hashes, NEW k \in Callers, GiveUp(h, k)
  PROVE  /\ Handled(tab, tab') /\ tab'.source = tab.source
         /\ attached' = attached /\ leader' = leader
<1> DEFINE c == [tab.call EXCEPT ![h][k] = NotCalling]
           F == tab.faults \cup {h}
           u == [tab EXCEPT !.call = c, !.faults = F]
<1>1. tab \in TabType
  BY DEF TabInv
<1>2. PICK m \in (IF k = "resub" THEN NextResub(u) ELSE {u}) : tab' = m /\ Post(Posts(tab, m))
  BY DEF GiveUp
<1>3. c \in [Hashes -> [Callers -> CallType]] /\ F \in SUBSET Hashes
  BY <1>1, TabTypes, CallTypes
<1> HIDE DEF c, F
<1>4. u \in TabType /\ u.sinks = tab.sinks
  BY <1>1, <1>3 DEF TabType
<1> HIDE DEF u
<1>5. Handled(u, tab')
  BY <1>2, <1>4, NextResubHandles DEF Handled
<1>6. tab'.source = tab.source
  BY GiveUpDoes DEF Grows
<1>7. attached' = attached /\ leader' = leader
  BY DEF GiveUp
<1> QED
  BY <1>4, <1>5, <1>6, <1>7 DEF Handled

\* The steps of the follower and its monitor that end no call.
LEMMA FollowerHandles ==
  ASSUME IInv,
         \/ Tick \/ HelloAnswer
         \/ \E h \in Hashes, k \in PageCalls : Subscribe(h, k)
         \/ \E h \in Hashes, k \in Callers : Look(h, k) \/ Retry(h, k) \/ GiveUp(h, k)
         \/ \E o \in Monitors : HelloTimeout(o)
  PROVE  /\ Handled(tab, tab') /\ tab'.source = tab.source
         /\ attached' = attached /\ leader' = leader
<1>1. /\ TabInv(tab) /\ tab \in TabType /\ inbox \in Seq(RequestType) /\ wire \in Seq(WireType)
      /\ leader \in 0..MaxTerm
  BY DEF IInv, Channels, TabInv
<1>2. CASE Tick
  BY <1>2 DEF Tick, Handled
<1>3. ASSUME NEW o, NEW info \in 0..MaxTerm, Answered(o, info)
      PROVE  Handled(tab, tab') /\ tab'.source = tab.source
  <2>1. tab' \in Learn(tab, info)
    BY <1>3 DEF Answered
  <2>2. Handled(tab, tab')
    BY <1>1, <2>1, LearnHandles
  <2>3. tab'.source = tab.source
    BY <1>1, <2>1, LearnDoes
  <2> QED
    BY <2>2, <2>3
<1>4. CASE HelloAnswer
  <2>1. wire # <<>> /\ UNCHANGED <<leader, attached>>
    BY <1>4 DEF HelloAnswer
  <2>2. CASE Head(wire).to \in asks
    <3>1. Answered(Head(wire).to, Head(wire).term)
      BY <1>4, <2>2 DEF HelloAnswer
    <3>2. Head(wire) \in WireType
      BY <1>1, <2>1, TailAt
    <3>3. Head(wire).term \in 0..MaxTerm
      BY <3>2 DEF WireType, HelloType, AnswerType
    <3> QED
      BY <1>3, <2>1, <3>1, <3>3
  <2>3. CASE Head(wire).to \notin asks
    BY <1>4, <2>1, <2>3 DEF HelloAnswer, Handled
  <2> QED
    BY <2>2, <2>3
<1>5. ASSUME NEW o \in Monitors, HelloTimeout(o)
      PROVE  /\ Handled(tab, tab') /\ tab'.source = tab.source
             /\ attached' = attached /\ leader' = leader
  <2>1. Answered(o, 0) /\ UNCHANGED <<leader, attached>>
    BY <1>5 DEF HelloTimeout
  <2> QED
    BY <1>3, <2>1
<1>6. ASSUME NEW h \in Hashes, NEW k \in PageCalls, Subscribe(h, k)
      PROVE  /\ Handled(tab, tab') /\ tab'.source = tab.source
             /\ attached' = attached /\ leader' = leader
  <2> DEFINE u == [tab EXCEPT !.kept = @ \cup {h}]
  <2>1. tab' = Calling(u, h, k) /\ UNCHANGED <<leader, attached>>
    BY <1>6 DEF Subscribe
  <2>2. tab.kept \cup {h} \in SUBSET Hashes
    BY <1>1, TabTypes
  <2>3. u \in TabType /\ u.sinks = tab.sinks
    BY <1>1, <2>2 DEF TabType
  <2> HIDE DEF u
  <2>4. Handled(u, tab')
    BY <2>1, <2>3, CallingHandles
  <2>5. tab'.source = tab.source
    BY <1>1, <1>6, SubscribeDoes DEF Grows
  <2> QED
    BY <2>1, <2>3, <2>4, <2>5 DEF Handled
<1>7. ASSUME NEW h \in Hashes, NEW k \in Callers, Retry(h, k)
      PROVE  /\ Handled(tab, tab') /\ tab'.source = tab.source
             /\ attached' = attached /\ leader' = leader
  <2>1. tab' = Calling(tab, h, k) /\ UNCHANGED <<leader, attached>>
    BY <1>7 DEF Retry
  <2> QED
    BY <1>1, <1>7, <2>1, CallingHandles, RetryDoes DEF Grows
<1>8. ASSUME NEW h \in Hashes, NEW k \in Callers, Look(h, k)
      PROVE  /\ Handled(tab, tab') /\ tab'.source = tab.source
             /\ attached' = attached /\ leader' = leader
  <2>1. PICK n \in {tab} \cup (IF leader = 0 \/ wire # <<>> THEN {} ELSE Learn(tab, leader)) :
          tab' = [n EXCEPT !.call[h][k].st = "sleep"]
    BY <1>8 DEF Look
  <2>2. n = tab \/ n \in Learn(tab, leader)
    BY <2>1
  <2>3. Handled(tab, n) /\ n \in TabType
    BY <1>1, <2>2, LearnHandles, LearnDoes DEF Handled, TabInv
  <2>4. tab'.sinks = n.sinks
    BY <2>1, <2>3 DEF TabType
  <2>5. tab'.source = tab.source /\ UNCHANGED <<leader, attached>>
    BY <1>1, <1>8, LookDoes DEF Grows, Look
  <2> QED
    BY <2>3, <2>4, <2>5 DEF Handled
<1>9. ASSUME NEW h \in Hashes, NEW k \in Callers, GiveUp(h, k)
      PROVE  /\ Handled(tab, tab') /\ tab'.source = tab.source
             /\ attached' = attached /\ leader' = leader
  BY <1>1, <1>9, GiveUpHandles
<1> QED
  BY <1>2, <1>4, <1>5, <1>6, <1>7, <1>8, <1>9

\* A call that is rejected has callers, who are told.
LEMMA RejectionTold ==
  ASSUME TabInv(tab), NEW g \in tab.pend,
         tab'.call = [tab.call EXCEPT ![g] = [k \in Callers |->
                        IF k \in Waiting(tab, g)
                        THEN [st |-> "lost", tries |-> @[k].tries + 1] ELSE @[k]]]
  PROVE  CallFails(g)
<1>1. g \in Hashes /\ tab.call \in [Hashes -> [Callers -> CallType]]
  BY TabTypes DEF TabInv
<1>2. PICK k \in Waiting(tab, g) : TRUE
  BY <1>1 DEF TabInv, PendHeard
<1>3. k \in Callers /\ tab.call[g][k].st = "waiting"
  BY <1>2 DEF Waiting
<1>4. tab'.call[g][k] = [st |-> "lost", tries |-> tab.call[g][k].tries + 1]
  BY <1>1, <1>2, <1>3
<1> QED
  BY <1>3, <1>4 DEF CallFails

\* No answer under way is of a leader before the one that a stream is locked to.
Behind(t, w) == \A h \in Hashes, i \in 1..Len(w) : t.source[h] <= w[i].term

\* A resolved call leaves the handlers that the page has.
LEMMA ResolvedHandles ==
  ASSUME NEW t \in TabType, NEW h \in Hashes, NEW i \in 0..MaxTerm, NEW n \in Resolved(t, h, i)
  PROVE  Handled(t, n)
<1> DEFINE c == [k \in Callers |-> IF k \in Waiting(t, h) THEN NotCalling ELSE t.call[h][k]]
           x == IF t.sinks[h] = {} THEN t.source[h] ELSE i
           u == [t EXCEPT !.pend = @ \ {h}, !.source[h] = x, !.call[h] = c]
<1>1. n \in (IF "resub" \in Waiting(t, h) THEN NextResub(u) ELSE {u})
  BY DEF Resolved
<1>2. c \in [Callers -> CallType]
  BY TabTypes, CallTypes
<1>3. x \in 0..MaxTerm
  BY TabTypes
<1> HIDE DEF c, x
<1>4. t.pend \ {h} \in SUBSET Hashes
  BY TabTypes
<1>5. u \in TabType /\ u.sinks = t.sinks
  BY <1>2, <1>3, <1>4 DEF TabType
<1> HIDE DEF u
<1>6. Handled(u, n)
  BY <1>1, <1>5, NextResubHandles DEF Handled
<1> QED
  BY <1>5, <1>6 DEF Handled

\* The end of a call of g: it fails, its callers are told and no other hash
\* loses its handlers, or no hash does.
LEMMA CallAnswerTells ==
  ASSUME IInv, CallAnswer
  PROVE  /\ \A h \in Hashes : tab.sinks[h] # {} /\ tab'.sinks[h] = {} => CallFails(h)
         /\ \A h \in Hashes :
              \/ tab'.source[h] \in {tab.source[h], Head(wire).term}
              \/ CallFails(h)
<1> DEFINE g == Head(wire).to
<1>1. /\ TabInv(tab) /\ tab \in TabType /\ inbox \in Seq(RequestType) /\ wire \in Seq(WireType)
      /\ term \in 0..MaxTerm /\ tab.info \in 0..MaxTerm /\ Times(wire, tab.info, term)
  BY TabTypes DEF IInv, Channels, TabInv
<1>2. wire # <<>> /\ Head(wire).term >= tab.info
  BY <1>1, TimesTail DEF CallAnswer
<1>3. /\ Head(wire) \in AnswerType
      /\ \A h \in Hashes \ {g} : tab'.source[h] = tab.source[h]
      /\ tab'.source[g] \in {0, tab.source[g]} \/ tab'.source[g] = Head(wire).term
  BY <1>1, <1>2, CallAnswerDoes
<1>4. g \in Hashes /\ Head(wire).term \in 0..MaxTerm
  BY <1>3 DEF AnswerType
<1>5. PICK n \in (IF g \notin tab.pend THEN {tab}
                  ELSE IF Head(wire).kind = "ok" THEN Resolved(tab, g, Head(wire).term)
                  ELSE {[Rejected(tab, g) EXCEPT !.source[g] = 0]}) : tab' = n
  BY DEF CallAnswer
<1> HIDE DEF g
<1>6. CASE g \notin tab.pend
  BY <1>5, <1>6
<1>7. CASE g \in tab.pend /\ Head(wire).kind = "ok"
  <2>1. tab' \in Resolved(tab, g, Head(wire).term)
    BY <1>5, <1>7
  <2>2. Handled(tab, tab')
    BY <1>1, <1>4, <2>1, ResolvedHandles
  <2>3. tab'.source[g] \in {tab.source[g], Head(wire).term}
    <3> DEFINE i == Head(wire).term
    <3>1. i \in 1..MaxTerm /\ i >= tab.info /\ tab' \in Resolved(tab, g, i)
      BY <1>2, <1>3, <2>1 DEF AnswerType
    <3> HIDE DEF i
    <3>2. tab'.source[g] \in {tab.source[g], i}
      BY <1>1, <1>7, <3>1, ResolvedDoes
    <3> QED
      BY <3>2 DEF i
  <2> QED
    BY <1>3, <1>4, <2>2, <2>3 DEF Handled
<1>8. CASE g \in tab.pend /\ Head(wire).kind # "ok"
  <2>1. tab' = [Rejected(tab, g) EXCEPT !.source[g] = 0]
    BY <1>5, <1>8
  <2>2. /\ tab'.sinks = [tab.sinks EXCEPT ![g] = {}]
        /\ tab'.call = [tab.call EXCEPT ![g] = [k \in Callers |->
                           IF k \in Waiting(tab, g)
                           THEN [st |-> "lost", tries |-> @[k].tries + 1] ELSE @[k]]]
    BY <1>1, <2>1 DEF Rejected, TabType
  <2>3. CallFails(g)
    BY <1>1, <1>4, <1>8, <2>2, RejectionTold
  <2> QED
    BY <1>1, <1>3, <1>4, <2>2, <2>3, TabTypes
<1> QED
  BY <1>6, <1>7, <1>8

LEMMA BehindInit == Init => Behind(tab, wire)
BY DEF Init, Behind

\* A stream is locked only to the leader whose answer is taken, and those still
\* on the wire are of no leader before it.
LEMMA BehindKeeps ==
  ASSUME IInv, Behind(tab, wire), [Next]_vars
  PROVE  Behind(tab', wire')
<1>1. /\ TabInv(tab) /\ wire \in Seq(WireType) /\ term \in 0..MaxTerm /\ tab.info \in 0..MaxTerm
      /\ leader \in {0, term} /\ Times(wire, tab.info, term) /\ Past(tab, term)
      /\ tab.source \in [Hashes -> 0..MaxTerm] /\ inbox \in Seq(RequestType)
  BY TabTypes DEF IInv, Channels, TabInv
<1>2. ASSUME wire # <<>>, wire' = Tail(wire),
             \A h \in Hashes : tab'.source[h] \in {0, tab.source[h], Head(wire).term}
      PROVE  Behind(tab', wire')
  <2> SUFFICES ASSUME NEW h \in Hashes, NEW i \in 1..Len(Tail(wire))
               PROVE  tab'.source[h] <= Tail(wire)[i].term
    BY <1>2 DEF Behind
  <2>1. i + 1 \in 1..Len(wire) /\ Tail(wire)[i] = wire[i + 1]
    BY <1>1, <1>2, TailAt
  <2>2. tab.source[h] <= wire[i + 1].term
    BY <2>1 DEF Behind
  <2>3. Times(Tail(wire), Head(wire).term, term)
    BY <1>1, <1>2, TimesTail
  <2>4. Head(wire).term <= Tail(wire)[i].term
    BY <2>3 DEF Times
  <2>5. wire[i + 1] \in WireType
    BY <1>1, <2>1
  <2>6. 0 <= Tail(wire)[i].term
    BY <2>1, <2>5 DEF WireType, HelloType, AnswerType
  <2> QED
    BY <1>2, <2>1, <2>2, <2>4, <2>6
<1>3. ASSUME wire' = wire, \A h \in Hashes : tab'.source[h] \in {0, tab.source[h]}
      PROVE  Behind(tab', wire')
  <2> SUFFICES ASSUME NEW h \in Hashes, NEW i \in 1..Len(wire)
               PROVE  tab'.source[h] <= wire[i].term
    BY <1>3 DEF Behind
  <2>1. tab.source[h] <= wire[i].term /\ tab.source[h] \in 0..MaxTerm
    BY <1>1 DEF Behind
  <2>2. wire[i] \in WireType
    BY <1>1
  <2>3. wire[i].term \in Nat
    BY <2>2 DEF WireType, HelloType, AnswerType
  <2> QED
    BY <1>3, <2>1, <2>3
<1>4. ASSUME NEW x \in WireType, wire' = Append(wire, x), x.term = term, tab'.source = tab.source
      PROVE  Behind(tab', wire')
  <2> SUFFICES ASSUME NEW h \in Hashes, NEW i \in 1..Len(wire')
               PROVE  tab.source[h] <= wire'[i].term
    BY <1>4 DEF Behind
  <2>1. /\ Len(wire') = Len(wire) + 1 /\ wire'[Len(wire) + 1] = x /\ Len(wire) \in Nat
        /\ \A j \in 1..Len(wire) : wire'[j] = wire[j]
    BY <1>1, <1>4, AppendAt
  <2>2. CASE i = Len(wire) + 1
    BY <1>1, <1>4, <2>1, <2>2 DEF Past
  <2>3. CASE i # Len(wire) + 1
    <3>1. i \in 1..Len(wire)
      BY <2>1, <2>3
    <3> QED
      BY <2>1, <3>1 DEF Behind
  <2> QED
    BY <2>2, <2>3
<1>5. ASSUME NEW o \in Monitors, Ask(o), tab'.source = tab.source
      PROVE  Behind(tab', wire')
  <2> DEFINE x == [kind |-> "hello", to |-> o, term |-> leader]
  <2>1. CASE leader = 0
    BY <1>3, <1>5, <2>1 DEF Ask
  <2>2. CASE leader # 0
    <3>1. x \in WireType /\ x.term = term
      BY <1>1, <2>2 DEF WireType, HelloType
    <3>2. wire' = Append(wire, x)
      BY <1>5, <2>2 DEF Ask
    <3> HIDE DEF x
    <3> QED
      BY <1>4, <1>5, <3>1, <3>2
  <2> QED
    BY <2>1, <2>2
<1>6. ASSUME \/ Tick \/ HelloAnswer
             \/ \E h \in Hashes, k \in PageCalls : Subscribe(h, k)
             \/ \E h \in Hashes, k \in Callers : Look(h, k) \/ Retry(h, k) \/ GiveUp(h, k)
             \/ \E o \in Monitors : HelloTimeout(o)
      PROVE  Behind(tab', wire')
  <2>1. tab'.source = tab.source
    BY <1>6, FollowerHandles
  <2> DEFINE Moves == \/ \E o \in Monitors : Ask(o)
                      \/ wire # <<>> /\ wire' = Tail(wire)
                      \/ wire' = wire
  <2>2. Moves
    <3>1. Tick \/ HelloAnswer => Moves
      BY DEF Tick, HelloAnswer
    <3>2. (\E h \in Hashes, k \in PageCalls : Subscribe(h, k)) => Moves
      BY DEF Subscribe
    <3>3. (\E h \in Hashes, k \in Callers : Look(h, k) \/ Retry(h, k) \/ GiveUp(h, k)) => Moves
      BY DEF Look, Retry, GiveUp
    <3>4. (\E o \in Monitors : HelloTimeout(o)) => Moves
      BY DEF HelloTimeout
    <3> HIDE DEF Moves
    <3> QED
      BY <1>6, <3>1, <3>2, <3>3, <3>4
  <2> QED
    BY <1>2, <1>3, <1>5, <2>1, <2>2
<1>7. CASE CallAnswer
  <2>1. wire # <<>> /\ Head(wire).term >= tab.info
    BY <1>1, <1>7, TimesTail DEF CallAnswer
  <2>2. /\ wire' = Tail(wire)
        /\ \A h \in Hashes : tab'.source[h] \in {0, tab.source[h], Head(wire).term}
    BY <1>1, <1>7, <2>1, CallAnswerDoes
  <2> QED
    BY <1>2, <2>1, <2>2
<1>8. ASSUME NEW g \in Hashes, CallTimeout(g)
      PROVE  Behind(tab', wire')
  <2>1. tab'.source = tab.source /\ wire' = wire
    BY <1>1, <1>8, CallTimeoutDoes DEF CallTimeout
  <2> QED
    BY <1>3, <2>1
<1>9. ASSUME NEW g \in Droppable, Unsubscribe(g)
      PROVE  Behind(tab', wire')
  <2>1. g \in Hashes
    OBVIOUS
  <2>2. tab'.source = [tab.source EXCEPT ![g] = 0]
    BY <1>1, <1>9, <2>1, UnsubscribeDoes
  <2>3. wire' = wire
    BY <1>9 DEF Unsubscribe
  <2> QED
    BY <1>1, <1>3, <2>2, <2>3
<1>10. CASE Elect \/ Close
  BY <1>3, <1>10 DEF Elect, Close
<1>11. CASE Serve \/ Refuse
  <2> DEFINE r == Head(inbox)
             x(kd) == [kind |-> kd, to |-> r.hash, term |-> leader]
  <2>1. /\ inbox # <<>>
        /\ tab' = tab \/ tab' = [tab EXCEPT !.faults = @ \cup {r.hash}]
        /\ wire' = wire \/ \E kd \in {"ok", "error"} : wire' = Append(wire, x(kd))
    BY <1>11 DEF Serve, Refuse
  <2>2. tab'.source = tab.source
    BY <1>1, <2>1 DEF TabInv, TabType
  <2>3. CASE wire' = wire
    BY <1>3, <2>2, <2>3
  <2>4. ASSUME NEW kd \in {"ok", "error"}, wire' = Append(wire, x(kd))
        PROVE  Behind(tab', wire')
    <3>1. r \in RequestType
      BY <1>1, <2>1, TailAt
    <3>2. leader # 0
      BY <2>1 DEF IInv, Channels
    <3>3. x(kd) \in WireType /\ x(kd).term = term
      BY <1>1, <3>1, <3>2 DEF RequestType, WireType, AnswerType
    <3> HIDE DEF x
    <3> QED
      BY <1>4, <2>2, <2>4, <3>3
  <2> QED
    BY <2>1, <2>3, <2>4
<1>12. CASE UNCHANGED vars
  BY <1>12 DEF vars
<1> QED
  BY <1>6, <1>7, <1>8, <1>9, <1>10, <1>11, <1>12 DEF Next

LEMMA BehindHolds == Spec => []Behind(tab, wire)
<1>1. Behind(tab, wire) /\ IInv /\ [Next]_vars => Behind(tab, wire)'
  BY BehindKeeps
<1> QED
  BY <1>1, BehindInit, InvHolds, PTL DEF Spec

\* What ends the service of a hash.
LEMMA ServiceEnds ==
  ASSUME IInv, Behind(tab, wire), [Next]_vars, NEW h \in Hashes \ tab'.faults,
         Served(h), ~Served(h)'
  PROVE  leader' # leader \/ h \in tab.kept \ tab'.kept \/ CallFails(h)
<1>1. /\ TabInv(tab) /\ tab \in TabType /\ wire \in Seq(WireType) /\ inbox \in Seq(RequestType)
      /\ term \in 0..MaxTerm /\ tab.info \in 0..MaxTerm /\ leader \in {0, term}
      /\ Times(wire, tab.info, term)
      /\ Links(tab, wire, inbox, attached, leader) /\ (leader = 0 => attached = {})
  BY TabTypes DEF IInv, Channels, TabInv
<1>2. h \in Hashes /\ h \in attached /\ tab.sinks[h] # {} /\ tab.source[h] = leader
      /\ leader = term /\ leader # 0
  BY <1>1 DEF Served
<1>3. ~(h \in attached' /\ tab'.sinks[h] # {} /\ tab'.source[h] = leader')
  BY DEF Served
<1>4. CASE Elect \/ Close
  BY <1>2, <1>4 DEF Elect, Close
<1>5. CASE Serve \/ Refuse
  <2> DEFINE r == Head(inbox)
  <2>1. /\ inbox # <<>> /\ leader' = leader
        /\ tab' = tab \/ tab' = [tab EXCEPT !.faults = @ \cup {r.hash}]
        /\ h \in attached' \/ (tab' = tab /\ r.op = "unsubscribe" /\ r.hash = h)
    BY <1>2, <1>5 DEF Serve, Refuse
  <2>2. /\ tab'.source = tab.source /\ tab'.sinks = tab.sinks
    BY <1>1, <2>1 DEF TabType
  <2>3. tab' = tab /\ r.op = "unsubscribe" /\ r.hash = h
    BY <1>2, <1>3, <2>1, <2>2
  <2>4. r \in RequestType /\ r = inbox[1] /\ 1 \in 1..Len(inbox)
    BY <1>1, <2>1, TailAt
  <2>5. r = Request("unsubscribe", h)
    BY <2>3, <2>4 DEF RequestType, Request
  <2>6. Leaving(inbox, h)
    BY <2>4, <2>5 DEF Leaving
  <2>7. Link(h, tab, wire, inbox, attached, leader)
    BY <1>1, <2>3 DEF Links
  <2> QED
    BY <1>2, <2>6, <2>7 DEF Link
<1>6. CASE \/ Tick \/ HelloAnswer
           \/ \E g \in Hashes, k \in PageCalls : Subscribe(g, k)
           \/ \E g \in Hashes, k \in Callers : Look(g, k) \/ Retry(g, k) \/ GiveUp(g, k)
           \/ \E o \in Monitors : HelloTimeout(o)
  BY <1>2, <1>3, <1>6, FollowerHandles DEF Handled
<1>7. CASE CallAnswer
  <2>1. wire # <<>> /\ UNCHANGED <<leader, attached>>
    BY <1>7 DEF CallAnswer
  <2>2. Head(wire).term = leader
    <3>1. Head(wire) = wire[1] /\ 1 \in 1..Len(wire) /\ Head(wire) \in WireType
      BY <1>1, <2>1, TailAt
    <3>2. tab.source[h] <= Head(wire).term
      BY <1>2, <3>1 DEF Behind
    <3>3. Head(wire).term <= term /\ Head(wire).term \in 0..MaxTerm
      BY <1>1, <2>1, TimesTail
    <3> QED
      BY <1>1, <1>2, <3>2, <3>3
  <2> QED
    BY <1>2, <1>3, <1>7, <2>1, <2>2, CallAnswerTells
<1>8. ASSUME NEW g \in Hashes, CallTimeout(g)
      PROVE  CallFails(h)
  <2>1. /\ g \in tab.pend /\ UNCHANGED <<leader, attached>>
        /\ tab' = [Rejected(tab, g) EXCEPT !.faults = tab'.faults]
    BY <1>1, <1>8 DEF CallTimeout, Rejected, TabType
  <2>2. /\ tab'.sinks = [tab.sinks EXCEPT ![g] = {}] /\ tab'.source = tab.source
        /\ tab'.call = [tab.call EXCEPT ![g] = [k \in Callers |->
                           IF k \in Waiting(tab, g)
                           THEN [st |-> "lost", tries |-> @[k].tries + 1] ELSE @[k]]]
    BY <1>1, <2>1 DEF Rejected, TabType
  <2>3. CallFails(g)
    BY <1>1, <2>1, <2>2, RejectionTold
  <2>4. g = h
    BY <1>1, <1>2, <1>3, <2>1, <2>2, TabTypes
  <2> QED
    BY <2>3, <2>4
<1>9. ASSUME NEW g \in Droppable, Unsubscribe(g)
      PROVE  h \in tab.kept \ tab'.kept
  <2>1. /\ g \in tab.kept /\ UNCHANGED <<leader, attached>>
        /\ tab'.kept = tab.kept \ {g}
        /\ tab'.sinks = [tab.sinks EXCEPT ![g] = {}]
        /\ tab'.source = [tab.source EXCEPT ![g] = 0]
    BY <1>1, <1>9 DEF Unsubscribe, TabType
  <2>2. g = h
    BY <1>1, <1>2, <1>3, <2>1, TabTypes
  <2> QED
    BY <2>1, <2>2
<1>10. CASE UNCHANGED vars
  BY <1>2, <1>3, <1>10 DEF vars
<1> QED
  BY <1>4, <1>5, <1>6, <1>7, <1>8, <1>9, <1>10 DEF Next

\* What the leader streams to a page goes on being taken there: a second
\* subscribe, a resubscription, a late answer of an earlier leader (callStream,
\* the stream lock) or an unsubscribe under way from before (the server's set of
\* clients) does not end it. It ends with the leader, by the page's own
\* unsubscribe, or when a later call of the same hash fails.
THEOREM ServiceStays == Spec => ServiceLasts
<1>1. IInv /\ Behind(tab, wire) /\ [Next]_vars =>
        [\A h \in Hashes \ tab'.faults :
           Served(h) /\ ~Served(h)' =>
             leader' # leader \/ h \in tab.kept \ tab'.kept \/ CallFails(h)]_vars
  BY ServiceEnds
<1> QED
  BY <1>1, InvHolds, BehindHolds, PTL DEF Spec, ServiceLasts
=============================================================================
