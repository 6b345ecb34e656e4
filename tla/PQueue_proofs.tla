---------------------------- MODULE PQueue_proofs ----------------------------
(* Facts about Insert, for any entries: where p-queue puts an entry changes  *)
(* neither which others there are nor how many of a kind.                    *)
EXTENDS PQueue, FiniteSetTheorems, SequenceTheorems, TLAPS

\* The entries of a queue.
Elements(q) == {q[i] : i \in DOMAIN q}

\* The positions of a queue that hold an entry of P.
Positions(q, P) == {i \in DOMAIN q : q[i] \in P}

\* One entry more, at some position, and the others in the order they had.
LEMMA InsertPosition ==
  ASSUME NEW S, NEW q \in Seq(S), NEW e \in S
  PROVE  /\ Insert(q, e) \in Seq(S) /\ Len(Insert(q, e)) = Len(q) + 1
         /\ \E n \in 1..(Len(q) + 1) : \A i \in 1..(Len(q) + 1) :
              Insert(q, e)[i] = IF i < n THEN q[i] ELSE IF i = n THEN e ELSE q[i - 1]
<1> DEFINE ahead == {i \in DOMAIN q : Priority(q[i]) >= Priority(e)}
           n == Cardinality(ahead) + 1
           left == SubSeq(q, 1, n - 1)
           right == SubSeq(q, n, Len(q))
           begin == left \o <<e>>
<1>1. n \in 1..(Len(q) + 1)
  <2>1. IsFiniteSet(1..Len(q)) /\ Cardinality(1..Len(q)) = Len(q)
    <3>1. Len(q) \in Nat
      OBVIOUS
    <3> HIDE DEF ahead
    <3> QED
      BY <3>1, FS_Interval
  <2>2. ahead \in SUBSET (1..Len(q))
    <3>1. DOMAIN q = 1..Len(q)
      OBVIOUS
    <3> QED
      BY <3>1
  <2>3. IsFiniteSet(ahead) /\ Cardinality(ahead) <= Len(q)
    BY <2>1, <2>2, FS_Subset
  <2>4. Cardinality(ahead) \in Nat
    BY <2>3, FS_CardinalityType
  <2> QED
    BY <2>3, <2>4
<1>2. Insert(q, e) = begin \o right
  BY DEF Insert, InsertAt
<1> HIDE DEF n
<1>3. left \in Seq(S) /\ Len(left) = n - 1 /\ \A i \in 1..(n - 1) : left[i] = q[i]
  BY <1>1, SubSeqProperties
<1>4. right \in Seq(S) /\ Len(right) = Len(q) - n + 1
      /\ \A i \in 1..(Len(q) - n + 1) : right[i] = q[n + i - 1]
  BY <1>1, SubSeqProperties
<1> HIDE DEF left, right
<1>5. /\ begin \in Seq(S) /\ Len(begin) = n
      /\ \A i \in 1..n : begin[i] = IF i < n THEN q[i] ELSE e
  <2>1. <<e>> \in Seq(S) /\ Len(<<e>>) = 1 /\ <<e>>[1] = e
    OBVIOUS
  <2> QED
    BY <1>1, <1>3, <2>1, ConcatProperties
<1> HIDE DEF begin
<1>6. /\ Insert(q, e) \in Seq(S) /\ Len(Insert(q, e)) = Len(q) + 1
      /\ \A i \in 1..(Len(q) + 1) :
           Insert(q, e)[i] = IF i <= n THEN begin[i] ELSE right[i - n]
  <2>1. Len(begin) + Len(right) = Len(q) + 1
    BY <1>1, <1>4, <1>5
  <2>2. /\ begin \o right \in Seq(S) /\ Len(begin \o right) = Len(begin) + Len(right)
        /\ \A i \in 1..(Len(begin) + Len(right)) :
             (begin \o right)[i] = IF i <= Len(begin) THEN begin[i] ELSE right[i - Len(begin)]
    BY <1>4, <1>5, ConcatProperties
  <2> QED
    BY <1>2, <1>5, <2>1, <2>2
<1>7. ASSUME NEW i \in 1..(Len(q) + 1)
      PROVE  Insert(q, e)[i] = IF i < n THEN q[i] ELSE IF i = n THEN e ELSE q[i - 1]
  <2>1. CASE i <= n
    BY <1>1, <1>5, <1>6, <2>1
  <2>2. CASE i > n
    <3>1. i - n \in 1..(Len(q) - n + 1) /\ n + (i - n) - 1 = i - 1
      BY <1>1, <2>2
    <3>2. right[i - n] = q[n + (i - n) - 1]
      BY <1>4, <3>1
    <3>3. Insert(q, e)[i] = right[i - n]
      BY <1>1, <1>6, <2>2
    <3> QED
      BY <1>1, <2>2, <3>1, <3>2, <3>3
  <2> QED
    BY <1>1, <2>1, <2>2
<1> QED
  BY <1>1, <1>6, <1>7

LEMMA InsertElements ==
  ASSUME NEW S, NEW q \in Seq(S), NEW e \in S
  PROVE  Elements(Insert(q, e)) = Elements(q) \cup {e}
<1>1. PICK n \in 1..(Len(q) + 1) : \A i \in 1..(Len(q) + 1) :
        Insert(q, e)[i] = IF i < n THEN q[i] ELSE IF i = n THEN e ELSE q[i - 1]
  BY InsertPosition
<1>2. DOMAIN Insert(q, e) = 1..(Len(q) + 1) /\ DOMAIN q = 1..Len(q)
  BY InsertPosition
<1>3. ASSUME NEW i \in 1..(Len(q) + 1)
      PROVE  Insert(q, e)[i] \in Elements(q) \cup {e}
  <2>1. CASE i < n
    BY <1>1, <1>2, <2>1 DEF Elements
  <2>2. CASE i > n
    <3>1. i - 1 \in 1..Len(q) /\ Insert(q, e)[i] = q[i - 1]
      BY <1>1, <2>2
    <3> QED
      BY <1>2, <3>1 DEF Elements
  <2> QED
    BY <1>1, <2>1, <2>2
<1>4. ASSUME NEW i \in 1..Len(q)
      PROVE  q[i] \in Elements(Insert(q, e))
  <2>1. CASE i < n
    BY <1>1, <1>2, <2>1 DEF Elements
  <2>2. CASE i >= n
    <3>1. i + 1 \in 1..(Len(q) + 1) /\ Insert(q, e)[i + 1] = q[i]
      BY <1>1, <2>2
    <3> QED
      BY <1>2, <3>1 DEF Elements
  <2> QED
    BY <1>1, <2>1, <2>2
<1>5. e \in Elements(Insert(q, e))
  BY <1>1, <1>2 DEF Elements
<1> QED
  BY <1>2, <1>3, <1>4, <1>5 DEF Elements

\* Entries that differ in a key still do, if the new one's is not there.
LEMMA InsertDistinct ==
  ASSUME NEW S, NEW q \in Seq(S), NEW e \in S,
         \A i, k \in DOMAIN q : q[i].job = q[k].job => i = k,
         \A i \in DOMAIN q : q[i].job # e.job
  PROVE  \A i, k \in DOMAIN Insert(q, e) : Insert(q, e)[i].job = Insert(q, e)[k].job => i = k
<1>1. PICK n \in 1..(Len(q) + 1) : \A i \in 1..(Len(q) + 1) :
        Insert(q, e)[i] = IF i < n THEN q[i] ELSE IF i = n THEN e ELSE q[i - 1]
  BY InsertPosition
<1>2. DOMAIN Insert(q, e) = 1..(Len(q) + 1) /\ DOMAIN q = 1..Len(q)
  BY InsertPosition
<1> DEFINE from(i) == IF i < n THEN i ELSE i - 1
<1>3. ASSUME NEW i \in 1..(Len(q) + 1), i # n
      PROVE  from(i) \in DOMAIN q /\ Insert(q, e)[i] = q[from(i)]
  BY <1>1, <1>2, <1>3
<1>4. Insert(q, e)[n] = e
  BY <1>1
<1>5. \A i, k \in 1..(Len(q) + 1) : i # n /\ k # n /\ from(i) = from(k) => i = k
  BY <1>1
<1> HIDE DEF from
<1> QED
  BY <1>2, <1>3, <1>4, <1>5

LEMMA PositionsFinite ==
  ASSUME NEW S, NEW q \in Seq(S), NEW P
  PROVE  IsFiniteSet(Positions(q, P)) /\ Cardinality(Positions(q, P)) \in Nat
<1>1. IsFiniteSet(1..Len(q)) /\ Positions(q, P) \in SUBSET (1..Len(q))
  BY FS_Interval DEF Positions
<1> QED
  BY <1>1, FS_Subset, FS_CardinalityType

LEMMA InsertCount ==
  ASSUME NEW S, NEW q \in Seq(S), NEW e \in S, NEW P
  PROVE  Cardinality(Positions(Insert(q, e), P))
           = Cardinality(Positions(q, P)) + (IF e \in P THEN 1 ELSE 0)
<1>1. PICK n \in 1..(Len(q) + 1) : \A i \in 1..(Len(q) + 1) :
        Insert(q, e)[i] = IF i < n THEN q[i] ELSE IF i = n THEN e ELSE q[i - 1]
  BY InsertPosition
<1>2. DOMAIN Insert(q, e) = 1..(Len(q) + 1) /\ DOMAIN q = 1..Len(q)
  BY InsertPosition
<1> DEFINE old == Positions(q, P)
           moved == Positions(Insert(q, e), P) \ {n}
           to == [i \in old |-> IF i < n THEN i ELSE i + 1]
<1>3. to \in Bijection(old, moved)
  <2>1. ASSUME NEW i \in old PROVE to[i] \in moved
    <3>1. i \in 1..Len(q) /\ q[i] \in P
      BY <1>2 DEF Positions
    <3>2. to[i] \in 1..(Len(q) + 1) /\ to[i] # n /\ Insert(q, e)[to[i]] = q[i]
      BY <1>1, <3>1
    <3> QED
      BY <1>2, <3>1, <3>2 DEF Positions
  <2>2. ASSUME NEW i \in old, NEW k \in old, to[i] = to[k] PROVE i = k
    BY <1>1, <1>2, <2>2 DEF Positions
  <2>3. ASSUME NEW k \in moved PROVE \E i \in old : to[i] = k
    <3>1. k \in 1..(Len(q) + 1) /\ k # n /\ Insert(q, e)[k] \in P
      BY <1>2 DEF Positions
    <3>2. CASE k < n
      <4>1. k \in old
        BY <1>1, <1>2, <3>1, <3>2 DEF Positions
      <4> QED
        BY <3>2, <4>1
    <3>3. CASE k > n
      <4>1. k - 1 \in old
        BY <1>1, <1>2, <3>1, <3>3 DEF Positions
      <4>2. to[k - 1] = k
        BY <1>1, <3>1, <3>3, <4>1
      <4> QED
        BY <4>1, <4>2
    <3> QED
      BY <1>1, <3>1, <3>2, <3>3
  <2>4. to \in [old -> moved]
    BY <2>1
  <2> HIDE DEF old, moved, to
  <2> QED
    BY <2>1, <2>2, <2>3, <2>4 DEF Bijection, Injection, Surjection, IsInjective
<1>4. IsFiniteSet(old) /\ IsFiniteSet(moved) /\ Cardinality(moved) = Cardinality(old)
  <2>1. IsFiniteSet(old)
    BY PositionsFinite
  <2>2. ExistsBijection(old, moved)
    BY <1>3 DEF ExistsBijection
  <2> HIDE DEF old, moved
  <2> QED
    BY <2>1, <2>2, FS_Bijection
<1>5. Positions(Insert(q, e), P) = IF e \in P THEN moved \cup {n} ELSE moved
  <2>1. n \in DOMAIN Insert(q, e) /\ Insert(q, e)[n] = e
    BY <1>1, <1>2
  <2> QED
    BY <2>1 DEF Positions
<1>6. n \notin moved
  OBVIOUS
<1>7. Cardinality(old) \in Nat
  BY PositionsFinite
<1> HIDE DEF old, moved
<1>8. Cardinality(moved \cup {n}) = Cardinality(moved) + 1
  BY <1>4, <1>6, FS_AddElement
<1> QED
  BY <1>4, <1>5, <1>7, <1>8 DEF old

\* The first entry leaves.
LEMMA TailElements ==
  ASSUME NEW S, NEW q \in Seq(S), q # <<>>
  PROVE  /\ Elements(q) = Elements(Tail(q)) \cup {Head(q)}
         /\ Head(q) \in S /\ Tail(q) \in Seq(S)
<1>1. DOMAIN q = 1..Len(q) /\ DOMAIN Tail(q) = 1..(Len(q) - 1) /\ Len(q) > 0
  OBVIOUS
<1>2. Head(q) = q[1] /\ \A i \in 1..(Len(q) - 1) : Tail(q)[i] = q[i + 1]
  OBVIOUS
<1>3. ASSUME NEW i \in 1..Len(q) PROVE q[i] \in Elements(Tail(q)) \cup {Head(q)}
  <2>1. CASE i # 1
    <3>1. i - 1 \in 1..(Len(q) - 1) /\ Tail(q)[i - 1] = q[i]
      BY <1>2, <2>1
    <3> QED
      BY <1>1, <3>1 DEF Elements
  <2> QED
    BY <1>2, <2>1
<1>4. ASSUME NEW i \in 1..(Len(q) - 1) PROVE Tail(q)[i] \in Elements(q)
  <2>1. i + 1 \in 1..Len(q) /\ Tail(q)[i] = q[i + 1]
    BY <1>2
  <2> QED
    BY <1>1, <2>1 DEF Elements
<1>5. Head(q) \in Elements(q)
  BY <1>1, <1>2 DEF Elements
<1> QED
  BY <1>1, <1>3, <1>4, <1>5 DEF Elements

LEMMA TailCount ==
  ASSUME NEW S, NEW q \in Seq(S), q # <<>>, NEW P
  PROVE  Cardinality(Positions(q, P))
           = Cardinality(Positions(Tail(q), P)) + (IF Head(q) \in P THEN 1 ELSE 0)
<1>1. DOMAIN q = 1..Len(q) /\ DOMAIN Tail(q) = 1..(Len(q) - 1) /\ Len(q) > 0
      /\ Head(q) = q[1] /\ \A i \in 1..(Len(q) - 1) : Tail(q)[i] = q[i + 1]
  OBVIOUS
<1> DEFINE old == Positions(Tail(q), P)
           moved == Positions(q, P) \ {1}
           to == [i \in old |-> i + 1]
<1>2. to \in Bijection(old, moved)
  <2>1. ASSUME NEW i \in old PROVE to[i] \in moved
    BY <1>1 DEF Positions
  <2>2. ASSUME NEW i \in old, NEW k \in old, to[i] = to[k] PROVE i = k
    BY <1>1, <2>2 DEF Positions
  <2>3. ASSUME NEW k \in moved PROVE \E i \in old : to[i] = k
    <3>1. k - 1 \in old
      BY <1>1 DEF Positions
    <3>2. to[k - 1] = k
      BY <1>1, <3>1 DEF Positions
    <3> QED
      BY <3>1, <3>2
  <2>4. to \in [old -> moved]
    BY <2>1
  <2> HIDE DEF old, moved, to
  <2> QED
    BY <2>1, <2>2, <2>3, <2>4 DEF Bijection, Injection, Surjection, IsInjective
<1>3. IsFiniteSet(old) /\ Cardinality(old) \in Nat
  BY PositionsFinite, HeadTailProperties
<1>4. ExistsBijection(old, moved)
  BY <1>2 DEF ExistsBijection
<1>5. Positions(q, P) = IF Head(q) \in P THEN moved \cup {1} ELSE moved
  BY <1>1 DEF Positions
<1>6. 1 \notin moved
  OBVIOUS
<1> HIDE DEF old, moved
<1>7. IsFiniteSet(moved) /\ Cardinality(moved) = Cardinality(old)
  BY <1>3, <1>4, FS_Bijection
<1>8. Cardinality(moved \cup {1}) = Cardinality(moved) + 1
  BY <1>6, <1>7, FS_AddElement
<1> QED
  BY <1>3, <1>5, <1>7, <1>8 DEF old
=============================================================================
