---------------------------- MODULE ResendProofs ----------------------------
(***************************************************************************)
(* Proofs about the repair of lost packets (ResendProtocol): its types,    *)
(* what SentDataCache holds, the bound on resends and the repair itself.   *)
(***************************************************************************)
EXTENDS ResendProtocol, FiniteSetTheorems, TLAPS

------------------------------------------------------------------------------
(***************************************************************************)
(* Numbers and sequences.                                                  *)
(***************************************************************************)
\* A set of natural numbers that is not empty has a least element.
LEMMA LeastExists ==
    ASSUME NEW S, S \subseteq Nat, S # {}
    PROVE  \E i \in S : \A k \in S : i <= k
<1> DEFINE R == {p \in Nat \X Nat : p[1] < p[2]}
<1>1. IsWellFoundedOn(R, Nat)
  BY NatLessThanWellFounded, Zenon DEF OpToRel
<1> HIDE DEF R
<1>2. PICK i \in S : \A k \in S : ~(<<k, i>> \in R)
  BY <1>1, WFMin
<1>3. \A k \in S : i <= k
  <2> TAKE k \in S
  <2>1. i \in Nat /\ k \in Nat
    OBVIOUS
  <2>2. k < i => <<k, i>> \in R
    BY <2>1 DEF R
  <2> QED
    BY <1>2, <2>1, <2>2
<1> QED
  BY <1>3

\* Multiples of the number of shards are ordered like their factors.
LEMMA Multiples ==
    ASSUME NEW a \in Nat, NEW b \in Nat, NEW n \in Nat \ {0}
    PROVE  /\ n * a \in Nat
           /\ n * (a + 1) = n * a + n
           /\ a <= b => n * a <= n * b
           /\ a < b => n * a + n <= n * b
<1>1. n * a \in Nat /\ n * (a + 1) = n * a + n
  OBVIOUS
<1>2. a <= b => n * a <= n * b
  OBVIOUS
<1>3. a < b => n * a + n <= n * b
  OBVIOUS
<1> QED
  BY <1>1, <1>2, <1>3

\* A message id is the number of its shard and a multiple of the shard count.
LEMMA ShardOf ==
    ASSUME NEW id \in Nat
    PROVE  /\ id % NShards \in Shards
           /\ \E t \in Nat : id = (id % NShards) + NShards * t
<1>1. NShards \in Nat /\ NShards > 0
  BY ResendConstants
<1>2. id % NShards \in Shards
  BY <1>1 DEF Shards
<1>3. id \div NShards \in Nat
  BY <1>1
<1>4. id = NShards * (id \div NShards) + (id % NShards)
  BY <1>1, SMTT(60)
<1>5. NShards * (id \div NShards) \in Nat /\ id % NShards \in Nat
  BY <1>1, <1>2, <1>3, Multiples DEF Shards
<1>6. id = (id % NShards) + NShards * (id \div NShards)
  BY <1>4, <1>5
<1> QED
  BY <1>2, <1>3, <1>6

\* Ids of different shards differ.
LEMMA ShardsApart ==
    ASSUME NEW s \in Shards, NEW r \in Shards, NEW a \in Nat, NEW b \in Nat,
           s + NShards * a = r + NShards * b
    PROVE  s = r /\ a = b
<1>1. /\ NShards \in Nat \ {0}
      /\ s \in Nat /\ s < NShards /\ r \in Nat /\ r < NShards
  BY ResendConstants DEF Shards
<1>2. ~(a < b)
  BY <1>1, Multiples
<1>3. ~(b < a)
  BY <1>1, Multiples
<1> QED
  BY <1>1, <1>2, <1>3

\* An empty sequence has no element.
LEMMA RangeOfEmpty == Range(<<>>) = {}
BY DEF Range

\* The elements of a sequence are of its type.
LEMMA RangeTypes ==
    ASSUME NEW S, NEW s \in Seq(S)
    PROVE  Range(s) \subseteq S
BY DEF Range

\* An element is the first of the sequence or in its tail.
LEMMA RangeOfTail ==
    ASSUME NEW S, NEW s \in Seq(S), s # <<>>
    PROVE  /\ Head(s) \in Range(s) /\ Head(s) \in S
           /\ Tail(s) \in Seq(S)
           /\ Range(Tail(s)) \subseteq Range(s)
           /\ Range(s) \subseteq Range(Tail(s)) \cup {Head(s)}
<1>1. 1 \in DOMAIN s /\ Head(s) = s[1]
  OBVIOUS
<1>2. Tail(s) \in Seq(S) /\ Len(Tail(s)) = Len(s) - 1
  OBVIOUS
<1>3. \A k \in DOMAIN Tail(s) : k + 1 \in DOMAIN s /\ Tail(s)[k] = s[k + 1]
  OBVIOUS
<1>4. Range(Tail(s)) \subseteq Range(s)
  BY <1>3, Zenon DEF Range
<1>5. \A k \in DOMAIN s : k # 1 => k - 1 \in DOMAIN Tail(s) /\ Tail(s)[k - 1] = s[k]
  OBVIOUS
<1>6. Range(s) \subseteq Range(Tail(s)) \cup {Head(s)}
  BY <1>1, <1>5, Zenon DEF Range
<1> QED
  BY <1>1, <1>2, <1>4, <1>6 DEF Range
------------------------------------------------------------------------------
(***************************************************************************)
(* The operators of the receiving end.                                     *)
(***************************************************************************)
\* drainReceivedDataMap stops at the first id that is not buffered.
LEMMA DrainedFacts ==
    ASSUME NEW n \in Nat, NEW b, b \subseteq Nat, IsFiniteSet(b)
    PROVE  /\ DrainedTo(n, b) \in Nat /\ n <= DrainedTo(n, b)
           /\ DrainedTo(n, b) \notin b
           /\ \A j \in Nat : n <= j /\ j < DrainedTo(n, b) => j \in b
<1> DEFINE c == Cardinality(b)
           S == {m \in n..(n + c) : m \notin b}
<1>1. c \in Nat
  BY FS_CardinalityType
<1> HIDE DEF c
<1>2. S # {}
  <2> SUFFICES ASSUME n..(n + c) \subseteq b PROVE FALSE
    OBVIOUS
  <2>1. Cardinality(n..(n + c)) <= c
    BY FS_Subset DEF c
  <2>2. Cardinality(n..(n + c)) = c + 1
    BY <1>1, FS_Interval
  <2> QED
    BY <1>1, <2>1, <2>2
<1>3. S \subseteq Nat
  BY <1>1
<1>4. PICK m \in S : \A k \in S : m <= k
  <2> HIDE DEF S
  <2> QED
    BY <1>2, <1>3, LeastExists
<1>5. n..(m - 1) \subseteq b
  <2> SUFFICES ASSUME NEW j \in n..(m - 1), j \notin b PROVE FALSE
    OBVIOUS
  <2>1. m \in n..(n + c) /\ m \in Nat
    BY <1>1, <1>4
  <2>2. j \in n..(n + c) /\ j < m /\ j \in Nat
    BY <1>1, <2>1
  <2> QED
    BY <1>4, <2>1, <2>2
<1>6. \E k \in n..(n + Cardinality(b)) : k \notin b /\ n..(k - 1) \subseteq b
  BY <1>4, <1>5 DEF c
<1>7. /\ DrainedTo(n, b) \in n..(n + c) /\ DrainedTo(n, b) \notin b
      /\ n..(DrainedTo(n, b) - 1) \subseteq b
  BY <1>6 DEF DrainedTo, c
<1> HIDE DEF S
<1> QED
  BY <1>1, <1>7

\* The reorder timeout skips to the least buffered id.
LEMMA SkipFacts ==
    ASSUME NEW b, b \subseteq Nat, b # {}
    PROVE  SkipTarget(b) \in b /\ \A k \in b : SkipTarget(b) <= k
BY LeastExists DEF SkipTarget

\* The pushes of sendMissingNotifications are pairs of ids below each other, and
\* there are finitely many.
LEMMA PushesFacts ==
    ASSUME NEW n \in Nat, NEW b, b \subseteq Ids, NEW known
    PROVE  LET P == PushesFrom(n, b, known) IN
           /\ IsFiniteSet(P) /\ P \subseteq Nat \X Nat
           /\ \A p \in P : p[1] \in b /\ p[2] \in Ids /\ n <= p[2] /\ p[2] \notin known
<1> DEFINE P == PushesFrom(n, b, known)
<1>1. MaxId \in Nat /\ IsFiniteSet(Ids) /\ Ids \subseteq Nat
  BY ResendConstants, FS_Interval DEF Ids
<1>2. ASSUME NEW p \in P
      PROVE  /\ p \in Ids \X Ids /\ p[1] \in b /\ p[2] \in Ids
             /\ n <= p[2] /\ p[2] \notin known
  <2>1. PICK k \in b : p \in {k} \X {id \in n..(k - 1) : id \notin known}
    BY <1>2, Zenon DEF PushesFrom
  <2>2. k \in Ids /\ k \in Nat /\ k <= MaxId
    BY <1>1 DEF Ids
  <2>3. p[1] = k /\ p[2] \in n..(k - 1) /\ p[2] \notin known /\ p = <<p[1], p[2]>>
    BY <2>1
  <2>4. p[2] \in Ids /\ n <= p[2]
    BY <1>1, <2>2, <2>3 DEF Ids
  <2> QED
    BY <2>2, <2>3, <2>4
<1>3. IsFiniteSet(Ids \X Ids)
  BY <1>1, FS_Product
<1> HIDE DEF P
<1>4. P \subseteq Ids \X Ids
  BY <1>2
<1>5. IsFiniteSet(P)
  BY <1>3, <1>4, FS_Subset
<1>6. P \subseteq Nat \X Nat
  BY <1>1, <1>4
<1> QED
  BY <1>2, <1>5, <1>6 DEF P

\* Pushes are numbered without gaps: no two have the same number of pushes
\* before them, so there is one for each number below their count.
LEMMA PushExists ==
    ASSUME NEW P, P \subseteq Nat \X Nat, IsFiniteSet(P), NEW j \in 0..(Cardinality(P) - 1)
    PROVE  PushAt(P, j) \in P
<1> DEFINE before(r) == {q \in P : PushedBefore(q, r)}
           size == Cardinality(P)
           numbers == 0..(size - 1)
           f == [r \in P |-> Cardinality(before(r))]
<1>1. size \in Nat
  BY FS_CardinalityType
<1>2. \A r \in P : /\ IsFiniteSet(before(r)) /\ Cardinality(before(r)) \in Nat
                   /\ Cardinality(before(r)) <= size
                   /\ (Cardinality(before(r)) = size => before(r) = P)
  BY FS_Subset, FS_CardinalityType
<1>3. \A r \in P : ~PushedBefore(r, r)
  <2> TAKE r \in P
  <2>1. r[1] \in Nat /\ r[2] \in Nat
    OBVIOUS
  <2> QED
    BY <2>1 DEF PushedBefore
<1>4. ASSUME NEW r \in P PROVE Cardinality(before(r)) \in numbers
  <2>1. before(r) # P
    BY <1>3
  <2> HIDE DEF before, size
  <2>2. Cardinality(before(r)) \in Nat /\ Cardinality(before(r)) < size
    BY <1>1, <1>2, <2>1
  <2> QED
    BY <1>1, <2>2
<1>5. ASSUME NEW r \in P, NEW u \in P, PushedBefore(r, u)
      PROVE  Cardinality(before(r)) < Cardinality(before(u))
  <2>1. \A q \in P : PushedBefore(q, r) => PushedBefore(q, u)
    <3> SUFFICES ASSUME NEW q \in P, PushedBefore(q, r) PROVE PushedBefore(q, u)
      OBVIOUS
    <3>1. /\ q[1] \in Nat /\ q[2] \in Nat /\ r[1] \in Nat /\ r[2] \in Nat
          /\ u[1] \in Nat /\ u[2] \in Nat
      OBVIOUS
    <3> QED
      BY <1>5, <3>1 DEF PushedBefore
  <2>2. before(r) \subseteq before(u) /\ r \in before(u) /\ r \notin before(r)
    BY <1>3, <1>5, <2>1, Zenon
  <2> HIDE DEF before
  <2>3. /\ Cardinality(before(r)) <= Cardinality(before(u))
        /\ Cardinality(before(r)) # Cardinality(before(u))
    BY <1>2, <2>2, FS_Subset
  <2> QED
    BY <1>2, <2>3
<1>6. f \in Injection(P, numbers)
  <2>1. f \in [P -> numbers]
    BY <1>4
  <2>2. ASSUME NEW r \in P, NEW u \in P, f[r] = f[u]
        PROVE  r = u
    <3> HIDE DEF before
    <3>1. f[r] = Cardinality(before(r)) /\ f[u] = Cardinality(before(u))
      OBVIOUS
    <3>2. ~PushedBefore(r, u) /\ ~PushedBefore(u, r)
      BY <1>2, <1>5, <2>2, <3>1
    <3>3. r[1] \in Nat /\ r[2] \in Nat /\ u[1] \in Nat /\ u[2] \in Nat
      OBVIOUS
    <3>4. r[1] = u[1] /\ r[2] = u[2]
      BY <3>2, <3>3 DEF PushedBefore
    <3>5. r = <<r[1], r[2]>> /\ u = <<u[1], u[2]>>
      OBVIOUS
    <3> QED
      BY <3>4, <3>5
  <2> QED
    BY <2>1, <2>2 DEF Injection, IsInjective
<1>7. IsFiniteSet(numbers) /\ Cardinality(numbers) = size
  <2> HIDE DEF size
  <2> QED
    BY <1>1, FS_Interval
<1>8. f \in Surjection(P, numbers)
  <2> HIDE DEF f, numbers
  <2> QED
    BY <1>6, <1>7, FS_Injection
<1>9. \E r \in P : f[r] = j
  <2> HIDE DEF f
  <2> QED
    BY <1>8 DEF Surjection
<1>10. \E r \in P : Cardinality({q \in P : PushedBefore(q, r)}) = j
  BY <1>9
<1> QED
  BY <1>10 DEF PushAt

\* The ids sendMissingNotifications reports are ids from nextMessageId on that
\* were not notified before.
LEMMA MissingFacts ==
    ASSUME NEW n \in Nat, NEW b, b \subseteq Ids, NEW known
    PROVE  /\ Missing(n, b, known) \in Seq(Ids)
           /\ \A id \in Range(Missing(n, b, known)) : n <= id /\ id \notin known
<1> DEFINE P == PushesFrom(n, b, known)
           size == Cardinality(P)
           len == IF size > MaxMissing THEN MaxMissing ELSE size
<1>1. /\ IsFiniteSet(P) /\ P \subseteq Nat \X Nat
      /\ \A p \in P : p[2] \in Ids /\ n <= p[2] /\ p[2] \notin known
  BY PushesFacts
<1> HIDE DEF P
<1>2. size \in Nat
  BY <1>1, FS_CardinalityType
<1>3. ASSUME NEW j \in 1..len PROVE PushAt(P, j - 1) \in P
  <2> HIDE DEF size
  <2>1. MaxMissing \in Nat /\ j - 1 \in 0..(size - 1)
    BY <1>2, ResendConstants
  <2> QED
    BY <1>1, <2>1, PushExists DEF size
<1>4. Missing(n, b, known) = [j \in 1..len |-> PushAt(P, j - 1)[2]]
  BY DEF Missing, PushedIds, P
<1>5. len \in Nat
  BY <1>2, ResendConstants
<1> HIDE DEF len
<1>6. \A j \in 1..len : /\ PushAt(P, j - 1)[2] \in Ids
                        /\ n <= PushAt(P, j - 1)[2] /\ PushAt(P, j - 1)[2] \notin known
  BY <1>1, <1>3
<1>7. Missing(n, b, known) \in Seq(Ids)
  BY <1>4, <1>5, <1>6
<1>8. \A id \in Range(Missing(n, b, known)) : \E j \in 1..len : id = PushAt(P, j - 1)[2]
  BY <1>4 DEF Range
<1> QED
  BY <1>6, <1>7, <1>8

(***************************************************************************)
(* What one iteration of the reorder thread does to its state: the types,  *)
(* where the ids go that it had or took from the queues, which ids it      *)
(* gives up, what it reports and what it remembers of its reports.         *)
(***************************************************************************)
RecvTypes ==
    /\ buffered \subseteq Ids /\ next \in Nat /\ notified \subseteq Ids
    /\ gapAge \in 0..ReorderTimeout
    /\ {gapActive, awake} \subseteq BOOLEAN
    /\ asked \subseteq Ids /\ forgotten \subseteq Ids /\ skipped \subseteq Ids
    /\ noteCount \in 0..MaxNotes
    /\ \A m \in notes : m.no \in Nat /\ m.ids \in Seq(Ids)

\* The gap timer has run out.
Expired == gapActive /\ gapAge >= ReorderTimeout

\* The iteration reports nothing, or it reports ids that it neither delivered
\* nor reported before.
Reports ==
    \/ UNCHANGED <<asked, noteCount, notes>>
    \/ \E ids \in Seq(Ids) :
         /\ asked' = asked \cup Range(ids)
         /\ Range(ids) \subseteq notified'
         /\ notes' = notes \cup {[no |-> noteCount, ids |-> ids]}
         /\ \A i \in Range(ids) : next <= i /\ i \notin notified
         /\ skipped' = skipped

\* One iteration of processReceivedData, whatever it drained, skipped or reported:
\* nothing buffered is lost, and an id is passed over only when the gap timer ran out.
LEMMA IterateFacts ==
    ASSUME RecvTypes, NEW new, new \subseteq Ids, Iterate(new)
    PROVE  /\ RecvTypes' /\ next <= next'
           /\ \A i \in buffered \cup new : i < next' \/ i \in buffered'
           /\ ~Expired'
           /\ \A i \in skipped' \ skipped :
                 Expired /\ next <= i /\ i < next' /\ i \notin buffered
           /\ Reports
           /\ forgotten \subseteq forgotten'
           /\ \A i \in notified : i \in notified' \/ i \in forgotten' \/ i < next'
<1> DEFINE got == {id \in new : id >= next}
           all == buffered \cup got
           to == DrainedTo(next, all)
           left == {k \in all : k > to}
           expired == left # {} /\ gapActive /\ gapAge >= ReorderTimeout
           jump == SkipTarget(left)
           to2 == DrainedTo(jump, left)
           age == IF gapActive THEN gapAge ELSE 0
           known == notified \ (next..(to - 1))
           missing == Missing(to, left, known)
           report == left # {} /\ ~expired /\ age >= NotifyInterval /\ missing # <<>>
<1>1. /\ awake' = (got # {})
      /\ gapActive' = (left # {} /\ ~expired)
      /\ gapAge' = IF left # {} /\ ~expired THEN age ELSE 0
      /\ next' = IF expired THEN to2 ELSE to
      /\ buffered' = IF expired THEN {k \in left : k > to2} ELSE left
      /\ skipped' = IF expired THEN skipped \cup (to..(jump - 1)) ELSE skipped
      /\ IF report
           THEN Report(missing, known)
           ELSE /\ notified' = IF expired THEN {} ELSE known
                /\ forgotten' = IF expired THEN forgotten \cup known ELSE forgotten
                /\ UNCHANGED <<asked, noteCount, notes>>
  BY Zenon DEF Iterate
<1>2. /\ MaxId \in Nat /\ IsFiniteSet(Ids) /\ Ids \subseteq Nat
      /\ \A i : i \in Ids <=> i \in Nat /\ i <= MaxId
      /\ ReorderTimeout \in Nat /\ ReorderTimeout > 0
  BY ResendConstants, FS_Interval DEF Ids
<1>3. /\ buffered \subseteq Ids /\ next \in Nat /\ notified \subseteq Ids
      /\ gapAge \in Nat /\ gapAge <= ReorderTimeout /\ gapActive \in BOOLEAN
      /\ asked \subseteq Ids /\ forgotten \subseteq Ids /\ skipped \subseteq Ids
      /\ noteCount \in 0..MaxNotes
      /\ \A m \in notes : m.no \in Nat /\ m.ids \in Seq(Ids)
  BY <1>2 DEF RecvTypes
<1>4. all \subseteq Ids /\ IsFiniteSet(all)
  <2>1. all \subseteq Ids
    BY <1>3
  <2> HIDE DEF all
  <2> QED
    BY <1>2, <2>1, FS_Subset
<1>5. to \in Nat /\ next <= to /\ to \notin all
  <2> HIDE DEF all
  <2> QED
    BY <1>2, <1>3, <1>4, DrainedFacts
<1>6. /\ left \subseteq Ids /\ IsFiniteSet(left)
      /\ \A i \in all : i < to \/ i \in left
  <2> HIDE DEF all, to
  <2>1. left \subseteq Ids
    BY <1>4
  <2>2. IsFiniteSet(left)
    BY <1>4, FS_Subset
  <2>3. ASSUME NEW i \in all PROVE i < to \/ i \in left
    <3>1. i \in Nat /\ i # to
      BY <1>2, <1>4, <1>5
    <3> QED
      BY <1>5, <3>1
  <2> QED
    BY <2>1, <2>2, <2>3
<1>7. \A i \in left : to < i
  BY <1>2, <1>6
<1>8. \A i \in buffered \cup new : i < next \/ i \in all
  <2> HIDE DEF to
  <2> TAKE i \in buffered \cup new
  <2>1. i \in Nat
    BY <1>2, <1>3
  <2> QED
    BY <1>3, <2>1
<1> HIDE DEF got, all, to, left
<1>9. left # {} => /\ jump \in left /\ (\A k \in left : jump <= k)
                   /\ to2 \in Nat /\ jump <= to2 /\ to2 \notin left
                   /\ jump \in Nat /\ to < jump
  <2> SUFFICES ASSUME left # {}
               PROVE  /\ jump \in left /\ (\A k \in left : jump <= k)
                      /\ to2 \in Nat /\ jump <= to2 /\ to2 \notin left
                      /\ jump \in Nat /\ to < jump
    OBVIOUS
  <2>1. left \subseteq Nat
    BY <1>2, <1>6
  <2>2. jump \in left /\ \A k \in left : jump <= k
    BY <2>1, SkipFacts
  <2>3. jump \in Nat /\ to < jump
    BY <1>7, <2>1, <2>2
  <2> HIDE DEF jump
  <2>4. to2 \in Nat /\ jump <= to2 /\ to2 \notin left
    BY <1>6, <2>1, <2>3, DrainedFacts
  <2> QED
    BY <2>2, <2>3, <2>4
<1>10. expired => left # {} /\ Expired
  BY DEF Expired
<1>11. known \subseteq notified /\ \A i \in notified : i \in known \/ i < to
  <2>1. known \subseteq notified
    OBVIOUS
  <2>2. ASSUME NEW i \in notified, i \notin known PROVE i < to
    BY <1>2, <1>3, <1>5, <2>2
  <2> QED
    BY <2>1, <2>2
<1>12. missing \in Seq(Ids) /\ \A i \in Range(missing) : to <= i /\ i \notin known
  <2> HIDE DEF known
  <2> QED
    BY <1>5, <1>6, MissingFacts
<1>13. Range(missing) \subseteq Ids
  BY <1>12, RangeTypes
<1>14. ~Expired'
  <2>1. CASE left # {} /\ ~expired
    <3>1. gapAge' = age
      BY <1>1, <2>1
    <3>2. ~(age >= ReorderTimeout)
      BY <1>2, <1>3, <2>1
    <3> QED
      BY <3>1, <3>2 DEF Expired
  <2>2. CASE ~(left # {} /\ ~expired)
    <3>1. ~gapActive'
      BY <1>1, <2>2
    <3> QED
      BY <3>1 DEF Expired
  <2> QED
    BY <2>1, <2>2
<1>15. /\ gapAge' \in 0..ReorderTimeout
       /\ {gapActive', awake'} \subseteq BOOLEAN
  <2>1. gapAge' \in 0..ReorderTimeout
    BY <1>1, <1>2, <1>3
  <2>2. gapActive' \in BOOLEAN /\ awake' \in BOOLEAN
    BY <1>1, Zenon
  <2> QED
    BY <2>1, <2>2
<1> HIDE DEF expired, jump, to2, age, known, missing, report
<1>16. next' \in Nat /\ next <= next' /\ to <= next' /\ buffered' \subseteq Ids
  BY <1>1, <1>3, <1>5, <1>6, <1>9, <1>10
<1>17. \A i \in buffered \cup new : i < next' \/ i \in buffered'
  <2> TAKE i \in buffered \cup new
  <2>1. i \in Nat
    BY <1>2, <1>3
  <2>2. CASE i < to
    BY <1>5, <1>16, <2>1, <2>2
  <2>3. CASE i \in left
    BY <1>1, <1>9, <1>10, <2>1, <2>3
  <2> QED
    BY <1>3, <1>5, <1>6, <1>8, <2>1, <2>2, <2>3
<1>18. ASSUME NEW i \in skipped' \ skipped
       PROVE  Expired /\ next <= i /\ i < next' /\ i \notin buffered /\ i \in Ids
  <2>1. expired /\ i \in to..(jump - 1)
    BY <1>1, <1>18
  <2>2. Expired /\ left # {}
    BY <1>10, <2>1
  <2>3. jump \in Ids /\ jump \in Nat
    BY <1>6, <1>9, <2>2
  <2>4. i \in Nat /\ to <= i /\ i < jump
    BY <1>5, <2>1, <2>3
  <2>5. next <= i /\ i \in Ids
    BY <1>2, <1>3, <1>5, <2>3, <2>4
  <2>6. i \notin left
    BY <1>9, <2>2, <2>3, <2>4
  <2>7. i \notin buffered
    <3> SUFFICES ASSUME i \in buffered PROVE FALSE
      OBVIOUS
    <3>1. i \in all
      BY DEF all
    <3> QED
      BY <1>5, <1>6, <2>4, <2>6, <3>1
  <2>8. i < next'
    BY <1>1, <1>9, <2>1, <2>2, <2>4
  <2> QED
    BY <2>2, <2>5, <2>7, <2>8
<1>19. skipped' \subseteq Ids
  BY <1>3, <1>18
<1>20. CASE report
  <2>1. Report(missing, known)
    BY <1>1, <1>20
  <2>2. /\ asked' = asked \cup Range(missing)
        /\ notes' = notes \cup {[no |-> noteCount, ids |-> missing]}
        /\ noteCount < MaxNotes /\ noteCount' = noteCount + 1
        /\ \/ notified' = Range(missing) /\ forgotten' = forgotten \cup known
           \/ notified' = Range(missing) \cup known /\ forgotten' = forgotten
    BY <2>1 DEF Report
  <2>3. MaxNotes \in Nat
    BY ResendConstants
  <2>4. noteCount' \in 0..MaxNotes /\ noteCount \in Nat
    BY <1>3, <2>2, <2>3
  <2>5. /\ asked' \subseteq Ids /\ notified' \subseteq Ids /\ forgotten' \subseteq Ids
        /\ forgotten \subseteq forgotten'
    BY <1>3, <1>11, <1>13, <2>2
  <2>6. \A m \in notes' : m.no \in Nat /\ m.ids \in Seq(Ids)
    BY <1>3, <1>12, <2>2, <2>4
  <2>7. Reports
    <3>1. \A i \in Range(missing) : next <= i /\ i \notin notified
      <4> TAKE i \in Range(missing)
      <4>1. i \in Nat /\ to <= i /\ i \notin known
        BY <1>2, <1>12, <1>13
      <4> QED
        BY <1>3, <1>5, <1>11, <4>1
    <3>2. Range(missing) \subseteq notified'
      BY <2>2
    <3>3. skipped' = skipped
      BY <1>1, <1>20 DEF report
    <3> QED
      BY <1>12, <2>2, <3>1, <3>2, <3>3, Zenon DEF Reports
  <2>8. \A i \in notified : i \in notified' \/ i \in forgotten' \/ i < next'
    <3> TAKE i \in notified
    <3>1. i \in known \/ i < to
      BY <1>11
    <3>2. i \in Nat
      BY <1>2, <1>3
    <3> QED
      BY <1>5, <1>16, <2>2, <3>1, <3>2
  <2>9. RecvTypes'
    BY <1>15, <1>16, <1>19, <2>4, <2>5, <2>6 DEF RecvTypes
  <2> QED
    BY <1>14, <1>16, <1>17, <1>18, <2>5, <2>7, <2>8, <2>9
<1>21. CASE ~report
  <2>1. /\ notified' = IF expired THEN {} ELSE known
        /\ forgotten' = IF expired THEN forgotten \cup known ELSE forgotten
        /\ UNCHANGED <<asked, noteCount, notes>>
    BY <1>1, <1>21
  <2>2. /\ notified' \subseteq Ids /\ forgotten' \subseteq Ids
        /\ forgotten \subseteq forgotten'
    BY <1>3, <1>11, <2>1
  <2>3. \A i \in notified : i \in notified' \/ i \in forgotten' \/ i < next'
    <3> TAKE i \in notified
    <3>1. i \in known \/ i < to
      BY <1>11
    <3>2. i \in Nat
      BY <1>2, <1>3
    <3> QED
      BY <1>5, <1>16, <2>1, <3>1, <3>2
  <2>4. RecvTypes'
    BY <1>3, <1>15, <1>16, <1>19, <2>1, <2>2 DEF RecvTypes
  <2>5. Reports
    BY <2>1 DEF Reports
  <2> QED
    BY <1>14, <1>16, <1>17, <1>18, <2>2, <2>3, <2>4, <2>5
<1> QED
  BY <1>20, <1>21
------------------------------------------------------------------------------
(***************************************************************************)
(* Types.                                                                  *)
(***************************************************************************)
\* A step of the receiving end is an iteration over ids that were under way.
LEMMA ReceiverStep ==
    ASSUME TypeOK, Receiver
    PROVE  \E new \in SUBSET Ids :
              /\ Iterate(new) /\ UNCHANGED <<sendVars, replyVars, losses, faulted>>
              /\ data' \subseteq data /\ \A p \in data \ data' : p[1] \in new
<1>1. CASE IterateIdle
  <2>1. /\ Iterate({}) /\ UNCHANGED <<sendVars, replyVars, losses, faulted>>
        /\ data' = data
    BY <1>1 DEF IterateIdle
  <2> QED
    BY <2>1
<1>2. CASE \E packets \in SUBSET data \ {{}} : Receive(packets)
  <2>1. PICK packets \in SUBSET data \ {{}} : Receive(packets)
    BY <1>2
  <2> DEFINE new == {p[1] : p \in packets}
  <2>2. /\ data' = data \ packets /\ Iterate(new)
        /\ UNCHANGED <<sendVars, replyVars, losses, faulted>>
    BY <2>1 DEF Receive
  <2>3. packets \subseteq Ids \X Nat
    BY <2>1 DEF TypeOK
  <2>4. new \subseteq Ids
    BY <2>3
  <2>5. data' \subseteq data /\ \A p \in data \ data' : p[1] \in new
    BY <2>2
  <2> HIDE DEF new
  <2> QED
    BY <2>2, <2>4, <2>5
<1> QED
  BY <1>1, <1>2 DEF Receiver

\* The next-state relation, one action at a time.
LEMMA StepCases ==
    ASSUME [Next]_vars
    PROVE  \/ Send
           \/ \E m \in notes : NotifyArrives(m)
           \/ ResendSkipped
           \/ Resend
           \/ ResendMiss
           \/ Receiver
           \/ \E p \in data : LoseData(p)
           \/ \E m \in notes : LoseNote(m)
           \/ Tick
           \/ UNCHANGED vars
BY DEF Next, Sender, Network

\* SentDataCache::insert keeps the orders of the shards sequences of ids.
LEMMA InsertTypes ==
    ASSUME cache \in [Shards -> Seq(Ids)], NEW id \in Ids, Insert(id)
    PROVE  cache' \in [Shards -> Seq(Ids)]
<1> DEFINE s == id % NShards
           order == Append(cache[s], id)
<1>1. s \in Shards
  BY ShardOf, ResendConstants DEF Ids
<1>2. order \in Seq(Ids) /\ order # <<>>
  BY <1>1
<1>3. Tail(order) \in Seq(Ids)
  BY <1>2
<1>4. cache' = [cache EXCEPT ![s] = IF Len(order) > ShardCap THEN Tail(order) ELSE order]
  BY DEF Insert
<1> HIDE DEF s, order
<1> QED
  BY <1>1, <1>2, <1>3, <1>4

\* A clock stops at its limit.
LEMMA OlderTypes ==
    ASSUME NEW limit \in Nat, NEW age \in 0..limit
    PROVE  Older(age, limit) \in 0..limit
BY DEF Older

\* Every step keeps the types.
LEMMA TypesKept ==
    ASSUME TypeOK, [Next]_vars
    PROVE  TypeOK'
<1> USE DEF sendVars, replyVars, recvVars, netVars, vars
<1>0. /\ MaxId \in Nat /\ ResendTtl \in Nat /\ ReorderTimeout \in Nat
      /\ MaxNotes \in Nat /\ MaxLosses \in Nat
      /\ Ids \subseteq Nat /\ 0..(MaxId + 1) \subseteq Nat
  BY ResendConstants DEF Ids
<1>1. CASE Send
  <2>1. lastId \in Ids /\ lastId' = lastId + 1 /\ Insert(lastId)
    BY <1>1 DEF Send
  <2>2. cache' \in [Shards -> Seq(Ids)]
    BY <2>1, InsertTypes DEF TypeOK
  <2>3. lastId' \in 0..(MaxId + 1)
    BY <1>0, <2>1 DEF Ids
  <2>4. data' \subseteq Ids \X Nat /\ copies' \in [Ids -> Nat]
    BY <1>1, <2>1 DEF Send, TypeOK
  <2>5. UNCHANGED <<replyVars, recvVars, notes, losses, faulted>>
    BY <1>1 DEF Send
  <2> QED
    BY <2>2, <2>3, <2>4, <2>5 DEF TypeOK
<1>2. ASSUME NEW m \in notes, NotifyArrives(m) PROVE TypeOK'
  <2>1. m.ids \in Seq(Ids)
    BY DEF TypeOK
  <2>2. handling' \in Seq(Ids) /\ nowAge' \in 0..ResendTtl
    BY <1>0, <1>2, <2>1 DEF NotifyArrives
  <2>3. DOMAIN pending' \subseteq Ids /\ \A i \in DOMAIN pending' : pending'[i] \in 0..ResendTtl
    BY <1>2 DEF NotifyArrives, TypeOK
  <2>4. asks' \in [Ids -> Nat]
    BY <1>2 DEF NotifyArrives, TypeOK
  <2>5. notes' \subseteq notes /\ UNCHANGED <<sendVars, recvVars, data, losses, faulted>>
    BY <1>2 DEF NotifyArrives
  <2> QED
    BY <2>2, <2>3, <2>4, <2>5 DEF TypeOK
<1>3. ASSUME handling # <<>>
      PROVE  Head(handling) \in Ids /\ Tail(handling) \in Seq(Ids)
  BY <1>3, RangeOfTail DEF TypeOK
<1>4. CASE ResendSkipped
  BY <1>3, <1>4 DEF ResendSkipped, TypeOK
<1>5. CASE Resend
  <2>1. /\ Head(handling) \in Ids /\ handling' \in Seq(Ids)
    BY <1>3, <1>5 DEF Resend
  <2>2. data' \subseteq Ids \X Nat /\ copies' \in [Ids -> Nat]
    BY <1>5, <2>1 DEF Resend, TypeOK
  <2>3. /\ DOMAIN pending' \subseteq Ids
        /\ \A i \in DOMAIN pending' : pending'[i] \in 0..ResendTtl
    BY <1>5, <2>1 DEF Resend, SetPending, TypeOK
  <2>4. UNCHANGED <<lastId, cache, recvVars, notes, losses, faulted, nowAge, asks>>
    BY <1>5 DEF Resend
  <2> QED
    BY <2>1, <2>2, <2>3, <2>4 DEF TypeOK
<1>6. CASE ResendMiss
  BY <1>3, <1>6 DEF ResendMiss, TypeOK
<1>7. CASE Receiver
  <2>1. PICK new \in SUBSET Ids :
            /\ Iterate(new) /\ UNCHANGED <<sendVars, replyVars, losses, faulted>>
            /\ data' \subseteq data
    BY <1>7, ReceiverStep
  <2>2. RecvTypes'
    BY <2>1, IterateFacts DEF RecvTypes, TypeOK
  <2> QED
    BY <2>1, <2>2 DEF RecvTypes, TypeOK
<1>8. ASSUME NEW p \in data, LoseData(p) PROVE TypeOK'
  <2>1. Fault({p}, {}) \subseteq Ids
    BY DEF Fault, TypeOK
  <2>2. losses' \in 0..MaxLosses
    <3>1. losses \in 0..MaxLosses /\ losses < MaxLosses /\ losses' = losses + 1
      BY <1>8 DEF LoseData, TypeOK
    <3> QED
      BY <1>0, <3>1
  <2>3. faulted' \subseteq Ids /\ data' \subseteq data
    BY <1>8, <2>1 DEF LoseData, TypeOK
  <2>4. UNCHANGED <<sendVars, replyVars, recvVars, notes>>
    BY <1>8 DEF LoseData
  <2> QED
    BY <2>2, <2>3, <2>4 DEF TypeOK
<1>9. ASSUME NEW m \in notes, LoseNote(m) PROVE TypeOK'
  <2>1. m.ids \in Seq(Ids)
    BY DEF TypeOK
  <2>2. Fault({}, {m}) \subseteq Ids
    BY <2>1, RangeTypes DEF Fault
  <2>3. losses' \in 0..MaxLosses
    <3>1. losses \in 0..MaxLosses /\ losses < MaxLosses /\ losses' = losses + 1
      BY <1>9 DEF LoseNote, TypeOK
    <3> QED
      BY <1>0, <3>1
  <2>4. faulted' \subseteq Ids /\ notes' \subseteq notes
    BY <1>9, <2>2 DEF LoseNote, TypeOK
  <2>5. UNCHANGED <<sendVars, replyVars, recvVars, data>>
    BY <1>9 DEF LoseNote
  <2> QED
    BY <2>3, <2>4, <2>5 DEF TypeOK
<1>10. CASE Tick
  <2>1. Fault(data, notes) \subseteq Ids
    <3>1. ASSUME NEW m \in notes PROVE Range(m.ids) \subseteq Ids
      BY RangeTypes DEF TypeOK
    <3>2. \A q \in data : q[1] \in Ids
      BY DEF TypeOK
    <3> QED
      BY <3>1, <3>2 DEF Fault
  <2>2. Range(handling) \subseteq Ids
    BY RangeTypes DEF TypeOK
  <2>3. faulted' \subseteq Ids
    BY <1>10, <2>1, <2>2 DEF Tick, TypeOK
  <2>4. gapAge' \in 0..ReorderTimeout /\ nowAge' \in 0..ResendTtl
    <3>1. gapAge \in 0..ReorderTimeout /\ nowAge \in 0..ResendTtl
      BY DEF TypeOK
    <3>2. /\ gapAge' = Older(gapAge, ReorderTimeout) \/ gapAge' = gapAge
          /\ nowAge' = Older(nowAge, ResendTtl) \/ nowAge' = nowAge
      BY <1>10 DEF Tick
    <3> QED
      BY <1>0, <3>1, <3>2, OlderTypes
  <2>5. /\ DOMAIN pending' \subseteq Ids
        /\ \A i \in DOMAIN pending' : pending'[i] \in 0..ResendTtl
    <3>1. pending' = [i \in DOMAIN pending |-> Older(pending[i], ResendTtl)]
      BY <1>10 DEF Tick
    <3>2. DOMAIN pending \subseteq Ids /\ \A i \in DOMAIN pending : pending[i] \in 0..ResendTtl
      BY DEF TypeOK
    <3>3. \A i \in DOMAIN pending : Older(pending[i], ResendTtl) \in 0..ResendTtl
      BY <1>0, <3>2, OlderTypes
    <3> QED
      BY <3>1, <3>2, <3>3
  <2>6. UNCHANGED <<sendVars, handling, asks, buffered, next, gapActive, notified, awake,
                    asked, skipped, forgotten, noteCount, data, notes, losses>>
    BY <1>10 DEF Tick
  <2> QED
    BY <2>3, <2>4, <2>5, <2>6 DEF TypeOK
<1>11. CASE UNCHANGED vars
  BY <1>11 DEF TypeOK
<1> QED
  BY <1>1, <1>2, <1>4, <1>5, <1>6, <1>7, <1>8, <1>9, <1>10, <1>11, StepCases
------------------------------------------------------------------------------
(***************************************************************************)
(* SentDataCache.  A shard that has been given q ids holds the last        *)
(* ShardCap of them, or all, in the order of their ids.                    *)
(***************************************************************************)
Kept(q) == IF q <= ShardCap THEN q ELSE ShardCap

ShardHolds(s, q) ==
    /\ lastId <= s + NShards * q
    /\ q > 0 => s + NShards * (q - 1) < lastId
    /\ Len(cache[s]) = Kept(q)
    /\ \A k \in 1..Kept(q) : cache[s][k] = s + NShards * ((q - Kept(q)) + (k - 1))

CacheShape == \A s \in Shards : \E q \in Nat : ShardHolds(s, q)

\* How many of the ids inserted into a shard it still holds.
LEMMA KeptFacts ==
    ASSUME NEW q \in Nat
    PROVE  /\ Kept(q) \in Nat /\ Kept(q) <= q /\ Kept(q) <= ShardCap
           /\ q > 0 => Kept(q) > 0
           /\ Kept(q) = q \/ Kept(q) = ShardCap
           /\ Kept(q + 1) = IF Kept(q) + 1 > ShardCap THEN Kept(q) ELSE Kept(q) + 1
BY ResendConstants DEF Kept

\* What is cached was sent.
LEMMA CachedWasSent ==
    ASSUME TypeOK, CacheShape, NEW id \in Ids, Cached(id)
    PROVE  id < lastId
<1> DEFINE s == id % NShards
<1>1. s \in Shards /\ id \in Nat
  BY ShardOf, ResendConstants DEF Ids
<1>2. PICK q \in Nat : ShardHolds(s, q)
  BY <1>1 DEF CacheShape
<1> HIDE DEF s
<1>3. cache[s] \in Seq(Ids) /\ lastId \in Nat /\ s \in Nat
  BY <1>1, ResendConstants DEF TypeOK, Shards
<1>4. PICK k \in 1..Kept(q) : id = cache[s][k]
  BY <1>2, <1>3 DEF Cached, Range, ShardHolds, s
<1> DEFINE t == (q - Kept(q)) + (k - 1)
<1>5. id = s + NShards * t
  BY <1>2, <1>4 DEF ShardHolds
<1>6. t \in Nat /\ t <= q - 1 /\ q > 0 /\ q - 1 \in Nat
  BY <1>4, KeptFacts
<1> HIDE DEF t
<1>7. NShards * t <= NShards * (q - 1) /\ NShards * t \in Nat /\ NShards * (q - 1) \in Nat
  BY <1>6, Multiples, ResendConstants
<1>8. s + NShards * (q - 1) < lastId
  BY <1>2, <1>6 DEF ShardHolds
<1> QED
  BY <1>1, <1>3, <1>5, <1>7, <1>8

\* insert keeps the shape of every shard.
LEMMA InsertKeepsShape ==
    ASSUME TypeOK, CacheShape, Send
    PROVE  CacheShape'
<1>1. lastId \in Ids /\ lastId' = lastId + 1 /\ Insert(lastId) /\ lastId \in Nat
  BY ResendConstants DEF Send, Ids
<1> DEFINE s == lastId % NShards
           order == Append(cache[s], lastId)
<1>2. s \in Shards
  BY <1>1, ShardOf
<1>3. PICK t \in Nat : lastId = s + NShards * t
  BY <1>1, ShardOf
<1>4. cache' = [cache EXCEPT ![s] = IF Len(order) > ShardCap THEN Tail(order) ELSE order]
  BY <1>1 DEF Insert
<1>5. cache \in [Shards -> Seq(Ids)] /\ ShardCap \in Nat /\ ShardCap > 0
  BY ResendConstants DEF TypeOK
<1>6. NShards \in Nat \ {0} /\ \A r \in Shards : r \in Nat
  BY ResendConstants DEF Shards
<1> HIDE DEF s
<1> SUFFICES ASSUME NEW r \in Shards PROVE \E q \in Nat : ShardHolds(r, q)'
  BY DEF CacheShape
<1>7. PICK q \in Nat : ShardHolds(r, q)
  BY DEF CacheShape
<1>8. NShards * q \in Nat /\ NShards * (q + 1) = NShards * q + NShards
  BY <1>6, Multiples
<1>9. CASE r # s
  <2>1. lastId # r + NShards * q
    BY <1>2, <1>3, <1>9, ShardsApart
  <2>2. lastId' <= r + NShards * q
    BY <1>1, <1>6, <1>7, <1>8, <2>1 DEF ShardHolds
  <2>3. cache'[r] = cache[r]
    BY <1>4, <1>5, <1>9
  <2>4. q > 0 => r + NShards * (q - 1) < lastId'
    <3> SUFFICES ASSUME q > 0 PROVE r + NShards * (q - 1) < lastId'
      OBVIOUS
    <3>1. NShards * (q - 1) \in Nat
      BY <1>6, Multiples
    <3>2. r + NShards * (q - 1) < lastId
      BY <1>7 DEF ShardHolds
    <3> QED
      BY <1>1, <1>6, <3>1, <3>2
  <2>5. ShardHolds(r, q)'
    BY <1>7, <2>2, <2>3, <2>4 DEF ShardHolds
  <2> QED
    BY <2>5
<1>10. CASE r = s
  <2>1. t = q
    <3>1. NShards * t \in Nat /\ t <= q
      <4>1. NShards * t \in Nat /\ (q < t => NShards * q + NShards <= NShards * t)
        BY <1>6, Multiples
      <4>2. s + NShards * t <= s + NShards * q
        BY <1>3, <1>7, <1>10 DEF ShardHolds
      <4> QED
        BY <1>2, <1>6, <1>8, <4>1, <4>2
    <3>2. ~(t < q)
      <4> SUFFICES ASSUME t < q PROVE FALSE
        OBVIOUS
      <4>1. q - 1 \in Nat /\ t <= q - 1
        OBVIOUS
      <4>2. NShards * t <= NShards * (q - 1) /\ NShards * (q - 1) \in Nat
        BY <1>6, <4>1, Multiples
      <4>3. s + NShards * (q - 1) < s + NShards * t
        BY <1>3, <1>7, <1>10 DEF ShardHolds
      <4> QED
        BY <1>2, <1>6, <3>1, <4>2, <4>3
    <3> QED
      BY <3>1, <3>2
  <2>2. lastId' <= s + NShards * (q + 1) /\ s + NShards * ((q + 1) - 1) < lastId'
    <3>1. (q + 1) - 1 = q
      OBVIOUS
    <3> QED
      BY <1>1, <1>2, <1>3, <1>6, <1>8, <2>1, <3>1
  <2>3. /\ Len(cache[s]) = Kept(q)
        /\ \A k \in 1..Kept(q) : cache[s][k] = s + NShards * ((q - Kept(q)) + (k - 1))
    BY <1>7, <1>10 DEF ShardHolds
  <2>4. /\ order \in Seq(Ids) /\ Len(order) = Kept(q) + 1
        /\ \A k \in 1..(Kept(q) + 1) :
              order[k] = IF k = Kept(q) + 1 THEN lastId ELSE cache[s][k]
    <3>1. cache[s] \in Seq(Ids) /\ Kept(q) \in Nat /\ Len(cache[s]) = Kept(q)
      BY <1>2, <1>5, <2>3, KeptFacts
    <3> QED
      BY <1>1, <3>1
  <2>5. \A k \in 1..(Kept(q) + 1) : order[k] = s + NShards * ((q - Kept(q)) + (k - 1))
    <3> TAKE k \in 1..(Kept(q) + 1)
    <3>1. Kept(q) \in Nat /\ Kept(q) <= q
      BY KeptFacts
    <3>2. CASE k = Kept(q) + 1
      <4>1. (q - Kept(q)) + (k - 1) = q
        BY <3>1, <3>2
      <4> QED
        BY <1>3, <2>1, <2>4, <3>2, <4>1
    <3>3. CASE k # Kept(q) + 1
      <4>1. k \in 1..Kept(q)
        BY <3>1, <3>3
      <4> QED
        BY <2>3, <2>4, <3>3, <4>1
    <3> QED
      BY <3>2, <3>3
  <2> HIDE DEF order
  <2>6. /\ Kept(q) \in Nat /\ Kept(q + 1) \in Nat /\ Kept(q) <= q
        /\ Kept(q + 1) = IF Kept(q) + 1 > ShardCap THEN Kept(q) ELSE Kept(q) + 1
    BY KeptFacts
  <2>7. /\ Len(cache'[s]) = Kept(q + 1)
        /\ \A k \in 1..Kept(q + 1) :
              cache'[s][k] = s + NShards * (((q + 1) - Kept(q + 1)) + (k - 1))
    <3>1. CASE Kept(q) + 1 > ShardCap
      <4>1. cache'[s] = Tail(order) /\ Kept(q + 1) = Kept(q)
        BY <1>2, <1>4, <1>5, <2>4, <2>6, <3>1
      <4>2. /\ Len(Tail(order)) = Kept(q)
            /\ \A k \in 1..Kept(q) : Tail(order)[k] = order[k + 1]
        BY <2>4, <2>6
      <4>3. \A k \in 1..Kept(q) :
               /\ k + 1 \in 1..(Kept(q) + 1)
               /\ (q - Kept(q)) + ((k + 1) - 1) = ((q + 1) - Kept(q)) + (k - 1)
        BY <2>6
      <4> QED
        BY <2>5, <4>1, <4>2, <4>3
    <3>2. CASE ~(Kept(q) + 1 > ShardCap)
      <4>1. cache'[s] = order /\ Kept(q + 1) = Kept(q) + 1
        BY <1>2, <1>4, <1>5, <2>4, <2>6, <3>2
      <4>2. (q + 1) - Kept(q + 1) = q - Kept(q)
        BY <2>6, <4>1
      <4> QED
        BY <2>4, <2>5, <4>1, <4>2
    <3> QED
      BY <3>1, <3>2
  <2>8. ShardHolds(r, q + 1)'
    BY <1>10, <2>2, <2>7 DEF ShardHolds
  <2> QED
    BY <2>8
<1> QED
  BY <1>9, <1>10

\* Every step keeps the shape of the shards.
LEMMA ShapeKept ==
    ASSUME TypeOK, CacheShape, [Next]_vars
    PROVE  CacheShape'
<1>1. CASE Send
  BY <1>1, InsertKeepsShape
<1>2. CASE UNCHANGED <<lastId, cache>>
  BY <1>2 DEF CacheShape, ShardHolds
<1>3. Send \/ UNCHANGED <<lastId, cache>>
  BY StepCases, ReceiverStep
  DEF sendVars, replyVars, recvVars, netVars, vars, NotifyArrives, ResendSkipped, Resend,
      ResendMiss, LoseData, LoseNote, Tick
<1> QED
  BY <1>1, <1>2, <1>3

\* The shape of the cache implies that it covers the last ids sent.
LEMMA ShapeCovers ==
    ASSUME TypeOK, CacheShape
    PROVE  CacheWindow
<1> SUFFICES ASSUME NEW id \in Ids, id < lastId, lastId <= id + NShards * ShardCap
             PROVE  Cached(id)
  BY DEF CacheWindow
<1> DEFINE s == id % NShards
<1>1. s \in Shards /\ id \in Nat /\ lastId \in Nat /\ s \in Nat
  <2>1. id \in Nat /\ lastId \in Nat
    BY ResendConstants DEF Ids, TypeOK
  <2>2. s \in Shards
    BY <2>1, ShardOf
  <2> HIDE DEF s
  <2> QED
    BY <2>1, <2>2, ResendConstants DEF Shards
<1>2. PICK t \in Nat : id = s + NShards * t
  BY <1>1, ShardOf
<1>3. PICK q \in Nat : ShardHolds(s, q)
  BY <1>1 DEF CacheShape
<1>4. NShards \in Nat \ {0} /\ ShardCap \in Nat
  BY ResendConstants
<1>5. cache[s] \in Seq(Ids)
  BY <1>1 DEF TypeOK
<1> HIDE DEF s
<1>6. t < q
  <2>1. NShards * t \in Nat /\ NShards * q \in Nat /\ (q <= t => NShards * q <= NShards * t)
    BY <1>4, Multiples
  <2>2. lastId <= s + NShards * q
    BY <1>3 DEF ShardHolds
  <2> QED
    BY <1>1, <1>2, <2>1, <2>2
<1>7. q - 1 < t + ShardCap
  <2>1. q - 1 \in Nat /\ t + ShardCap \in Nat
    BY <1>4, <1>6
  <2>2. /\ NShards * (q - 1) \in Nat /\ NShards * (t + ShardCap) \in Nat
        /\ (t + ShardCap <= q - 1 => NShards * (t + ShardCap) <= NShards * (q - 1))
    BY <1>4, <2>1, Multiples
  <2>3. NShards * (t + ShardCap) = NShards * t + NShards * ShardCap
    BY <1>4
  <2>4. s + NShards * (q - 1) < lastId
    BY <1>3, <1>6 DEF ShardHolds
  <2>5. NShards * t \in Nat /\ NShards * ShardCap \in Nat
    BY <1>4, Multiples
  <2>6. s + NShards * (q - 1) < s + NShards * (t + ShardCap)
    BY <1>1, <1>2, <2>2, <2>3, <2>4, <2>5
  <2> QED
    BY <1>1, <2>1, <2>2, <2>6
<1>8. /\ Kept(q) \in Nat /\ Kept(q) <= q /\ (Kept(q) = q \/ Kept(q) = ShardCap)
  BY KeptFacts
<1> DEFINE k == (t - (q - Kept(q))) + 1
<1>9. k \in 1..Kept(q) /\ (q - Kept(q)) + (k - 1) = t
  BY <1>4, <1>6, <1>7, <1>8
<1> HIDE DEF k
<1>10. cache[s][k] = id /\ k \in DOMAIN cache[s]
  BY <1>2, <1>3, <1>5, <1>9 DEF ShardHolds
<1> QED
  BY <1>10 DEF Cached, Range, s
------------------------------------------------------------------------------
(***************************************************************************)
(* How often an id is resent.  Counted ties the copies to the reports      *)
(* handled: a listed id that is not pending has been sent less often than  *)
(* it was asked for.  AskedOnce and Reported say why one report is all     *)
(* there is: an id is in a note under way or in a note handled, not both,  *)
(* and is remembered in notifiedMissingIds until it is delivered.          *)
(***************************************************************************)
Sent == \A id \in Ids : id < lastId => copies[id] >= 1

Counted ==
    \A id \in Ids :
        /\ copies[id] <= 1 + asks[id]
        /\ id \in Range(handling) => asks[id] >= 1
        /\ (id \in Range(handling) /\ id \notin DOMAIN pending) => copies[id] <= asks[id]

AskedOnce ==
    \A id \in Ids : id \notin forgotten =>
        /\ asks[id] <= 1
        /\ asks[id] = 1 => \A m \in notes : id \notin Range(m.ids)
        /\ \A m1, m2 \in notes : (id \in Range(m1.ids) /\ id \in Range(m2.ids)) => m1 = m2

Reported ==
    /\ \A m \in notes : Range(m.ids) \subseteq asked
    /\ \A id \in Ids : asks[id] >= 1 => id \in asked
    /\ \A id \in asked : id \in notified \/ id < next \/ id \in forgotten

\* Every step keeps Sent: an id below lastId was sent at least once.
LEMMA SentKept ==
    ASSUME TypeOK, Sent, [Next]_vars
    PROVE  Sent'
<1> USE DEF sendVars, replyVars, recvVars, netVars, vars
<1>0. copies \in [Ids -> Nat] /\ Ids \subseteq Nat /\ lastId \in Nat
  BY ResendConstants DEF TypeOK, Ids
<1>1. CASE Send
  <2>1. /\ lastId \in Ids /\ lastId' = lastId + 1
        /\ copies' = [copies EXCEPT ![lastId] = 1]
    BY <1>1 DEF Send
  <2> SUFFICES ASSUME NEW id \in Ids, id < lastId' PROVE copies'[id] >= 1
    BY DEF Sent
  <2>2. id = lastId \/ id < lastId
    BY <1>0, <2>1
  <2> QED
    BY <1>0, <2>1, <2>2 DEF Sent
<1>2. CASE Resend
  <2>1. /\ Head(handling) \in Ids /\ lastId' = lastId
        /\ copies' = [copies EXCEPT ![Head(handling)] = @ + 1]
    BY <1>2, RangeOfTail DEF Resend, TypeOK
  <2> SUFFICES ASSUME NEW id \in Ids, id < lastId' PROVE copies'[id] >= 1
    BY DEF Sent
  <2>2. copies[id] \in Nat /\ copies[id] >= 1
    BY <1>0, <2>1 DEF Sent
  <2>3. copies'[id] = copies[id] \/ copies'[id] = copies[id] + 1
    BY <1>0, <2>1
  <2> QED
    BY <2>2, <2>3
<1>3. CASE UNCHANGED <<lastId, copies>>
  BY <1>3 DEF Sent
<1>4. Send \/ Resend \/ UNCHANGED <<lastId, copies>>
  BY StepCases, ReceiverStep
  DEF NotifyArrives, ResendSkipped, ResendMiss, LoseData, LoseNote, Tick
<1> QED
  BY <1>1, <1>2, <1>3, <1>4

\* Every step keeps Counted: no more copies than the original and one per request.
LEMMA CountedKept ==
    ASSUME TypeOK, Counted, [Next]_vars
    PROVE  Counted'
<1> USE DEF sendVars, replyVars, recvVars, netVars, vars
<1>0. /\ copies \in [Ids -> Nat] /\ asks \in [Ids -> Nat]
      /\ handling \in Seq(Ids) /\ \A m \in notes : m.ids \in Seq(Ids)
  BY DEF TypeOK
<1>1. CASE Send
  <2>1. /\ lastId \in Ids /\ copies' = [copies EXCEPT ![lastId] = 1]
        /\ UNCHANGED replyVars
    BY <1>1 DEF Send
  <2> SUFFICES ASSUME NEW id \in Ids
               PROVE  /\ copies'[id] <= 1 + asks[id]
                      /\ id \in Range(handling) => asks[id] >= 1
                      /\ (id \in Range(handling) /\ id \notin DOMAIN pending)
                            => copies'[id] <= asks[id]
    BY <2>1 DEF Counted
  <2>2. asks[id] \in Nat /\ (copies'[id] = 1 \/ copies'[id] = copies[id])
    BY <1>0, <2>1
  <2> QED
    BY <2>2 DEF Counted
<1>2. ASSUME NEW m \in notes, NotifyArrives(m) PROVE Counted'
  <2>1. /\ handling' = m.ids /\ copies' = copies
        /\ asks' = [i \in Ids |-> IF i \in Range(m.ids) THEN asks[i] + 1 ELSE asks[i]]
    BY <1>2 DEF NotifyArrives
  <2> SUFFICES ASSUME NEW id \in Ids
               PROVE  /\ copies[id] <= 1 + asks'[id]
                      /\ id \in Range(m.ids) => asks'[id] >= 1 /\ copies[id] <= asks'[id]
    BY <2>1 DEF Counted
  <2>2. copies[id] \in Nat /\ asks[id] \in Nat /\ copies[id] <= 1 + asks[id]
    BY <1>0 DEF Counted
  <2>3. asks'[id] = IF id \in Range(m.ids) THEN asks[id] + 1 ELSE asks[id]
    BY <2>1
  <2> QED
    BY <2>2, <2>3
<1>3. CASE ResendSkipped \/ ResendMiss
  <2>1. /\ handling # <<>> /\ handling' = Tail(handling)
        /\ UNCHANGED <<copies, asks, pending>>
    BY <1>3 DEF ResendSkipped, ResendMiss
  <2>2. Range(handling') \subseteq Range(handling)
    BY <1>0, <2>1, RangeOfTail
  <2> QED
    BY <2>1, <2>2 DEF Counted
<1>4. CASE Resend
  <2> DEFINE x == Head(handling)
  <2>1. /\ handling # <<>> /\ x \notin DOMAIN pending /\ handling' = Tail(handling)
        /\ copies' = [copies EXCEPT ![x] = @ + 1] /\ UNCHANGED asks
        /\ DOMAIN pending' = DOMAIN pending \cup {x}
    BY <1>4 DEF Resend, SetPending
  <2>2. x \in Range(handling) /\ x \in Ids /\ Range(handling') \subseteq Range(handling)
    BY <1>0, <2>1, RangeOfTail
  <2> HIDE DEF x
  <2> SUFFICES ASSUME NEW id \in Ids
               PROVE  /\ copies'[id] <= 1 + asks[id]
                      /\ id \in Range(handling') => asks[id] >= 1
                      /\ (id \in Range(handling') /\ id \notin DOMAIN pending')
                            => copies'[id] <= asks[id]
    BY <2>1 DEF Counted
  <2>3. copies[id] \in Nat /\ asks[id] \in Nat
    BY <1>0
  <2>4. CASE id = x
    <3>1. copies'[id] = copies[id] + 1 /\ id \in DOMAIN pending'
      BY <1>0, <2>1, <2>4
    <3>2. copies[id] <= asks[id] /\ asks[id] >= 1
      BY <2>1, <2>2, <2>4 DEF Counted
    <3> QED
      BY <2>3, <3>1, <3>2
  <2>5. CASE id # x
    <3>1. copies'[id] = copies[id]
      BY <1>0, <2>1, <2>5
    <3> QED
      BY <2>1, <2>2, <2>5, <3>1 DEF Counted
  <2> QED
    BY <2>4, <2>5
<1>5. CASE UNCHANGED <<copies, asks, handling, pending>>
  BY <1>5 DEF Counted
<1>6. CASE Tick
  <2>1. UNCHANGED <<copies, asks, handling>> /\ DOMAIN pending' = DOMAIN pending
    BY <1>6 DEF Tick
  <2> QED
    BY <2>1 DEF Counted
<1>7. \/ Send \/ (\E m \in notes : NotifyArrives(m)) \/ ResendSkipped \/ ResendMiss \/ Resend
      \/ Tick \/ UNCHANGED <<copies, asks, handling, pending>>
  BY StepCases, ReceiverStep DEF LoseData, LoseNote
<1> QED
  BY <1>1, <1>2, <1>3, <1>4, <1>5, <1>6, <1>7

\* Every step keeps Reported: what was asked for is remembered, delivered or forgotten.
LEMMA ReportedKept ==
    ASSUME TypeOK, Reported, [Next]_vars
    PROVE  Reported'
<1> USE DEF sendVars, replyVars, recvVars, netVars, vars
<1>0. asks \in [Ids -> Nat] /\ Ids \subseteq Nat /\ next \in Nat /\ asked \subseteq Ids
  BY ResendConstants DEF TypeOK, Ids
<1>1. ASSUME NEW m \in notes, NotifyArrives(m) PROVE Reported'
  <2>1. /\ notes' \subseteq notes /\ UNCHANGED <<asked, notified, next, forgotten>>
        /\ asks' = [i \in Ids |-> IF i \in Range(m.ids) THEN asks[i] + 1 ELSE asks[i]]
    BY <1>1 DEF NotifyArrives
  <2>2. ASSUME NEW id \in Ids, asks'[id] >= 1 PROVE id \in asked
    BY <1>0, <2>1, <2>2 DEF Reported
  <2> QED
    BY <2>1, <2>2 DEF Reported
<1>2. CASE Receiver
  <2>1. PICK new \in SUBSET Ids : Iterate(new) /\ UNCHANGED replyVars
    BY <1>2, ReceiverStep
  <2>2. /\ Reports /\ next <= next' /\ next' \in Nat /\ forgotten \subseteq forgotten'
        /\ \A i \in notified : i \in notified' \/ i \in forgotten' \/ i < next'
    BY <2>1, IterateFacts DEF RecvTypes, TypeOK
  <2>3. \A id \in asked : id \in notified' \/ id < next' \/ id \in forgotten'
    <3> TAKE id \in asked
    <3>1. id \in Nat /\ (id \in notified \/ id < next \/ id \in forgotten)
      BY <1>0 DEF Reported
    <3>2. id < next => id < next'
      BY <1>0, <2>2, <3>1
    <3> QED
      BY <2>2, <3>1, <3>2
  <2>4. CASE UNCHANGED <<asked, noteCount, notes>>
    BY <2>1, <2>3, <2>4 DEF Reported
  <2>5. CASE ~UNCHANGED <<asked, noteCount, notes>>
    <3>1. PICK ids \in Seq(Ids) :
             /\ asked' = asked \cup Range(ids) /\ Range(ids) \subseteq notified'
             /\ notes' = notes \cup {[no |-> noteCount, ids |-> ids]}
      BY <2>2, <2>5 DEF Reports
    <3>2. \A m \in notes' : Range(m.ids) \subseteq asked'
      BY <3>1 DEF Reported
    <3>3. \A id \in asked' : id \in notified' \/ id < next' \/ id \in forgotten'
      BY <2>3, <3>1
    <3>4. \A id \in Ids : asks'[id] >= 1 => id \in asked'
      BY <2>1, <3>1 DEF Reported
    <3> QED
      BY <3>2, <3>3, <3>4 DEF Reported
  <2> QED
    BY <2>4, <2>5
<1>3. CASE notes' \subseteq notes /\ UNCHANGED <<asks, asked, notified, next, forgotten>>
  BY <1>3 DEF Reported
<1>4. \/ (\E m \in notes : NotifyArrives(m)) \/ Receiver
      \/ notes' \subseteq notes /\ UNCHANGED <<asks, asked, notified, next, forgotten>>
  BY StepCases
  DEF Send, ResendSkipped, Resend, ResendMiss, LoseData, LoseNote, Tick
<1> QED
  BY <1>1, <1>2, <1>3, <1>4

\* No step lets two notices name one id unless it was forgotten in between.
LEMMA AskedOnceKept ==
    ASSUME TypeOK, Reported, AskedOnce, [Next]_vars
    PROVE  AskedOnce'
<1> USE DEF sendVars, replyVars, recvVars, netVars, vars
<1>0. /\ asks \in [Ids -> Nat] /\ Ids \subseteq Nat /\ next \in Nat
  BY ResendConstants DEF TypeOK, Ids
<1>1. ASSUME NEW m \in notes, NotifyArrives(m) PROVE AskedOnce'
  <2>1. /\ notes' = notes \ {m} /\ forgotten' = forgotten
        /\ asks' = [i \in Ids |-> IF i \in Range(m.ids) THEN asks[i] + 1 ELSE asks[i]]
    BY <1>1 DEF NotifyArrives
  <2> SUFFICES ASSUME NEW id \in Ids, id \notin forgotten
               PROVE  /\ asks'[id] <= 1
                      /\ asks'[id] = 1 => \A n \in notes' : id \notin Range(n.ids)
                      /\ \A m1, m2 \in notes' :
                            (id \in Range(m1.ids) /\ id \in Range(m2.ids)) => m1 = m2
    BY <2>1, Zenon DEF AskedOnce
  <2>2. /\ asks[id] <= 1 /\ asks[id] \in Nat
        /\ asks[id] = 1 => \A n \in notes : id \notin Range(n.ids)
        /\ \A m1, m2 \in notes : (id \in Range(m1.ids) /\ id \in Range(m2.ids)) => m1 = m2
    BY <1>0 DEF AskedOnce
  <2>3. CASE id \in Range(m.ids)
    <3>1. asks[id] = 0 /\ asks'[id] = 1
      BY <2>1, <2>2, <2>3
    <3> QED
      BY <2>1, <2>2, <2>3, <3>1
  <2>4. CASE id \notin Range(m.ids)
    BY <2>1, <2>2, <2>4
  <2> QED
    BY <2>3, <2>4
<1>2. CASE Receiver
  <2>1. PICK new \in SUBSET Ids : Iterate(new) /\ UNCHANGED replyVars
    BY <1>2, ReceiverStep
  <2>2. Reports /\ forgotten \subseteq forgotten'
    BY <2>1, IterateFacts DEF RecvTypes, TypeOK
  <2>3. CASE UNCHANGED <<asked, noteCount, notes>>
    BY <2>1, <2>2, <2>3 DEF AskedOnce
  <2>4. CASE ~UNCHANGED <<asked, noteCount, notes>>
    <3>1. PICK ids \in Seq(Ids) :
             /\ notes' = notes \cup {[no |-> noteCount, ids |-> ids]}
             /\ \A i \in Range(ids) : next <= i /\ i \notin notified
      BY <2>2, <2>4 DEF Reports
    <3> DEFINE note == [no |-> noteCount, ids |-> ids]
    <3>2. note.ids = ids
      OBVIOUS
    <3> HIDE DEF note
    <3> SUFFICES ASSUME NEW id \in Ids, id \notin forgotten'
                 PROVE  /\ asks[id] <= 1
                        /\ asks[id] = 1 => \A n \in notes' : id \notin Range(n.ids)
                        /\ \A m1, m2 \in notes' :
                              (id \in Range(m1.ids) /\ id \in Range(m2.ids)) => m1 = m2
      BY <2>1, Zenon DEF AskedOnce
    <3>3. /\ id \notin forgotten /\ asks[id] <= 1 /\ asks[id] \in Nat
          /\ asks[id] = 1 => \A n \in notes : id \notin Range(n.ids)
          /\ \A m1, m2 \in notes : (id \in Range(m1.ids) /\ id \in Range(m2.ids)) => m1 = m2
      BY <1>0, <2>2 DEF AskedOnce
    <3>4. id \in Range(ids) => id \notin asked
      <4> SUFFICES ASSUME id \in Range(ids), id \in asked PROVE FALSE
        OBVIOUS
      <4>1. id \in Nat /\ next <= id /\ id \notin notified
        BY <1>0, <3>1
      <4> QED
        BY <1>0, <3>3, <4>1 DEF Reported
    <3>5. id \in asked => id \notin Range(note.ids)
      BY <3>2, <3>4
    <3>6. asks[id] = 1 => id \in asked
      BY DEF Reported
    <3>7. \A n \in notes : id \in Range(n.ids) => id \in asked
      BY DEF Reported
    <3>8. notes' = notes \cup {note}
      BY <3>1 DEF note
    <3>9. asks[id] = 1 => \A n \in notes' : id \notin Range(n.ids)
      BY <3>3, <3>5, <3>6, <3>8
    <3>10. \A m1, m2 \in notes' :
              (id \in Range(m1.ids) /\ id \in Range(m2.ids)) => m1 = m2
      BY <3>3, <3>5, <3>7, <3>8
    <3> QED
      BY <3>3, <3>9, <3>10
  <2> QED
    BY <2>3, <2>4
<1>3. CASE notes' \subseteq notes /\ UNCHANGED <<asks, forgotten>>
  BY <1>3 DEF AskedOnce
<1>4. \/ (\E m \in notes : NotifyArrives(m)) \/ Receiver
      \/ notes' \subseteq notes /\ UNCHANGED <<asks, forgotten>>
  BY StepCases
  DEF Send, ResendSkipped, Resend, ResendMiss, LoseData, LoseNote, Tick
<1> QED
  BY <1>1, <1>2, <1>3, <1>4
------------------------------------------------------------------------------
(***************************************************************************)
(* The repair.  A reported id that met no fault has arrived, or its report *)
(* or its reply is under way.  A reply takes no tick without a fault, so   *)
(* nothing is under way when the reorder timeout has passed.               *)
(***************************************************************************)
Arrived(i) == i < next \/ i \in buffered

ReplySent(i) == \E c \in Nat : c > 0 /\ <<i, c>> \in data

UnderWay(i) ==
    \/ \E m \in notes : i \in Range(m.ids)
    \/ i \in Range(handling)
    \/ ReplySent(i)

NotLost == \A i \in asked \ faulted : Arrived(i) \/ UnderWay(i)

PendingSent == \A i \in DOMAIN pending \ faulted : Arrived(i) \/ ReplySent(i)

SkippedPast == \A i \in skipped : i < next

LateIsFault == Expired => \A i \in Ids : UnderWay(i) => i \in faulted

\* The loss of a copy sent in reply is a fault.
LEMMA FaultOfReply ==
    ASSUME NEW i, NEW c \in Nat, c > 0
    PROVE  i \in Fault({<<i, c>>}, {})
<1> DEFINE p == <<i, c>>
<1>1. p[1] = i /\ p[2] = c
  OBVIOUS
<1> HIDE DEF p
<1>2. p \in {q \in {p} : q[2] > 0}
  BY <1>1
<1>3. i \in {q[1] : q \in {r \in {p} : r[2] > 0}}
  BY <1>1, <1>2
<1> QED
  BY <1>3 DEF Fault, p

\* Every step keeps NotLost: a request, its handling or its reply is under way, or the
\* packet has arrived, unless a fault hit it.
LEMMA NotLostKept ==
    ASSUME TypeOK, CacheShape, Sent, NotLost, PendingSent, [Next]_vars
    PROVE  NotLost'
<1> USE DEF sendVars, replyVars, recvVars, netVars, vars
<1>0. /\ Ids \subseteq Nat /\ next \in Nat /\ asked \subseteq Ids
      /\ data \subseteq Ids \X Nat /\ handling \in Seq(Ids) /\ copies \in [Ids -> Nat]
      /\ buffered \subseteq Ids
  BY ResendConstants DEF TypeOK, Ids
<1>1. CASE Send
  <2>1. data \subseteq data' /\ UNCHANGED <<asked, faulted, next, buffered, notes, handling>>
    BY <1>1 DEF Send
  <2> QED
    BY <2>1 DEF NotLost, Arrived, UnderWay, ReplySent
<1>2. ASSUME NEW m \in notes, NotifyArrives(m) PROVE NotLost'
  <2>1. /\ handling = <<>> /\ notes' = notes \ {m} /\ handling' = m.ids
        /\ UNCHANGED <<asked, faulted, next, buffered, data>>
    BY <1>2 DEF NotifyArrives
  <2>2. Range(handling) = {}
    BY <2>1, RangeOfEmpty
  <2>3. ASSUME NEW i, UnderWay(i) PROVE UnderWay(i)'
    BY <2>1, <2>2, <2>3 DEF UnderWay, ReplySent
  <2> QED
    BY <2>1, <2>3 DEF NotLost, Arrived
<1>3. CASE ResendSkipped
  <2> DEFINE x == Head(handling)
  <2>1. /\ handling # <<>> /\ x \in DOMAIN pending /\ handling' = Tail(handling)
        /\ UNCHANGED <<asked, faulted, next, buffered, data, notes>>
    BY <1>3 DEF ResendSkipped
  <2>2. Range(handling) \subseteq Range(handling') \cup {x}
    BY <1>0, <2>1, RangeOfTail
  <2> HIDE DEF x
  <2> SUFFICES ASSUME NEW i \in asked \ faulted PROVE Arrived(i)' \/ UnderWay(i)'
    BY <2>1 DEF NotLost
  <2>3. CASE i = x
    BY <2>1, <2>3 DEF PendingSent, Arrived, UnderWay, ReplySent
  <2>4. CASE i # x
    BY <2>1, <2>2, <2>4 DEF NotLost, Arrived, UnderWay, ReplySent
  <2> QED
    BY <2>3, <2>4
<1>4. CASE Resend
  <2>0. PICK x \in Ids : x = Head(handling)
    BY <1>0, <1>4, RangeOfTail DEF Resend
  <2>1. /\ handling # <<>> /\ Cached(x) /\ handling' = Tail(handling)
        /\ data' = data \cup {<<x, copies[x]>>}
        /\ UNCHANGED <<asked, faulted, next, buffered, notes>>
    BY <1>4, <2>0 DEF Resend
  <2>2. Range(handling) \subseteq Range(handling') \cup {x} /\ x \in Ids
    BY <1>0, <2>0, <2>1, RangeOfTail
  <2>3. ReplySent(x)'
    <3>1. x < lastId
      BY <2>1, <2>2, CachedWasSent
    <3>2. copies[x] \in Nat /\ copies[x] > 0
      BY <1>0, <2>2, <3>1 DEF Sent
    <3> QED
      BY <2>1, <3>2 DEF ReplySent
  <2> SUFFICES ASSUME NEW i \in asked \ faulted PROVE Arrived(i)' \/ UnderWay(i)'
    BY <2>1 DEF NotLost
  <2>4. CASE i = x
    BY <2>3, <2>4 DEF UnderWay
  <2>5. CASE i # x
    BY <2>1, <2>2, <2>5 DEF NotLost, Arrived, UnderWay, ReplySent
  <2> QED
    BY <2>4, <2>5
<1>5. CASE ResendMiss
  <2> DEFINE x == Head(handling)
  <2>1. /\ handling # <<>> /\ handling' = Tail(handling) /\ faulted' = faulted \cup {x}
        /\ UNCHANGED <<asked, next, buffered, data, notes>>
    BY <1>5 DEF ResendMiss
  <2>2. Range(handling) \subseteq Range(handling') \cup {x}
    BY <1>0, <2>1, RangeOfTail
  <2> HIDE DEF x
  <2> QED
    BY <2>1, <2>2 DEF NotLost, Arrived, UnderWay, ReplySent
<1>6. CASE Receiver
  <2>1. PICK new \in SUBSET Ids :
            /\ Iterate(new) /\ UNCHANGED <<sendVars, replyVars, losses, faulted>>
            /\ data' \subseteq data /\ \A p \in data \ data' : p[1] \in new
    BY <1>6, ReceiverStep
  <2>2. /\ Reports /\ next <= next' /\ next' \in Nat
        /\ \A i \in buffered \cup new : i < next' \/ i \in buffered'
    BY <2>1, IterateFacts DEF RecvTypes, TypeOK
  <2>3. ASSUME NEW i \in asked, Arrived(i) PROVE Arrived(i)'
    BY <1>0, <2>2, <2>3 DEF Arrived
  <2>4. ASSUME NEW i \in asked, ReplySent(i) PROVE Arrived(i)' \/ ReplySent(i)'
    <3>1. PICK c \in Nat : c > 0 /\ <<i, c>> \in data
      BY <2>4 DEF ReplySent
    <3>2. CASE <<i, c>> \in data'
      BY <3>1, <3>2 DEF ReplySent
    <3>3. CASE <<i, c>> \notin data'
      <4>1. i \in new
        BY <2>1, <3>1, <3>3
      <4> QED
        BY <2>2, <4>1 DEF Arrived
    <3> QED
      BY <3>2, <3>3
  <2>5. notes \subseteq notes' /\ handling' = handling
    BY <2>1, <2>2 DEF Reports
  <2>6. ASSUME NEW i \in asked \ faulted PROVE Arrived(i)' \/ UnderWay(i)'
    <3>1. Arrived(i) \/ UnderWay(i)
      BY DEF NotLost
    <3> QED
      BY <2>3, <2>4, <2>5, <3>1 DEF UnderWay
  <2>7. ASSUME NEW i \in asked' \ asked PROVE UnderWay(i)'
    <3>1. PICK ids \in Seq(Ids) :
             /\ asked' = asked \cup Range(ids)
             /\ notes' = notes \cup {[no |-> noteCount, ids |-> ids]}
      BY <2>2, <2>7 DEF Reports
    <3>2. i \in Range(ids)
      BY <2>7, <3>1
    <3>3. [no |-> noteCount, ids |-> ids].ids = ids
      OBVIOUS
    <3> QED
      BY <3>1, <3>2, <3>3 DEF UnderWay
  <2> QED
    BY <2>1, <2>6, <2>7 DEF NotLost
<1>7. ASSUME NEW p \in data, LoseData(p) PROVE NotLost'
  <2>1. /\ data' = data \ {p} /\ faulted' = faulted \cup Fault({p}, {})
        /\ UNCHANGED <<asked, next, buffered, notes, handling>>
    BY <1>7 DEF LoseData
  <2> SUFFICES ASSUME NEW i \in asked \ faulted' PROVE Arrived(i) \/ UnderWay(i)'
    BY <2>1 DEF NotLost, Arrived
  <2>2. ASSUME NEW c \in Nat, c > 0, <<i, c>> \in data PROVE <<i, c>> \in data'
    <3>1. <<i, c>> # p
      <4> SUFFICES ASSUME <<i, c>> = p PROVE FALSE
        OBVIOUS
      <4>1. i \in Fault({p}, {})
        BY <2>2, FaultOfReply
      <4> QED
        BY <2>1, <4>1
    <3> QED
      BY <2>1, <2>2, <3>1
  <2>3. Arrived(i) \/ UnderWay(i)
    BY <2>1 DEF NotLost
  <2>4. ReplySent(i) => ReplySent(i)'
    BY <2>2 DEF ReplySent
  <2> QED
    BY <2>1, <2>3, <2>4 DEF UnderWay
<1>8. ASSUME NEW m \in notes, LoseNote(m) PROVE NotLost'
  <2>1. /\ notes' = notes \ {m} /\ faulted' = faulted \cup Fault({}, {m})
        /\ UNCHANGED <<asked, next, buffered, data, handling>>
    BY <1>8 DEF LoseNote
  <2>2. Range(m.ids) \subseteq Fault({}, {m})
    BY DEF Fault
  <2> QED
    BY <2>1, <2>2 DEF NotLost, Arrived, UnderWay, ReplySent
<1>9. CASE Tick
  <2>1. /\ faulted \subseteq faulted'
        /\ UNCHANGED <<asked, next, buffered, data, notes, handling>>
    BY <1>9 DEF Tick
  <2> QED
    BY <2>1 DEF NotLost, Arrived, UnderWay, ReplySent
<1>10. CASE UNCHANGED vars
  BY <1>10 DEF NotLost, Arrived, UnderWay, ReplySent
<1> QED
  BY <1>1, <1>2, <1>3, <1>4, <1>5, <1>6, <1>7, <1>8, <1>9, <1>10, StepCases

\* Every step keeps PendingSent: an id held back by its time to live has been resent.
LEMMA PendingSentKept ==
    ASSUME TypeOK, CacheShape, Sent, PendingSent, [Next]_vars
    PROVE  PendingSent'
<1> USE DEF sendVars, replyVars, recvVars, netVars, vars
<1>0. /\ Ids \subseteq Nat /\ next \in Nat /\ DOMAIN pending \subseteq Ids
      /\ data \subseteq Ids \X Nat /\ handling \in Seq(Ids) /\ copies \in [Ids -> Nat]
      /\ buffered \subseteq Ids
  BY ResendConstants DEF TypeOK, Ids
<1>1. CASE Resend
  <2>1. PICK x \in Ids : x = Head(handling)
    BY <1>0, <1>1, RangeOfTail DEF Resend
  <2>2. /\ handling # <<>> /\ Cached(x)
        /\ data' = data \cup {<<x, copies[x]>>}
        /\ DOMAIN pending' = DOMAIN pending \cup {x}
        /\ UNCHANGED <<faulted, next, buffered>>
    BY <1>1, <2>1 DEF Resend, SetPending
  <2>3. ReplySent(x)'
    <3>1. x < lastId
      BY <2>2, CachedWasSent
    <3>2. copies[x] \in Nat /\ copies[x] > 0
      BY <1>0, <3>1 DEF Sent
    <3> QED
      BY <2>2, <3>2 DEF ReplySent
  <2> QED
    BY <2>2, <2>3 DEF PendingSent, Arrived, ReplySent
<1>2. CASE Receiver
  <2>1. PICK new \in SUBSET Ids :
            /\ Iterate(new) /\ UNCHANGED <<sendVars, replyVars, losses, faulted>>
            /\ data' \subseteq data /\ \A p \in data \ data' : p[1] \in new
    BY <1>2, ReceiverStep
  <2>2. /\ next <= next' /\ next' \in Nat
        /\ \A i \in buffered \cup new : i < next' \/ i \in buffered'
    BY <2>1, IterateFacts DEF RecvTypes, TypeOK
  <2>3. ASSUME NEW i \in Ids, Arrived(i) PROVE Arrived(i)'
    BY <1>0, <2>2, <2>3 DEF Arrived
  <2>4. ASSUME NEW i \in Ids, ReplySent(i) PROVE Arrived(i)' \/ ReplySent(i)'
    <3>1. PICK c \in Nat : c > 0 /\ <<i, c>> \in data
      BY <2>4 DEF ReplySent
    <3>2. CASE <<i, c>> \in data'
      BY <3>1, <3>2 DEF ReplySent
    <3>3. CASE <<i, c>> \notin data'
      <4>1. i \in new
        BY <2>1, <3>1, <3>3
      <4> QED
        BY <2>2, <4>1 DEF Arrived
    <3> QED
      BY <3>2, <3>3
  <2> QED
    BY <1>0, <2>1, <2>3, <2>4 DEF PendingSent
<1>3. ASSUME NEW p \in data, LoseData(p) PROVE PendingSent'
  <2>1. /\ data' = data \ {p} /\ faulted' = faulted \cup Fault({p}, {})
        /\ UNCHANGED <<pending, next, buffered>>
    BY <1>3 DEF LoseData
  <2> SUFFICES ASSUME NEW i \in DOMAIN pending \ faulted' PROVE Arrived(i) \/ ReplySent(i)'
    BY <2>1 DEF PendingSent, Arrived
  <2>2. ASSUME NEW c \in Nat, c > 0, <<i, c>> \in data PROVE <<i, c>> \in data'
    <3>1. <<i, c>> # p
      <4> SUFFICES ASSUME <<i, c>> = p PROVE FALSE
        OBVIOUS
      <4>1. i \in Fault({p}, {})
        BY <2>2, FaultOfReply
      <4> QED
        BY <2>1, <4>1
    <3> QED
      BY <2>1, <2>2, <3>1
  <2>3. Arrived(i) \/ ReplySent(i)
    BY <2>1 DEF PendingSent
  <2> QED
    BY <2>2, <2>3 DEF ReplySent
<1>4. CASE /\ DOMAIN pending' \subseteq DOMAIN pending /\ data \subseteq data'
           /\ faulted \subseteq faulted' /\ UNCHANGED <<next, buffered>>
  BY <1>4 DEF PendingSent, Arrived, ReplySent
<1>5. \/ Resend \/ Receiver \/ (\E p \in data : LoseData(p))
      \/ /\ DOMAIN pending' \subseteq DOMAIN pending /\ data \subseteq data'
         /\ faulted \subseteq faulted' /\ UNCHANGED <<next, buffered>>
  BY StepCases
  DEF Send, NotifyArrives, ResendSkipped, ResendMiss, LoseNote, Tick
<1> QED
  BY <1>1, <1>2, <1>3, <1>4, <1>5

\* Every step keeps LateIsFault: when the gap timer runs out, what is still under way
\* counts as a fault.
LEMMA LateIsFaultKept ==
    ASSUME TypeOK, LateIsFault, [Next]_vars
    PROVE  LateIsFault'
<1> USE DEF sendVars, replyVars, recvVars, netVars, vars
<1>0. /\ data \subseteq Ids \X Nat /\ handling \in Seq(Ids)
  BY DEF TypeOK
<1>1. CASE Receiver
  <2>1. PICK new \in SUBSET Ids : Iterate(new)
    BY <1>1, ReceiverStep
  <2>2. ~Expired'
    BY <2>1, IterateFacts DEF RecvTypes, TypeOK
  <2> QED
    BY <2>2 DEF LateIsFault
<1>2. CASE Tick
  <2>1. /\ faulted' = faulted \cup Fault(data, notes) \cup Range(handling)
        /\ UNCHANGED <<data, notes, handling>>
    BY <1>2 DEF Tick
  <2>2. ASSUME NEW i \in Ids, UnderWay(i) PROVE i \in faulted'
    <3>1. CASE \E m \in notes : i \in Range(m.ids)
      BY <2>1, <3>1 DEF Fault
    <3>2. CASE i \in Range(handling)
      BY <2>1, <3>2
    <3>3. CASE ReplySent(i)
      <4>1. PICK c \in Nat : c > 0 /\ <<i, c>> \in data
        BY <3>3 DEF ReplySent
      <4>2. i \in {p[1] : p \in {q \in data : q[2] > 0}}
        BY <4>1
      <4> QED
        BY <2>1, <4>2 DEF Fault
    <3> QED
      BY <2>2, <3>1, <3>2, <3>3 DEF UnderWay
  <2> QED
    BY <2>1, <2>2 DEF LateIsFault, UnderWay, ReplySent
<1>3. ASSUME UNCHANGED <<gapActive, gapAge>>, faulted \subseteq faulted',
             \A i \in Ids : UnderWay(i)' => UnderWay(i)
      PROVE  LateIsFault'
  BY <1>3 DEF LateIsFault, Expired
<1>4. CASE Send
  <2>1. /\ data' = data \cup {<<lastId, 0>>}
        /\ UNCHANGED <<notes, handling, gapActive, gapAge, faulted>>
    BY <1>4 DEF Send
  <2>2. ASSUME NEW i, NEW c \in Nat, c > 0, <<i, c>> \in data' PROVE <<i, c>> \in data
    BY <2>1, <2>2
  <2> QED
    BY <1>3, <2>1, <2>2 DEF UnderWay, ReplySent
<1>5. ASSUME NEW m \in notes, NotifyArrives(m) PROVE LateIsFault'
  <2>1. /\ notes' \subseteq notes /\ handling' = m.ids
        /\ UNCHANGED <<gapActive, gapAge, data, faulted>>
    BY <1>5 DEF NotifyArrives
  <2> QED
    BY <1>3, <2>1 DEF UnderWay, ReplySent
<1>6. CASE ResendSkipped \/ ResendMiss
  <2>1. /\ handling # <<>> /\ handling' = Tail(handling)
        /\ faulted \subseteq faulted' /\ UNCHANGED <<gapActive, gapAge, data, notes>>
    BY <1>6 DEF ResendSkipped, ResendMiss
  <2>2. Range(handling') \subseteq Range(handling)
    BY <1>0, <2>1, RangeOfTail
  <2> QED
    BY <1>3, <2>1, <2>2 DEF UnderWay, ReplySent
<1>7. CASE Resend
  <2> DEFINE x == Head(handling)
  <2>1. /\ handling # <<>> /\ handling' = Tail(handling)
        /\ data' = data \cup {<<x, copies[x]>>}
        /\ UNCHANGED <<gapActive, gapAge, notes, faulted>>
    BY <1>7 DEF Resend
  <2>2. x \in Range(handling) /\ Range(handling') \subseteq Range(handling)
    BY <1>0, <2>1, RangeOfTail
  <2> HIDE DEF x
  <2>3. ASSUME NEW i \in Ids, UnderWay(i)' PROVE UnderWay(i)
    <3>1. ReplySent(i)' => ReplySent(i) \/ i = x
      BY <2>1 DEF ReplySent
    <3> QED
      BY <2>1, <2>2, <2>3, <3>1 DEF UnderWay
  <2> QED
    BY <1>3, <2>1, <2>3
<1>8. CASE (\E p \in data : LoseData(p)) \/ (\E m \in notes : LoseNote(m)) \/ UNCHANGED vars
  <2>1. /\ data' \subseteq data /\ notes' \subseteq notes /\ faulted \subseteq faulted'
        /\ UNCHANGED <<gapActive, gapAge, handling>>
    BY <1>8 DEF LoseData, LoseNote
  <2> QED
    BY <1>3, <2>1 DEF UnderWay, ReplySent
<1> QED
  BY <1>1, <1>2, <1>4, <1>5, <1>6, <1>7, <1>8, StepCases

\* Every step keeps SkippedPast.
LEMMA SkippedPastKept ==
    ASSUME TypeOK, SkippedPast, [Next]_vars
    PROVE  SkippedPast'
<1> USE DEF sendVars, replyVars, recvVars, netVars, vars
<1>0. next \in Nat /\ skipped \subseteq Ids /\ Ids \subseteq Nat
  BY ResendConstants DEF TypeOK, Ids
<1>1. CASE Receiver
  <2>1. PICK new \in SUBSET Ids : Iterate(new)
    BY <1>1, ReceiverStep
  <2>2. /\ next <= next' /\ next' \in Nat
        /\ \A i \in skipped' \ skipped : i < next'
    BY <2>1, IterateFacts DEF RecvTypes, TypeOK
  <2>3. ASSUME NEW i \in skipped PROVE i < next'
    BY <1>0, <2>2 DEF SkippedPast
  <2> QED
    BY <2>2, <2>3 DEF SkippedPast
<1>2. CASE UNCHANGED <<skipped, next>>
  BY <1>2 DEF SkippedPast
<1>3. Receiver \/ UNCHANGED <<skipped, next>>
  BY StepCases
  DEF Send, NotifyArrives, ResendSkipped, Resend, ResendMiss, LoseData, LoseNote, Tick
<1> QED
  BY <1>1, <1>2, <1>3

\* What the receiver gives up it has not got, and nothing is under way by then.
LEMMA RepairKept ==
    ASSUME TypeOK, NotLost, LateIsFault, SkippedPast, RepairWorks, [Next]_vars
    PROVE  RepairWorks'
<1> USE DEF sendVars, replyVars, recvVars, netVars, vars
<1>0. next \in Nat /\ skipped \subseteq Ids /\ Ids \subseteq Nat
  BY ResendConstants DEF TypeOK, Ids
<1>1. CASE Receiver
  <2>1. PICK new \in SUBSET Ids : Iterate(new) /\ UNCHANGED faulted
    BY <1>1, ReceiverStep
  <2>2. /\ Reports /\ skipped' \subseteq Ids
        /\ \A i \in skipped' \ skipped : Expired /\ next <= i /\ i \notin buffered
    BY <2>1, IterateFacts DEF RecvTypes, TypeOK
  <2>3. ASSUME NEW i \in skipped' \ skipped, i \in asked PROVE i \in faulted
    <3>1. Expired /\ i \in Ids /\ ~Arrived(i)
      BY <1>0, <2>2, <2>3 DEF Arrived
    <3> QED
      BY <2>3, <3>1 DEF NotLost, LateIsFault
  <2>4. ASSUME NEW i \in asked' \ asked PROVE i \notin skipped'
    <3>1. PICK ids \in Seq(Ids) :
             /\ asked' = asked \cup Range(ids) /\ skipped' = skipped
             /\ \A x \in Range(ids) : next <= x
      BY <2>2, <2>4 DEF Reports
    <3>2. next <= i
      BY <2>4, <3>1
    <3> SUFFICES ASSUME i \in skipped PROVE FALSE
      BY <3>1
    <3>3. i \in Nat /\ i < next
      BY <1>0 DEF SkippedPast
    <3> QED
      BY <1>0, <3>2, <3>3
  <2> QED
    BY <2>1, <2>3, <2>4 DEF RepairWorks
<1>2. CASE faulted \subseteq faulted' /\ UNCHANGED <<skipped, asked>>
  BY <1>2 DEF RepairWorks
<1>3. Receiver \/ (faulted \subseteq faulted' /\ UNCHANGED <<skipped, asked>>)
  BY StepCases
  DEF Send, NotifyArrives, ResendSkipped, Resend, ResendMiss, LoseData, LoseNote, Tick
<1> QED
  BY <1>1, <1>2, <1>3
------------------------------------------------------------------------------
IInv ==
    /\ TypeOK /\ CacheShape /\ Sent /\ Counted /\ AskedOnce /\ Reported
    /\ NotLost /\ PendingSent /\ LateIsFault /\ SkippedPast /\ RepairWorks

\* The invariant holds initially.
LEMMA InitHolds == Init => IInv
<1> SUFFICES ASSUME Init PROVE IInv
  OBVIOUS
<1> USE DEF Init
<1>0. /\ MaxId \in Nat /\ NShards \in Nat \ {0} /\ ShardCap \in Nat /\ ReorderTimeout \in Nat
      /\ ResendTtl \in Nat /\ MaxNotes \in Nat /\ MaxLosses \in Nat
  BY ResendConstants
<1>1. DOMAIN pending = {} /\ Range(handling) = {}
  BY RangeOfEmpty
<1>2. TypeOK
  <2>1. cache \in [Shards -> Seq(Ids)] /\ handling \in Seq(Ids)
    OBVIOUS
  <2>2. lastId \in 0..(MaxId + 1) /\ noteCount \in 0..MaxNotes /\ losses \in 0..MaxLosses
    BY <1>0
  <2>3. gapAge \in 0..ReorderTimeout /\ nowAge \in 0..ResendTtl
    BY <1>0
  <2> QED
    BY <1>1, <2>1, <2>2, <2>3 DEF TypeOK
<1>3. CacheShape
  <2> SUFFICES ASSUME NEW s \in Shards PROVE ShardHolds(s, 0)
    BY DEF CacheShape
  <2>1. s \in Nat /\ NShards * 0 = 0 /\ Kept(0) = 0
    BY <1>0 DEF Shards, Kept
  <2>2. cache[s] = <<>>
    OBVIOUS
  <2> QED
    BY <2>1, <2>2 DEF ShardHolds
<1>4. Sent /\ Counted
  BY <1>0, <1>1 DEF Sent, Counted, Ids
<1>5. AskedOnce /\ Reported
  BY DEF AskedOnce, Reported
<1>6. NotLost /\ PendingSent /\ LateIsFault /\ SkippedPast /\ RepairWorks
  BY <1>1 DEF NotLost, PendingSent, LateIsFault, Expired, SkippedPast, RepairWorks
<1> QED
  BY <1>2, <1>3, <1>4, <1>5, <1>6 DEF IInv

\* The invariant holds in every reachable state.
LEMMA Invariance == Spec => []IInv
<1>1. IInv /\ [Next]_vars => IInv'
  BY TypesKept, ShapeKept, SentKept, CountedKept, AskedOnceKept, ReportedKept, NotLostKept,
     PendingSentKept, LateIsFaultKept, SkippedPastKept, RepairKept DEF IInv
<1> QED
  BY <1>1, InitHolds, PTL DEF Spec

\* The state of both ends and of what is under way stays well typed: drain, skip
\* and the collection of missing ids (drainReceivedDataMap, checkReorderTimeout,
\* sendMissingNotifications) always find what they look for.
THEOREM ResendTypes == Spec => []TypeOK
BY Invariance, PTL DEF IInv

\* SentDataCache holds each of the last NShards * ShardCap packets, for every
\* number of shards and every capacity.
THEOREM CacheCovers == Spec => []CacheWindow
<1>1. IInv => CacheWindow
  BY ShapeCovers DEF IInv
<1> QED
  BY <1>1, Invariance, PTL

\* A packet is put on the wire at most once more than its id was asked for, and
\* it is asked for once while the receiver remembers that it did
\* (processMissingNotify, sendMissingNotifications).
THEOREM ResendsBounded == Spec => []ResendBounded
<1>1. IInv => ResendBounded
  <2> SUFFICES ASSUME IInv, NEW id \in Ids
               PROVE  copies[id] <= 1 + asks[id] /\ (asks[id] > 1 => id \in forgotten)
    BY DEF ResendBounded
  <2>1. asks[id] \in Nat
    BY DEF IInv, TypeOK
  <2> QED
    BY <2>1 DEF IInv, Counted, AskedOnce
<1> QED
  BY <1>1, Invariance, PTL

\* An id that was reported and then given up met a fault: with whatever bounds,
\* timeouts and interleavings, the protocol itself loses no message.
THEOREM RepairHolds == Spec => []RepairWorks
BY Invariance, PTL DEF IInv
==============================================================================
