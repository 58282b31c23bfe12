-------------------------- MODULE SessionStoreProofs --------------------------
(***************************************************************************)
(* Proofs about SessionStore, for any callers, ids, TTLs, limits and any   *)
(* bound of the clock.                                                     *)
(***************************************************************************)
EXTENDS SessionStoreInTurn, SequenceTheorems, FiniteSetTheorems,
        FunctionTheorems, WellFoundedInduction, TLAPS

(* No two positions of a list hold the same session. *)
NoRepeat(list) == \A i, j \in 1 .. Len(list) : list[i] = list[j] => i = j

-------------------------------------------------------------------------------
(* The backward scan of evictExpiredLocked always stops at one place:      *)
(* LastFresh is a position of the list, or 0 when all of it has expired.   *)
LEMMA LastFreshProperties ==
    ASSUME NEW list \in Seq(Ids), NEW used \in [Ids -> Nat],
           NEW life \in Int, NEW t \in Int
    PROVE  LET k == LastFresh(list, used, life, t)
           IN  /\ k \in 0 .. Len(list)
               /\ k > 0 => t - used[list[k]] <= life
               /\ \A i \in (k + 1) .. Len(list) : t - used[list[i]] > life
<1> DEFINE Expired(i) == t - used[list[i]] > life
           Cut == {k \in 0 .. Len(list) : \A i \in (k + 1) .. Len(list) : Expired(i)}
<1>1. Len(list) \in Nat /\ \A i \in 1 .. Len(list) : list[i] \in Ids
  BY LenProperties, ElementOfSeq
<1>2. Cut \subseteq Nat /\ Len(list) \in Cut
  BY <1>1, SMT
<1>3. PICK k \in Cut : \A j \in Cut : ~ (<<j, k>> \in OpToRel(<, Nat))
  <2> HIDE DEF Cut
  <2>1. Cut # {}
    BY <1>2
  <2> QED
    BY <1>2, <2>1, NatLessThanWellFounded, WFMin
<1>4. \A j \in Cut : ~ (j < k)
  BY <1>2, <1>3 DEF OpToRel
<1>5. k > 0 => ~ Expired(k)
  <2> SUFFICES ASSUME k > 0, Expired(k) PROVE FALSE
    OBVIOUS
  <2>1. k - 1 \in Cut
    BY <1>1, SMT
  <2>2. k \in Nat
    BY <1>2
  <2>3. ~ (k - 1 < k)
    BY <1>4, <2>1
  <2> QED
    BY <2>2, <2>3, SMT
<1>6. k > 0 => t - used[list[k]] <= life
  <2> SUFFICES ASSUME k > 0 PROVE t - used[list[k]] <= life
    OBVIOUS
  <2>1. used[list[k]] \in Nat
    BY <1>1, SMT
  <2> QED
    BY <1>5, <2>1, SMT
<1> QED
  BY <1>6 DEF LastFresh

(* kept is a front part of list: what both evictions leave. *)
FrontOf(kept, list) == \E k \in 0 .. Len(list) : kept = SubSeq(list, 1, k)

(* A front part of a list holds its first sessions, in the same order. *)
LEMMA FrontProperties ==
    ASSUME NEW list \in Seq(Ids), NEW kept, FrontOf(kept, list)
    PROVE  /\ kept \in Seq(Ids)
           /\ Len(kept) <= Len(list)
           /\ \A i \in 1 .. Len(kept) : kept[i] = list[i]
           /\ Range(kept) \subseteq Range(list)
           /\ NoRepeat(list) => NoRepeat(kept)
<1>1. Len(list) \in Nat /\ \A i \in 1 .. Len(list) : list[i] \in Ids
  BY LenProperties, ElementOfSeq
<1>2. PICK k \in 0 .. Len(list) : kept = SubSeq(list, 1, k)
  BY DEF FrontOf
<1>3. /\ kept \in Seq(Ids)
      /\ Len(kept) = IF 1 <= k THEN k - 1 + 1 ELSE 0
      /\ \A i \in 1 .. k - 1 + 1 : kept[i] = list[1 + i - 1]
  <2>1. 1 \in Int /\ k \in Int /\ \A i \in 1 .. k : list[i] \in Ids
    BY <1>1, <1>2, SMT
  <2> QED
    BY <1>2, <2>1, SubSeqProperties, SMTT(20)
<1>4. Len(kept) = k /\ \A i \in 1 .. k : kept[i] = list[i]
  BY <1>1, <1>2, <1>3, SMT
<1>5. Range(kept) = {kept[i] : i \in 1 .. Len(kept)} /\ Range(list) = {list[i] : i \in 1 .. Len(list)}
  BY <1>3, RangeEquality, Zenon
<1> QED
  BY <1>1, <1>2, <1>3, <1>4, <1>5, SMT DEF NoRepeat

(* evictExpiredLocked cuts the list at one place. *)
LEMMA KeepUnexpiredFront ==
    ASSUME NEW list \in Seq(Ids), NEW used \in [Ids -> Nat],
           NEW life \in Int, NEW t \in Int
    PROVE  FrontOf(KeepUnexpired(list, used, life, t), list)
<1>1. Len(list) \in 0 .. Len(list) /\ SubSeq(list, 1, Len(list)) = list
  BY LenProperties, SubSeqFull, SMT
<1>2. LastFresh(list, used, life, t) \in 0 .. Len(list)
  BY LastFreshProperties
<1> QED
  BY <1>1, <1>2 DEF FrontOf, KeepUnexpired

(* evictOverLimitLocked cuts the list at the limit. *)
LEMMA KeepWithinLimitFront ==
    ASSUME NEW list \in Seq(Ids), NEW limit \in Int
    PROVE  /\ FrontOf(KeepWithinLimit(list, limit), list)
           /\ limit > 0 => Len(KeepWithinLimit(list, limit)) <= limit
           /\ limit > 0 /\ Len(list) > limit => Len(KeepWithinLimit(list, limit)) = limit
           /\ limit <= 0 \/ Len(list) <= limit => KeepWithinLimit(list, limit) = list
<1>1. Len(list) \in Nat /\ SubSeq(list, 1, Len(list)) = list
  BY LenProperties, SubSeqFull
<1>2. CASE limit <= 0 \/ Len(list) <= limit
  <2>1. KeepWithinLimit(list, limit) = list
    BY <1>2, SMTT(60) DEF KeepWithinLimit
  <2>2. Len(list) \in 0 .. Len(list)
    BY <1>1, SMT
  <2>3. FrontOf(list, list)
    BY <1>1, <2>2, ZenonT(60) DEF FrontOf
  <2> QED
    <3>1. limit > 0 => Len(list) <= limit /\ ~ (Len(list) > limit)
      BY <1>1, <1>2, SMT
    <3> QED
      BY <2>1, <2>3, <3>1
<1>3. CASE limit > 0 /\ Len(list) > limit
  <2>1. KeepWithinLimit(list, limit) = SubSeq(list, 1, limit)
    BY <1>1, <1>3, SMT DEF KeepWithinLimit
  <2>2. limit \in 0 .. Len(list)
    BY <1>1, <1>3, SMT
  <2>3. Len(SubSeq(list, 1, limit)) = limit
    <3>1. \A i \in 1 .. limit : list[i] \in Ids
      BY <1>1, <1>3, ElementOfSeq, SMT
    <3>2. Len(SubSeq(list, 1, limit)) = IF 1 <= limit THEN limit - 1 + 1 ELSE 0
      BY <3>1, SubSeqProperties, SMT
    <3> QED
      BY <1>3, <3>2, SMT
  <2> QED
    BY <1>3, <2>1, <2>2, <2>3, SMT DEF FrontOf
<1> QED
  BY <1>1, <1>2, <1>3, SMT

(* list.PushFront puts one session before the others. *)
LEMMA PushProperties ==
    ASSUME NEW list \in Seq(Ids), NEW id \in Ids
    PROVE  /\ <<id>> \o list \in Seq(Ids)
           /\ Len(<<id>> \o list) = Len(list) + 1
           /\ (<<id>> \o list)[1] = id
           /\ \A i \in 1 .. Len(list) : (<<id>> \o list)[i + 1] = list[i]
           /\ Range(<<id>> \o list) = {id} \cup Range(list)
           /\ NoRepeat(list) /\ id \notin Range(list) => NoRepeat(<<id>> \o list)
<1> DEFINE one == <<id>>
           pushed == one \o list
<1>1. one \in Seq(Ids) /\ Len(one) = 1 /\ one[1] = id
  OBVIOUS
<1> HIDE DEF one
<1>2. Len(list) \in Nat
  BY LenProperties
<1>3. /\ pushed \in Seq(Ids)
      /\ Len(pushed) = 1 + Len(list)
      /\ \A i \in 1 .. 1 + Len(list) : pushed[i] = IF i <= 1 THEN one[i] ELSE list[i - 1]
  <2>1. /\ pushed \in Seq(Ids)
        /\ Len(pushed) = Len(one) + Len(list)
        /\ \A i \in 1 .. Len(one) + Len(list) :
              pushed[i] = IF i <= Len(one) THEN one[i] ELSE list[i - Len(one)]
    BY <1>1, ConcatProperties, Zenon
  <2> QED
    BY <1>1, <2>1
<1>4. pushed[1] = id /\ \A i \in 1 .. Len(list) : pushed[i + 1] = list[i]
  <2>1. pushed[1] = id
    BY <1>1, <1>2, <1>3, SMT
  <2>2. ASSUME NEW i \in 1 .. Len(list) PROVE pushed[i + 1] = list[i]
    <3> HIDE DEF pushed
    <3>1. i + 1 \in 1 .. 1 + Len(list) /\ ~ (i + 1 <= 1) /\ (i + 1) - 1 = i
      BY <1>2, SMT
    <3> QED
      BY <1>3, <3>1, Zenon
  <2> QED
    BY <2>1, <2>2
<1>5. Range(one) = {id}
  <2>1. Range(one) = {one[i] : i \in 1 .. Len(one)}
    BY <1>1, RangeEquality, Zenon
  <2> QED
    BY <1>1, <2>1, SMT
<1>6. Range(pushed) = {id} \cup Range(list)
  <2>1. Range(one \o list) = Range(one) \cup Range(list)
    BY <1>1, RangeConcatenation, SMT
  <2> QED
    BY <1>5, <2>1
<1>7. ASSUME NoRepeat(list), id \notin Range(list) PROVE NoRepeat(pushed)
  <2>1. \A i \in 1 .. Len(list) : list[i] # id
    BY <1>7, RangeEquality, SMT
  <2> HIDE DEF pushed
  <2>2. ASSUME NEW i \in 1 .. Len(pushed), NEW j \in 1 .. Len(pushed), pushed[i] = pushed[j]
        PROVE  i = j
    <3>1. i = 1 \/ (i - 1 \in 1 .. Len(list) /\ pushed[i] = list[i - 1])
      BY <1>2, <1>3, SMT
    <3>2. j = 1 \/ (j - 1 \in 1 .. Len(list) /\ pushed[j] = list[j - 1])
      BY <1>2, <1>3, SMT
    <3>3. CASE i = 1
      BY <1>4, <2>1, <2>2, <3>2, <3>3
    <3>4. CASE j = 1
      BY <1>4, <2>1, <2>2, <3>1, <3>4
    <3>5. CASE i # 1 /\ j # 1
      <4>1. i - 1 = j - 1
        BY <1>7, <2>2, <3>1, <3>2, <3>5 DEF NoRepeat
      <4> QED
        BY <1>2, <1>3, <4>1, SMT
    <3> QED
      BY <3>3, <3>4, <3>5
  <2> QED
    BY <2>2 DEF NoRepeat
<1>8. Len(pushed) = Len(list) + 1
  BY <1>2, <1>3, SMT
<1> QED
  BY <1>3, <1>4, <1>6, <1>7, <1>8 DEF one

(* list.Remove closes the gap that the entry leaves. *)
LEMMA WithoutInDetail ==
    ASSUME NEW list \in Seq(Ids), NEW id \in Range(list)
    PROVE  LET p == Position(list, id)
               rest == Without(list, id)
           IN  /\ p \in 1 .. Len(list) /\ list[p] = id
               /\ rest \in Seq(Ids)
               /\ Len(rest) = Len(list) - 1
               /\ \A i \in 1 .. Len(list) - 1 : rest[i] = IF i < p THEN list[i] ELSE list[i + 1]
<1> DEFINE p == Position(list, id)
           front == SubSeq(list, 1, p - 1)
           back == SubSeq(list, p + 1, Len(list))
           rest == Without(list, id)
<1>1. Len(list) \in Nat /\ \A i \in 1 .. Len(list) : list[i] \in Ids
  BY LenProperties, ElementOfSeq
<1>2. Range(list) = {list[i] : i \in 1 .. Len(list)}
  BY RangeEquality, Zenon
<1>3. p \in 1 .. Len(list) /\ list[p] = id
  BY <1>2 DEF Position
<1>4. rest = front \o back
  BY DEF Without, RemoveAt
<1> HIDE DEF p
<1>5. /\ front \in Seq(Ids)
      /\ Len(front) = p - 1
      /\ \A i \in 1 .. p - 1 : front[i] = list[i]
  <2>1. p - 1 \in 0 .. Len(list)
    BY <1>1, <1>3, SMT
  <2>2. FrontOf(front, list)
    BY <2>1 DEF FrontOf
  <2>3. Len(front) = IF 1 <= p - 1 THEN (p - 1) - 1 + 1 ELSE 0
    BY <1>1, <1>3, <2>1, SubSeqProperties, SMT
  <2> QED
    BY <1>1, <1>3, <2>2, <2>3, FrontProperties, SMT
<1>6. /\ back \in Seq(Ids)
      /\ Len(back) = Len(list) - p
      /\ \A i \in 1 .. Len(list) - p : back[i] = list[p + i]
  <2> DEFINE a == p + 1
             b == Len(list)
  <2>1. a \in Int /\ b \in Int /\ \A i \in a .. b : list[i] \in Ids
    BY <1>1, <1>3, SMT
  <2>2. /\ SubSeq(list, a, b) \in Seq(Ids)
        /\ Len(SubSeq(list, a, b)) = IF a <= b THEN b - a + 1 ELSE 0
        /\ \A i \in 1 .. b - a + 1 : SubSeq(list, a, b)[i] = list[a + i - 1]
    <3> HIDE DEF a, b
    <3> QED
      BY <2>1, SubSeqProperties, SMTT(20)
  <2>3. ASSUME NEW i \in 1 .. Len(list) - p PROVE back[i] = list[p + i]
    <3>1. i \in 1 .. b - a + 1 /\ a + i - 1 = p + i
      BY <1>1, <1>3, SMT
    <3> QED
      BY <2>2, <3>1
  <2>4. (IF a <= b THEN b - a + 1 ELSE 0) = Len(list) - p
    BY <1>1, <1>3, SMT
  <2> QED
    BY <2>2, <2>3, <2>4
<1> HIDE DEF front, back
<1>7. /\ rest \in Seq(Ids)
      /\ Len(rest) = Len(list) - 1
      /\ \A i \in 1 .. Len(list) - 1 : rest[i] = IF i <= p - 1 THEN front[i] ELSE back[i - (p - 1)]
  <2>1. /\ front \o back \in Seq(Ids)
        /\ Len(front \o back) = Len(front) + Len(back)
        /\ \A i \in 1 .. Len(front) + Len(back) : (front \o back)[i] =
              IF i <= Len(front) THEN front[i] ELSE back[i - Len(front)]
    BY <1>5, <1>6, ConcatProperties, Zenon
  <2>2. Len(front) + Len(back) = Len(list) - 1
    BY <1>1, <1>3, <1>5, <1>6, SMT
  <2> QED
    BY <1>4, <1>5, <2>1, <2>2
<1> HIDE DEF rest
<1>8. \A i \in 1 .. Len(list) - 1 : rest[i] = IF i < p THEN list[i] ELSE list[i + 1]
  BY <1>1, <1>3, <1>5, <1>6, <1>7, SMT
<1> QED
  BY <1>3, <1>7, <1>8 DEF p, rest

(* list.Remove takes exactly one entry out. *)
LEMMA WithoutProperties ==
    ASSUME NEW list \in Seq(Ids), NEW id \in Range(list), NoRepeat(list)
    PROVE  /\ Without(list, id) \in Seq(Ids)
           /\ Len(Without(list, id)) = Len(list) - 1
           /\ Range(Without(list, id)) = Range(list) \ {id}
           /\ NoRepeat(Without(list, id))
<1> DEFINE p == Position(list, id)
           rest == Without(list, id)
<1>1. Len(list) \in Nat /\ \A i \in 1 .. Len(list) : list[i] \in Ids
  BY LenProperties, ElementOfSeq
<1>2. Range(list) = {list[i] : i \in 1 .. Len(list)}
  BY RangeEquality, Zenon
<1>3. p \in 1 .. Len(list) /\ list[p] = id
  BY WithoutInDetail
<1>4. /\ rest \in Seq(Ids)
      /\ Len(rest) = Len(list) - 1
  BY WithoutInDetail
<1>5. \A i \in 1 .. Len(list) - 1 : rest[i] = IF i < p THEN list[i] ELSE list[i + 1]
  BY WithoutInDetail
<1> HIDE DEF p, rest
<1>6. Range(rest) = {rest[i] : i \in 1 .. Len(rest)}
  BY <1>4, RangeEquality, Zenon
<1>7. Range(rest) = Range(list) \ {id}
  <2>1. ASSUME NEW i \in 1 .. Len(rest) PROVE rest[i] \in Range(list) \ {id}
    <3>1. i \in 1 .. Len(list) - 1 /\ rest[i] = IF i < p THEN list[i] ELSE list[i + 1]
      BY <1>4, <1>5
    <3>2. (IF i < p THEN i ELSE i + 1) \in 1 .. Len(list) /\ (IF i < p THEN i ELSE i + 1) # p
      BY <1>1, <1>3, <3>1, SMT
    <3>3. PICK j \in 1 .. Len(list) : j # p /\ rest[i] = list[j]
      BY <3>1, <3>2, SMT
    <3>4. list[j] # id
      BY <1>3, <3>3 DEF NoRepeat
    <3> QED
      <4>1. list[j] \in Range(list)
        BY <1>2
      <4> QED
        BY <3>3, <3>4, <4>1
  <2>2. ASSUME NEW i \in 1 .. Len(list), i # p PROVE list[i] \in Range(rest)
    <3>1. CASE i < p
      <4>1. i \in 1 .. Len(list) - 1
        BY <1>1, <1>3, <3>1, SMT
      <4>2. i \in 1 .. Len(rest) /\ rest[i] = list[i]
        BY <1>4, <1>5, <3>1, <4>1
      <4> QED
        BY <1>6, <4>2
    <3>2. CASE i > p
      <4>1. i - 1 \in 1 .. Len(list) - 1 /\ ~ (i - 1 < p) /\ (i - 1) + 1 = i
        BY <1>1, <1>3, <3>2, SMT
      <4>2. i - 1 \in 1 .. Len(rest) /\ rest[i - 1] = list[i]
        BY <1>4, <1>5, <4>1
      <4> QED
        BY <1>6, <4>2
    <3> QED
      BY <1>1, <1>3, <2>2, <3>1, <3>2, SMT
  <2> QED
    BY <1>2, <1>3, <1>6, <2>1, <2>2
<1>8. NoRepeat(rest)
  BY <1>1, <1>3, <1>4, <1>5, SMT DEF NoRepeat
<1> QED
  BY <1>4, <1>7, <1>8 DEF rest

(* list.MoveToFront keeps the sessions of the list, each once. *)
LEMMA MoveToFrontProperties ==
    ASSUME NEW list \in Seq(Ids), NEW id \in Range(list), NoRepeat(list)
    PROVE  /\ MoveToFront(list, id) \in Seq(Ids)
           /\ Len(MoveToFront(list, id)) = Len(list)
           /\ Range(MoveToFront(list, id)) = Range(list)
           /\ NoRepeat(MoveToFront(list, id))
<1>1. id \in Ids /\ Len(list) \in Nat
  BY RangeOfSeq, LenProperties, SMT
<1>2. /\ Without(list, id) \in Seq(Ids)
      /\ Len(Without(list, id)) = Len(list) - 1
      /\ Range(Without(list, id)) = Range(list) \ {id}
      /\ NoRepeat(Without(list, id))
  BY WithoutProperties
<1>3. /\ MoveToFront(list, id) \in Seq(Ids)
      /\ Len(MoveToFront(list, id)) = Len(Without(list, id)) + 1
      /\ Range(MoveToFront(list, id)) = {id} \cup Range(Without(list, id))
      /\ NoRepeat(MoveToFront(list, id))
  BY <1>1, <1>2, PushProperties DEF MoveToFront
<1> QED
  BY <1>1, <1>2, <1>3, SMT

-------------------------------------------------------------------------------
(* The inductive invariant.  SizeWithinLimit speaks of the map, but it is  *)
(* the list that is cut, so the limit is carried on the list.              *)
LimitOnList == maxSessions > 0 => Len(lru) <= maxSessions

(* No use is dated after the present, nor is a captured now: an entry that *)
(* is expired for a late caller is expired by the clock as well.           *)
NoFutureUse == /\ \A id \in Ids : lastUsed[id] <= clock
               /\ \A c \in Callers : call[c].at <= clock

(* Get checks the closed flag only of a session that was found. *)
CheckedWasCreated ==
    \A c \in Callers : call[c].op = "check" => call[c].id \in created

IInv == /\ TypeOK
        /\ MapMatchesList
        /\ ClosedExactlyWhenGone
        /\ LimitOnList
        /\ NoFutureUse
        /\ CheckedWasCreated

(* What any eviction that leaves a front part of the list establishes. *)
LEMMA EvictionFacts ==
    ASSUME IInv, NEW kept, FrontOf(kept, lru)
    PROVE  /\ kept \in Seq(Ids)
           /\ Len(kept) <= Len(lru)
           /\ NoRepeat(kept)
           /\ Range(kept) \subseteq m
           /\ Dropped(lru, kept) \subseteq m
           /\ Range(kept) = m \ Dropped(lru, kept)
           /\ maxSessions > 0 => Len(kept) <= maxSessions
<1>1. lru \in Seq(Ids) /\ NoRepeat(lru) /\ Range(lru) = m /\ maxSessions \in Nat
  BY DEF IInv, TypeOK, MapMatchesList, NoRepeat
<1>2. /\ kept \in Seq(Ids)
      /\ Len(kept) <= Len(lru)
      /\ Range(kept) \subseteq Range(lru)
      /\ NoRepeat(kept)
  BY <1>1, FrontProperties
<1>3. Len(kept) \in Nat /\ Len(lru) \in Nat
  BY <1>1, <1>2, LenProperties
<1>4. maxSessions > 0 => Len(kept) <= maxSessions
  BY <1>1, <1>2, <1>3, SMT DEF IInv, LimitOnList
<1> QED
  BY <1>1, <1>2, <1>4 DEF Dropped

(* The list an expired-eviction leaves is a front part of lru. *)
LEMMA UnexpiredFacts ==
    ASSUME IInv, NEW life \in Int, NEW t \in Int
    PROVE  FrontOf(KeepUnexpired(lru, lastUsed, life, t), lru)
BY KeepUnexpiredFront DEF IInv, TypeOK

(* NewSession leaves the new session first, then a front part of the old   *)
(* list, within the limit.                                                 *)
LEMMA PushedFacts ==
    ASSUME IInv, NEW id \in Ids \ created, NEW t \in Int
    PROVE  /\ Pushed(id, t) \in Seq(Ids)
           /\ NoRepeat(Pushed(id, t))
           /\ Range(Pushed(id, t)) \subseteq m \cup {id}
           /\ id \in Range(Pushed(id, t))
           /\ maxSessions > 0 => Len(Pushed(id, t)) <= maxSessions
<1> DEFINE fresh == KeepUnexpired(lru, lastUsed, ttl, t)
           kept == KeepWithinLimit(fresh, maxSessions)
           all == <<id>> \o kept
           final == KeepWithinLimit(all, maxSessions)
<1>1. /\ ttl \in Nat /\ maxSessions \in Nat /\ lastUsed \in [Ids -> Nat]
      /\ id \in Ids /\ id \notin m
      /\ Range(lru) = m /\ lru \in Seq(Ids) /\ NoRepeat(lru)
  BY DEF IInv, TypeOK, ClosedExactlyWhenGone, MapMatchesList, NoRepeat
<1>2. /\ fresh \in Seq(Ids)
      /\ NoRepeat(fresh)
      /\ Range(fresh) \subseteq m
  <2>1. FrontOf(fresh, lru)
    BY <1>1, UnexpiredFacts
  <2> QED
    BY <1>1, <2>1, FrontProperties
<1>3. /\ kept \in Seq(Ids)
      /\ NoRepeat(kept)
      /\ Range(kept) \subseteq m
  <2> HIDE DEF fresh
  <2>1. FrontOf(kept, fresh)
    BY <1>1, <1>2, KeepWithinLimitFront
  <2> QED
    BY <1>2, <2>1, FrontProperties
<1>4. /\ all \in Seq(Ids)
      /\ NoRepeat(all)
      /\ Range(all) = {id} \cup Range(kept)
      /\ Len(all) = Len(kept) + 1
      /\ all[1] = id
  <2> HIDE DEF kept
  <2>1. id \notin Range(kept)
    BY <1>1, <1>3
  <2> QED
    BY <1>1, <1>3, <2>1, PushProperties
<1>5. /\ final \in Seq(Ids)
      /\ NoRepeat(final)
      /\ Range(final) \subseteq m \cup {id}
      /\ maxSessions > 0 => Len(final) <= maxSessions
      /\ final[1] = all[1]
      /\ 1 \in 1 .. Len(final)
  <2> HIDE DEF all
  <2>1. /\ FrontOf(final, all)
        /\ maxSessions > 0 => Len(final) <= maxSessions
        /\ maxSessions > 0 /\ Len(all) > maxSessions => Len(final) = maxSessions
        /\ maxSessions <= 0 \/ Len(all) <= maxSessions => final = all
    BY <1>1, <1>4, KeepWithinLimitFront
  <2> HIDE DEF final
  <2>2. /\ final \in Seq(Ids)
        /\ \A i \in 1 .. Len(final) : final[i] = all[i]
        /\ Range(final) \subseteq Range(all)
        /\ NoRepeat(final)
    BY <1>4, <2>1, FrontProperties
  <2>3. Len(kept) \in Nat /\ Len(final) \in Nat
    BY <1>3, <2>2, LenProperties
  <2>4. 1 \in 1 .. Len(final)
    BY <1>1, <1>4, <2>1, <2>3, SMT
  <2> QED
    BY <1>3, <1>4, <2>1, <2>2, <2>4
<1>6. id \in Range(final)
  <2> HIDE DEF final
  <2> QED
    BY <1>4, <1>5, RangeEquality
<1> QED
  BY <1>5, <1>6 DEF Pushed

-------------------------------------------------------------------------------
(* NewSessionStore establishes the invariant. *)
LEMMA InitEstablishes == Init => IInv
<1> SUFFICES ASSUME Init PROVE IInv
  OBVIOUS
<1> USE StoreAssumption DEF Init
<1>1. TypeOK
  <2>1. << >> \in Seq(Ids)
    OBVIOUS
  <2>2. Idle \in Calls /\ NoAnswer \in Answers
    BY DEF Idle, Calls, NoAnswer, Answers, MaybeId
  <2> QED
    BY <2>1, <2>2 DEF TypeOK
<1>2. MapMatchesList
  <2>1. lru \in Seq(Ids) /\ Len(lru) = 0 /\ m = {}
    BY <1>1 DEF TypeOK
  <2> HIDE DEF Init
  <2>2. Range(lru) = {lru[i] : i \in 1 .. Len(lru)}
    BY <2>1, RangeEquality, Zenon
  <2> QED
    BY <2>1, <2>2, SMT DEF MapMatchesList
<1>3. ClosedExactlyWhenGone
  BY DEF ClosedExactlyWhenGone
<1>4. LimitOnList
  BY SMT DEF LimitOnList
<1>5. NoFutureUse
  BY DEF NoFutureUse, Idle
<1>6. CheckedWasCreated
  BY DEF CheckedWasCreated, Idle
<1> QED
  BY <1>1, <1>2, <1>3, <1>4, <1>5, <1>6 DEF IInv

(* Every operation, interleaved in any way, preserves the invariant. *)
LEMMA StepPreserves == IInv /\ [Next]_vars => IInv'
<1> SUFFICES ASSUME IInv, [Next]_vars PROVE IInv'
  OBVIOUS
<1> USE StoreAssumption
<1>t. TypeOK
  BY DEF IInv
<1>0. Idle \in Calls /\ NoAnswer \in Answers
  BY DEF Idle, Calls, NoAnswer, Answers, MaybeId
<1>1. ASSUME NEW c \in Callers, BeginNew(c) PROVE IInv'
  <2>1. TypeOK'
    BY <1>t, <1>0, <1>1 DEF BeginNew, TypeOK, storeVars, policyVars, Calls, MaybeId
  <2>2. NoFutureUse'
    BY <1>t, <1>1, SMT DEF BeginNew, IInv, NoFutureUse, TypeOK, storeVars, policyVars
  <2>3. CheckedWasCreated'
    BY <1>t, <1>1 DEF BeginNew, IInv, CheckedWasCreated, TypeOK, storeVars, policyVars
  <2> QED
    BY <1>1, <2>1, <2>2, <2>3 DEF BeginNew, IInv, MapMatchesList, ClosedExactlyWhenGone,
        LimitOnList, storeVars, policyVars
<1>2. ASSUME NEW c \in Callers, NEW id \in Ids, BeginGet(c, id) PROVE IInv'
  <2>1. TypeOK'
    BY <1>t, <1>0, <1>2 DEF BeginGet, TypeOK, storeVars, policyVars, Calls, MaybeId
  <2>2. NoFutureUse'
    BY <1>t, <1>2, SMT DEF BeginGet, IInv, NoFutureUse, TypeOK, storeVars, policyVars
  <2>3. CheckedWasCreated'
    BY <1>t, <1>2 DEF BeginGet, IInv, CheckedWasCreated, TypeOK, storeVars, policyVars
  <2> QED
    BY <1>2, <2>1, <2>2, <2>3 DEF BeginGet, IInv, MapMatchesList, ClosedExactlyWhenGone,
        LimitOnList, storeVars, policyVars
<1>3. ASSUME NEW c \in Callers, NewSessionLocked(c) PROVE IInv'
  <2>1. PICK id \in Ids \ created :
          /\ lru' = Pushed(id, call[c].at)
          /\ m' = (m \cup {id}) \ ((Range(lru) \cup {id}) \ Range(Pushed(id, call[c].at)))
          /\ closed' = closed \cup ((Range(lru) \cup {id}) \ Range(Pushed(id, call[c].at)))
          /\ created' = created \cup {id}
          /\ lastUsed' = [lastUsed EXCEPT ![id] = call[c].at]
          /\ Return(c, "new", id)
    BY <1>3 DEF NewSessionLocked
  <2> DEFINE kept == Pushed(id, call[c].at)
  <2>2. call[c].at \in Nat /\ call[c].at <= clock
    BY <1>t DEF IInv, NoFutureUse, TypeOK, Calls
  <2>3. /\ kept \in Seq(Ids)
        /\ NoRepeat(kept)
        /\ Range(kept) \subseteq m \cup {id}
        /\ id \in Range(kept)
        /\ maxSessions > 0 => Len(kept) <= maxSessions
    BY <2>2, PushedFacts
  <2>4. Range(lru) = m
    BY DEF IInv, MapMatchesList
  <2>5. ttl' = ttl /\ maxSessions' = maxSessions /\ clock' = clock
    BY <1>3 DEF NewSessionLocked, policyVars
  <2>6. answer' = [answer EXCEPT ![c] = [kind |-> "new", id |-> id]] /\ call' = [call EXCEPT ![c] = Idle]
    BY <2>1 DEF Return
  <2> HIDE DEF kept
  <2>7. lru' = kept /\ m' = Range(kept) /\ closed' = closed \cup (m \ Range(kept))
    BY <2>1, <2>3, <2>4 DEF kept
  <2>8. TypeOK'
    <3>1. [kind |-> "new", id |-> id] \in Answers
      BY DEF Answers, MaybeId
    <3>2. answer' \in [Callers -> Answers] /\ call' \in [Callers -> Calls]
      BY <1>t, <1>0, <2>6, <3>1 DEF TypeOK
    <3>3. lastUsed' \in [Ids -> Nat]
      BY <1>t, <2>1, <2>2 DEF TypeOK
    <3> QED
      BY <1>t, <2>1, <2>3, <2>5, <2>7, <3>2, <3>3 DEF TypeOK
  <2>9. MapMatchesList'
    BY <2>3, <2>7 DEF MapMatchesList, NoRepeat
  <2>10. ClosedExactlyWhenGone'
    BY <2>1, <2>3, <2>7 DEF IInv, ClosedExactlyWhenGone
  <2>11. LimitOnList'
    BY <2>3, <2>5, <2>7 DEF LimitOnList
  <2>12. NoFutureUse'
    BY <1>t, <2>1, <2>2, <2>5, <2>6, SMT DEF IInv, NoFutureUse, TypeOK, Idle
  <2>13. CheckedWasCreated'
    BY <1>t, <2>1, <2>6 DEF IInv, CheckedWasCreated, TypeOK, Idle
  <2> QED
    BY <2>8, <2>9, <2>10, <2>11, <2>12, <2>13 DEF IInv
<1>4. ASSUME NEW c \in Callers, GetHit(c) PROVE IInv'
  <2> DEFINE id == call[c].id
             kept == KeepUnexpired(lru, lastUsed, ttl, call[c].at)
  <2>1. call[c].at \in Nat /\ call[c].at <= clock /\ ttl \in Nat
    BY <1>t DEF IInv, NoFutureUse, TypeOK, Calls
  <2>2. /\ kept \in Seq(Ids)
        /\ NoRepeat(kept)
        /\ Range(kept) = m \ Dropped(lru, kept)
        /\ Dropped(lru, kept) \subseteq m
        /\ maxSessions > 0 => Len(kept) <= maxSessions
    <3>1. FrontOf(kept, lru)
      BY <2>1, UnexpiredFacts
    <3> HIDE DEF kept
    <3> QED
      BY <3>1, EvictionFacts
  <2>3. /\ id \in Range(kept)
        /\ m' = m \ Dropped(lru, kept)
        /\ closed' = closed \cup Dropped(lru, kept)
        /\ lru' = MoveToFront(kept, id)
        /\ lastUsed' = [lastUsed EXCEPT ![id] = call[c].at]
        /\ call' = [call EXCEPT ![c].op = "check"]
        /\ created' = created /\ ttl' = ttl /\ maxSessions' = maxSessions
        /\ clock' = clock /\ answer' = answer
    BY <1>4, <2>2 DEF GetHit, Close, policyVars
  <2> HIDE DEF kept
  <2>4. /\ lru' \in Seq(Ids)
        /\ Len(lru') = Len(kept)
        /\ Range(lru') = Range(kept)
        /\ NoRepeat(lru')
    BY <2>2, <2>3, MoveToFrontProperties
  <2>5. TypeOK'
    <3>1. call' \in [Callers -> Calls]
      BY <1>t, <2>3 DEF TypeOK, Calls
    <3>2. id \in Ids /\ lastUsed' \in [Ids -> Nat]
      BY <1>t, <2>1, <2>2, <2>3, RangeOfSeq, SMT DEF TypeOK
    <3> QED
      BY <1>t, <2>2, <2>3, <2>4, <3>1, <3>2 DEF TypeOK
  <2>6. MapMatchesList'
    BY <2>2, <2>3, <2>4 DEF MapMatchesList, NoRepeat
  <2>7. ClosedExactlyWhenGone'
    BY <2>2, <2>3 DEF IInv, ClosedExactlyWhenGone
  <2>8. LimitOnList'
    BY <2>2, <2>3, <2>4 DEF LimitOnList
  <2>9. NoFutureUse'
    BY <1>t, <2>1, <2>3, SMT DEF IInv, NoFutureUse, TypeOK, Calls
  <2>10. CheckedWasCreated'
    BY <1>t, <2>2, <2>3 DEF IInv, CheckedWasCreated, ClosedExactlyWhenGone, TypeOK, Calls
  <2> QED
    BY <2>5, <2>6, <2>7, <2>8, <2>9, <2>10 DEF IInv
<1>5. ASSUME NEW c \in Callers, GetMiss(c) PROVE IInv'
  <2> DEFINE kept == KeepUnexpired(lru, lastUsed, ttl, call[c].at)
  <2>1. call[c].at \in Nat /\ ttl \in Nat
    BY <1>t DEF IInv, NoFutureUse, TypeOK, Calls
  <2>2. /\ kept \in Seq(Ids)
        /\ NoRepeat(kept)
        /\ Range(kept) = m \ Dropped(lru, kept)
        /\ Dropped(lru, kept) \subseteq m
        /\ maxSessions > 0 => Len(kept) <= maxSessions
    <3>1. FrontOf(kept, lru)
      BY <2>1, UnexpiredFacts
    <3> HIDE DEF kept
    <3> QED
      BY <3>1, EvictionFacts
  <2>3. /\ m' = m \ Dropped(lru, kept)
        /\ closed' = closed \cup Dropped(lru, kept)
        /\ lru' = kept
        /\ lastUsed' = lastUsed
        /\ call' = [call EXCEPT ![c] = Idle]
        /\ answer' = [answer EXCEPT ![c] = [kind |-> "missing", id |-> call[c].id]]
        /\ created' = created /\ ttl' = ttl /\ maxSessions' = maxSessions
        /\ clock' = clock
    BY <1>5 DEF GetMiss, Close, Return, policyVars
  <2> HIDE DEF kept
  <2>4. TypeOK'
    <3>1. answer' \in [Callers -> Answers]
      BY <1>t, <2>3 DEF TypeOK, Answers, Calls
    <3> QED
      BY <1>t, <1>0, <2>2, <2>3, <3>1 DEF TypeOK
  <2>5. MapMatchesList'
    BY <2>2, <2>3 DEF MapMatchesList, NoRepeat
  <2>6. ClosedExactlyWhenGone'
    BY <2>2, <2>3 DEF IInv, ClosedExactlyWhenGone
  <2>7. LimitOnList'
    BY <2>2, <2>3 DEF LimitOnList
  <2>8. NoFutureUse'
    BY <1>t, <2>3, SMT DEF IInv, NoFutureUse, TypeOK, Idle
  <2>9. CheckedWasCreated'
    BY <1>t, <2>3 DEF IInv, CheckedWasCreated, TypeOK, Idle
  <2> QED
    BY <2>4, <2>5, <2>6, <2>7, <2>8, <2>9 DEF IInv
<1>6. ASSUME NEW c \in Callers, CheckClosed(c) PROVE IInv'
  <2>1. /\ lru' = lru /\ m' = m /\ closed' = closed /\ lastUsed' = lastUsed
        /\ created' = created /\ ttl' = ttl /\ maxSessions' = maxSessions
        /\ clock' = clock
        /\ call' = [call EXCEPT ![c] = Idle]
        /\ \E kind \in {"missing", "found"} :
              answer' = [answer EXCEPT ![c] = [kind |-> kind, id |-> call[c].id]]
    BY <1>6 DEF CheckClosed, Return, storeVars, policyVars
  <2>2. TypeOK'
    <3>1. answer' \in [Callers -> Answers]
      BY <1>t, <2>1 DEF TypeOK, Answers, Calls
    <3> QED
      BY <1>t, <1>0, <2>1, <3>1 DEF TypeOK
  <2>3. NoFutureUse'
    BY <1>t, <2>1, SMT DEF IInv, NoFutureUse, TypeOK, Idle
  <2>4. CheckedWasCreated'
    BY <1>t, <2>1 DEF IInv, CheckedWasCreated, TypeOK, Idle
  <2> QED
    BY <2>1, <2>2, <2>3, <2>4 DEF IInv, MapMatchesList, ClosedExactlyWhenGone, LimitOnList
<1>7. ASSUME NEW c \in Callers, NEW id \in Ids, Delete(c, id) PROVE IInv'
  <2>1. /\ lastUsed' = lastUsed /\ created' = created /\ ttl' = ttl
        /\ maxSessions' = maxSessions /\ clock' = clock
        /\ call' = [call EXCEPT ![c] = Idle]
        /\ answer' = [answer EXCEPT ![c] = [kind |-> "deleted", id |-> id]]
    BY <1>7 DEF Delete, Return, policyVars
  <2>2. /\ lru' \in Seq(Ids)
        /\ NoRepeat(lru')
        /\ Range(lru') = m'
        /\ m' \subseteq m
        /\ closed' = closed \cup (m \ m')
        /\ LimitOnList'
    <3>1. /\ lru \in Seq(Ids) /\ NoRepeat(lru) /\ Range(lru) = m
          /\ Len(lru) \in Nat /\ maxSessions \in Nat
      BY <1>t, LenProperties DEF TypeOK, IInv, MapMatchesList, NoRepeat
    <3>2. CASE id \in m
      <4>1. m' = m \ {id} /\ closed' = closed \cup {id} /\ lru' = Without(lru, id)
        BY <1>7, <3>2 DEF Delete, Close
      <4>2. /\ lru' \in Seq(Ids)
            /\ Len(lru') = Len(lru) - 1
            /\ Range(lru') = Range(lru) \ {id}
            /\ NoRepeat(lru')
        BY <3>1, <3>2, <4>1, WithoutProperties
      <4>3. LimitOnList'
        BY <2>1, <3>1, <4>2, SMT DEF IInv, LimitOnList
      <4> QED
        BY <3>1, <3>2, <4>1, <4>2, <4>3
    <3>3. CASE id \notin m
      <4>1. m' = m /\ closed' = closed /\ lru' = lru
        BY <1>7, <3>3 DEF Delete
      <4>2. LimitOnList'
        BY <2>1, <4>1 DEF IInv, LimitOnList
      <4> QED
        BY <3>1, <4>1, <4>2 DEF NoRepeat
    <3> QED
      BY <3>2, <3>3
  <2>3. TypeOK'
    <3>1. answer' \in [Callers -> Answers]
      BY <1>t, <2>1 DEF TypeOK, Answers, MaybeId
    <3> QED
      BY <1>t, <1>0, <2>1, <2>2, <3>1 DEF TypeOK
  <2>4. MapMatchesList'
    BY <2>2 DEF MapMatchesList, NoRepeat
  <2>5. ClosedExactlyWhenGone'
    BY <2>1, <2>2 DEF IInv, ClosedExactlyWhenGone
  <2>6. NoFutureUse'
    BY <1>t, <2>1, SMT DEF IInv, NoFutureUse, TypeOK, Idle
  <2>7. CheckedWasCreated'
    BY <1>t, <2>1 DEF IInv, CheckedWasCreated, TypeOK, Idle
  <2> QED
    BY <2>2, <2>3, <2>4, <2>5, <2>6, <2>7 DEF IInv
<1>8. ASSUME NEW v \in TTLs, SetTTL(v) PROVE IInv'
  <2> DEFINE kept == KeepUnexpired(lru, lastUsed, ttl', clock)
  <2>1. v \in Int /\ ttl' \in Nat /\ clock \in Nat
    BY <1>t, <1>8, SMT DEF SetTTL, TypeOK
  <2>2. /\ kept \in Seq(Ids)
        /\ NoRepeat(kept)
        /\ Range(kept) = m \ Dropped(lru, kept)
        /\ Dropped(lru, kept) \subseteq m
        /\ maxSessions > 0 => Len(kept) <= maxSessions
    <3>1. FrontOf(kept, lru)
      BY <2>1, UnexpiredFacts
    <3> HIDE DEF kept
    <3> QED
      BY <3>1, EvictionFacts
  <2>3. /\ lru' = kept
        /\ m' = m \ Dropped(lru, kept)
        /\ closed' = closed \cup Dropped(lru, kept)
        /\ maxSessions' = maxSessions /\ lastUsed' = lastUsed /\ created' = created
        /\ clock' = clock /\ call' = call /\ answer' = answer
    BY <1>8 DEF SetTTL, Close
  <2> HIDE DEF kept
  <2>4. TypeOK'
    BY <1>t, <2>1, <2>2, <2>3 DEF TypeOK
  <2>5. MapMatchesList'
    BY <2>2, <2>3 DEF MapMatchesList, NoRepeat
  <2>6. ClosedExactlyWhenGone'
    BY <2>2, <2>3 DEF IInv, ClosedExactlyWhenGone
  <2>7. LimitOnList'
    BY <2>2, <2>3 DEF LimitOnList
  <2> QED
    BY <2>3, <2>4, <2>5, <2>6, <2>7 DEF IInv, NoFutureUse, CheckedWasCreated
<1>9. ASSUME NEW v \in Limits, SetMaxSessions(v) PROVE IInv'
  <2> DEFINE kept == KeepWithinLimit(lru, maxSessions')
  <2>1. v \in Int /\ maxSessions' \in Nat
    BY <1>9, SMT DEF SetMaxSessions
  <2>2. FrontOf(kept, lru) /\ (maxSessions' > 0 => Len(kept) <= maxSessions')
    <3>1. lru \in Seq(Ids) /\ maxSessions' \in Int
      BY <1>t, <2>1 DEF TypeOK
    <3> QED
      BY <3>1, KeepWithinLimitFront
  <2>3. /\ kept \in Seq(Ids)
        /\ NoRepeat(kept)
        /\ Range(kept) = m \ Dropped(lru, kept)
        /\ Dropped(lru, kept) \subseteq m
    BY <2>2, EvictionFacts
  <2>4. /\ lru' = kept
        /\ m' = m \ Dropped(lru, kept)
        /\ closed' = closed \cup Dropped(lru, kept)
        /\ ttl' = ttl /\ lastUsed' = lastUsed /\ created' = created
        /\ clock' = clock /\ call' = call /\ answer' = answer
    BY <1>9 DEF SetMaxSessions, Close
  <2> HIDE DEF kept
  <2>5. TypeOK'
    BY <1>t, <2>1, <2>3, <2>4 DEF TypeOK
  <2>6. MapMatchesList'
    BY <2>3, <2>4 DEF MapMatchesList, NoRepeat
  <2>7. ClosedExactlyWhenGone'
    BY <2>3, <2>4 DEF IInv, ClosedExactlyWhenGone
  <2>8. LimitOnList'
    BY <2>2, <2>4 DEF LimitOnList
  <2> QED
    BY <2>4, <2>5, <2>6, <2>7, <2>8 DEF IInv, NoFutureUse, CheckedWasCreated
<1>10. CASE Tick
  <2>1. clock' \in Nat /\ clock <= clock'
    BY <1>t, <1>10, SMT DEF Tick, TypeOK
  <2>2. /\ lru' = lru /\ m' = m /\ closed' = closed /\ lastUsed' = lastUsed
        /\ created' = created /\ ttl' = ttl /\ maxSessions' = maxSessions
        /\ call' = call /\ answer' = answer
    BY <1>10 DEF Tick, storeVars, policyVars
  <2>3. TypeOK'
    BY <1>t, <2>1, <2>2 DEF TypeOK
  <2>4. NoFutureUse'
    BY <1>t, <2>1, <2>2, SMT DEF IInv, NoFutureUse, TypeOK, Calls
  <2> QED
    BY <2>2, <2>3, <2>4 DEF IInv, MapMatchesList, ClosedExactlyWhenGone, LimitOnList,
        CheckedWasCreated
<1>11. CASE UNCHANGED vars
  BY <1>11 DEF vars, IInv, TypeOK, MapMatchesList, ClosedExactlyWhenGone, LimitOnList,
      NoFutureUse, CheckedWasCreated
<1>12. created \subseteq Ids
  BY <1>t DEF TypeOK
<1> QED
  BY <1>1, <1>2, <1>3, <1>4, <1>5, <1>6, <1>7, <1>8, <1>9, <1>10, <1>11, <1>12
     DEF Next, CallerStep

(* The invariant holds in every state of the store: with the three facts   *)
(* the runs check it carries what makes them inductive.                    *)
THEOREM Invariance == Spec => []IInv
BY InitEstablishes, StepPreserves, PTL DEF Spec

-------------------------------------------------------------------------------
(* The store's state has its types, and SetTTL and SetMaxSessions never    *)
(* leave a negative policy, in every run of the store.                     *)
THEOREM TypeCorrect == Spec => []TypeOK
<1>1. IInv => TypeOK
  BY DEF IInv
<1> QED
  BY <1>1, Invariance, PTL

(* The id map and the LRU list always hold the same sessions, once each.   *)
THEOREM MapMatchesListHolds == Spec => []MapMatchesList
<1>1. IInv => MapMatchesList
  BY DEF IInv
<1> QED
  BY <1>1, Invariance, PTL

(* A session is closed exactly when it is out of the store.                *)
THEOREM ClosedExactlyWhenGoneHolds == Spec => []ClosedExactlyWhenGone
<1>1. IInv => ClosedExactlyWhenGone
  BY DEF IInv
<1> QED
  BY <1>1, Invariance, PTL

(* Size() never exceeds a positive limit.                                  *)
THEOREM SizeWithinLimitHolds == Spec => []SizeWithinLimit
<1>1. IInv => SizeWithinLimit
  <2> SUFFICES ASSUME IInv, maxSessions > 0 PROVE Cardinality(m) <= maxSessions
    BY DEF SizeWithinLimit, Size
  <2>1. /\ lru \in Seq(Ids) /\ Range(lru) = m /\ Len(lru) \in Nat
        /\ lru \in [1 .. Len(lru) -> Ids]
        /\ Len(lru) <= maxSessions /\ maxSessions \in Nat
    BY LenProperties DEF IInv, TypeOK, MapMatchesList, LimitOnList
  <2>2. lru \in Surjection(1 .. Len(lru), m)
    BY <2>1, Fun_RangeProperties
  <2>3. IsFiniteSet(1 .. Len(lru))
    BY <2>1, FS_Interval, SMT
  <2>4. IsFiniteSet(m)
    BY <2>2, <2>3, FS_Surjection
  <2>5. Cardinality(m) \in Nat
    BY <2>4, FS_CardinalityType
  <2>6. Cardinality(m) <= Len(lru)
    BY <2>1, <2>2, FS_SurjCardinalityBound DEF ExistsSurjection
  <2> QED
    BY <2>1, <2>5, <2>6, SMT
<1> QED
  BY <1>1, Invariance, PTL

-------------------------------------------------------------------------------
(* An entry the expiry scan drops has expired. *)
LEMMA DroppedIsExpired ==
    ASSUME NEW list \in Seq(Ids), NEW used \in [Ids -> Nat],
           NEW life \in Int, NEW t \in Int,
           NEW id \in Range(list), id \notin Range(KeepUnexpired(list, used, life, t))
    PROVE  life > 0 /\ t - used[id] > life
<1> DEFINE k == LastFresh(list, used, life, t)
           kept == KeepUnexpired(list, used, life, t)
<1>1. Len(list) \in Nat /\ Range(list) = {list[i] : i \in 1 .. Len(list)}
  BY LenProperties, RangeEquality
<1>2. PICK i \in 1 .. Len(list) : list[i] = id
  BY <1>1
<1>3. k \in 0 .. Len(list) /\ \A j \in (k + 1) .. Len(list) : t - used[list[j]] > life
  BY LastFreshProperties
<1>4. life > 0 /\ kept = SubSeq(list, 1, k)
  <2>1. life <= 0 => kept = list
    BY DEF KeepUnexpired
  <2>2. ~ (life <= 0)
    BY <2>1
  <2>3. life > 0
    BY <2>2, SMT
  <2> QED
    BY <2>2, <2>3 DEF KeepUnexpired
<1> HIDE DEF k, kept
<1>5. /\ kept \in Seq(Ids)
      /\ \A j \in 1 .. Len(kept) : kept[j] = list[j]
      /\ Range(kept) = {kept[j] : j \in 1 .. Len(kept)}
  <2>1. FrontOf(kept, list)
    BY <1>3, <1>4 DEF FrontOf
  <2>2. kept \in Seq(Ids) /\ \A j \in 1 .. Len(kept) : kept[j] = list[j]
    BY <2>1, FrontProperties
  <2> QED
    BY <2>2, RangeEquality
<1>6. Len(kept) = k
  <2>1. \A j \in 1 .. k : list[j] \in Ids
    BY <1>1, <1>3, ElementOfSeq, SMT
  <2>2. Len(SubSeq(list, 1, k)) = IF 1 <= k THEN k - 1 + 1 ELSE 0
    BY <1>3, <2>1, SubSeqProperties, SMT
  <2> QED
    BY <1>3, <1>4, <2>2, SMT
<1>7. ~ (i \in 1 .. k)
  <2>1. id \notin Range(kept)
    BY DEF kept
  <2> QED
    BY <1>2, <1>5, <1>6, <2>1
<1>8. i \in (k + 1) .. Len(list)
  BY <1>1, <1>2, <1>3, <1>7, SMT
<1> QED
  BY <1>2, <1>3, <1>4, <1>8

(* In a list without repeats a position names its session. *)
LEMMA PositionOfEntry ==
    ASSUME NEW list \in Seq(Ids), NoRepeat(list), NEW i \in 1 .. Len(list)
    PROVE  Position(list, list[i]) = i
BY DEF Position, NoRepeat

(* The position of a session that is in the list is where it stands. *)
LEMMA PositionIsEntry ==
    ASSUME NEW list \in Seq(Ids), NEW id \in Range(list)
    PROVE  Position(list, id) \in 1 .. Len(list) /\ list[Position(list, id)] = id
<1>1. PICK i \in 1 .. Len(list) : list[i] = id
  BY RangeEquality
<1> QED
  BY <1>1 DEF Position

(* If the survivors are the first k entries of the list, each of them was  *)
(* ahead of each entry that is lost.                                       *)
LEMMA SurvivorsWereAhead ==
    ASSUME NEW list \in Seq(Ids), NoRepeat(list), NEW k \in 0 .. Len(list),
           NEW kept, \A i \in 1 .. k : list[i] \in kept,
           NEW id \in Range(list), id \notin kept,
           NEW other \in Range(list), other \in {list[i] : i \in 1 .. k}
    PROVE  Position(list, other) < Position(list, id)
<1>1. Len(list) \in Nat
  BY LenProperties
<1>2. Position(list, id) \in 1 .. Len(list) /\ list[Position(list, id)] = id
  BY PositionIsEntry
<1>3. PICK i \in 1 .. k : list[i] = other
  OBVIOUS
<1>4. i \in 1 .. Len(list)
  BY <1>1, SMT
<1>5. Position(list, other) = i
  BY <1>3, <1>4, PositionOfEntry
<1>6. ~ (Position(list, id) \in 1 .. k)
  BY <1>2
<1> QED
  BY <1>1, <1>2, <1>4, <1>5, <1>6, SMT

(* NewSession's list in detail: behind the new session stands a front part *)
(* of the old list; if it is shorter than the limit, nothing but expired   *)
(* sessions was dropped.                                                   *)
LEMMA PushedInDetail ==
    ASSUME IInv, NEW id \in Ids \ created, NEW t \in Int
    PROVE  /\ Len(Pushed(id, t)) \in Nat \ {0}
           /\ Len(Pushed(id, t)) - 1 \in 0 .. Len(lru)
           /\ Pushed(id, t)[1] = id
           /\ \A i \in 1 .. Len(Pushed(id, t)) - 1 : Pushed(id, t)[i + 1] = lru[i]
           /\ \/ maxSessions > 0 /\ Len(Pushed(id, t)) = maxSessions
              \/ Range(KeepUnexpired(lru, lastUsed, ttl, t)) \subseteq Range(Pushed(id, t))
<1> DEFINE fresh == KeepUnexpired(lru, lastUsed, ttl, t)
           kept == KeepWithinLimit(fresh, maxSessions)
           all == <<id>> \o kept
           final == KeepWithinLimit(all, maxSessions)
<1>1. /\ ttl \in Nat /\ maxSessions \in Nat /\ lastUsed \in [Ids -> Nat]
      /\ id \in Ids /\ lru \in Seq(Ids) /\ Len(lru) \in Nat
  BY LenProperties DEF IInv, TypeOK
<1>2. /\ fresh \in Seq(Ids)
      /\ Len(fresh) \in Nat
      /\ Len(fresh) <= Len(lru)
      /\ \A i \in 1 .. Len(fresh) : fresh[i] = lru[i]
  <2>1. FrontOf(fresh, lru)
    BY <1>1, UnexpiredFacts
  <2> HIDE DEF fresh
  <2> QED
    BY <1>1, <2>1, FrontProperties, LenProperties
<1> HIDE DEF fresh
<1>3. /\ kept \in Seq(Ids)
      /\ Len(kept) \in Nat
      /\ Len(kept) <= Len(fresh)
      /\ \A i \in 1 .. Len(kept) : kept[i] = fresh[i]
      /\ maxSessions > 0 /\ Len(fresh) > maxSessions => Len(kept) = maxSessions
      /\ maxSessions <= 0 \/ Len(fresh) <= maxSessions => kept = fresh
  <2>1. /\ FrontOf(kept, fresh)
        /\ maxSessions > 0 /\ Len(fresh) > maxSessions => Len(kept) = maxSessions
        /\ maxSessions <= 0 \/ Len(fresh) <= maxSessions => kept = fresh
    BY <1>1, <1>2, KeepWithinLimitFront
  <2> HIDE DEF kept
  <2> QED
    BY <1>2, <2>1, FrontProperties, LenProperties
<1> HIDE DEF kept
<1>4. /\ all \in Seq(Ids)
      /\ Len(all) = Len(kept) + 1
      /\ all[1] = id
      /\ \A i \in 1 .. Len(kept) : all[i + 1] = kept[i]
      /\ Range(all) = {id} \cup Range(kept)
  BY <1>1, <1>3, PushProperties
<1> HIDE DEF all
<1>5. /\ final \in Seq(Ids)
      /\ Len(final) \in Nat
      /\ Len(final) <= Len(all)
      /\ \A i \in 1 .. Len(final) : final[i] = all[i]
      /\ maxSessions > 0 /\ Len(all) > maxSessions => Len(final) = maxSessions
      /\ maxSessions <= 0 \/ Len(all) <= maxSessions => final = all
  <2>1. /\ FrontOf(final, all)
        /\ maxSessions > 0 /\ Len(all) > maxSessions => Len(final) = maxSessions
        /\ maxSessions <= 0 \/ Len(all) <= maxSessions => final = all
    BY <1>1, <1>4, KeepWithinLimitFront
  <2> HIDE DEF final
  <2> QED
    BY <1>4, <2>1, FrontProperties, LenProperties
<1> HIDE DEF final
<1>6. Len(final) \in Nat \ {0} /\ Len(final) - 1 \in 0 .. Len(kept)
  BY <1>1, <1>3, <1>4, <1>5, SMT
<1>7. Len(final) - 1 \in 0 .. Len(lru)
  BY <1>1, <1>2, <1>3, <1>6, SMT
<1>8. final[1] = id
  BY <1>4, <1>5, <1>6, SMT
<1>9. ASSUME NEW i \in 1 .. Len(final) - 1 PROVE final[i + 1] = lru[i]
  <2>1. i + 1 \in 1 .. Len(final) /\ i \in 1 .. Len(kept) /\ i \in 1 .. Len(fresh)
    BY <1>2, <1>3, <1>6, SMT
  <2> QED
    BY <1>2, <1>3, <1>4, <1>5, <2>1
<1>10. \/ maxSessions > 0 /\ Len(final) = maxSessions
       \/ Range(fresh) \subseteq Range(final)
  <2>1. CASE maxSessions > 0 /\ Len(all) > maxSessions
    BY <1>5, <2>1
  <2>2. CASE ~ (maxSessions > 0 /\ Len(all) > maxSessions)
    <3>1. maxSessions <= 0 \/ Len(all) <= maxSessions
      BY <1>1, <1>3, <1>4, <2>2, SMT
    <3>2. final = all
      BY <1>5, <3>1
    <3>3. maxSessions <= 0 \/ Len(fresh) <= maxSessions
      BY <1>1, <1>2, <1>3, <1>4, <3>1, SMT
    <3>4. kept = fresh
      BY <1>3, <3>3
    <3> QED
      BY <1>4, <3>2, <3>4
  <2> QED
    BY <2>1, <2>2
<1> QED
  BY <1>6, <1>7, <1>8, <1>9, <1>10 DEF Pushed, final, all, kept, fresh

(* Each step that takes a session out of the map has one of the reasons. *)
LEMMA EvictionStep == IInv /\ [Next]_vars => \A id \in m \ m' : Justified(id)
<1> SUFFICES ASSUME IInv, [Next]_vars, NEW id \in m, id \notin m' PROVE Justified(id)
  OBVIOUS
<1>1. /\ ttl \in Nat /\ maxSessions \in Nat /\ clock \in Nat
      /\ lastUsed \in [Ids -> Nat] /\ id \in Ids
      /\ lru \in Seq(Ids) /\ NoRepeat(lru) /\ Range(lru) = m /\ Len(lru) \in Nat
      /\ \A c \in Callers : call[c].at \in Nat /\ call[c].at <= clock
  BY LenProperties DEF IInv, TypeOK, MapMatchesList, NoFutureUse, NoRepeat, Calls
<1> DEFINE Kept(life, t) == KeepUnexpired(lru, lastUsed, life, t)
<1>2. ASSUME NEW life \in Nat, NEW t \in Nat, t <= clock, ttl' = life,
             id \notin Range(Kept(life, t))
      PROVE  Justified(id)
  <2>1. life > 0 /\ t - lastUsed[id] > life
    BY <1>1, <1>2, DroppedIsExpired
  <2>2. clock - lastUsed[id] > life
    BY <1>1, <1>2, <2>1, SMT
  <2> QED
    BY <1>2, <2>1, <2>2 DEF Justified, TooOld, PushedOut
<1>3. ASSUME NEW c \in Callers, BeginNew(c) PROVE FALSE
  BY <1>3 DEF BeginNew, storeVars
<1>4. ASSUME NEW c \in Callers, NEW i \in Ids, BeginGet(c, i) PROVE FALSE
  BY <1>4 DEF BeginGet, storeVars
<1>5. ASSUME NEW c \in Callers, CheckClosed(c) PROVE FALSE
  BY <1>5 DEF CheckClosed, storeVars
<1>6. ASSUME NEW c \in Callers, NewSessionLocked(c) PROVE Justified(id)
  <2>1. PICK new \in Ids \ created :
          /\ lru' = Pushed(new, call[c].at)
          /\ m' = (m \cup {new}) \ ((Range(lru) \cup {new}) \ Range(Pushed(new, call[c].at)))
    BY <1>6 DEF NewSessionLocked
  <2> DEFINE list == Pushed(new, call[c].at)
  <2>2. call[c].at \in Nat /\ call[c].at <= clock /\ ttl' = ttl /\ maxSessions' = maxSessions
    BY <1>1, <1>6 DEF NewSessionLocked, policyVars
  <2>3. /\ Len(list) \in Nat \ {0}
        /\ Len(list) - 1 \in 0 .. Len(lru)
        /\ list[1] = new
        /\ \A i \in 1 .. Len(list) - 1 : list[i + 1] = lru[i]
        /\ \/ maxSessions > 0 /\ Len(list) = maxSessions
           \/ Range(Kept(ttl, call[c].at)) \subseteq Range(list)
    <3>1. call[c].at \in Int
      BY <2>2, SMT
    <3> QED
      BY <3>1, PushedInDetail
  <2>4. list \in Seq(Ids)
    BY <2>2, PushedFacts
  <2> HIDE DEF list
  <2>5. lru' = list /\ m' = (m \cup {new}) \ ((m \cup {new}) \ Range(list))
    BY <1>1, <2>1 DEF list
  <2>6. id \notin Range(list)
    BY <2>5
  <2>7. CASE maxSessions > 0 /\ Len(list) = maxSessions
    <3> DEFINE k == Len(list) - 1
    <3>1. Range(list) = {list[i] : i \in 1 .. Len(list)}
      BY <2>4, RangeEquality
    <3>2. ASSUME NEW i \in 1 .. k PROVE lru[i] \in Range(list)
      <4>1. i + 1 \in 1 .. Len(list)
        BY <2>3, SMT
      <4> QED
        BY <2>3, <3>1, <4>1
    <3>3. ASSUME NEW other \in m \cap m' PROVE other \in {lru[i] : i \in 1 .. k}
      <4>1. other # new
        BY DEF IInv, ClosedExactlyWhenGone
      <4>2. PICK i \in 1 .. Len(list) : list[i] = other
        BY <2>5, <3>1
      <4>3. i - 1 \in 1 .. k /\ (i - 1) + 1 = i
        BY <2>3, <4>1, <4>2, SMT
      <4> QED
        BY <2>3, <4>2, <4>3
    <3>4. ASSUME NEW other \in m \cap m' PROVE Position(lru, other) < Position(lru, id)
      <4>1. k \in 0 .. Len(lru)
        BY <2>3
      <4> HIDE DEF k
      <4> QED
        BY <1>1, <2>6, <3>2, <3>3, <4>1, SurvivorsWereAhead
    <3> QED
      BY <2>2, <2>5, <2>7, <3>4 DEF Justified, TooOld, PushedOut
  <2>8. CASE Range(Kept(ttl, call[c].at)) \subseteq Range(list)
    BY <1>1, <1>2, <2>2, <2>6, <2>8
  <2> QED
    BY <2>3, <2>7, <2>8
<1>7. ASSUME NEW c \in Callers, GetHit(c) \/ GetMiss(c) PROVE Justified(id)
  <2>1. /\ m' = m \ Dropped(lru, Kept(ttl, call[c].at))
        /\ ttl' = ttl
    BY <1>7 DEF GetHit, GetMiss, Close, policyVars
  <2>2. id \notin Range(Kept(ttl, call[c].at))
    BY <2>1 DEF Dropped
  <2> QED
    BY <1>1, <1>2, <2>1, <2>2
<1>8. ASSUME NEW c \in Callers, NEW i \in Ids, Delete(c, i) PROVE Justified(id)
  <2>1. m \ m' \subseteq {i}
    BY <1>8 DEF Delete, Close
  <2>2. id = i
    BY <2>1
  <2> QED
    BY <1>8, <2>2 DEF Justified, TooOld, PushedOut
<1>9. ASSUME NEW v \in TTLs, SetTTL(v) PROVE Justified(id)
  <2>1. ttl' \in Nat
    BY <1>9, StoreAssumption, SMT DEF SetTTL
  <2>2. m' = m \ Dropped(lru, Kept(ttl', clock))
    BY <1>9 DEF SetTTL, Close
  <2>3. id \notin Range(Kept(ttl', clock))
    BY <2>2 DEF Dropped
  <2>4. clock <= clock
    BY <1>1, SMT
  <2> HIDE DEF Kept
  <2> QED
    BY <1>1, <1>2, <2>1, <2>3, <2>4
<1>10. ASSUME NEW v \in Limits, SetMaxSessions(v) PROVE Justified(id)
  <2> DEFINE list == KeepWithinLimit(lru, maxSessions')
  <2>1. maxSessions' \in Nat
    BY <1>10, StoreAssumption, SMT DEF SetMaxSessions
  <2>2. /\ FrontOf(list, lru)
        /\ maxSessions' > 0 /\ Len(lru) > maxSessions' => Len(list) = maxSessions'
        /\ maxSessions' <= 0 \/ Len(lru) <= maxSessions' => list = lru
    BY <1>1, <2>1, KeepWithinLimitFront
  <2>3. lru' = list /\ m' = m \ Dropped(lru, list)
    BY <1>10 DEF SetMaxSessions, Close
  <2> HIDE DEF list
  <2>4. /\ list \in Seq(Ids)
        /\ Len(list) <= Len(lru)
        /\ \A i \in 1 .. Len(list) : list[i] = lru[i]
    BY <1>1, <2>2, FrontProperties
  <2>5. id \notin Range(list) /\ list # lru
    BY <1>1, <2>3 DEF Dropped
  <2>6. maxSessions' > 0 /\ Len(list) = maxSessions'
    BY <1>1, <2>1, <2>2, <2>5, SMT
  <2>7. Len(list) \in 0 .. Len(lru) /\ Range(list) = {list[i] : i \in 1 .. Len(list)}
    <3>1. Len(list) \in Nat
      BY <2>4, LenProperties
    <3> QED
      BY <1>1, <2>4, <3>1, RangeEquality
  <2>8. \A i \in 1 .. Len(list) : lru[i] \in Range(list)
    BY <2>4, <2>7
  <2>9. ASSUME NEW other \in m \cap m' PROVE Position(lru, other) < Position(lru, id)
    <3>1. other \in Range(lru) /\ other \in {lru[i] : i \in 1 .. Len(list)}
      BY <1>1, <2>3, <2>4, <2>7 DEF Dropped
    <3> QED
      BY <1>1, <2>5, <2>7, <2>8, <3>1, SurvivorsWereAhead
  <2> QED
    BY <2>3, <2>6, <2>9 DEF Justified, TooOld, PushedOut
<1>11. CASE Tick
  BY <1>11 DEF Tick, storeVars
<1>12. CASE UNCHANGED vars
  BY <1>12 DEF vars
<1>13. created \subseteq Ids
  BY DEF IInv, TypeOK
<1> QED
  BY <1>3, <1>4, <1>5, <1>6, <1>7, <1>8, <1>9, <1>10, <1>11, <1>12, <1>13
     DEF Next, CallerStep

(* No session leaves the store unless it was deleted by id, was really     *)
(* unused for longer than the TTL, or the store is full of sessions that   *)
(* were ahead of it in LRU order; whatever calls race and however late     *)
(* their captured now is.                                                  *)
THEOREM EvictionJustifiedHolds == Spec => EvictionJustified
<1>1. IInv /\ [Next]_vars => [\A id \in m \ m' : Justified(id)]_vars
  BY EvictionStep
<1> QED
  BY <1>1, Invariance, PTL DEF Spec, EvictionJustified

-------------------------------------------------------------------------------
(* The refinement of SessionDirectory.  Asked is what the directory sees   *)
(* of a call: the two halves of Get are one request.                       *)
Asked(r) == [op |-> IF r.op = "check" THEN "get" ELSE r.op, id |-> r.id]

(* A new store is an empty directory. *)
LEMMA InitRefines == Init => Directory!DirInit
BY DEF Init, Idle, NoAnswer, Directory!DirInit, Directory!NoRequest, Directory!NoAnswer

(* Every step of the store is one of the directory, or none at all. *)
LEMMA StepRefines ==
    IInv /\ IInv' /\ [Next]_vars => [Directory!DirNext]_(Directory!dvars)
<1> SUFFICES ASSUME IInv, IInv', [Next]_vars
             PROVE  [Directory!DirNext]_(Directory!dvars)
  OBVIOUS
<1> DEFINE request == [c \in Callers |-> Asked(call[c])]
<1>1. /\ call \in [Callers -> Calls] /\ call' \in [Callers -> Calls]
      /\ answer \in [Callers -> Answers]
      /\ m \subseteq Ids /\ m' \subseteq Ids
      /\ m \cap closed = {} /\ created = m \cup closed
      /\ m' \cap closed' = {} /\ created' = m' \cup closed'
      /\ Range(lru) = m
      /\ created \subseteq Ids
  BY DEF IInv, TypeOK, ClosedExactlyWhenGone, MapMatchesList
<1>2. \A c \in Callers : call[c] = Idle => request[c] = Directory!NoRequest
  BY DEF Asked, Idle, Directory!NoRequest
<1>3. ASSUME NEW c \in Callers, call' = [call EXCEPT ![c] = Idle]
      PROVE  request' = [request EXCEPT ![c] = Directory!NoRequest]
  BY <1>1, <1>3 DEF Asked, Idle, Directory!NoRequest
<1>4. ASSUME NEW c \in Callers, BeginNew(c) PROVE Directory!Ask(c)
  <2>1. request' = [request EXCEPT ![c] = [op |-> "new", id |-> NoId]]
    BY <1>1, <1>4 DEF BeginNew, Asked
  <2>2. [op |-> "new", id |-> NoId] \in Directory!Askable
    BY DEF Directory!Askable
  <2> QED
    BY <1>2, <1>4, <2>1, <2>2 DEF BeginNew, Directory!Ask, storeVars, Asked, NoAnswer,
        Directory!NoAnswer
<1>5. ASSUME NEW c \in Callers, NEW id \in Ids, BeginGet(c, id) PROVE Directory!Ask(c)
  <2>1. request' = [request EXCEPT ![c] = [op |-> "get", id |-> id]]
    BY <1>1, <1>5 DEF BeginGet, Asked
  <2>2. [op |-> "get", id |-> id] \in Directory!Askable
    BY DEF Directory!Askable
  <2> QED
    BY <1>2, <1>5, <2>1, <2>2 DEF BeginGet, Directory!Ask, storeVars, Asked, NoAnswer,
        Directory!NoAnswer
<1>6. ASSUME NEW c \in Callers, NewSessionLocked(c) PROVE Directory!Create(c)
  <2>1. PICK id \in Ids \ created :
          LET kept == Pushed(id, call[c].at)
              dropped == (Range(lru) \cup {id}) \ Range(kept)
          IN  /\ m' = (m \cup {id}) \ dropped
              /\ closed' = closed \cup dropped
              /\ Return(c, "new", id)
    BY <1>6 DEF NewSessionLocked
  <2>2. call[c].at \in Nat
    BY <1>1 DEF Calls
  <2>3. id \in Range(Pushed(id, call[c].at)) /\ Range(Pushed(id, call[c].at)) \subseteq m \cup {id}
    BY <2>2, PushedFacts
  <2> DEFINE lost == m \ Range(Pushed(id, call[c].at))
  <2>4. /\ id \in Ids \ (m \cup closed)
        /\ lost \in SUBSET m
        /\ m' = (m \ lost) \cup {id}
        /\ closed' = closed \cup lost
    BY <1>1, <2>1, <2>3
  <2>5. Directory!Reply(c, "new", id)
    BY <1>3, <2>1 DEF Return, Directory!Reply, Asked
  <2>6. call[c].op = "new"
    BY <1>6 DEF NewSessionLocked
  <2> QED
    BY <2>4, <2>5, <2>6 DEF Directory!Create
<1>7. ASSUME NEW c \in Callers, GetHit(c) PROVE Directory!Forget
  <2>1. request' = request
    BY <1>1, <1>7 DEF GetHit, Asked, Calls
  <2>2. PICK lost \in SUBSET m : m' = m \ lost /\ closed' = closed \cup lost
    BY <1>1, <1>7 DEF GetHit, Close, Dropped
  <2> QED
    BY <1>7, <2>1, <2>2 DEF GetHit, Directory!Forget, Directory!Lose, Asked
<1>8. ASSUME NEW c \in Callers, GetMiss(c) PROVE Directory!Find(c)
  <2>1. call[c].op = "get" /\ call[c].id \notin m' /\ Return(c, "missing", call[c].id)
    BY <1>8 DEF GetMiss, Close
  <2>2. PICK lost \in SUBSET m : m' = m \ lost /\ closed' = closed \cup lost
    BY <1>1, <1>8 DEF GetMiss, Close, Dropped
  <2>3. Directory!Reply(c, "missing", call[c].id)
    BY <1>3, <2>1 DEF Return, Directory!Reply, Asked
  <2> QED
    BY <2>1, <2>2, <2>3 DEF Directory!Find, Directory!Lose, Directory!Reply
<1>9. ASSUME NEW c \in Callers, CheckClosed(c) PROVE Directory!Find(c)
  <2>1. call[c].op = "check" /\ m' = m /\ closed' = closed
    BY <1>9 DEF CheckClosed, storeVars
  <2>2. call[c].id \in m <=> call[c].id \notin closed
    BY <1>1, <2>1 DEF IInv, CheckedWasCreated
  <2> DEFINE kind == IF call[c].id \in m' THEN "found" ELSE "missing"
  <2>3. Return(c, kind, call[c].id)
    <3>1. Return(c, IF call[c].id \in closed THEN "missing" ELSE "found", call[c].id)
      BY <1>9 DEF CheckClosed
    <3>2. kind = IF call[c].id \in closed THEN "missing" ELSE "found"
      BY <2>1, <2>2
    <3> QED
      BY <3>1, <3>2
  <2>4. Directory!Reply(c, kind, call[c].id)
    BY <1>3, <2>3 DEF Return, Directory!Reply, Asked
  <2>5. m' = m \ {} /\ closed' = closed \cup {} /\ {} \in SUBSET m
    BY <2>1
  <2> QED
    BY <2>1, <2>4, <2>5 DEF Directory!Find, Directory!Lose, Directory!Reply
<1>10. ASSUME NEW c \in Callers, NEW id \in Ids, Delete(c, id) PROVE Directory!Remove(c, id)
  <2>1. m' = m \ (m \cap {id}) /\ closed' = closed \cup (m \cap {id})
    BY <1>10 DEF Delete, Close
  <2>2. Directory!Reply(c, "deleted", id)
    BY <1>3, <1>10 DEF Delete, Return, Directory!Reply, Asked
  <2>3. call[c] = Idle
    BY <1>10 DEF Delete
  <2> QED
    BY <1>2, <2>1, <2>2, <2>3 DEF Directory!Remove, Directory!Lose, Asked
<1>11. ASSUME NEW v, SetTTL(v) \/ SetMaxSessions(v) PROVE Directory!Forget
  <2>1. PICK lost \in SUBSET m : m' = m \ lost /\ closed' = closed \cup lost
    BY <1>1, <1>11 DEF SetTTL, SetMaxSessions, Close, Dropped
  <2> QED
    BY <1>11, <2>1 DEF SetTTL, SetMaxSessions, Directory!Forget, Directory!Lose
<1>12. CASE Tick \/ UNCHANGED vars
  BY <1>12 DEF Tick, vars, storeVars, Directory!dvars
<1> QED
  BY <1>1, <1>4, <1>5, <1>6, <1>7, <1>8, <1>9, <1>10, <1>11, <1>12
     DEF Next, CallerStep, Directory!DirNext

(* The store implements the directory: although Get reads the clock before *)
(* the lock and the closed flag after it, every call takes effect at one   *)
(* instant between its start and its answer.                               *)
THEOREM ImplementsDirectory == Spec => DirectorySpec
<1>1. IInv /\ IInv' /\ [Next]_vars => [Directory!DirNext]_(Directory!dvars)
  BY StepRefines
<1> QED
  BY <1>1, InitRefines, Invariance, PTL DEF Spec, DirectorySpec, Directory!DirSpec

-------------------------------------------------------------------------------
(* "Oldest at back" (shell_session_store.go:126) is false of the store in  *)
(* general: two goroutines that read the clock before they take ss.mu can  *)
(* take it in the other order.  It is true, and the expiry scan complete,  *)
(* for as long as at most one call at a time is between its clock reading  *)
(* and the lock, which holds of any one caller by itself.                  *)
Sorted(list, used) ==
    \A i, j \in 1 .. Len(list) : i < j => used[list[i]] >= used[list[j]]

LatestReading ==
    \A c \in Callers : Waiting(c) => \A id \in Ids : lastUsed[id] <= call[c].at

OrderInv == OldestAtBack /\ LatestReading

(* Cutting the list keeps its order. *)
LEMMA SortedFront ==
    ASSUME NEW list \in Seq(Ids), NEW used, NEW kept, FrontOf(kept, list), Sorted(list, used)
    PROVE  Sorted(kept, used)
<1>1. /\ kept \in Seq(Ids)
      /\ Len(kept) <= Len(list)
      /\ \A i \in 1 .. Len(kept) : kept[i] = list[i]
  BY FrontProperties
<1>2. Len(kept) \in Nat /\ Len(list) \in Nat
  BY <1>1, LenProperties
<1>3. 1 .. Len(kept) \subseteq 1 .. Len(list)
  BY <1>1, <1>2, SMT
<1> QED
  BY <1>1, <1>3 DEF Sorted

(* Removing an entry keeps the order of the others. *)
LEMMA SortedWithout ==
    ASSUME NEW list \in Seq(Ids), NEW id \in Range(list), NEW used, Sorted(list, used)
    PROVE  Sorted(Without(list, id), used)
<1> DEFINE p == Position(list, id)
           rest == Without(list, id)
<1>1. /\ p \in 1 .. Len(list)
      /\ Len(rest) = Len(list) - 1
      /\ \A i \in 1 .. Len(list) - 1 : rest[i] = IF i < p THEN list[i] ELSE list[i + 1]
  BY WithoutInDetail
<1>2. Len(list) \in Nat
  BY LenProperties
<1> HIDE DEF p, rest
<1>3. ASSUME NEW i \in 1 .. Len(rest), NEW j \in 1 .. Len(rest), i < j
      PROVE  used[rest[i]] >= used[rest[j]]
  <2> DEFINE a == IF i < p THEN i ELSE i + 1
             b == IF j < p THEN j ELSE j + 1
  <2>1. a \in 1 .. Len(list) /\ b \in 1 .. Len(list) /\ a < b
    BY <1>1, <1>2, <1>3, SMT
  <2>2. rest[i] = list[a] /\ rest[j] = list[b]
    BY <1>1, <1>2, SMT
  <2> HIDE DEF a, b
  <2> QED
    BY <2>1, <2>2 DEF Sorted
<1> QED
  BY <1>3 DEF Sorted, rest

(* The session used last goes before the others. *)
LEMMA SortedPush ==
    ASSUME NEW list \in Seq(Ids), NEW id \in Ids \ Range(list),
           NEW used \in [Ids -> Nat], NEW t \in Nat,
           Sorted(list, used), \A other \in Ids : used[other] <= t
    PROVE  Sorted(<<id>> \o list, [used EXCEPT ![id] = t])
<1> DEFINE now == [used EXCEPT ![id] = t]
           pushed == <<id>> \o list
<1>1. /\ Len(list) \in Nat
      /\ \A i \in 1 .. Len(list) : list[i] \in Ids /\ list[i] # id
  BY LenProperties, ElementOfSeq, RangeEquality
<1>2. /\ Len(pushed) = Len(list) + 1
      /\ pushed[1] = id
      /\ \A i \in 1 .. Len(list) : pushed[i + 1] = list[i]
  BY PushProperties
<1>3. now[id] = t /\ \A i \in 1 .. Len(list) : now[list[i]] = used[list[i]]
  BY <1>1
<1> HIDE DEF now, pushed
<1>4. ASSUME NEW i \in 1 .. Len(pushed), NEW j \in 1 .. Len(pushed), i < j
      PROVE  now[pushed[i]] >= now[pushed[j]]
  <2>1. j - 1 \in 1 .. Len(list) /\ pushed[j] = list[j - 1]
    <3>1. j - 1 \in 1 .. Len(list) /\ (j - 1) + 1 = j
      BY <1>1, <1>2, <1>4, SMT
    <3> QED
      BY <1>2, <3>1
  <2>2. CASE i = 1
    <3>1. used[list[j - 1]] <= t /\ now[pushed[j]] = used[list[j - 1]] /\ now[pushed[i]] = t
      BY <1>1, <1>2, <1>3, <2>1, <2>2
    <3>2. used[list[j - 1]] \in Nat
      BY <1>1, <2>1
    <3> QED
      BY <3>1, <3>2, SMT
  <2>3. CASE i # 1
    <3>1. i - 1 \in 1 .. Len(list) /\ (i - 1) + 1 = i /\ i - 1 < j - 1
      BY <1>1, <1>2, <1>4, <2>3, SMT
    <3>2. pushed[i] = list[i - 1]
      BY <1>2, <3>1
    <3>3. used[list[i - 1]] >= used[list[j - 1]]
      BY <2>1, <3>1 DEF Sorted
    <3> QED
      BY <1>3, <2>1, <3>1, <3>2, <3>3
  <2> QED
    BY <2>2, <2>3
<1> QED
  BY <1>4 DEF Sorted, now, pushed

(* In a sorted list the scan that stops at the first unexpired entry from  *)
(* the back leaves no expired entry.                                       *)
LEMMA ScanIsComplete ==
    ASSUME NEW list \in Seq(Ids), NEW used \in [Ids -> Nat],
           NEW life \in Nat, life > 0, NEW t \in Nat, Sorted(list, used),
           NEW id \in Range(KeepUnexpired(list, used, life, t))
    PROVE  t - used[id] <= life
<1> DEFINE k == LastFresh(list, used, life, t)
           kept == KeepUnexpired(list, used, life, t)
<1>1. Len(list) \in Nat /\ \A i \in 1 .. Len(list) : list[i] \in Ids
  BY LenProperties, ElementOfSeq
<1>2. k \in 0 .. Len(list) /\ (k > 0 => t - used[list[k]] <= life)
  <2>1. life \in Int /\ t \in Int
    BY SMT
  <2> QED
    BY <2>1, LastFreshProperties
<1>3. kept = SubSeq(list, 1, k)
  <2>1. ~ (life <= 0)
    BY SMT
  <2> QED
    BY <2>1 DEF KeepUnexpired
<1> HIDE DEF k, kept
<1>4. /\ kept \in Seq(Ids) /\ Len(kept) <= k
      /\ \A i \in 1 .. Len(kept) : kept[i] = list[i]
  <2>1. FrontOf(kept, list)
    BY <1>2, <1>3 DEF FrontOf
  <2>2. \A i \in 1 .. k : list[i] \in Ids
    BY <1>1, <1>2, SMT
  <2>3. Len(SubSeq(list, 1, k)) = IF 1 <= k THEN k - 1 + 1 ELSE 0
    BY <1>2, <2>2, SubSeqProperties, SMT
  <2>4. Len(kept) <= k
    BY <1>2, <1>3, <2>3, SMT
  <2> QED
    BY <2>1, <2>4, FrontProperties
<1>5. PICK i \in 1 .. Len(kept) : kept[i] = id
  <2>1. id \in Range(kept)
    BY DEF kept
  <2> QED
    BY <1>4, <2>1, RangeEquality
<1>6. i \in 1 .. Len(list) /\ k \in 1 .. Len(list) /\ i <= k /\ list[i] = id
  <2>1. Len(kept) \in Nat
    BY <1>4, LenProperties
  <2> QED
    BY <1>1, <1>2, <1>4, <1>5, <2>1, SMTT(60)
<1>7. used[id] \in Nat /\ used[list[k]] \in Nat /\ t - used[list[k]] <= life
  BY <1>1, <1>2, <1>6, SMT
<1>8. used[id] >= used[list[k]]
  <2>1. CASE i = k
    BY <1>6, <1>7, <2>1, SMT
  <2>2. CASE i < k
    BY <1>6, <2>2 DEF Sorted
  <2> QED
    BY <1>6, <2>1, <2>2, SMT
<1> QED
  BY <1>7, <1>8, SMT

(* What the eviction of expired sessions leaves of the list is sorted. *)
LEMMA SortedUnexpired ==
    ASSUME IInv, Sorted(lru, lastUsed), NEW t \in Int
    PROVE  LET kept == KeepUnexpired(lru, lastUsed, ttl, t)
           IN  kept \in Seq(Ids) /\ NoRepeat(kept) /\ Sorted(kept, lastUsed)
<1>1. ttl \in Int /\ lru \in Seq(Ids)
  BY DEF IInv, TypeOK
<1>2. FrontOf(KeepUnexpired(lru, lastUsed, ttl, t), lru)
  BY <1>1, UnexpiredFacts
<1> QED
  BY <1>1, <1>2, EvictionFacts, SortedFront

(* The list of NewSession is sorted if the new session is the latest. *)
LEMMA SortedPushed ==
    ASSUME IInv, Sorted(lru, lastUsed), NEW id \in Ids \ created, NEW t \in Nat,
           \A other \in Ids : lastUsed[other] <= t
    PROVE  Sorted(Pushed(id, t), [lastUsed EXCEPT ![id] = t])
<1> DEFINE fresh == KeepUnexpired(lru, lastUsed, ttl, t)
           kept == KeepWithinLimit(fresh, maxSessions)
           all == <<id>> \o kept
<1>1. /\ maxSessions \in Int /\ lastUsed \in [Ids -> Nat] /\ id \notin Range(lru)
  BY DEF IInv, TypeOK, ClosedExactlyWhenGone, MapMatchesList
<1>2. fresh \in Seq(Ids) /\ Sorted(fresh, lastUsed) /\ Range(fresh) \subseteq Range(lru)
  <2>1. fresh \in Seq(Ids) /\ Sorted(fresh, lastUsed)
    BY SortedUnexpired
  <2>2. FrontOf(fresh, lru) /\ lru \in Seq(Ids)
    BY UnexpiredFacts DEF IInv, TypeOK
  <2> HIDE DEF fresh
  <2> QED
    BY <2>1, <2>2, FrontProperties
<1> HIDE DEF fresh
<1>3. kept \in Seq(Ids) /\ Sorted(kept, lastUsed) /\ id \notin Range(kept)
  <2>1. FrontOf(kept, fresh)
    BY <1>1, <1>2, KeepWithinLimitFront
  <2> HIDE DEF kept
  <2> QED
    BY <1>1, <1>2, <2>1, FrontProperties, SortedFront
<1> HIDE DEF kept
<1>4. all \in Seq(Ids) /\ Sorted(all, [lastUsed EXCEPT ![id] = t])
  BY <1>1, <1>3, PushProperties, SortedPush
<1> HIDE DEF all
<1>5. FrontOf(KeepWithinLimit(all, maxSessions), all)
  BY <1>1, <1>4, KeepWithinLimitFront
<1>6. Sorted(KeepWithinLimit(all, maxSessions), [lastUsed EXCEPT ![id] = t])
  BY <1>4, <1>5, SortedFront
<1> QED
  BY <1>6 DEF Pushed, all, kept, fresh

(* A step that changes no use and begins no wait keeps the readings. *)
LEMMA ReadingsStay ==
    ASSUME LatestReading, lastUsed' = lastUsed,
           \A c \in Callers : Waiting(c)' => Waiting(c) /\ call'[c].at = call[c].at
    PROVE  LatestReading'
BY DEF LatestReading

(* The one waiting caller uses a session, and waits no more. *)
LEMMA ReadingUsed ==
    ASSUME OneClockReading, NEW c \in Callers, Waiting(c), ~ Waiting(c)',
           \A d \in Callers \ {c} : call'[d] = call[d]
    PROVE  LatestReading'
BY DEF LatestReading, OneClockReading, Waiting

(* The list stays in the order of use, step by step. *)
LEMMA OrderStep ==
    IInv /\ IInv' /\ OneClockReading /\ OrderInv /\ [Next]_vars => OrderInv'
<1> SUFFICES ASSUME IInv, IInv', OneClockReading, OrderInv, [Next]_vars PROVE OrderInv'
  OBVIOUS
<1>1. /\ call \in [Callers -> Calls] /\ lru \in Seq(Ids) /\ lastUsed \in [Ids -> Nat]
      /\ ttl \in Nat /\ clock \in Nat /\ Range(lru) = m
      /\ Sorted(lru, lastUsed) /\ LatestReading
      /\ \A id \in Ids : lastUsed[id] <= clock
  BY DEF IInv, TypeOK, MapMatchesList, NoFutureUse, OrderInv, OldestAtBack, Sorted
<1>2. ASSUME Sorted(lru', lastUsed'), LatestReading' PROVE OrderInv'
  BY <1>2 DEF OrderInv, OldestAtBack, Sorted
<1>3. ASSUME NEW kept, FrontOf(kept, lru), lru' = kept, UNCHANGED <<lastUsed, call>>
      PROVE  OrderInv'
  BY <1>1, <1>2, <1>3, SortedFront, ReadingsStay DEF Waiting
<1>4. ASSUME NEW c \in Callers, NEW op \in {"new", "get"}, NEW id \in MaybeId,
             call' = [call EXCEPT ![c] = [op |-> op, id |-> id, at |-> clock]],
             UNCHANGED <<lru, lastUsed>>
      PROVE  OrderInv'
  <2>1. /\ call'[c].at = clock
        /\ \A d \in Callers \ {c} : call'[d] = call[d]
    BY <1>1, <1>4
  <2>2. LatestReading'
    BY <1>1, <1>4, <2>1 DEF LatestReading, Waiting
  <2> QED
    BY <1>1, <1>2, <1>4, <2>2
<1>5. ASSUME NEW c \in Callers, NewSessionLocked(c) PROVE OrderInv'
  <2>1. PICK id \in Ids \ created :
            lru' = Pushed(id, call[c].at) /\ lastUsed' = [lastUsed EXCEPT ![id] = call[c].at]
    BY <1>5 DEF NewSessionLocked
  <2>2. Waiting(c) /\ call[c].at \in Nat /\ call' = [call EXCEPT ![c] = Idle]
    BY <1>1, <1>5 DEF NewSessionLocked, Return, Waiting, Calls
  <2>3. \A other \in Ids : lastUsed[other] <= call[c].at
    BY <1>1, <2>2 DEF LatestReading
  <2>4. Sorted(lru', lastUsed')
    BY <1>1, <2>1, <2>2, <2>3, SortedPushed
  <2>5. LatestReading'
    BY <1>1, <2>2, ReadingUsed DEF Waiting, Idle
  <2> QED
    BY <1>2, <2>4, <2>5
<1>6. ASSUME NEW c \in Callers, GetHit(c) PROVE OrderInv'
  <2> DEFINE id == call[c].id
             t == call[c].at
             kept == KeepUnexpired(lru, lastUsed, ttl, t)
  <2>1. /\ Waiting(c) /\ t \in Nat /\ call' = [call EXCEPT ![c].op = "check"]
        /\ id \in m \ Dropped(lru, kept)
        /\ lru' = MoveToFront(kept, id) /\ lastUsed' = [lastUsed EXCEPT ![id] = t]
    BY <1>1, <1>6 DEF GetHit, Waiting, Calls
  <2>2. \A other \in Ids : lastUsed[other] <= t
    BY <1>1, <2>1 DEF LatestReading
  <2>3. kept \in Seq(Ids) /\ NoRepeat(kept) /\ Sorted(kept, lastUsed)
    BY <1>1, <2>1, SortedUnexpired
  <2>4. id \in Range(kept) /\ id \in Ids
    BY <1>1, <2>1 DEF Dropped, IInv, TypeOK
  <2> HIDE DEF id, t, kept
  <2>5. /\ Without(kept, id) \in Seq(Ids) /\ id \notin Range(Without(kept, id))
        /\ Sorted(Without(kept, id), lastUsed)
    BY <2>3, <2>4, WithoutProperties, SortedWithout
  <2>6. Sorted(lru', lastUsed')
    BY <1>1, <2>1, <2>2, <2>4, <2>5, SortedPush DEF MoveToFront
  <2>7. LatestReading'
    <3>1. ~ Waiting(c)' /\ \A d \in Callers \ {c} : call'[d] = call[d]
      BY <1>1, <2>1 DEF Waiting, Calls
    <3> QED
      BY <2>1, <3>1, ReadingUsed
  <2> QED
    BY <1>2, <2>6, <2>7
<1>7. ASSUME NEW c \in Callers, GetMiss(c) PROVE OrderInv'
  <2>1. /\ Waiting(c) /\ call[c].at \in Int /\ call' = [call EXCEPT ![c] = Idle]
        /\ lru' = KeepUnexpired(lru, lastUsed, ttl, call[c].at) /\ lastUsed' = lastUsed
    BY <1>1, <1>7 DEF GetMiss, Return, Waiting, Calls
  <2>2. Sorted(lru', lastUsed')
    BY <1>1, <2>1, SortedUnexpired
  <2>3. LatestReading'
    BY <1>1, <2>1, ReadingUsed DEF Waiting, Idle
  <2> QED
    BY <1>2, <2>2, <2>3
<1>8. ASSUME NEW c \in Callers, CheckClosed(c) PROVE OrderInv'
  <2>1. /\ call' = [call EXCEPT ![c] = Idle] /\ lru' = lru /\ lastUsed' = lastUsed
    BY <1>8 DEF CheckClosed, Return, storeVars
  <2>2. LatestReading'
    BY <1>1, <2>1, ReadingsStay DEF Waiting, Idle
  <2> QED
    BY <1>1, <1>2, <2>1, <2>2
<1>9. ASSUME NEW c \in Callers, NEW id \in Ids, Delete(c, id) PROVE OrderInv'
  <2>1. /\ call' = [call EXCEPT ![c] = Idle] /\ lastUsed' = lastUsed
        /\ lru' = IF id \in m THEN Without(lru, id) ELSE lru
    BY <1>9 DEF Delete, Return
  <2>2. LatestReading'
    BY <1>1, <2>1, ReadingsStay DEF Waiting, Idle
  <2>3. Sorted(lru', lastUsed')
    BY <1>1, <2>1, SortedWithout
  <2> QED
    BY <1>2, <2>2, <2>3
<1>10. ASSUME NEW v, SetTTL(v) PROVE OrderInv'
  <2>1. /\ ttl' \in Int /\ lru' = KeepUnexpired(lru, lastUsed, ttl', clock)
        /\ UNCHANGED <<lastUsed, call>>
    BY <1>10 DEF SetTTL, IInv, TypeOK
  <2>2. FrontOf(KeepUnexpired(lru, lastUsed, ttl', clock), lru)
    BY <1>1, <2>1, UnexpiredFacts
  <2> QED
    BY <1>3, <2>1, <2>2
<1>11. ASSUME NEW v, SetMaxSessions(v) PROVE OrderInv'
  <2>1. /\ maxSessions' \in Int /\ lru' = KeepWithinLimit(lru, maxSessions')
        /\ UNCHANGED <<lastUsed, call>>
    BY <1>11 DEF SetMaxSessions, IInv, TypeOK
  <2>2. FrontOf(KeepWithinLimit(lru, maxSessions'), lru)
    BY <1>1, <2>1, KeepWithinLimitFront
  <2> QED
    BY <1>3, <2>1, <2>2
<1>12. ASSUME NEW c \in Callers, BeginNew(c) PROVE OrderInv'
  BY <1>4, <1>12 DEF BeginNew, storeVars, MaybeId
<1>13. ASSUME NEW c \in Callers, NEW id \in Ids, BeginGet(c, id) PROVE OrderInv'
  BY <1>4, <1>13 DEF BeginGet, storeVars, MaybeId
<1>14. CASE Tick \/ UNCHANGED vars
  <2>1. UNCHANGED <<lru, lastUsed, call>>
    BY <1>14 DEF Tick, vars, storeVars
  <2>2. LatestReading'
    BY <1>1, <2>1, ReadingsStay DEF Waiting
  <2> QED
    BY <1>1, <1>2, <2>1, <2>2
<1>15. created \subseteq Ids
  BY DEF IInv, TypeOK
<1> QED
  BY <1>5, <1>6, <1>7, <1>8, <1>9, <1>10, <1>11, <1>12, <1>13, <1>14, <1>15 DEF Next, CallerStep

(* Only a hit under the lock takes a call from the lookup to the check. *)
LEMMA OnlyHitsFind ==
    ASSUME IInv, [Next]_vars, NEW c \in Callers, call[c].op = "get", call'[c].op = "check"
    PROVE  GetHit(c)
<1>1. call \in [Callers -> Calls] /\ created \subseteq Ids
  BY DEF IInv, TypeOK
<1>2. ASSUME NEW d \in Callers, NEW r, call' = [call EXCEPT ![d] = r], r.op # "check"
      PROVE  FALSE
  BY <1>1, <1>2
<1>3. ASSUME NEW d \in Callers, call' = [call EXCEPT ![d] = Idle] PROVE FALSE
  <2>1. Idle.op # "check"
    BY DEF Idle
  <2> HIDE DEF Idle
  <2> QED
    BY <1>2, <1>3, <2>1
<1>4. ASSUME NEW d \in Callers, BeginNew(d) PROVE FALSE
  BY <1>2, <1>4 DEF BeginNew
<1>5. ASSUME NEW d \in Callers, NEW id \in Ids, BeginGet(d, id) PROVE FALSE
  BY <1>2, <1>5 DEF BeginGet
<1>6. ASSUME NEW d \in Callers, GetHit(d) PROVE GetHit(c)
  <2>1. call' = [call EXCEPT ![d].op = "check"]
    BY <1>6 DEF GetHit
  <2>2. d # c => call'[c] = call[c]
    BY <1>1, <2>1
  <2> QED
    BY <1>6, <2>2
<1>7. ASSUME NEW d \in Callers, NewSessionLocked(d) \/ GetMiss(d) \/ CheckClosed(d) PROVE FALSE
  BY <1>3, <1>7 DEF NewSessionLocked, GetMiss, CheckClosed, Return
<1>8. ASSUME NEW d \in Callers, NEW id \in Ids, Delete(d, id) PROVE FALSE
  BY <1>3, <1>8 DEF Delete, Return
<1>9. ~ (call' = call)
  OBVIOUS
<1>10. ~ UNCHANGED vars /\ ~ Tick
  BY <1>9 DEF vars, Tick
<1>11. \A v : ~ SetTTL(v) /\ ~ SetMaxSessions(v)
  BY <1>9 DEF SetTTL, SetMaxSessions
<1> QED
  BY <1>1, <1>4, <1>5, <1>6, <1>7, <1>8, <1>10, <1>11 DEF Next, CallerStep

(* With the list in order, what a lookup finds had not expired. *)
LEMMA HitIsFresh ==
    ASSUME IInv, OrderInv, [Next]_vars PROVE FindsFresh
<1> SUFFICES ASSUME NEW c \in Callers, call[c].op = "get", call'[c].op = "check", ttl > 0
             PROVE  call[c].at - lastUsed[call[c].id] <= ttl
  BY DEF FindsFresh
<1> DEFINE kept == KeepUnexpired(lru, lastUsed, ttl, call[c].at)
<1>1. call[c].id \in m \ Dropped(lru, kept)
  BY OnlyHitsFind DEF GetHit
<1>2. /\ lru \in Seq(Ids) /\ lastUsed \in [Ids -> Nat] /\ ttl \in Nat
      /\ call[c].at \in Nat /\ Range(lru) = m
  BY DEF IInv, TypeOK, MapMatchesList, Calls
<1>3. Sorted(lru, lastUsed)
  BY DEF OrderInv, OldestAtBack, Sorted
<1>4. call[c].id \in Range(kept)
  BY <1>1, <1>2 DEF Dropped
<1> QED
  BY <1>2, <1>3, <1>4, ScanIsComplete

(* While calls take turns, the list and the reading under way are in order.*)
TurnInv == inTurn => OneClockReading /\ OrderInv

(* The order is kept for as long as calls take turns, whatever they are.   *)
THEOREM InTurnInvariance == InTurnSpec => [](IInv /\ TurnInv)
<1>1. InTurnSpec => Spec
  <2>1. InTurnInit => Init
    BY DEF InTurnInit
  <2>2. [InTurnNext]_<<vars, inTurn>> => [Next]_vars
    BY DEF InTurnNext
  <2> QED
    BY <2>1, <2>2, PTL DEF InTurnSpec, Spec
<1>2. Init => OrderInv /\ OneClockReading
  BY DEF Init, OrderInv, OldestAtBack, LatestReading, OneClockReading, Waiting, Idle
<1>3. InTurnInit => TurnInv
  BY <1>2 DEF InTurnInit, TurnInv
<1>4. ASSUME IInv, IInv', TurnInv, [InTurnNext]_<<vars, inTurn>> PROVE TurnInv'
  <2>1. CASE InTurnNext
    BY <1>4, <2>1, OrderStep DEF TurnInv, InTurnNext
  <2>2. CASE UNCHANGED <<vars, inTurn>>
    <3>1. OneClockReading <=> OneClockReading'
      BY <2>2 DEF OneClockReading, Waiting, vars
    <3> QED
      BY <1>4, <2>2, <3>1, OrderStep DEF TurnInv
  <2> QED
    BY <1>4, <2>1, <2>2
<1> QED
  BY <1>1, <1>3, <1>4, Invariance, PTL DEF InTurnSpec

(* As long as at most one call at a time is between its clock reading and  *)
(* the lock, the list is sorted by last use.                               *)
THEOREM OldestAtBackInTurnHolds == InTurnSpec => []OldestAtBackInTurn
<1>1. TurnInv => OldestAtBackInTurn
  BY DEF TurnInv, OrderInv, OldestAtBackInTurn
<1> QED
  BY <1>1, InTurnInvariance, PTL

(* As long as readings and locks come in turn, no lookup revives a session *)
(* that had expired when the lookup began.                                 *)
THEOREM NoExpiredHitInTurnHolds == InTurnSpec => NoExpiredHitInTurn
<1>1. IInv /\ TurnInv /\ [InTurnNext]_<<vars, inTurn>> => [inTurn => FindsFresh]_vars
  BY HitIsFresh DEF TurnInv, InTurnNext
<1> QED
  BY <1>1, InTurnInvariance, PTL DEF InTurnSpec, NoExpiredHitInTurn

(* A caller that uses the store alone can rely on both. *)
COROLLARY SingleCallerOrder ==
    ASSUME \A c, d \in Callers : c = d
    PROVE  Spec => []OldestAtBack /\ [][FindsFresh]_vars
<1>1. OneClockReading
  BY DEF OneClockReading
<1>2. Init => OrderInv
  BY DEF Init, OrderInv, OldestAtBack, LatestReading, Waiting, Idle
<1>3. IInv /\ OrderInv /\ [Next]_vars => [FindsFresh]_vars
  BY HitIsFresh
<1>4. OrderInv => OldestAtBack
  BY DEF OrderInv
<1> QED
  BY <1>1, <1>2, <1>3, <1>4, OrderStep, Invariance, PTL DEF Spec
===============================================================================
