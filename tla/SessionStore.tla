----------------------------- MODULE SessionStore -----------------------------
(***************************************************************************)
(* internal/executil/shell_session_store.go: the in-memory table of shell  *)
(* sessions, with a time-to-live, a size limit and LRU eviction.           *)
(*                                                                         *)
(* Every operation runs under ss.mu, so its critical section is one step.  *)
(* Two things happen outside the lock and are steps of their own: Get and  *)
(* NewSession read the clock BEFORE they take the lock (BeginNew,          *)
(* BeginGet), and Get reads the session's closed flag AFTER it released it *)
(* (CheckClosed).  Between those steps other callers run.                  *)
(*                                                                         *)
(* The branches for corrupt list entries are unreachable in the package    *)
(* (only NewSession inserts, always a full item) and are left out.         *)
(***************************************************************************)
EXTENDS Integers, Sequences, FiniteSets, SequencesExt

CONSTANTS Callers,      \* goroutines that use the store
          Ids,          \* session ids newSessionID may draw
          NoId,         \* stands for "no session"
          TTLs,         \* arguments of SetTTL
          Limits,       \* arguments of SetMaxSessions
          DefaultTTL,   \* defaultSessionTTL
          DefaultMax,   \* defaultMaxSessions
          MaxTime       \* bound of the clock

ASSUME StoreAssumption ==
    /\ NoId \notin Ids
    /\ TTLs \subseteq Int
    /\ Limits \subseteq Int
    /\ DefaultTTL \in Nat
    /\ DefaultMax \in Nat
    /\ MaxTime \in Nat

VARIABLES lru,          \* ss.lru, front (most recently used) first
          m,            \* the keys of ss.m
          ttl,          \* ss.ttl; 0 means sessions do not expire
          maxSessions,  \* ss.max; 0 means no limit
          lastUsed,     \* lastUsed[id]: the item's lastUsed
          closed,       \* the sessions whose closed flag is set
          created,      \* the sessions NewSession has allocated
          clock,        \* the process's monotonic clock
          call,         \* call[c]: where caller c is, with its captured now
          answer        \* answer[c]: what c's call returned, until the next one

storeVars  == <<lru, m, lastUsed, closed, created>>
policyVars == <<ttl, maxSessions>>
vars == <<lru, m, ttl, maxSessions, lastUsed, closed, created, clock, call, answer>>

MaybeId == Ids \cup {NoId}
Calls   == [op : {"idle", "new", "get", "check"}, id : MaybeId, at : Nat]
Answers == [kind : {"none", "new", "found", "missing", "deleted"}, id : MaybeId]

NoAnswer == [kind |-> "none", id |-> NoId]
Idle == [op |-> "idle", id |-> NoId, at |-> 0]

Init == /\ lru = << >>
        /\ m = {}
        /\ ttl = DefaultTTL
        /\ maxSessions = DefaultMax
        /\ lastUsed = [id \in Ids |-> 0]
        /\ closed = {}
        /\ created = {}
        /\ clock = 0
        /\ call = [c \in Callers |-> Idle]
        /\ answer = [c \in Callers |-> NoAnswer]

-------------------------------------------------------------------------------
(* The two evictions walk the list from the back. *)

(* evictExpiredLocked keeps the list up to the last entry that has not     *)
(* expired at time t.                                                      *)
LastFresh(list, used, life, t) ==
    CHOOSE k \in 0 .. Len(list) :
        /\ k > 0 => t - used[list[k]] <= life
        /\ \A i \in (k + 1) .. Len(list) : t - used[list[i]] > life

KeepUnexpired(list, used, life, t) ==
    IF life <= 0 THEN list
                 ELSE SubSeq(list, 1, LastFresh(list, used, life, t))

(* Faulty variant: the limit is enforced at the wrong end of the list. *)
KeepOldest(list, limit) ==
    IF limit <= 0 \/ Len(list) <= limit THEN list
    ELSE SubSeq(list, Len(list) - limit + 1, Len(list))

KeepWithinLimit(list, limit) ==
    IF limit <= 0 \/ Len(list) <= limit THEN list ELSE SubSeq(list, 1, limit)

Position(list, id) == CHOOSE i \in 1 .. Len(list) : list[i] = id

(* Faulty variant: the element stays in the list. *)
Unremoved(list, id) == list

Without(list, id) == RemoveAt(list, Position(list, id))

(* Faulty variant: a use does not move the entry. *)
StayInPlace(list, id) == list

MoveToFront(list, id) == <<id>> \o Without(list, id)

Dropped(list, kept) == Range(list) \ Range(kept)

(* Faulty variant: a dropped session is not marked closed. *)
ForgetOnly(dropped) == /\ m' = m \ dropped
                       /\ closed' = closed

(* deleteElemLocked for each dropped session: out of the map, and closed. *)
Close(dropped) == /\ m' = m \ dropped
                  /\ closed' = closed \cup dropped

Return(c, kind, id) ==
    /\ answer' = [answer EXCEPT ![c] = [kind |-> kind, id |-> id]]
    /\ call' = [call EXCEPT ![c] = Idle]

-------------------------------------------------------------------------------
(* now := time.Now(), before ss.mu is taken. *)
BeginNew(c) ==
    /\ call[c] = Idle
    /\ call' = [call EXCEPT ![c] = [op |-> "new", id |-> NoId, at |-> clock]]
    /\ answer' = [answer EXCEPT ![c] = NoAnswer]
    /\ UNCHANGED <<storeVars, policyVars, clock>>

BeginGet(c, id) ==
    /\ call[c] = Idle
    /\ call' = [call EXCEPT ![c] = [op |-> "get", id |-> id, at |-> clock]]
    /\ answer' = [answer EXCEPT ![c] = NoAnswer]
    /\ UNCHANGED <<storeVars, policyVars, clock>>

(* Faulty variant: the limit is enforced only before the insert. *)
PushedLast(id, t) ==
    <<id>> \o KeepWithinLimit(KeepUnexpired(lru, lastUsed, ttl, t), maxSessions)

(* The list NewSession leaves when it inserts id at time t. *)
Pushed(id, t) ==
    KeepWithinLimit(
        <<id>> \o KeepWithinLimit(KeepUnexpired(lru, lastUsed, ttl, t), maxSessions),
        maxSessions)

NewSessionLocked(c) ==
    /\ call[c].op = "new"
    /\ \E id \in Ids \ created :
          LET kept    == Pushed(id, call[c].at)
              dropped == (Range(lru) \cup {id}) \ Range(kept)
          IN  /\ lru' = kept
              /\ m' = (m \cup {id}) \ dropped
              /\ closed' = closed \cup dropped
              /\ created' = created \cup {id}
              /\ lastUsed' = [lastUsed EXCEPT ![id] = call[c].at]
              /\ Return(c, "new", id)
    /\ UNCHANGED <<policyVars, clock>>

(* Faulty variant: Get does not evict what has expired. *)
HitWithoutEviction(c) ==
    /\ call[c].op = "get"
    /\ call[c].id \in m
    /\ lru' = MoveToFront(lru, call[c].id)
    /\ lastUsed' = [lastUsed EXCEPT ![call[c].id] = call[c].at]
    /\ call' = [call EXCEPT ![c].op = "check"]
    /\ UNCHANGED <<m, closed, created, policyVars, clock, answer>>

(* Get under the lock: expired sessions go first, then the lookup. *)
GetHit(c) ==
    LET id   == call[c].id
        kept == KeepUnexpired(lru, lastUsed, ttl, call[c].at)
    IN  /\ call[c].op = "get"
        /\ id \in m \ Dropped(lru, kept)
        /\ Close(Dropped(lru, kept))
        /\ lru' = MoveToFront(kept, id)
        /\ lastUsed' = [lastUsed EXCEPT ![id] = call[c].at]
        /\ call' = [call EXCEPT ![c].op = "check"]
        /\ UNCHANGED <<created, policyVars, clock, answer>>

GetMiss(c) ==
    LET id   == call[c].id
        kept == KeepUnexpired(lru, lastUsed, ttl, call[c].at)
    IN  /\ call[c].op = "get"
        /\ id \notin m \ Dropped(lru, kept)
        /\ Close(Dropped(lru, kept))
        /\ lru' = kept
        /\ Return(c, "missing", id)
        /\ UNCHANGED <<lastUsed, created, policyVars, clock>>

(* Faulty variant: the session found under the lock is returned unchecked. *)
ReturnUnchecked(c) ==
    /\ call[c].op = "check"
    /\ Return(c, "found", call[c].id)
    /\ UNCHANGED <<storeVars, policyVars, clock>>

(* Get after ss.mu: s.closed under s.mu. *)
CheckClosed(c) ==
    /\ call[c].op = "check"
    /\ Return(c, IF call[c].id \in closed THEN "missing" ELSE "found", call[c].id)
    /\ UNCHANGED <<storeVars, policyVars, clock>>

Delete(c, id) ==
    /\ call[c] = Idle
    /\ IF id \in m THEN Close({id}) /\ lru' = Without(lru, id)
                   ELSE UNCHANGED <<m, closed, lru>>
    /\ Return(c, "deleted", id)
    /\ UNCHANGED <<lastUsed, created, policyVars, clock>>

(* Faulty variant: a negative TTL is stored as it is. *)
SetTTLUnclamped(v) ==
    /\ ttl' = v
    /\ lru' = KeepUnexpired(lru, lastUsed, ttl', clock)
    /\ Close(Dropped(lru, lru'))
    /\ UNCHANGED <<maxSessions, lastUsed, created, clock, call, answer>>

(* SetTTL reads the clock under the lock. *)
SetTTL(v) ==
    /\ ttl' = IF v < 0 THEN 0 ELSE v
    /\ lru' = KeepUnexpired(lru, lastUsed, ttl', clock)
    /\ Close(Dropped(lru, lru'))
    /\ UNCHANGED <<maxSessions, lastUsed, created, clock, call, answer>>

SetMaxSessions(v) ==
    /\ maxSessions' = IF v < 0 THEN 0 ELSE v
    /\ lru' = KeepWithinLimit(lru, maxSessions')
    /\ Close(Dropped(lru, lru'))
    /\ UNCHANGED <<ttl, lastUsed, created, clock, call, answer>>

(* Time passes; MaxTime bounds the model. *)
Tick == /\ clock < MaxTime
        /\ clock' = clock + 1
        /\ UNCHANGED <<storeVars, policyVars, call, answer>>

CallerStep(c) == \/ BeginNew(c)
                 \/ NewSessionLocked(c)
                 \/ \E id \in Ids : BeginGet(c, id)
                 \/ \E id \in created : Delete(c, id)
                 \/ GetHit(c)
                 \/ GetMiss(c)
                 \/ CheckClosed(c)

Next == \/ Tick
        \/ \E v \in TTLs : SetTTL(v)
        \/ \E v \in Limits : SetMaxSessions(v)
        \/ \E c \in Callers : CallerStep(c)

Spec == Init /\ [][Next]_vars

-------------------------------------------------------------------------------
(* Size() *)
Size == Cardinality(m)

(* The store's state has its types; the policy is never negative. *)
TypeOK == /\ lru \in Seq(Ids)
          /\ m \subseteq Ids
          /\ ttl \in Nat
          /\ maxSessions \in Nat
          /\ lastUsed \in [Ids -> Nat]
          /\ closed \subseteq Ids
          /\ created \subseteq Ids
          /\ clock \in Nat
          /\ call \in [Callers -> Calls]
          /\ answer \in [Callers -> Answers]

(* The map and the list, which every operation updates side by side, hold  *)
(* the same sessions, each of them once.                                   *)
MapMatchesList ==
    /\ Range(lru) = m
    /\ \A i, j \in 1 .. Len(lru) : lru[i] = lru[j] => i = j

(* A session is closed exactly when it has left the store: callers that    *)
(* still hold a pointer learn of an eviction, and no stored session is     *)
(* unusable.                                                               *)
ClosedExactlyWhenGone ==
    /\ m \cap closed = {}
    /\ created = m \cup closed

(* What Size() reports never exceeds a limit that is set, whatever the     *)
(* order of inserts and limit changes.                                     *)
SizeWithinLimit == maxSessions > 0 => Size <= maxSessions

(* A session leaves the store only for a reason the caller can know: it    *)
(* was deleted by id, it has really been unused for longer than the TTL,   *)
(* or the store is full of sessions that were ahead of it in the LRU list  *)
(* (a session that is new counts as ahead).                                *)
TooOld(id) == ttl' > 0 /\ clock - lastUsed[id] > ttl'

PushedOut(id) ==
    /\ maxSessions' > 0
    /\ Len(lru') = maxSessions'
    /\ \A other \in m \cap m' : Position(lru, other) < Position(lru, id)

Justified(id) == (\E c \in Callers : Delete(c, id)) \/ TooOld(id) \/ PushedOut(id)

EvictionJustified == [][\A id \in m \ m' : Justified(id)]_vars

(* "Oldest at back": the list is sorted by last use, the order that        *)
(* evictExpiredLocked relies on when it stops at the first entry that has  *)
(* not expired (shell_session_store.go:126).                               *)
OldestAtBack ==
    \A i, j \in 1 .. Len(lru) : i < j => lastUsed[lru[i]] >= lastUsed[lru[j]]

(* What a lookup finds had not expired when the lookup began. *)
FindsFresh ==
    \A c \in Callers :
        call[c].op = "get" /\ call'[c].op = "check" /\ ttl > 0
            => call[c].at - lastUsed[call[c].id] <= ttl

(* The store behaves as the directory of SessionDirectory: seen from its   *)
(* callers every call is atomic, although Get spans three steps.           *)
Directory ==
    INSTANCE SessionDirectory
        WITH live <- m,
             dead <- closed,
             request <- [c \in Callers |->
                           [op |-> IF call[c].op = "check" THEN "get" ELSE call[c].op,
                            id |-> call[c].id]]

DirectorySpec == Directory!DirSpec
===============================================================================
