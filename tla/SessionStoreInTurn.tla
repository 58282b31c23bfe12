-------------------------- MODULE SessionStoreInTurn --------------------------
(* SessionStore, and whether its calls have taken turns so far: whether at *)
(* most one at a time was between its reading of the clock and the lock.   *)
(* That is no state of the code. It tells the behaviours in which the LRU  *)
(* list is in order from those in which goroutines that read the clock     *)
(* before they take ss.mu have taken it in the other order.                *)
EXTENDS SessionStore

VARIABLE inTurn

Waiting(c) == call[c].op \in {"new", "get"}
OneClockReading == \A c, d \in Callers : Waiting(c) /\ Waiting(d) => c = d

InTurnInit == Init /\ inTurn = TRUE
InTurnNext == Next /\ inTurn' = (inTurn /\ OneClockReading')
InTurnSpec == InTurnInit /\ [][InTurnNext]_<<vars, inTurn>>

-------------------------------------------------------------------------------
(* As long as calls take turns the list is sorted by last use, the order   *)
(* that evictExpiredLocked relies on when it stops at the first entry that *)
(* has not expired (shell_session_store.go:126). A single caller always    *)
(* takes turns; of two that do not, see OldestAtBack.                      *)
OldestAtBackInTurn == inTurn => OldestAtBack

(* As long as calls take turns a lookup never revives a session that had   *)
(* expired when the lookup began: the scan has missed none.                *)
NoExpiredHitInTurn == [][inTurn => FindsFresh]_vars
===============================================================================
