--------------------------- MODULE SessionDirectory ---------------------------
(***************************************************************************)
(* What the shell tool's session store promises its callers, without its   *)
(* list, its clock or its lock.  A directory of sessions: a session lives  *)
(* from the call that creates it until it is removed or forgotten, a dead  *)
(* session never lives again, and each call is answered as if it took      *)
(* effect in one instant between its start and its answer.                 *)
(*                                                                         *)
(* SessionStore implements this module (see Directory there).              *)
(***************************************************************************)
EXTENDS Naturals

CONSTANTS Callers,  \* the goroutines that call the store
          Ids,      \* the session ids that may be drawn
          NoId      \* stands for "no session"

VARIABLES live,     \* sessions that can be looked up
          dead,     \* sessions that were removed or forgotten
          request,  \* request[c]: the call c is waiting for
          answer    \* answer[c]: how c's call was answered, until its next one

dvars == <<live, dead, request, answer>>

Askable == [op : {"idle", "new", "get"}, id : Ids \cup {NoId}]
Answers == [kind : {"none", "new", "found", "missing", "deleted"},
             id : Ids \cup {NoId}]

NoRequest == [op |-> "idle", id |-> NoId]
NoAnswer  == [kind |-> "none", id |-> NoId]

DirTypeOK == /\ live \subseteq Ids
             /\ dead \subseteq Ids
             /\ request \in [Callers -> Askable]
             /\ answer \in [Callers -> Answers]

DirInit == /\ live = {}
           /\ dead = {}
           /\ request = [c \in Callers |-> NoRequest]
           /\ answer = [c \in Callers |-> NoAnswer]

Ask(c) == /\ request[c] = NoRequest
          /\ \E r \in Askable : request' = [request EXCEPT ![c] = r]
          /\ answer' = [answer EXCEPT ![c] = NoAnswer]
          /\ UNCHANGED <<live, dead>>

(* The directory may forget any sessions at any time. *)
Lose(lost) == /\ live' = live \ lost
              /\ dead' = dead \cup lost

Forget == /\ \E lost \in SUBSET live : Lose(lost)
          /\ UNCHANGED <<request, answer>>

Reply(c, kind, id) ==
    /\ answer' = [answer EXCEPT ![c] = [kind |-> kind, id |-> id]]
    /\ request' = [request EXCEPT ![c] = NoRequest]

(* A created session is new, and lives when its creator is told of it. *)
Create(c) ==
    /\ request[c].op = "new"
    /\ \E id \in Ids \ (live \cup dead), lost \in SUBSET live :
          /\ live' = (live \ lost) \cup {id}
          /\ dead' = dead \cup lost
          /\ Reply(c, "new", id)

(* A lookup finds exactly the sessions that live when it is answered. *)
Find(c) ==
    /\ request[c].op = "get"
    /\ \E lost \in SUBSET live : Lose(lost)
    /\ Reply(c, IF request[c].id \in live' THEN "found" ELSE "missing",
             request[c].id)

(* Removal is answered once the session is dead, and costs no other one. *)
Remove(c, id) ==
    /\ request[c] = NoRequest
    /\ Lose(live \cap {id})
    /\ Reply(c, "deleted", id)

DirNext == \/ Forget
           \/ \E c \in Callers : \/ Ask(c)
                                 \/ Create(c)
                                 \/ Find(c)
                                 \/ \E id \in Ids : Remove(c, id)

DirSpec == DirInit /\ [][DirNext]_dvars
===============================================================================
