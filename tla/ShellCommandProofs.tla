-------------------------- MODULE ShellCommandProofs --------------------------
(* Proofs about ShellCommand, for any number of goroutines, sessions and   *)
(* requests.  The handler uses the store through its operations only, so   *)
(* the store's invariant holds of it; what a call needs to know of the     *)
(* other calls' effects on the store comes from SessionDirectory, which    *)
(* the store implements.                                                   *)
EXTENDS ShellCommand, SessionStoreProofs

(* What a call knows by itself at each place. *)
JobOK(j) ==
    /\ j.pc = "undo" => j.made # NoId
    /\ j.pc \notin {"ready", "session", "undo"} => j.sess # NoId
    /\ j.pc \in {"env", "setdir", "addenv", "run"} =>
          j.cwd \in Dirs \ {OutsideDir} /\ ValidEnv(j.req.env)
    /\ j.pc \in {"setdir", "addenv", "run"} => ValidEnv(j.env)

(* What it knows of the session it made. *)
Owned(j, everMade, live) ==
    /\ j.made # NoId => j.made \in everMade
    /\ j.pc = "ready" /\ j.outcome = "error" => j.made \notin live

SettingsOK == \A id \in Ids : workdir[id] # OutsideDir /\ ValidEnv(env[id])

SInv == /\ IInv
        /\ ShellTypeOK
        /\ SettingsOK
        /\ \A c \in Callers : JobOK(job[c]) /\ Owned(job[c], created, m)

(* The step of a call from job[c] to x. *)
Moves(c, x) ==
    /\ x \in Jobs
    /\ job' = [job EXCEPT ![c] = x]
    /\ JobOK(x)
    /\ Owned(x, created', m')

(* A session that was created and is gone stays gone. *)
LEMMA GoneForGood ==
    ASSUME IInv, IInv', [Next]_vars
    PROVE  /\ created \subseteq created'
           /\ m' \cap created \subseteq m
<1>1. /\ created = m \cup closed /\ created' = m' \cup closed'
      /\ m \cap closed = {}
  BY DEF IInv, ClosedExactlyWhenGone
<1>2. [Directory!DirNext]_(Directory!dvars)
  BY StepRefines
<1>3. /\ m \cup closed \subseteq m' \cup closed'
      /\ m' \cap (m \cup closed) \subseteq m
  <2>1. CASE Directory!Forget
    BY <2>1 DEF Directory!Forget, Directory!Lose
  <2>2. ASSUME NEW c \in Callers, Directory!Ask(c) PROVE <1>3
    BY <2>2 DEF Directory!Ask
  <2>3. ASSUME NEW c \in Callers, Directory!Create(c) PROVE <1>3
    BY <2>3 DEF Directory!Create
  <2>4. ASSUME NEW c \in Callers, Directory!Find(c) PROVE <1>3
    BY <2>4 DEF Directory!Find, Directory!Lose
  <2>5. ASSUME NEW c \in Callers, NEW id \in Ids, Directory!Remove(c, id) PROVE <1>3
    BY <2>5 DEF Directory!Remove, Directory!Lose
  <2>6. CASE UNCHANGED Directory!dvars
    BY <2>6 DEF Directory!dvars
  <2> QED
    BY <1>2, <2>1, <2>2, <2>3, <2>4, <2>5, <2>6 DEF Directory!DirNext
<1> QED
  BY <1>1, <1>3

(* Merging two environments gives an environment; of valid ones, a valid   *)
(* one; and what was set stays set.                                        *)
LEMMA MergedProperties ==
    ASSUME NEW old \in Envs, NEW new \in Envs
    PROVE  /\ Merged(old, new) \in Envs
           /\ ValidEnv(old) /\ ValidEnv(new) => ValidEnv(Merged(old, new))
           /\ \A k \in Keys : old[k] # Unset => Merged(old, new)[k] # Unset
BY DEF Merged, Envs, ValidEnv

(* A call that fails knows its session, if it has to delete one. *)
LEMMA FailMoves ==
    ASSUME SInv, NEW c \in Callers, ~ At(c, "ready"), Fail(c),
           created \subseteq created', m' \cap created \subseteq m, m' \subseteq Ids
    PROVE  \E x : Moves(c, x)
<1> DEFINE x == IF job[c].made = NoId
                THEN Ended(c, "error", job[c].results)
                ELSE [job[c] EXCEPT !.pc = "undo"]
<1>1. job \in [Callers -> Jobs] /\ job[c] \in Jobs /\ Owned(job[c], created, m)
  BY DEF SInv, ShellTypeOK
<1>2. job' = [job EXCEPT ![c] = x]
  BY <1>1 DEF Fail, Jobs
<1>3. CASE job[c].made = NoId
  <2>1. x = [pc |-> "ready", req |-> job[c].req, sess |-> NoId, made |-> NoId,
             cwd |-> NoDir, env |-> NoEnv, results |-> job[c].results,
             outcome |-> "error"]
    BY <1>3 DEF Ended, Fresh
  <2>2. NoId \in MaybeId /\ NoEnv \in Envs /\ NoDir \in Dirs \cup {NoDir}
    BY DEF MaybeId, NoEnv, Envs
  <2>3. x \in Jobs
    BY <1>1, <2>1, <2>2 DEF Jobs
  <2>4. NoId \notin m'
    BY StoreAssumption
  <2>5. JobOK(x) /\ Owned(x, created', m')
    BY <2>1, <2>4 DEF JobOK, Owned
  <2> QED
    BY <1>2, <2>3, <2>5 DEF Moves
<1>4. CASE job[c].made # NoId
  <2>1. x \in Jobs /\ x.pc = "undo" /\ x.made = job[c].made
    BY <1>1, <1>4 DEF Jobs
  <2>2. JobOK(x) /\ Owned(x, created', m')
    <3> HIDE DEF x
    <3> QED
      BY <1>1, <1>4, <2>1 DEF JobOK, Owned
  <2> QED
    BY <1>2, <2>1, <2>2 DEF Moves
<1> QED
  BY <1>3, <1>4

(* A call that has not begun is a call. *)
LEMMA FreshCall ==
    /\ Fresh \in Jobs
    /\ Fresh.pc = "ready" /\ Fresh.made = NoId /\ Fresh.outcome = "none"
<1>1. /\ NoId \in MaybeId /\ NoEnv \in Envs /\ NoDir \in Dirs \cup {NoDir}
      /\ << >> \in Seq({"zero", "nonzero"}) /\ NoRequest \in Requests \cup {NoRequest}
  BY DEF MaybeId, NoEnv, Envs
<1> QED
  BY <1>1 DEF Fresh, Jobs

(* A call that returns keeps what its caller may ask about. *)
LEMMA EndedMoves ==
    ASSUME SInv, NEW c \in Callers, NEW outcome \in {"ok", "error"},
           NEW results \in Seq({"zero", "nonzero"}),
           job' = [job EXCEPT ![c] = Ended(c, outcome, results)],
           created \subseteq created', m' \subseteq Ids,
           outcome = "error" => job[c].made \notin m'
    PROVE  \E x : Moves(c, x)
<1> DEFINE x == Ended(c, outcome, results)
<1>1. job[c] \in Jobs /\ Owned(job[c], created, m)
  BY DEF SInv, ShellTypeOK
<1>2. /\ x \in Jobs
      /\ x.pc = "ready" /\ x.made = job[c].made /\ x.outcome = outcome
  BY <1>1, FreshCall DEF Ended, Jobs
<1> HIDE DEF x
<1>3. JobOK(x) /\ Owned(x, created', m')
  BY <1>1, <1>2 DEF JobOK, Owned
<1> QED
  BY <1>2, <1>3 DEF Moves, x

(* The requests of calls have their shape. *)
LEMMA RequestTyped ==
    ASSUME SInv, NEW c \in Callers
    PROVE  /\ job[c] \in Jobs
           /\ job[c].req \in RequestShape
<1>1. job[c] \in Jobs
  BY DEF SInv, ShellTypeOK
<1>2. NoRequest \in RequestShape
  BY DEF NoRequest, RequestShape, MaybeId, NoEnv, Envs
<1> QED
  BY <1>1, <1>2, ShellAssumption DEF Jobs

(* The shell tool's steps are steps of the store, or leave it alone. *)
LEMMA StoreStep == SInv /\ [ShellNext]_shellVars => [Next]_vars
<1> SUFFICES ASSUME SInv, [ShellNext]_shellVars PROVE [Next]_vars
  OBVIOUS
<1>1. ASSUME NEW c \in Callers, NEW r \in Requests, Start(c, r) PROVE [Next]_vars
  <2>1. r.session \in Ids \cup {NoId}
    BY ShellAssumption DEF RequestShape, MaybeId
  <2>2. UNCHANGED vars \/ BeginNew(c) \/ \E id \in Ids : BeginGet(c, id)
    BY <1>1, <2>1 DEF Start
  <2> QED
    BY <2>2 DEF Next, CallerStep
<1>2. ASSUME NEW c \in Callers, Undo(c) PROVE [Next]_vars
  <2>1. Delete(c, job[c].made) /\ job[c].made \in created
    BY <1>2 DEF SInv, JobOK, Owned, Undo, At
  <2> QED
    BY <2>1 DEF Next, CallerStep
<1>3. ASSUME NEW c \in Callers, Step(c) PROVE [Next]_vars
  BY <1>2, <1>3 DEF Step, CreateSession, LookUp, LookUpFails, LookUpChecked, ChooseWorkdir,
      ChooseEnv, PersistWorkdir, PersistEnv, RunCommand, Cancelled, CommandRefused, Finish,
      Next, CallerStep
<1>4. CASE PassTime
  BY <1>4 DEF PassTime, Next
<1>5. CASE UNCHANGED shellVars
  BY <1>5 DEF shellVars
<1> QED
  BY <1>1, <1>3, <1>4, <1>5 DEF ShellNext

(* The checks at the start leave a call that is over or one without a session. *)
LEMMA StartMoves ==
    ASSUME SInv, NEW c \in Callers, NEW r \in Requests, Start(c, r), m' \subseteq Ids
    PROVE  \E x : Moves(c, x)
<1> DEFINE over == [Fresh EXCEPT !.req = r, !.outcome = "error"]
           begun == [Fresh EXCEPT !.req = r, !.pc = "session"]
<1>1. job' = [job EXCEPT ![c] = over] \/ job' = [job EXCEPT ![c] = begun]
  BY DEF Start
<1>2. r \in Requests \cup {NoRequest}
  OBVIOUS
<1>3. /\ over \in Jobs /\ over.pc = "ready" /\ over.made = NoId
      /\ begun \in Jobs /\ begun.pc = "session" /\ begun.made = NoId
  BY <1>2, FreshCall DEF Jobs
<1> HIDE DEF over, begun
<1>4. over \in Jobs /\ begun \in Jobs
  BY <1>3
<1>5. NoId \notin m'
  BY StoreAssumption
<1>6. /\ JobOK(over) /\ Owned(over, created', m')
      /\ JobOK(begun) /\ Owned(begun, created', m')
  BY <1>3, <1>5 DEF JobOK, Owned
<1> QED
  BY <1>1, <1>4, <1>6 DEF Moves

(* Where a call may use its session, it has one. *)
LEMMA HasSession ==
    ASSUME SInv, NEW c \in Callers, job[c].pc \notin {"ready", "session", "undo"}
    PROVE  /\ job[c].sess \in Ids
           /\ workdir[job[c].sess] \in (Dirs \cup {NoDir}) \ {OutsideDir}
           /\ env[job[c].sess] \in Envs /\ ValidEnv(env[job[c].sess])
<1>1. job[c].sess \in Ids
  BY DEF SInv, ShellTypeOK, Jobs, MaybeId, JobOK
<1> QED
  BY <1>1 DEF SInv, ShellTypeOK, SettingsOK

SettingsKept == workdir' = workdir /\ env' = env /\ calls' = calls

(* Taking, finding or missing a session. *)
LEMMA SessionMoves ==
    ASSUME SInv, NEW c \in Callers, m' \subseteq Ids,
           created \subseteq created', m' \cap created \subseteq m,
           CreateSession(c) \/ LookUp(c) \/ LookUpFails(c) \/ LookUpChecked(c)
    PROVE  (\E x : Moves(c, x)) /\ SettingsKept
<1>1. job \in [Callers -> Jobs] /\ job[c] \in Jobs /\ JobOK(job[c]) /\ Owned(job[c], created, m)
  BY DEF SInv, ShellTypeOK
<1>2. SettingsKept
  BY DEF CreateSession, LookUp, LookUpFails, LookUpChecked, SettingsKept
<1>3. job[c].pc = "session"
  BY DEF CreateSession, LookUp, LookUpFails, LookUpChecked, At
<1>4. CASE CreateSession(c)
  <2>1. PICK id \in Ids : created' = created \cup {id}
                          /\ answer' = [answer EXCEPT ![c] = [kind |-> "new", id |-> id]]
    BY <1>4 DEF CreateSession, NewSessionLocked, Return
  <2>2. answer \in [Callers -> Answers]
    BY DEF SInv, IInv, TypeOK
  <2>3. answer'[c].id = id /\ id # NoId /\ id \in MaybeId /\ id \in created'
    BY <2>1, <2>2, StoreAssumption DEF MaybeId
  <2> DEFINE x == [job[c] EXCEPT !.pc = "workdir", !.sess = id, !.made = id]
  <2>4. job' = [job EXCEPT ![c] = x]
    BY <1>1, <1>4, <2>3 DEF CreateSession
  <2>5. x \in Jobs /\ x.pc = "workdir" /\ x.sess = id /\ x.made = id
    BY <1>1, <2>3 DEF Jobs
  <2> HIDE DEF x
  <2>6. JobOK(x) /\ Owned(x, created', m')
    BY <2>3, <2>5 DEF JobOK, Owned
  <2> QED
    BY <1>2, <2>4, <2>5, <2>6 DEF Moves
<1>5. CASE LookUp(c)
  <2>1. job' = [job EXCEPT ![c] = job[c]]
    BY <1>1, <1>5 DEF LookUp
  <2>2. Owned(job[c], created', m')
    BY <1>1, <1>3 DEF Owned
  <2> QED
    BY <1>1, <1>2, <2>1, <2>2 DEF Moves
<1>6. CASE Fail(c)
  BY <1>2, <1>3, <1>6, FailMoves DEF At
<1>7. CASE LookUpChecked(c) /\ answer'[c].kind = "found"
  <2>1. call[c].op = "check" /\ call[c].id \in Ids
    BY <1>7 DEF LookUpChecked, CheckClosed, SInv, IInv, CheckedWasCreated, TypeOK
  <2>2. answer \in [Callers -> Answers]
    BY DEF SInv, IInv, TypeOK
  <2>3. answer'[c].id = call[c].id
    BY <1>7, <2>2 DEF LookUpChecked, CheckClosed, Return
  <2> DEFINE x == [job[c] EXCEPT !.pc = "workdir", !.sess = call[c].id]
  <2>4. job' = [job EXCEPT ![c] = x]
    BY <1>1, <1>7, <2>3 DEF LookUpChecked
  <2>5. x \in Jobs /\ x.pc = "workdir" /\ x.sess = call[c].id /\ x.made = job[c].made
    BY <1>1, <2>1 DEF Jobs, MaybeId
  <2> HIDE DEF x
  <2>6. JobOK(x) /\ Owned(x, created', m')
    BY <1>1, <2>1, <2>5, StoreAssumption DEF JobOK, Owned
  <2> QED
    BY <1>2, <2>4, <2>5, <2>6 DEF Moves
<1> QED
  BY <1>4, <1>5, <1>6, <1>7 DEF LookUpFails, LookUpChecked

(* Choosing a directory and an environment. *)
LEMMA ChoiceMoves ==
    ASSUME SInv, NEW c \in Callers, m' \subseteq Ids,
           created \subseteq created', m' \cap created \subseteq m,
           ChooseWorkdir(c) \/ ChooseEnv(c)
    PROVE  (\E x : Moves(c, x)) /\ SettingsKept
<1>1. job \in [Callers -> Jobs] /\ job[c] \in Jobs /\ JobOK(job[c]) /\ Owned(job[c], created, m)
  BY DEF SInv, ShellTypeOK
<1>2. SettingsKept
  BY DEF ChooseWorkdir, ChooseEnv, SettingsKept
<1>3. job[c].pc \in {"workdir", "env"} /\ ~ At(c, "ready")
  BY DEF ChooseWorkdir, ChooseEnv, At
<1>4. /\ job[c].sess \in Ids /\ env[job[c].sess] \in Envs /\ ValidEnv(env[job[c].sess])
      /\ workdir[job[c].sess] \in (Dirs \cup {NoDir}) \ {OutsideDir}
  BY <1>3, HasSession
<1>5. CASE Fail(c)
  BY <1>2, <1>3, <1>5, FailMoves
<1>6. CASE ChooseWorkdir(c) /\ ~ Fail(c)
  <2> DEFINE dir == Candidate(c)
             x == [job[c] EXCEPT !.pc = "env", !.cwd = dir]
  <2>1. TRUE \in Verifies(dir) /\ ValidEnv(job[c].req.env)
    BY <1>6 DEF ChooseWorkdir, Verifies
  <2>2. dir \in Dirs \ {OutsideDir}
    <3>1. job[c].req \in RequestShape
      BY RequestTyped
    <3>2. dir \in Dirs
      BY <1>4, <3>1, ShellAssumption DEF Candidate, RequestShape
    <3> QED
      BY <2>1, <3>2 DEF Verifies
  <2>3. job' = [job EXCEPT ![c] = x]
    BY <1>1, <1>6 DEF ChooseWorkdir
  <2> HIDE DEF dir
  <2>4. /\ x \in Jobs /\ x.pc = "env" /\ x.cwd = dir /\ x.sess = job[c].sess
        /\ x.made = job[c].made /\ x.req = job[c].req
    BY <1>1, <2>2 DEF Jobs
  <2> HIDE DEF x
  <2>5. JobOK(x) /\ Owned(x, created', m')
    BY <1>1, <1>4, <2>1, <2>2, <2>4, StoreAssumption DEF JobOK, Owned
  <2> QED
    BY <1>2, <2>3, <2>4, <2>5 DEF Moves
<1>7. CASE ChooseEnv(c) /\ ~ Fail(c)
  <2> DEFINE merged == Merged(env[job[c].sess], job[c].req.env)
             x == [job[c] EXCEPT !.pc = "setdir", !.env = merged]
  <2>1. job[c].pc = "env" /\ job[c].req \in RequestShape
    BY <1>7, RequestTyped DEF ChooseEnv, At
  <2>2. merged \in Envs /\ ValidEnv(merged)
    <3>1. job[c].req.env \in Envs /\ ValidEnv(job[c].req.env)
      BY <1>1, <2>1 DEF JobOK, RequestShape
    <3> QED
      BY <1>4, <3>1, MergedProperties
  <2>3. job' = [job EXCEPT ![c] = x]
    BY <1>1, <1>7 DEF ChooseEnv
  <2> HIDE DEF merged
  <2>4. /\ x \in Jobs /\ x.pc = "setdir" /\ x.env = merged /\ x.sess = job[c].sess
        /\ x.made = job[c].made /\ x.req = job[c].req /\ x.cwd = job[c].cwd
    BY <1>1, <2>2 DEF Jobs
  <2> HIDE DEF x
  <2>5. JobOK(x) /\ Owned(x, created', m')
    BY <1>1, <2>1, <2>2, <2>4 DEF JobOK, Owned
  <2> QED
    BY <1>2, <2>3, <2>4, <2>5 DEF Moves
<1> QED
  BY <1>5, <1>6, <1>7

SettingsGood == /\ workdir \in [Ids -> Dirs \cup {NoDir}]
                /\ env \in [Ids -> Envs]
                /\ SettingsOK

(* A change of place changes nothing a call knows. *)
LEMMA GotoMoves ==
    ASSUME SInv, NEW c \in Callers, NEW pc \in {"addenv", "run"},
           job[c].pc \in {"setdir", "addenv"}, Goto(c, pc),
           created \subseteq created'
    PROVE  \E x : Moves(c, x)
<1>1. job \in [Callers -> Jobs] /\ job[c] \in Jobs /\ JobOK(job[c]) /\ Owned(job[c], created, m)
  BY DEF SInv, ShellTypeOK
<1> DEFINE x == [job[c] EXCEPT !.pc = pc]
<1>2. job' = [job EXCEPT ![c] = x]
  BY <1>1 DEF Goto
<1>3. /\ x \in Jobs /\ x.pc = pc /\ x.env = job[c].env /\ x.sess = job[c].sess
      /\ x.made = job[c].made /\ x.req = job[c].req /\ x.cwd = job[c].cwd
  BY <1>1 DEF Jobs
<1> HIDE DEF x
<1>4. JobOK(x) /\ Owned(x, created', m')
  BY <1>1, <1>3 DEF JobOK, Owned
<1> QED
  BY <1>2, <1>3, <1>4 DEF Moves

(* Storing the directory and the environment of the request. *)
LEMMA PersistMoves ==
    ASSUME SInv, NEW c \in Callers, m' \subseteq Ids,
           created \subseteq created', m' \cap created \subseteq m,
           PersistWorkdir(c) \/ PersistEnv(c)
    PROVE  (\E x : Moves(c, x)) /\ SettingsGood' /\ calls' = calls
<1>1. SettingsGood /\ job[c] \in Jobs /\ JobOK(job[c])
  BY DEF SInv, ShellTypeOK, SettingsGood
<1>2. job[c].pc \in {"setdir", "addenv"} /\ ~ At(c, "ready")
  BY DEF PersistWorkdir, PersistEnv, At
<1>3. calls' = calls
  BY DEF PersistWorkdir, PersistEnv
<1>4. /\ job[c].sess \in Ids /\ env[job[c].sess] \in Envs /\ ValidEnv(env[job[c].sess])
      /\ job[c].cwd \in Dirs \ {OutsideDir} /\ ValidEnv(job[c].req.env)
      /\ job[c].req.env \in Envs
  BY <1>1, <1>2, HasSession, RequestTyped DEF JobOK, RequestShape
<1>5. CASE PersistWorkdir(c)
  <2>1. \E x : Moves(c, x)
    BY <1>2, <1>5, GotoMoves DEF PersistWorkdir
  <2>2. SettingsGood'
    BY <1>1, <1>4, <1>5 DEF PersistWorkdir, SettingsGood, SettingsOK
  <2> QED
    BY <1>3, <2>1, <2>2
<1>6. CASE PersistEnv(c) /\ Fail(c)
  <2>1. \E x : Moves(c, x)
    BY <1>2, <1>6, FailMoves
  <2>2. SettingsGood'
    <3>1. CASE env' = env
      BY <1>1, <1>6, <3>1 DEF PersistEnv, SettingsGood, SettingsOK
    <3>2. CASE env' # env
      <4>1. Goto(c, "run")
        BY <1>6, <3>2 DEF PersistEnv
      <4>2. job[c].made = NoId \/ job'[c].pc = "undo"
        BY <1>1, <1>6, <4>1 DEF Fail, SInv, ShellTypeOK, Jobs
      <4>3. job'[c].pc = "run"
        BY <1>1, <4>1 DEF Goto, SInv, ShellTypeOK, Jobs
      <4>4. job[c].made = NoId /\ job' = [job EXCEPT ![c] = Ended(c, "error", job[c].results)]
        BY <1>6, <4>2, <4>3 DEF Fail
      <4>5. Ended(c, "error", job[c].results).pc = "ready"
        BY <1>1, FreshCall DEF Ended, Jobs
      <4>6. job'[c].pc = "ready"
        BY <4>4, <4>5 DEF SInv, ShellTypeOK
      <4> QED
        BY <4>3, <4>6
    <3> QED
      BY <3>1, <3>2
  <2> QED
    BY <1>3, <2>1, <2>2
<1>7. CASE PersistEnv(c) /\ ~ Fail(c)
  <2>1. Goto(c, "run")
    BY <1>7 DEF PersistEnv
  <2>2. \E x : Moves(c, x)
    BY <1>2, <2>1, GotoMoves
  <2>3. CASE env' = env
    BY <1>1, <1>3, <1>7, <2>2, <2>3 DEF PersistEnv, SettingsGood, SettingsOK
  <2>4. CASE env' = [env EXCEPT ![job[c].sess] = Merged(@, job[c].req.env)]
    <3> DEFINE merged == Merged(env[job[c].sess], job[c].req.env)
    <3>1. merged \in Envs /\ ValidEnv(merged)
      BY <1>4, MergedProperties
    <3>2. env' = [env EXCEPT ![job[c].sess] = merged]
      BY <2>4
    <3>3. workdir' = workdir
      BY <1>7 DEF PersistEnv
    <3> HIDE DEF merged
    <3>4. SettingsGood'
      BY <1>1, <1>4, <3>1, <3>2, <3>3 DEF SettingsGood, SettingsOK
    <3> QED
      BY <1>3, <2>2, <3>4
  <2> QED
    BY <1>7, <2>3, <2>4 DEF PersistEnv
<1> QED
  BY <1>5, <1>6, <1>7

(* The command loop, and the ways out of it. *)
LEMMA LoopMoves ==
    ASSUME SInv, NEW c \in Callers, m' \subseteq Ids,
           created \subseteq created', m' \cap created \subseteq m,
           RunCommand(c) \/ Cancelled(c) \/ CommandRefused(c) \/ Finish(c)
    PROVE  (\E x : Moves(c, x)) /\ SettingsKept
<1>1. job \in [Callers -> Jobs] /\ job[c] \in Jobs /\ JobOK(job[c]) /\ Owned(job[c], created, m)
  BY DEF SInv, ShellTypeOK
<1>2. SettingsKept
  BY DEF RunCommand, Cancelled, CommandRefused, Finish, SettingsKept
<1>3. job[c].pc = "run" /\ ~ At(c, "ready")
  BY DEF RunCommand, Cancelled, CommandRefused, Finish, At
<1>4. job[c].results \in Seq({"zero", "nonzero"})
  BY <1>1 DEF Jobs
<1>5. CASE Cancelled(c) \/ CommandRefused(c)
  BY <1>2, <1>3, <1>5, FailMoves DEF Cancelled, CommandRefused
<1>6. CASE Finish(c)
  BY <1>2, <1>4, <1>6, EndedMoves DEF Finish, Succeed
<1>7. CASE RunCommand(c)
  <2>1. PICK result \in {"zero", "nonzero"} :
            LET results == Append(job[c].results, result)
            IN  \/ Succeed(c, results)
                \/ job' = [job EXCEPT ![c].results = results]
    BY <1>7 DEF RunCommand
  <2> DEFINE results == Append(job[c].results, result)
  <2>2. results \in Seq({"zero", "nonzero"})
    BY <1>4, AppendProperties
  <2> HIDE DEF results
  <2>3. CASE Succeed(c, results)
    BY <1>2, <2>2, <2>3, EndedMoves DEF Succeed
  <2>4. CASE job' = [job EXCEPT ![c].results = results]
    <3> DEFINE x == [job[c] EXCEPT !.results = results]
    <3>1. job' = [job EXCEPT ![c] = x]
      BY <1>1, <2>4
    <3>2. /\ x \in Jobs /\ x.pc = job[c].pc /\ x.env = job[c].env /\ x.sess = job[c].sess
          /\ x.made = job[c].made /\ x.req = job[c].req /\ x.cwd = job[c].cwd
      BY <1>1, <2>2 DEF Jobs
    <3> HIDE DEF x
    <3>3. JobOK(x) /\ Owned(x, created', m')
      BY <1>1, <1>3, <3>2 DEF JobOK, Owned
    <3> QED
      BY <1>2, <3>1, <3>2, <3>3 DEF Moves
  <2> QED
    BY <2>1, <2>3, <2>4 DEF results
<1> QED
  BY <1>5, <1>6, <1>7

(* The deferred delete: whoever removed the session, it is gone afterwards. *)
LEMMA UndoMoves ==
    ASSUME SInv, NEW c \in Callers, m' \subseteq Ids, created \subseteq created', Undo(c)
    PROVE  (\E x : Moves(c, x)) /\ SettingsKept
<1>1. job[c] \in Jobs
  BY DEF SInv, ShellTypeOK
<1>2. job[c].made \notin m'
  BY DEF Undo, Delete, Close
<1>3. job[c].results \in Seq({"zero", "nonzero"})
  BY <1>1 DEF Jobs
<1> QED
  BY <1>2, <1>3, EndedMoves DEF Undo, SettingsKept

-------------------------------------------------------------------------------
(* A shell tool that was not called yet satisfies the invariant. *)
LEMMA ShellInitEstablishes == ShellInit => SInv
<1> SUFFICES ASSUME ShellInit PROVE SInv
  OBVIOUS
<1>1. IInv
  BY InitEstablishes DEF ShellInit
<1>2. NoEnv \in Envs /\ ValidEnv(NoEnv)
  BY ShellAssumption DEF NoEnv, Envs, ValidEnv
<1>3. ShellTypeOK
  BY <1>2, FreshCall, ShellAssumption, SMT DEF ShellInit, ShellTypeOK
<1>4. SettingsOK
  BY <1>2, ShellAssumption DEF ShellInit, SettingsOK
<1>5. ASSUME NEW c \in Callers PROVE JobOK(job[c]) /\ Owned(job[c], created, m)
  BY FreshCall DEF ShellInit, JobOK, Owned
<1> QED
  BY <1>1, <1>3, <1>4, <1>5 DEF SInv

(* Every step of every call preserves the invariant. *)
LEMMA ShellStepPreserves == SInv /\ [ShellNext]_shellVars => SInv'
<1> SUFFICES ASSUME SInv, [ShellNext]_shellVars PROVE SInv'
  OBVIOUS
<1>1. [Next]_vars
  BY StoreStep
<1>2. IInv /\ IInv'
  BY <1>1, StepPreserves DEF SInv
<1>3. /\ created \subseteq created' /\ m' \cap created \subseteq m
      /\ m' \subseteq Ids
  BY <1>1, <1>2, GoneForGood DEF IInv, TypeOK
<1>4. /\ job \in [Callers -> Jobs] /\ calls \in 0 .. MaxCalls /\ SettingsGood
      /\ \A d \in Callers : JobOK(job[d]) /\ Owned(job[d], created, m)
  BY DEF SInv, ShellTypeOK, SettingsGood
<1>5. \A d \in Callers : Owned(job[d], created', m')
  BY <1>3, <1>4, StoreAssumption DEF Owned
<1>6. ASSUME NEW c \in Callers, \E x : Moves(c, x)
      PROVE  /\ job' \in [Callers -> Jobs]
             /\ \A d \in Callers : JobOK(job'[d]) /\ Owned(job'[d], created', m')
  <2>1. PICK x : Moves(c, x)
    BY <1>6
  <2> QED
    BY <1>4, <1>5, <2>1 DEF Moves
<1>7. ASSUME SettingsKept PROVE SettingsGood' /\ calls' \in 0 .. MaxCalls
  BY <1>4, <1>7 DEF SettingsKept, SettingsGood, SettingsOK
<1>8. ASSUME job' \in [Callers -> Jobs],
             \A d \in Callers : JobOK(job'[d]) /\ Owned(job'[d], created', m'),
             SettingsGood', calls' \in 0 .. MaxCalls
      PROVE  SInv'
  BY <1>2, <1>8 DEF SInv, ShellTypeOK, SettingsGood
<1>9. ASSUME NEW c \in Callers, NEW r \in Requests, Start(c, r) PROVE SInv'
  <2>1. \E x : Moves(c, x)
    BY <1>3, <1>9, StartMoves
  <2>2. calls' \in 0 .. MaxCalls
    BY <1>4, <1>9, ShellAssumption DEF Start
  <2>3. SettingsGood'
    BY <1>4, <1>9 DEF Start, SettingsGood, SettingsOK
  <2> QED
    BY <1>6, <1>8, <2>1, <2>2, <2>3
<1>10. ASSUME NEW c \in Callers, Step(c) PROVE SInv'
  <2>1. CASE CreateSession(c) \/ LookUp(c) \/ LookUpFails(c) \/ LookUpChecked(c)
    BY <1>3, <1>6, <1>7, <1>8, <2>1, SessionMoves
  <2>2. CASE ChooseWorkdir(c) \/ ChooseEnv(c)
    BY <1>3, <1>6, <1>7, <1>8, <2>2, ChoiceMoves
  <2>3. CASE PersistWorkdir(c) \/ PersistEnv(c)
    BY <1>3, <1>4, <1>6, <1>8, <2>3, PersistMoves
  <2>4. CASE RunCommand(c) \/ Cancelled(c) \/ CommandRefused(c) \/ Finish(c)
    BY <1>3, <1>6, <1>7, <1>8, <2>4, LoopMoves
  <2>5. CASE Undo(c)
    BY <1>3, <1>6, <1>7, <1>8, <2>5, UndoMoves
  <2> QED
    BY <1>10, <2>1, <2>2, <2>3, <2>4, <2>5 DEF Step
<1>11. CASE PassTime \/ UNCHANGED shellVars
  <2>1. job' = job /\ SettingsKept
    BY <1>11 DEF PassTime, shellVars, SettingsKept
  <2> QED
    BY <1>4, <1>5, <1>7, <1>8, <2>1
<1> QED
  BY <1>9, <1>10, <1>11 DEF ShellNext

(* The invariant holds however many calls run, whatever they ask for, and  *)
(* wherever they fail.                                                     *)
THEOREM ShellInvariance == ShellSpec => []SInv
BY ShellInitEstablishes, ShellStepPreserves, PTL DEF ShellSpec

(* The state of the shell tool always has its types. *)
THEOREM ShellTypeCorrect == ShellSpec => []ShellTypeOK
<1>1. SInv => ShellTypeOK
  BY DEF SInv
<1> QED
  BY <1>1, ShellInvariance, PTL

(* A call that failed leaves no session behind that it created, although   *)
(* others may have used, evicted or deleted sessions meanwhile.            *)
THEOREM NoLeakOnErrorHolds == ShellSpec => []NoLeakOnError
<1>1. SInv => NoLeakOnError
  BY DEF SInv, NoLeakOnError, Owned, At
<1> QED
  BY <1>1, ShellInvariance, PTL

(* No session ever holds, and no command is ever run with, a directory     *)
(* outside the allowed roots or an environment that validation refuses.    *)
THEOREM OnlyValidSettingsHolds == ShellSpec => []OnlyValidSettings
<1>1. SInv => OnlyValidSettings
  BY DEF SInv, SettingsOK, OnlyValidSettings, JobOK, At
<1> QED
  BY <1>1, ShellInvariance, PTL

(* The environment of a session only grows, and stands still once the      *)
(* session is closed.                                                      *)
THEOREM EnvOnlyMergedHolds == ShellSpec => EnvOnlyMerged
<1> DEFINE Kept == \A id \in Ids :
                      /\ id \in closed => env'[id] = env[id]
                      /\ \A k \in Keys : env[id][k] # Unset => env'[id][k] # Unset
<1>1. ASSUME SInv, [ShellNext]_shellVars PROVE [Kept]_shellVars
  <2>1. CASE env' = env
    BY <2>1
  <2>2. ASSUME NEW c \in Callers, PersistEnv(c), env' # env PROVE Kept
    <3>1. env' = [env EXCEPT ![job[c].sess] = Merged(@, job[c].req.env)] /\ ~ Closed(c)
      BY <2>2 DEF PersistEnv
    <3>2. env \in [Ids -> Envs] /\ job[c].req.env \in Envs
      BY RequestTyped, <1>1 DEF SInv, ShellTypeOK, RequestShape
    <3>3. \A id \in Ids : id # job[c].sess => env'[id] = env[id]
      BY <3>1, <3>2
    <3>4. ASSUME NEW id \in Ids, id = job[c].sess
          PROVE  \A k \in Keys : env[id][k] # Unset => env'[id][k] # Unset
      <4>1. env'[id] = Merged(env[id], job[c].req.env) /\ env[id] \in Envs
        BY <3>1, <3>2, <3>4
      <4> QED
        BY <3>2, <4>1, MergedProperties
    <3> QED
      BY <3>1, <3>3, <3>4 DEF Closed
  <2>3. CASE env' # env /\ ShellNext
    <3>1. PICK c \in Callers : PersistEnv(c)
      BY <2>3, ZenonT(60) DEF ShellNext, PassTime, Start, Step, CreateSession, LookUp, LookUpFails,
          LookUpChecked, ChooseWorkdir, ChooseEnv, PersistWorkdir, RunCommand, Cancelled,
          CommandRefused, Finish, Undo
    <3> QED
      BY <2>2, <2>3, <3>1, SMTT(60)
  <2>4. CASE UNCHANGED shellVars
    BY <2>4
  <2> QED
    BY <1>1, <2>1, <2>3, <2>4
<1> QED
  BY <1>1, ShellInvariance, PTL DEF ShellSpec, EnvOnlyMerged

-------------------------------------------------------------------------------
(* What the results of a call tell at each place.  They are written by the *)
(* command loop only; while it runs, a call that stops at failures has had *)
(* none.                                                                   *)
BeforeLoop == {"session", "workdir", "env", "setdir", "addenv"}

AllZero(done) == \A i \in 1 .. Len(done) : done[i] = "zero"

ZeroUpToLast(done) == \A i \in 1 .. Len(done) - 1 : done[i] = "zero"

(* The results are those of the first commands, none of them refused. *)
OfCommands(done, cmds) ==
    /\ Len(done) <= Len(cmds)
    /\ \A i \in 1 .. Len(done) : cmds[i] = "plain"

EndedForAReason(j) ==
    \/ Len(j.results) = Len(j.req.commands)
    \/ ~ j.req.parallel /\ Last(j.results) = "nonzero"

ResultsOK(j) ==
    /\ OfCommands(j.results, j.req.commands)
    /\ ~ j.req.parallel => ZeroUpToLast(j.results)
    /\ j.outcome = "ok" => EndedForAReason(j)
    /\ j.pc # "ready" => j.outcome = "none"
    /\ j.pc \in BeforeLoop => j.results = << >>
    /\ j.pc = "run" /\ ~ j.req.parallel => AllZero(j.results)

RInv == \A c \in Callers : ResultsOK(job[c])

(* A call that has no results yet cannot contradict its commands. *)
LEMMA NoResultsOK ==
    ASSUME NEW j, j.results = << >>, j.req \in RequestShape,
           j.outcome # "ok", j.pc # "ready" => j.outcome = "none"
    PROVE  ResultsOK(j)
<1>1. Len(j.req.commands) \in Nat
  BY LenProperties DEF RequestShape
<1>2. Len(j.results) = 0 /\ 1 .. 0 = {} /\ 1 .. 0 - 1 = {}
  BY SMT
<1>3. OfCommands(j.results, j.req.commands)
  BY <1>1, <1>2, SMT DEF OfCommands
<1>4. ZeroUpToLast(j.results) /\ AllZero(j.results)
  BY <1>2, SMT DEF ZeroUpToLast, AllZero
<1> QED
  BY <1>3, <1>4 DEF ResultsOK

(* A step that leaves the results alone and does not end the call well     *)
(* keeps what they tell, unless it enters the loop with results.           *)
LEMMA SameResultsOK ==
    ASSUME NEW j, NEW x, ResultsOK(j), x.results = j.results, x.req = j.req,
           x.outcome # "ok", x.pc # "ready" => x.outcome = "none",
           x.pc \in BeforeLoop \cup {"run"} => j.pc \in BeforeLoop
    PROVE  ResultsOK(x)
<1>1. x.pc = "run" => AllZero(x.results)
  <2> SUFFICES ASSUME x.pc = "run" PROVE AllZero(x.results)
    OBVIOUS
  <2>1. x.results = << >>
    BY DEF ResultsOK
  <2> QED
    BY <2>1, SMT DEF AllZero
<1> QED
  BY <1>1 DEF ResultsOK

(* One call moves, and its new results are right. *)
LEMMA OneCallMoves ==
    ASSUME SInv, RInv, NEW c \in Callers, NEW x,
           job' = [job EXCEPT ![c] = x], ResultsOK(x)
    PROVE  RInv'
<1>1. job \in [Callers -> Jobs]
  BY DEF SInv, ShellTypeOK
<1>2. \A d \in Callers : job'[d] = IF d = c THEN x ELSE job[d]
  BY <1>1
<1> QED
  BY <1>2 DEF RInv

(* Fail keeps the results and never reports success. *)
LEMMA FailKeepsResults ==
    ASSUME SInv, RInv, NEW c \in Callers, job[c].pc # "ready", Fail(c)
    PROVE  RInv'
<1>1. job[c] \in Jobs /\ ResultsOK(job[c]) /\ job[c].outcome = "none"
  BY RequestTyped DEF RInv, ResultsOK
<1>2. CASE job' = [job EXCEPT ![c] = Ended(c, "error", job[c].results)]
  <2> DEFINE x == Ended(c, "error", job[c].results)
  <2>1. /\ x.results = job[c].results /\ x.req = job[c].req
        /\ x.outcome = "error" /\ x.pc = "ready"
    BY FreshCall DEF Ended, Jobs
  <2>2. job' = [job EXCEPT ![c] = x]
    BY <1>2
  <2> HIDE DEF x
  <2>3. ResultsOK(x)
    BY <1>1, <2>1, SameResultsOK DEF BeforeLoop
  <2> QED
    BY <2>2, <2>3, OneCallMoves
<1>3. CASE job' = [job EXCEPT ![c].pc = "undo"]
  <2> DEFINE x == [job[c] EXCEPT !.pc = "undo"]
  <2>1. /\ x.results = job[c].results /\ x.req = job[c].req
        /\ x.outcome = "none" /\ x.pc = "undo"
    BY <1>1 DEF Jobs
  <2>2. job' = [job EXCEPT ![c] = x]
    BY <1>3
  <2> HIDE DEF x
  <2>3. ResultsOK(x)
    BY <1>1, <2>1, SameResultsOK DEF BeforeLoop
  <2> QED
    BY <2>2, <2>3, OneCallMoves
<1> QED
  BY <1>2, <1>3 DEF Fail

(* Up to the loop a call only collects its settings. *)
LEMMA SettingUp ==
    ASSUME SInv, RInv, NEW c \in Callers,
           \/ CreateSession(c) \/ LookUp(c) \/ LookUpFails(c) \/ LookUpChecked(c)
           \/ ChooseWorkdir(c) \/ ChooseEnv(c) \/ PersistWorkdir(c) \/ PersistEnv(c)
    PROVE  RInv'
<1>1. /\ job[c] \in Jobs /\ ResultsOK(job[c]) /\ job[c].outcome = "none"
      /\ job[c].pc \in BeforeLoop
  <2>1. job[c].pc \in BeforeLoop
    BY DEF CreateSession, LookUp, LookUpFails, LookUpChecked, ChooseWorkdir, ChooseEnv,
           PersistWorkdir, PersistEnv, At, BeforeLoop
  <2> QED
    BY <2>1, RequestTyped DEF RInv, ResultsOK, BeforeLoop
<1>2. CASE Fail(c)
  BY <1>1, <1>2, FailKeepsResults DEF BeforeLoop
<1>3. CASE job' = job
  BY <1>3 DEF RInv
<1>4. ASSUME NEW x, job' = [job EXCEPT ![c] = x], x.results = job[c].results,
             x.req = job[c].req, x.outcome = job[c].outcome
      PROVE  RInv'
  <2>1. ResultsOK(x)
    BY <1>1, <1>4, SameResultsOK
  <2> QED
    BY <1>4, <2>1, OneCallMoves
<1>5. CASE CreateSession(c)
  <2> DEFINE x == [job[c] EXCEPT !.pc = "workdir", !.sess = answer'[c].id, !.made = answer'[c].id]
  <2>1. job' = [job EXCEPT ![c] = x]
    BY <1>5 DEF CreateSession
  <2>2. x.results = job[c].results /\ x.req = job[c].req /\ x.outcome = job[c].outcome
    BY <1>1 DEF Jobs
  <2> HIDE DEF x
  <2> QED
    BY <1>4, <2>1, <2>2
<1>6. CASE LookUpChecked(c) /\ ~ Fail(c)
  <2> DEFINE x == [job[c] EXCEPT !.pc = "workdir", !.sess = answer'[c].id]
  <2>1. job' = [job EXCEPT ![c] = x]
    BY <1>6 DEF LookUpChecked
  <2>2. x.results = job[c].results /\ x.req = job[c].req /\ x.outcome = job[c].outcome
    BY <1>1 DEF Jobs
  <2> HIDE DEF x
  <2> QED
    BY <1>4, <2>1, <2>2
<1>7. CASE ChooseWorkdir(c) /\ ~ Fail(c)
  <2> DEFINE x == [job[c] EXCEPT !.pc = "env", !.cwd = Candidate(c)]
  <2>1. job' = [job EXCEPT ![c] = x]
    BY <1>7 DEF ChooseWorkdir
  <2>2. x.results = job[c].results /\ x.req = job[c].req /\ x.outcome = job[c].outcome
    BY <1>1 DEF Jobs
  <2> HIDE DEF x
  <2> QED
    BY <1>4, <2>1, <2>2
<1>8. CASE ChooseEnv(c) /\ ~ Fail(c)
  <2> DEFINE x == [job[c] EXCEPT !.pc = "setdir",
                                 !.env = Merged(env[job[c].sess], job[c].req.env)]
  <2>1. job' = [job EXCEPT ![c] = x]
    BY <1>8 DEF ChooseEnv
  <2>2. x.results = job[c].results /\ x.req = job[c].req /\ x.outcome = job[c].outcome
    BY <1>1 DEF Jobs
  <2> HIDE DEF x
  <2> QED
    BY <1>4, <2>1, <2>2
<1>9. ASSUME NEW pc, Goto(c, pc) PROVE RInv'
  <2> DEFINE x == [job[c] EXCEPT !.pc = pc]
  <2>1. job' = [job EXCEPT ![c] = x]
    BY <1>9 DEF Goto
  <2>2. x.results = job[c].results /\ x.req = job[c].req /\ x.outcome = job[c].outcome
    BY <1>1 DEF Jobs
  <2> HIDE DEF x
  <2> QED
    BY <1>4, <2>1, <2>2
<1>10. CASE PersistWorkdir(c) \/ PersistEnv(c)
  BY <1>2, <1>9, <1>10 DEF PersistWorkdir, PersistEnv
<1>11. CASE LookUp(c) \/ LookUpFails(c)
  BY <1>2, <1>3, <1>11 DEF LookUp, LookUpFails
<1> QED
  BY <1>2, <1>5, <1>6, <1>7, <1>8, <1>10, <1>11

(* One more command: it was not refused, nothing failed before it in a     *)
(* call that stops at failures, and there it ends the call if it fails.    *)
LEMMA CommandRuns ==
    ASSUME SInv, RInv, NEW c \in Callers, RunCommand(c)
    PROVE  RInv'
<1> DEFINE j == job[c]
           cmds == j.req.commands
<1>1. /\ j \in Jobs /\ ResultsOK(j) /\ j.outcome = "none" /\ j.pc = "run"
      /\ cmds \in Seq({"plain", "blocked"}) /\ Len(cmds) \in Nat
      /\ j.results \in Seq({"zero", "nonzero"}) /\ Len(j.results) \in Nat
  <2>1. j.pc = "run"
    BY DEF RunCommand, At
  <2>2. j \in Jobs /\ ResultsOK(j) /\ j.outcome = "none"
    BY <2>1, RequestTyped DEF RInv, ResultsOK
  <2>3. cmds \in Seq({"plain", "blocked"}) /\ j.results \in Seq({"zero", "nonzero"})
    BY <2>2, RequestTyped DEF Jobs, RequestShape
  <2> QED
    BY <2>1, <2>2, <2>3, LenProperties
<1>2. PICK result \in {"zero", "nonzero"} :
          LET results == Append(job[c].results, result)
          IN  IF result = "nonzero" /\ ~ job[c].req.parallel
              THEN Succeed(c, results)
              ELSE job' = [job EXCEPT ![c].results = results]
  BY DEF RunCommand
<1> DEFINE results == Append(j.results, result)
<1>3. /\ results \in Seq({"zero", "nonzero"})
      /\ Len(results) = Len(j.results) + 1
      /\ \A i \in 1 .. Len(j.results) : results[i] = j.results[i]
      /\ results[Len(results)] = result
  BY <1>1, AppendProperties
<1>4. Len(j.results) < Len(cmds) /\ cmds[Len(j.results) + 1] = "plain"
  <2>1. Len(j.results) <= Len(cmds)
    BY <1>1 DEF ResultsOK, OfCommands
  <2> QED
    BY <1>1, <2>1, SMT DEF RunCommand, Exhausted, NextCommand
<1> HIDE DEF results
<1>5. OfCommands(results, cmds)
  BY <1>1, <1>3, <1>4, SMT DEF ResultsOK, OfCommands
<1>6. ~ j.req.parallel => ZeroUpToLast(results)
  BY <1>1, <1>3, SMT DEF ResultsOK, ZeroUpToLast, AllZero
<1>7. CASE result = "nonzero" /\ ~ j.req.parallel
  <2> DEFINE x == Ended(c, "ok", results)
  <2>1. job' = [job EXCEPT ![c] = x]
    BY <1>2, <1>7 DEF Succeed, results
  <2>2. x.results = results /\ x.req = j.req /\ x.outcome = "ok" /\ x.pc = "ready"
    BY FreshCall DEF Ended, Jobs
  <2> HIDE DEF x
  <2>3. EndedForAReason(x)
    BY <1>3, <1>7, <2>2 DEF EndedForAReason, Last
  <2>4. ResultsOK(x)
    BY <1>5, <1>6, <2>2, <2>3 DEF ResultsOK, BeforeLoop
  <2> QED
    BY <2>1, <2>4, OneCallMoves
<1>8. CASE ~ (result = "nonzero" /\ ~ j.req.parallel)
  <2> DEFINE x == [job[c] EXCEPT !.results = results]
  <2>1. job' = [job EXCEPT ![c] = x]
    BY <1>2, <1>8 DEF results
  <2>2. x.results = results /\ x.req = j.req /\ x.outcome = "none" /\ x.pc = "run"
    BY <1>1 DEF Jobs
  <2> HIDE DEF x
  <2>3. ~ j.req.parallel => AllZero(results)
    BY <1>1, <1>3, <1>8, SMTT(60) DEF ResultsOK, AllZero
  <2>4. ResultsOK(x)
    BY <1>5, <1>6, <2>2, <2>3 DEF ResultsOK, BeforeLoop
  <2> QED
    BY <2>1, <2>4, OneCallMoves
<1> QED
  BY <1>7, <1>8

(* The ways out of a call. *)
LEMMA WaysOut ==
    ASSUME SInv, RInv, NEW c \in Callers,
           Cancelled(c) \/ CommandRefused(c) \/ Finish(c) \/ Undo(c)
    PROVE  RInv'
<1>1. job[c] \in Jobs /\ ResultsOK(job[c]) /\ job[c].pc \in {"run", "undo"}
  BY RequestTyped DEF RInv, Cancelled, CommandRefused, Finish, Undo, At
<1>2. CASE Cancelled(c) \/ CommandRefused(c)
  BY <1>1, <1>2, FailKeepsResults DEF Cancelled, CommandRefused
<1>3. ASSUME NEW outcome, job' = [job EXCEPT ![c] = Ended(c, outcome, job[c].results)],
             outcome = "ok" => EndedForAReason(job[c])
      PROVE  RInv'
  <2> DEFINE x == Ended(c, outcome, job[c].results)
  <2>1. x.results = job[c].results /\ x.req = job[c].req /\ x.outcome = outcome /\ x.pc = "ready"
    BY FreshCall DEF Ended, Jobs
  <2>2. job' = [job EXCEPT ![c] = x]
    BY <1>3
  <2> HIDE DEF x
  <2>3. ResultsOK(x)
    BY <1>1, <1>3, <2>1 DEF ResultsOK, BeforeLoop, EndedForAReason
  <2> QED
    BY <2>2, <2>3, OneCallMoves
<1>4. CASE Finish(c)
  <2>1. EndedForAReason(job[c]) /\ job' = [job EXCEPT ![c] = Ended(c, "ok", job[c].results)]
    BY <1>4 DEF Finish, Succeed, Exhausted, EndedForAReason
  <2> QED
    BY <1>3, <2>1
<1>5. CASE Undo(c)
  <2>1. job' = [job EXCEPT ![c] = Ended(c, "error", job[c].results)] /\ "error" # "ok"
    BY <1>5 DEF Undo
  <2> QED
    BY <1>3, <2>1
<1> QED
  BY <1>2, <1>4, <1>5

(* A call begins with no results, also when it is refused at once. *)
LEMMA StartHasNoResults ==
    ASSUME SInv, RInv, NEW c \in Callers, NEW r \in Requests, Start(c, r)
    PROVE  RInv'
<1>1. r \in RequestShape
  BY ShellAssumption
<1> DEFINE over == [Fresh EXCEPT !.req = r, !.outcome = "error"]
           begun == [Fresh EXCEPT !.req = r, !.pc = "session"]
<1>2. job' = [job EXCEPT ![c] = over] \/ job' = [job EXCEPT ![c] = begun]
  BY DEF Start
<1>3. /\ over.results = << >> /\ over.req = r /\ over.outcome = "error" /\ over.pc = "ready"
      /\ begun.results = << >> /\ begun.req = r /\ begun.outcome = "none" /\ begun.pc = "session"
  BY DEF Fresh
<1> HIDE DEF over, begun
<1>4. ResultsOK(over) /\ ResultsOK(begun)
  BY <1>1, <1>3, NoResultsOK
<1> QED
  BY <1>2, <1>4, OneCallMoves

(* The results of every call stay right. *)
LEMMA ResultsStep == SInv /\ RInv /\ [ShellNext]_shellVars => RInv'
<1> SUFFICES ASSUME SInv, RInv, [ShellNext]_shellVars PROVE RInv'
  OBVIOUS
<1>1. CASE job' = job
  BY <1>1 DEF RInv
<1>2. ASSUME NEW c \in Callers, Step(c) PROVE RInv'
  BY <1>2, SettingUp, CommandRuns, WaysOut DEF Step
<1> QED
  BY <1>1, <1>2, StartHasNoResults DEF ShellNext, PassTime, shellVars

(* What a call reports is what ran: its results belong to its first        *)
(* commands in order, none of them refused; a call that stops at failures  *)
(* has at most one, the last; a call that succeeds ran all its commands or *)
(* stopped at a failure.                                                   *)
THEOREM ResultsExplainOutcomeHolds == ShellSpec => []ResultsExplainOutcome
<1>1. ShellInit => RInv
  <2> SUFFICES ASSUME ShellInit, NEW c \in Callers PROVE ResultsOK(job[c])
    BY DEF RInv
  <2>1. job[c] = Fresh /\ NoRequest \in RequestShape
    BY DEF ShellInit, NoRequest, RequestShape, MaybeId, NoEnv, Envs
  <2>2. Fresh.results = << >> /\ Fresh.req = NoRequest /\ Fresh.outcome = "none"
    BY DEF Fresh
  <2> HIDE DEF Fresh
  <2> QED
    BY <2>1, <2>2, NoResultsOK
<1>2. RInv => ResultsExplainOutcome
  BY DEF RInv, ResultsOK, OfCommands, ZeroUpToLast, EndedForAReason, ResultsExplainOutcome
<1> QED
  BY <1>1, <1>2, ResultsStep, ShellInvariance, PTL DEF ShellSpec

(* What a call knows of where its session came from: op is the store       *)
(* operation it is in.                                                     *)
GivenOK(j, op) ==
    /\ j.pc = "session" => j.made = NoId /\ (op = "new" => j.req.session = NoId)
    /\ j.pc # "ready" /\ j.made # NoId => j.sess = j.made /\ j.req.session = NoId

GInv == \A c \in Callers : GivenOK(job[c], call[c].op)

(* The step of one call leaves what the others know of their sessions.     *)
LEMMA OneGiven ==
    ASSUME SInv, GInv, NEW c \in Callers, NEW x,
           job' = [job EXCEPT ![c] = x],
           \A d \in Callers \ {c} : call'[d] = call[d],
           GivenOK(x, call'[c].op)
    PROVE  GInv'
<1>1. job \in [Callers -> Jobs]
  BY DEF SInv, ShellTypeOK
<1>2. \A d \in Callers : job'[d] = IF d = c THEN x ELSE job[d]
  BY <1>1
<1>3. ASSUME NEW d \in Callers PROVE GivenOK(job'[d], call'[d].op)
  BY <1>2 DEF GInv
<1> QED
  BY <1>3 DEF GInv, GivenOK

(* A call that returned asks nothing more about its session.               *)
LEMMA EndedGiven ==
    ASSUME NEW c \in Callers, NEW outcome, NEW results, NEW op
    PROVE  GivenOK(Ended(c, outcome, results), op)
<1> DEFINE x == Ended(c, outcome, results)
<1>1. x.pc = "ready"
  BY DEF Ended, Fresh
<1> HIDE DEF x
<1>2. GivenOK(x, op)
  BY <1>1 DEF GivenOK
<1> QED
  BY <1>2 DEF x

(* A call that fails still knows which session it made.                    *)
LEMMA FailGiven ==
    ASSUME SInv, GInv, NEW c \in Callers, job[c].pc # "ready", Fail(c),
           \A d \in Callers \ {c} : call'[d] = call[d]
    PROVE  GInv'
<1>1. job[c] \in Jobs /\ GivenOK(job[c], call[c].op)
  BY RequestTyped DEF GInv
<1>2. CASE job' = [job EXCEPT ![c] = Ended(c, "error", job[c].results)]
  BY <1>2, EndedGiven, OneGiven
<1>3. CASE job' = [job EXCEPT ![c].pc = "undo"]
  <2> DEFINE x == [job[c] EXCEPT !.pc = "undo"]
  <2>1. /\ x.pc = "undo" /\ x.made = job[c].made /\ x.sess = job[c].sess
        /\ x.req = job[c].req
    BY <1>1 DEF Jobs
  <2>2. job' = [job EXCEPT ![c] = x]
    BY <1>3
  <2> HIDE DEF x
  <2>3. GivenOK(x, call'[c].op)
    BY <1>1, <2>1 DEF GivenOK
  <2> QED
    BY <2>2, <2>3, OneGiven
<1> QED
  BY <1>2, <1>3 DEF Fail

(* Only the caller's own store operation goes on in its step.              *)
LEMMA OthersCalls ==
    ASSUME SInv, NEW c \in Callers, Step(c) \/ \E r \in Requests : Start(c, r)
    PROVE  \A d \in Callers \ {c} : call'[d] = call[d]
<1>1. call \in [Callers -> Calls]
  BY DEF SInv, IInv, TypeOK
<1>2. call' = call \/ \E x : call' = [call EXCEPT ![c] = x]
  <2>1. ASSUME NEW id, Delete(c, id) PROVE <1>2
    BY <2>1 DEF Delete, Return
  <2>2. CASE CreateSession(c) \/ LookUpFails(c) \/ LookUpChecked(c)
    BY <2>2 DEF CreateSession, LookUpFails, LookUpChecked, NewSessionLocked, GetMiss,
        CheckClosed, Return
  <2>3. CASE LookUp(c)
    <3> DEFINE x == [call[c] EXCEPT !.op = "check"]
    <3>1. call' = [call EXCEPT ![c] = x]
      BY <2>3 DEF LookUp, GetHit
    <3> QED
      BY <3>1
  <2>4. CASE \/ ChooseWorkdir(c) \/ ChooseEnv(c) \/ PersistWorkdir(c) \/ PersistEnv(c)
             \/ RunCommand(c) \/ Cancelled(c) \/ CommandRefused(c) \/ Finish(c)
    BY <2>4 DEF ChooseWorkdir, ChooseEnv, PersistWorkdir, PersistEnv, RunCommand,
        Cancelled, CommandRefused, Finish, vars
  <2>5. ASSUME NEW r \in Requests, Start(c, r) PROVE <1>2
    BY <2>5 DEF Start, BeginNew, BeginGet, vars
  <2> QED
    BY <2>1, <2>2, <2>3, <2>4, <2>5 DEF Step, Undo
<1> QED
  BY <1>1, <1>2

(* Getting hold of a session: a call that was given one made none.         *)
LEMMA SessionGiven ==
    ASSUME SInv, GInv, NEW c \in Callers,
           \A d \in Callers \ {c} : call'[d] = call[d],
           CreateSession(c) \/ LookUp(c) \/ LookUpFails(c) \/ LookUpChecked(c)
    PROVE  GInv'
<1>1. job \in [Callers -> Jobs] /\ job[c] \in Jobs /\ GivenOK(job[c], call[c].op)
  BY RequestTyped DEF GInv, SInv, ShellTypeOK
<1>2. job[c].pc = "session" /\ call \in [Callers -> Calls]
  BY DEF CreateSession, LookUp, LookUpFails, LookUpChecked, At, SInv, IInv, TypeOK
<1>3. CASE CreateSession(c)
  <2> DEFINE id == answer'[c].id
             x == [job[c] EXCEPT !.pc = "workdir", !.sess = id, !.made = id]
  <2>1. job' = [job EXCEPT ![c] = x]
    BY <1>3 DEF CreateSession
  <2>2. x.pc = "workdir" /\ x.sess = id /\ x.made = id /\ x.req = job[c].req
    BY <1>1 DEF Jobs
  <2>3. job[c].req.session = NoId
    BY <1>1, <1>2, <1>3 DEF CreateSession, NewSessionLocked, GivenOK
  <2> HIDE DEF x, id
  <2>4. GivenOK(x, call'[c].op)
    BY <2>2, <2>3 DEF GivenOK
  <2> QED
    BY <2>1, <2>4, OneGiven
<1>4. CASE LookUp(c)
  <2>1. job' = [job EXCEPT ![c] = job[c]]
    BY <1>1, <1>4 DEF LookUp
  <2>2. call' = [call EXCEPT ![c].op = "check"]
    BY <1>4 DEF LookUp, GetHit
  <2>3. call'[c].op # "new"
    BY <1>2, <2>2 DEF Calls
  <2>4. GivenOK(job[c], call'[c].op)
    BY <1>1, <1>2, <2>3 DEF GivenOK
  <2> QED
    BY <2>1, <2>4, OneGiven
<1>5. CASE Fail(c)
  BY <1>2, <1>5, FailGiven
<1>6. CASE LookUpChecked(c) /\ ~ Fail(c)
  <2> DEFINE x == [job[c] EXCEPT !.pc = "workdir", !.sess = answer'[c].id]
  <2>1. job' = [job EXCEPT ![c] = x]
    BY <1>6 DEF LookUpChecked
  <2>2. x.pc = "workdir" /\ x.made = job[c].made
    BY <1>1 DEF Jobs
  <2> HIDE DEF x
  <2>3. GivenOK(x, call'[c].op)
    BY <1>1, <1>2, <2>2 DEF GivenOK
  <2> QED
    BY <2>1, <2>3, OneGiven
<1> QED
  BY <1>3, <1>4, <1>5, <1>6 DEF LookUpFails

(* The steps after that change neither the session nor who made it.        *)
LEMMA LaterGiven ==
    ASSUME SInv, GInv, NEW c \in Callers,
           \A d \in Callers \ {c} : call'[d] = call[d],
           \/ ChooseWorkdir(c) \/ ChooseEnv(c) \/ PersistWorkdir(c) \/ PersistEnv(c)
           \/ RunCommand(c) \/ Cancelled(c) \/ CommandRefused(c) \/ Finish(c) \/ Undo(c)
    PROVE  GInv'
<1>1. job[c] \in Jobs /\ GivenOK(job[c], call[c].op)
  BY RequestTyped DEF GInv
<1>2. job[c].pc # "ready"
  BY DEF ChooseWorkdir, ChooseEnv, PersistWorkdir, PersistEnv, RunCommand, Cancelled,
      CommandRefused, Finish, Undo, At
<1>3. CASE Fail(c)
  BY <1>2, <1>3, FailGiven
<1>4. ASSUME NEW outcome, NEW results, job' = [job EXCEPT ![c] = Ended(c, outcome, results)]
      PROVE  GInv'
  BY <1>4, EndedGiven, OneGiven
<1>5. ASSUME NEW x, job' = [job EXCEPT ![c] = x], x.made = job[c].made,
             x.sess = job[c].sess, x.req = job[c].req, x.pc # "session"
      PROVE  GInv'
  <2>1. GivenOK(x, call'[c].op)
    BY <1>1, <1>2, <1>5 DEF GivenOK
  <2> QED
    BY <1>5, <2>1, OneGiven
<1>6. CASE ChooseWorkdir(c) /\ ~ Fail(c)
  <2> DEFINE x == [job[c] EXCEPT !.pc = "env", !.cwd = Candidate(c)]
  <2>1. job' = [job EXCEPT ![c] = x]
    BY <1>6 DEF ChooseWorkdir
  <2>2. x.made = job[c].made /\ x.sess = job[c].sess /\ x.req = job[c].req /\ x.pc = "env"
    BY <1>1 DEF Jobs
  <2> HIDE DEF x
  <2> QED
    BY <1>5, <2>1, <2>2
<1>7. CASE ChooseEnv(c) /\ ~ Fail(c)
  <2> DEFINE x == [job[c] EXCEPT !.pc = "setdir",
                                 !.env = Merged(env[job[c].sess], job[c].req.env)]
  <2>1. job' = [job EXCEPT ![c] = x]
    BY <1>7 DEF ChooseEnv
  <2>2. x.made = job[c].made /\ x.sess = job[c].sess /\ x.req = job[c].req /\ x.pc = "setdir"
    BY <1>1 DEF Jobs
  <2> HIDE DEF x
  <2> QED
    BY <1>5, <2>1, <2>2
<1>8. ASSUME NEW pc \in {"addenv", "run"}, Goto(c, pc) PROVE GInv'
  <2> DEFINE x == [job[c] EXCEPT !.pc = pc]
  <2>1. job' = [job EXCEPT ![c] = x]
    BY <1>8 DEF Goto
  <2>2. x.made = job[c].made /\ x.sess = job[c].sess /\ x.req = job[c].req /\ x.pc = pc
    BY <1>1 DEF Jobs
  <2> HIDE DEF x
  <2> QED
    BY <1>5, <2>1, <2>2
<1>9. CASE PersistWorkdir(c) \/ PersistEnv(c)
  BY <1>3, <1>8, <1>9 DEF PersistWorkdir, PersistEnv
<1>10. CASE RunCommand(c)
  <2>1. PICK result \in {"zero", "nonzero"} :
          \/ Succeed(c, Append(job[c].results, result))
          \/ job' = [job EXCEPT ![c].results = Append(job[c].results, result)]
    BY <1>10 DEF RunCommand
  <2> DEFINE x == [job[c] EXCEPT !.results = Append(job[c].results, result)]
  <2>2. CASE job' = [job EXCEPT ![c] = x]
    <3>1. /\ x.made = job[c].made /\ x.sess = job[c].sess /\ x.req = job[c].req
          /\ x.pc = job[c].pc /\ job[c].pc = "run"
      BY <1>1, <1>10 DEF Jobs, RunCommand, At
    <3> HIDE DEF x
    <3> QED
      BY <1>5, <2>2, <3>1
  <2> QED
    BY <1>4, <2>1, <2>2 DEF Succeed
<1>11. CASE Cancelled(c) \/ CommandRefused(c) \/ Finish(c) \/ Undo(c)
  BY <1>3, <1>4, <1>11 DEF Cancelled, CommandRefused, Finish, Undo, Succeed
<1> QED
  BY <1>3, <1>6, <1>7, <1>9, <1>10, <1>11

(* What every call knows of its session's origin stays true.               *)
LEMMA GivenStep == SInv /\ GInv /\ [ShellNext]_shellVars => GInv'
<1> SUFFICES ASSUME SInv, GInv, [ShellNext]_shellVars PROVE GInv'
  OBVIOUS
<1>1. CASE UNCHANGED <<job, call>>
  BY <1>1 DEF GInv
<1>2. ASSUME NEW c \in Callers, Step(c) PROVE GInv'
  BY <1>2, OthersCalls, SessionGiven, LaterGiven DEF Step
<1>3. ASSUME NEW c \in Callers, NEW r \in Requests, Start(c, r) PROVE GInv'
  <2> DEFINE over == [Fresh EXCEPT !.req = r, !.outcome = "error"]
             begun == [Fresh EXCEPT !.req = r, !.pc = "session"]
  <2>1. CASE job' = [job EXCEPT ![c] = over]
    <3>1. over.pc = "ready"
      BY DEF Fresh
    <3> HIDE DEF over
    <3>2. GivenOK(over, call'[c].op)
      BY <3>1 DEF GivenOK
    <3> QED
      BY <1>3, <2>1, <3>2, OthersCalls, OneGiven
  <2>2. CASE /\ job' = [job EXCEPT ![c] = begun]
             /\ IF r.session = NoId THEN BeginNew(c) ELSE BeginGet(c, r.session)
    <3>1. begun.made = NoId /\ begun.req = r
      BY DEF Fresh
    <3>2. call \in [Callers -> Calls]
      BY DEF SInv, IInv, TypeOK
    <3>3. call'[c].op = "new" => r.session = NoId
      BY <2>2, <3>2 DEF BeginNew, BeginGet
    <3> HIDE DEF begun
    <3>4. GivenOK(begun, call'[c].op)
      BY <3>1, <3>3 DEF GivenOK
    <3> QED
      BY <1>3, <2>2, <3>4, OthersCalls, OneGiven
  <2> QED
    BY <1>3, <2>1, <2>2 DEF Start
<1>4. CASE PassTime \/ UNCHANGED shellVars
  BY <1>1, <1>4 DEF PassTime, Tick, shellVars, vars
<1> QED
  BY <1>2, <1>3, <1>4 DEF ShellNext

(* A session that leaves the store was deleted by the call that made it,   *)
(* or it had to go.                                                        *)
LEMMA OwnStep ==
    ASSUME SInv, GInv, [ShellNext]_shellVars, NEW id \in m, id \notin m'
    PROVE  \/ \E c \in Callers : /\ At(c, "undo") /\ job'[c].outcome = "error"
                                 /\ job[c].req.session = NoId /\ job[c].sess = id
           \/ TooOld(id) \/ PushedOut(id)
<1>1. job \in [Callers -> Jobs] /\ call \in [Callers -> Calls]
  BY DEF SInv, ShellTypeOK, IInv, TypeOK
<1>2. ASSUME NEW c \in Callers, Undo(c)
      PROVE  /\ At(c, "undo") /\ job'[c].outcome = "error"
             /\ job[c].req.session = NoId /\ job[c].sess = id
  <2>1. job[c].made = id
    BY <1>2 DEF Undo, Delete, Close
  <2>2. GivenOK(job[c], call[c].op) /\ id # NoId /\ job[c].pc = "undo"
    BY <1>2, <2>1 DEF GInv, Undo, At, SInv, JobOK
  <2>3. job'[c] = Ended(c, "error", job[c].results)
    BY <1>1, <1>2 DEF Undo
  <2>4. job'[c].outcome = "error"
    BY <2>3 DEF Ended, Fresh
  <2> QED
    BY <2>1, <2>2, <2>4 DEF GivenOK, At
<1>3. ASSUME NEW c \in Callers, CreateSession(c) \/ LookUp(c) \/ LookUpFails(c)
      PROVE  TooOld(id) \/ PushedOut(id)
  <2>1. Justified(id)
    BY StoreStep, EvictionStep DEF SInv
  <2>2. call'[c].op # call[c].op
    BY <1>1, <1>3 DEF CreateSession, LookUp, LookUpFails, NewSessionLocked, GetHit, GetMiss,
        Return, Idle, Calls
  <2>3. ASSUME NEW d \in Callers, Delete(d, id) PROVE FALSE
    <3>1. call' = call
      BY <1>1, <2>3 DEF Delete, Return
    <3> QED
      BY <2>2, <3>1
  <2> QED
    BY <2>1, <2>3 DEF Justified
<1>4. \E c \in Callers : CreateSession(c) \/ LookUp(c) \/ LookUpFails(c) \/ Undo(c)
  <2>1. m' # m
    OBVIOUS
  <2>2. ASSUME NEW c \in Callers, Step(c)
        PROVE  CreateSession(c) \/ LookUp(c) \/ LookUpFails(c) \/ Undo(c)
    BY <2>1, <2>2 DEF Step, LookUpChecked, CheckClosed, ChooseWorkdir, ChooseEnv, PersistWorkdir,
        PersistEnv, RunCommand, Cancelled, CommandRefused, Finish, vars, storeVars
  <2>3. ASSUME NEW c \in Callers, NEW r \in Requests, Start(c, r) PROVE FALSE
    BY <2>1, <2>3 DEF Start, BeginNew, BeginGet, vars, storeVars
  <2> QED
    BY <2>1, <2>2, <2>3 DEF ShellNext, PassTime, Tick, shellVars, vars, storeVars
<1> QED
  BY <1>2, <1>3, <1>4

(* A call that fails takes away no session but the one it made itself.     *)
THEOREM OnlyOwnUndoneHolds == ShellSpec => OnlyOwnUndone
<1>1. ShellInit => GInv
  <2> SUFFICES ASSUME ShellInit, NEW c \in Callers PROVE GivenOK(job[c], call[c].op)
    BY DEF GInv
  <2>1. job[c].pc = "ready"
    BY DEF ShellInit, Fresh
  <2> QED
    BY <2>1 DEF GivenOK
<1> DEFINE Own == \A id \in m \ m' :
                     \/ \E c \in Callers : /\ At(c, "undo") /\ job'[c].outcome = "error"
                                           /\ job[c].req.session = NoId /\ job[c].sess = id
                     \/ TooOld(id) \/ PushedOut(id)
<1>2. SInv /\ GInv /\ [ShellNext]_shellVars => [Own]_shellVars
  BY OwnStep
<1> QED
  BY <1>1, <1>2, GivenStep, ShellInvariance, PTL DEF ShellSpec, OnlyOwnUndone

(* The shell tool's behaviours are behaviours of the store.                *)
LEMMA UsesStore == ShellSpec => Spec
<1>1. ShellInit => Init
  BY DEF ShellInit
<1> QED
  BY <1>1, StoreStep, ShellInvariance, PTL DEF ShellSpec, Spec

(* Seen from the calls the store is an atomic directory, and the number of *)
(* sessions stays within its limit.                                        *)
THEOREM CallsSeeDirectory == ShellSpec => DirectorySpec /\ []SizeWithinLimit
BY UsesStore, ImplementsDirectory, SizeWithinLimitHolds, PTL
===============================================================================
