----------------------------- MODULE ShellCommand -----------------------------
(***************************************************************************)
(* exectool/shellcommand.go composed with the session store: shell command *)
(* calls of several goroutines that share sessions.                        *)
(*                                                                         *)
(* A call is one process.  Its steps are separated wherever it releases a  *)
(* lock: the store's ss.mu (actions of SessionStore), and the session's    *)
(* s.mu, taken once each by GetEffectiveWorkdir, GetEffectiveEnv,          *)
(* SetWorkDir and AddToEnv (internal/executil/shell_session.go).  Checks   *)
(* that read only the request are part of the step they follow.            *)
(***************************************************************************)
EXTENDS SessionStore

CONSTANTS Requests,     \* the arguments calls are made with
          Keys,         \* environment variable names
          Values,       \* their values, BadValue among them
          BadValue,     \* a value ValidateEnvMap rejects
          Unset,        \* stands for "no value"
          Dirs,         \* directories, OutsideDir among them
          OutsideDir,   \* a directory fspolicy rejects
          NoDir,        \* stands for "no directory"
          BaseDir,      \* fsPol.WorkBaseDir()
          MaxCommands,  \* effectiveMaxCommands
          MaxCalls      \* bound on the number of calls

Envs == [Keys -> Values \cup {Unset}]
NoEnv == [k \in Keys |-> Unset]

(* A request: its commands are "plain", or "blocked" when                   *)
(* RejectDangerousCommand, the length limit or the NUL check refuses them. *)
RequestShape ==
    [session : MaybeId, workdir : Dirs \cup {NoDir}, env : Envs,
     commands : Seq({"plain", "blocked"}), parallel : BOOLEAN]

ASSUME ShellAssumption ==
    /\ Requests \subseteq RequestShape
    /\ BadValue \in Values /\ Unset \notin Values
    /\ {OutsideDir, BaseDir} \subseteq Dirs /\ OutsideDir # BaseDir /\ NoDir \notin Dirs
    /\ MaxCommands \in Nat /\ MaxCalls \in Nat

VARIABLES workdir,  \* workdir[id]: the session's workdir
          env,      \* env[id]: the session's env
          job,      \* job[c]: the local state of c's call
          calls     \* how many calls were made

shellVars == <<vars, workdir, env, job, calls>>

(* Faulty variants: the overrides alone, or in place of the old values. *)
OverridesOnly(old, new) == [k \in {x \in Keys : new[x] # Unset} |-> new[k]]
Replaced(old, new) == new

Merged(old, new) == [k \in Keys |-> IF new[k] # Unset THEN new[k] ELSE old[k]]

ValidEnv(e) == \A k \in Keys : e[k] # BadValue

NoRequest == [session |-> NoId, workdir |-> NoDir, env |-> NoEnv,
              commands |-> << >>, parallel |-> FALSE]

Fresh == [pc |-> "ready", req |-> NoRequest, sess |-> NoId, made |-> NoId,
          cwd |-> NoDir, env |-> NoEnv, results |-> << >>, outcome |-> "none"]

ShellInit == /\ Init
             /\ workdir = [id \in Ids |-> NoDir]
             /\ env = [id \in Ids |-> NoEnv]
             /\ job = [c \in Callers |-> Fresh]
             /\ calls = 0

-------------------------------------------------------------------------------
At(c, pc) == job[c].pc = pc

Goto(c, pc) == job' = [job EXCEPT ![c].pc = pc]

(* What is left of a call that returned: its arguments and its outcome. *)
Ended(c, outcome, results) ==
    [Fresh EXCEPT !.req = job[c].req, !.made = job[c].made,
                  !.outcome = outcome, !.results = results]

Succeed(c, results) == job' = [job EXCEPT ![c] = Ended(c, "ok", results)]

(* return nil, err: the deferred function runs next, if it has work to do. *)
Fail(c) ==
    job' = IF job[c].made = NoId
           THEN [job EXCEPT ![c] = Ended(c, "error", job[c].results)]
           ELSE [job EXCEPT ![c].pc = "undo"]

Closed(c) == job[c].sess \in closed

(* The checks before any session is touched: ctx, then the command list. *)
Refused(r, cancelled) ==
    \/ cancelled
    \/ r.commands = << >>
    \/ Len(r.commands) > MaxCommands

Start(c, r) ==
    /\ At(c, "ready")
    /\ calls < MaxCalls
    /\ calls' = calls + 1
    /\ \E cancelled \in BOOLEAN :
          IF Refused(r, cancelled)
          THEN /\ job' = [job EXCEPT ![c] = [Fresh EXCEPT !.req = r, !.outcome = "error"]]
               /\ UNCHANGED vars
          ELSE /\ job' = [job EXCEPT ![c] = [Fresh EXCEPT !.req = r, !.pc = "session"]]
               /\ IF r.session = NoId THEN BeginNew(c) ELSE BeginGet(c, r.session)
    /\ UNCHANGED <<workdir, env>>

(* sessions.NewSession(): from here on the call owns a session. *)
CreateSession(c) ==
    /\ At(c, "session")
    /\ NewSessionLocked(c)
    /\ job' = [job EXCEPT ![c].pc = "workdir",
                          ![c].sess = answer'[c].id, ![c].made = answer'[c].id]
    /\ UNCHANGED <<workdir, env, calls>>

(* sessions.Get(args.SessionID) *)
LookUp(c) ==
    /\ At(c, "session")
    /\ GetHit(c)
    /\ UNCHANGED <<workdir, env, job, calls>>

LookUpFails(c) ==
    /\ At(c, "session")
    /\ GetMiss(c)
    /\ Fail(c)
    /\ UNCHANGED <<workdir, env, calls>>

(* Faulty variant: the session that was found counts as made by the call. *)
LookUpClaims(c) ==
    /\ At(c, "session")
    /\ CheckClosed(c)
    /\ IF answer'[c].kind = "found"
       THEN job' = [job EXCEPT ![c].pc = "workdir", ![c].sess = answer'[c].id,
                               ![c].made = answer'[c].id]
       ELSE Fail(c)
    /\ UNCHANGED <<workdir, env, calls>>

LookUpChecked(c) ==
    /\ At(c, "session")
    /\ CheckClosed(c)
    /\ IF answer'[c].kind = "found"
       THEN job' = [job EXCEPT ![c].pc = "workdir", ![c].sess = answer'[c].id]
       ELSE Fail(c)
    /\ UNCHANGED <<workdir, env, calls>>

(* GetEffectiveWorkdir: argument, else session, else base directory. *)
Candidate(c) ==
    IF job[c].req.workdir # NoDir THEN job[c].req.workdir
    ELSE IF workdir[job[c].sess] # NoDir THEN workdir[job[c].sess]
    ELSE BaseDir

(* Faulty variant: the allowed roots are not enforced. *)
VerifiesExistence(dir) == BOOLEAN

(* ResolvePath and VerifyDirResolved: a directory outside the roots always *)
(* fails; any other may have gone since it was last used.                  *)
Verifies(dir) == IF dir = OutsideDir THEN {FALSE} ELSE BOOLEAN

(* Then ValidateEnvMap(args.Env). *)
ChooseWorkdir(c) ==
    /\ At(c, "workdir")
    /\ \E ok \in Verifies(Candidate(c)) :
          IF ~ Closed(c) /\ ok /\ ValidEnv(job[c].req.env)
          THEN job' = [job EXCEPT ![c].pc = "env", ![c].cwd = Candidate(c)]
          ELSE Fail(c)
    /\ UNCHANGED <<vars, workdir, env, calls>>

(* GetEffectiveEnv, then selectShell, which may find no shell. *)
ChooseEnv(c) ==
    /\ At(c, "env")
    /\ \E haveShell \in BOOLEAN :
          IF ~ Closed(c) /\ haveShell
          THEN job' = [job EXCEPT ![c].pc = "setdir",
                                  ![c].env = Merged(env[job[c].sess], job[c].req.env)]
          ELSE Fail(c)
    /\ UNCHANGED <<vars, workdir, env, calls>>

(* SetWorkDir, if the request names one.  It does not look at closed. *)
PersistWorkdir(c) ==
    /\ At(c, "setdir")
    /\ workdir' = IF job[c].req.workdir # NoDir
                  THEN [workdir EXCEPT ![job[c].sess] = job[c].cwd]
                  ELSE workdir
    /\ Goto(c, "addenv")
    /\ UNCHANGED <<vars, env, calls>>

(* AddToEnv: an empty map succeeds at once, a closed session refuses. *)
PersistEnv(c) ==
    /\ At(c, "addenv")
    /\ IF job[c].req.env = NoEnv
       THEN Goto(c, "run") /\ UNCHANGED env
       ELSE IF ~ ValidEnv(job[c].req.env) \/ Closed(c)
       THEN Fail(c) /\ UNCHANGED env
       ELSE /\ env' = [env EXCEPT ![job[c].sess] = Merged(@, job[c].req.env)]
            /\ Goto(c, "run")
    /\ UNCHANGED <<vars, workdir, calls>>

(* Faulty variant: a failed command never stops the loop. *)
RunOn(c) ==
    /\ At(c, "run") /\ Len(job[c].results) < Len(job[c].req.commands)
    /\ \E result \in {"zero", "nonzero"} :
          job' = [job EXCEPT ![c].results = Append(@, result)]
    /\ UNCHANGED <<vars, workdir, env, calls>>

(* The command loop, one iteration a step.  A command that cannot be       *)
(* started gets a result with exit code 127, so every command that is      *)
(* tried has a result.                                                     *)
NextCommand(c) == job[c].req.commands[Len(job[c].results) + 1]

Exhausted(c) == Len(job[c].results) = Len(job[c].req.commands)

RunCommand(c) ==
    /\ At(c, "run") /\ ~ Exhausted(c)
    /\ NextCommand(c) = "plain"
    /\ \E result \in {"zero", "nonzero"} :
          LET results == Append(job[c].results, result)
          IN  IF result = "nonzero" /\ ~ job[c].req.parallel
              THEN Succeed(c, results)
              ELSE job' = [job EXCEPT ![c].results = results]
    /\ UNCHANGED <<vars, workdir, env, calls>>

(* The checks before each command: ctx.Err(), which may be set at any of   *)
(* them, then length, NUL byte and blocklist.                              *)
Cancelled(c) ==
    /\ At(c, "run") /\ ~ Exhausted(c)
    /\ Fail(c)
    /\ UNCHANGED <<vars, workdir, env, calls>>

CommandRefused(c) ==
    /\ At(c, "run") /\ ~ Exhausted(c)
    /\ NextCommand(c) = "blocked"
    /\ Fail(c)
    /\ UNCHANGED <<vars, workdir, env, calls>>

Finish(c) ==
    /\ At(c, "run") /\ Exhausted(c)
    /\ Succeed(c, job[c].results)
    /\ UNCHANGED <<vars, workdir, env, calls>>

(* Faulty variant: nothing is deleted. *)
KeepSession(c) ==
    /\ At(c, "undo")
    /\ job' = [job EXCEPT ![c] = Ended(c, "error", job[c].results)]
    /\ UNCHANGED <<vars, workdir, env, calls>>

(* The deferred sessions.Delete(createdSessionID). *)
Undo(c) ==
    /\ At(c, "undo")
    /\ Delete(c, job[c].made)
    /\ job' = [job EXCEPT ![c] = Ended(c, "error", job[c].results)]
    /\ UNCHANGED <<workdir, env, calls>>

PassTime == Tick /\ UNCHANGED <<workdir, env, job, calls>>

(* The steps a call takes by itself. *)
Step(c) == \/ CreateSession(c) \/ LookUp(c) \/ LookUpFails(c) \/ LookUpChecked(c)
           \/ ChooseWorkdir(c) \/ ChooseEnv(c)
           \/ PersistWorkdir(c) \/ PersistEnv(c)
           \/ RunCommand(c) \/ Cancelled(c) \/ CommandRefused(c) \/ Finish(c) \/ Undo(c)

ShellNext == \/ PassTime
             \/ \E c \in Callers : \/ \E r \in Requests : Start(c, r)
                                   \/ Step(c)

ShellSpec == ShellInit /\ [][ShellNext]_shellVars

-------------------------------------------------------------------------------
Jobs == [pc : {"ready", "session", "workdir", "env", "setdir", "addenv", "run", "undo"},
         req : Requests \cup {NoRequest}, sess : MaybeId, made : MaybeId,
         cwd : Dirs \cup {NoDir}, env : Envs, results : Seq({"zero", "nonzero"}),
         outcome : {"none", "ok", "error"}]

ShellTypeOK == /\ workdir \in [Ids -> Dirs \cup {NoDir}]
               /\ env \in [Ids -> Envs]
               /\ job \in [Callers -> Jobs]
               /\ calls \in 0 .. MaxCalls

(* A call that failed leaves no session behind that it created itself,     *)
(* whatever made it fail and whatever the others did meanwhile.            *)
NoLeakOnError ==
    \A c \in Callers :
        At(c, "ready") /\ job[c].outcome = "error" => job[c].made \notin m

(* What a request may bring but validation refuses never reaches a session *)
(* nor a command, also when the request changes a session it shares.       *)
OnlyValidSettings ==
    /\ \A id \in Ids : workdir[id] # OutsideDir /\ ValidEnv(env[id])
    /\ \A c \in Callers :
          At(c, "run") => job[c].cwd \in Dirs \ {OutsideDir} /\ ValidEnv(job[c].env)

(* An environment that was stored is merged with, never replaced, and one  *)
(* of a session that is closed is not touched: a call that lost its        *)
(* session fails instead of storing into a session nobody can look up.     *)
EnvOnlyMerged ==
    [][\A id \in Ids :
          /\ id \in closed => env'[id] = env[id]
          /\ \A k \in Keys : env[id][k] # Unset => env'[id][k] # Unset]_shellVars

(* A call's results tell what ran: one per command in order, none for a    *)
(* command that was refused, and an early end only after a failure in a    *)
(* call that stops at failures.                                            *)
ResultsExplainOutcome ==
    \A c \in Callers :
        LET done == job[c].results
            cmds == job[c].req.commands
        IN  /\ Len(done) <= Len(cmds)
            /\ \A i \in 1 .. Len(done) : cmds[i] = "plain"
            /\ ~ job[c].req.parallel =>
                  \A i \in 1 .. Len(done) - 1 : done[i] = "zero"
            /\ job[c].outcome = "ok" =>
                  \/ Len(done) = Len(cmds)
                  \/ ~ job[c].req.parallel /\ Last(done) = "nonzero"

(* A call that fails takes no session away but the one it made itself. A   *)
(* session that was given to it, or that another call made, goes only when *)
(* it has expired or is pushed out by sessions used later, whatever fails  *)
(* and whoever else looks up, creates or evicts meanwhile.                 *)
OnlyOwnUndone ==
    [][\A id \in m \ m' :
          \/ \E c \in Callers : /\ At(c, "undo") /\ job'[c].outcome = "error"
                                /\ job[c].req.session = NoId /\ job[c].sess = id
          \/ TooOld(id) \/ PushedOut(id)]_shellVars
===============================================================================
