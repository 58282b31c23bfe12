------------------------------ MODULE RunCommand ------------------------------
(***************************************************************************)
(* internal/executil/run_command.go, RunOneShellCommand, on Unix: one      *)
(* command run under a context that may expire or be cancelled.            *)
(*                                                                         *)
(* Four parties move independently:                                        *)
(*   - the runner, the goroutine that called RunOneShellCommand;           *)
(*   - the waiter, the goroutine it starts to call cmd.Wait();             *)
(*   - the watcher, the goroutine os/exec starts for CommandContext: when  *)
(*     the context is done it kills the child ITSELF, not its group;       *)
(*   - the processes: the child, and one helper it may leave behind.       *)
(* The watcher and cmd.Wait are the Go library's; they are modelled from   *)
(* the way RunOneShellCommand sets them up (Cancel and WaitDelay unset,    *)
(* output through in-process writers, so Wait drains the pipes).           *)
(***************************************************************************)
EXTENDS Integers

CONSTANT HelperKinds    \* what kinds of helper a command may leave behind

(* "quiet": in the child's group, its output redirected away.              *)
(* "piped": in the group, holding the output pipes.                        *)
(* "detached": in a session of its own, holding the output pipes.          *)
ASSUME HelperAssumption == HelperKinds \subseteq {"quiet", "piped", "detached"}

VARIABLES ctx,      \* "live", or why it is done: "deadline" or "cancelled"
          status,   \* status[p]: whether process p runs, or how it ended
          kind,     \* the helper's kind
          termed,   \* the processes that were sent SIGTERM
          watcher,  \* where the watcher is
          waiter,   \* where the waiter is
          waitErr,  \* what cmd.Wait() is about to return
          runner,   \* where the runner is
          result    \* ExitCode and TimedOut

procVars == <<status, kind, termed>>
waitVars == <<watcher, waiter, waitErr>>
vars == <<ctx, status, kind, termed, watcher, waiter, waitErr, runner, result>>

Procs == {"child", "helper"}
NoResult == [code |-> -1, timedOut |-> FALSE]

Init == /\ ctx = "live"
        /\ status = [p \in Procs |-> "none"]
        /\ kind = "none"
        /\ termed = {}
        /\ watcher = "off"
        /\ waiter = "off"
        /\ waitErr = "nil"
        /\ runner = "start"
        /\ result = NoResult

Alive(p) == status[p] = "running"
InGroup(p) == p = "child" \/ kind # "detached"
HoldsPipes(p) == p = "child" \/ kind # "quiet"

(* The pid is released by the waiter, in Process.Wait. *)
Reaped == waiter # "wait"

(* What kill(-pgid, 0) sees: an unreaped child counts. *)
GroupExists == ~ Reaped \/ \E p \in Procs : Alive(p) /\ InGroup(p)

Killed(victims) == [p \in Procs |-> IF p \in victims THEN "kill" ELSE status[p]]

-------------------------------------------------------------------------------
(* The surroundings. *)

CtxDone(reason) ==
    /\ ctx = "live"
    /\ runner \notin {"done", "failed"}
    /\ ctx' = reason
    /\ UNCHANGED <<procVars, waitVars, runner, result>>

Fork(k) ==
    /\ Alive("child")
    /\ status["helper"] = "none"
    /\ status' = [status EXCEPT !["helper"] = "running"]
    /\ kind' = k
    /\ UNCHANGED <<ctx, termed, waitVars, runner, result>>

(* A process may also ignore SIGTERM: nothing says that it ever exits. *)
Exit(p) ==
    /\ Alive(p)
    /\ \E how \in {"zero", "nonzero"} \cup (IF p \in termed THEN {"term"} ELSE {}) :
          status' = [status EXCEPT ![p] = how]
    /\ UNCHANGED <<ctx, kind, termed, waitVars, runner, result>>

-------------------------------------------------------------------------------
(* The os/exec watcher: cmd.Cancel is Process.Kill.  A child that exited   *)
(* but was not reaped counts as interrupted.                               *)
WatcherKill ==
    /\ watcher = "watching"
    /\ ctx # "live"
    /\ IF Reaped
       THEN watcher' = "late" /\ UNCHANGED status
       ELSE /\ watcher' = "interrupted"
            /\ status' = Killed({p \in {"child"} : Alive(p)})
    /\ UNCHANGED <<ctx, kind, termed, waiter, waitErr, runner, result>>

-------------------------------------------------------------------------------
(* cmd.Wait(): reap the child, collect the watcher's result, drain the     *)
(* pipes; then the send to waitCh, which has room.                         *)
Reap ==
    /\ waiter = "wait"
    /\ ~ Alive("child")
    /\ waitErr' = IF status["child"] = "zero" THEN "nil" ELSE "exit"
    /\ waiter' = "collect"
    /\ UNCHANGED <<ctx, procVars, watcher, runner, result>>

(* The watcher is told to stop unless it has already fired. *)
Collect ==
    /\ waiter = "collect"
    /\ waitErr' = IF waitErr = "nil" /\ watcher = "interrupted" THEN "ctx" ELSE waitErr
    /\ watcher' = IF watcher = "watching" THEN "stopped" ELSE watcher
    /\ waiter' = "drain"
    /\ UNCHANGED <<ctx, procVars, runner, result>>

(* Faulty variant: the output still in the pipes is not waited for. *)
SendAtOnce ==
    /\ waiter = "drain"
    /\ waiter' = "sent"
    /\ UNCHANGED <<ctx, procVars, watcher, waitErr, runner, result>>

Drain ==
    /\ waiter = "drain"
    /\ \A p \in Procs : Alive(p) => ~ HoldsPipes(p)
    /\ waiter' = "sent"
    /\ UNCHANGED <<ctx, procVars, watcher, waitErr, runner, result>>

-------------------------------------------------------------------------------
(* RunOneShellCommand. *)

(* cmd.Start refuses a context that is done, and fails if there is no      *)
(* such shell or directory.                                                *)
Start ==
    /\ runner = "start"
    /\ \/ /\ ctx = "live"
          /\ status' = [status EXCEPT !["child"] = "running"]
          /\ watcher' = "watching"
          /\ waiter' = "wait"
          /\ runner' = "select"
       \/ runner' = "failed" /\ UNCHANGED <<status, watcher, waiter>>
    /\ UNCHANGED <<ctx, kind, termed, waitErr, result>>

(* Faulty variant: a signal is reported as its bare number. *)
BareNumber(how) == [nonzero |-> 1, term |-> 15, kill |-> 9][how]

(* exitCodeFromProcessState; a program's own failure is 1 here. *)
StatusCode(how) == [nonzero |-> 1, term |-> 143, kill |-> 137][how]

(* Faulty variant: the timeout is looked at before the error. *)
TimeoutFirst(timedOut) ==
    IF timedOut THEN 124
    ELSE IF waitErr = "nil" THEN 0
    ELSE IF waitErr = "exit" THEN StatusCode(status["child"]) ELSE 127

(* exitCodeFromWait. *)
ExitCode(timedOut) ==
    IF waitErr = "nil" THEN 0
    ELSE IF timedOut THEN 124
    ELSE IF waitErr = "exit" THEN StatusCode(status["child"]) ELSE 127

(* Faulty variant: every kill counts as a timeout. *)
ResultOfKill(killedByCtx) ==
    [code |-> ExitCode(killedByCtx), timedOut |-> killedByCtx]

Result(killedByCtx) ==
    LET timedOut == killedByCtx /\ ctx = "deadline"
    IN  [code |-> ExitCode(timedOut), timedOut |-> timedOut]

(* <-waitCh, in either select or after the kill. *)
ReceiveWait ==
    /\ runner \in {"select", "inner", "await"}
    /\ waiter = "sent"
    /\ result' = Result(runner = "await")
    /\ runner' = "done"
    /\ UNCHANGED <<ctx, procVars, waitVars>>

SelectCtx ==
    /\ runner = "select"
    /\ ctx # "live"
    /\ runner' = "inner"
    /\ UNCHANGED <<ctx, procVars, waitVars, result>>

(* The inner select's default. *)
DecideToKill ==
    /\ runner = "inner"
    /\ waiter # "sent"
    /\ runner' = "term"
    /\ UNCHANGED <<ctx, procVars, waitVars, result>>

(* killProcessGroup: SIGTERM, a grace period, SIGKILL unless all are gone. *)
SendTerm ==
    /\ runner = "term"
    /\ termed' = termed \cup {p \in Procs : Alive(p) /\ InGroup(p)}
    /\ runner' = "grace"
    /\ UNCHANGED <<ctx, status, kind, waitVars, result>>

GroupGone ==
    /\ runner = "grace"
    /\ ~ GroupExists
    /\ runner' = "await"
    /\ UNCHANGED <<ctx, procVars, waitVars, result>>

(* Faulty variants: no SIGKILL, and SIGKILL for the child alone. *)
GiveUp ==
    /\ runner = "grace"
    /\ runner' = "await"
    /\ UNCHANGED <<ctx, procVars, waitVars, result>>

KillChildOnly ==
    /\ runner = "grace"
    /\ status' = Killed({p \in {"child"} : Alive(p)})
    /\ runner' = "await"
    /\ UNCHANGED <<ctx, kind, termed, waitVars, result>>

SendKill ==
    /\ runner = "grace"
    /\ status' = Killed({p \in Procs : Alive(p) /\ InGroup(p)})
    /\ runner' = "await"
    /\ UNCHANGED <<ctx, kind, termed, waitVars, result>>

WatcherStep == WatcherKill
WaiterStep == Reap \/ Collect \/ Drain
RunnerStep == \/ Start \/ ReceiveWait \/ SelectCtx \/ DecideToKill
              \/ SendTerm \/ GroupGone \/ SendKill

Next == \/ \E reason \in {"deadline", "cancelled"} : CtxDone(reason)
        \/ \E k \in HelperKinds : Fork(k)
        \/ \E p \in Procs : Exit(p)
        \/ WatcherStep
        \/ WaiterStep
        \/ RunnerStep

(* The Go scheduler runs every goroutine that can run.  Nothing is assumed *)
(* of the processes: a command may never end by itself.                    *)
Fairness == /\ WF_vars(WatcherStep)
            /\ WF_vars(WaiterStep)
            /\ WF_vars(RunnerStep)

Spec == Init /\ [][Next]_vars /\ Fairness

-------------------------------------------------------------------------------
Statuses == {"none", "running", "zero", "nonzero", "term", "kill"}

(* The state has its types. *)
TypeOK ==
    /\ ctx \in {"live", "deadline", "cancelled"}
    /\ status \in [Procs -> Statuses]
    /\ kind \in HelperKinds \cup {"none"}
    /\ termed \subseteq Procs
    /\ watcher \in {"off", "watching", "interrupted", "late", "stopped"}
    /\ waiter \in {"off", "wait", "collect", "drain", "sent"}
    /\ waitErr \in {"nil", "exit", "ctx"}
    /\ runner \in {"start", "select", "inner", "term", "grace", "await", "done", "failed"}
    /\ result \in [code : {-1, 0, 1, 124, 127, 137, 143}, timedOut : BOOLEAN]

Returned == runner = "done"

(* A cancelled call is never reported as one that ran out of time, however *)
(* the cancellation races the child's end.                                 *)
CancelIsNotTimeout == Returned /\ ctx # "deadline" => ~ result.timedOut /\ result.code # 124

(* After the runner has gone through killProcessGroup nothing of the group *)
(* runs on: a helper that ignores SIGTERM, or was forked after it, is gone.*)
NoSurvivors ==
    runner = "await" \/ (Returned /\ result.timedOut)
        => \A p \in Procs : InGroup(p) => ~ Alive(p)

(* The exit code tells how the child ended, whichever of the two killers    *)
(* fired at it and whatever the runner, the waiter and the watcher did      *)
(* first. It is 0 exactly of a child that exited with 0 before the watcher  *)
(* fired: also of one that did so on the runner's SIGTERM, and then         *)
(* TimedOut may be set. Otherwise it is 124 after a timeout, the child's    *)
(* own code or signal without one, and 127 of a child that exited with 0    *)
(* but was fired at by the watcher before it was reaped.                    *)
CodeTellsEnd ==
    Returned =>
      LET spared == watcher # "interrupted"
      IN  /\ result.code = 0 <=> status["child"] = "zero" /\ spared
          /\ result.code = 124 <=> result.timedOut /\ result.code # 0
          /\ result.code = 127 => status["child"] = "zero"
          /\ result.code \in {137, 143} => status["child"] \in {"kill", "term"}
          /\ status["child"] = "kill" => result.code \in {124, 137}

(* The captured output is read when no process can add to it any more.     *)
OutputComplete == Returned => \A p \in Procs : HoldsPipes(p) => ~ Alive(p)

(* A call returns once its context is done ("Enforces timeouts").          *)
Returns == ctx # "live" ~> runner \in {"done", "failed"}

(* A command that was killed because its deadline passed is reported as    *)
(* timed out.                                                              *)
TimeoutReported ==
    Returned /\ ctx = "deadline" /\ watcher = "interrupted" /\ status["child"] = "kill"
        => result.timedOut
===============================================================================
