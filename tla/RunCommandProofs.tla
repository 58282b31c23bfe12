--------------------------- MODULE RunCommandProofs ---------------------------
(* Proofs about RunCommand: what holds of a command's result however the   *)
(* runner, the waiter, the watcher and the processes interleave, and for   *)
(* whatever kinds of helpers commands leave behind.                        *)
EXTENDS RunCommand, TLAPS

(* Before Start succeeds nothing runs; afterwards everything does. *)
Started ==
    IF runner \in {"start", "failed"}
    THEN waiter = "off" /\ watcher = "off" /\ \A p \in Procs : ~ Alive(p)
    ELSE waiter # "off" /\ watcher # "off" /\ status["child"] # "none"

(* What the waiter has done so far is still true. *)
WaiterProgress ==
    /\ waiter \in {"off", "wait", "collect"} => waitErr # "ctx"
    /\ waiter \in {"collect", "drain", "sent"} =>
          status["child"] \in (IF waitErr = "exit" THEN {"nonzero", "term", "kill"}
                                                   ELSE {"zero"})
    /\ waiter \in {"drain", "sent"} =>
          /\ watcher # "watching"
          /\ status["child"] = "zero" => (waitErr = "ctx" <=> watcher = "interrupted")
    /\ waiter = "sent" => \A p \in Procs : HoldsPipes(p) => ~ Alive(p)

(* A result is given once the waiter has sent its own. *)
ResultGiven == /\ Returned => waiter = "sent"
               /\ Returned => result.code = ExitCode(result.timedOut)

RInv == TypeOK /\ Started /\ WaiterProgress /\ ResultGiven
        /\ CancelIsNotTimeout /\ NoSurvivors

(* The exit codes a result can carry. *)
LEMMA ExitCodeValues ==
    ASSUME NEW timedOut \in BOOLEAN,
           waitErr \in {"nil", "exit", "ctx"},
           waitErr = "exit" => status["child"] \in {"nonzero", "term", "kill"}
    PROVE  /\ ExitCode(timedOut) \in {0, 1, 124, 127, 137, 143}
           /\ ExitCode(timedOut) = 0 => waitErr = "nil"
           /\ ExitCode(timedOut) = 124 => timedOut
<1>1. waitErr = "exit" => StatusCode(status["child"]) \in {1, 143, 137}
  BY DEF StatusCode
<1> QED
  BY <1>1 DEF ExitCode

(* A command that has not started satisfies the invariant. *)
LEMMA InitEstablishes == Init => RInv
BY DEF Init, RInv, TypeOK, Started, WaiterProgress, ResultGiven, CancelIsNotTimeout,
       NoSurvivors, Procs, Alive, NoResult, Returned, Statuses

(* A received result satisfies what is asked of it. *)
LEMMA ReceiveWaitPreserves == RInv /\ ReceiveWait => RInv'
<1> SUFFICES ASSUME RInv, ReceiveWait PROVE RInv'
  OBVIOUS
<1> USE DEF RInv
<1>1. /\ waiter = "sent" /\ runner \in {"select", "inner", "await"} /\ runner' = "done"
      /\ UNCHANGED <<ctx, status, kind, termed, watcher, waiter, waitErr>>
      /\ result' = Result(runner = "await")
  BY DEF ReceiveWait, procVars, waitVars
<1> DEFINE timedOut == runner = "await" /\ ctx = "deadline"
<1>2. result' = [code |-> ExitCode(timedOut), timedOut |-> timedOut]
  BY <1>1 DEF Result
<1>3. /\ ExitCode(timedOut) \in {0, 1, 124, 127, 137, 143}
      /\ ExitCode(timedOut) = 0 => waitErr = "nil"
      /\ ExitCode(timedOut) = 124 => timedOut
  <2>1. waitErr = "exit" => status["child"] \in {"nonzero", "term", "kill"}
    BY <1>1 DEF WaiterProgress
  <2>2. waitErr \in {"nil", "exit", "ctx"} /\ timedOut \in BOOLEAN
    BY DEF TypeOK
  <2> HIDE DEF timedOut
  <2> QED
    BY <2>1, <2>2, ExitCodeValues
<1>4. result'.code = ExitCode(timedOut) /\ result'.timedOut = timedOut
  BY <1>2
<1>5. TypeOK'
  <2>1. timedOut \in BOOLEAN
    OBVIOUS
  <2> HIDE DEF timedOut
  <2>2. result' \in [code : {-1, 0, 1, 124, 127, 137, 143}, timedOut : BOOLEAN]
    BY <1>2, <1>3, <2>1, Zenon
  <2> QED
    BY <1>1, <2>2 DEF TypeOK
<1>6. Started' /\ WaiterProgress'
  BY <1>1 DEF Started, WaiterProgress, Alive, HoldsPipes
<1>7. ResultGiven' /\ CancelIsNotTimeout'
  <2>1. CancelIsNotTimeout'
    BY <1>1, <1>3, <1>4 DEF CancelIsNotTimeout, Returned
  <2>2. ExitCode(timedOut) = ExitCode(result.timedOut)'
    BY <1>1, <1>4 DEF ExitCode
  <2> QED
    BY <1>1, <1>4, <2>1, <2>2 DEF ResultGiven
<1>8. NoSurvivors'
  BY <1>1, <1>4 DEF NoSurvivors, Returned, Alive, InGroup
<1> QED
  BY <1>5, <1>6, <1>7, <1>8

(* Every step of every party preserves the invariant. *)
LEMMA StepPreserves == RInv /\ [Next]_vars => RInv'
<1> SUFFICES ASSUME RInv, [Next]_vars PROVE RInv'
  OBVIOUS
<1> USE HelperAssumption DEF RInv, TypeOK, Started, WaiterProgress, ResultGiven,
        CancelIsNotTimeout, NoSurvivors, Returned, Procs, Alive, InGroup, HoldsPipes, Statuses,
        procVars, waitVars
<1>1. ASSUME NEW reason \in {"deadline", "cancelled"}, CtxDone(reason) PROVE RInv'
  BY <1>1 DEF CtxDone
<1>2. ASSUME NEW k \in HelperKinds, Fork(k) PROVE RInv'
  BY <1>2 DEF Fork
<1>3. ASSUME NEW p \in Procs, Exit(p) PROVE RInv'
  BY <1>3 DEF Exit, ExitCode, StatusCode
<1>4. CASE WatcherKill
  BY <1>4 DEF WatcherKill, Reaped, Killed
<1>5. CASE Reap
  BY <1>5 DEF Reap
<1>6. CASE Collect
  BY <1>6 DEF Collect, ExitCode
<1>7. CASE Drain
  BY <1>7 DEF Drain
<1>8. CASE Start
  BY <1>8 DEF Start
<1>9. CASE ReceiveWait
  BY <1>9, ReceiveWaitPreserves
<1>10. CASE SelectCtx
  BY <1>10 DEF SelectCtx
<1>11. CASE DecideToKill
  BY <1>11 DEF DecideToKill
<1>12. CASE SendTerm
  <2>1. termed' \subseteq Procs
    BY <1>12 DEF SendTerm
  <2> QED
    BY <1>12, <2>1 DEF SendTerm
<1>13. CASE GroupGone
  BY <1>13 DEF GroupGone, GroupExists, Reaped
<1>14. CASE SendKill
  BY <1>14 DEF SendKill, Killed
<1>15. CASE UNCHANGED vars
  BY <1>15 DEF vars, ExitCode, StatusCode
<1> QED
  BY <1>1, <1>2, <1>3, <1>4, <1>5, <1>6, <1>7, <1>8, <1>9, <1>10, <1>11, <1>12,
     <1>13, <1>14, <1>15 DEF Next, WatcherStep, WaiterStep, RunnerStep

(* The invariant holds in every state of every run of a command. *)
THEOREM Invariance == Spec => []RInv
BY InitEstablishes, StepPreserves, PTL DEF Spec

(* The state of a command always has its types; in particular the codes a  *)
(* result carries are those of exitCodeFromWait.                           *)
THEOREM TypeCorrect == Spec => []TypeOK
<1>1. RInv => TypeOK
  BY DEF RInv
<1> QED
  BY <1>1, Invariance, PTL

(* A cancelled call never reports a timeout. *)
THEOREM CancelIsNotTimeoutHolds == Spec => []CancelIsNotTimeout
<1>1. RInv => CancelIsNotTimeout
  BY DEF RInv
<1> QED
  BY <1>1, Invariance, PTL

(* Whatever forked, exited or ignored SIGTERM while killProcessGroup ran,  *)
(* nothing of the process group runs after it.                             *)
THEOREM NoSurvivorsHolds == Spec => []NoSurvivors
<1>1. RInv => NoSurvivors
  BY DEF RInv
<1> QED
  BY <1>1, Invariance, PTL

(* The exit code tells how the child ended: 0 of a child that exited with  *)
(* 0 and that the watcher had not fired at, and of no other.               *)
THEOREM CodeTellsEndHolds == Spec => []CodeTellsEnd
<1>1. RInv => CodeTellsEnd
  BY DEF RInv, CodeTellsEnd, TypeOK, Started, WaiterProgress, ResultGiven, ExitCode, StatusCode, Returned
<1> QED
  BY <1>1, Invariance, PTL

(* When a result is given no process holds the output pipes, so Bytes() is *)
(* the whole output, also with helpers that left the process group.        *)
THEOREM OutputCompleteHolds == Spec => []OutputComplete
<1>1. RInv => OutputComplete
  BY DEF RInv, OutputComplete, WaiterProgress, ResultGiven
<1> QED
  BY <1>1, Invariance, PTL
===============================================================================
