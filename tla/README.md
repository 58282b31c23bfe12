# Verification of llmtools-go

TLA+ models of `llmtools-go`, a Go library of tools for language-model agents
(shell, scripts, files, text edits, images) behind one registry. The models are
written from the source, checked with TLC on small instances, and, where a
theorem is stated, proved with TLAPS for every value of the constants.

`PROJECT.json` lists the components, runs, mutants, theorems and hazards, and
maps each definition to the lines it stands for.

## 1. Inventory

| Part | State | Operations | What is hard | What makes it correct |
|---|---|---|---|---|
| **Session store** (`internal/executil/shell_session_store.go`) | id map, LRU list, TTL, limit, all under `ss.mu` | `NewSession`, `Get`, `Delete`, `SetTTL`, `SetMaxSessions`, `Size` | clock read before the lock, `closed` read after it; eviction from every operation | map and list agree; closed exactly when gone; limit; each eviction has a reason; callers see atomic operations |
| **Shell session** (`shell_session.go`) | `workdir`, `env`, `closed` under `s.mu` | `SetWorkDir`, `AddToEnv`, `GetEffectiveEnv`, `GetEffectiveWorkdir` | eviction while a call holds the pointer; two calls on one session | only valid settings; variables merged, never replaced, none stored after close |
| **Shell command tool** (`exectool/shellcommand.go`) | none of its own, drives the two above | `ShellCommand` | a dozen early returns, a deferred delete, settings stored half way | no session leaks from a failed call; results say what ran |
| **Command runner** (`run_command.go`, `run_procgroup_unix.go`) | process group, two goroutines, context | `RunOneShellCommand`, `killProcessGroup` | two killers at the deadline, signals against forks, pipes held by helpers | truthful exit code and timeout; group gone; complete output; returns |
| **Output capture** (`run_command.go`, `cappedWriter`) | ring buffer | `Write`, `Bytes`, `Truncated` | wrap, overflow, exact fill | exactly the tail of the stream; loss announced |
| **Script runner** (`exectool/runscript.go`, `command_from_argv.go`) | none | `RunScript`, `NormalizeRunScriptPolicy` | keys that fold together, fallbacks, words that are quoted and split again | only what the policy as written allows; the checked line is the words meant |
| **Dangerous-command filter** (`dangerous_commands.go`) | none | `RejectDangerousCommand` | quoting, separators, wrappers in three dialects | refused exactly when a command in the line is blocked, or its heuristics find something; a blocked command is refused whatever the heuristics are |
| **Exec facade** (`exectool.go`, `config.go`) | policy under a RW lock | options, `NewExecTool` | normalisation of what a host wrote | the policy that is enforced is the one that was given |
| **File system policy** (`internal/fspolicy`) | allowed roots, base dir (immutable) | `ResolvePath`, `VerifyDirResolved`, `EnsureDirResolved` | others make directories or links on the way | bounded creation, no link passed |
| **Atomic write** (`internal/ioutil/file_write.go`, `atomic_commit_*.go`) | files | `WriteFileAtomicBytesResolved` | crash, loss of power, two writers, no hard links, Windows | readers see a whole text; no debris but what `os.Remove` fails for; no lost file |
| **Trash** (`fstool/deletefile.go`) | files | `deleteFile`, `moveToTrash` | name reservation, copy across devices, crash | the file is in one place or the other, and stays in the trash |
| **Text tools** (`texttool/*`, `ioutil/text_utils.go`) | one file, rewritten whole | insert, replace, delete, find, read range | two calls on one file, contexts that end half way, overlapping matches, odd newlines | an edit is exactly what was asked of the version read; a failure leaves no trace |
| **Registry** (`registry.go`, `toolutil`, `jsonutil`) | tool map under a RW lock | `RegisterTool`, `RegisterBuiltins`, `Call`, `Lookup` | registration against calls, which deadline wins | tools are never replaced; a context error has a reason |
| Search, MIME, images, PDF, logging | none | readers | limits | not modelled: pure reads and conversions |

How they interact: the registry decodes a call and invokes a tool with a context
that may carry a deadline. The shell tool takes a snapshot of its policy, gets or
creates a session in the store, asks the file system policy about the working
directory, stores the settings in the session, and runs the commands one by one
through the runner, which captures output in two capped writers. File and text
tools ask the file system policy about a path and write through the atomic write.

The hazards, each at its line, are in `PROJECT.json`. Those that no property
covers have a note that says why.

## 2. How the project is built

| Modules | Abstract specification | Proofs |
|---|---|---|
| `SessionStore`; `SessionStoreInTurn` tells which behaviours take turns | `SessionDirectory` | `SessionStoreProofs`: invariants, eviction, refinement, order of the list |
| `ShellCommand` over `SessionStore` | `SessionDirectory` | `ShellCommandProofs`: no leaks, only its own session undone, valid settings, results that say what ran |
| `RunCommand` | | `RunCommandProofs`: no survivors, truthful results, complete output |
| `CappedWriter` | `TailCapture` | `CappedWriterProofs`: the ring refines the tail |
| `FileSystem`; `AtomicWrite` and `Trash` over it; `Files` composes them with crashes | | `FilesProofs`: whole texts, nothing lost, nothing left that was not tried to remove |
| `Registry`, `TextTools` over it; the operators of `TextLines`, `ShellWords`, `ScriptPolicy`, `Environment`; `Toolbox` composes them | what a line is composed of: `CommandLines` | `TextLinesProofs` and `ShellWordsProofs`: the operators on lines and on command lines, for all texts; `ToolboxProofs` over both: registration, deadlines, versions, environments, exact edits, right searches, scripts as the policy allows, lines refused exactly when they should be |

The parts with shared state and several goroutines came first, then persistent
state and crashes, then the pure algorithms and the registry that calls them.
What is left to model is in section 6.

## 3. The models

### SessionStore and SessionDirectory

`lru` is the list (front first), `m` the keys of the map, `lastUsed[id]` the stamp
of a list item, `closed` the sessions whose flag is set, `created` the ids drawn so
far. A critical section is one action. `Get` and `NewSession` read the clock before
they lock (`BeginGet`, `BeginNew`), and `Get` reads `closed` after it unlocked
(`CheckClosed`), so a call of `Get` is three steps (`GetHit` or `GetMiss` in the
middle). The two evictions are operators on the list, `KeepUnexpired` and
`KeepWithinLimit`: both scan from the back, so each keeps a front part. What leaves
the list leaves the map and is closed (`Close`, for `deleteElemLocked`).

`SessionDirectory` has no list, clock or lock: live and dead sessions, requests and
answers. `DirectorySpec` says that the store implements it.

`SessionStoreInTurn` adds `inTurn`, which is no state of the code: whether at most one
call at a time has been between its reading of the clock and the lock so far.
What is true of the list's order is true for as long as that is.

### ShellCommand

A call is a process with a `pc`; a step ends where a lock is released. The session
operations are actions of `SessionStore`. `Fail` is every `return nil, err`, followed
by the deferred function (`Undo`) when the call owns a session. `NoLeakOnError` says that
this session is gone afterwards, `OnlyOwnUndone` that no other is: what leaves the store
while a call fails is the session it made, or has expired, or is pushed out by
sessions used later. The environment is a function from names to values or `Unset`;
`ValidateEnvMap` rejects `BadValue`. `selectShell`, `os.Stat` of a directory, the
context and the outcome of a command are choices. The process environment and the
hard limits on size are left out.

### RunCommand

The runner, the waiter (`cmd.Wait` in a goroutine), the watcher that
`exec.CommandContext` starts, and the processes: the child and one helper it may
fork. A helper is `quiet` (output redirected), `piped` (keeps the pipes) or
`detached` (keeps the pipes, left the process group). `status` says how a process
ended; `termed` who got SIGTERM; nobody has to react to it. `waitErr` is what
`cmd.Wait` returns: nothing, an exit error, or the context's error when the watcher
fired and the child still exited with 0. The watcher, `Reap`, `Collect` and the
kernel's part are Go's and Unix's; they are modelled from how this code sets them up
(no `Cancel`, no `WaitDelay`, in-process writers).

### CappedWriter and TailCapture

The ring buffer with its indices as in the code (from 0). `WriteAll` is the branch
for a write that fills the buffer, `WriteSome` the other, with the empty write.
`input` is no state of the code: it records the bytes of the last write, so that
`TailCapture`, which promises the last `cap` bytes of all that was written, speaks
of the same write as the ring.

### FileSystem, AtomicWrite, Trash and Files

A name refers to an inode, so a renamed file keeps its inode and a file that is
still being filled can lose its name. There is one file (`target`), a temporary file
for each writer, two trash directories, and the directories on the way (`tree`).
`data` says whose text an inode has and how much of it, `synced` which inodes
survive a loss of power. `world` holds what does not change: the platform, hard
links or not, which trash directory is on another device, whether symlinks are
refused, and the arguments of the calls.

`AtomicWrite` has one action per system call of `writefile`: `Look` and `Mkdir`
(`walkDirNoSymlinkAbs` and `EnsureDirResolved`, at most `MaxNewDirs`), `WalkFreely`
when symlinks are allowed, `Check` (the look at the file), `CreateTemp`, `WriteTemp`
in two parts, `SyncTemp`, and the commits: `CommitRename`, `CommitLink`, the fallback
without hard links (`CommitCreate`, `CopyOut`, `SyncOut`, and `GiveUpCopy`, which
removes the file by name), and `CommitWindows` with its retries. Any step can fail,
and `Cleanup` is what the deferred function does.

Removals are best effort in the code: the error of `os.Remove` is ignored wherever a
call clears away what it made (`file_write.go:120,144-145`, `atomic_commit_unix.go:39-62`,
`deletefile.go:242-298`). So `Cleanup`, `RemoveTemp`, `GiveUpCopy` and `Discard` may leave
the entry (`Removed`). One that stays gets the label `LeftOver`, which tells it from an
entry that nobody tried to remove, and that is all `NoDebris` denies.

`Trash` is `deletefile`: the look, the queue of trash directories, `Pick`
(`UniquePathInDir`), `Reserve` (the placeholder, `O_EXCL`), the rename, and across
devices the copy into the placeholder or a new symlink, then `Unlink` of whatever
the name refers to. `NextDir`, `Another` and `Discard` are the error paths.

`Files` lets writers, deletes and somebody who makes directories interleave, any
call stop between two system calls (`StopCall`), and the power fail, which stops all
and takes any part of what was not synced (`PowerLoss`).

### Registry

One action per critical section and per point where a call can be overtaken:
`Register` (of one tool of a registrar's list; `RegisterBuiltins` gives up at the
first error), `BeginCall` (the timeout read, the context made), `Lookup`, `Decode`,
`HostTool`. `now` and `Cancel` are the caller's context. `scene` holds what a
behaviour does not change: who registers what, the calls with their options and
arguments, the file's first text and the host's policy. `CONSTANT Families` is a set
of sets of scenes.

### TextLines and TextTools

A text is a sequence of characters of which `LF`, `CR` and `SP` matter. `Parse` is
`ReadTextFileUTF8` with its normalisation of newlines, `Render` the way back,
`NormalizeLineBlockInput` what a block of lines given by a caller becomes, and
`FindTrimmedBlockMatches`, `FindTrimmedAdjacentBlockMatches`, `EnsureNonOverlapping`
and `ReplaceMatches` are the functions of these names. `Places` and `Replaced` say
what a search and a replacement are to be, without the loops, and `Unwritable` which
lines no file can have. `contextLines` is a set, empty in a call that omits it:
`ContextLines` makes it 0, as Go's decoder does. `TextTools` runs a tool in the
steps at which others can interleave: arguments, read, compute, write. The context
is looked at where the code looks (`LooksAtContext`). A regular expression is one
that matches its own text.

### ShellWords, ScriptPolicy and Environment

`ShellWords` quotes (`CommandFromArgv`), splits (`Segments` for `forEachSegment`,
`ShellFields`) and judges (`RejectDangerousCommand`) lines that are sequences of
symbols; a run of ordinary characters is one symbol. The filter's verdict has all its
parts: the blocklist (on Windows with the extensions of `Programs`, and in `cmd` with
`format`), and the heuristics, which are a fork bomb in the text and a lone `&`. Each loop over a line is a fold
of one step: `MarkStep` (quotes and escapes), `SegmentStep`, `FieldStep`.
`ScriptPolicy` normalises a policy and makes a command of a script. Where Go ranges over a map whose keys fold
into one, any may be last, so `NormalizeRunScriptPolicy`, `EffectiveEnvs` and
`AddToEnv` are sets of outcomes. A variable's name is a key and a spelling, which
stands for spaces around it or capitals in it.

### CommandLines

What the filter is to see, said without its loops. A line is parts with a separator
behind each, a part is words with gaps, a word is pieces: plain symbols, escaped or
quoted ones, redirections, the `&` by which PowerShell calls a command. A lone `&` of
`sh` is a separator here, as it is in the shell and in the list at
`dangerous_commands.go:39`, although `forEachSegment` does not split at it (`Splits` are
the separators it does split at, and `Backgrounds` the lines with a lone `&`).
`LineText` is the text of the parts, `IsLine` the rules by which they are composed (neighbours that would make an operator together
are kept `Apart`), and `CommandsOf` the names of the commands: in each part the first
word that is no assignment, or the word that a wrapper there runs. The names
themselves (`CanonicalCmd`, `IsBlocked`, what a wrapper skips) are `ShellWords`'. `builtin` is as `command`.

In front of a command's name (`InPlace`) there may be plain assignments in `sh`,
wrappers with options that take no argument, and PowerShell's `&`.

What the grammar leaves out, since the shell and the filter read it differently or the
filter does not follow it:
- spelling: an escaped newline (which joins lines for the shell), a part that ends in
  an escaped space (which is trimmed away), an `&` in a comment (`hasBackgroundAmpersand`
  looks there too), `>&` in `cmd` (which splits there), and PowerShell's doubled quote
  and its `&` at the end of a line;
- what stands before a name: a redirection, an empty word, an assignment with quotes
  before its `=` (the filter takes each of these for the name or for what it is not), and
  wrapper options with an argument of their own (`env -u x`);
- what the shell puts something else in place of, outside single quotes: variables,
  `$(...)` and backticks, globs, `%` of `cmd`;
- commands behind a keyword of the shell (`if`, `{`, `!`, ...), and programs
  that run others and are no wrapper (`xargs`, `sh -c`, `find -exec`).

A blocked command that is written in one of these ways may pass the filter, and
nothing here says that it does not.

### Toolbox

Composes the registry with the five text tools, `runscript` up to the command it
would run, and `shellcommand` with its environment and filter: `TakeEnv` reads the
session's variables, `RunLine` stores the call's and then judges the line, in the
order of the code. What a session otherwise is belongs to `ShellCommand`, what
becomes of a command to `RunCommand`. `SeenWords` are a command's words as the
filter sees them: no empty ones, and in PowerShell none of the single quotes inside a
word, since `shellFields` takes a doubled quote for two quotes. So in PowerShell the
blocklist judges a name without its quotes.

### Faulty variants

Operators marked "Faulty variant" are what a plausible bug would make of the
definition that follows them. No specification uses them; they are there to show
that each property can fail.

## 4. Runs

| Run | Instance | Shows |
|---|---|---|
| `session_store` | 2 callers, 3 sessions, clock to 2, TTL and limit changed in between, symmetry in ids and callers | the invariants, `EvictionJustified`, `DirectorySpec`; as long as calls take turns, the list is sorted by last use and no expired session is found |
| `session_store_stale_clock` | 2 callers | **violation**: the list is not sorted |
| `shell_command` | 2 goroutines, 3 calls out of 5 requests, a store of one session | `NoLeakOnError`, `OnlyValidSettings`, `ResultsExplainOutcome`, `EnvOnlyMerged`, `OnlyOwnUndone` |
| `run_command` | one command, one helper in the group | the exit code tells how the child ended, no survivors, complete output, and it returns |
| `run_command_race` | same | **violation**: a timeout reported as a signal |
| `run_command_detached` | a helper outside the group | **violation**: the call does not return |
| `capped_writer` | capacities 2, 3, 4, writes up to 5 of 10 bytes, two byte values | the ring is the tail, loss is announced |
| `capped_writer_exact` | same | **violation**: an exact fill counts as truncated |
| `files` | 2 writers and a delete, 2 deletes and a writer, or 2 writers on the way; 2 directories with room for 1 new; 2 names in the trash; Unix with and without hard links, other devices, Windows | `TargetWhole`, `CreatesOnlyNew`, `NothingLost`, `DeletedIsKept`, `NoDebris`, `WalkIsBounded` |
| `files_windows` | the worlds of writes on Windows | **violation**: a write without overwrite replaces |
| `toolbox` | seven families of scenes of one or two calls, about 14,000 initial states | `RegistrationHolds`, `TimeoutJustified`, `VersionsExplained`, `EditIsExact`, `ReadersAgree`, `QuotedIsOneCommand`, `ScriptJustified`, `FilterAgrees`, `EnvLayers` |
| `toolbox_hard_blocked` | the *lines* | **violation**: with `AllowDangerous` a blocked command behind a lone `&` runs |

Why the bounds are enough. Store: a limit of 1 and 2 with three ids makes every
eviction happen with sessions before and behind it; two ticks with a TTL of 1 make
sessions expire, be refreshed and be stamped out of order. Two callers suffice for
each race here, since every race is between one caller's gap and another's critical
section. Shell: with room for one session each new session evicts the other
goroutine's, in any of its steps; the requests between them take every early return.
Runner: the model has no counter. Writer: writes of every length around each
capacity, from every position of `start` and `n` that occurs.

Files: each race is between a gap in one call and a step of another, and the worlds
pair every two kinds of call: writers with and without overwrite, writer and delete,
two deletes, two walkers and somebody who makes entries. Two names and two tries let a delete
find its name taken, try again and run out; two attempts on Windows let the file be
removed before the next. Two directories with room for one let the limit bite
with something on the way already made. A file filled in two parts can be seen or lost half full.

Toolbox: the families are
- *timed*: built-in and host registration of one id, six combinations of options,
  three registry timeouts, a deadline of the caller, a clock to 2;
- *texts*: some 50 files (with and without CRLF and a final newline, empty, lone CR,
  mixed) and some 160 requests to the five tools, with blocks that overlap, touch, sit at
  either end, occur twice or never, and limits that are just reached;
- *cancelled*: the same requests with a caller who cancels at any step;
- *pairs*: every two of three editors and a reader on one file;
- *scripts*: policies with keys that fold, fallbacks and limits against scripts whose
  words have quotes, separators, comments, escapes and newlines, on three machines;
- *lines*: parts as `CommandLines` has them, by themselves and two joined by every
  separator, with names that are plain, in capitals, with a path, quoted, escaped, wrapped
  or assigned to, redirections, comments, parentheses, a lone `&`, a fork bomb, and
  `format` and programs with an extension on both platforms, in the three
  dialects, with the heuristics on or off;
- *environments*: two calls on a session with variables that fold together, over
  three process environments, on both platforms.

A scene with one call shows what a pure function does with its input, so the two
calls appear only where they share state.

`CHECK_DEADLOCK FALSE` is set where a model stops when its calls are made, its clock
is at its bound or its command has returned.

### Fairness

Only `RunCommand` has liveness. `WF` on the runner, the waiter and the watcher: the
Go scheduler runs every goroutine that can run, and each step here is enabled until
it is taken. Nothing is assumed of processes: a command may run for ever, so that
`Returns` is due to the kill alone. `GroupGone` and `SendKill` are both steps of the
runner, and the grace period is bounded.

### Findings

1. `session_store_stale_clock`: "Oldest at back" (`shell_session_store.go:126`) does
   not hold with concurrent callers. An expired session can stay behind a fresh one
   in the scan and be found by `Get`. The safety that matters, a reason for each
   eviction, holds nevertheless and is proved.
2. `run_command_race`: `exec.CommandContext`'s own kill can beat the runner's look at
   the context; the call then reports 137 and no timeout, and the group is not
   killed.
3. `run_command_detached`: without `WaitDelay` the call waits for the pipes for as
   long as anybody holds them.
4. `capped_writer_exact`: one write of exactly the capacity sets `truncated`.
5. `files_windows`: "Windows rename won't overwrite. This satisfies overwrite=false"
   (`atomic_commit_windows.go:16`). Go's `os.Rename` replaces on Windows, so of two
   calls that both saw no file the second takes the name from the first.
6. `toolbox_hard_blocked`: "hard-blocked commands are ALWAYS blocked" (`config.go:14`,
   also `README.md:159` and `type_const.go:73`), and `dangerous_commands.go:39` lists `&`
   among the separators. In `sh` the filter does not split at a lone `&`: that is left to
   a heuristic, which `AllowDangerous` switches off. Of `ls & rm` it then looks
   at `ls` only. `FilterAgrees` claims nothing of a line with a lone `&` when the heuristics are off.

Two more places where the code is not what a document says, and which no run shows:
- `findtext` has the default 5 for `contextLines` in its schema (`findtext.go:54`) and in a
  comment (line 116), but takes `max(args.ContextLines, 0)` (line 159), so a search
  that omits it shows no context at all. `ReadersAgree` says nothing of how much context a
  call gets that has not asked for any amount.
- On Windows a write with overwrite whose rename fails removes the file and tries again
  (`atomic_commit_windows.go:38`). In between, and for good when all attempts fail, no
  file has the name, although "Writes are atomic (temp file + fsync + rename)"
  (`deletetextlines.go:86`). `TargetWhole` speaks of what the name refers to when it
  refers to something, and `NothingLost` leaves Windows out.

Met while modelling and not counted as findings, since no document speaks of them:
a command whose child exits with 0 while a helper keeps the pipes until the deadline
is reported with exit code 0 and `TimedOut` true; a call whose session is evicted
while it runs succeeds with the id of a dead session, and `SetWorkDir` stores into
it. Of files: of two text edits of one file at a time one is lost, as
nothing locks the file between read and write (`VersionsExplained` says what is left:
each version is a successful edit of an earlier one). Without hard links, a write
without overwrite whose copy fails removes whatever has the name by then. A delete
across devices removes by name, so it can remove what was written since it copied,
and its copy of a file that another call was still filling can be partial. `EXDEV`
is never what a Windows rename returns, so the copy is unreachable there. Two
concurrent walks that make one directory: the slower one fails on `EEXIST`. Of texts:
mixed newlines become one kind, the kind is forgotten when at most one line without a
final newline is left, and an edit of the last lines can change whether there is a
final newline (`Unwritable` lists these cases). Of policies: two interpreter keys
that fold into one are stored in the order of a map, so either can win; two variables
of a session that differ only in spaces do the same on Unix. The limit on variables
holds per call, not for the session. PowerShell's doubled single quotes are lost when
the filter splits the line.

## 5. Proofs

`SessionStoreProofs` proves, for any finite or infinite set of callers and sessions,
any TTLs and limits: `TypeOK`, `MapMatchesList`, `ClosedExactlyWhenGone`,
`SizeWithinLimit`, `EvictionJustified` and `DirectorySpec`. The only assumption is
`StoreAssumption` (types of the constants).

The invariants are not inductive by themselves. `IInv` adds
- `LimitOnList`: the limit as a fact about the list's length, which the evictions
  bound; the map's cardinality follows because the list has no repeats;
- `NoFutureUse`: no stamp and no captured clock is ahead of the clock, without which
  an entry that is expired at a stale `now` need not be expired now;
- `CheckedWasCreated`: a session between lookup and check was created, so that it is
  live or dead.

The order of the list fails with two callers, and the proof says what it takes:
`OldestAtBackInTurn` and `NoExpiredHitInTurn` hold of any number of callers as long as
`OneClockReading` has held, that is, as long as at most one call at a time has been
between its clock reading and the lock. Then the reading that is under way is the
latest of all (`LatestReading`), so what is moved to the front is stamped last
(`OrderInv`). A single caller never breaks the condition (`SingleCallerOrder`); two
readings at a time are what `session_store_stale_clock` finds.

The argument: both evictions keep a front part of the list (`FrontOf`), and a front
part, a push of a new id and a move to the front keep a list without repeats and its
range known. `StepPreserves` has a step per action. `EvictionJustified` needs more
than the invariant: that the position of each survivor is ahead of each evicted
session, lemmas `SurvivorsWereAhead` and `PushedInDetail`. For the refinement
each action is matched with the directory's: the critical sections with `Create`,
`Find`, `Forget` and `Remove`, a miss with an answer, `Tick` with a stutter.

`ShellCommandProofs` proves of the tool and its store together, for any number of
goroutines and calls, `ShellTypeOK`, `NoLeakOnError`, `OnlyValidSettings`,
`EnvOnlyMerged`, `OnlyOwnUndone` and the directory (`CallsSeeDirectory`), from
`StoreAssumption` and the types of the tool's constants. Its invariant `SInv` is the
store's `IInv`, `ShellTypeOK`, `SettingsOK` (everything stored is valid) and, of
each call, `JobOK` (what it has checked by the step it is at) and `Owned` (the
session it made was created, and is not in the store once it failed). What the other calls
do to the store is taken from the abstract directory, not from the list: a session
that was created and is gone stays gone (`GoneForGood`). So the
step of one call preserves what another owns by one lemma, whichever step it is.
`OnlyOwnUndone` needs what a call knows of where its session came from (`GInv`): the one
it undoes is the one it made, and it was given none. What else leaves the
store has expired or is pushed out (`OwnStep`).
`ResultsExplainOutcome` needs an invariant of its own, `ResultsOK`: before the
loop there are no results, in the loop they are of the commands so far and, in a call
that stops at failures, all zero, and a call that ends with `ok` has gone through all
its commands or failed at the last one it ran.

`RunCommandProofs` proves, for any set of helper kinds, `TypeOK`,
`CancelIsNotTimeout`, `NoSurvivors`, `CodeTellsEnd` and `OutputComplete`. `RInv`
adds `Started` (before the child exists nothing has happened), `WaiterProgress`
(what is known once the child is reaped and its pipes are closed) and `ResultGiven`
(which of the runner's branches the result came from). `NoSurvivors` holds because a
result with a timeout comes from the branch that killed the group or saw it gone,
and a group with nobody alive forks nobody.

`CappedWriterProofs` proves, for every capacity, byte set, write and total,
`TypeOK`, `LossIsAnnounced` and `KeepsTheTail`. Types alone are inductive. The
refinement rests on lemmas about remainders (`RingAdd`, `RingOffset`), which say
that moving round the ring in two steps is moving by their sum, and on `BytesAt`:
the one or two pieces that `Bytes` returns are the `n` places from `start` on.
A write then shifts the contents (`Shifted`), which is the tail place by place.

`FilesProofs` proves, for any number of writers, deletes, names in the trash and
directories on the way, in every set of worlds, `FilesTypeOK`, `WalkIsBounded`,
`TargetWhole`, `DeletedIsKept`, `NoDebris`, `CreatesOnlyNew` and `NothingLost`, from
the types of the constants. `IInv` is `FilesTypeOK` with four parts about who owns
which inode at which step:
- `WalkOK`: a writer about to make a directory may still make one, and what it has
  passed are directories;
- `WritersOK`: until the commit nothing refers to a writer's files (`TempOK`), and
  what refers to its temporary file afterwards refers to a whole, synced text; a
  file filled under its own name is its writer's until it is safe (`OutOK`);
- `FirstOK`: the first file stays whole and synced, and a delete's copy never has the file's name;
- `DeletersOK`: from reservation to unlink the placeholder keeps the name, no other
  name refers to it, and what is about to be unlinked has been copied and synced.

The properties that a text is never half seen or lost do not hold inductively: an
inode without an owner could be shared by two names. One lemma says that a
writer's step keeps what is known of another's files, one that it keeps the deletes,
one the reverse, and each action then only answers for its own call. `NoDebris` rests on who owns
which entry: each way out of a call goes through the removal of what it still has, which leaves
nothing or a `LeftOver`. The two action properties
follow from `IInv` and a case for each action that changes `target` or the trash.

`ToolboxProofs` proves `ToolboxTypeOK`, `RegistrationHolds`, `TimeoutJustified`,
`VersionsExplained` and `EnvLayers`, for any scenes, from `RegistryAssumption` and
`ToolboxAssumption` (a call's variables are a map, as they are in Go). `TInv` adds what a call is known
to be at each step (`CallOK`), where its context's end came from (`DeadlineOK`: the
caller's deadline or its own positive timeout, which `TimeoutJustified` needs when
the end is reached), and that a call's variables stay in the session once it was
judged (`EnvOK`, `SessionOK`). Time and cancellations only grow, `scene` never
changes, and a call that is done keeps what it held, so versions of the file and
reasons once given stay. That layers fold as they should (`Effective`, `Added`) is a
matter of sets: of any choice of survivors each name has exactly one.

### Texts and command lines

The operators on texts and lines are folds, and what a fold computes takes
induction. The library's induction theorems take the property as an operator
parameter, which the provers here cannot instantiate; the proofs therefore do each
induction over a set which the property defines (`Naturally` for numbers,
`ByAppend` for sequences, both proved from well-foundedness). A fold is first given
its trace: the function from prefixes, or from sets of indices, to what is accumulated.

`TextLinesProofs` proves for every text: `RoundTrip` (what `Render` writes,
`Parse` reads back, or the lines are `Unwritable`), `FindIsPlaces` (the search
returns exactly the places, in order) and `ReplaceIsReplaced` (matches that do not
overlap, replaced from the last to the first, make the text with all of them
replaced). The first goes line by line through normalisation, split and join, with and
without CRLF; the last keeps, after each replacement, that the lines in
front of it are untouched, so that the places still to come are where they were found.

`ShellWordsProofs` proves `QuotedLines`: for any words, with quotes, separators, comments,
escapes or newlines in them, the line that `quotePOSIX` or `quotePowerShell` makes is
one segment to `forEachSegment` and splits into these words in `shellFields`. What is
carried along is `Reads`: of a prefix of the line, which quotes it is in, that no
symbol but the spaces between words is plain, and the words so far. `WordRead` takes
it through a word symbol by symbol (in `sh` an inner quote is five symbols, which leave
and enter the quotes three times), `NextWord` from word to word. A line without plain
symbols but spaces has no separators and no comment.

The second result there is `LineJudged`: a line composed by the grammar of
`CommandLines` is rejected exactly when one of its commands is on the blocklist, as
Windows and `cmd` extend it, or, where the heuristics count, a lone `&` or a fork bomb is
there. Of lines with a lone `&` it speaks only where the heuristics count. It goes
up the grammar, and at each level says what the three
readers (words, segments, background) have made of the text:
- `PieceText`, `WordsRead`, `PartsRead`: a piece leaves no quote open and no escape
  behind it (`Closed`), and nothing in it is a separator or starts a comment (`Calm`);
  behind a closed text everything is marked as it is by itself (`MarksConcat`), so pieces,
  words and parts can be read one after another, and an `&` is judged by its own
  surroundings (`BackConcat`), which `Apart` keeps from the neighbours;
- `SeparatorsRead`, `CalmRun`, `NextSegment`: the segments grow by one part at each separator
  and by none in between, so at the end they are the trimmed texts of the parts, up to a
  comment (`LinesRead`);
- `NameTaken`, `NameFound`: `Unwrap` goes from wrapper to wrapper, and where it ends is the
  one word that the grammar calls the name.

`ToolboxProofs` joins these to the calls. `ContentInv` says that the file and what calls
hold are texts, that the arguments of a text tool have been checked, that what a
call has answered is one of the results for what it had read, and that the exec tool
is what `NewExecTool` made of the host's (`Contents`). From it:
- `ExactEdits` (`EditIsExact`): `EditsRight` says that each of the edits a tool may
  make is the intended one, `RoundTrip` that it reads back so;
- `RightReaders` (`ReadersAgree`): `FindsRight` follows a search through its
  limit (`FoundSoFar`), `RangesRight` a range between its markers;
- `OneCommandOfWords` (`QuotedIsOneCommand`): the words of a script are never none, so
  `QuotedLines` applies, and PowerShell's call operator comes off again;
- `JustifiedScripts` (`ScriptJustified`): `LookedUp` follows an interpreter back
  through the normalised keys to one the host wrote, `NotBlocked` the verdict on the one
  segment to the words, `Clamped` the limits;
- `FilteredLines` (`FilterAgrees`): a call that was judged was refused exactly when
  `Rejected` holds of it (`Verdicts`, one more inductive invariant), the exec tool has the
  host's blocklist and heuristics, and `LineJudged` says what they make of the line. The
  case it excludes, a lone `&` with the heuristics off, is the one that
  `toolbox_hard_blocked` refutes.

The assumptions are the types of what a scene holds: the default number of matches is
positive (`MatchesAssumption`), the limits are positive (`LimitsAssumption`), texts
and blocks are of `Symbols`, which has the two newline characters (`TextAssumption`), a host's
policy and limits, and a script's words, are of their Go types
(`ScriptAssumption`; a symbol of a command line is a string, and no name in the blocklist is
empty, as `WithBlockedCommands` skips such names), and a command line is, but for the space around it, the text of the parts that the
scene gives with it (`LineAssumption`). TLC evaluates them on the `toolbox` run.

### Only model-checked

`Returns`: liveness under fairness is out of the prover's reach. Every other property of
a passing run is stated by a theorem. The properties of the violation runs are
false, so nothing is proved of them. Lines outside the grammar of `CommandLines` are
neither checked nor proved about.

## 6. Not modelled

See `PROJECT.json` for each part. Within the modelled parts: wording of errors,
logging, encodings, the random draw of ids (an id is one not used before), list
entries the package cannot produce, the Windows variant of the command runner, and
reuse of a process id between the reaping of a child and the signal to its group.

Files: permissions, directories that others remove or replace (the code checks a path
and uses it later by name, and claims no protection), the resolution of paths against
the allowed roots (a choice between good and bad), the order in which directory
entries reach the disk, and what making a trash directory involves (a choice between
its three outcomes). A target that is a directory is one of the failing choices.

Tools: sizes and limits in bytes, encodings, the decoder's details (input decodes or
is refused), `Tools()`, NUL bytes in the filter, and regular expressions beyond literal ones.

Search, listing, MIME detection, images and PDF read and convert data, keep no state
between calls and are decided by tables and libraries; a model of them would restate
the code.
