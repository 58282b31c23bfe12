---------------------------- MODULE AtomicWrite ----------------------------
(* writefile: the directories on the way are walked or made, the text goes  *)
(* to a temporary file, and a commit gives it the file's name. One action   *)
(* per system call; any of them may fail, and a call may stop at any step.  *)
EXTENDS FileSystem

CONSTANTS
  MaxNewDirs,   \* 8 in writefile.go
  Attempts      \* renames tried on Windows, 6 in atomic_commit_windows.go

VARIABLES step, at, tries, madeBy

writeVars == <<step, at, tries, madeBy>>

ASSUME WriteAssumption == MaxNewDirs \in Nat \ {0} /\ Attempts \in Nat \ {0}

Walking == {"walk", "mkdir"}
Committing == {"copy", "syncOut"}
Busy == Walking \cup Committing \cup {"check", "create", "write", "sync", "commit", "linked"}
WriteStep == Busy \cup {"idle", "done", "failed", "crashed"}

WriteTypeOK ==
  /\ step \in [Writers -> WriteStep]
  /\ at \in [Writers -> 1..(Depth + 1)]
  /\ tries \in [Writers -> 0..Attempts]
  /\ madeBy \in [1..Depth -> SUBSET Writers]

WriteInit ==
  /\ step = [w \in Writers |-> "idle"]
  /\ at = [w \in Writers |-> 1]
  /\ tries = [w \in Writers |-> 0]
  /\ madeBy = [i \in 1..Depth |-> {}]

To(w, s) == step' = [step EXCEPT ![w] = s]
GoneWrong(w) == To(w, "failed")

----------------------------------------------------------------------------
(* The handler's arguments, and FSPolicy.ResolvePath, in one choice. *)
Begin(w) ==
  /\ step[w] = "idle" /\ w \in world.calls
  /\ GoneWrong(w) \/ To(w, "walk")
  /\ UNCHANGED <<fileVars, at, tries, madeBy>>

Made(w) == Cardinality({i \in 1..Depth : w \in madeBy[i]})
(* Faulty variant: one directory too many. *)
MayMakeOneMore(w) == w \in world.parents /\ Made(w) <= MaxNewDirs

MayMake(w) == w \in world.parents /\ Made(w) < MaxNewDirs

Look(w) ==
  /\ step[w] = "walk" /\ at[w] <= Depth /\ world.noSymlinks
  /\ \/ /\ tree[at[w]] = "dir"
        /\ at' = [at EXCEPT ![w] = @ + 1] /\ UNCHANGED step
     \/ /\ tree[at[w]] = "absent" /\ MayMake(w)
        /\ To(w, "mkdir") /\ UNCHANGED at
     \/ /\ tree[at[w]] # "dir" /\ (tree[at[w]] = "absent" => ~MayMake(w))
        /\ GoneWrong(w) /\ UNCHANGED at
  /\ UNCHANGED <<fileVars, tries, madeBy>>

(* Mkdir fails on whatever was made there since the look. *)
Mkdir(w) ==
  /\ step[w] = "mkdir"
  /\ \/ /\ tree[at[w]] = "absent"
        /\ tree' = [tree EXCEPT ![at[w]] = "dir"]
        /\ madeBy' = [madeBy EXCEPT ![at[w]] = @ \cup {w}]
        /\ at' = [at EXCEPT ![w] = @ + 1] /\ To(w, "walk")
     \/ GoneWrong(w) /\ UNCHANGED <<tree, at, madeBy>>
  /\ UNCHANGED <<world, target, temp, trash, data, synced, tries>>

(* With symlinks allowed: os.MkdirAll, which counts nothing, or os.Stat. *)
WalkFreely(w) ==
  /\ step[w] = "walk" /\ at[w] <= Depth /\ ~world.noSymlinks
  /\ \/ /\ AllThere \/ (w \in world.parents /\ \A i \in 1..Depth : tree[i] # "file")
        /\ tree' = [i \in 1..Depth |-> IF tree[i] = "absent" THEN "dir" ELSE tree[i]]
        /\ at' = [at EXCEPT ![w] = Depth + 1] /\ UNCHANGED step
     \/ ~AllThere /\ GoneWrong(w) /\ UNCHANGED <<tree, at>>
  /\ UNCHANGED <<world, target, temp, trash, data, synced, tries, madeBy>>

(* Lstat of the file; from here on its directory is not looked at again. *)
Check(w) ==
  /\ step[w] = "walk" /\ at[w] = Depth + 1
  /\ \/ /\ target = NoFile \/ (w \in world.replace /\ ~IsLink(target))
        /\ To(w, "create")
     \/ GoneWrong(w)
  /\ UNCHANGED <<fileVars, at, tries, madeBy>>

CreateTemp(w) ==
  /\ step[w] = "create"
  /\ \/ /\ temp' = [temp EXCEPT ![w] = TmpOf(w)]
        /\ Holds(TmpOf(w), w, "empty") /\ To(w, "write")
     \/ GoneWrong(w) /\ UNCHANGED <<temp, data>>
  /\ UNCHANGED <<world, tree, target, trash, synced, at, tries, madeBy>>

(* cleanup: the temporary file is removed, if it can be, and the error is   *)
(* returned.                                                                *)
Cleanup(w) ==
  /\ \E r \in Removed : temp' = [temp EXCEPT ![w] = r]
  /\ GoneWrong(w)
  /\ UNCHANGED <<world, tree, trash, data, synced, at, tries, madeBy>>

(* A file is filled in two parts, so that it can be seen or lost half full. *)
More(i, text, part) ==
  /\ data[i].part = IF part = "half" THEN "empty" ELSE "half"
  /\ Holds(i, text, part)

WriteTemp(w) ==
  /\ step[w] = "write"
  /\ \/ /\ \/ More(TmpOf(w), w, "half") /\ UNCHANGED step
           \/ More(TmpOf(w), w, "whole") /\ To(w, "sync")
        /\ UNCHANGED <<world, tree, target, temp, trash, synced, at, tries, madeBy>>
     \/ Cleanup(w) /\ UNCHANGED target

(* Faulty variant: the file is committed without fsync. *)
SyncTempLazily(w) ==
  /\ step[w] = "sync" /\ To(w, "commit") /\ UNCHANGED <<fileVars, at, tries, madeBy>>

SyncTemp(w) ==
  /\ step[w] = "sync"
  /\ \/ /\ Flush(TmpOf(w)) /\ To(w, "commit")
        /\ UNCHANGED <<world, tree, target, temp, trash, data, at, tries, madeBy>>
     \/ Cleanup(w) /\ UNCHANGED target

(* rename(2), MoveFileEx with the replace flag on Windows: takes the name   *)
(* over from whatever file had it.                                          *)
Rename(w) ==
  /\ target' = TmpOf(w) /\ temp' = [temp EXCEPT ![w] = NoFile] /\ To(w, "done")
  /\ UNCHANGED <<world, tree, trash, data, synced, at, tries, madeBy>>

CommitRename(w) ==
  /\ step[w] = "commit" /\ ~world.windows /\ w \in world.replace
  /\ Rename(w) \/ (Cleanup(w) /\ UNCHANGED target)

(* Faulty variant: the look before the temporary file was made must do. *)
CommitByRename(w) ==
  /\ step[w] = "commit" /\ ~world.windows /\ w \notin world.replace /\ world.links
  /\ Rename(w)

CommitLink(w) ==
  /\ step[w] = "commit" /\ ~world.windows /\ w \notin world.replace /\ world.links
  /\ \/ /\ target = NoFile /\ target' = TmpOf(w) /\ To(w, "linked")
        /\ UNCHANGED <<world, tree, temp, trash, data, synced, at, tries, madeBy>>
     \/ target # NoFile /\ Cleanup(w) /\ UNCHANGED target

(* No hard links: the file is created under its name and then filled. *)
CommitCreate(w) ==
  /\ step[w] = "commit" /\ ~world.windows /\ w \notin world.replace /\ ~world.links
  /\ \/ /\ target = NoFile /\ target' = OutOf(w)
        /\ Holds(OutOf(w), w, "empty") /\ To(w, "copy")
        /\ UNCHANGED <<world, tree, temp, trash, synced, at, tries, madeBy>>
     \/ Cleanup(w) /\ UNCHANGED target

(* An error while it is filled: os.Remove(dst), by name, then cleanup. When *)
(* the first fails the file stays, under its name and as it is.             *)
GiveUpCopy(w) == target' \in {NoFile, target} /\ Cleanup(w)

CopyOut(w) ==
  /\ step[w] = "copy"
  /\ \/ /\ \/ More(OutOf(w), w, "half") /\ UNCHANGED step
           \/ More(OutOf(w), w, "whole") /\ To(w, "syncOut")
        /\ UNCHANGED <<world, tree, target, temp, trash, synced, at, tries, madeBy>>
     \/ GiveUpCopy(w)

SyncOut(w) ==
  /\ step[w] = "syncOut"
  /\ \/ /\ Flush(OutOf(w)) /\ To(w, "linked")
        /\ UNCHANGED <<world, tree, target, temp, trash, data, at, tries, madeBy>>
     \/ GiveUpCopy(w)

(* Tried in the commit and again after it; a failure is not an error.       *)
RemoveTemp(w) ==
  /\ step[w] = "linked" /\ To(w, "done")
  /\ \E r \in Removed : temp' = [temp EXCEPT ![w] = r]
  /\ UNCHANGED <<world, tree, target, trash, data, synced, at, tries, madeBy>>

(* Faulty variant: tried for as long as it fails. *)
CommitForEver(w) ==
  /\ step[w] = "commit" /\ world.windows
  /\ \/ Rename(w)
     \/ /\ target' \in {NoFile, target}
        /\ tries' = [tries EXCEPT ![w] = @ + 1]
        /\ UNCHANGED <<world, tree, temp, trash, data, synced, step, at, madeBy>>

(* Windows. Without overwrite one rename, which replaces nevertheless; with *)
(* it, a rename that fails is tried again with the file removed.            *)
CommitWindows(w) ==
  /\ step[w] = "commit" /\ world.windows
  /\ \/ tries[w] < Attempts /\ Rename(w)
     \/ w \notin world.replace /\ Cleanup(w) /\ UNCHANGED target
     \/ /\ w \in world.replace /\ tries[w] < Attempts
        /\ target' \in {NoFile, target}
        /\ tries' = [tries EXCEPT ![w] = @ + 1]
        /\ UNCHANGED <<world, tree, temp, trash, data, synced, step, at, madeBy>>
     \/ /\ w \in world.replace /\ tries[w] = Attempts
        /\ Cleanup(w) /\ UNCHANGED target

WriterStep(w) ==
  \/ Begin(w) \/ Look(w) \/ Mkdir(w) \/ WalkFreely(w) \/ Check(w)
  \/ CreateTemp(w) \/ WriteTemp(w) \/ SyncTemp(w)
  \/ CommitRename(w) \/ CommitLink(w) \/ CommitCreate(w) \/ CommitWindows(w)
  \/ CopyOut(w) \/ SyncOut(w) \/ RemoveTemp(w)

StopWriter(w) ==
  /\ step[w] \in Busy /\ To(w, "crashed")
  /\ UNCHANGED <<fileVars, at, tries, madeBy>>

StopWriters ==
  /\ step' = [w \in Writers |-> IF step[w] \in Busy THEN "crashed" ELSE step[w]]
  /\ UNCHANGED <<at, tries, madeBy>>
===========================================================================
