------------------------------- MODULE Files -------------------------------
(* Writers and deleters of one file, in one process or several, with        *)
(* someone else who makes directories, calls that stop anywhere, and losses *)
(* of power.                                                                *)
EXTENDS AtomicWrite, Trash

vars == <<fileVars, writeVars, del>>

Init == FileInit /\ WriteInit /\ TrashInit

StopCall ==
  \/ \E w \in Writers : StopWriter(w) /\ UNCHANGED del
  \/ \E d \in Deleters : StopDeleter(d) /\ UNCHANGED writeVars

PowerLoss == LoseUnsynced /\ StopWriters /\ StopDeleters

Next ==
  \/ \E w \in Writers : WriterStep(w) /\ UNCHANGED del
  \/ \E d \in Deleters : DeleterStep(d) /\ UNCHANGED writeVars
  \/ Elsewhere /\ UNCHANGED <<writeVars, del>>
  \/ StopCall
  \/ PowerLoss

Spec == Init /\ [][Next]_vars

(* The state's types (AtomicWrite, Trash and the files they share). *)
FilesTypeOK == FileTypeOK /\ WriteTypeOK /\ TrashTypeOK

Whole(i) == data[i].part = "whole"

(* Whoever opens the file finds a whole text, at any time and after any     *)
(* crash or loss of power. The exception is a file that a call without      *)
(* overwrite is filling, died filling or could not remove when that failed, *)
(* on a file system without hard links (the O_EXCL and io.Copy branch of    *)
(* commitAtomicTempFile).                                                   *)
TargetWhole ==
  \/ target = NoFile \/ (Whole(target) /\ target \in synced)
  \/ \E w \in Writers : /\ target = OutOf(w) /\ w \notin world.replace /\ ~world.links
                        /\ step[w] \in Committing \cup {"crashed", "failed"}

(* On Unix a call without overwrite never takes the name from a file that   *)
(* is there, except that, without hard links, it may remove what the name   *)
(* refers to when its copy fails (os.Remove(dst) in commitAtomicTempFile).  *)
CreatesOnlyNew ==
  [][\A w \in Writers \ world.replace :
       step'[w] # step[w] /\ target # NoFile /\ target' # target
         => world.windows \/ (~world.links /\ target' = NoFile /\ step'[w] = "failed")]_vars

(* A text that is there, whole and safe from a loss of power, under the     *)
(* file's name or in a trash directory. The copy of a delete counts when    *)
(* the delete is done.                                                      *)
Unfinished == {CopyOf(d) : d \in {e \in Deleters : del[e].step # "done"}}
Kept(t) == \E i \in synced : /\ data[i] = [text |-> t, part |-> "whole"]
                             /\ \/ i = target
                                \/ i \notin Unfinished /\ \E p \in Place : trash[p] = i

Overwrites == \E w \in world.replace : step[w] = "commit" /\ target' # target
FailsToCreate == \E w \in Writers : step[w] \in Committing /\ step'[w] = "failed"
DeletesAnother ==
  \E d \in Deleters : /\ del[d].step = "unlink" /\ target' # target
                      /\ target # del[d].from \/ data[CopyOf(d)].part # "whole"

(* The only ways for a text to be lost on Unix: a writer that overwrites    *)
(* it; one that fails to create the file without hard links; a deleter that *)
(* copied one file across devices and then removed another that was written *)
(* to the name meanwhile, or the same, which a writer without hard links    *)
(* was still filling when it was copied. Neither a crash nor a loss of      *)
(* power is one, and neither is a delete that goes wrong half way.          *)
NothingLost ==
  [][\A t \in Text : Kept(t) /\ ~Kept(t)'
       => world.windows \/ Overwrites \/ FailsToCreate \/ DeletesAnother]_vars

(* What a delete reported as trashed stays where it said, and is what the   *)
(* delete found: the file itself, or a whole copy of it, which is safe from *)
(* a loss of power (the placeholder keeps its name for it).                 *)
DeletedIsKept ==
  \A d \in Deleters : del[d].step = "done" /\ ~world.windows =>
    LET i == trash[del[d].dest] IN
    \/ i = del[d].from
    \/ /\ i = CopyOf(d) /\ CopyOf(d) \in synced
       /\ data[i].text = data[del[d].from].text
       /\ Whole(i) \/ del[d].from \in OutInodes

(* A call that returned has tried to remove what it put beside the file and *)
(* into the trash, wherever it failed: the temporary file, and placeholders *)
(* and partial copies in all trash directories but the copy of a delete     *)
(* that is done. What stays of them is what os.Remove failed for.           *)
NoDebris ==
  /\ \A w \in Writers : step[w] \in {"done", "failed"} => temp[w] # TmpOf(w)
  /\ \A d \in Deleters, p \in Place :
       del[d].step \in {"done", "failed"} /\ trash[p] = CopyOf(d)
         => del[d].step = "done" /\ p = del[d].dest

(* walkDirNoSymlinkAbs makes no more directories than it may, whoever else  *)
(* makes some, and lets a call pass only where all of the way are           *)
(* directories.                                                             *)
WalkIsBounded ==
  \A w \in Writers : world.noSymlinks =>
    /\ Made(w) <= IF w \in world.parents THEN MaxNewDirs ELSE 0
    /\ \A i \in 1..Depth : i < at[w] => tree[i] = "dir"

(* Of calls without overwrite at most one gets the name while the file is   *)
(* there; the comment at atomic_commit_windows.go:16 says so of Windows.    *)
CreateIsExclusive ==
  [][\A w \in Writers \ world.replace :
       step[w] = "commit" /\ step'[w] \in {"done", "linked", "copy"} => target = NoFile]_vars
===========================================================================
