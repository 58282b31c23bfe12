------------------------------- MODULE Trash -------------------------------
(* deletefile: the file is moved into the first trash directory that takes  *)
(* it. A name is reserved with a placeholder, then the file is renamed over *)
(* it, or, across devices, copied into it and removed. One action per       *)
(* system call that others can see; any may fail, and a call may stop.      *)
EXTENDS FileSystem, Sequences

CONSTANT MaxTries   \* names tried by moveToTrash, 12 in deletefile.go

VARIABLE del   \* of each call: its step, the trash directories left to try,
               \* the place it chose, the inode it read, the names it tried,
               \* and what kind the file had when it was looked at

ASSUME TrashAssumption == MaxTries \in Nat \ {0}

NoPlace == <<"none", Plain>>
Moving == {"ensure", "pick", "reserve", "rename", "symlink", "open", "copy", "sync", "unlink"}
TrashStep == Moving \cup {"idle", "done", "failed", "crashed"}
Queue == {<<>>, <<"system">>, <<"local">>, <<"system", "local">>}

TrashTypeOK ==
  del \in [Deleters -> [ step: TrashStep, queue: Queue, dest: Place \cup {NoPlace},
                         from: Inode \cup {NoFile}, tries: 0..MaxTries, wasLink: BOOLEAN ]]

TrashInit ==
  del = [d \in Deleters |-> [ step |-> "idle", queue |-> <<>>, dest |-> NoPlace,
                              from |-> NoFile, tries |-> 0, wasLink |-> FALSE ]]

Goes(d, s) == del' = [del EXCEPT ![d].step = s]

(* An error for this directory: on to the next, if there is one. *)
NextDir(d) ==
  del' = [del EXCEPT ![d].queue = Tail(@), ![d].dest = NoPlace, ![d].from = NoFile,
                     ![d].tries = 0,
                     ![d].step = IF Len(del[d].queue) > 1 THEN "ensure" ELSE "failed"]

(* The placeholder, or what has become of it, is removed by name, if it can *)
(* be.                                                                      *)
Discard(d) == \E r \in Removed : trash' = [trash EXCEPT ![del[d].dest] = r]

Another(d) ==
  IF del[d].tries + 1 < MaxTries
  THEN del' = [del EXCEPT ![d].tries = @ + 1, ![d].dest = NoPlace, ![d].step = "pick"]
  ELSE NextDir(d)

(* A copy is allowed everywhere but in the system trash of "auto". *)
MayCopy(d) == Head(del[d].queue) # "system"
Crosses(d) == Head(del[d].queue) \in world.crossing

----------------------------------------------------------------------------
(* The look at the file, and the trash directories there are. *)
StartDelete(d) ==
  /\ del[d].step = "idle" /\ d \in world.calls
  /\ \/ /\ target # NoFile /\ ~(IsLink(target) /\ world.noSymlinks)
        /\ \E q \in Queue \ {<<>>} :
             /\ world.windows => q # <<"system">> /\ q # <<"system", "local">>
             /\ del' = [del EXCEPT ![d].step = "ensure", ![d].queue = q,
                                   ![d].wasLink = IsLink(target)]
     \/ Goes(d, "failed")
  /\ UNCHANGED fileVars

Ensure(d) ==
  /\ del[d].step = "ensure"
  /\ Goes(d, "pick") \/ NextDir(d) \/ Goes(d, "failed")
  /\ UNCHANGED fileVars

Free(c) == {n \in TrashNames : trash[<<c, n>>] = NoFile}

(* UniquePathInDir: the plain name if it is free, else some free name. *)
Pick(d) ==
  /\ del[d].step = "pick"
  /\ LET c == Head(del[d].queue) IN
     \/ \E n \in Free(c) :
          /\ Plain \in Free(c) => n = Plain
          /\ del' = [del EXCEPT ![d].dest = <<c, n>>,
                       ![d].step = IF world.windows THEN "rename" ELSE "reserve"]
     \/ NextDir(d)
  /\ UNCHANGED fileVars

(* Faulty variant: the placeholder is created without O_EXCL. *)
ReserveAnyway(d) ==
  /\ del[d].step = "reserve"
  /\ trash' = [trash EXCEPT ![del[d].dest] = CopyOf(d)]
  /\ Holds(CopyOf(d), "old", "empty") /\ synced' = synced \ {CopyOf(d)}
  /\ Goes(d, "rename")
  /\ UNCHANGED <<world, tree, target, temp>>

(* The placeholder. *)
Reserve(d) ==
  /\ del[d].step = "reserve"
  /\ \/ /\ trash[del[d].dest] = NoFile
        /\ trash' = [trash EXCEPT ![del[d].dest] = CopyOf(d)]
        /\ Holds(CopyOf(d), "old", "empty") /\ synced' = synced \ {CopyOf(d)}
        /\ Goes(d, "rename")
     \/ /\ trash[del[d].dest] # NoFile /\ Another(d)
        /\ UNCHANGED <<trash, data, synced>>
     \/ NextDir(d) /\ UNCHANGED <<trash, data, synced>>
  /\ UNCHANGED <<world, tree, target, temp>>

RenameToTrash(d) ==
  /\ del[d].step = "rename"
  /\ target # NoFile /\ ~Crosses(d)
  /\ trash' = [trash EXCEPT ![del[d].dest] = target]
  /\ target' = NoFile
  /\ del' = [del EXCEPT ![d].step = "done", ![d].from = target]
  /\ UNCHANGED <<world, tree, temp, data, synced>>

(* A rename that fails, for another reason than the device. *)
RenameFails(d) ==
  /\ del[d].step = "rename"
  /\ IF world.windows
     THEN /\ UNCHANGED trash
          /\ IF trash[del[d].dest] # NoFile THEN Another(d) ELSE NextDir(d)
     ELSE Discard(d) /\ NextDir(d)
  /\ UNCHANGED <<world, tree, target, temp, data, synced>>

(* EXDEV, which Go's Windows errors never are. *)
RenameCrosses(d) ==
  /\ del[d].step = "rename" /\ target # NoFile /\ Crosses(d) /\ ~world.windows
  /\ \/ ~MayCopy(d) /\ Discard(d) /\ NextDir(d)
     \/ /\ MayCopy(d) /\ del[d].wasLink /\ Discard(d)
        /\ IF IsLink(target)
           THEN del' = [del EXCEPT ![d].step = "symlink", ![d].from = target]
           ELSE NextDir(d)
     \/ MayCopy(d) /\ ~del[d].wasLink /\ UNCHANGED trash /\ Goes(d, "open")
  /\ UNCHANGED <<world, tree, target, temp, data, synced>>

(* The link is made again in the trash, under the name that was reserved. *)
MakeSymlink(d) ==
  /\ del[d].step = "symlink"
  /\ \/ /\ trash[del[d].dest] = NoFile
        /\ trash' = [trash EXCEPT ![del[d].dest] = CopyOf(d)]
        /\ Holds(CopyOf(d), data[del[d].from].text, "whole") /\ Flush(CopyOf(d))
        /\ Goes(d, "unlink")
     \/ trash[del[d].dest] # NoFile /\ Another(d) /\ UNCHANGED <<trash, data, synced>>
     \/ trash[del[d].dest] = NoFile /\ NextDir(d) /\ UNCHANGED <<trash, data, synced>>
  /\ UNCHANGED <<world, tree, target, temp>>

(* Faulty variant: the copy is left where it is. *)
LeaveCopy(d) == NextDir(d) /\ UNCHANGED fileVars

GiveUpMove(d) ==
  /\ Discard(d) /\ NextDir(d)
  /\ UNCHANGED <<world, tree, target, temp, data, synced>>

(* CopyFileToExistingCtx, in three steps: open, fill, sync. *)
OpenCopy(d) ==
  /\ del[d].step = "open"
  /\ \/ /\ target # NoFile
        /\ del' = [del EXCEPT ![d].step = "copy", ![d].from = target]
        /\ Holds(CopyOf(d), data[target].text, "empty")
        /\ UNCHANGED <<world, tree, target, temp, trash, synced>>
     \/ GiveUpMove(d)

FillCopy(d) ==
  /\ del[d].step = "copy"
  /\ LET from == data[del[d].from] IN
     \/ /\ data[CopyOf(d)].part = "empty" /\ from.part # "empty"
        /\ Holds(CopyOf(d), from.text, "half")
        /\ UNCHANGED <<world, tree, target, temp, trash, synced, del>>
     \/ /\ data[CopyOf(d)].part = "half" \/ from.part = "empty"
        /\ Holds(CopyOf(d), from.text, from.part) /\ Goes(d, "sync")
        /\ UNCHANGED <<world, tree, target, temp, trash, synced>>
     \/ GiveUpMove(d)

(* Faulty variant: the original is removed before the copy is safe. *)
SyncCopyLazily(d) == del[d].step = "sync" /\ Goes(d, "unlink") /\ UNCHANGED fileVars

SyncCopy(d) ==
  /\ del[d].step = "sync"
  /\ \/ /\ Flush(CopyOf(d)) /\ Goes(d, "unlink")
        /\ UNCHANGED <<world, tree, target, temp, trash, data>>
     \/ GiveUpMove(d)

(* os.Remove(src), whatever the name refers to by now. *)
Unlink(d) ==
  /\ del[d].step = "unlink"
  /\ \/ /\ target # NoFile /\ target' = NoFile /\ Goes(d, "done")
        /\ UNCHANGED <<world, tree, temp, trash, data, synced>>
     \/ GiveUpMove(d)

DeleterStep(d) ==
  \/ StartDelete(d) \/ Ensure(d) \/ Pick(d) \/ Reserve(d)
  \/ RenameToTrash(d) \/ RenameFails(d) \/ RenameCrosses(d)
  \/ MakeSymlink(d) \/ OpenCopy(d) \/ FillCopy(d) \/ SyncCopy(d) \/ Unlink(d)

StopDeleter(d) ==
  del[d].step \in Moving /\ Goes(d, "crashed") /\ UNCHANGED fileVars

StopDeleters ==
  del' = [d \in Deleters |-> IF del[d].step \in Moving
                             THEN [del[d] EXCEPT !.step = "crashed"] ELSE del[d]]
===========================================================================
