---------------------------- MODULE FileSystem ----------------------------
(* What the file tools share: one file (target), the temporary files beside *)
(* it, the trash directories, and the directories that lead to the file.    *)
(* A name refers to an inode, so a file that is renamed keeps its inode and *)
(* one that is still being written can lose its name.                       *)
EXTENDS Naturals, FiniteSets

CONSTANTS
  Writers,      \* calls of writefile, one write each
  Deleters,     \* calls of deletefile
  TrashNames,   \* names UniquePathInDir may pick in a trash directory
  Plain,        \* the first of them: the file's own name
  Worlds,       \* the worlds to consider, a subset of World
  Depth         \* directories on the way to the file

VARIABLES
  world,    \* what does not change: platform, policy and arguments of the calls
  tree,     \* what each directory on the way is
  target,   \* the inode the file's name refers to, or NoFile
  temp,     \* the same for the temporary file of each writer
  trash,    \* and for each name in a trash directory
  data,     \* the text of each inode, and how much of it is there
  synced    \* the inodes whose data survives a loss of power

fileVars == <<world, tree, target, temp, trash, data, synced>>

TrashDirs == {"system", "local"}
Place == TrashDirs \X TrashNames

Kind == {"absent", "dir", "link", "file"}

World == [ calls: SUBSET (Writers \cup Deleters),   \* those that are ever made
           windows: BOOLEAN,
           links: BOOLEAN,               \* os.Link works on this file system
           symlink: BOOLEAN,             \* the file at the start is a symlink
           noSymlinks: BOOLEAN,          \* FSPolicy.BlockSymlinks
           replace: SUBSET Writers,      \* called with overwrite
           parents: SUBSET Writers,      \* called with createParents
           crossing: SUBSET TrashDirs,   \* trash directories on another device
           dirs: [1..Depth -> Kind] ]    \* the way to the file, at the start

ASSUME FileAssumption ==
  /\ Depth \in Nat
  /\ Worlds \subseteq World
  /\ Plain \in TrashNames

NoFile == <<"none", "none">>
LeftOver == <<"left", "over">>
First == <<"first", "first">>
TmpOf(w) == <<"tmp", w>>
OutOf(w) == <<"out", w>>
CopyOf(d) == <<"copy", d>>

TmpInodes == {TmpOf(w) : w \in Writers}
OutInodes == {OutOf(w) : w \in Writers}
CopyInodes == {CopyOf(d) : d \in Deleters}
Inode == {First} \cup TmpInodes \cup OutInodes \cup CopyInodes

(* A text is named by the call that wrote it; "old" is that of the start. *)
Text == Writers \cup {"old"}
Part == {"empty", "half", "whole"}
FileTypeOK ==
  /\ world \in Worlds
  /\ tree \in [1..Depth -> Kind]
  /\ target \in Inode \cup {NoFile}
  /\ temp \in [Writers -> TmpInodes \cup {NoFile, LeftOver}]
  /\ trash \in [Place -> Inode \cup {NoFile, LeftOver}]
  /\ data \in [Inode -> [text: Text, part: Part]]
  /\ synced \subseteq Inode

(* A symlink on the way leads to a directory. *)
Leads(k) == k \in {"dir", "link"}
AllThere == \A i \in 1..Depth : Leads(tree[i])

FileInit ==
  /\ world \in Worlds
  /\ tree = world.dirs
  /\ target \in {NoFile} \cup (IF AllThere THEN {First} ELSE {})
  /\ temp = [w \in Writers |-> NoFile]
  /\ trash = [p \in Place |-> NoFile]
  /\ data = [i \in Inode |-> [text |-> "old", part |-> IF i = First THEN "whole" ELSE "empty"]]
  /\ synced = {First}

IsLink(i) == world.symlink /\ i = First
Holds(i, text, part) == data' = [data EXCEPT ![i] = [text |-> text, part |-> part]]
Flush(i) == synced' = synced \cup {i}

(* What may become of an entry that a call removes behind itself: os.Remove *)
(* can fail, its error is ignored, and the entry stays where it is. Nobody  *)
(* uses it again; the label tells it from one that nobody tried to remove.  *)
Removed == {NoFile, LeftOver}

(* Someone else makes an entry where a directory is missing. *)
Elsewhere ==
  /\ \E i \in 1..Depth, k \in Kind \ {"absent"} :
       /\ tree[i] = "absent" /\ \A j \in 1..Depth : j < i => Leads(tree[j])
       /\ tree' = [tree EXCEPT ![i] = k]
  /\ UNCHANGED <<world, target, temp, trash, data, synced>>

(* Power fails: of what was not synced any part may be gone. Directory      *)
(* entries are taken to survive in the order they were made.                *)
LoseUnsynced ==
  /\ \E lost \in SUBSET {i \in Inode \ synced : data[i].part # "empty"} :
       data' = [i \in Inode |-> IF i \in lost THEN [data[i] EXCEPT !.part = "empty"]
                                ELSE data[i]]
  /\ UNCHANGED <<world, tree, target, temp, trash, synced>>
===========================================================================
