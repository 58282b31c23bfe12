---------------------------- MODULE FilesProofs ----------------------------
(* Proofs about Files, for any number of writers, deleters, names in the    *)
(* trash and directories on the way, in any set of worlds.                  *)
EXTENDS Files, FiniteSetTheorems, TLAPS

(* Before a writer's commit nothing refers to its files. *)
Early == Walking \cup {"idle", "create", "write", "sync", "commit"}
Safe(i) == Whole(i) /\ i \in synced
Seen(i) == \/ target = i
           \/ \E p \in Place : trash[p] = i
           \/ \E d \in Deleters : del[d].from = i

(* The way: what a writer has made, and has seen to be directories. *)
WalkOK ==
  \A w \in Writers :
    /\ step[w] = "mkdir" => at[w] \in 1..Depth /\ MayMake(w)
    /\ world.noSymlinks =>
         /\ Made(w) <= IF w \in world.parents THEN MaxNewDirs ELSE 0
         /\ \A i \in 1..Depth : i < at[w] => tree[i] = "dir"

(* The temporary file: whose it is, and when it is there. *)
TempOK(w) ==
  /\ step[w] \in Walking \cup {"idle", "create", "done", "failed"} => temp[w] # TmpOf(w)
  /\ step[w] \in Early => ~Seen(TmpOf(w)) /\ ~Seen(OutOf(w))
  /\ step[w] = "sync" => Whole(TmpOf(w))
  /\ Seen(TmpOf(w)) \/ step[w] = "commit" => Safe(TmpOf(w))

(* The file that is filled under its own name. *)
OutOK(w) ==
  /\ step[w] \in Committing => w \notin world.replace /\ ~world.links /\ ~world.windows
  /\ Seen(OutOf(w)) \/ step[w] \in Committing => data[OutOf(w)].text = w
  /\ step[w] = "syncOut" => Whole(OutOf(w))
  /\ target = OutOf(w) =>
       /\ w \notin world.replace /\ ~world.links
       /\ step[w] \in Committing \cup {"crashed", "failed"} \/ Safe(OutOf(w))

WritersOK == \A w \in Writers : TempOK(w) /\ OutOK(w)

FirstOK == Safe(First) /\ \A d \in Deleters : ~(target = CopyOf(d))

Placed == {"reserve", "rename", "symlink", "open", "copy", "sync", "unlink", "done"}
Holding == {"rename", "open", "copy", "sync", "unlink"}
Copied(d) == /\ data[CopyOf(d)].text = data[del[d].from].text
             /\ Whole(CopyOf(d)) \/ del[d].from \in OutInodes

(* A delete: the name it holds in the trash, and what it has copied. *)
DeleteOK(d) ==
  /\ del[d].step \in Moving => del[d].queue # <<>>
  /\ del[d].step \in Placed => del[d].dest \in Place
  /\ del[d].step \in Placed \ {"rename", "done"} => ~world.windows
  /\ del[d].step \in Holding /\ ~world.windows => trash[del[d].dest] = CopyOf(d)
  /\ \A p \in Place : trash[p] = CopyOf(d) =>
       /\ p = del[d].dest /\ del[d].step \in Holding \cup {"done", "crashed"}
       /\ ~world.windows
  /\ \A e \in Deleters : del[d].from # CopyOf(e)
  /\ del[d].step \in {"symlink", "copy", "sync", "unlink", "done"} => del[d].from # NoFile
  /\ del[d].step = "symlink" => del[d].from = First
  /\ del[d].step \in {"sync", "unlink"} => Copied(d)
  /\ del[d].step = "unlink" => CopyOf(d) \in synced
  /\ del[d].step = "done" /\ ~world.windows =>
       \/ trash[del[d].dest] = del[d].from
       \/ trash[del[d].dest] = CopyOf(d) /\ Copied(d) /\ CopyOf(d) \in synced

DeletersOK == \A d \in Deleters : DeleteOK(d)

IInv == FilesTypeOK /\ WalkOK /\ WritersOK /\ FirstOK /\ DeletersOK
----------------------------------------------------------------------------
(* Inodes of different sorts, or of different calls, are different. *)
LEMMA Inodes ==
  /\ First \in Inode /\ NoFile \notin Inode /\ LeftOver \notin Inode \cup {NoFile} /\ First \notin OutInodes
  /\ \A w \in Writers : /\ {TmpOf(w), OutOf(w)} \subseteq Inode \ {First, NoFile}
                        /\ TmpOf(w) \in TmpInodes \ OutInodes
                        /\ OutOf(w) \in OutInodes \ TmpInodes
  /\ \A v, w \in Writers : /\ TmpOf(v) # OutOf(w)
                           /\ TmpOf(v) = TmpOf(w) => v = w
                           /\ OutOf(v) = OutOf(w) => v = w
  /\ \A d \in Deleters : CopyOf(d) \in Inode \ (TmpInodes \cup OutInodes \cup {First, NoFile})
  /\ \A d, e \in Deleters : CopyOf(d) = CopyOf(e) => d = e
  /\ \A w \in Writers, d \in Deleters : TmpOf(w) # CopyOf(d) /\ OutOf(w) # CopyOf(d)
  /\ \A i \in Inode : \/ i = First \/ i \in OutInodes
                      \/ \E w \in Writers : i = TmpOf(w)
                      \/ \E d \in Deleters : i = CopyOf(d)
  /\ \A i \in OutInodes : \E w \in Writers : i = OutOf(w)
BY DEF Inode, TmpInodes, OutInodes, CopyInodes, TmpOf, OutOf, CopyOf, First, NoFile, LeftOver

(* A writer's step leaves the deletes alone: it takes nothing out of the    *)
(* trash, and changes no text that a delete has read.                       *)
LEMMA DeletersKeep ==
  ASSUME DeletersOK, FilesTypeOK, UNCHANGED <<world, trash, del>>, synced \subseteq synced',
         \A d \in Deleters : data'[CopyOf(d)] = data[CopyOf(d)],
         \A d \in Deleters : del[d].from # NoFile => data'[del[d].from].text = data[del[d].from].text
  PROVE  DeletersOK'
<1> SUFFICES ASSUME NEW d \in Deleters PROVE DeleteOK(d)'
  BY DEF DeletersOK
<1>1. DeleteOK(d)
  BY DEF DeletersOK
<1>2. Copied(d) /\ del[d].from # NoFile => Copied(d)'
  BY DEF Copied, Whole
<1>3. QED
  BY <1>1, <1>2 DEF DeleteOK, Placed

(* A step of one writer leaves what is known of another one. *)
LEMMA WriterKeeps ==
  ASSUME WritersOK, FilesTypeOK, NEW w \in Writers, NEW v \in Writers, v # w,
         UNCHANGED <<world, trash, del>>, synced \subseteq synced',
         step'[v] = step[v], temp'[v] = temp[v],
         target' \in {target, NoFile, TmpOf(w), OutOf(w)},
         \A i \in Inode : i \notin {TmpOf(w), OutOf(w)} => data'[i] = data[i]
  PROVE  TempOK(v)' /\ OutOK(v)'
<1>1. TempOK(v) /\ OutOK(v)
  BY DEF WritersOK
<1>2. /\ data'[TmpOf(v)] = data[TmpOf(v)] /\ data'[OutOf(v)] = data[OutOf(v)]
      /\ target' = TmpOf(v) => target = TmpOf(v)
      /\ target' = OutOf(v) => target = OutOf(v)
  BY Inodes
<1>3. (Seen(TmpOf(v))' => Seen(TmpOf(v))) /\ (Seen(OutOf(v))' => Seen(OutOf(v)))
  BY <1>2 DEF Seen
<1>4. (Safe(TmpOf(v)) => Safe(TmpOf(v))') /\ (Safe(OutOf(v)) => Safe(OutOf(v))')
  BY <1>2 DEF Safe, Whole
<1>5. TempOK(v)'
  BY <1>1, <1>2, <1>3, <1>4 DEF TempOK, Whole
<1>6. OutOK(v)'
  BY <1>1, <1>2, <1>3, <1>4 DEF OutOK, Whole
<1>7. QED
  BY <1>5, <1>6

(* A step of a delete leaves the writers alone. *)
LEMMA WritersKeep ==
  ASSUME WritersOK, FilesTypeOK, UNCHANGED <<world, step, temp>>,
         target' \in {target, NoFile},
         \A w \in Writers : Seen(TmpOf(w))' => Seen(TmpOf(w)),
         \A w \in Writers : Seen(OutOf(w))' => Seen(OutOf(w)),
         \A w \in Writers : data'[TmpOf(w)] = data[TmpOf(w)] /\ data'[OutOf(w)] = data[OutOf(w)],
         \A w \in Writers : TmpOf(w) \in synced => TmpOf(w) \in synced',
         \A w \in Writers : OutOf(w) \in synced => OutOf(w) \in synced'
  PROVE  WritersOK'
<1> SUFFICES ASSUME NEW w \in Writers PROVE TempOK(w)' /\ OutOK(w)'
  BY DEF WritersOK
<1>1. TempOK(w) /\ OutOK(w)
  BY DEF WritersOK
<1>2. target' = OutOf(w) => target = OutOf(w)
  BY Inodes
<1>3. (Safe(TmpOf(w)) => Safe(TmpOf(w))') /\ (Safe(OutOf(w)) => Safe(OutOf(w))')
  BY DEF Safe, Whole
<1>4. TempOK(w)'
  BY <1>1, <1>3 DEF TempOK, Whole
<1>5. OutOK(w)'
  BY <1>1, <1>2, <1>3 DEF OutOK, Whole
<1>6. QED
  BY <1>4, <1>5

(* A step of one delete leaves what is known of another one: what it takes  *)
(* away or puts down in the trash is its own.                               *)
LEMMA DeleteKeeps ==
  ASSUME DeletersOK, FilesTypeOK, NEW d \in Deleters, NEW e \in Deleters, e # d,
         world' = world, del'[e] = del[e],
         \A p \in Place : \/ trash'[p] = trash[p] \/ world.windows
                         \/ trash[p] = CopyOf(d) \/ trash[p] = NoFile,
         \A p \in Place : trash'[p] = CopyOf(e) => trash[p] = CopyOf(e),
         \A i \in Inode : i # CopyOf(d) => data'[i] = data[i],
         CopyOf(e) \in synced => CopyOf(e) \in synced',
         del'[d].from # CopyOf(d), \A c \in Deleters : del[e].from # CopyOf(c)
  PROVE  DeleteOK(e)'
<1>1. DeleteOK(e)
  BY DEF DeletersOK
<1>2. del[e].from \in Inode \cup {NoFile} /\ CopyOf(e) # CopyOf(d) /\ CopyOf(e) # NoFile
      /\ CopyOf(e) \in Inode
  BY Inodes DEF FilesTypeOK, TrashTypeOK
<1>3. Copied(e) /\ del[e].from # NoFile => Copied(e)'
  BY <1>2 DEF Copied, Whole
<1>4. ASSUME NEW p \in Place, ~world.windows, trash[p] \in {del[e].from, CopyOf(e)},
             del[e].from # NoFile \/ trash[p] = CopyOf(e)
      PROVE  trash'[p] = trash[p]
  BY <1>2, <1>4
<1>5. QED
  BY <1>1, <1>2, <1>3, <1>4 DEF DeleteOK, Placed, Holding
----------------------------------------------------------------------------
(* What a step of a writer may touch. *)
LEMMA WriterFrame ==
  ASSUME FilesTypeOK, NEW w \in Writers, WriterStep(w)
  PROVE  /\ UNCHANGED <<world, trash>> /\ synced \subseteq synced'
         /\ \A v \in Writers : v # w => step'[v] = step[v] /\ temp'[v] = temp[v]
         /\ \A i \in Inode : i \notin {TmpOf(w), OutOf(w)} => data'[i] = data[i]
         /\ target' \in {target, NoFile, TmpOf(w), OutOf(w)}
<1> USE DEF FilesTypeOK, FileTypeOK, WriteTypeOK, fileVars, To, GoneWrong
<1>1. CASE Begin(w)
  BY <1>1 DEF Begin, Holds, More, Flush, Cleanup, Removed, GiveUpCopy, Rename
<1>2. CASE Look(w)
  BY <1>2 DEF Look, Holds, More, Flush, Cleanup, Removed, GiveUpCopy, Rename
<1>3. CASE Mkdir(w)
  BY <1>3 DEF Mkdir, Holds, More, Flush, Cleanup, Removed, GiveUpCopy, Rename
<1>4. CASE WalkFreely(w)
  BY <1>4 DEF WalkFreely, Holds, More, Flush, Cleanup, Removed, GiveUpCopy, Rename
<1>5. CASE Check(w)
  BY <1>5 DEF Check, Holds, More, Flush, Cleanup, Removed, GiveUpCopy, Rename
<1>6. CASE CreateTemp(w)
  BY <1>6 DEF CreateTemp, Holds, More, Flush, Cleanup, Removed, GiveUpCopy, Rename
<1>7. CASE WriteTemp(w)
  BY <1>7 DEF WriteTemp, Holds, More, Flush, Cleanup, Removed, GiveUpCopy, Rename
<1>8. CASE SyncTemp(w)
  BY <1>8 DEF SyncTemp, Holds, More, Flush, Cleanup, Removed, GiveUpCopy, Rename
<1>9. CASE CommitRename(w)
  BY <1>9 DEF CommitRename, Holds, More, Flush, Cleanup, Removed, GiveUpCopy, Rename
<1>10. CASE CommitLink(w)
  BY <1>10 DEF CommitLink, Holds, More, Flush, Cleanup, Removed, GiveUpCopy, Rename
<1>11. CASE CommitCreate(w)
  BY <1>11 DEF CommitCreate, Holds, More, Flush, Cleanup, Removed, GiveUpCopy, Rename
<1>12. CASE CommitWindows(w)
  BY <1>12 DEF CommitWindows, Holds, More, Flush, Cleanup, Removed, GiveUpCopy, Rename
<1>13. CASE CopyOut(w)
  BY <1>13 DEF CopyOut, Holds, More, Flush, Cleanup, Removed, GiveUpCopy, Rename
<1>14. CASE SyncOut(w)
  BY <1>14 DEF SyncOut, Holds, More, Flush, Cleanup, Removed, GiveUpCopy, Rename
<1>15. CASE RemoveTemp(w)
  BY <1>15 DEF RemoveTemp, Removed, Holds, More, Flush, Cleanup, Removed, GiveUpCopy, Rename
<1>16. QED
  BY <1>1, <1>2, <1>3, <1>4, <1>5, <1>6, <1>7, <1>8, <1>9, <1>10, <1>11, <1>12, <1>13, <1>14, <1>15 DEF WriterStep

(* A step of a writer keeps the types. *)
LEMMA WriterTypes ==
  ASSUME FilesTypeOK, WalkOK, NEW w \in Writers, WriterStep(w), UNCHANGED del
  PROVE  FilesTypeOK'
<1> USE WriteAssumption, FileAssumption
<1> USE DEF FilesTypeOK, fileVars, To, GoneWrong
<1>a. {TmpOf(w), OutOf(w)} \subseteq Inode /\ TmpOf(w) \in TmpInodes /\ w \in Text
  BY Inodes DEF Text
<1>b. TrashTypeOK'
  BY DEF TrashTypeOK
<1>c. /\ at[w] \in 1..(Depth + 1) /\ (at[w] <= Depth => at[w] + 1 \in 1..(Depth + 1))
      /\ step[w] = "mkdir" => at[w] \in 1..Depth
      /\ tries[w] < Attempts => tries[w] + 1 \in 0..Attempts
  BY DEF WriteTypeOK, WalkOK
<1>e. step[w] = "mkdir" => at[w] \in 1..Depth /\ at[w] + 1 \in 1..(Depth + 1)
  BY <1>c
<1>g. step[w] = "mkdir" => [madeBy EXCEPT ![at[w]] = @ \cup {w}] \in [1..Depth -> SUBSET Writers]
  BY <1>e DEF WriteTypeOK
<1>f. Depth + 1 \in 1..(Depth + 1)
  OBVIOUS
<1>d. \A i \in Inode, p \in {"empty", "half", "whole"} :
        Holds(i, w, p) /\ FileTypeOK => data' \in [Inode -> [text: Text, part: Part]]
  BY <1>a DEF Holds, FileTypeOK, Part
<1>1. CASE Begin(w)
  <2>1. FileTypeOK'
    BY <1>1 DEF Begin, FileTypeOK
  <2>2. WriteTypeOK'
    BY <1>1, <1>c DEF Begin, WriteTypeOK, WriteStep, Busy, Walking
  <2>3. QED
    BY <2>1, <2>2, <1>b
<1>2. CASE Look(w)
  <2>1. FileTypeOK'
    BY <1>2 DEF Look, FileTypeOK
  <2>2. WriteTypeOK'
    BY <1>2, <1>c DEF Look, WriteTypeOK, WriteStep, Busy, Walking
  <2>3. QED
    BY <2>1, <2>2, <1>b
<1>3. CASE Mkdir(w)
  <2>1. FileTypeOK'
    BY <1>3, <1>e DEF Mkdir, FileTypeOK, Kind
  <2>2. step' \in [Writers -> WriteStep]
    BY <1>3 DEF Mkdir, WriteTypeOK, WriteStep, Busy, Walking
  <2>3. at' \in [Writers -> 1..(Depth + 1)] /\ tries' \in [Writers -> 0..Attempts]
    BY <1>3, <1>e, SMTT(60) DEF Mkdir, WriteTypeOK
  <2>4. madeBy' \in [1..Depth -> SUBSET Writers]
    BY <1>3, <1>g DEF Mkdir, WriteTypeOK
  <2>5. QED
    BY <2>1, <2>2, <2>3, <2>4, <1>b DEF WriteTypeOK
<1>4. CASE WalkFreely(w)
  <2>1. FileTypeOK'
    BY <1>4, <1>a DEF WalkFreely, FileTypeOK, Kind
  <2>2. step' \in [Writers -> WriteStep]
    BY <1>4 DEF WalkFreely, WriteTypeOK, WriteStep, Busy
  <2>3. at' \in [Writers -> 1..(Depth + 1)] /\ tries' \in [Writers -> 0..Attempts]
    BY <1>4, <1>f DEF WalkFreely, WriteTypeOK
  <2>4. madeBy' \in [1..Depth -> SUBSET Writers]
    BY <1>4 DEF WalkFreely, WriteTypeOK
  <2>5. QED
    BY <2>1, <2>2, <2>3, <2>4, <1>b DEF WriteTypeOK
<1>5. CASE Check(w)
  <2>1. FileTypeOK'
    BY <1>5 DEF Check, FileTypeOK
  <2>2. WriteTypeOK'
    BY <1>5, <1>c DEF Check, WriteTypeOK, WriteStep, Busy
  <2>3. QED
    BY <2>1, <2>2, <1>b
<1>6. CASE CreateTemp(w)
  <2>1. FileTypeOK'
    BY <1>6, <1>a, <1>d DEF CreateTemp, FileTypeOK
  <2>2. WriteTypeOK'
    BY <1>6, <1>c DEF CreateTemp, WriteTypeOK, WriteStep, Busy
  <2>3. QED
    BY <2>1, <2>2, <1>b
<1>7. CASE WriteTemp(w)
  <2>1. FileTypeOK'
    BY <1>7, <1>a, <1>d DEF WriteTemp, FileTypeOK, More, Cleanup, Removed
  <2>2. WriteTypeOK'
    BY <1>7, <1>c DEF WriteTemp, WriteTypeOK, WriteStep, Busy, Cleanup, Removed
  <2>3. QED
    BY <2>1, <2>2, <1>b
<1>8. CASE SyncTemp(w)
  <2>1. FileTypeOK'
    BY <1>8, <1>a DEF SyncTemp, FileTypeOK, Flush, Cleanup, Removed
  <2>2. WriteTypeOK'
    BY <1>8, <1>c DEF SyncTemp, WriteTypeOK, WriteStep, Busy, Cleanup, Removed
  <2>3. QED
    BY <2>1, <2>2, <1>b
<1>9. CASE CommitRename(w)
  <2>1. FileTypeOK'
    BY <1>9, <1>a DEF CommitRename, FileTypeOK, Rename, Cleanup, Removed
  <2>2. WriteTypeOK'
    BY <1>9, <1>c DEF CommitRename, WriteTypeOK, WriteStep, Busy, Rename, Cleanup, Removed
  <2>3. QED
    BY <2>1, <2>2, <1>b
<1>10. CASE CommitLink(w)
  <2>1. FileTypeOK'
    BY <1>10, <1>a DEF CommitLink, FileTypeOK, Cleanup, Removed
  <2>2. WriteTypeOK'
    BY <1>10, <1>c, SMTT(60) DEF CommitLink, WriteTypeOK, WriteStep, Busy, Cleanup, Removed
  <2>3. QED
    BY <2>1, <2>2, <1>b
<1>11. CASE CommitCreate(w)
  <2>1. FileTypeOK'
    BY <1>11, <1>a, <1>d DEF CommitCreate, FileTypeOK, Cleanup, Removed
  <2>2. WriteTypeOK'
    BY <1>11, <1>c DEF CommitCreate, WriteTypeOK, WriteStep, Busy, Cleanup, Removed, Committing
  <2>3. QED
    BY <2>1, <2>2, <1>b
<1>12. CASE CommitWindows(w)
  <2>1. FileTypeOK'
    BY <1>12, <1>a DEF CommitWindows, FileTypeOK, Rename, Cleanup, Removed
  <2>2. WriteTypeOK'
    BY <1>12, <1>c DEF CommitWindows, WriteTypeOK, WriteStep, Busy, Rename, Cleanup, Removed
  <2>3. QED
    BY <2>1, <2>2, <1>b
<1>13. CASE CopyOut(w)
  <2>1. FileTypeOK'
    BY <1>13, <1>a, <1>d DEF CopyOut, FileTypeOK, More, GiveUpCopy, Cleanup, Removed
  <2>2. WriteTypeOK'
    BY <1>13, <1>c DEF CopyOut, WriteTypeOK, WriteStep, Busy, GiveUpCopy, Cleanup, Removed, Committing
  <2>3. QED
    BY <2>1, <2>2, <1>b
<1>14. CASE SyncOut(w)
  <2>1. FileTypeOK'
    BY <1>14, <1>a DEF SyncOut, FileTypeOK, Flush, GiveUpCopy, Cleanup, Removed
  <2>2. WriteTypeOK'
    BY <1>14, <1>c DEF SyncOut, WriteTypeOK, WriteStep, Busy, GiveUpCopy, Cleanup, Removed
  <2>3. QED
    BY <2>1, <2>2, <1>b
<1>15. CASE RemoveTemp(w)
  <2>1. FileTypeOK'
    BY <1>15 DEF RemoveTemp, Removed, FileTypeOK
  <2>2. WriteTypeOK'
    BY <1>15, <1>c DEF RemoveTemp, Removed, WriteTypeOK, WriteStep, Busy
  <2>3. QED
    BY <2>1, <2>2, <1>b
<1>16. QED
  BY <1>1, <1>2, <1>3, <1>4, <1>5, <1>6, <1>7, <1>8, <1>9, <1>10, <1>11, <1>12, <1>13, <1>14, <1>15 DEF WriterStep

(* The way: a step that makes nothing and passes nothing. *)
LEMMA WalkKeeps ==
  ASSUME WalkOK, UNCHANGED <<world, at, madeBy>>,
         \A i \in 1..Depth : tree[i] = "dir" => tree'[i] = "dir",
         \A w \in Writers : step'[w] = "mkdir" => step[w] = "mkdir"
  PROVE  WalkOK'
<1> SUFFICES ASSUME NEW w \in Writers
             PROVE  /\ step'[w] = "mkdir" => at'[w] \in 1..Depth /\ MayMake(w)'
                    /\ world.noSymlinks =>
                         /\ Made(w)' <= IF w \in world.parents THEN MaxNewDirs ELSE 0
                         /\ \A i \in 1..Depth : i < at'[w] => tree'[i] = "dir"
  BY DEF WalkOK
<1>1. Made(w)' = Made(w)
  BY DEF Made
<1>2. MayMake(w)' = MayMake(w)
  BY <1>1 DEF MayMake
<1>3. QED
  BY <1>1, <1>2 DEF WalkOK

(* How many directories a writer has made, before and after a Mkdir. *)
LEMMA MkdirCounts ==
  ASSUME FilesTypeOK, NEW w \in Writers, NEW v \in Writers, NEW i \in 1..Depth,
         madeBy' = [madeBy EXCEPT ![i] = @ \cup {w}]
  PROVE  /\ Made(v) \in Nat /\ Made(v)' \in Nat
         /\ v # w => Made(v)' = Made(v)
         /\ Made(w)' <= Made(w) + 1
<1> DEFINE S(u) == {j \in 1..Depth : u \in madeBy[j]}
<1>1. madeBy \in [1..Depth -> SUBSET Writers] /\ IsFiniteSet(1..Depth)
  BY FileAssumption, FS_Interval DEF FilesTypeOK, WriteTypeOK
<1>2. IsFiniteSet(S(w)) /\ IsFiniteSet(S(v))
  BY <1>1, FS_Subset
<1>3. S(w)' = S(w) \cup {i} /\ (v # w => S(v)' = S(v))
  BY <1>1
<1>4. IsFiniteSet(S(w)') /\ IsFiniteSet(S(v)')
  BY <1>1, FS_Subset
<1>5. Cardinality(S(w)') <= Cardinality(S(w)) + 1
  <2> HIDE DEF S
  <2>1. Cardinality(S(w)) \in Nat
    BY <1>2, FS_CardinalityType
  <2>2. CASE i \in S(w)
    <3>1. S(w)' = S(w)
      BY <1>3, <2>2
    <3>2. QED
      BY <3>1, <2>1
  <2>3. CASE i \notin S(w)
    <3>1. Cardinality(S(w) \cup {i}) = Cardinality(S(w)) + 1
      BY <1>2, <2>3, FS_AddElement
    <3>2. QED
      BY <1>3, <2>1, <3>1
  <2>4. QED
    BY <2>2, <2>3
<1>6. QED
  BY <1>2, <1>3, <1>4, <1>5, FS_CardinalityType DEF Made

(* A step of a writer keeps the walk's bounds. *)
LEMMA WriterWalk ==
  ASSUME FilesTypeOK, WalkOK, NEW w \in Writers, WriterStep(w)
  PROVE  WalkOK'
<1> USE DEF FilesTypeOK, fileVars, To, GoneWrong
<1>1. world' = world /\ \A v \in Writers : v # w => step'[v] = step[v]
  BY WriterFrame
<1>2. CASE Look(w)
  <2>1. \A v \in Writers : Made(v)' = Made(v) /\ MayMake(v)' = MayMake(v)
    BY <1>2 DEF Look, Made, MayMake
  <2> SUFFICES ASSUME NEW v \in Writers
               PROVE  /\ step'[v] = "mkdir" => at'[v] \in 1..Depth /\ MayMake(v)
                      /\ world.noSymlinks => \A i \in 1..Depth : i < at'[v] => tree'[i] = "dir"
    BY <1>1, <2>1 DEF WalkOK
  <2>2. CASE v # w
    BY <1>1, <1>2, <2>2 DEF Look, WalkOK, WriteTypeOK
  <2>3. CASE v = w
    <3>1. at[w] \in 1..Depth /\ step[w] # "mkdir"
      BY <1>2, FileAssumption DEF Look, WriteTypeOK
    <3>2. step'[w] = "mkdir" => at'[w] \in 1..Depth /\ MayMake(w)
      BY <1>2, <3>1 DEF Look, WriteTypeOK
    <3>3. ASSUME world.noSymlinks, NEW i \in 1..Depth, i < at'[w] PROVE tree'[i] = "dir"
      <4>1. i < at[w] => tree[i] = "dir"
        BY <3>3 DEF WalkOK
      <4>2. tree' = tree /\ (at'[w] = at[w] \/ (at'[w] = at[w] + 1 /\ tree[at[w]] = "dir"))
        BY <1>2 DEF Look, WriteTypeOK
      <4>3. i < at[w] \/ i = at[w] \/ at[w] < i
        BY <3>1
      <4>4. QED
        BY <3>1, <3>3, <4>1, <4>2, <4>3
    <3>4. QED
      BY <2>3, <3>2, <3>3
  <2>4. QED
    BY <2>2, <2>3
<1>3. CASE Mkdir(w)
  <2>1. CASE UNCHANGED <<tree, at, madeBy>>
    BY <1>1, <1>3, <2>1, WalkKeeps DEF Mkdir, WriteTypeOK
  <2>2. CASE ~UNCHANGED <<tree, at, madeBy>>
    <3>1. /\ at[w] \in 1..Depth /\ MayMake(w) /\ step'[w] = "walk"
          /\ tree' = [tree EXCEPT ![at[w]] = "dir"]
          /\ madeBy' = [madeBy EXCEPT ![at[w]] = @ \cup {w}]
          /\ at' = [at EXCEPT ![w] = @ + 1]
      BY <1>3, <2>2 DEF Mkdir, WalkOK, WriteTypeOK
    <3> SUFFICES ASSUME NEW v \in Writers
                 PROVE  /\ step'[v] = "mkdir" => at'[v] \in 1..Depth /\ MayMake(v)'
                        /\ world.noSymlinks =>
                             /\ Made(v)' <= IF v \in world.parents THEN MaxNewDirs ELSE 0
                             /\ \A i \in 1..Depth : i < at'[v] => tree'[i] = "dir"
      BY <1>1 DEF WalkOK
    <3>2. /\ Made(v) \in Nat /\ Made(v)' \in Nat /\ (v # w => Made(v)' = Made(v))
          /\ Made(w)' <= Made(w) + 1 /\ Made(w) \in Nat /\ Made(w)' \in Nat
      BY <3>1, MkdirCounts
    <3>3. \A i \in 1..Depth : i < at[v] /\ world.noSymlinks => tree'[i] = "dir"
      BY <3>1 DEF WalkOK, FileTypeOK
    <3>4. CASE v # w
      BY <1>1, <3>1, <3>2, <3>3, <3>4 DEF WalkOK, MayMake, WriteTypeOK
    <3>5. CASE v = w
      <4>1. at'[w] = at[w] + 1 /\ tree'[at[w]] = "dir" /\ at[w] \in Nat
        BY <3>1 DEF WriteTypeOK, FileTypeOK
      <4>2. \A i \in 1..Depth : i < at'[w] /\ world.noSymlinks => tree'[i] = "dir"
        BY <3>1, <3>3, <3>5, <4>1
      <4>3. Made(w)' <= MaxNewDirs /\ w \in world.parents
        BY <3>1, <3>2, WriteAssumption DEF MayMake
      <4>4. QED
        BY <3>1, <3>5, <4>2, <4>3
    <3>6. QED
      BY <3>4, <3>5
  <2>3. QED
    BY <2>1, <2>2
<1>4. CASE WalkFreely(w)
  <2>1. ~world.noSymlinks /\ madeBy' = madeBy /\ step'[w] # "mkdir"
        /\ \A v \in Writers : v # w => at'[v] = at[v]
    BY <1>4 DEF WalkFreely, WriteTypeOK
  <2>2. \A v \in Writers : Made(v)' = Made(v) /\ MayMake(v)' = MayMake(v)
    BY <1>1, <2>1 DEF Made, MayMake
  <2>3. QED
    BY <1>1, <2>1, <2>2 DEF WalkOK
<1>5. CASE ~Look(w) /\ ~Mkdir(w) /\ ~WalkFreely(w)
  <2>1. UNCHANGED <<tree, at, madeBy>> /\ step'[w] # "mkdir"
    BY <1>5 DEF WriterStep, WriteTypeOK, Begin, Check, CreateTemp, WriteTemp, SyncTemp,
        CommitRename, CommitLink, CommitCreate, CommitWindows, CopyOut, SyncOut, RemoveTemp,
        Cleanup, Removed, GiveUpCopy, Rename
  <2>2. QED
    BY <1>1, <2>1, WalkKeeps
<1>6. QED
  BY <1>2, <1>3, <1>4, <1>5

(* What a step of a writer leaves of its own files. *)
LEMMA WriterOwn ==
  ASSUME FilesTypeOK, WritersOK, NEW w \in Writers, WriterStep(w), UNCHANGED del
  PROVE  TempOK(w)' /\ OutOK(w)'
<1> DEFINE t == TmpOf(w)
           o == OutOf(w)
<1> USE DEF fileVars, To, GoneWrong
<1>a. /\ t \in Inode /\ o \in Inode /\ t # o /\ {t, o} \cap {NoFile, LeftOver} = {}
      /\ step \in [Writers -> WriteStep] /\ temp \in [Writers -> TmpInodes \cup {NoFile, LeftOver}]
      /\ data \in [Inode -> [text: Text, part: Part]]
      /\ world' = world /\ trash' = trash /\ del' = del
      /\ synced \subseteq synced'
  BY Inodes, WriterFrame DEF FilesTypeOK, FileTypeOK, WriteTypeOK
<1>b. TempOK(w) /\ OutOK(w)
  BY DEF WritersOK
<1>1. CASE Begin(w)
  <2>1. TempOK(w)'
    BY <1>1, <1>a, <1>b DEF Begin, TempOK, Seen, Safe, Whole, Early, Walking, Committing
  <2>2. OutOK(w)'
    BY <1>1, <1>a, <1>b DEF Begin, TempOK, OutOK, Seen, Safe, Whole, Early, Walking, Committing
  <2>3. QED
    BY <2>1, <2>2
<1>2. CASE Look(w)
  <2>1. TempOK(w)'
    BY <1>2, <1>a, <1>b DEF Look, TempOK, Seen, Safe, Whole, Early, Walking, Committing
  <2>2. OutOK(w)'
    BY <1>2, <1>a, <1>b DEF Look, TempOK, OutOK, Seen, Safe, Whole, Early, Walking, Committing
  <2>3. QED
    BY <2>1, <2>2
<1>3. CASE Mkdir(w)
  <2>1. TempOK(w)'
    BY <1>3, <1>a, <1>b DEF Mkdir, TempOK, Seen, Safe, Whole, Early, Walking, Committing
  <2>2. OutOK(w)'
    BY <1>3, <1>a, <1>b DEF Mkdir, TempOK, OutOK, Seen, Safe, Whole, Early, Walking, Committing
  <2>3. QED
    BY <2>1, <2>2
<1>4. CASE WalkFreely(w)
  <2>1. TempOK(w)'
    BY <1>4, <1>a, <1>b DEF WalkFreely, TempOK, Seen, Safe, Whole, Early, Walking, Committing
  <2>2. OutOK(w)'
    BY <1>4, <1>a, <1>b DEF WalkFreely, TempOK, OutOK, Seen, Safe, Whole, Early, Walking, Committing
  <2>3. QED
    BY <2>1, <2>2
<1>5. CASE Check(w)
  <2>1. TempOK(w)'
    BY <1>5, <1>a, <1>b DEF Check, TempOK, Seen, Safe, Whole, Early, Walking, Committing
  <2>2. OutOK(w)'
    BY <1>5, <1>a, <1>b DEF Check, TempOK, OutOK, Seen, Safe, Whole, Early, Walking, Committing
  <2>3. QED
    BY <2>1, <2>2
<1>6. CASE CreateTemp(w)
  <2>1. TempOK(w)'
    BY <1>6, <1>a, <1>b DEF CreateTemp, Holds, TempOK, Seen, Safe, Whole, Early, Walking, Committing
  <2>2. OutOK(w)'
    BY <1>6, <1>a, <1>b DEF CreateTemp, Holds, TempOK, OutOK, Seen, Safe, Whole, Early, Walking, Committing
  <2>3. QED
    BY <2>1, <2>2
<1>7. CASE WriteTemp(w)
  <2>1. TempOK(w)'
    <3>1. CASE Cleanup(w) /\ UNCHANGED target
      BY <1>a, <1>b, <3>1 DEF Cleanup, Removed, TempOK, Seen, Safe, Whole, Early, Walking, Committing
    <3>2. CASE ~Cleanup(w)
      BY <1>7, <1>a, <1>b, <3>2 DEF WriteTemp, More, Holds, TempOK, Seen, Safe, Whole, Early, Walking, Committing
    <3>3. QED
      BY <1>7, <3>1, <3>2 DEF WriteTemp
  <2>2. OutOK(w)'
    BY <1>7, <1>a, <1>b DEF WriteTemp, More, Holds, Cleanup, Removed, TempOK, OutOK, Seen, Safe, Whole, Early, Walking, Committing
  <2>3. QED
    BY <2>1, <2>2
<1>8. CASE SyncTemp(w)
  <2>1. TempOK(w)'
    BY <1>8, <1>a, <1>b DEF SyncTemp, Flush, Cleanup, Removed, TempOK, Seen, Safe, Whole, Early, Walking, Committing
  <2>2. OutOK(w)'
    BY <1>8, <1>a, <1>b DEF SyncTemp, Flush, Cleanup, Removed, TempOK, OutOK, Seen, Safe, Whole, Early, Walking, Committing
  <2>3. QED
    BY <2>1, <2>2
<1>9. CASE CommitRename(w)
  <2>1. TempOK(w)'
    BY <1>9, <1>a, <1>b DEF CommitRename, Rename, Cleanup, Removed, TempOK, Seen, Safe, Whole, Early, Walking, Committing
  <2>2. OutOK(w)'
    BY <1>9, <1>a, <1>b DEF CommitRename, Rename, Cleanup, Removed, TempOK, OutOK, Seen, Safe, Whole, Early, Walking, Committing
  <2>3. QED
    BY <2>1, <2>2
<1>10. CASE CommitLink(w)
  <2>1. TempOK(w)'
    BY <1>10, <1>a, <1>b DEF CommitLink, Cleanup, Removed, TempOK, Seen, Safe, Whole, Early, Walking, Committing
  <2>2. OutOK(w)'
    BY <1>10, <1>a, <1>b DEF CommitLink, Cleanup, Removed, TempOK, OutOK, Seen, Safe, Whole, Early, Walking, Committing
  <2>3. QED
    BY <2>1, <2>2
<1>11. CASE CommitCreate(w)
  <2>1. TempOK(w)'
    BY <1>11, <1>a, <1>b DEF CommitCreate, Holds, Cleanup, Removed, TempOK, Seen, Safe, Whole, Early, Walking, Committing
  <2>2. OutOK(w)'
    BY <1>11, <1>a, <1>b DEF CommitCreate, Holds, Cleanup, Removed, TempOK, OutOK, Seen, Safe, Whole, Early, Walking, Committing
  <2>3. QED
    BY <2>1, <2>2
<1>12. CASE CommitWindows(w)
  <2>1. TempOK(w)'
    BY <1>12, <1>a, <1>b DEF CommitWindows, Rename, Cleanup, Removed, TempOK, Seen, Safe, Whole, Early, Walking, Committing
  <2>2. OutOK(w)'
    BY <1>12, <1>a, <1>b DEF CommitWindows, Rename, Cleanup, Removed, TempOK, OutOK, Seen, Safe, Whole, Early, Walking, Committing
  <2>3. QED
    BY <2>1, <2>2
<1>13. CASE CopyOut(w)
  <2>1. TempOK(w)'
    BY <1>13, <1>a, <1>b DEF CopyOut, More, Holds, GiveUpCopy, Cleanup, Removed, TempOK, Seen, Safe, Whole, Early, Walking, Committing
  <2>2. OutOK(w)'
    BY <1>13, <1>a, <1>b DEF CopyOut, More, Holds, GiveUpCopy, Cleanup, Removed, TempOK, OutOK, Seen, Safe, Whole, Early, Walking, Committing
  <2>3. QED
    BY <2>1, <2>2
<1>14. CASE SyncOut(w)
  <2>1. TempOK(w)'
    BY <1>14, <1>a, <1>b DEF SyncOut, Flush, GiveUpCopy, Cleanup, Removed, TempOK, Seen, Safe, Whole, Early, Walking, Committing
  <2>2. OutOK(w)'
    BY <1>14, <1>a, <1>b DEF SyncOut, Flush, GiveUpCopy, Cleanup, Removed, TempOK, OutOK, Seen, Safe, Whole, Early, Walking, Committing
  <2>3. QED
    BY <2>1, <2>2
<1>15. CASE RemoveTemp(w)
  <2>1. TempOK(w)'
    BY <1>15, <1>a, <1>b DEF RemoveTemp, Removed, TempOK, Seen, Safe, Whole, Early, Walking, Committing
  <2>2. OutOK(w)'
    BY <1>15, <1>a, <1>b DEF RemoveTemp, Removed, TempOK, OutOK, Seen, Safe, Whole, Early, Walking, Committing
  <2>3. QED
    BY <2>1, <2>2
<1>16. QED
  BY <1>1, <1>2, <1>3, <1>4, <1>5, <1>6, <1>7, <1>8, <1>9, <1>10, <1>11, <1>12, <1>13, <1>14, <1>15 DEF WriterStep

(* No step of a writer changes the text of a file that a delete has read. *)
LEMMA TextsStay ==
  ASSUME FilesTypeOK, WritersOK, NEW w \in Writers, WriterStep(w), NEW i \in Inode, Seen(i)
  PROVE  data'[i].text = data[i].text
<1>1. CASE i \notin {TmpOf(w), OutOf(w)}
  BY <1>1, WriterFrame
<1>2. CASE i \in {TmpOf(w), OutOf(w)}
  <2>1. /\ TempOK(w) /\ OutOK(w) /\ TmpOf(w) # OutOf(w)
        /\ TmpOf(w) \in Inode /\ OutOf(w) \in Inode
        /\ data \in [Inode -> [text: Text, part: Part]]
    BY Inodes DEF WritersOK, FilesTypeOK, FileTypeOK
  <2>2. step[w] \notin Early
    BY <1>2, <2>1 DEF TempOK
  <2>3. CASE CopyOut(w)
    BY <1>2, <2>1, <2>3 DEF CopyOut, More, Holds, GiveUpCopy, Cleanup, Removed, OutOK
  <2>4. CASE ~CopyOut(w)
    BY <2>2, <2>4 DEF WriterStep, Early, Walking, Begin, Look, Mkdir, WalkFreely, Check, CreateTemp,
       WriteTemp, SyncTemp, CommitRename, CommitLink, CommitCreate, CommitWindows, SyncOut,
       RemoveTemp, GiveUpCopy, Cleanup, Removed, fileVars
  <2>5. QED
    BY <2>3, <2>4
<1>3. QED
  BY <1>1, <1>2

(* A step of a writer keeps the invariant. *)
LEMMA WriterInductive ==
  ASSUME IInv, NEW w \in Writers, WriterStep(w), UNCHANGED del
  PROVE  IInv'
<1>1. FilesTypeOK /\ WalkOK /\ WritersOK /\ FirstOK /\ DeletersOK
  BY DEF IInv
<1>2. /\ UNCHANGED <<world, trash>> /\ synced \subseteq synced'
      /\ \A v \in Writers : v # w => step'[v] = step[v] /\ temp'[v] = temp[v]
      /\ \A i \in Inode : i \notin {TmpOf(w), OutOf(w)} => data'[i] = data[i]
      /\ target' \in {target, NoFile, TmpOf(w), OutOf(w)}
  BY <1>1, WriterFrame
<1>3. WritersOK'
  <2> SUFFICES ASSUME NEW v \in Writers PROVE TempOK(v)' /\ OutOK(v)'
    BY DEF WritersOK
  <2>1. CASE v = w
    BY <1>1, <2>1, WriterOwn
  <2>2. CASE v # w
    BY <1>1, <1>2, <2>2, WriterKeeps
  <2>3. QED
    BY <2>1, <2>2
<1>4. FirstOK'
  <2>1. First \in Inode /\ First \notin {TmpOf(w), OutOf(w)}
    BY Inodes
  <2>2. Safe(First)'
    BY <1>1, <1>2, <2>1 DEF FirstOK, Safe, Whole
  <2>3. ASSUME NEW d \in Deleters PROVE target' # CopyOf(d)
    <3>1. CopyOf(d) \notin {NoFile, TmpOf(w), OutOf(w)}
      BY Inodes
    <3>2. QED
      BY <1>1, <1>2, <3>1 DEF FirstOK
  <2>4. QED
    BY <2>2, <2>3 DEF FirstOK
<1>5. DeletersOK'
  <2>1. ASSUME NEW d \in Deleters PROVE data'[CopyOf(d)] = data[CopyOf(d)]
    BY <1>2, Inodes
  <2>2. ASSUME NEW d \in Deleters, del[d].from # NoFile
        PROVE  data'[del[d].from].text = data[del[d].from].text
    <3>1. del[d].from \in Inode
      BY <1>1, <2>2 DEF FilesTypeOK, TrashTypeOK
    <3>2. Seen(del[d].from)
      BY DEF Seen
    <3>3. QED
      BY <1>1, <3>1, <3>2, TextsStay
  <2>3. QED
    BY <1>1, <1>2, <2>1, <2>2, DeletersKeep
<1>6. QED
  BY <1>1, <1>3, <1>4, <1>5, WriterTypes, WriterWalk DEF IInv
----------------------------------------------------------------------------
(* The directories left to try. *)
LEMMA Queues ==
  ASSUME NEW q \in Queue, q # <<>>
  PROVE  Head(q) \in TrashDirs /\ Tail(q) \in Queue /\ (Len(q) > 1 => Tail(q) # <<>>)
<1>1. q = <<"system">> \/ q = <<"local">> \/ q = <<"system", "local">>
  BY DEF Queue
<1>2. CASE q = <<"system">>
  BY <1>2 DEF Queue, TrashDirs
<1>3. CASE q = <<"local">>
  BY <1>3 DEF Queue, TrashDirs
<1>4. CASE q = <<"system", "local">>
  BY <1>4 DEF Queue, TrashDirs
<1>5. QED
  BY <1>1, <1>2, <1>3, <1>4

(* What the steps of a delete do to its record. *)
LEMMA GoesTo ==
  ASSUME TrashTypeOK, NEW d \in Deleters, NEW s \in TrashStep, Goes(d, s)
  PROVE  /\ TrashTypeOK'
         /\ del'[d] = [del[d] EXCEPT !.step = s]
         /\ \A e \in Deleters : e # d => del'[e] = del[e]
BY DEF TrashTypeOK, Goes

(* To the next directory, or to the end when there is none. *)
LEMMA GoesOn ==
  ASSUME TrashTypeOK, NEW d \in Deleters, del[d].queue # <<>>, NextDir(d)
  PROVE  /\ TrashTypeOK'
         /\ \A e \in Deleters : e # d => del'[e] = del[e]
         /\ del'[d].step = "failed" \/ (del'[d].step = "ensure" /\ del'[d].queue # <<>>)
         /\ del'[d].from = NoFile
<1>1. Tail(del[d].queue) \in Queue /\ (Len(del[d].queue) > 1 => Tail(del[d].queue) # <<>>)
  BY Queues DEF TrashTypeOK
<1>2. 0 \in 0..MaxTries /\ NoPlace \in Place \cup {NoPlace} /\ NoFile \in Inode \cup {NoFile}
      /\ {"ensure", "failed"} \subseteq TrashStep
  BY TrashAssumption DEF TrashStep, Moving
<1> DEFINE r == [del[d] EXCEPT !.queue = Tail(@), !.dest = NoPlace, !.from = NoFile, !.tries = 0,
                   !.step = IF Len(del[d].queue) > 1 THEN "ensure" ELSE "failed"]
<1>3. del' = [del EXCEPT ![d] = r]
  BY DEF NextDir, TrashTypeOK
<1>4. r \in [ step: TrashStep, queue: Queue, dest: Place \cup {NoPlace},
              from: Inode \cup {NoFile}, tries: 0..MaxTries, wasLink: BOOLEAN ]
  BY <1>1, <1>2 DEF TrashTypeOK
<1>5. del'[d] = r /\ \A e \in Deleters : e # d => del'[e] = del[e]
  BY <1>3 DEF TrashTypeOK
<1>6. TrashTypeOK'
  BY <1>3, <1>4 DEF TrashTypeOK
<1>7. QED
  BY <1>1, <1>5, <1>6 DEF TrashTypeOK

(* After a failed attempt: another name, another directory, or the end. *)
LEMMA GoesBack ==
  ASSUME TrashTypeOK, NEW d \in Deleters, del[d].queue # <<>>, Another(d)
  PROVE  /\ TrashTypeOK'
         /\ \A e \in Deleters : e # d => del'[e] = del[e]
         /\ del'[d].step \in {"failed", "ensure", "pick"}
         /\ del'[d].step # "failed" => del'[d].queue # <<>>
         /\ del'[d].from \in {NoFile, del[d].from}
<1>1. CASE NextDir(d)
  BY <1>1, GoesOn
<1>2. CASE /\ del[d].tries + 1 < MaxTries
           /\ del' = [del EXCEPT ![d].tries = @ + 1, ![d].dest = NoPlace, ![d].step = "pick"]
  <2>1. del[d].tries + 1 \in 0..MaxTries /\ "pick" \in TrashStep /\ NoPlace \in Place \cup {NoPlace}
    BY <1>2, TrashAssumption DEF TrashTypeOK, TrashStep, Moving
  <2> DEFINE r == [del[d] EXCEPT !.tries = @ + 1, !.dest = NoPlace, !.step = "pick"]
  <2>2. del' = [del EXCEPT ![d] = r]
    BY <1>2 DEF TrashTypeOK
  <2>3. r \in [ step: TrashStep, queue: Queue, dest: Place \cup {NoPlace},
                from: Inode \cup {NoFile}, tries: 0..MaxTries, wasLink: BOOLEAN ]
    BY <2>1 DEF TrashTypeOK
  <2>4. del'[d] = r /\ \A e \in Deleters : e # d => del'[e] = del[e]
    BY <2>2 DEF TrashTypeOK
  <2>5. TrashTypeOK'
    BY <2>2, <2>3 DEF TrashTypeOK
  <2>6. QED
    BY <2>4, <2>5 DEF TrashTypeOK
<1>3. QED
  BY <1>1, <1>2 DEF Another

(* What a step of a delete does to its record, and to the rest. *)
LEMMA DeleterRecord ==
  ASSUME FilesTypeOK, NEW d \in Deleters, DeleteOK(d), DeleterStep(d)
  PROVE  /\ TrashTypeOK'
         /\ \A e \in Deleters : e # d => del'[e] = del[e]
         /\ del'[d].from \in {NoFile, del[d].from, target}
<1> USE DEF FilesTypeOK
<1>a. /\ del[d] \in [ step: TrashStep, queue: Queue, dest: Place \cup {NoPlace},
                     from: Inode \cup {NoFile}, tries: 0..MaxTries, wasLink: BOOLEAN ]
      /\ target \in Inode \cup {NoFile} /\ Moving \subseteq TrashStep
      /\ {"done", "failed"} \subseteq TrashStep
  BY DEF TrashTypeOK, FileTypeOK, TrashStep
<1>b. del[d].step \in Moving => del[d].queue # <<>> /\ Head(del[d].queue) \in TrashDirs
  BY <1>a, Queues DEF DeleteOK
<1>1. CASE StartDelete(d)
  <2>1. CASE Goes(d, "failed")
    BY <1>a, <2>1, GoesTo
  <2>2. CASE ~Goes(d, "failed")
    <3>1. PICK q \in Queue \ {<<>>} :
            del' = [del EXCEPT ![d].step = "ensure", ![d].queue = q, ![d].wasLink = IsLink(target)]
      BY <1>1, <2>2 DEF StartDelete
    <3> DEFINE r == [del[d] EXCEPT !.step = "ensure", !.queue = q, !.wasLink = IsLink(target)]
    <3>2. IsLink(target) \in BOOLEAN /\ "ensure" \in TrashStep
      BY <1>a DEF IsLink, Moving, FileTypeOK, World, FileAssumption
    <3>3. r \in [ step: TrashStep, queue: Queue, dest: Place \cup {NoPlace},
                  from: Inode \cup {NoFile}, tries: 0..MaxTries, wasLink: BOOLEAN ]
      BY <1>a, <3>2
    <3>4. del' = [del EXCEPT ![d] = r]
      BY <3>1 DEF TrashTypeOK
    <3>5. TrashTypeOK'
      BY <3>3, <3>4 DEF TrashTypeOK
    <3>6. QED
      BY <3>1, <3>5 DEF TrashTypeOK
  <2>3. QED
    BY <2>1, <2>2
<1>2. CASE Ensure(d)
  <2>1. "pick" \in TrashStep /\ "failed" \in TrashStep
    BY <1>a DEF Moving
  <2>2. del[d].queue # <<>>
    BY <1>2, <1>b DEF Ensure, Moving
  <2>3. QED
    BY <1>2, <1>a, <2>1, <2>2, ZenonT(60), GoesTo, GoesOn DEF Ensure
<1>3. CASE Pick(d)
  <2>1. del[d].queue # <<>> /\ Head(del[d].queue) \in TrashDirs
    BY <1>3, <1>b DEF Pick, Moving
  <2>2. CASE NextDir(d)
    BY <2>1, <2>2, GoesOn
  <2>3. CASE ~NextDir(d)
    <3>1. PICK n \in TrashNames :
            del' = [del EXCEPT ![d].dest = <<Head(del[d].queue), n>>,
                      ![d].step = IF world.windows THEN "rename" ELSE "reserve"]
      BY <1>3, <2>3 DEF Pick, Free
    <3> DEFINE r == [del[d] EXCEPT !.dest = <<Head(del[d].queue), n>>,
                       !.step = IF world.windows THEN "rename" ELSE "reserve"]
    <3>2. <<Head(del[d].queue), n>> \in Place /\ {"rename", "reserve"} \subseteq TrashStep
      BY <1>a, <2>1 DEF Place, Moving
    <3>3. r \in [ step: TrashStep, queue: Queue, dest: Place \cup {NoPlace},
                  from: Inode \cup {NoFile}, tries: 0..MaxTries, wasLink: BOOLEAN ]
      BY <1>a, <3>2
    <3>4. del' = [del EXCEPT ![d] = r]
      BY <3>1 DEF TrashTypeOK
    <3>5. TrashTypeOK'
      BY <3>3, <3>4 DEF TrashTypeOK
    <3>6. QED
      BY <3>1, <3>5 DEF TrashTypeOK
  <2>4. QED
    BY <2>2, <2>3
<1>4. CASE Reserve(d)
  <2>1. del[d].queue # <<>>
    BY <1>4, <1>b DEF Reserve, Moving
  <2>2. "rename" \in TrashStep
    BY <1>a DEF Moving
  <2>3. Goes(d, "rename") \/ Another(d) \/ NextDir(d)
    BY <1>4 DEF Reserve
  <2>4. QED
    BY <1>a, <2>1, <2>2, <2>3, GoesTo, GoesOn, GoesBack
<1>5. CASE RenameToTrash(d)
  <2> DEFINE r == [del[d] EXCEPT !.step = "done", !.from = target]
  <2>1. del' = [del EXCEPT ![d] = r]
    BY <1>5 DEF RenameToTrash, TrashTypeOK
  <2>2. r \in [ step: TrashStep, queue: Queue, dest: Place \cup {NoPlace},
                from: Inode \cup {NoFile}, tries: 0..MaxTries, wasLink: BOOLEAN ]
    BY <1>a
  <2>3. TrashTypeOK'
    BY <2>1, <2>2 DEF TrashTypeOK
  <2>4. QED
    BY <2>1, <2>3 DEF TrashTypeOK
<1>6. CASE RenameFails(d)
  <2>1. del[d].queue # <<>>
    BY <1>6, <1>b DEF RenameFails, Moving
  <2>2. Another(d) \/ NextDir(d)
    BY <1>6 DEF RenameFails
  <2>3. QED
    BY <1>a, <2>1, <2>2, GoesOn, GoesBack
<1>7. CASE RenameCrosses(d)
  <2>1. del[d].queue # <<>>
    BY <1>7, <1>b DEF RenameCrosses, Moving
  <2>2. CASE NextDir(d)
    BY <2>1, <2>2, GoesOn
  <2>3. CASE Goes(d, "open")
    BY <1>a, <2>3, GoesTo DEF Moving
  <2>4. CASE del' = [del EXCEPT ![d].step = "symlink", ![d].from = target]
    <3> DEFINE r == [del[d] EXCEPT !.step = "symlink", !.from = target]
    <3>1. del' = [del EXCEPT ![d] = r]
      BY <2>4 DEF TrashTypeOK
    <3>2. r \in [ step: TrashStep, queue: Queue, dest: Place \cup {NoPlace},
                  from: Inode \cup {NoFile}, tries: 0..MaxTries, wasLink: BOOLEAN ]
      BY <1>a DEF Moving
    <3>3. TrashTypeOK'
      BY <3>1, <3>2 DEF TrashTypeOK
    <3>4. QED
      BY <3>1, <3>3 DEF TrashTypeOK
  <2>5. QED
    BY <1>7, <2>2, <2>3, <2>4 DEF RenameCrosses
<1>8. CASE MakeSymlink(d)
  <2>1. del[d].queue # <<>>
    BY <1>8, <1>b DEF MakeSymlink, Moving
  <2>2. "unlink" \in TrashStep
    BY <1>a DEF Moving
  <2>3. Goes(d, "unlink") \/ Another(d) \/ NextDir(d)
    BY <1>8 DEF MakeSymlink
  <2>4. QED
    BY <1>a, <2>1, <2>2, <2>3, GoesTo, GoesOn, GoesBack
<1>9. CASE OpenCopy(d)
  <2>1. del[d].queue # <<>>
    BY <1>9, <1>b DEF OpenCopy, Moving
  <2>2. CASE NextDir(d)
    BY <2>1, <2>2, GoesOn
  <2>3. CASE del' = [del EXCEPT ![d].step = "copy", ![d].from = target]
    <3> DEFINE r == [del[d] EXCEPT !.step = "copy", !.from = target]
    <3>1. del' = [del EXCEPT ![d] = r]
      BY <2>3 DEF TrashTypeOK
    <3>2. r \in [ step: TrashStep, queue: Queue, dest: Place \cup {NoPlace},
                  from: Inode \cup {NoFile}, tries: 0..MaxTries, wasLink: BOOLEAN ]
      BY <1>a DEF Moving
    <3>3. TrashTypeOK'
      BY <3>1, <3>2 DEF TrashTypeOK
    <3>4. QED
      BY <3>1, <3>3 DEF TrashTypeOK
  <2>4. QED
    BY <1>9, <2>2, <2>3 DEF OpenCopy, GiveUpMove
<1>10. CASE FillCopy(d)
  <2>1. del[d].queue # <<>>
    BY <1>10, <1>b DEF FillCopy, Moving
  <2>2. Goes(d, "sync") \/ NextDir(d) \/ del' = del
    BY <1>10 DEF FillCopy, GiveUpMove
  <2>3. "sync" \in TrashStep
    BY <1>a DEF Moving
  <2>4. QED
    BY <1>a, <2>1, <2>2, <2>3, GoesTo, GoesOn DEF TrashTypeOK
<1>11. CASE SyncCopy(d)
  <2>1. del[d].queue # <<>>
    BY <1>11, <1>b DEF SyncCopy, Moving
  <2>2. Goes(d, "unlink") \/ NextDir(d) \/ del' = del
    BY <1>11 DEF SyncCopy, GiveUpMove
  <2>3. "unlink" \in TrashStep
    BY <1>a DEF Moving
  <2>4. QED
    BY <1>a, <2>1, <2>2, <2>3, GoesTo, GoesOn DEF TrashTypeOK
<1>12. CASE Unlink(d)
  <2>1. del[d].queue # <<>>
    BY <1>12, <1>b DEF Unlink, Moving
  <2>2. Goes(d, "done") \/ NextDir(d) \/ del' = del
    BY <1>12 DEF Unlink, GiveUpMove
  <2>3. "done" \in TrashStep
    BY <1>a DEF Moving
  <2>4. QED
    BY <1>a, <2>1, <2>2, <2>3, GoesTo, GoesOn DEF TrashTypeOK
<1>13. QED
  BY <1>1, <1>2, <1>3, <1>4, <1>5, <1>6, <1>7, <1>8, <1>9, <1>10, <1>11, <1>12 DEF DeleterStep

(* What a step of a delete does to the files: it takes away or puts down only *)
(* its own placeholder or copy, or the file.                                *)
LEMMA DeleterFrame ==
  ASSUME FilesTypeOK, NEW d \in Deleters, DeleteOK(d), DeleterStep(d)
  PROVE  /\ UNCHANGED <<world, tree, temp>> /\ target' \in {target, NoFile}
         /\ FileTypeOK'
         /\ \A i \in Inode : i # CopyOf(d) =>
              data'[i] = data[i] /\ (i \in synced <=> i \in synced')
         /\ \A p \in Place :
              /\ trash'[p] = trash[p] \/ world.windows \/ trash[p] \in {CopyOf(d), NoFile}
              /\ trash'[p] \in {trash[p], NoFile, LeftOver, CopyOf(d), target}
<1> USE DEF FilesTypeOK, FileTypeOK, fileVars
<1>a. /\ CopyOf(d) \in Inode /\ CopyOf(d) \notin {NoFile, LeftOver} /\ "old" \in Text
      /\ target \in Inode \cup {NoFile}
      /\ del[d].from # NoFile => data[del[d].from].text \in Text /\ data[del[d].from].part \in Part
      /\ target # NoFile => data[target].text \in Text
  BY Inodes DEF Text, TrashTypeOK
<1>b. \A t \in Text, q \in Part : Holds(CopyOf(d), t, q) =>
        /\ data' \in [Inode -> [text: Text, part: Part]]
        /\ \A i \in Inode : i # CopyOf(d) => data'[i] = data[i]
  BY <1>a DEF Holds
<1>c. /\ del[d].step \in Holding \ {"rename"} =>
           /\ del[d].dest \in Place /\ trash[del[d].dest] = CopyOf(d)
           /\ del[d].step # "open" => del[d].from # NoFile
      /\ del[d].step \in {"reserve", "rename", "symlink"} => del[d].dest \in Place
      /\ del[d].step = "rename" /\ ~world.windows => trash[del[d].dest] = CopyOf(d)
      /\ del[d].step = "symlink" => del[d].from # NoFile
  BY DEF DeleteOK, Holding, Placed
<1> USE DEF Holding, Part
<1>1. CASE StartDelete(d)
  BY <1>1, <1>a, <1>b, <1>c DEF StartDelete
<1>2. CASE Ensure(d)
  BY <1>2, <1>a, <1>b, <1>c DEF Ensure
<1>3. CASE Pick(d)
  BY <1>3, <1>a, <1>b, <1>c DEF Pick
<1>4. CASE Reserve(d)
  BY <1>4, <1>a, <1>b, <1>c DEF Reserve
<1>5. CASE RenameToTrash(d)
  BY <1>5, <1>a, <1>b, <1>c DEF RenameToTrash
<1>6. CASE RenameFails(d)
  BY <1>6, <1>a, <1>b, <1>c DEF RenameFails, Discard, Removed
<1>7. CASE RenameCrosses(d)
  BY <1>7, <1>a, <1>b, <1>c DEF RenameCrosses, Discard, Removed
<1>8. CASE MakeSymlink(d)
  BY <1>8, <1>a, <1>b, <1>c DEF MakeSymlink, Flush
<1>9. CASE OpenCopy(d)
  BY <1>9, <1>a, <1>b, <1>c DEF OpenCopy, GiveUpMove, Discard, Removed
<1>10. CASE FillCopy(d)
  BY <1>10, <1>a, <1>b, <1>c DEF FillCopy, GiveUpMove, Discard, Removed
<1>11. CASE SyncCopy(d)
  BY <1>11, <1>a, <1>b, <1>c DEF SyncCopy, Flush, GiveUpMove, Discard, Removed
<1>12. CASE Unlink(d)
  BY <1>12, <1>a, <1>b, <1>c DEF Unlink, GiveUpMove, Discard, Removed
<1>13. QED
  BY <1>1, <1>2, <1>3, <1>4, <1>5, <1>6, <1>7, <1>8, <1>9, <1>10, <1>11, <1>12 DEF DeleterStep

(* A delete that holds no name in the trash. *)
LEMMA HoldsNothing ==
  ASSUME NEW d \in Deleters,
         del'[d].step \in {"failed", "ensure", "pick"},
         del'[d].step # "failed" => del'[d].queue # <<>>,
         \A e \in Deleters : del'[d].from # CopyOf(e),
         \A p \in Place : trash'[p] # CopyOf(d)
  PROVE  DeleteOK(d)'
BY DEF DeleteOK, Placed, Holding, Moving

(* What a step of a delete leaves of what is known of it. *)
LEMMA DeleterOwn ==
  ASSUME IInv, NEW d \in Deleters, DeleterStep(d)
  PROVE  DeleteOK(d)'
<1> DEFINE c == CopyOf(d)
<1>a. /\ DeleteOK(d) /\ FilesTypeOK /\ WritersOK /\ FirstOK
      /\ trash \in [Place -> Inode \cup {NoFile, LeftOver}] /\ data \in [Inode -> [text: Text, part: Part]]
      /\ del \in [Deleters -> [ step: TrashStep, queue: Queue, dest: Place \cup {NoPlace},
                     from: Inode \cup {NoFile}, tries: 0..MaxTries, wasLink: BOOLEAN ]]
      /\ target \in Inode \cup {NoFile}
  BY DEF IInv, DeletersOK, FilesTypeOK, FileTypeOK, TrashTypeOK
<1>b. /\ c \in Inode /\ c # NoFile /\ c # LeftOver /\ c # First /\ First \in Inode
      /\ \A e \in Deleters : target # CopyOf(e) /\ NoFile # CopyOf(e) /\ First # CopyOf(e)
  BY <1>a, Inodes DEF FirstOK
<1>c. world' = world /\ TrashTypeOK' /\ del'[d].from \in {NoFile, del[d].from, target}
      /\ \A i \in Inode : i # c => data'[i] = data[i]
  BY <1>a, DeleterFrame, DeleterRecord
<1>d. \A e \in Deleters : del'[d].from # CopyOf(e)
  BY <1>a, <1>b, <1>c DEF DeleteOK
<1>e. del[d].from # NoFile => data'[del[d].from] = data[del[d].from] /\ del[d].from # c
  BY <1>a, <1>c DEF DeleteOK
(* What was read under the file's name is whole, unless it was being filled. *)
<1>f. del[d].from # NoFile => Whole(del[d].from) \/ del[d].from \in OutInodes
  <2> SUFFICES ASSUME del[d].from # NoFile, del[d].from \notin OutInodes PROVE Whole(del[d].from)
    OBVIOUS
  <2>1. del[d].from = First \/ \E w \in Writers : del[d].from = TmpOf(w)
    BY <1>a, Inodes DEF DeleteOK
  <2>2. QED
    BY <1>a, <2>1 DEF FirstOK, Safe, WritersOK, TempOK, Seen
<1>g. /\ del[d].step \in Moving => del[d].queue # <<>>
      /\ del[d].step \in Placed => del[d].dest \in Place
      /\ del[d].step \in Placed \ {"rename", "done"} => ~world.windows
      /\ del[d].step \in Holding /\ ~world.windows => trash[del[d].dest] = c
      /\ \A p \in Place : trash[p] = c => p = del[d].dest /\ ~world.windows
                               /\ del[d].step \in Holding \cup {"done", "crashed"}
  BY <1>a DEF DeleteOK
<1> HIDE DEF c
<1>h. ASSUME NextDir(d) \/ Another(d), del[d].step \in Moving, \A p \in Place : trash'[p] # CopyOf(d)
      PROVE  DeleteOK(d)'
  <2>1. /\ del'[d].step \in {"failed", "ensure", "pick"}
        /\ del'[d].step # "failed" => del'[d].queue # <<>>
    <3>1. TrashTypeOK /\ del[d].queue # <<>>
      BY <1>a, <1>g, <1>h DEF FilesTypeOK
    <3>2. CASE NextDir(d)
      BY <3>1, <3>2, GoesOn
    <3>3. CASE Another(d)
      BY <3>1, <3>3, GoesBack
    <3>4. QED
      BY <1>h, <3>2, <3>3
  <2>2. QED
    BY <1>d, <1>h, <2>1, HoldsNothing
<1>i. ASSUME NextDir(d), Discard(d), del[d].step \in Holding, ~world.windows PROVE DeleteOK(d)'
  <2>1. \A p \in Place : trash'[p] # CopyOf(d)
    BY <1>a, <1>b, <1>g, <1>i DEF Discard, Removed, c, Holding, Placed
  <2>2. QED
    BY <1>h, <1>i, <2>1 DEF Holding, Moving
<1>1. CASE StartDelete(d)
  <2>1. trash' = trash /\ del'[d].step \in {"failed", "ensure"}
        /\ (del'[d].step # "failed" => del'[d].queue # <<>>) /\ del[d].step = "idle"
    <3>1. CASE Goes(d, "failed")
      BY <1>1, <1>a, <3>1 DEF StartDelete, Goes, fileVars
    <3>2. CASE ~Goes(d, "failed")
      <4>1. PICK q \in Queue \ {<<>>} :
              del' = [del EXCEPT ![d].step = "ensure", ![d].queue = q, ![d].wasLink = IsLink(target)]
        BY <1>1, <3>2 DEF StartDelete
      <4>2. QED
        BY <1>1, <1>a, <4>1 DEF StartDelete, fileVars
    <3>3. QED
      BY <3>1, <3>2
  <2>2. \A p \in Place : trash'[p] # CopyOf(d)
    BY <1>g, <2>1 DEF Holding, c
  <2>3. QED
    BY <1>d, <2>1, <2>2, HoldsNothing
<1>2. CASE Ensure(d)
  <2>1. trash' = trash /\ del[d].step = "ensure"
    BY <1>2 DEF Ensure, fileVars
  <2>2. \A p \in Place : trash'[p] # CopyOf(d)
    BY <1>g, <2>1 DEF Holding, c
  <2>3. CASE NextDir(d)
    BY <1>h, <2>1, <2>2, <2>3 DEF Moving
  <2>4. CASE Goes(d, "pick") \/ Goes(d, "failed")
    <3>1. del'[d].step \in {"pick", "failed"} /\ del'[d].queue = del[d].queue
      BY <1>a, <2>4 DEF Goes
    <3>2. del[d].queue # <<>>
      BY <1>g, <2>1 DEF Moving
    <3>3. \A p \in Place : trash'[p] # CopyOf(d)
      BY <2>2 DEF c
    <3>4. QED
      BY <1>d, <3>1, <3>2, <3>3, HoldsNothing
  <2>5. QED
    BY <1>2, <2>3, <2>4 DEF Ensure
<1>3. CASE Pick(d)
  <2>1. trash' = trash /\ del[d].step = "pick" /\ del[d].queue # <<>>
    BY <1>3, <1>g DEF Pick, fileVars, Moving
  <2>2. \A p \in Place : trash'[p] # CopyOf(d)
    BY <1>g, <2>1 DEF Holding, c
  <2>3. CASE NextDir(d)
    BY <1>h, <2>1, <2>2, <2>3 DEF Moving
  <2>4. CASE ~NextDir(d)
    <3>1. /\ del'[d].step = IF world.windows THEN "rename" ELSE "reserve"
          /\ del'[d].queue # <<>> /\ del'[d].dest \in Place
      <4>1. Head(del[d].queue) \in TrashDirs
        BY <1>a, <2>1, Queues
      <4>2. PICK n \in TrashNames :
              del' = [del EXCEPT ![d].dest = <<Head(del[d].queue), n>>,
                        ![d].step = IF world.windows THEN "rename" ELSE "reserve"]
        BY <1>3, <2>4 DEF Pick, Free
      <4>3. <<Head(del[d].queue), n>> \in Place
        BY <4>1 DEF Place
      <4>4. QED
        BY <1>a, <2>1, <4>2, <4>3
    <3>2. QED
      BY <1>c, <1>d, <2>2, <3>1 DEF DeleteOK, Placed, Holding
  <2>5. QED
    BY <2>3, <2>4
<1>4. CASE Reserve(d)
  <2>1. del[d].step = "reserve" /\ \A p \in Place : trash[p] # c
    BY <1>4, <1>g DEF Reserve, Holding
  <2>2. CASE Goes(d, "rename") /\ trash' = [trash EXCEPT ![del[d].dest] = CopyOf(d)]
    <3>1. del'[d] = [del[d] EXCEPT !.step = "rename"]
      BY <1>a, <2>2 DEF Goes
    <3>2. /\ del[d].queue # <<>> /\ del[d].dest \in Place /\ ~world.windows
          /\ \A p \in Place : trash'[p] = c <=> p = del[d].dest
      BY <1>a, <1>g, <2>1, <2>2 DEF Placed, Moving, c
    <3>3. QED
      BY <1>a, <1>c, <1>d, <3>1, <3>2 DEF DeleteOK, Placed, Holding, c
  <2>3. CASE UNCHANGED trash /\ (Another(d) \/ NextDir(d))
    BY <1>h, <2>1, <2>3 DEF Moving, c
  <2>4. QED
    BY <1>4, <2>2, <2>3 DEF Reserve
<1>5. CASE RenameToTrash(d)
  <2>1. /\ del[d].step = "rename" /\ target # NoFile
        /\ trash' = [trash EXCEPT ![del[d].dest] = target]
        /\ del'[d] = [del[d] EXCEPT !.step = "done", !.from = target]
    BY <1>5, <1>a DEF RenameToTrash
  <2>2. del[d].dest \in Place /\ \A p \in Place : trash'[p] # c
    BY <1>a, <1>b, <1>g, <2>1 DEF Placed, c
  <2>3. trash'[del[d].dest] = target
    BY <1>a, <2>1, <2>2
  <2>4. QED
    BY <1>a, <1>d, <2>1, <2>2, <2>3 DEF DeleteOK, Placed, Holding, Moving, c
<1>6. CASE RenameFails(d)
  <2>1. del[d].step = "rename"
    BY <1>6 DEF RenameFails
  <2>2. CASE world.windows
    <3>1. trash' = trash /\ (Another(d) \/ NextDir(d))
      BY <1>6, <2>2 DEF RenameFails
    <3>2. QED
      BY <1>g, <1>h, <2>1, <2>2, <3>1 DEF Moving, c
  <2>3. CASE ~world.windows
    BY <1>6, <1>i, <2>1, <2>3 DEF RenameFails, Holding
  <2>4. QED
    BY <2>2, <2>3
<1>7. CASE RenameCrosses(d)
  <2>1. del[d].step = "rename" /\ ~world.windows /\ target # NoFile
    BY <1>7 DEF RenameCrosses
  <2>2. CASE Discard(d) /\ NextDir(d)
    BY <1>i, <2>1, <2>2 DEF Holding
  <2>3. CASE /\ Discard(d) /\ IsLink(target)
             /\ del' = [del EXCEPT ![d].step = "symlink", ![d].from = target]
    <3>1. del'[d] = [del[d] EXCEPT !.step = "symlink", !.from = target] /\ target = First
      BY <1>a, <2>3 DEF IsLink
    <3>2. del[d].queue # <<>> /\ del[d].dest \in Place /\ \A p \in Place : trash'[p] # c
      BY <1>a, <1>b, <1>g, <2>1, <2>3 DEF Discard, Removed, Holding, Placed, Moving
    <3>3. QED
      BY <1>a, <1>c, <1>d, <2>1, <3>1, <3>2 DEF DeleteOK, Placed, Holding, c
  <2>4. CASE UNCHANGED trash /\ Goes(d, "open")
    <3>1. del'[d] = [del[d] EXCEPT !.step = "open"]
      BY <1>a, <2>4 DEF Goes
    <3>2. /\ del[d].queue # <<>> /\ del[d].dest \in Place /\ trash[del[d].dest] = c
          /\ \A p \in Place : trash[p] = c => p = del[d].dest
      BY <1>g, <2>1 DEF Holding, Placed, Moving
    <3>3. QED
      BY <1>a, <1>c, <1>d, <2>1, <2>4, <3>1, <3>2 DEF DeleteOK, Placed, Holding, c
  <2>5. QED
    BY <1>7, <2>2, <2>3, <2>4 DEF RenameCrosses
<1>8. CASE MakeSymlink(d)
  <2>1. /\ del[d].step = "symlink" /\ ~world.windows /\ del[d].dest \in Place
        /\ del[d].queue # <<>> /\ \A p \in Place : trash[p] # c
    BY <1>8, <1>g DEF MakeSymlink, Placed, Holding, Moving
  <2>2. CASE UNCHANGED trash /\ (Another(d) \/ NextDir(d))
    BY <1>h, <2>1, <2>2 DEF Moving, c
  <2>3. CASE /\ trash' = [trash EXCEPT ![del[d].dest] = CopyOf(d)]
             /\ Holds(CopyOf(d), data[del[d].from].text, "whole") /\ Flush(CopyOf(d))
             /\ Goes(d, "unlink")
    <3>1. del'[d] = [del[d] EXCEPT !.step = "unlink"] /\ c \in synced'
      BY <1>a, <2>3 DEF Goes, Flush, c
    <3>2. \A p \in Place : trash'[p] = c <=> p = del[d].dest
      BY <1>a, <2>1, <2>3 DEF c
    <3>3. del[d].from # NoFile /\ data'[c] = [text |-> data[del[d].from].text, part |-> "whole"]
      BY <1>a, <1>b, <2>1, <2>3 DEF DeleteOK, Holds, c
    <3>4. Copied(d)'
      BY <1>e, <3>1, <3>3 DEF Copied, Whole, c
    <3>5. QED
      BY <1>a, <1>c, <1>d, <2>1, <3>1, <3>2, <3>3, <3>4 DEF DeleteOK, Placed, Holding, c
  <2>4. QED
    BY <1>8, <2>2, <2>3 DEF MakeSymlink
<1>9. CASE OpenCopy(d)
  <2>1. /\ del[d].step = "open" /\ ~world.windows /\ del[d].dest \in Place
        /\ del[d].queue # <<>> /\ trash[del[d].dest] = c
    BY <1>9, <1>g DEF OpenCopy, Placed, Holding, Moving
  <2>2. CASE GiveUpMove(d)
    BY <1>i, <2>1, <2>2 DEF GiveUpMove, Holding
  <2>3. CASE ~GiveUpMove(d)
    <3>1. del'[d] = [del[d] EXCEPT !.step = "copy", !.from = target] /\ target # NoFile /\ trash' = trash
      BY <1>9, <1>a, <2>3 DEF OpenCopy
    <3>2. QED
      BY <1>a, <1>c, <1>d, <1>g, <2>1, <3>1 DEF DeleteOK, Placed, Holding, c
  <2>4. QED
    BY <2>2, <2>3
<1>10. CASE FillCopy(d)
  <2>1. /\ del[d].step = "copy" /\ ~world.windows /\ del[d].dest \in Place
        /\ del[d].queue # <<>> /\ trash[del[d].dest] = c /\ del[d].from # NoFile
    BY <1>10, <1>a, <1>g DEF FillCopy, DeleteOK, Placed, Holding, Moving
  <2>2. CASE GiveUpMove(d)
    BY <1>i, <2>1, <2>2 DEF GiveUpMove, Holding
  <2>3. CASE UNCHANGED <<trash, del>>
    BY <1>a, <1>c, <1>d, <1>g, <2>1, <2>3 DEF DeleteOK, Placed, Holding, c
  <2>4. CASE /\ Holds(CopyOf(d), data[del[d].from].text, data[del[d].from].part)
             /\ Goes(d, "sync") /\ UNCHANGED trash
    <3>1. del'[d] = [del[d] EXCEPT !.step = "sync"] /\ trash' = trash
      BY <1>a, <2>4 DEF Goes
    <3>2. data'[c] = [text |-> data[del[d].from].text, part |-> data[del[d].from].part]
      BY <1>a, <1>b, <2>4 DEF Holds, c
    <3>3. Copied(d)'
      BY <1>e, <1>f, <2>1, <3>1, <3>2 DEF Copied, Whole, c
    <3>4. QED
      BY <1>a, <1>c, <1>d, <1>g, <2>1, <3>1, <3>3 DEF DeleteOK, Placed, Holding, c
  <2>5. QED
    BY <1>10, <2>2, <2>3, <2>4 DEF FillCopy
<1>11. CASE SyncCopy(d)
  <2>1. /\ del[d].step = "sync" /\ ~world.windows /\ del[d].dest \in Place
        /\ del[d].queue # <<>> /\ trash[del[d].dest] = c /\ del[d].from # NoFile /\ Copied(d)
    BY <1>11, <1>a, <1>g DEF SyncCopy, DeleteOK, Placed, Holding, Moving
  <2>2. CASE GiveUpMove(d)
    BY <1>i, <2>1, <2>2 DEF GiveUpMove, Holding
  <2>3. CASE ~GiveUpMove(d)
    <3>1. del'[d] = [del[d] EXCEPT !.step = "unlink"] /\ UNCHANGED <<trash, data>> /\ c \in synced'
      BY <1>11, <1>a, <2>3 DEF SyncCopy, Goes, Flush, c
    <3>2. Copied(d)'
      BY <2>1, <3>1 DEF Copied, Whole
    <3>3. QED
      BY <1>a, <1>c, <1>d, <1>g, <2>1, <3>1, <3>2 DEF DeleteOK, Placed, Holding, c
  <2>4. QED
    BY <2>2, <2>3
<1>12. CASE Unlink(d)
  <2>1. /\ del[d].step = "unlink" /\ ~world.windows /\ del[d].dest \in Place
        /\ trash[del[d].dest] = c /\ del[d].from # NoFile /\ Copied(d) /\ c \in synced
    BY <1>12, <1>a, <1>g DEF Unlink, DeleteOK, Placed, Holding, c
  <2>2. CASE GiveUpMove(d)
    BY <1>i, <2>1, <2>2 DEF GiveUpMove, Holding
  <2>3. CASE ~GiveUpMove(d)
    <3>1. del'[d] = [del[d] EXCEPT !.step = "done"] /\ UNCHANGED <<trash, data, synced>>
      BY <1>12, <1>a, <2>3 DEF Unlink, Goes
    <3>2. Copied(d)'
      BY <2>1, <3>1 DEF Copied, Whole
    <3>3. QED
      BY <1>a, <1>c, <1>d, <1>g, <2>1, <3>1, <3>2 DEF DeleteOK, Placed, Holding, Moving, c
  <2>4. QED
    BY <2>2, <2>3
<1>13. QED
  BY <1>1, <1>2, <1>3, <1>4, <1>5, <1>6, <1>7, <1>8, <1>9, <1>10, <1>11, <1>12 DEF DeleterStep

(* A step of a delete keeps the invariant. *)
LEMMA DeleterInductive ==
  ASSUME IInv, NEW d \in Deleters, DeleterStep(d), UNCHANGED writeVars
  PROVE  IInv'
<1>1. FilesTypeOK /\ WalkOK /\ WritersOK /\ FirstOK /\ DeletersOK /\ DeleteOK(d)
  BY DEF IInv, DeletersOK
<1>2. /\ UNCHANGED <<world, tree, temp>> /\ target' \in {target, NoFile}
      /\ FileTypeOK'
      /\ \A i \in Inode : i # CopyOf(d) =>
           data'[i] = data[i] /\ (i \in synced <=> i \in synced')
      /\ \A p \in Place :
           /\ trash'[p] = trash[p] \/ world.windows \/ trash[p] \in {CopyOf(d), NoFile}
           /\ trash'[p] \in {trash[p], NoFile, LeftOver, CopyOf(d), target}
  BY <1>1, DeleterFrame
<1>3. /\ TrashTypeOK' /\ \A e \in Deleters : e # d => del'[e] = del[e]
      /\ del'[d].from \in {NoFile, del[d].from, target}
  BY <1>1, DeleterRecord
<1>4. UNCHANGED <<step, at, tries, madeBy>>
  BY DEF writeVars
<1>5. FilesTypeOK'
  BY <1>1, <1>2, <1>3, <1>4 DEF FilesTypeOK, WriteTypeOK
<1>6. WalkOK'
  BY <1>1, <1>2, <1>4, WalkKeeps
<1>7. \A i \in Inode : i # CopyOf(d) /\ Seen(i)' => Seen(i)
  <2> SUFFICES ASSUME NEW i \in Inode, i # CopyOf(d), Seen(i)' PROVE Seen(i)
    OBVIOUS
  <2>1. i # NoFile /\ i # LeftOver
    BY Inodes
  <2>2. CASE target' = i
    BY <1>2, <2>1, <2>2 DEF Seen
  <2>3. CASE \E p \in Place : trash'[p] = i
    BY <1>2, <2>1, <2>3 DEF Seen
  <2>4. CASE \E e \in Deleters : del'[e].from = i
    BY <1>3, <2>1, <2>4 DEF Seen
  <2>5. QED
    BY <2>2, <2>3, <2>4 DEF Seen
<1>8. WritersOK'
  <2>1. \A w \in Writers : /\ TmpOf(w) \in Inode /\ TmpOf(w) # CopyOf(d)
                           /\ OutOf(w) \in Inode /\ OutOf(w) # CopyOf(d)
    BY Inodes
  <2>2. \A w \in Writers : /\ Seen(TmpOf(w))' => Seen(TmpOf(w))
                           /\ Seen(OutOf(w))' => Seen(OutOf(w))
    BY <1>7, <2>1
  <2>3. \A w \in Writers : data'[TmpOf(w)] = data[TmpOf(w)] /\ data'[OutOf(w)] = data[OutOf(w)]
                           /\ (TmpOf(w) \in synced => TmpOf(w) \in synced')
                           /\ (OutOf(w) \in synced => OutOf(w) \in synced')
    BY <1>2, <2>1
  <2>4. QED
    BY <1>1, <1>2, <1>4, <2>2, <2>3, WritersKeep
<1>9. FirstOK'
  <2>1. First \in Inode /\ First # CopyOf(d) /\ \A e \in Deleters : CopyOf(e) # NoFile
    BY Inodes
  <2>2. QED
    BY <1>1, <1>2, <2>1 DEF FirstOK, Safe, Whole
<1>10. DeletersOK'
  <2> SUFFICES ASSUME NEW e \in Deleters PROVE DeleteOK(e)'
    BY DEF DeletersOK
  <2>1. CASE e = d
    BY <2>1, DeleterOwn
  <2>2. CASE e # d
    <3>1. /\ CopyOf(e) \in Inode /\ CopyOf(e) # CopyOf(d)
          /\ CopyOf(e) \notin {NoFile, LeftOver} /\ CopyOf(d) # NoFile
      BY <2>2, Inodes
    <3>2. \A p \in Place : trash'[p] = CopyOf(e) => trash[p] = CopyOf(e)
      BY <1>1, <1>2, <3>1 DEF FirstOK
    <3>3. CopyOf(e) \in synced => CopyOf(e) \in synced'
      BY <1>2, <3>1
    <3>4. del'[d].from # CopyOf(d) /\ \A c \in Deleters : del[e].from # CopyOf(c)
      BY <1>1, <1>3, <3>1 DEF FirstOK, DeletersOK, DeleteOK
    <3>5. \A p \in Place : \/ trash'[p] = trash[p] \/ world.windows
                            \/ trash[p] = CopyOf(d) \/ trash[p] = NoFile
      BY <1>2
    <3>6. /\ world' = world /\ del'[e] = del[e]
          /\ \A i \in Inode : i # CopyOf(d) => data'[i] = data[i]
      BY <1>2, <1>3, <2>2
    <3>7. QED
      BY <1>1, <2>2, <3>2, <3>3, <3>4, <3>5, <3>6, DeleteKeeps
  <2>3. QED
    BY <2>1, <2>2
<1>11. QED
  BY <1>5, <1>6, <1>8, <1>9, <1>10 DEF IInv
----------------------------------------------------------------------------
(* Calls that stop, and a loss of power. *)
LEMMA StopKeeps ==
  ASSUME IInv, FilesTypeOK', UNCHANGED <<world, tree, target, temp, trash, synced, at, madeBy>>,
         \A i \in Inode : /\ data'[i].text = data[i].text
                          /\ i \in synced => data'[i] = data[i],
         \A w \in Writers : step'[w] = step[w] \/ step'[w] = "crashed",
         \A d \in Deleters : \/ del'[d] = del[d]
                              \/ /\ del[d].step \in Moving
                                 /\ del'[d] = [del[d] EXCEPT !.step = "crashed"],
         \/ data' = data
         \/ /\ \A w \in Writers : step'[w] \notin Busy
            /\ \A d \in Deleters : del'[d].step \notin Moving
  PROVE  IInv'
<1>1. FilesTypeOK /\ WalkOK /\ WritersOK /\ FirstOK /\ DeletersOK
  BY DEF IInv
<1>2. WalkOK'
  BY <1>1, WalkKeeps
<1>3. \A d \in Deleters : del'[d].from = del[d].from /\ del'[d].dest = del[d].dest
                           /\ del'[d].queue = del[d].queue
  BY <1>1 DEF FilesTypeOK, TrashTypeOK
<1>4. \A i \in Inode : (Seen(i)' => Seen(i)) /\ (Safe(i) => Safe(i)')
  BY <1>3 DEF Seen, Safe, Whole
<1>5. WritersOK'
  <2> SUFFICES ASSUME NEW w \in Writers PROVE TempOK(w)' /\ OutOK(w)'
    BY DEF WritersOK
  <2>1. TempOK(w) /\ OutOK(w) /\ TmpOf(w) \in Inode /\ OutOf(w) \in Inode
    BY <1>1, Inodes DEF WritersOK
  <2>2. (Seen(TmpOf(w))' => Seen(TmpOf(w))) /\ (Seen(OutOf(w))' => Seen(OutOf(w)))
    BY <1>4, <2>1
  <2>3. (Safe(TmpOf(w)) => Safe(TmpOf(w))') /\ (Safe(OutOf(w)) => Safe(OutOf(w))')
    BY <1>4, <2>1
  <2>4. /\ step'[w] = "sync" => Whole(TmpOf(w))'
        /\ step'[w] = "syncOut" => Whole(OutOf(w))'
    BY <2>1 DEF TempOK, OutOK, Whole, Busy, Committing
  <2>5. data'[OutOf(w)].text = data[OutOf(w)].text
    BY <2>1
  <2>6. TempOK(w)'
    BY <2>1, <2>2, <2>3, <2>4 DEF TempOK, Early, Walking
  <2>7. OutOK(w)'
    BY <2>1, <2>2, <2>3, <2>4, <2>5 DEF OutOK, Committing
  <2>8. QED
    BY <2>6, <2>7
<1>6. FirstOK'
  BY <1>1, <1>4, Inodes DEF FirstOK
<1>7. DeletersOK'
  <2> SUFFICES ASSUME NEW d \in Deleters PROVE DeleteOK(d)'
    BY DEF DeletersOK
  <2>1. DeleteOK(d) /\ CopyOf(d) \in Inode
    BY <1>1, Inodes DEF DeletersOK
  <2>2. CASE del'[d] = [del[d] EXCEPT !.step = "crashed"] /\ del[d].step \in Moving
    <3>1. /\ del'[d].step = "crashed" /\ del'[d].from = del[d].from /\ del'[d].dest = del[d].dest
          /\ del'[d].queue = del[d].queue /\ del[d].step # "done"
      BY <1>1, <1>3, <2>2 DEF FilesTypeOK, TrashTypeOK, Moving
    <3>2. QED
      BY <2>1, <3>1 DEF DeleteOK, Placed, Holding, Moving
  <2>3. CASE del'[d] = del[d]
    <3>1. Copied(d) /\ CopyOf(d) \in synced /\ del[d].from # NoFile => Copied(d)'
      <4>1. del[d].from \in Inode \cup {NoFile}
        BY <1>1 DEF FilesTypeOK, TrashTypeOK
      <4>2. QED
        BY <2>1, <2>3, <4>1 DEF Copied, Whole
    <3>2. CASE data' = data
      BY <2>1, <2>3, <3>2 DEF DeleteOK, Copied, Whole
    <3>3. CASE del'[d].step \notin Moving
      BY <2>1, <2>3, <3>1, <3>3 DEF DeleteOK, Placed, Holding, Moving
    <3>4. QED
      BY <3>2, <3>3
  <2>4. QED
    BY <2>2, <2>3
<1>8. QED
  BY <1>2, <1>5, <1>6, <1>7 DEF IInv

(* The invariant holds at the start. *)
LEMMA Starts == Init => IInv
<1> SUFFICES ASSUME Init PROVE IInv
  OBVIOUS
<1> USE FileAssumption, WriteAssumption, TrashAssumption DEF Init, FileInit, WriteInit, TrashInit
<1>a. /\ First \in Inode /\ NoFile \notin Inode /\ First # NoFile
      /\ \A w \in Writers : {TmpOf(w), OutOf(w)} \cap {First, NoFile} = {}
      /\ \A d \in Deleters : CopyOf(d) \notin {First, NoFile}
  BY Inodes
<1>1. FilesTypeOK
  <2>1. world \in World /\ tree \in [1..Depth -> Kind]
    BY DEF World
  <2>2. FileTypeOK
    BY <1>a, <2>1 DEF FileTypeOK, Text, Part
  <2>3. WriteTypeOK
    BY DEF WriteTypeOK, WriteStep
  <2>4. TrashTypeOK
    BY DEF TrashTypeOK, TrashStep, Queue
  <2>5. QED
    BY <2>2, <2>3, <2>4 DEF FilesTypeOK
<1>2. WalkOK
  <2>1. ASSUME NEW w \in Writers PROVE Made(w) = 0
    <3>1. {i \in 1..Depth : w \in madeBy[i]} = {}
      OBVIOUS
    <3>2. QED
      BY <3>1, FS_EmptySet DEF Made
  <2>2. \A i \in 1..Depth : ~(i < 1)
    OBVIOUS
  <2>3. QED
    BY <2>1, <2>2 DEF WalkOK
<1>3. \A i : Seen(i) => i \in {First, NoFile}
  BY DEF Seen
<1>4. WritersOK
  BY <1>a, <1>3 DEF WritersOK, TempOK, OutOK, Early, Walking, Committing
<1>5. FirstOK
  BY <1>a DEF FirstOK, Safe, Whole
<1>6. DeletersOK
  BY <1>a DEF DeletersOK, DeleteOK, Moving, Placed, Holding
<1>7. QED
  BY <1>1, <1>2, <1>4, <1>5, <1>6 DEF IInv

(* Every step keeps it. *)
LEMMA Continues == IInv /\ [Next]_vars => IInv'
<1> SUFFICES ASSUME IInv, [Next]_vars PROVE IInv'
  OBVIOUS
<1>a. FilesTypeOK /\ WalkOK /\ WritersOK /\ FirstOK /\ DeletersOK
  BY DEF IInv
<1>b. /\ step \in [Writers -> WriteStep] /\ "crashed" \in WriteStep /\ "crashed" \in TrashStep
      /\ "crashed" \notin Busy /\ "crashed" \notin Moving
      /\ del \in [Deleters -> [ step: TrashStep, queue: Queue, dest: Place \cup {NoPlace},
                     from: Inode \cup {NoFile}, tries: 0..MaxTries, wasLink: BOOLEAN ]]
  BY <1>a DEF FilesTypeOK, WriteTypeOK, TrashTypeOK, WriteStep, TrashStep, Busy, Moving, Walking,
     Committing
<1>1. CASE \E w \in Writers : WriterStep(w) /\ UNCHANGED del
  BY <1>1, WriterInductive
<1>2. CASE \E d \in Deleters : DeleterStep(d) /\ UNCHANGED writeVars
  BY <1>2, DeleterInductive
<1>3. CASE Elsewhere /\ UNCHANGED <<writeVars, del>>
  <2>1. /\ UNCHANGED <<world, target, temp, trash, data, synced, step, at, tries, madeBy, del>>
        /\ tree' \in [1..Depth -> Kind]
        /\ \A i \in 1..Depth : tree[i] = "dir" => tree'[i] = "dir"
    BY <1>3, <1>a DEF Elsewhere, writeVars, FilesTypeOK, FileTypeOK
  <2>2. FilesTypeOK'
    BY <1>a, <2>1 DEF FilesTypeOK, FileTypeOK, WriteTypeOK, TrashTypeOK
  <2>3. WalkOK'
    BY <1>a, <2>1, WalkKeeps
  <2>4. WritersOK' /\ FirstOK' /\ DeletersOK'
    BY <1>a, <2>1 DEF WritersOK, TempOK, OutOK, FirstOK, DeletersOK, DeleteOK, Copied, Safe, Seen, Whole
  <2>5. QED
    BY <2>2, <2>3, <2>4 DEF IInv
<1>4. CASE \E w \in Writers : StopWriter(w) /\ UNCHANGED del
  <2>1. PICK w \in Writers : StopWriter(w) /\ UNCHANGED del
    BY <1>4
  <2>2. UNCHANGED <<world, tree, target, temp, trash, data, synced, at, tries, madeBy, del>>
        /\ step' = [step EXCEPT ![w] = "crashed"]
    BY <2>1 DEF StopWriter, fileVars, To
  <2>3. FilesTypeOK'
    <3>1. step' \in [Writers -> WriteStep]
      BY <1>b, <2>2
    <3>2. QED
      BY <1>a, <2>2, <3>1 DEF FilesTypeOK, FileTypeOK, WriteTypeOK, TrashTypeOK
  <2>4. \A v \in Writers : step'[v] = step[v] \/ step'[v] = "crashed"
    BY <1>b, <2>2
  <2>5. QED
    BY <2>2, <2>3, <2>4, StopKeeps
<1>5. CASE \E d \in Deleters : StopDeleter(d) /\ UNCHANGED writeVars
  <2>1. PICK d \in Deleters : StopDeleter(d) /\ UNCHANGED writeVars
    BY <1>5
  <2>2. UNCHANGED <<world, tree, target, temp, trash, data, synced, step, at, tries, madeBy>>
        /\ del[d].step \in Moving /\ Goes(d, "crashed")
    BY <2>1 DEF StopDeleter, fileVars, writeVars
  <2>3. /\ TrashTypeOK' /\ del'[d] = [del[d] EXCEPT !.step = "crashed"]
        /\ \A e \in Deleters : e # d => del'[e] = del[e]
    BY <1>a, <1>b, <2>2, GoesTo DEF FilesTypeOK
  <2>4. FilesTypeOK'
    BY <1>a, <2>2, <2>3 DEF FilesTypeOK, FileTypeOK, WriteTypeOK
  <2>5. QED
    BY <2>2, <2>3, <2>4, StopKeeps
<1>6. CASE PowerLoss
  <2>1. /\ UNCHANGED <<world, tree, target, temp, trash, synced, at, tries, madeBy>>
        /\ step' = [w \in Writers |-> IF step[w] \in Busy THEN "crashed" ELSE step[w]]
        /\ del' = [d \in Deleters |-> IF del[d].step \in Moving
                                     THEN [del[d] EXCEPT !.step = "crashed"] ELSE del[d]]
    BY <1>6 DEF PowerLoss, LoseUnsynced, StopWriters, StopDeleters
  <2>2. PICK lost \in SUBSET {i \in Inode \ synced : data[i].part # "empty"} :
          data' = [i \in Inode |-> IF i \in lost THEN [data[i] EXCEPT !.part = "empty"] ELSE data[i]]
    BY <1>6 DEF PowerLoss, LoseUnsynced
  <2>3. data' \in [Inode -> [text: Text, part: Part]]
    BY <1>a, <2>2 DEF FilesTypeOK, FileTypeOK, Part
  <2>4. step' \in [Writers -> WriteStep] /\ TrashTypeOK'
    BY <1>b, <2>1 DEF TrashTypeOK
  <2>5. FilesTypeOK'
    BY <1>a, <2>1, <2>3, <2>4 DEF FilesTypeOK, FileTypeOK, WriteTypeOK
  <2>6. /\ \A w \in Writers : step'[w] = step[w] \/ step'[w] = "crashed"
        /\ \A w \in Writers : step'[w] \notin Busy
    BY <1>b, <2>1
  <2>7. /\ \A d \in Deleters : \/ del'[d] = del[d]
                               \/ /\ del[d].step \in Moving
                                  /\ del'[d] = [del[d] EXCEPT !.step = "crashed"]
        /\ \A d \in Deleters : del'[d].step \notin Moving
    BY <1>b, <2>1
  <2>8. UNCHANGED <<world, tree, target, temp, trash, synced, at, madeBy>>
    BY <2>1
  <2>9. \A i \in Inode : /\ data'[i].text = data[i].text
                         /\ i \in synced => data'[i] = data[i]
    BY <1>a, <2>2 DEF FilesTypeOK, FileTypeOK
  <2>10. \/ data' = data
         \/ /\ \A w \in Writers : step'[w] \notin Busy
            /\ \A d \in Deleters : del'[d].step \notin Moving
    BY <2>6, <2>7
  <2>11. QED
    BY ONLY IInv, <2>5, <2>6, <2>7, <2>8, <2>9, <2>10, StopKeeps
<1>7. CASE UNCHANGED vars
  <2>1. UNCHANGED <<world, tree, target, temp, trash, data, synced, step, at, tries, madeBy, del>>
    BY <1>7 DEF vars, fileVars, writeVars
  <2>2. FilesTypeOK'
    BY <1>a, <2>1 DEF FilesTypeOK, FileTypeOK, WriteTypeOK, TrashTypeOK
  <2>3. /\ \A i \in Inode : /\ data'[i].text = data[i].text
                          /\ i \in synced => data'[i] = data[i]
        /\ \A w \in Writers : step'[w] = step[w]
        /\ \A d \in Deleters : del'[d] = del[d]
    BY <2>1
  <2>4. QED
    BY <2>1, <2>2, <2>3, StopKeeps
<1>8. QED
  BY <1>1, <1>2, <1>3, <1>4, <1>5, <1>6, <1>7 DEF Next, StopCall

(* In every behaviour, what is known of the files holds in every state. *)
THEOREM Invariance == Spec => []IInv
<1>1. QED
  BY Starts, Continues, PTL DEF Spec
----------------------------------------------------------------------------
(* The state has its types in every behaviour. *)
THEOREM Types == Spec => []FilesTypeOK
<1>1. IInv => FilesTypeOK
  BY DEF IInv
<1>2. QED
  BY <1>1, Invariance, PTL

(* However many calls walk and make the way at once, each makes at most      *)
(* MaxNewDirs directories and passes only where all of the way are           *)
(* directories (walkDirNoSymlinkAbs).                                        *)
THEOREM Walks == Spec => []WalkIsBounded
<1>1. IInv => WalkIsBounded
  BY DEF IInv, WalkOK, WalkIsBounded
<1>2. QED
  BY <1>1, Invariance, PTL

(* Whoever opens the file finds a whole text, after any crash or loss of     *)
(* power, but for the call that fills it without hard links                  *)
(* (WriteFileAtomicBytes, commitAtomicTempFile).                             *)
THEOREM WholeText == Spec => []TargetWhole
<1>1. IInv => TargetWhole
  <2> SUFFICES ASSUME IInv, target # NoFile PROVE TargetWhole
    BY DEF TargetWhole
  <2>1. WritersOK /\ FirstOK /\ target \in Inode
    BY DEF IInv, FilesTypeOK, FileTypeOK
  <2>2. CASE target = First
    BY <2>1, <2>2 DEF FirstOK, Safe, TargetWhole
  <2>3. CASE \E w \in Writers : target = TmpOf(w)
    BY <2>1, <2>3 DEF WritersOK, TempOK, Seen, Safe, TargetWhole
  <2>4. CASE target \in OutInodes
    <3>1. PICK w \in Writers : target = OutOf(w)
      BY <2>4, Inodes
    <3>2. QED
      BY <2>1, <3>1 DEF WritersOK, OutOK, Safe, TargetWhole
  <2>5. QED
    BY <2>1, <2>2, <2>3, <2>4, Inodes DEF FirstOK
<1>2. QED
  BY <1>1, Invariance, PTL

(* What a delete reported as trashed stays where it said, whole and safe     *)
(* (DeleteFile, moveToTrash).                                                *)
THEOREM DeletedStays == Spec => []DeletedIsKept
<1>1. IInv => DeletedIsKept
  <2> SUFFICES ASSUME IInv, NEW d \in Deleters, del[d].step = "done", ~world.windows
               PROVE  LET i == trash[del[d].dest] IN
                      \/ i = del[d].from
                      \/ /\ i = CopyOf(d) /\ CopyOf(d) \in synced
                         /\ data[i].text = data[del[d].from].text
                         /\ Whole(i) \/ del[d].from \in OutInodes
    BY DEF DeletedIsKept
  <2>1. DeleteOK(d)
    BY DEF IInv, DeletersOK
  <2>2. QED
    BY <2>1 DEF DeleteOK, Copied
<1>2. QED
  BY <1>1, Invariance, PTL

(* Calls that returned have tried to remove what they put beside the file    *)
(* and into the trash (cleanup in WriteFileAtomicBytes, os.Remove in         *)
(* moveToTrash): only what could not be removed is left.                     *)
THEOREM LeavesNothing == Spec => []NoDebris
<1>1. IInv => NoDebris
  <2> SUFFICES ASSUME IInv PROVE NoDebris
    OBVIOUS
  <2>1. \A w \in Writers : step[w] \in {"done", "failed"} => temp[w] # TmpOf(w)
    BY DEF IInv, WritersOK, TempOK
  <2>2. ASSUME NEW d \in Deleters, NEW p \in Place,
               del[d].step \in {"done", "failed"}, trash[p] = CopyOf(d)
        PROVE  del[d].step = "done" /\ p = del[d].dest
    <3>1. DeleteOK(d)
      BY DEF IInv, DeletersOK
    <3>2. QED
      BY <2>2, <3>1 DEF DeleteOK, Holding
  <2>3. QED
    BY <2>1, <2>2 DEF NoDebris
<1>2. QED
  BY <1>1, Invariance, PTL

(* On Unix no call without overwrite takes the name from a file that is      *)
(* there; without hard links it may remove it (commitAtomicTempFile).        *)
THEOREM CreatesNew == Spec => CreatesOnlyNew
<1> DEFINE Step ==
      \A w \in Writers \ world.replace :
        step'[w] # step[w] /\ target # NoFile /\ target' # target
          => world.windows \/ (~world.links /\ target' = NoFile /\ step'[w] = "failed")
<1>1. IInv /\ [Next]_vars => [Step]_vars
  <2> SUFFICES ASSUME IInv, Next, NEW w \in Writers \ world.replace,
                      step'[w] # step[w], target # NoFile, target' # target, ~world.windows
               PROVE  ~world.links /\ target' = NoFile /\ step'[w] = "failed"
    OBVIOUS
  <2>1. PICK v \in Writers : WriterStep(v)
    BY DEF Next, StopCall, StopWriter, StopDeleter, PowerLoss, LoseUnsynced, Elsewhere, writeVars,
       fileVars, DeleterStep
  <2>2. v = w
    BY <2>1, WriterFrame DEF IInv
  <2>3. OutOK(w) /\ step \in [Writers -> WriteStep]
    BY DEF IInv, WritersOK, FilesTypeOK, WriteTypeOK
  <2>4. CopyOut(w) \/ SyncOut(w)
    BY <2>1, <2>2 DEF WriterStep, Begin, Look, Mkdir, WalkFreely, Check, CreateTemp, WriteTemp,
       SyncTemp, CommitRename, CommitLink, CommitCreate, CommitWindows, RemoveTemp, Cleanup, Removed, fileVars
  <2>5. QED
    BY <2>3, <2>4 DEF CopyOut, SyncOut, GiveUpCopy, Cleanup, Removed, GoneWrong, To, OutOK, Committing
<1>2. QED
  BY <1>1, Invariance, PTL DEF Spec, CreatesOnlyNew

(* No step changes a file that counts as kept, or makes it lose its data.    *)
LEMMA KeptStays ==
  ASSUME IInv, [Next]_vars, NEW i \in synced, Whole(i),
         \/ i = target
         \/ i \notin Unfinished /\ \E p \in Place : trash[p] = i
  PROVE  i \in synced' /\ data'[i] = data[i] /\ (i \notin Unfinished => i \notin Unfinished')
<1>a. /\ FilesTypeOK /\ WritersOK /\ FirstOK /\ DeletersOK /\ i \in Inode /\ Seen(i)
      /\ i \notin Unfinished
  BY DEF IInv, FilesTypeOK, FileTypeOK, Seen, FirstOK, Unfinished
<1>b. ASSUME \A d \in Deleters : del[d].step = "done" => del'[d].step = "done"
      PROVE  i \notin Unfinished'
  BY <1>a, <1>b DEF Unfinished
<1>1. CASE \E w \in Writers : WriterStep(w) /\ UNCHANGED del
  <2>1. PICK w \in Writers : WriterStep(w) /\ UNCHANGED del
    BY <1>1
  <2>2. synced \subseteq synced' /\ (i \notin {TmpOf(w), OutOf(w)} => data'[i] = data[i])
    BY <1>a, <2>1, WriterFrame
  <2>3. ASSUME i \in {TmpOf(w), OutOf(w)} PROVE data'[i] = data[i]
    <3>1. step[w] \notin Early /\ TmpOf(w) # OutOf(w)
          /\ TmpOf(w) \in Inode /\ OutOf(w) \in Inode
      BY <1>a, <2>3, Inodes DEF WritersOK, TempOK
    <3>2. CASE CopyOut(w)
      BY <1>a, <2>3, <3>1, <3>2 DEF CopyOut, More, Holds, GiveUpCopy, Cleanup, Removed, Whole, FilesTypeOK, FileTypeOK
    <3>3. CASE ~CopyOut(w)
      BY <2>1, <3>1, <3>3 DEF WriterStep, Early, Walking, Begin, Look, Mkdir, WalkFreely, Check,
         CreateTemp, WriteTemp, SyncTemp, CommitRename, CommitLink, CommitCreate, CommitWindows,
         SyncOut, RemoveTemp, GiveUpCopy, Cleanup, Removed, Rename, fileVars
    <3>4. QED
      BY <3>2, <3>3
  <2>4. QED
    BY <1>b, <2>1, <2>2, <2>3
<1>2. CASE \E d \in Deleters : DeleterStep(d) /\ UNCHANGED writeVars
  <2>1. PICK d \in Deleters : DeleterStep(d)
    BY <1>2
  <2>2. del[d].step # "done"
    BY <2>1 DEF DeleterStep, StartDelete, Ensure, Pick, Reserve, RenameToTrash, RenameFails,
       RenameCrosses, MakeSymlink, OpenCopy, FillCopy, SyncCopy, Unlink
  <2>3. i # CopyOf(d)
    BY <1>a, <2>2 DEF Unfinished
  <2>4. i \in synced' /\ data'[i] = data[i]
    BY <1>a, <2>1, <2>3, DeleterFrame DEF DeletersOK
  <2>5. \A e \in Deleters : e # d => del'[e] = del[e]
    BY <1>a, <2>1, DeleterRecord DEF DeletersOK
  <2>6. QED
    BY <1>b, <2>2, <2>4, <2>5
<1>3. CASE PowerLoss
  <2>1. /\ \A d \in Deleters : del[d].step = "done" => del'[d].step = "done"
        /\ synced' = synced
    BY <1>3 DEF PowerLoss, StopDeleters, LoseUnsynced, Moving
  <2>2. data'[i] = data[i]
    BY <1>3, <1>a DEF PowerLoss, LoseUnsynced
  <2>3. QED
    BY <1>b, <2>1, <2>2
<1>4. CASE UNCHANGED <<data, synced>> /\ \A d \in Deleters : del[d].step = "done" => del'[d].step = "done"
  BY <1>b, <1>4
<1>5. CASE (Elsewhere /\ UNCHANGED del) \/ StopCall \/ UNCHANGED vars
  <2>1. UNCHANGED <<data, synced>>
    BY <1>5 DEF Elsewhere, StopCall, StopWriter, StopDeleter, vars, fileVars
  <2>2. CASE UNCHANGED del
    BY <1>4, <2>1, <2>2
  <2>3. CASE \E d \in Deleters : StopDeleter(d)
    BY <1>a, <1>4, <2>1, <2>3 DEF StopDeleter, Goes, Moving, FilesTypeOK, TrashTypeOK
  <2>4. QED
    BY <1>5, <2>2, <2>3 DEF StopCall, vars
<1>6. QED
  BY <1>1, <1>2, <1>3, <1>5 DEF Next

(* The only ways for a text to be lost on Unix: overwriting it, a failed     *)
(* creation without hard links, and a deleter that copied across devices and *)
(* removed what another had written to the name meanwhile, or what it had    *)
(* copied while it was being filled (commitAtomicTempFile, moveToTrash).     *)
THEOREM NoneLost == Spec => NothingLost
<1> DEFINE Step ==
      \A t \in Text : Kept(t) /\ ~Kept(t)'
        => world.windows \/ Overwrites \/ FailsToCreate \/ DeletesAnother
<1>1. IInv /\ [Next]_vars => [Step]_vars
  <2> SUFFICES ASSUME IInv, [Next]_vars, NEW t \in Text, Kept(t),
                      ~world.windows, ~Overwrites, ~FailsToCreate, ~DeletesAnother
               PROVE  Kept(t)'
    OBVIOUS
  <2>1. PICK i \in synced : /\ data[i] = [text |-> t, part |-> "whole"]
                           /\ \/ i = target
                              \/ i \notin Unfinished /\ \E p \in Place : trash[p] = i
    BY DEF Kept
  <2>2. Whole(i)
    BY <2>1 DEF Whole
  <2>3. i \in synced' /\ data'[i] = data[i] /\ (i \notin Unfinished => i \notin Unfinished')
    BY <2>1, <2>2, KeptStays
  <2>4. /\ FilesTypeOK /\ WritersOK /\ FirstOK /\ DeletersOK /\ i \in Inode /\ i # NoFile
        /\ trash \in [Place -> Inode \cup {NoFile, LeftOver}] /\ i \notin Unfinished
    BY <2>1, Inodes DEF IInv, FilesTypeOK, FileTypeOK, FirstOK, Unfinished
  <2>5. i \notin Unfinished'
    BY <2>3, <2>4
  <2>6. ASSUME i = target', i = target PROVE Kept(t)'
    BY <2>1, <2>3, <2>6 DEF Kept
  <2>7. ASSUME \E p \in Place : trash'[p] = i PROVE Kept(t)'
    BY <2>1, <2>3, <2>5, <2>7 DEF Kept
  <2>8. CASE \E w \in Writers : WriterStep(w) /\ UNCHANGED del
    <3>1. PICK w \in Writers : WriterStep(w) /\ UNCHANGED del
      BY <2>8
    <3>2. trash' = trash
      BY <2>4, <3>1, WriterFrame
    <3>3. i = target => target' = target
      <4> SUFFICES ASSUME i = target, target' # target PROVE FALSE
        OBVIOUS
      <4>1. OutOK(w) /\ step \in [Writers -> WriteStep]
        BY <2>4 DEF WritersOK, FilesTypeOK, WriteTypeOK
      <4>2. CommitRename(w) \/ CopyOut(w) \/ SyncOut(w)
        BY <2>4, <3>1 DEF WriterStep, Begin, Look, Mkdir, WalkFreely, Check, CreateTemp, WriteTemp,
           SyncTemp, CommitLink, CommitCreate, CommitWindows, RemoveTemp, Cleanup, Removed, fileVars
      <4>3. CASE CommitRename(w)
        BY <4>3 DEF CommitRename, Overwrites
      <4>4. CASE CopyOut(w) \/ SyncOut(w)
        BY <4>1, <4>4 DEF CopyOut, SyncOut, GiveUpCopy, Cleanup, Removed, GoneWrong, To, FailsToCreate, Committing
      <4>5. QED
        BY <4>2, <4>3, <4>4
    <3>4. QED
      BY <2>1, <2>6, <2>7, <3>2, <3>3
  <2>9. CASE \E d \in Deleters : DeleterStep(d) /\ UNCHANGED writeVars
    <3>1. PICK d \in Deleters : DeleterStep(d)
      BY <2>9
    <3>2. /\ target' \in {target, NoFile}
          /\ \A p \in Place : trash'[p] = trash[p] \/ trash[p] \in {CopyOf(d), NoFile}
      BY <2>4, <3>1, DeleterFrame DEF DeletersOK
    <3>3. DeleteOK(d) /\ del[d].step # "done"
      BY <2>4, <3>1 DEF DeletersOK, DeleterStep, StartDelete, Ensure, Pick, Reserve, RenameToTrash,
         RenameFails, RenameCrosses, MakeSymlink, OpenCopy, FillCopy, SyncCopy, Unlink
    <3>4. i # CopyOf(d)
      BY <2>4, <3>3 DEF Unfinished
    <3>5. CASE \E p \in Place : trash[p] = i
      BY <2>4, <2>7, <3>2, <3>4, <3>5
    <3>6. CASE i = target /\ target' = target
      BY <2>6, <3>6
    <3>7. CASE i = target /\ target' # target
      <4>1. RenameToTrash(d) \/ Unlink(d)
        BY <3>1, <3>7 DEF DeleterStep, StartDelete, Ensure, Pick, Reserve, RenameFails,
           RenameCrosses, MakeSymlink, OpenCopy, FillCopy, SyncCopy, GiveUpMove, fileVars
      <4>2. CASE RenameToTrash(d)
        <5>1. del[d].dest \in Place /\ trash' = [trash EXCEPT ![del[d].dest] = i]
          BY <3>3, <3>7, <4>2 DEF RenameToTrash, DeleteOK, Placed
        <5>2. QED
          BY <2>4, <2>7, <5>1
      <4>3. CASE Unlink(d)
        <5>1. del[d].step = "unlink" /\ UNCHANGED <<trash, data, synced>> /\ Goes(d, "done")
          BY <3>7, <4>3 DEF Unlink, GiveUpMove
        <5>2. /\ Copied(d) /\ CopyOf(d) \in synced /\ del[d].dest \in Place
              /\ trash[del[d].dest] = CopyOf(d)
          BY <3>3, <5>1 DEF DeleteOK, Placed, Holding
        <5>3. target = del[d].from /\ data[CopyOf(d)].part = "whole"
          BY <3>7, <5>1 DEF DeletesAnother
        <5>4. data[CopyOf(d)] = [text |-> t, part |-> "whole"]
          <6>1. data[CopyOf(d)] \in [text: Text, part: Part]
            BY <2>4, Inodes DEF FilesTypeOK, FileTypeOK
          <6>2. data[CopyOf(d)].text = t
            BY <2>1, <3>7, <5>2, <5>3 DEF Copied
          <6>3. QED
            BY <5>3, <6>1, <6>2
        <5>5. CopyOf(d) \notin Unfinished'
          <6>1. del'[d].step = "done" /\ \A e \in Deleters : CopyOf(e) = CopyOf(d) => e = d
            BY <2>4, <5>1, Inodes DEF Goes, FilesTypeOK, TrashTypeOK
          <6>2. QED
            BY <6>1 DEF Unfinished
        <5>6. QED
          BY <5>1, <5>2, <5>4, <5>5 DEF Kept
      <4>4. QED
        BY <4>1, <4>2, <4>3
    <3>8. QED
      BY <2>1, <3>5, <3>6, <3>7
  <2>10. CASE UNCHANGED <<target, trash>>
    BY <2>1, <2>6, <2>7, <2>10
  <2>11. QED
    BY <2>8, <2>9, <2>10 DEF Next, Elsewhere, StopCall, StopWriter, StopDeleter, PowerLoss,
       LoseUnsynced, vars, fileVars
<1>2. QED
  BY <1>1, Invariance, PTL DEF Spec, NothingLost
============================================================================
