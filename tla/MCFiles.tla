------------------------------ MODULE MCFiles ------------------------------
(* Two writers, with and without overwrite, and a deleter, in three sorts   *)
(* of world: the way to the file is made while others make it; writers      *)
(* race on a file system with or without hard links or on Windows; trash    *)
(* directories are on this device or on another.                            *)
EXTENDS Files, TLC

Straight == [i \in 1..Depth |-> "dir"]
Ordinary == [ calls |-> Writers, windows |-> FALSE, links |-> TRUE, symlink |-> FALSE,
              noSymlinks |-> FALSE, replace |-> {}, parents |-> {}, crossing |-> {},
              dirs |-> Straight ]

Ways == {t \in [1..Depth -> Kind] :
           \A i, j \in 1..Depth : i < j /\ ~Leads(t[i]) => t[j] = "absent"}

WorldsOfWalks ==
  {[Ordinary EXCEPT !.noSymlinks = b, !.parents = p, !.dirs = t] :
     b \in BOOLEAN, p \in SUBSET Writers, t \in Ways}
WorldsOfWrites ==
  {[Ordinary EXCEPT !.calls = c, !.windows = b, !.links = l, !.replace = r] :
     c \in {Writers \cup {d} : d \in Deleters}, b \in BOOLEAN, l \in BOOLEAN,
     r \in SUBSET Writers}
  \cup {[Ordinary EXCEPT !.calls = {w, d}, !.links = l, !.crossing = TrashDirs] :
           w \in Writers, d \in Deleters, l \in BOOLEAN}
WorldsOfDeletes ==
  {[Ordinary EXCEPT !.calls = c, !.symlink = s[1], !.noSymlinks = s[2], !.replace = Writers,
                    !.crossing = x] :
     c \in {Deleters \cup {w} : w \in Writers}, x \in SUBSET TrashDirs,
     s \in {<<FALSE, FALSE>>, <<TRUE, FALSE>>, <<TRUE, TRUE>>}}

MCWorlds == WorldsOfWalks \cup WorldsOfWrites \cup WorldsOfDeletes
WindowsWorlds == {w \in WorldsOfWrites : w.windows}

MCSymmetry == Permutations(Writers) \cup Permutations(Deleters)
===========================================================================
