------------------------------- MODULE DirTree -------------------------------
(***************************************************************************)
(* What the directory callbacks promise their caller: a tree of named      *)
(* directories and files in which each call adds one entry, removes one    *)
(* entry, or changes nothing.  Blocks, bitmaps and counters do not exist   *)
(* here, nor does the order of entries in a directory.                     *)
(***************************************************************************)
EXTENDS Naturals

CONSTANTS Inodes, Names, Root

VARIABLES
    tree,   \* the entries: [parent, name, ino, mode]
    ret     \* what the last call returned

Used == {Root} \cup {e.ino : e \in tree}

Directories == {Root} \cup {e.ino : e \in {f \in tree : f.mode = "dir"}}

EntriesOf(d) == {e \in tree : e.parent = d}

Init == tree = {} /\ ret = "none"

\* mkdir ("dir") and create ("reg").
Add(p, nm, m) ==
    /\ p \in Directories
    /\ \A e \in EntriesOf(p) : e.name # nm
    /\ \E i \in Inodes \ Used :
          tree' = tree \cup {[parent |-> p, name |-> nm, ino |-> i, mode |-> m]}
    /\ ret' = "ok"

\* rmdir and unlink.
Remove(e) ==
    /\ EntriesOf(e.ino) = {}
    /\ tree' = tree \ {e}
    /\ ret' = "ok"

RefuseRmdir(e) ==
    /\ EntriesOf(e.ino) # {}
    /\ ret' = "ENOTEMPTY"
    /\ UNCHANGED tree

\* No space, a driver that died, or a new mount: nothing is seen to happen.
NoChange == ret' \in {"ENOSPC", "none"} /\ UNCHANGED tree

Next ==
    \/ \E p \in Inodes, nm \in Names, m \in {"dir", "reg"} : Add(p, nm, m)
    \/ \E e \in tree : Remove(e) \/ RefuseRmdir(e)
    \/ NoChange

Spec == Init /\ [][Next]_<<tree, ret>>

=============================================================================
