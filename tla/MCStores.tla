------------------------------ MODULE MCStores ------------------------------
(***************************************************************************)
(* Stores on a small image.                                                *)
(***************************************************************************)
EXTENDS Stores, TLC

NameSymmetry == Permutations(Names)

\* Bounds of the run "crash" beside MaxKills.  Without a kill a remount changes
\* nothing but how far searches go, which the runs of Namespace cover; and what
\* follows a refused rmdir follows the state before it as well.
CONSTANTS MaxDirectories, MaxSubEntries, MaxLeaked

SmallImage ==
    /\ \A i \in Inodes \ {ROOT_INODE} : finished.num_dir_entry[i] <= MaxSubEntries
    /\ Cardinality({i \in InodeBits(finished) : finished.mode[i] = "dir"}) <= MaxDirectories
    /\ ret # "ENOTEMPTY"
    /\ kills = 0 => numOfDataBlocks = NumBlocks
    /\ pending = <<>> =>
          Cardinality(Seen!LeakedInodes) + Cardinality(Seen!LeakedBlocks) <= MaxLeaked

=============================================================================
