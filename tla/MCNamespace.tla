---------------------------- MODULE MCNamespace ----------------------------
(***************************************************************************)
(* Namespace and Paths on small images.                                    *)
(***************************************************************************)
EXTENDS Paths

\* Names are interchangeable: the code only compares them for equality.
NameSymmetry == Permutations(Names)

\* Bounds of the run "growth", which needs six inodes to see a second extent.
CONSTANTS MaxDirectories, MaxSubEntries, MaxLeaked

SmallTree ==
    /\ Cardinality({i \in Inodes : IsDirectory(i)}) <= MaxDirectories
    /\ \A i \in Inodes \ {ROOT_INODE} : Len(entries[i]) <= MaxSubEntries
    /\ Cardinality(LeakedInodes) + Cardinality(LeakedBlocks) <= MaxLeaked

=============================================================================
