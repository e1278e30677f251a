----------------------------- MODULE MCContents -----------------------------
(***************************************************************************)
(* Contents on small images.                                               *)
(***************************************************************************)
EXTENDS Contents

\* Names are interchangeable: the code only compares them for equality.
NameSymmetry == Permutations(Names)

\* Bounds on the states that are left: how far the search of a mount goes, what
\* is in the root and below it, lost inodes and blocks, and somebody's bytes in
\* blocks that are in no use.
CONSTANTS SearchLengths, MaxFiles, MaxSubdirectories, MaxSubEntries, MaxLeaked, MaxStale

Stale == {x \in (DataBlockNumbers \ AllOwned) \X (0 .. BlockSize - 1) : bytes[x[1]][x[2]] # OldByte}

SmallImage ==
    /\ numOfDataBlocks \in SearchLengths
    /\ Cardinality(Subdirectories(ROOT_INODE)) <= MaxSubdirectories
    /\ \A i \in Inodes \ {ROOT_INODE} : Len(entries[i]) <= MaxSubEntries
    /\ Cardinality(RegularFiles) <= MaxFiles
    /\ RegularFiles \subseteq Children({ROOT_INODE})
    /\ availableBlocks + MapThenSumSet(BlocksInUse, LinkedInodes) >= NumBlocks - MaxLeaked
    /\ Cardinality(LeakedInodes) + Cardinality(LeakedBlocks \ OldBits) <= MaxLeaked
    /\ Cardinality(Stale) <= MaxStale

=============================================================================
