------------------------------- MODULE MCFiles -------------------------------
(***************************************************************************)
(* Files on a small image.                                                 *)
(***************************************************************************)
EXTENDS Files

\* Names are interchangeable: the code only compares them for equality.
NameSymmetry == Permutations(Names)

\* Bounds on what is done once there has been a file of 4 GiB: how many inodes
\* have names, how far a search goes, and how many blocks are counted that nobody
\* gave back.
CONSTANTS MaxLinkedThen, MaxExcess

SmallOnceOversized ==
    oversized => /\ Cardinality(LinkedInodes) <= MaxLinkedThen
                 /\ numOfDataBlocks = NumBlocks
                 /\ availableBlocks <= NumBlocks + MaxExcess

=============================================================================
