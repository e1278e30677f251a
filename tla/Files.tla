-------------------------------- MODULE Files --------------------------------
(***************************************************************************)
(* The blocks of regular files: truncate, write and the growth of a file   *)
(* block by block, beside the directory operations of Namespace.  Contents *)
(* are left out; what is kept is which block belongs to whom, what the     *)
(* bitmap and the counter say about it, and the sizes.                     *)
(***************************************************************************)
EXTENDS Namespace

CONSTANTS
    BlockSize,    \* A1FS_BLOCK_SIZE, 4096 in the code
    WordSize,     \* 2^32: sizes have 64 bits, counts of blocks have 32
    MaxFileSize   \* bound on the sizes and offsets a caller asks for

\* An image of 2^32 bytes or more does not exist: mkfs lays it out by the size
\* modulo 2^32.  The data blocks are fewer than its blocks by at least one.
ASSUME BlockSizeAssumption == BlockSize \in Nat \ {0}
ASSUME WordSizeAssumption ==
    WordSize \in Nat /\ WordSize % BlockSize = 0 /\ (NumBlocks + 1) * BlockSize < WordSize
ASSUME MaxFileSizeAssumption == MaxFileSize \in Nat

VARIABLE oversized    \* history: somebody has made a file of 2^32 bytes

filesVars == <<vars, oversized>>

IsFile(i) == itable[i].mode = "reg" /\ Linked(i)

\* How many blocks n bytes fill.
BlocksToHold(n) == (n + BlockSize - 1) \div BlockSize

\* Mistake: an exact multiple of the block size gets one block too many.
RoundedAlwaysUp(size) == (size % WordSize) \div BlockSize + 1

\* How many truncate takes them to fill: the size is cut to 32 bits before it is
\* divided.
new_file_block_count(size) ==
    (size % WordSize) \div BlockSize + IF size % BlockSize = 0 THEN 0 ELSE 1

-----------------------------------------------------------------------------
(***************************************************************************)
(* Growth.  A callback grows one file several times, so growth is a        *)
(* function on what it reads and writes: the data bitmap, the counter, and *)
(* the file's size, indirect block and extents.  outcome "killed" and      *)
(* "overrun" are ends of the process, as in Namespace; "outside" is one of *)
(* the two, after a store or a read outside the image.                     *)
(***************************************************************************)
FileState(f) ==
    [bits |-> dataBitmap, free |-> availableBlocks, size |-> itable[f].size,
     indirect |-> indirect[f], extents |-> extents[f], outcome |-> "ok"]

Blocks(s) == MapThenSumSet(LAMBDA k : s.extents[k].count, DOMAIN s.extents)

LastBlock(s) == Last(s.extents).start + Last(s.extents).count - 1

Search(bits) == get_first_available_position(numOfDataBlocks, bits)

\* Mistake: the counter goes down for the data block only.
GrowEmptyUncounted(s) ==
    LET ib == Search(s.bits)
        db == Search(set_bitmap(s.bits, ib))
    IN  IF ib = NotFound
          THEN [s EXCEPT !.outcome = "killed"]
          ELSE [bits |-> set_bitmap(s.bits, ib),
                free |-> s.free - 1,
                size |-> BlockSize,
                indirect |-> ib,
                extents |-> <<[start |-> db, count |-> 1]>>,
                outcome |-> IF db = NotFound THEN "killed" ELSE "ok"]

(***************************************************************************)
(* A file of size 0 gets an indirect block and a first extent.  The bit    *)
(* set for the data block is the indirect block's a second time.  Where no *)
(* block was found the driver dies zeroing it, when all else is stored.    *)
(***************************************************************************)
GrowEmpty(s) ==
    LET ib == Search(s.bits)
        bits == set_bitmap(s.bits, ib)
        db == Search(bits)
    IN  IF ib = NotFound
          THEN [s EXCEPT !.outcome = "killed"]
          ELSE [bits |-> set_bitmap(bits, ib),
                free |-> s.free - 2,
                size |-> BlockSize,
                indirect |-> ib,
                extents |-> <<[start |-> db, count |-> 1]>>,
                outcome |-> IF db = NotFound THEN "killed" ELSE "ok"]

\* The block after the last one is free: the last extent takes it, also where it
\* lies behind the image, and is zeroed when all else is stored.
GrowLastExtent(s) ==
    LET b == LastBlock(s) + 1
    IN  [s EXCEPT !.bits = set_bitmap(@, b),
                  !.free = @ - 1,
                  !.size = (Blocks(s) + 1) * BlockSize,
                  !.extents[Len(s.extents)].count = @ + 1,
                  !.outcome = IF b < NumBlocks THEN "ok" ELSE "outside"]

\* It is not: the first free block starts an extent, if the file may have one more.
GrowNewExtent(s) ==
    LET b == Search(s.bits)
    IN  IF Len(s.extents) = MaxExtents THEN [s EXCEPT !.outcome = "ENOSPC"]
        ELSE IF b = NotFound THEN [s EXCEPT !.outcome = "killed"]
        ELSE [s EXCEPT !.bits = set_bitmap(@, b),
                       !.free = @ - 1,
                       !.size = (Blocks(s) + 1) * BlockSize,
                       !.extents = Append(@, [start |-> b, count |-> 1])]

(***************************************************************************)
(* A file may have a size and no extent, or fewer blocks than its size     *)
(* fills (see TruncateExtend).  The first has never had an indirect block: *)
(* its last block is looked up through an address that was never set.  In  *)
(* the second the length of what is zeroed behind the end, a difference of *)
(* unsigned numbers, wraps, and all that follows in memory is zeroed.      *)
(***************************************************************************)
growing_a_block_for_file(s) ==
    CASE s.free = 0 -> [s EXCEPT !.outcome = "ENOSPC"]
      [] s.free = 1 /\ s.size = 0 -> [s EXCEPT !.outcome = "ENOSPC"]
      [] s.free > 1 /\ s.size = 0 -> GrowEmpty(s)
      [] s.free > 0 /\ s.size # 0 /\ s.extents = <<>> -> [s EXCEPT !.outcome = "outside"]
      [] s.free > 0 /\ s.extents # <<>> /\ s.size > Blocks(s) * BlockSize
           /\ s.size % BlockSize # 0 -> [s EXCEPT !.outcome = "overrun"]
      [] OTHER -> IF is_bit_set(LastBlock(s) + 1, s.bits)
                    THEN GrowNewExtent(s)
                    ELSE GrowLastExtent(s)

\* n calls in a row; the first that does not succeed is the last.
Grow(s, n) ==
    LET grown[k \in 0 .. n] ==
          IF k = 0 THEN s
          ELSE LET t == grown[k - 1]
               IN  IF t.outcome # "ok" THEN t ELSE growing_a_block_for_file(t)
    IN  grown[n]

(***************************************************************************)
(* "scribbled" is the outcome of a callback that returns 0 but cleared     *)
(* bits in a block of structures, unless they were clear.                  *)
(***************************************************************************)
StatusAfter(outcome) ==
    CASE outcome \in {"killed", "overrun"} -> {outcome}
      [] outcome = "outside" -> {"killed", "overrun"}
      [] outcome = "scribbled" -> {status, "overrun"}
      [] OTHER -> {status}

RetAfter(outcome) ==
    CASE outcome \in {"ok", "ENOSPC"} -> outcome
      [] outcome = "scribbled" -> "ok"
      [] OTHER -> "none"

\* Mistake: the size asked for is stored before the blocks are there.
StoreSizeFirst(f, s, size) ==
    /\ dataBitmap' = s.bits
    /\ availableBlocks' = s.free
    /\ itable' = [itable EXCEPT ![f].size = size]
    /\ indirect' = [indirect EXCEPT ![f] = s.indirect]
    /\ extents' = [extents EXCEPT ![f] = s.extents]
    /\ status' \in StatusAfter(s.outcome)
    /\ ret' = RetAfter(s.outcome)
    /\ UNCHANGED <<inodeBitmap, availableInodes, entries, numOfDataBlocks>>

\* The callback leaves file f as s says, with its size set if all went well.
Store(f, s, size) ==
    /\ dataBitmap' = s.bits
    /\ availableBlocks' = s.free
    /\ itable' = [itable EXCEPT ![f].size =
                    IF RetAfter(s.outcome) = "ok" THEN size ELSE s.size]
    /\ indirect' = [indirect EXCEPT ![f] = s.indirect]
    /\ extents' = [extents EXCEPT ![f] = s.extents]
    /\ status' \in StatusAfter(s.outcome)
    /\ ret' = RetAfter(s.outcome)
    /\ UNCHANGED <<inodeBitmap, availableInodes, entries, numOfDataBlocks>>

-----------------------------------------------------------------------------
(***************************************************************************)
(* A directory's blocks and every indirect block hold structures.          *)
(***************************************************************************)
StructuralBlocks(i) ==
    IF extents[i] = <<>> THEN {}
    ELSE IF itable[i].mode = "dir" THEN OwnedBlocks(i)
    ELSE {indirect[i]}

(***************************************************************************)
(* truncate.  The number of blocks to add is a difference of counts of 32  *)
(* bits.  From 2^32 bytes on it is too small, or wraps and is so large     *)
(* that the image is full before.                                          *)
(***************************************************************************)
TruncateExtend(f, size) ==
    /\ size > itable[f].size
    /\ Store(f, Grow(FileState(f),
                     (new_file_block_count(size) - get_num_blks_of_file(f)) % WordSize),
             size)

\* The bits cleared for the blocks of the extents after k are in these blocks.
ScribbledAfter(s, k) ==
    LET later == UNION {ExtentBlocks(s.extents[i]) : i \in k + 1 .. Len(s.extents)}
        hit   == {b \div (8 * BlockSize) : b \in later}
    IN  IF hit \cap UNION {StructuralBlocks(i) : i \in Inodes} = {}
          THEN "ok" ELSE "scribbled"

\* What is left of extent k, pos blocks, is the end of the file.
EndedAt(s, k, pos) == [SubSeq(s.extents, 1, k) EXCEPT ![k].count = pos]

(***************************************************************************)
(* The target extent k is the first in which the kept blocks end, pos its  *)
(* number of kept blocks.  The loop over its other blocks clears the bits  *)
(* from start + pos - 1 on.  The blocks of later extents are counted free, *)
(* but their bits are cleared at the address of the data blocks, that is   *)
(* in the contents of block 0 (or the next, in larger images).             *)
(***************************************************************************)
ShrunkenState(s, kept) ==
    LET upto(k) == Blocks([s EXCEPT !.extents = SubSeq(@, 1, k)])
        k     == CHOOSE i \in DOMAIN s.extents :
                    upto(i) >= kept /\ \A j \in 1 .. i - 1 : upto(j) < kept
        pos   == kept - upto(k - 1)
        e     == s.extents[k]
    IN  [s EXCEPT
           !.bits = @ \ {e.start + i - 1 : i \in pos .. e.count - 1},
           !.free = @ + Blocks(s) - kept,
           !.extents = EndedAt(s, k, pos),
           !.outcome = ScribbledAfter(s, k)]

\* The file has fewer blocks than are to be kept: the loop ends in its last
\* extent, and the target is the first block of the first one.
CutToFirst(s) ==
    LET e == Last(s.extents)
    IN  [s EXCEPT
           !.bits = @ \ {e.start + i - 1 : i \in 1 .. e.count - 1},
           !.free = @ + Cardinality(1 .. e.count - 1) + Blocks(s) - s.extents[1].count,
           !.extents = EndedAt(s, 1, 1),
           !.outcome = ScribbledAfter(s, 1)]

TruncateShrink(f, size) ==
    LET s    == FileState(f)
        kept == new_file_block_count(size)
    IN  /\ size < itable[f].size
        /\ \/ /\ s.extents = <<>>    \* neither extent nor indirect block was ever set
              /\ Store(f, [s EXCEPT !.outcome = "overrun"], size)
           \/ /\ s.extents # <<>> /\ kept <= Blocks(s)
              /\ Store(f, [ShrunkenState(s, kept) EXCEPT !.size = size], size)
           \/ /\ s.extents # <<>> /\ kept > Blocks(s)
              /\ Store(f, [CutToFirst(s) EXCEPT !.size = size], size)

Truncate(f, size) ==
    /\ status = "mounted"
    /\ IsFile(f)
    /\ \/ TruncateExtend(f, size)
       \/ TruncateShrink(f, size)
       \/ /\ size = itable[f].size
          /\ ret' = "ok"
          /\ UNCHANGED <<allocVars, fileVars, numOfDataBlocks, status>>

-----------------------------------------------------------------------------
(***************************************************************************)
(* write of n bytes at offset, in one block (a1fs.c: "You can assume that  *)
(* the byte range from offset to offset + size is contained within a       *)
(* single block") and at most one block past the next (README.txt:         *)
(* "a hole will span at most 1 block").  Bytes below the size of the file  *)
(* that lie in no block are written to address 0.                          *)
(***************************************************************************)
Write(f, offset, n) ==
    LET s    == FileState(f)
        size == offset + n
        held == BlockSize * Blocks(s)
    IN  /\ status = "mounted"
        /\ IsFile(f)
        /\ n > 0
        /\ offset \div BlockSize = (size - 1) \div BlockSize
        /\ offset \div BlockSize <= BlocksToHold(s.size) + 1
        /\ \/ /\ size <= s.size /\ offset < held
              /\ Store(f, s, s.size)
           \/ /\ size <= s.size /\ offset >= held
              /\ Store(f, [s EXCEPT !.outcome = "killed"], s.size)
           \/ /\ size > s.size /\ size <= held
              /\ Store(f, s, size)
           \/ /\ size > s.size /\ size > held /\ size <= held + BlockSize
              /\ Store(f, Grow(s, 1), size)
           \/ /\ size > s.size /\ size > held + BlockSize
              /\ Store(f, Grow(s, 2), size)

-----------------------------------------------------------------------------
(***************************************************************************)
(* unlink of a file that has a size and never had a block.  The bit it     *)
(* clears is that of a block number computed from an address never set.    *)
(* Where the bit is in nobody's use, what happens is Unlink; otherwise the *)
(* driver is killed or goes on with something changed that was in use.     *)
(***************************************************************************)
UnlinkUnplaced(p, nm) ==
    LET t == Lookup(p, nm)
    IN  /\ status = "mounted"
        /\ IsDirectory(p)
        /\ HasEntry(p, nm)
        /\ IsFile(t)
        /\ itable[t].size # 0 /\ extents[t] = <<>>
        /\ status' \in StatusAfter("outside")
        /\ ret' = RetAfter("outside")
        /\ UNCHANGED <<allocVars, fileVars, numOfDataBlocks>>

(***************************************************************************)
(* Once a block of structures has a second use, the next store for that    *)
(* use changes the structure; and what a file has behind the image is not  *)
(* the image's.  The model follows the driver no further than either.      *)
(* File contents in two files at once are followed.                        *)
(***************************************************************************)
StructuresIntact ==
    \A i, j \in Inodes :
        /\ i # j => StructuralBlocks(i) \cap OwnedBlocks(j) = {}
        /\ extents[i] # <<>> => indirect[i] \notin DataBlocks(i)

FileCallback ==
    \/ \E f \in Inodes, size \in 0 .. MaxFileSize : Truncate(f, size)
    \/ \E f \in Inodes, offset \in 0 .. MaxFileSize - 1, n \in 1 .. BlockSize :
          offset + n <= MaxFileSize /\ Write(f, offset, n)
    \/ \E p \in Inodes, nm \in Names : UnlinkUnplaced(p, nm)

FilesInit == Init /\ oversized = FALSE

DriverNext ==
    Mount \/ (StructuresIntact /\ BlocksInImage /\ (Callback \/ FileCallback))

SizesFit == \A i \in Inodes : itable[i].size < WordSize

FilesNext == DriverNext /\ oversized' = (oversized \/ ~SizesFit')

FilesSpec == FilesInit /\ [][FilesNext]_filesVars

-----------------------------------------------------------------------------
(* Properties. *)

\* The block count of a file, recomputed in each callback from the extents, and
\* its size never drift apart: through growth that fails half-way, shrinking to
\* nothing, growing again and deaths, the extents hold what the size needs, until
\* somebody makes a file of 4 GiB (run truncate_4gib).
FilesDense ==
    ~oversized => \A i \in Inodes : IsFile(i) => BlocksToHold(itable[i].size) = get_num_blks_of_file(i)

BlocksInUse(i) == IF extents[i] = <<>> THEN 0 ELSE 1 + get_num_blks_of_file(i)

\* available_blocks never promises a block that is in use: although bits of used
\* blocks are left clear, free blocks and blocks in use fit the image together,
\* until somebody makes a file of 4 GiB.
CounterCoversUse ==
    ~oversized => availableBlocks + MapThenSumSet(BlocksInUse, LinkedInodes) <= NumBlocks

\* A write or truncate that runs out of space loses nothing: the file keeps its
\* size or has grown by whole blocks of zeros, until somebody makes a file of 4 GiB.
\* An attempt at one that fails loses nothing either.
FailureKeepsBytes ==
    [][ret' = "ENOSPC" /\ ~oversized' =>
          \A f \in LinkedInodes :
              LET old == itable[f].size
                  new == itable'[f].size
              IN  new = old \/ (new > old /\ new % BlockSize = 0)]_filesVars

\* A block of a file is marked in the bitmap, so that nobody else is given it.
FileBlocksMarked == \A i \in Inodes : IsFile(i) => DataBlocks(i) \subseteq dataBitmap

\* A truncate or write that returned 0 and made a file larger gave it the blocks
\* for its bytes, which truncate has to fill with zeros.
ExtendedFilesHaveBlocks ==
    [][ret' = "ok" =>
          \A f \in Inodes :
              itable'[f].mode = "reg" /\ itable'[f].size > itable[f].size =>
                  itable'[f].size <= BlockSize * get_num_blks_of_file(f)']_vars

=============================================================================
