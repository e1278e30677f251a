------------------------------ MODULE Contents ------------------------------
(***************************************************************************)
(* The bytes of regular files: read, and what truncate, write and growth   *)
(* store in data blocks, beside what Files says of blocks and sizes.       *)
(***************************************************************************)
EXTENDS Files

CONSTANTS
    Bytes,     \* the values of the bytes a caller writes, 0 left out
    OldByte,   \* the value of every byte that no file has written or zeroed
    OldBits    \* data bits an earlier file system left set

ASSUME BytesAssumption == Bytes \subseteq 1 .. 255 /\ Bytes # {}
ASSUME OldByteAssumption == OldByte \in 1 .. 255

\* Files of 4 GiB are left to Files.
ASSUME SmallSizesAssumption == MaxFileSize < WordSize

VARIABLES
    bytes,     \* data block -> offset in the block -> byte
    promised   \* file -> the bytes ByteFile says a reader sees (history)

contentsVars == <<filesVars, bytes, promised>>

DataBlockNumbers == 0 .. NumBlocks - 1

-----------------------------------------------------------------------------
(* memset and memcpy on one block.  A block outside the image is not kept. *)

ZeroFrom(c, b, from) ==
    IF b \in DataBlockNumbers
      THEN [c EXCEPT ![b] = [k \in DOMAIN @ |-> IF k >= from THEN 0 ELSE @[k]]]
      ELSE c

Copy(c, b, at, data) ==
    IF b \in DataBlockNumbers
      THEN [c EXCEPT ![b] = [k \in DOMAIN @ |->
                                IF k \in at .. at + Len(data) - 1
                                  THEN data[k - at + 1]
                                  ELSE @[k]]]
      ELSE c

\* A block of structures: its bytes are not kept one by one.
FillStructures(c, blocks) ==
    [b \in DataBlockNumbers |->
        IF b \in blocks THEN [k \in 0 .. BlockSize - 1 |-> OldByte] ELSE c[b]]

\* The byte v with some of its eight bits cleared.
WithoutBits(v, bits) == v - MapThenSumSet(LAMBDA i : 2^i * ((v \div 2^i) % 2), bits)

\* unset_bitmap at the address of the data blocks.
UnsetInData(c, numbers) ==
    [b \in DataBlockNumbers |-> [k \in 0 .. BlockSize - 1 |->
        WithoutBits(c[b][k], {n % 8 : n \in {m \in numbers : m \div 8 = b * BlockSize + k}})]]

-----------------------------------------------------------------------------
(* Growth. *)

\* Mistake: the tail of the old last block is not zeroed.
ZeroedButTail(c, s, t) ==
    IF t.outcome = "ok" THEN ZeroFrom(c, LastBlock(t), 0) ELSE c

\* What growing_a_block_for_file stores when it takes the file from s to t: zeros in
\* the rest of the last block, before it looks for a new one, and in the new one.
\* The first growth makes a block the indirect block.
Zeroed(c, s, t) ==
    LET tail == IF s.free > 0 /\ s.size % BlockSize # 0
                  THEN ZeroFrom(c, LastBlock(s), s.size % BlockSize)
                  ELSE c
        held == IF s.extents = <<>> /\ t.extents # <<>>
                  THEN FillStructures(tail, {t.indirect}) ELSE tail
    IN  IF t.outcome = "ok" THEN ZeroFrom(held, LastBlock(t), 0) ELSE held

\* Grow, with the file state and the contents side by side.
GrowZeroed(s, c, n) ==
    LET grown[k \in 0 .. n] ==
          IF k = 0 THEN [file |-> s, bytes |-> c]
          ELSE LET p == grown[k - 1]
                   t == growing_a_block_for_file(p.file)
               IN  IF p.file.outcome # "ok" THEN p
                   ELSE [file |-> t, bytes |-> Zeroed(p.bytes, p.file, t)]
    IN  grown[n]

-----------------------------------------------------------------------------
(* Where a byte of a file is. *)

ExtentBlockList(e) == [k \in 1 .. e.count |-> e.start + k - 1]

\* get_addr_of_starting_write_point walks the blocks of all extents in order.
get_addr_of_starting_write_point(f, offset) ==
    FlattenSeq([k \in DOMAIN extents[f] |-> ExtentBlockList(extents[f][k])])
        [offset \div BlockSize + 1]

(***************************************************************************)
(* read walks the extents, then the blocks of the one it found.  An offset *)
(* past all extents (see Read) ends at the first block of the first.       *)
(***************************************************************************)
ReadPoint(f, offset) ==
    LET es == extents[f]
        upto(k) == BlockSize * MapThenSumSet(LAMBDA i : es[i].count, 1 .. k)
        holds == {k \in DOMAIN es : offset < upto(k)}
        e == CHOOSE k \in DOMAIN es :
               IF holds = {} THEN k = 1 ELSE k \in holds /\ \A l \in holds : k <= l
        rest == offset - upto(IF holds = {} THEN Len(es) ELSE e - 1)
    IN  es[e].start + IF rest < es[e].count * BlockSize THEN rest \div BlockSize ELSE 0

\* The n bytes or fewer that read returns.
Read(f, offset, n) ==
    LET low == offset % WordSize
        b   == ReadPoint(f, offset)
        at  == offset % BlockSize
    IN  IF low >= itable[f].size THEN <<>>
        ELSE [k \in 1 .. IF low + n > itable[f].size THEN itable[f].size - low ELSE n |->
                 IF b \in DataBlockNumbers THEN bytes[b][at + k - 1] ELSE 0]

-----------------------------------------------------------------------------
(* truncate and write *)

(***************************************************************************)
(* A file that shrinks keeps the bytes of its blocks; the bits of blocks   *)
(* of later extents are cleared in the data.  A file extended within its   *)
(* last block is given no zeros.                                           *)
(***************************************************************************)
TruncateBytes(f, size) ==
    LET s == FileState(f)
        t == FileState(f)'
        k == Len(t.extents)
    IN  /\ Truncate(f, size)
        /\ bytes' =
             IF size > s.size
               THEN GrowZeroed(s, bytes, (new_file_block_count(size) - Blocks(s)) % WordSize).bytes
             ELSE IF k < Len(s.extents)
               THEN UnsetInData(bytes, UNION {ExtentBlocks(s.extents[i]) :
                                              i \in k + 1 .. Len(s.extents)})
             ELSE bytes

\* size + offset <= file_size
WriteInside(f, offset, data) ==
    bytes' = Copy(bytes, get_addr_of_starting_write_point(f, offset),
                  offset % BlockSize, data)

\* The file's last block is zeroed from offset or from its end, what is lower.
WriteInLastBlock(f, offset, data) ==
    LET b == get_addr_of_starting_write_point(f, offset)
        c == IF offset <= itable[f].size
               THEN ZeroFrom(bytes, b, offset % BlockSize)
               ELSE ZeroFrom(bytes, find_last_block(f),
                             BlockSize - (BlockSize * get_num_blks_of_file(f)
                                            - itable[f].size))
    IN  bytes' = Copy(c, b, offset % BlockSize, data)

\* After one growth the bytes go to their place in the last block, after two to
\* the start of it.
WriteGrown(f, offset, data, needed) ==
    LET g == GrowZeroed(FileState(f), bytes, needed)
    IN  bytes' = IF g.file.outcome # "ok" THEN g.bytes
                 ELSE Copy(g.bytes, LastBlock(g.file),
                           IF needed = 1 THEN offset % BlockSize ELSE 0, data)

WriteBytes(f, offset, data) ==
    LET size == offset + Len(data)
        held == BlockSize * get_num_blks_of_file(f)
    IN  /\ Write(f, offset, Len(data))
        /\ \/ size <= itable[f].size /\ offset < held /\ WriteInside(f, offset, data)
           \/ size <= itable[f].size /\ offset >= held /\ bytes' = bytes
           \/ size > itable[f].size /\ size <= held /\ WriteInLastBlock(f, offset, data)
           \/ size > itable[f].size /\ size > held /\ size <= held + BlockSize
              /\ WriteGrown(f, offset, data, 1)
           \/ size > itable[f].size /\ size > held + BlockSize
              /\ WriteGrown(f, offset, data, 2)

-----------------------------------------------------------------------------
(***************************************************************************)
(* Things the code gets wrong stop the model from following it: a block in *)
(* two uses (BlocksOwnedOnce fails), a block behind the image, a write     *)
(* that is copied to the start of a block it should begin inside of, and a *)
(* file extended over bytes an earlier truncate left behind.               *)
(***************************************************************************)
CopiedToStart(f, offset, n) ==
    /\ offset + n > BlockSize * (get_num_blks_of_file(f) + 1)
    /\ offset % BlockSize # 0

BytesLeftBehind(f, size) ==
    /\ size > itable[f].size
    /\ new_file_block_count(size) = get_num_blks_of_file(f)
    /\ \E k \in itable[f].size .. size - 1 :
          bytes[get_addr_of_starting_write_point(f, k)][k % BlockSize] # 0

RegularFiles == {i \in Inodes : IsFile(i)}

Promise == INSTANCE ByteFile WITH file <- promised

\* No block has been zeroed: mkfs -f without -z on an image in use.
ContentsInit ==
    /\ Formatted(OldBits)
    /\ oversized = FALSE
    /\ bytes = [b \in DataBlockNumbers |-> [k \in 0 .. BlockSize - 1 |-> OldByte]]
    /\ Promise!Init

DirectoryCallback ==
    /\ Callback
    /\ Promise!Keep(RegularFiles')
    /\ bytes' = FillStructures(bytes, UNION {StructuralBlocks(i)' : i \in Inodes})

TruncateCallback(f, size) ==
    /\ TruncateBytes(f, size)
    /\ Promise!Resize(f, itable'[f].size)

WriteCallback(f, offset, data) ==
    /\ offset + Len(data) <= MaxFileSize
    /\ WriteBytes(f, offset, data)
    /\ IF ret' = "ok"
         THEN Promise!Write(f, offset, data)
         ELSE Promise!Resize(f, itable'[f].size)

Writable == UNION {[1 .. n -> Bytes] : n \in 1 .. BlockSize}

ContentsNext ==
    \/ Mount /\ UNCHANGED <<bytes, promised>>
    \/ /\ BlocksOwnedOnce /\ BlocksInImage
       /\ \/ DirectoryCallback
          \/ \E f \in RegularFiles, size \in 0 .. MaxFileSize :
                ~BytesLeftBehind(f, size) /\ TruncateCallback(f, size)
          \/ \E f \in RegularFiles, offset \in 0 .. MaxFileSize - 1, data \in Writable :
                ~CopiedToStart(f, offset, Len(data)) /\ WriteCallback(f, offset, data)

ContentsSpec == ContentsInit /\ [][ContentsNext /\ UNCHANGED oversized]_contentsVars

-----------------------------------------------------------------------------
(* Properties. *)

\* A read within one block at an offset below 4 GiB returns what was written
\* last, or 0 where nothing was, up to the end of the file: through holes, growth
\* into new blocks and extents, shrinking inside a block, blocks that held
\* structures or another file's bytes, failures, deaths and remounts, and calls on
\* another file between.  read finds a byte by another walk than write.
ReadsReturnWrites ==
    status # "overrun" /\ BlocksOwnedOnce /\ BlocksInImage =>
        \A f \in RegularFiles :
            LET size == Len(promised[f])
            IN  \A offset \in 0 .. MaxFileSize, n \in 1 .. BlockSize :
                    (offset % BlockSize) + n <= BlockSize =>
                        Read(f, offset, n) =
                            SubSeq(promised[f], offset + 1,
                                   IF offset + n > size THEN size ELSE offset + n)

=============================================================================
