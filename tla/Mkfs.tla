-------------------------------- MODULE Mkfs --------------------------------
(***************************************************************************)
(* mkfs.a1fs and fs_ctx_init: the geometry of an image, in the integers of *)
(* the code's widths, the order in which mkfs stores and checks it, and    *)
(* what the driver computes from it when it mounts the image.              *)
(*                                                                         *)
(* An image file has a fixed size; mkfs runs on it any number of times,    *)
(* with and without -f and -z, and a driver uses it in between.  Addresses *)
(* are offsets from the start of the mapping.  The image is not formatted  *)
(* while it is mounted.                                                    *)
(***************************************************************************)
EXTENDS Integers

CONSTANTS A1FS_BLOCK_SIZE,  \* bytes of a block (4096)
          InodeSize,        \* bytes of an inode (64)
          WordSize,         \* 2^32, the modulus of uint32_t
          Sizes,            \* the sizes of an image file
          InodeCounts       \* the arguments of -i

ASSUME GeometryAssumption ==
    /\ A1FS_BLOCK_SIZE \in Nat \ {0}
    /\ InodeSize \in 1 .. A1FS_BLOCK_SIZE
    /\ WordSize \in Nat \ {0}
    /\ Sizes \subseteq Nat
    /\ InodeCounts \subseteq Nat

VARIABLES size,         \* bytes of the image file
          superblock,   \* the first block
          dirty,        \* later blocks that hold bytes of an earlier use or a root inode
          life,         \* "none", "fresh" when mkfs accepted it, "used" by a driver since
          predecessor,  \* bytes older than this superblock's were in the image
          fs,           \* the driver's context
          ret           \* how the last mkfs ended

vars == <<size, superblock, dirty, life, predecessor, fs, ret>>

NumBlocks == size \div A1FS_BLOCK_SIZE
LaterBlocks == 1 .. NumBlocks - 1

(***************************************************************************)
(* map_file takes the sizes that are not 0 and a multiple of the block.    *)
(***************************************************************************)
Mappable == size # 0 /\ size % A1FS_BLOCK_SIZE = 0

Word(n) == n % WordSize

\* Mistake: the quotient is cut off.
rounddown(n) == n \div A1FS_BLOCK_SIZE

\* The blocks that n bytes take: roundup of the quotient as a double.
roundup(n) ==
    n \div A1FS_BLOCK_SIZE + (IF n % A1FS_BLOCK_SIZE = 0 THEN 0 ELSE 1)

\* A number of blocks in bytes: the product of a uint32_t and an int.
Bytes(blocks) == Word(blocks * A1FS_BLOCK_SIZE)

BlankSuperblock ==
    [magic |-> FALSE, size |-> 0, num_inodes |-> 0, available_inodes |-> 0,
     available_blocks |-> 0, inode_bitmap_length |-> 0, data_bitmap |-> 0,
     data_bitmap_length |-> 0, inode_table |-> 0, inode_table_length |-> 0]

(***************************************************************************)
(* What is stored before the root's bit in the inode bitmap is set.        *)
(***************************************************************************)
Claimed(sb, i) ==
    [sb EXCEPT !.magic = TRUE,
               !.size = size,
               !.num_inodes = Word(i),
               !.available_inodes = Word(Word(i) - 1)]

(***************************************************************************)
(* What is stored after it.  Both bitmaps get one byte for each item.      *)
(***************************************************************************)
Laid(sb) ==
    LET inodeBitmapLength == roundup(sb.num_inodes)
        room == Word(Word(size) \div A1FS_BLOCK_SIZE - 1 - inodeBitmapLength)
        dataBitmapLength == roundup(room)
        inodeTableLength == roundup(sb.num_inodes * InodeSize)
        dataBitmap == A1FS_BLOCK_SIZE + Bytes(inodeBitmapLength)
    IN  [sb EXCEPT !.inode_bitmap_length = inodeBitmapLength,
                   !.data_bitmap = dataBitmap,
                   !.data_bitmap_length = dataBitmapLength,
                   !.inode_table = dataBitmap + Bytes(dataBitmapLength),
                   !.inode_table_length = inodeTableLength,
                   !.available_blocks = Word(room - dataBitmapLength - inodeTableLength)]

ReservedBlocks(sb) ==
    1 + sb.inode_bitmap_length + sb.data_bitmap_length + sb.inode_table_length

\* Mistake: the metadata is not compared with the image.
AcceptsCountOnly(sb) == sb.available_blocks > 0

Accepts(sb) == Bytes(ReservedBlocks(sb)) < size /\ sb.available_blocks > 0

(***************************************************************************)
(* The blocks that get bytes of their own when the image is formatted.     *)
(***************************************************************************)
RootInodeBlock(sb) ==
    IF Accepts(sb) THEN {sb.inode_table \div A1FS_BLOCK_SIZE} ELSE {}

(***************************************************************************)
(* mkfs.  The bit of the root is the first store outside the superblock    *)
(* and the root inode the last; either may be outside the image, and then  *)
(* kills mkfs or goes to foreign memory.  A refusal takes nothing back.    *)
(***************************************************************************)
mkfs(old, rest, i) ==
    LET claimed == Claimed(old, i)
        laid == Laid(claimed)
    IN  \/ /\ A1FS_BLOCK_SIZE >= size
           /\ superblock' = claimed
           /\ dirty' = rest
           /\ life' = "none"
           /\ ret' = "killed"
        \/ /\ superblock' = laid
           /\ dirty' = rest \cup (RootInodeBlock(laid) \cap LaterBlocks)
           /\ life' = IF Accepts(laid) THEN "fresh" ELSE "none"
           /\ ret' = IF Accepts(laid) THEN "done" ELSE "failed"
        \/ /\ Accepts(laid)
           /\ laid.inode_table >= size
           /\ superblock' = laid
           /\ dirty' = rest
           /\ life' = "none"
           /\ ret' = "killed"

-----------------------------------------------------------------------------

NotMounted ==
    [mounted |-> FALSE, data_bitmap |-> 0, inode_table |-> 0, data_block |-> 0,
     num_of_data_blocks |-> 0]

(***************************************************************************)
(* A file of zeros, as truncate(1) makes it, or one of arbitrary bytes.    *)
(***************************************************************************)
Init ==
    /\ size \in Sizes
    /\ superblock = BlankSuperblock
    /\ dirty \in {{}, LaterBlocks}
    /\ life = "none"
    /\ predecessor = (dirty # {})
    /\ fs = NotMounted
    /\ ret = "none"

\* Mistake: only the superblock is zeroed.
FirstBlockZeroed(rest) == rest

(***************************************************************************)
(* The blocks that hold bytes of earlier uses after -z.                    *)
(***************************************************************************)
Zeroed(rest) == {}

(***************************************************************************)
(* mkfs.a1fs -i i, with -f and with -z.                                    *)
(***************************************************************************)
Refuse ==
    /\ ret' = "failed"
    /\ UNCHANGED <<superblock, dirty, life, predecessor>>

Format(i, force, zero) ==
    /\ ~fs.mounted
    /\ \/ i = 0 /\ Refuse
       \/ i # 0 /\ ~Mappable /\ Refuse
       \/ i # 0 /\ Mappable /\ ~force /\ superblock.magic /\ Refuse
       \/ /\ i # 0
          /\ Mappable
          /\ force \/ ~superblock.magic
          /\ mkfs(IF zero THEN BlankSuperblock ELSE superblock,
                  IF zero THEN Zeroed(dirty) ELSE dirty, i)
          /\ predecessor' = (~zero /\ (predecessor \/ life # "none"))
    /\ UNCHANGED <<size, fs>>

(***************************************************************************)
(* a1fs_init and fs_ctx_init: the magic number is all they check.          *)
(***************************************************************************)
DataBitmapAt(sb) == A1FS_BLOCK_SIZE + Bytes(sb.inode_bitmap_length)
InodeTableAt(sb) == DataBitmapAt(sb) + Bytes(sb.data_bitmap_length)
\* Mistake: the data blocks start where the inode table does.
DataBlockAtTable(sb) == InodeTableAt(sb)

DataBlockAt(sb) == InodeTableAt(sb) + Bytes(sb.inode_table_length)

Mount ==
    /\ ~fs.mounted
    /\ Mappable
    /\ superblock.magic
    /\ fs' = [mounted |-> TRUE,
              data_bitmap |-> DataBitmapAt(superblock),
              inode_table |-> InodeTableAt(superblock),
              data_block |-> DataBlockAt(superblock),
              num_of_data_blocks |-> superblock.available_blocks]
    /\ UNCHANGED <<size, superblock, dirty, life, predecessor, ret>>

Unmount ==
    /\ fs.mounted
    /\ fs' = NotMounted
    /\ UNCHANGED <<size, superblock, dirty, life, predecessor, ret>>

(***************************************************************************)
(* No product of the geometry passes the width of an integer: the size and *)
(* the number of inodes fit, and so does the metadata.                     *)
(***************************************************************************)
FitsWords ==
    /\ size < WordSize
    /\ superblock.num_inodes > 0
    /\ ReservedBlocks(superblock) * A1FS_BLOCK_SIZE < WordSize

DataBlockCount == NumBlocks - ReservedBlocks(superblock)

(***************************************************************************)
(* What the callbacks leave: the counters change, and any block may hold   *)
(* bytes.  On an image that mkfs refused, or whose geometry passed the     *)
(* width of an integer, the driver is not followed.                        *)
(***************************************************************************)
Use ==
    /\ fs.mounted
    /\ life # "none"
    /\ FitsWords
    /\ \E b \in 0 .. DataBlockCount, n \in 0 .. superblock.num_inodes - 1 :
          superblock' = [superblock EXCEPT !.available_blocks = b, !.available_inodes = n]
    /\ dirty' = LaterBlocks
    /\ life' = "used"
    /\ UNCHANGED <<size, predecessor, fs, ret>>

Next ==
    \/ \E i \in InodeCounts, force, zero \in BOOLEAN : Format(i, force, zero)
    \/ Mount
    \/ Unmount
    \/ Use

Spec == Init /\ [][Next]_vars

-----------------------------------------------------------------------------

\* Bits of a block; the bitmaps are used one bit for each item, plus, in the
\* data bitmap, the bit after the last block, which growth in place tests.
BitsPerBlock == 8 * A1FS_BLOCK_SIZE

Accepted == life # "none" /\ FitsWords

(***************************************************************************)
(* An image that mkfs accepted has its five parts one after the other, the *)
(* last ends with the file, and each is long enough for what the driver    *)
(* stores there; until it is used its counters say that everything but the *)
(* root is free (mkfs, mkfs.c:127-191).                                    *)
(***************************************************************************)
AcceptedFits ==
    Accepted =>
        /\ DataBlockCount > 0
        /\ superblock.inode_bitmap_length * BitsPerBlock >= superblock.num_inodes
        /\ superblock.data_bitmap_length * BitsPerBlock > DataBlockCount
        /\ superblock.inode_table_length * A1FS_BLOCK_SIZE >= superblock.num_inodes * InodeSize
        /\ life = "fresh" =>
              /\ superblock.available_blocks = DataBlockCount
              /\ superblock.available_inodes = superblock.num_inodes - 1

(***************************************************************************)
(* The driver takes the parts for where mkfs put them: no two overlap, and *)
(* its data blocks end with the image at the latest, also when it mounts   *)
(* an image whose counter has gone down (fs_ctx_init, fs_ctx.c:39-52).     *)
(***************************************************************************)
MountAgrees ==
    Accepted /\ fs.mounted =>
        /\ fs.data_bitmap = superblock.data_bitmap
        /\ fs.inode_table = superblock.inode_table
        /\ fs.inode_table + superblock.num_inodes * InodeSize <= fs.data_block
        /\ fs.data_block + fs.num_of_data_blocks * A1FS_BLOCK_SIZE <= size

(***************************************************************************)
(* Unless it replaces one it was not told to zero, a file system starts    *)
(* with clear bitmaps, whatever mkfs refused to make of the image before:  *)
(* no attempt leaves bytes that a later one takes for marks (mkfs.c:141,   *)
(* 172, 189, 220).                                                         *)
(***************************************************************************)
BitmapsStartClear ==
    Accepted /\ life = "fresh" /\ ~predecessor =>
        dirty \cap 1 .. superblock.inode_bitmap_length + superblock.data_bitmap_length = {}

=============================================================================
