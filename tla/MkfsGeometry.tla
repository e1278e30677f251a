---------------------------- MODULE MkfsGeometry ----------------------------
(***************************************************************************)
(* Proofs about Mkfs, for every block size, inode size, word size, image   *)
(* size and number of inodes: an accepted image has room for its parts,    *)
(* the driver finds them where mkfs put them, and a first file system      *)
(* starts with clear bitmaps.                                              *)
(***************************************************************************)
EXTENDS Mkfs, TLAPS

(***************************************************************************)
(* What mkfs stored in an image that it accepted, and what holds of the    *)
(* geometry, however its products were cut to the width of an integer.     *)
(***************************************************************************)
Room(sb) == Word(Word(size) \div A1FS_BLOCK_SIZE - 1 - sb.inode_bitmap_length)

LaidOut(sb) ==
    /\ sb.inode_bitmap_length = roundup(sb.num_inodes)
    /\ sb.data_bitmap_length = roundup(Room(sb))
    /\ sb.inode_table_length = roundup(sb.num_inodes * InodeSize)
    /\ sb.data_bitmap = DataBitmapAt(sb)
    /\ sb.inode_table = InodeTableAt(sb)
    /\ Bytes(ReservedBlocks(sb)) < size

Superblocks ==
    [magic : BOOLEAN, size : Nat, num_inodes : Nat, available_inodes : Nat,
     available_blocks : Nat, inode_bitmap_length : Nat, data_bitmap : Nat,
     data_bitmap_length : Nat, inode_table : Nat, inode_table_length : Nat]

MkfsTypeOK ==
    /\ size \in Nat
    /\ superblock \in Superblocks
    /\ superblock.num_inodes < WordSize
    /\ life \in {"none", "fresh", "used"}
    /\ predecessor \in BOOLEAN

\* The counters: what mkfs stored in them, and what use may make of them.
CountersInRange ==
    /\ FitsWords => superblock.available_blocks <= DataBlockCount
    /\ life = "fresh" =>
          /\ superblock.available_blocks =
                Word(Room(superblock) - superblock.data_bitmap_length
                                      - superblock.inode_table_length)
          /\ superblock.available_inodes = Word(superblock.num_inodes - 1)

\* The driver's context is the one fs_ctx_init computes, but for the count of
\* data blocks, which is the counter at the time of the mount.
MountedAt ==
    /\ fs.data_bitmap = DataBitmapAt(superblock)
    /\ fs.inode_table = InodeTableAt(superblock)
    /\ fs.data_block = DataBlockAt(superblock)
    /\ fs.num_of_data_blocks \in Nat
    /\ FitsWords => fs.num_of_data_blocks <= DataBlockCount

\* What a first file system leaves in the blocks after the superblock.
DirtyFrom ==
    ~predecessor =>
        /\ life = "none" => dirty = {}
        /\ life = "fresh" => dirty \subseteq {superblock.inode_table \div A1FS_BLOCK_SIZE}

MkfsInv ==
    /\ MkfsTypeOK
    /\ life # "none" => Mappable /\ LaidOut(superblock) /\ CountersInRange
    /\ life # "none" /\ fs.mounted => MountedAt
    /\ DirtyFrom

-----------------------------------------------------------------------------
(* Arithmetic. *)

(***************************************************************************)
(* The blocks that roundup counts hold n bytes, and are none only for none.*)
(***************************************************************************)
LEMMA RoundupCovers ==
    ASSUME NEW n \in Nat
    PROVE  /\ roundup(n) \in Nat
           /\ roundup(n) * A1FS_BLOCK_SIZE >= n
           /\ n > 0 => roundup(n) > 0
  <1> DEFINE q == n \div A1FS_BLOCK_SIZE
             r == n % A1FS_BLOCK_SIZE
             b == A1FS_BLOCK_SIZE
  <1>1. b \in Nat /\ b > 0
    BY GeometryAssumption
  <1>2. q \in Nat /\ r \in 0 .. b - 1 /\ n = b * q + r
    BY <1>1
  <1>3. (q + 1) * b = b * q + b /\ (q + 0) * b = b * q
    BY <1>1, <1>2
  <1>4. roundup(n) = q + (IF r = 0 THEN 0 ELSE 1)
    BY DEF roundup
  <1> HIDE DEF q, r, b
  <1>5. roundup(n) \in Nat /\ roundup(n) * b >= n
    <2>1. CASE r = 0
      BY <2>1, <1>1, <1>2, <1>3, <1>4
    <2>2. CASE r # 0
      BY <2>2, <1>1, <1>2, <1>3, <1>4
    <2> QED
      BY <2>1, <2>2
  <1>6. n > 0 => roundup(n) > 0
    <2>1. roundup(n) = 0 => roundup(n) * b = 0
      BY <1>1
    <2> QED
      BY <2>1, <1>5
  <1> QED
    BY <1>5, <1>6 DEF b

(***************************************************************************)
(* A number that fits a word is its own remainder, and every remainder     *)
(* fits.                                                                   *)
(***************************************************************************)
LEMMA WordFits ==
    ASSUME NEW n \in Int
    PROVE  /\ Word(n) \in Nat /\ Word(n) < WordSize
           /\ n \in 0 .. WordSize - 1 => Word(n) = n
           /\ n < 0 /\ n >= -WordSize => Word(n) = n + WordSize
  BY GeometryAssumption DEF Word

(***************************************************************************)
(* Multiplying blocks by their size keeps their order.                     *)
(***************************************************************************)
LEMMA BytesInOrder ==
    ASSUME NEW m \in Nat, NEW n \in Nat
    PROVE  /\ m * A1FS_BLOCK_SIZE \in Nat
           /\ m <= n => m * A1FS_BLOCK_SIZE <= n * A1FS_BLOCK_SIZE
           /\ m * A1FS_BLOCK_SIZE < n * A1FS_BLOCK_SIZE => m < n
           /\ m <= m * A1FS_BLOCK_SIZE
           /\ (m * A1FS_BLOCK_SIZE) \div A1FS_BLOCK_SIZE = m
  <1> DEFINE b == A1FS_BLOCK_SIZE
  <1>1. b \in Nat /\ b > 0
    BY GeometryAssumption
  <1>2. \A k \in Nat : k * b \in Nat /\ k <= k * b
    BY <1>1
  <1>3. ASSUME NEW j \in Nat, NEW k \in Nat, j <= k
        PROVE  j * b <= k * b
    <2>1. k - j \in Nat /\ (k - j) * b \in Nat
      BY <1>2, <1>3
    <2>2. k * b = j * b + (k - j) * b
      BY <1>1, <1>3
    <2>3. j * b \in Nat /\ k * b \in Nat
      BY <1>2
    <2> QED
      BY <2>1, <2>2, <2>3
  <1>4. m * b < n * b => m < n
    BY <1>2, <1>3
  <1>5. (m * b) \div b = m
    BY <1>1
  <1> QED
    BY <1>2, <1>3, <1>4, <1>5 DEF b

(***************************************************************************)
(* A superblock that mkfs laid out, and that no product cut off, describes *)
(* five parts that follow one another and leave blocks for data.           *)
(***************************************************************************)
LEMMA Geometry ==
    ASSUME NEW sb \in Superblocks,
           size \in Nat, Mappable,
           LaidOut(sb),
           size < WordSize,
           sb.num_inodes > 0,
           ReservedBlocks(sb) * A1FS_BLOCK_SIZE < WordSize
    PROVE  /\ Room(sb) = NumBlocks - 1 - sb.inode_bitmap_length
           /\ Room(sb) \in Nat /\ Room(sb) < WordSize
           /\ NumBlocks - ReservedBlocks(sb) \in Nat \ {0}
           /\ sb.inode_bitmap_length * A1FS_BLOCK_SIZE >= sb.num_inodes
           /\ sb.data_bitmap_length * A1FS_BLOCK_SIZE >= Room(sb)
           /\ sb.data_bitmap_length > 0
           /\ sb.inode_table_length * A1FS_BLOCK_SIZE >= sb.num_inodes * InodeSize
           /\ InodeTableAt(sb) =
                (1 + sb.inode_bitmap_length + sb.data_bitmap_length) * A1FS_BLOCK_SIZE
           /\ DataBlockAt(sb) = InodeTableAt(sb) + sb.inode_table_length * A1FS_BLOCK_SIZE
           /\ DataBlockAt(sb) = ReservedBlocks(sb) * A1FS_BLOCK_SIZE
           /\ size = NumBlocks * A1FS_BLOCK_SIZE
  <1> DEFINE b == A1FS_BLOCK_SIZE
             A == sb.inode_bitmap_length
             D == sb.data_bitmap_length
             T == sb.inode_table_length
             R == ReservedBlocks(sb)
             x == Word(size) \div b - 1 - A
  <1>1. /\ b \in Nat /\ b > 0
        /\ A \in Nat /\ D \in Nat /\ T \in Nat
        /\ sb.num_inodes \in Nat
        /\ InodeSize \in Nat
        /\ WordSize \in Nat /\ WordSize > 0
    BY GeometryAssumption DEF Superblocks
  <1>2. R = 1 + A + D + T /\ R \in Nat
    BY <1>1 DEF ReservedBlocks
  <1>3. /\ A * b \in Nat /\ D * b \in Nat /\ T * b \in Nat
        /\ (1 + A + D) * b = b + A * b + D * b
        /\ R * b = b + A * b + D * b + T * b
    <2>1. A * b \in Nat /\ D * b \in Nat /\ T * b \in Nat
      BY <1>1, BytesInOrder
    <2>2. (1 + A + D) * b = b + A * b + D * b
      BY <1>1
    <2>3. (1 + A + D + T) * b = b + A * b + D * b + T * b
      BY <1>1
    <2> QED
      BY <1>2, <2>1, <2>2, <2>3
  <1>4. NumBlocks \in Nat /\ size = NumBlocks * b
    BY <1>1 DEF NumBlocks, Mappable
  <1> HIDE DEF b, A, D, T, R
  <1>5. Bytes(A) = A * b /\ Bytes(D) = D * b /\ Bytes(T) = T * b /\ Bytes(R) = R * b
    <2>1. R * b < WordSize
      BY DEF R, b
    <2>2. \A k \in Nat : k < WordSize => Word(k) = k
      BY WordFits, <1>1
    <2>3. R * b \in Nat
      BY <1>1, <1>3
    <2> QED
      BY <2>1, <2>2, <2>3, <1>1, <1>3 DEF Bytes, b
  <1>6. R < NumBlocks
    <2>1. R * b < NumBlocks * b
      BY <1>4, <1>5 DEF LaidOut, R, b
    <2> QED
      BY <2>1, <1>2, <1>4, BytesInOrder DEF b
  <1>7. Word(size) = size
    BY <1>1, WordFits
  <1>8. x = NumBlocks - 1 - A
    BY <1>7 DEF NumBlocks, b
  <1>9. x \in Nat /\ x > 0 /\ x < WordSize
    <2>1. NumBlocks <= size
      BY <1>4, BytesInOrder DEF b
    <2> QED
      BY <2>1, <1>1, <1>2, <1>4, <1>6, <1>8
  <1>10. Room(sb) = x
    BY <1>1, <1>9, WordFits DEF Room, A, b
  <1>11. /\ A * b >= sb.num_inodes
         /\ D * b >= Room(sb) /\ D > 0
         /\ T * b >= sb.num_inodes * InodeSize
    <2>1. A = roundup(sb.num_inodes) /\ D = roundup(Room(sb))
          /\ T = roundup(sb.num_inodes * InodeSize)
      BY DEF LaidOut, A, D, T
    <2>2. sb.num_inodes * InodeSize \in Nat
      BY <1>1
    <2> QED
      BY <2>1, <2>2, <1>1, <1>9, <1>10, RoundupCovers DEF b
  <1>12. /\ InodeTableAt(sb) = (1 + A + D) * b
         /\ DataBlockAt(sb) = (1 + A + D) * b + T * b
         /\ DataBlockAt(sb) = R * b
    <2>1. InodeTableAt(sb) = b + A * b + D * b
      BY <1>5 DEF InodeTableAt, DataBitmapAt, A, D, b
    <2>2. DataBlockAt(sb) = b + A * b + D * b + T * b
      BY <2>1, <1>5 DEF DataBlockAt, T, b
    <2> QED
      BY <2>1, <2>2, <1>1, <1>3
  <1> QED
    BY <1>1, <1>2, <1>4, <1>6, <1>8, <1>9, <1>10, <1>11, <1>12 DEF A, D, T, R, b

-----------------------------------------------------------------------------
(* The properties follow from the invariant. *)

(***************************************************************************)
(* In an accepted image whose products fit, the lemma on the geometry      *)
(* speaks of the superblock.                                               *)
(***************************************************************************)
LEMMA AcceptedGeometry ==
    ASSUME MkfsInv, Accepted
    PROVE  /\ Room(superblock) = NumBlocks - 1 - superblock.inode_bitmap_length
           /\ Room(superblock) \in Nat /\ Room(superblock) < WordSize
           /\ DataBlockCount \in Nat \ {0}
           /\ superblock.inode_bitmap_length * A1FS_BLOCK_SIZE >= superblock.num_inodes
           /\ superblock.data_bitmap_length * A1FS_BLOCK_SIZE >= Room(superblock)
           /\ superblock.data_bitmap_length > 0
           /\ superblock.inode_table_length * A1FS_BLOCK_SIZE
                >= superblock.num_inodes * InodeSize
           /\ InodeTableAt(superblock) =
                (1 + superblock.inode_bitmap_length + superblock.data_bitmap_length)
                    * A1FS_BLOCK_SIZE
           /\ DataBlockAt(superblock) =
                InodeTableAt(superblock) + superblock.inode_table_length * A1FS_BLOCK_SIZE
           /\ DataBlockAt(superblock) = ReservedBlocks(superblock) * A1FS_BLOCK_SIZE
           /\ size = NumBlocks * A1FS_BLOCK_SIZE
  <1>1. /\ size \in Nat /\ superblock \in Superblocks
        /\ Mappable /\ LaidOut(superblock)
        /\ size < WordSize
        /\ superblock.num_inodes > 0
        /\ ReservedBlocks(superblock) * A1FS_BLOCK_SIZE < WordSize
    BY DEF MkfsInv, MkfsTypeOK, Accepted, FitsWords
  <1> QED
    BY <1>1, Geometry DEF DataBlockCount

(***************************************************************************)
(* The parts are long enough, and the counters of a fresh image are right. *)
(***************************************************************************)
LEMMA InvAcceptedFits ==
    MkfsInv => AcceptedFits
  <1> SUFFICES ASSUME MkfsInv, Accepted
               PROVE  /\ DataBlockCount > 0
                      /\ superblock.inode_bitmap_length * BitsPerBlock >= superblock.num_inodes
                      /\ superblock.data_bitmap_length * BitsPerBlock > DataBlockCount
                      /\ superblock.inode_table_length * A1FS_BLOCK_SIZE
                            >= superblock.num_inodes * InodeSize
                      /\ life = "fresh" =>
                            /\ superblock.available_blocks = DataBlockCount
                            /\ superblock.available_inodes = superblock.num_inodes - 1
    BY DEF AcceptedFits
  <1> DEFINE A == superblock.inode_bitmap_length
             D == superblock.data_bitmap_length
             T == superblock.inode_table_length
  <1>1. A \in Nat /\ D \in Nat /\ T \in Nat /\ superblock.num_inodes \in Nat
        /\ superblock.num_inodes > 0 /\ superblock.num_inodes < WordSize
        /\ A1FS_BLOCK_SIZE \in Nat /\ WordSize \in Nat
    BY GeometryAssumption DEF MkfsInv, MkfsTypeOK, Superblocks, Accepted, FitsWords
  <1>2. NumBlocks \in Int /\ DataBlockCount = Room(superblock) - D - T
    <2>1. size \in Nat /\ A1FS_BLOCK_SIZE > 0
      BY GeometryAssumption DEF MkfsInv, MkfsTypeOK
    <2>2. NumBlocks \in Int
      BY <2>1, <1>1 DEF NumBlocks
    <2> QED
      BY <2>2, <1>1, AcceptedGeometry DEF DataBlockCount, ReservedBlocks
  <1>3. A * BitsPerBlock >= superblock.num_inodes
    <2>1. A * BitsPerBlock = 8 * (A * A1FS_BLOCK_SIZE)
      BY <1>1 DEF BitsPerBlock
    <2>2. A * A1FS_BLOCK_SIZE \in Nat /\ A * A1FS_BLOCK_SIZE >= superblock.num_inodes
      BY <1>1, AcceptedGeometry
    <2> QED
      BY <2>1, <2>2, <1>1
  <1>4. D * BitsPerBlock > DataBlockCount
    <2>1. D * BitsPerBlock = 8 * (D * A1FS_BLOCK_SIZE)
      BY <1>1 DEF BitsPerBlock
    <2>2. D * A1FS_BLOCK_SIZE \in Nat /\ D * A1FS_BLOCK_SIZE >= Room(superblock) /\ D > 0
          /\ Room(superblock) \in Nat
      BY <1>1, AcceptedGeometry
    <2>3. DataBlockCount < Room(superblock)
      BY <1>1, <1>2, <2>2
    <2>4. 8 * (D * A1FS_BLOCK_SIZE) >= D * A1FS_BLOCK_SIZE
      BY <2>2
    <2>5. DataBlockCount \in Int
      BY <1>1, <1>2, <2>2
    <2> HIDE DEF D
    <2> QED
      BY <2>1, <2>2, <2>3, <2>4, <2>5
  <1>5. ASSUME life = "fresh"
        PROVE  /\ superblock.available_blocks = DataBlockCount
               /\ superblock.available_inodes = superblock.num_inodes - 1
    <2>1. /\ superblock.available_blocks = Word(Room(superblock) - D - T)
          /\ superblock.available_inodes = Word(superblock.num_inodes - 1)
      BY <1>5 DEF MkfsInv, CountersInRange
    <2>2. DataBlockCount \in 0 .. WordSize - 1
      BY <1>1, <1>2, AcceptedGeometry
    <2>3. superblock.num_inodes - 1 \in 0 .. WordSize - 1
      BY <1>1
    <2>4. \A n \in 0 .. WordSize - 1 : Word(n) = n
      BY WordFits, <1>1
    <2> QED
      BY <2>1, <2>2, <2>3, <2>4, <1>2
  <1> QED
    BY <1>3, <1>4, <1>5, AcceptedGeometry

(***************************************************************************)
(* The driver's parts are those of mkfs, and end with the image.           *)
(***************************************************************************)
LEMMA InvMountAgrees ==
    MkfsInv => MountAgrees
  <1> SUFFICES ASSUME MkfsInv, Accepted, fs.mounted
               PROVE  /\ fs.data_bitmap = superblock.data_bitmap
                      /\ fs.inode_table = superblock.inode_table
                      /\ fs.inode_table + superblock.num_inodes * InodeSize <= fs.data_block
                      /\ fs.data_block + fs.num_of_data_blocks * A1FS_BLOCK_SIZE <= size
    BY DEF MountAgrees
  <1> DEFINE T == superblock.inode_table_length
             R == ReservedBlocks(superblock)
             n == fs.num_of_data_blocks
  <1>1. MountedAt /\ LaidOut(superblock)
    BY DEF MkfsInv, Accepted
  <1>2. fs.data_bitmap = superblock.data_bitmap /\ fs.inode_table = superblock.inode_table
    BY <1>1 DEF MountedAt, LaidOut
  <1>3. /\ superblock \in Superblocks /\ size \in Nat
        /\ A1FS_BLOCK_SIZE \in Nat /\ A1FS_BLOCK_SIZE > 0 /\ InodeSize \in Nat
    BY GeometryAssumption DEF MkfsInv, MkfsTypeOK
  <1>4. /\ T \in Nat /\ R \in Nat /\ superblock.num_inodes \in Nat
        /\ superblock.inode_bitmap_length \in Nat /\ superblock.data_bitmap_length \in Nat
    BY <1>3 DEF Superblocks, ReservedBlocks
  <1>5. fs.inode_table + superblock.num_inodes * InodeSize <= fs.data_block
    <2>1. /\ fs.inode_table = InodeTableAt(superblock)
          /\ fs.data_block = InodeTableAt(superblock) + T * A1FS_BLOCK_SIZE
          /\ T * A1FS_BLOCK_SIZE >= superblock.num_inodes * InodeSize
      BY <1>1, AcceptedGeometry DEF MountedAt
    <2>2. InodeTableAt(superblock) \in Nat
      BY <1>3, <1>4, BytesInOrder, AcceptedGeometry
    <2>3. T * A1FS_BLOCK_SIZE \in Nat /\ superblock.num_inodes * InodeSize \in Nat
      BY <1>3, <1>4
    <2> QED
      BY <2>1, <2>2, <2>3
  <1>6. fs.data_block + n * A1FS_BLOCK_SIZE <= size
    <2>1. n \in Nat /\ n <= DataBlockCount
      BY <1>1 DEF MountedAt, Accepted
    <2>2. NumBlocks \in Nat /\ DataBlockCount \in Nat /\ NumBlocks = R + DataBlockCount
      <3>1. NumBlocks \in Nat
        BY <1>3 DEF NumBlocks
      <3> QED
        BY <3>1, <1>4, AcceptedGeometry DEF DataBlockCount
    <2>3. n * A1FS_BLOCK_SIZE \in Nat
          /\ n * A1FS_BLOCK_SIZE <= DataBlockCount * A1FS_BLOCK_SIZE
      BY <2>1, <2>2, BytesInOrder
    <2>4. NumBlocks * A1FS_BLOCK_SIZE = R * A1FS_BLOCK_SIZE + DataBlockCount * A1FS_BLOCK_SIZE
      BY <1>3, <1>4, <2>2
    <2>5. fs.data_block = R * A1FS_BLOCK_SIZE /\ size = NumBlocks * A1FS_BLOCK_SIZE
      BY <1>1, AcceptedGeometry DEF MountedAt
    <2>6. R * A1FS_BLOCK_SIZE \in Nat /\ DataBlockCount * A1FS_BLOCK_SIZE \in Nat
      BY <1>3, <1>4, <2>2
    <2> HIDE DEF n, R
    <2> QED
      BY <2>3, <2>4, <2>5, <2>6
  <1> QED
    BY <1>2, <1>5, <1>6

(***************************************************************************)
(* The one block a first mkfs leaves dirty comes after the bitmaps.        *)
(***************************************************************************)
LEMMA InvBitmapsStartClear ==
    MkfsInv => BitmapsStartClear
  <1> SUFFICES ASSUME MkfsInv, Accepted, life = "fresh", ~predecessor
               PROVE  dirty \cap 1 .. superblock.inode_bitmap_length
                                      + superblock.data_bitmap_length = {}
    BY DEF BitmapsStartClear
  <1> DEFINE A == superblock.inode_bitmap_length
             D == superblock.data_bitmap_length
  <1>1. A \in Nat /\ D \in Nat
    BY DEF MkfsInv, MkfsTypeOK, Superblocks
  <1>2. dirty \subseteq {superblock.inode_table \div A1FS_BLOCK_SIZE}
    BY DEF MkfsInv, DirtyFrom
  <1>3. superblock.inode_table = (1 + A + D) * A1FS_BLOCK_SIZE
    BY AcceptedGeometry DEF MkfsInv, Accepted, LaidOut
  <1>4. superblock.inode_table \div A1FS_BLOCK_SIZE = 1 + A + D
    BY <1>1, <1>3, BytesInOrder
  <1> QED
    BY <1>1, <1>2, <1>4

-----------------------------------------------------------------------------
(* The invariant is kept. *)

(***************************************************************************)
(* What mkfs stores before the root's bit.                                 *)
(***************************************************************************)
LEMMA ClaimedSuperblock ==
    ASSUME size \in Nat, NEW old \in Superblocks, NEW i \in Nat
    PROVE  /\ Claimed(old, i) \in Superblocks
           /\ Claimed(old, i).num_inodes < WordSize
           /\ Claimed(old, i).available_inodes = Word(Claimed(old, i).num_inodes - 1)
  <1>1. Word(i) \in Nat /\ Word(i) < WordSize
    BY WordFits
  <1>2. Word(Word(i) - 1) \in Nat
    BY <1>1, WordFits
  <1> QED
    BY <1>1, <1>2 DEF Claimed, Superblocks

(***************************************************************************)
(* What mkfs stores after it: the parts where LaidOut has them.            *)
(***************************************************************************)
LEMMA LaidSuperblock ==
    ASSUME size \in Nat, NEW sb \in Superblocks
    PROVE  /\ Laid(sb) \in Superblocks
           /\ Laid(sb).num_inodes = sb.num_inodes
           /\ Laid(sb).available_inodes = sb.available_inodes
           /\ Laid(sb).available_blocks =
                Word(Room(Laid(sb)) - Laid(sb).data_bitmap_length
                                    - Laid(sb).inode_table_length)
           /\ Accepts(Laid(sb)) => LaidOut(Laid(sb))
  <1> DEFINE A == roundup(sb.num_inodes)
             room == Word(Word(size) \div A1FS_BLOCK_SIZE - 1 - A)
             D == roundup(room)
             T == roundup(sb.num_inodes * InodeSize)
             db == A1FS_BLOCK_SIZE + Bytes(A)
             it == db + Bytes(D)
             free == Word(room - D - T)
             laid == [sb EXCEPT !.inode_bitmap_length = A,
                                !.data_bitmap = db,
                                !.data_bitmap_length = D,
                                !.inode_table = it,
                                !.inode_table_length = T,
                                !.available_blocks = free]
  <1>1. Laid(sb) = laid
    BY DEF Laid
  <1>2. A1FS_BLOCK_SIZE \in Nat /\ A1FS_BLOCK_SIZE > 0 /\ InodeSize \in Nat
        /\ sb.num_inodes \in Nat /\ sb.num_inodes * InodeSize \in Nat
    <2>1. A1FS_BLOCK_SIZE \in Nat /\ A1FS_BLOCK_SIZE > 0 /\ InodeSize \in Nat
          /\ sb.num_inodes \in Nat
      BY GeometryAssumption DEF Superblocks
    <2> QED
      BY <2>1
  <1>3. A \in Nat /\ T \in Nat
    BY <1>2, RoundupCovers
  <1>4. room \in Nat
    <2>1. Word(size) \in Nat
      BY WordFits
    <2>2. Word(size) \div A1FS_BLOCK_SIZE - 1 - A \in Int
      BY <2>1, <1>2, <1>3
    <2> QED
      BY <2>2, WordFits
  <1>5. D \in Nat
    BY <1>4, RoundupCovers
  <1>6. Bytes(A) \in Nat /\ Bytes(D) \in Nat
    <2>1. A * A1FS_BLOCK_SIZE \in Int /\ D * A1FS_BLOCK_SIZE \in Int
      BY <1>2, <1>3, <1>5
    <2> QED
      BY <2>1, WordFits DEF Bytes
  <1>7. free \in Nat
    BY <1>3, <1>4, <1>5, WordFits
  <1>8. db \in Nat /\ it \in Nat
    BY <1>2, <1>6
  <1> HIDE DEF A, room, D, T, db, it, free
  <1>9. /\ laid \in Superblocks
        /\ laid.num_inodes = sb.num_inodes
        /\ laid.available_inodes = sb.available_inodes
        /\ laid.inode_bitmap_length = A
        /\ laid.data_bitmap_length = D
        /\ laid.inode_table_length = T
        /\ laid.data_bitmap = db
        /\ laid.inode_table = it
        /\ laid.available_blocks = free
    BY <1>3, <1>5, <1>7, <1>8 DEF Superblocks
  <1> HIDE DEF laid
  <1>10. Room(laid) = room
    BY <1>9 DEF Room, room
  <1>11. DataBitmapAt(laid) = db /\ InodeTableAt(laid) = it
    BY <1>9 DEF DataBitmapAt, InodeTableAt, db, it
  <1>12. Accepts(laid) => LaidOut(laid)
    BY <1>9, <1>10, <1>11 DEF Accepts, LaidOut, A, D, T
  <1> QED
    BY <1>1, <1>9, <1>10, <1>12 DEF free

(***************************************************************************)
(* What mkfs counts as free is what the geometry leaves.                   *)
(***************************************************************************)
LEMMA LaidCounter ==
    ASSUME size \in Nat, Mappable,
           NEW sb \in Superblocks, LaidOut(sb),
           sb.available_blocks =
                Word(Room(sb) - sb.data_bitmap_length - sb.inode_table_length),
           size < WordSize, sb.num_inodes > 0,
           ReservedBlocks(sb) * A1FS_BLOCK_SIZE < WordSize
    PROVE  sb.available_blocks = NumBlocks - ReservedBlocks(sb)
  <1> DEFINE A == sb.inode_bitmap_length
             D == sb.data_bitmap_length
             T == sb.inode_table_length
  <1>1. A \in Nat /\ D \in Nat /\ T \in Nat /\ WordSize \in Nat
    BY GeometryAssumption DEF Superblocks
  <1>2. /\ Room(sb) = NumBlocks - 1 - A
        /\ Room(sb) \in Nat /\ Room(sb) < WordSize
        /\ NumBlocks - ReservedBlocks(sb) \in Nat \ {0}
    BY Geometry
  <1>3. NumBlocks \in Nat
    BY GeometryAssumption DEF NumBlocks
  <1>4. NumBlocks - ReservedBlocks(sb) = Room(sb) - D - T
    BY <1>1, <1>2, <1>3 DEF ReservedBlocks
  <1>5. Room(sb) - D - T \in 0 .. WordSize - 1
    BY <1>1, <1>2, <1>4
  <1>6. \A n \in 0 .. WordSize - 1 : Word(n) = n
    BY WordFits, <1>1
  <1> QED
    BY <1>4, <1>5, <1>6

(***************************************************************************)
(* The invariant holds before the first mkfs.                              *)
(***************************************************************************)
LEMMA InitMkfsInv ==
    Init => MkfsInv
  <1> SUFFICES ASSUME Init PROVE MkfsInv
    OBVIOUS
  <1>1. size \in Nat /\ life = "none"
    BY GeometryAssumption DEF Init
  <1>2. BlankSuperblock \in Superblocks /\ BlankSuperblock.num_inodes < WordSize
    BY GeometryAssumption DEF BlankSuperblock, Superblocks
  <1>3. predecessor = (dirty # {})
    BY DEF Init
  <1>4. predecessor \in BOOLEAN /\ (~predecessor => dirty = {})
    BY <1>3
  <1> QED
    BY <1>1, <1>2, <1>4 DEF Init, MkfsInv, MkfsTypeOK, DirtyFrom

(***************************************************************************)
(* A run of mkfs keeps it, whether it refuses, is killed or is done.       *)
(***************************************************************************)
LEMMA FormatKeeps ==
    ASSUME MkfsInv,
           NEW i \in Nat, NEW force \in BOOLEAN, NEW zero \in BOOLEAN,
           Format(i, force, zero)
    PROVE  MkfsInv'
  <1> DEFINE old == IF zero THEN BlankSuperblock ELSE superblock
             rest == IF zero THEN Zeroed(dirty) ELSE dirty
             claimed == Claimed(old, i)
             laid == Laid(claimed)
  <1>1. size' = size /\ fs' = fs /\ ~fs.mounted
    BY DEF Format
  <1>2. CASE Refuse
    <2>1. UNCHANGED vars \/ (ret' = "failed" /\ UNCHANGED <<size, superblock, dirty, life, predecessor, fs>>)
      BY <1>1, <1>2 DEF Refuse
    <2>2. UNCHANGED <<size, superblock, dirty, life, predecessor, fs>>
      BY <2>1 DEF vars
    <2> QED
      BY <2>2 DEF MkfsInv, MkfsTypeOK, Mappable, LaidOut, CountersInRange, MountedAt, DirtyFrom,
                  FitsWords, DataBlockCount, NumBlocks, ReservedBlocks, Room,
                  DataBitmapAt, InodeTableAt, DataBlockAt, Word, roundup, Bytes
  <1>3. CASE /\ Mappable
             /\ mkfs(old, rest, i)
             /\ predecessor' = (~zero /\ (predecessor \/ life # "none"))
    <2>1. size \in Nat /\ old \in Superblocks
      <3>1. BlankSuperblock \in Superblocks
        BY DEF BlankSuperblock, Superblocks
      <3> QED
        BY <3>1 DEF MkfsInv, MkfsTypeOK
    <2>2. /\ claimed \in Superblocks
          /\ claimed.num_inodes < WordSize
          /\ claimed.available_inodes = Word(claimed.num_inodes - 1)
      BY <2>1, ClaimedSuperblock
    <2>3. /\ laid \in Superblocks
          /\ laid.num_inodes = claimed.num_inodes
          /\ laid.available_inodes = claimed.available_inodes
          /\ laid.available_blocks =
                Word(Room(laid) - laid.data_bitmap_length - laid.inode_table_length)
          /\ Accepts(laid) => LaidOut(laid)
      BY <2>1, <2>2, LaidSuperblock
    <2>4. predecessor' \in BOOLEAN /\ (~predecessor' => rest = {})
      <3>1. predecessor' = (~zero /\ (predecessor \/ life # "none"))
        BY <1>3
      <3>2. zero => rest = {}
        BY DEF Zeroed
      <3>3. ~zero => rest = dirty
        OBVIOUS
      <3>4. ~predecessor /\ life = "none" => dirty = {}
        BY DEF MkfsInv, DirtyFrom
      <3> QED
        BY <3>1, <3>2, <3>3, <3>4
    <2> HIDE DEF rest, laid, claimed
    <2>5. CASE \/ superblock' = claimed /\ dirty' = rest /\ life' = "none"
               \/ superblock' = laid /\ dirty' = rest /\ life' = "none"
      BY <2>5, <2>1, <2>2, <2>3, <2>4, <1>1 DEF MkfsInv, MkfsTypeOK, DirtyFrom
    <2>6. CASE /\ superblock' = laid
               /\ dirty' = rest \cup (RootInodeBlock(laid) \cap LaterBlocks)
               /\ life' = IF Accepts(laid) THEN "fresh" ELSE "none"
      <3>1. MkfsTypeOK'
        BY <2>6, <2>1, <2>2, <2>3, <2>4, <1>1 DEF MkfsTypeOK
      <3>2. DirtyFrom'
        BY <2>6, <2>4 DEF DirtyFrom, RootInodeBlock
      <3>3. ASSUME life' # "none"
            PROVE  Mappable' /\ LaidOut(superblock)' /\ CountersInRange'
        <4>1. LaidOut(laid) /\ life' = "fresh"
          BY <3>3, <2>6, <2>3
        <4>2. Mappable' /\ LaidOut(superblock)'
          BY <1>1, <1>3, <4>1, <2>6
             DEF Mappable, LaidOut, ReservedBlocks, Room, DataBitmapAt, InodeTableAt,
                 Word, roundup, Bytes
        <4>3. ASSUME FitsWords'
              PROVE  (superblock.available_blocks <= DataBlockCount)'
          <5>1. /\ size < WordSize
                /\ laid.num_inodes > 0
                /\ ReservedBlocks(laid) * A1FS_BLOCK_SIZE < WordSize
            BY <4>3, <1>1, <2>6 DEF FitsWords, ReservedBlocks
          <5>2. laid.available_blocks = NumBlocks - ReservedBlocks(laid)
            BY <5>1, <4>1, <2>1, <2>3, <1>3, LaidCounter
          <5>3. NumBlocks - ReservedBlocks(laid) = DataBlockCount'
            BY <1>1, <2>6 DEF DataBlockCount, NumBlocks, ReservedBlocks
          <5>4. laid.available_blocks \in Nat
            BY <2>3 DEF Superblocks
          <5> QED
            BY <5>2, <5>3, <5>4, <2>6
        <4>4. /\ superblock'.available_blocks =
                    Word(Room(superblock) - superblock.data_bitmap_length
                                          - superblock.inode_table_length)'
              /\ superblock'.available_inodes = Word(superblock.num_inodes - 1)'
          BY <1>1, <2>2, <2>3, <2>6 DEF Room, Word
        <4> QED
          BY <4>2, <4>3, <4>4 DEF CountersInRange
      <3> QED
        BY <3>1, <3>2, <3>3, <1>1 DEF MkfsInv
    <2> QED
      BY <1>3, <2>5, <2>6 DEF mkfs, laid, claimed
  <1> QED
    BY <1>2, <1>3 DEF Format

(***************************************************************************)
(* A step that leaves the image and its history alone keeps it, when the   *)
(* context it ends with is none or the one the superblock calls for.       *)
(***************************************************************************)
LEMMA SameImageKeeps ==
    ASSUME MkfsInv,
           UNCHANGED <<size, superblock, dirty, life, predecessor>>,
           life # "none" /\ fs'.mounted => MountedAt'
    PROVE  MkfsInv'
  BY DEF MkfsInv, MkfsTypeOK, Mappable, LaidOut, CountersInRange, DirtyFrom,
         FitsWords, DataBlockCount, NumBlocks, ReservedBlocks, Room,
         DataBitmapAt, InodeTableAt, Word, roundup, Bytes

(***************************************************************************)
(* The driver's mount keeps it: the count it takes is the counter.         *)
(***************************************************************************)
LEMMA MountKeeps ==
    ASSUME MkfsInv, Mount
    PROVE  MkfsInv'
  <1>1. UNCHANGED <<size, superblock, dirty, life, predecessor>>
    BY DEF Mount
  <1>2. ASSUME life # "none"
        PROVE  MountedAt'
    <2>1. /\ fs'.data_bitmap = DataBitmapAt(superblock)
          /\ fs'.inode_table = InodeTableAt(superblock)
          /\ fs'.data_block = DataBlockAt(superblock)
          /\ fs'.num_of_data_blocks = superblock.available_blocks
      BY DEF Mount
    <2>2. superblock.available_blocks \in Nat
      BY DEF MkfsInv, MkfsTypeOK, Superblocks
    <2>3. FitsWords => superblock.available_blocks <= DataBlockCount
      BY <1>2 DEF MkfsInv, CountersInRange
    <2> QED
      BY <1>1, <2>1, <2>2, <2>3
         DEF MountedAt, DataBitmapAt, InodeTableAt, DataBlockAt, FitsWords, DataBlockCount,
             NumBlocks, ReservedBlocks, Word, Bytes
  <1> QED
    BY <1>1, <1>2, SameImageKeeps

(***************************************************************************)
(* The driver's use of a mounted image keeps it: only the counters of the  *)
(* superblock change, and the image is no longer fresh.                    *)
(***************************************************************************)
LEMMA UseKeeps ==
    ASSUME MkfsInv, Use
    PROVE  MkfsInv'
  <1>1. PICK b \in 0 .. DataBlockCount, n \in 0 .. superblock.num_inodes - 1 :
           superblock' = [superblock EXCEPT !.available_blocks = b, !.available_inodes = n]
    BY DEF Use
  <1>2. /\ life # "none" /\ fs.mounted
        /\ life' = "used"
        /\ UNCHANGED <<size, predecessor, fs>>
    BY DEF Use
  <1>3. /\ superblock \in Superblocks
        /\ Mappable /\ LaidOut(superblock) /\ MountedAt
    BY <1>2 DEF MkfsInv, MkfsTypeOK
  <1>4. b \in Nat /\ n \in Nat
    BY <1>3, GeometryAssumption, AcceptedGeometry DEF Superblocks, Use, Accepted
  <1>5. /\ superblock' \in Superblocks
        /\ superblock'.num_inodes = superblock.num_inodes
        /\ superblock'.inode_bitmap_length = superblock.inode_bitmap_length
        /\ superblock'.data_bitmap_length = superblock.data_bitmap_length
        /\ superblock'.inode_table_length = superblock.inode_table_length
        /\ superblock'.data_bitmap = superblock.data_bitmap
        /\ superblock'.inode_table = superblock.inode_table
        /\ superblock'.available_blocks = b
    BY <1>1, <1>3, <1>4 DEF Superblocks
  <1>6. MkfsTypeOK'
    BY <1>2, <1>5 DEF MkfsInv, MkfsTypeOK
  <1>7. ReservedBlocks(superblock)' = ReservedBlocks(superblock)
    BY <1>5 DEF ReservedBlocks
  <1>8. Mappable' /\ LaidOut(superblock)'
    BY <1>2, <1>3, <1>5, <1>7
       DEF Mappable, LaidOut, Room, DataBitmapAt, InodeTableAt, Word, roundup, Bytes
  <1>9. DataBlockCount' = DataBlockCount /\ (FitsWords' <=> FitsWords)
    BY <1>2, <1>5, <1>7 DEF DataBlockCount, NumBlocks, FitsWords
  <1>10. CountersInRange'
    <2>1. DataBlockCount \in Nat
      BY <1>2, AcceptedGeometry DEF Use, Accepted
    <2> QED
      BY <2>1, <1>2, <1>5, <1>9 DEF CountersInRange
  <1>11. MountedAt'
    BY <1>2, <1>3, <1>5, <1>9
       DEF MountedAt, DataBitmapAt, InodeTableAt, DataBlockAt, Word, Bytes
  <1>12. DirtyFrom'
    BY <1>2 DEF DirtyFrom
  <1> QED
    BY <1>6, <1>8, <1>10, <1>11, <1>12 DEF MkfsInv

(***************************************************************************)
(* Every step keeps it.                                                    *)
(***************************************************************************)
LEMMA NextKeepsMkfsInv ==
    MkfsInv /\ [Next]_vars => MkfsInv'
  <1> SUFFICES ASSUME MkfsInv, [Next]_vars
               PROVE  MkfsInv'
    OBVIOUS
  <1>1. CASE \E i \in InodeCounts, force, zero \in BOOLEAN : Format(i, force, zero)
    BY <1>1, FormatKeeps, GeometryAssumption
  <1>2. CASE Mount
    BY <1>2, MountKeeps
  <1>3. CASE Unmount
    BY <1>3, SameImageKeeps DEF Unmount, NotMounted
  <1>4. CASE Use
    BY <1>4, UseKeeps
  <1>5. CASE UNCHANGED vars
    <2>1. UNCHANGED <<size, superblock, dirty, life, predecessor>> /\ fs' = fs
      BY <1>5 DEF vars
    <2>2. life # "none" /\ fs'.mounted => MountedAt'
      BY <2>1
         DEF MkfsInv, MountedAt, DataBitmapAt, InodeTableAt, DataBlockAt, FitsWords,
             DataBlockCount, NumBlocks, ReservedBlocks, Word, Bytes
    <2> QED
      BY <2>1, <2>2, SameImageKeeps
  <1> QED
    BY <1>1, <1>2, <1>3, <1>4, <1>5 DEF Next

-----------------------------------------------------------------------------
(* The theorems. *)

(***************************************************************************)
(* The inductive invariant: the superblock of an accepted image has the    *)
(* fields that its number of inodes and the size of the file call for.     *)
(***************************************************************************)
THEOREM ImageInvariant ==
    Spec => []MkfsInv
  <1> QED
    BY InitMkfsInv, NextKeepsMkfsInv, PTL DEF Spec

(***************************************************************************)
(* An accepted image has room for what it promises (mkfs, mkfs.c:127-191), *)
(* for every size of the file, number of inodes and width of the integers. *)
(***************************************************************************)
THEOREM AcceptedImagesFit ==
    Spec => []AcceptedFits
  <1> QED
    BY ImageInvariant, InvAcceptedFits, PTL

(***************************************************************************)
(* The driver computes the addresses that mkfs stored, and its data blocks *)
(* end with the image (fs_ctx_init, fs_ctx.c:39-52).                       *)
(***************************************************************************)
THEOREM MountFindsTheParts ==
    Spec => []MountAgrees
  <1> QED
    BY ImageInvariant, InvMountAgrees, PTL

(***************************************************************************)
(* No attempt at a file system leaves bytes in a later one's bitmaps,      *)
(* unless a file system was there before (mkfs.c:141, 172, 189, 220).      *)
(***************************************************************************)
THEOREM FirstBitmapsAreClear ==
    Spec => []BitmapsStartClear
  <1> QED
    BY ImageInvariant, InvBitmapsStartClear, PTL
=============================================================================
