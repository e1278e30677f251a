------------------------------ MODULE Namespace ------------------------------
(***************************************************************************)
(* The directory operations of a1fs (mkdir, rmdir, create, unlink) over    *)
(* the structures they share: inode and data bitmaps, the free counters of *)
(* the superblock, the inode table, and each directory's extents and       *)
(* entries.  FUSE runs the driver single-threaded (options.c adds "-s"), so*)
(* one callback is one step.                                               *)
(***************************************************************************)
EXTENDS Bitmaps, SequencesExt

CONSTANTS
    NumInodes,         \* superblock.num_inodes
    NumBlocks,         \* data blocks that lie inside the image
    DentriesPerBlock,  \* A1FS_BLOCK_SIZE / sizeof(a1fs_dentry), 16 in the code
    MaxExtents,        \* extents that fit in an indirect block, 512 in the code
    Names              \* path components

ASSUME NumInodesAssumption == NumInodes \in Nat \ {0}
ASSUME NumBlocksAssumption == NumBlocks \in Nat \ {0}
ASSUME DentriesAssumption  == DentriesPerBlock \in Nat \ {0, 1}
ASSUME ExtentsAssumption   == MaxExtents \in Nat \ {0}

VARIABLES
    inodeBitmap,       \* inodes whose bit is set
    dataBitmap,        \* data blocks whose bit is set
    availableInodes,   \* superblock.available_inodes
    availableBlocks,   \* superblock.available_blocks
    numOfDataBlocks,   \* fs_ctx.num_of_data_blocks: how far a search goes
    itable,            \* inode -> mode, links, size (of a regular file)
    indirect,          \* inode -> block indirect_pt designates while it has extents
    extents,           \* inode -> the first extent_num extents of that block
    entries,           \* inode -> the first num_dir_entry directory entries
    status,            \* what became of the driver process
    ret                \* what the last callback returned

allocVars == <<inodeBitmap, dataBitmap, availableInodes, availableBlocks>>
fileVars  == <<itable, indirect, extents, entries>>
vars      == <<allocVars, fileVars, numOfDataBlocks, status, ret>>

Inodes     == 0 .. NumInodes - 1
ROOT_INODE == 0
NoBlock    == -1

Modes   == {"none", "dir", "reg"}
Status  == {"mounted", "killed", "overrun"}
Returns == {"none", "ok", "ENOSPC", "ENOTEMPTY"}

Extent == [start : Nat, count : Nat]
Dentry == [name : Names, ino : Inodes]
Inode  == [mode : Modes, links : Int, size : Nat]

-----------------------------------------------------------------------------
(* What the structures say about one inode. *)

\* get_num_blks_of_file: the data blocks of the extents, the indirect one apart.
get_num_blks_of_file(i) ==
    MapThenSumSet(LAMBDA k : extents[i][k].count, DOMAIN extents[i])

\* find_last_block: the last block of the last extent.
find_last_block(i) == Last(extents[i]).start + Last(extents[i]).count - 1

ExtentBlocks(e) == e.start .. e.start + e.count - 1

DataBlocks(i) == UNION {ExtentBlocks(extents[i][k]) : k \in DOMAIN extents[i]}

OwnedBlocks(i) ==
    IF extents[i] = <<>> THEN {} ELSE {indirect[i]} \cup DataBlocks(i)

\* i is the root, or some directory has an entry for it.
Linked(i) ==
    \/ i = ROOT_INODE
    \/ \E d \in Inodes : \E k \in DOMAIN entries[d] : entries[d][k].ino = i

IsDirectory(i) == itable[i].mode = "dir" /\ Linked(i)

HasEntry(d, nm) == \E k \in DOMAIN entries[d] : entries[d][k].name = nm

\* The entry path_lookup stops at when it looks for nm in d: the first match.
Lookup(d, nm) ==
    LET es == entries[d]
        k  == CHOOSE j \in DOMAIN es :
                 /\ es[j].name = nm
                 /\ \A l \in 1 .. j - 1 : es[l].name # nm
    IN  es[k].ino

-----------------------------------------------------------------------------
(* An image formatted by mkfs and mounted for the first time. *)

FreshInode(m) == [mode |-> m, links |-> IF m = "dir" THEN 2 ELSE 1, size |-> 0]

\* The image with the data bits old left over from an earlier file system.
Formatted(old) ==
    /\ inodeBitmap = {ROOT_INODE}
    /\ dataBitmap = old
    /\ availableInodes = NumInodes - 1
    /\ availableBlocks = NumBlocks
    /\ numOfDataBlocks = NumBlocks
    /\ itable = [i \in Inodes |-> IF i = ROOT_INODE
                                    THEN FreshInode("dir")
                                    ELSE [mode |-> "none", links |-> 0, size |-> 0]]
    /\ indirect = [i \in Inodes |-> NoBlock]
    /\ extents = [i \in Inodes |-> <<>>]
    /\ entries = [i \in Inodes |-> <<>>]
    /\ status = "mounted"
    /\ ret = "none"

Init == Formatted({})

(***************************************************************************)
(* fs_ctx_init on an image that holds a file system.  The number of data   *)
(* blocks a search may visit is read from the superblock's count of FREE   *)
(* blocks.  A driver killed in a callback is mounted again on whatever its *)
(* stores into the shared mapping left behind.  The image is mapped at the *)
(* address it had before, so that the pointers kept in inodes stay valid.  *)
(***************************************************************************)
Mount ==
    /\ status \in {"mounted", "killed"}
    /\ status' = "mounted"
    /\ numOfDataBlocks' = availableBlocks
    /\ ret' = "none"
    /\ UNCHANGED <<allocVars, fileVars>>

-----------------------------------------------------------------------------
(* mkdir and create: a new inode m ("dir" or "reg") entered as nm in p. *)

NewInode == get_first_available_position(NumInodes, inodeBitmap)

\* Mistakes: the counter or the bit is forgotten.
TakeInodeUncounted ==
    /\ inodeBitmap' = set_bitmap(inodeBitmap, NewInode)
    /\ UNCHANGED availableInodes

TakeInodeUnmarked ==
    /\ availableInodes' = availableInodes - 1
    /\ UNCHANGED inodeBitmap

\* The lowest clear inode bit is set before anything else is looked at.
TakeInode ==
    /\ inodeBitmap' = set_bitmap(inodeBitmap, NewInode)
    /\ availableInodes' = availableInodes - 1

\* Mistake: create adds a link to the parent as mkdir does.
EnterInLinkingFiles(p, nm, m) ==
    /\ itable' = [itable EXCEPT ![NewInode] = FreshInode(m), ![p].links = @ + 1]
    /\ entries' = [entries EXCEPT
                    ![NewInode] = <<>>,
                    ![p] = Append(@, [name |-> nm, ino |-> NewInode])]

\* The entry is stored and the parent's counts are updated.
EnterIn(p, nm, m) ==
    /\ itable' = [itable EXCEPT
                    ![NewInode] = FreshInode(m),
                    ![p].links  = IF m = "dir" THEN @ + 1 ELSE @]
    /\ entries' = [entries EXCEPT
                    ![NewInode] = <<>>,
                    ![p] = Append(@, [name |-> nm, ino |-> NewInode])]

\* The callback ends with the inode allocated and nothing entered in the parent.
AbandonInode(m) ==
    /\ itable' = [itable EXCEPT ![NewInode] = FreshInode(m)]
    /\ entries' = [entries EXCEPT ![NewInode] = <<>>]
    /\ extents' = [extents EXCEPT ![NewInode] = <<>>]
    /\ UNCHANGED indirect

FailNoSpace(m) == AbandonInode(m) /\ ret' = "ENOSPC" /\ UNCHANGED status

Die(m) == AbandonInode(m) /\ ret' = "none" /\ status' = "killed"

TakeBlocks(B) ==
    /\ dataBitmap' = dataBitmap \cup B
    /\ availableBlocks' = availableBlocks - Cardinality(B)

Succeed == ret' = "ok" /\ UNCHANGED status

Overrun == ret' = "ok" /\ status' = "overrun"

(***************************************************************************)
(* The parent is empty: it gets an indirect block and a first data block.  *)
(* Each allocation is preceded by the same test of both counters, made     *)
(* after the new inode was taken.                                          *)
(***************************************************************************)
AddToEmptyParent(p, nm, m) ==
    LET ib == get_first_available_position(numOfDataBlocks, dataBitmap)
        db == get_first_available_position(numOfDataBlocks, set_bitmap(dataBitmap, ib))
    IN  /\ entries[p] = <<>>
        /\ \/ /\ availableInodes - 1 = 0
              /\ TakeBlocks({}) /\ FailNoSpace(m)
           \/ /\ availableInodes - 1 > 0
              /\ ib = NotFound
              /\ TakeBlocks({}) /\ Die(m)
           \/ /\ availableInodes - 1 > 0
              /\ ib # NotFound
              /\ availableBlocks - 1 = 0
              /\ TakeBlocks({ib}) /\ FailNoSpace(m)
           \/ /\ availableInodes - 1 > 0
              /\ ib # NotFound
              /\ availableBlocks - 1 > 0
              /\ db = NotFound
              /\ TakeBlocks({ib}) /\ Die(m)
           \/ /\ availableInodes - 1 > 0
              /\ ib # NotFound
              /\ availableBlocks - 1 > 0
              /\ db # NotFound
              /\ TakeBlocks({ib, db})
              /\ indirect' = [indirect EXCEPT ![p] = ib]
              /\ extents' = [extents EXCEPT
                               ![NewInode] = <<>>,
                               ![p] = <<[start |-> db, count |-> 1]>>]
              /\ EnterIn(p, nm, m)
              /\ Succeed

\* The parent's last block has room for one more entry.
AddToLastBlock(p, nm, m) ==
    /\ Len(entries[p]) % DentriesPerBlock # 0
    /\ TakeBlocks({})
    /\ extents' = [extents EXCEPT ![NewInode] = <<>>]
    /\ UNCHANGED indirect
    /\ EnterIn(p, nm, m)
    /\ Succeed

(***************************************************************************)
(* The last block is full and the bit after it is clear: the last extent   *)
(* grows by one block.  Nothing compares the block with the number of      *)
(* blocks; beyond the image the first store into it either kills the       *)
(* driver or lands in memory that is not the image's.                      *)
(***************************************************************************)
AddToNextBlock(p, nm, m) ==
    LET b == find_last_block(p) + 1
    IN  /\ entries[p] # <<>>
        /\ Len(entries[p]) % DentriesPerBlock = 0
        /\ ~is_bit_set(b, dataBitmap)
        /\ TakeBlocks({b})
        /\ \/ /\ extents' = [extents EXCEPT
                               ![NewInode] = <<>>,
                               ![p][Len(extents[p])].count = @ + 1]
              /\ UNCHANGED indirect
              /\ EnterIn(p, nm, m)
              /\ IF b < NumBlocks THEN Succeed ELSE Overrun
           \/ b >= NumBlocks /\ Die(m)

(***************************************************************************)
(* The last block is full and the bit after it is set: a new extent.  Its  *)
(* index is not compared with the size of the indirect block, and the      *)
(* first extent too many is stored in the block that follows it.           *)
(***************************************************************************)
AddToNewExtent(p, nm, m) ==
    LET b == get_first_available_position(numOfDataBlocks, dataBitmap)
    IN  /\ entries[p] # <<>>
        /\ Len(entries[p]) % DentriesPerBlock = 0
        /\ is_bit_set(find_last_block(p) + 1, dataBitmap)
        /\ \/ /\ availableInodes - 1 = 0
              /\ TakeBlocks({}) /\ FailNoSpace(m)
           \/ /\ availableInodes - 1 > 0
              /\ b = NotFound
              /\ TakeBlocks({}) /\ Die(m)
           \/ /\ availableInodes - 1 > 0
              /\ b # NotFound
              /\ TakeBlocks({b})
              /\ extents' = [extents EXCEPT
                               ![NewInode] = <<>>,
                               ![p] = Append(@, [start |-> b, count |-> 1])]
              /\ UNCHANGED indirect
              /\ EnterIn(p, nm, m)
              /\ IF Len(extents[p]) < MaxExtents THEN Succeed ELSE Overrun

AddEntry(p, nm, m) ==
    /\ status = "mounted"
    /\ IsDirectory(p)
    /\ ~HasEntry(p, nm)
    /\ UNCHANGED numOfDataBlocks
    /\ \/ /\ availableInodes = 0 \/ availableBlocks = 0
          /\ ret' = "ENOSPC"
          /\ UNCHANGED <<allocVars, fileVars, status>>
       \/ /\ availableInodes > 0 /\ availableBlocks > 0
          /\ TakeInode
          /\ \/ AddToEmptyParent(p, nm, m)
             \/ AddToLastBlock(p, nm, m)
             \/ AddToNextBlock(p, nm, m)
             \/ AddToNewExtent(p, nm, m)

\* FUSE has looked the path up: p is a directory and has no entry nm.
Mkdir(p, nm) == AddEntry(p, nm, "dir")

Create(p, nm) == AddEntry(p, nm, "reg")

-----------------------------------------------------------------------------
(* rmdir and unlink: the entry of inode t leaves directory p. *)

\* Mistakes: the last entry is copied and kept, or dropped and not moved.
WithoutEntryKeepingLast(es, t) ==
    IF Last(es).ino = t
      THEN Front(es)
      ELSE [k \in DOMAIN es |-> IF es[k].ino = t THEN Last(es) ELSE es[k]]

WithoutLastEntry(es, t) == Front(es)

\* The last entry takes the place of the first entry for t, then is dropped.
WithoutEntry(es, t) ==
    IF Last(es).ino = t
      THEN Front(es)
      ELSE LET k == CHOOSE j \in DOMAIN es :
                       es[j].ino = t /\ \A l \in 1 .. j - 1 : es[l].ino # t
           IN  Front([es EXCEPT ![k] = Last(es)])

\* Mistakes: the last block is freed one entry too early, or the
\* indirect block stays set.
BlocksGivenBackEarly(p) ==
    LET n == Len(entries[p])
    IN  IF n = 1 THEN {find_last_block(p), indirect[p]}
        ELSE IF n % DentriesPerBlock = 0 THEN {find_last_block(p)}
        ELSE {}

BlocksGivenBackButIndirect(p) ==
    LET n == Len(entries[p])
    IN  IF n = 1 \/ n % DentriesPerBlock = 1 THEN {find_last_block(p)} ELSE {}

\* The blocks a parent with n entries gives back with its last one.
BlocksGivenBack(p) ==
    LET n == Len(entries[p])
    IN  IF n = 1 THEN {find_last_block(p), indirect[p]}
        ELSE IF n % DentriesPerBlock = 1 THEN {find_last_block(p)}
        ELSE {}

\* Mistake: the last extent goes whatever it counts.
ExtentsKeptDroppingLast(p) ==
    LET n == Len(entries[p])
    IN  IF n = 1 THEN <<>>
        ELSE IF n % DentriesPerBlock # 1 THEN extents[p]
        ELSE Front(extents[p])

ExtentsKept(p) ==
    LET n == Len(entries[p])
        k == Len(extents[p])
    IN  IF n = 1 THEN <<>>
        ELSE IF n % DentriesPerBlock # 1 THEN extents[p]
        ELSE IF extents[p][k].count > 1 THEN [extents[p] EXCEPT ![k].count = @ - 1]
        ELSE Front(extents[p])

\* Mistake: the indirect block is not counted.
CountGivenBackButIndirect(p) ==
    LET n == Len(entries[p])
    IN  IF n = 1 \/ n % DentriesPerBlock = 1 THEN 1 ELSE 0

\* The counter goes up once for each store that clears a bit.
CountGivenBack(p) ==
    LET n == Len(entries[p])
    IN  IF n = 1 THEN 2 ELSE IF n % DentriesPerBlock = 1 THEN 1 ELSE 0

(***************************************************************************)
(* Both callbacks end with the same removal.  The freed inode keeps its    *)
(* contents in the table, where nothing reads them before mkdir or create  *)
(* overwrites them; it is shown here as mode "none".  An emptied parent    *)
(* gets links = 2, any other loses one link to rmdir and none to unlink.   *)
(***************************************************************************)
RemoveEntry(p, t, freed, count, lost) ==
    /\ status = "mounted"
    /\ entries' = [entries EXCEPT ![p] = WithoutEntry(@, t)]
    /\ extents' = [extents EXCEPT ![t] = <<>>, ![p] = ExtentsKept(p)]
    /\ inodeBitmap' = unset_bitmap(inodeBitmap, t)
    /\ availableInodes' = availableInodes + 1
    /\ dataBitmap' = dataBitmap \ (freed \cup BlocksGivenBack(p))
    /\ availableBlocks' = availableBlocks + count + CountGivenBack(p)
    /\ itable' = [itable EXCEPT
                    ![t] = [mode |-> "none", links |-> 0, size |-> 0],
                    ![p].links = IF Len(entries[p]) = 1 THEN 2 ELSE @ - lost]
    /\ ret' = "ok"
    /\ UNCHANGED <<indirect, numOfDataBlocks, status>>

\* Mistake: the directory is not tested for entries.
RmdirOfAny(p, nm) ==
    LET t == Lookup(p, nm)
    IN  /\ status = "mounted"
        /\ IsDirectory(p)
        /\ HasEntry(p, nm)
        /\ itable[t].mode = "dir"
        /\ RemoveEntry(p, t, {}, 0, 1)

\* FUSE has looked the path up: p has a directory called nm.
Rmdir(p, nm) ==
    LET t == Lookup(p, nm)
    IN  /\ status = "mounted"
        /\ IsDirectory(p)
        /\ HasEntry(p, nm)
        /\ itable[t].mode = "dir"
        /\ \/ /\ entries[t] # <<>>
              /\ ret' = "ENOTEMPTY"
              /\ UNCHANGED <<allocVars, fileVars, numOfDataBlocks, status>>
           \/ /\ entries[t] = <<>>
              /\ RemoveEntry(p, t, {}, 0, 1)

\* FUSE has looked the path up: p has a file called nm.  A file with bytes in
\* it first gives up its data blocks and its indirect block.
Unlink(p, nm) ==
    LET t == Lookup(p, nm)
    IN  /\ status = "mounted"
        /\ IsDirectory(p)
        /\ HasEntry(p, nm)
        /\ itable[t].mode = "reg"
        /\ IF itable[t].size = 0
             THEN RemoveEntry(p, t, {}, 0, 0)
             ELSE RemoveEntry(p, t, OwnedBlocks(t), get_num_blks_of_file(t) + 1, 0)

-----------------------------------------------------------------------------

Callback ==
    \/ \E p \in Inodes, nm \in Names : Mkdir(p, nm)
    \/ \E p \in Inodes, nm \in Names : Rmdir(p, nm)
    \/ \E p \in Inodes, nm \in Names : Create(p, nm)
    \/ \E p \in Inodes, nm \in Names : Unlink(p, nm)

Next == Mount \/ Callback

Spec == Init /\ [][Next]_vars

\* One mount of a fresh image, never mounted again.
FirstMountSpec == Init /\ [][Callback]_vars

-----------------------------------------------------------------------------
(* Properties. *)

\* Every variable has the type of the structure it stands for.
TypeOK ==
    /\ inodeBitmap \in SUBSET Inodes
    /\ dataBitmap \in SUBSET Nat
    /\ availableInodes \in Nat
    /\ availableBlocks \in Nat
    /\ numOfDataBlocks \in Nat
    /\ itable \in [Inodes -> Inode]
    /\ indirect \in [Inodes -> Nat \cup {NoBlock}]
    /\ extents \in [Inodes -> Seq(Extent)]
    /\ entries \in [Inodes -> Seq(Dentry)]
    /\ status \in Status
    /\ ret \in Returns

\* available_inodes counts the clear bits of the inode bitmap after every
\* callback, the ones that fail and the ones that die half-way included.
InodesCounted == availableInodes + Cardinality(inodeBitmap) = NumInodes

\* available_blocks counts the clear bits of the data bitmap, although each
\* bit and the counter are changed by separate stores on a dozen paths.
BlocksCounted == availableBlocks + Cardinality(dataBitmap) = NumBlocks

\* An inode is reached through one entry only: the move of the last entry into
\* the hole of a removed one neither duplicates an entry nor resurrects one.
ListedOnce ==
    \A d, e \in Inodes : \A k \in DOMAIN entries[d], l \in DOMAIN entries[e] :
        entries[d][k].ino = entries[e][l].ino => d = e /\ k = l

\* What can be reached by a path is allocated, so no later mkdir or create can
\* take its inode: no entry outlives the inode it names.
LinkedAllocated == \A i \in Inodes : Linked(i) => i \in inodeBitmap

Subdirectories(d) == {k \in DOMAIN entries[d] : itable[entries[d][k].ino].mode = "dir"}

\* links is the number of references a1fs.h describes: two and one for each
\* subdirectory of a directory, one for a file.  rmdir, unlink and mkdir keep
\* it by increments, and by the constant 2 when a directory becomes empty.
LinksCounted ==
    \A i \in Inodes : Linked(i) =>
        itable[i].links = IF itable[i].mode = "dir"
                            THEN 2 + Cardinality(Subdirectories(i))
                            ELSE 1

\* A directory holds exactly the blocks its entries fill, so that the position
\* of the last entry, recomputed in every callback from the entry count and the
\* last extent, is where the entry is.
DirectoriesDense ==
    \A i \in Inodes : IsDirectory(i) =>
        /\ entries[i] = <<>> <=> extents[i] = <<>>
        /\ (Len(entries[i]) + DentriesPerBlock - 1) \div DentriesPerBlock
              = get_num_blks_of_file(i)

\* No block has two uses: two extents, two directories, or an extent and an
\* indirect block.  A directory grows into the block after its last one.
BlocksOwnedOnce ==
    \A i, j \in Inodes :
        /\ i # j => OwnedBlocks(i) \cap OwnedBlocks(j) = {}
        /\ extents[i] # <<>> => indirect[i] \notin DataBlocks(i)
        /\ \A k, l \in DOMAIN extents[i] :
              k # l => ExtentBlocks(extents[i][k]) \cap ExtentBlocks(extents[i][l]) = {}

\* A block some directory or file owns is never offered to an allocation.
OwnedAllocated == \A i \in Inodes : OwnedBlocks(i) \subseteq dataBitmap

\* The inodes named by the entries of the directories in D.
Children(D) == UNION {{entries[d][k].ino : k \in DOMAIN entries[d]} : d \in D}

\* No directory is cut off: each one that is linked has a chain of parents that
\* leads to the root.
ReachedFromRoot ==
    LET reach[n \in 0 .. NumInodes] ==
          IF n = 0 THEN {ROOT_INODE} ELSE reach[n - 1] \cup Children(reach[n - 1])
    IN  \A i \in Inodes : Linked(i) => i \in reach[NumInodes]

LinkedInodes == {i \in Inodes : Linked(i)}

AllOwned == UNION {OwnedBlocks(i) : i \in Inodes}

LeakedInodes == inodeBitmap \ LinkedInodes

LeakedBlocks == dataBitmap \ AllOwned

\* A callback that returns 0 neither loses what was allocated nor recovers what
\* an earlier failure lost: every set bit that belongs to nothing stays as it
\* was, and no set bit joins it.
SuccessLeaksNothing ==
    [][ret' = "ok" => UNCHANGED <<LeakedInodes, LeakedBlocks>>]_vars

\* The space of an image is used up before ENOSPC is returned: no free inode, or
\* fewer blocks than the two an empty parent needs.
EnospcMeansFull ==
    [][ret' = "ENOSPC" => availableInodes = 0 \/ availableBlocks < 2]_vars

\* As long as the superblock counts a free block, a search finds one.
FreeBlockIsFound ==
    status = "mounted" /\ availableBlocks > 0 =>
        get_first_available_position(numOfDataBlocks, dataBitmap) # NotFound

\* Every block in use lies in the image.
BlocksInImage == \A i \in Inodes : OwnedBlocks(i) \subseteq 0 .. NumBlocks - 1

\* The extents of a directory fit in its indirect block.
ExtentsFit == \A i \in Inodes : Len(extents[i]) <= MaxExtents

\* The entries as a set, without the order and the blocks they are kept in.
TreeOf ==
    UNION {{[parent |-> d, name |-> entries[d][k].name, ino |-> entries[d][k].ino,
             mode |-> itable[entries[d][k].ino].mode] : k \in DOMAIN entries[d]}
             : d \in Inodes}

Tree == INSTANCE DirTree WITH tree <- TreeOf, Root <- ROOT_INODE

\* Seen from outside, each callback adds its entry, removes its entry or leaves
\* the tree alone, whatever it moves between slots, blocks and extents.
ImplementsTree == Tree!Spec

=============================================================================
