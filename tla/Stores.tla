-------------------------------- MODULE Stores --------------------------------
(***************************************************************************)
(* mkdir, create, rmdir and unlink one store at a time.  The image file is *)
(* mapped MAP_SHARED (map.c), so a driver that is killed leaves exactly    *)
(* the stores it has made.  Namespace takes a whole callback as one step;  *)
(* here a callback is the sequence of its stores, and the driver may be    *)
(* killed before each of them.  The files of this module are empty.        *)
(***************************************************************************)
EXTENDS Bitmaps, SequencesExt

CONSTANTS NumInodes, NumBlocks, DentriesPerBlock, MaxExtents, Names,
    MaxKills,          \* bound on the number of times the driver is killed
    MaxRemovals        \* bound on the number of entries removed

ASSUME DimensionsAssumption ==
    /\ NumInodes \in Nat \ {0} /\ NumBlocks \in Nat \ {0}
    /\ DentriesPerBlock \in Nat \ {0, 1} /\ MaxExtents \in Nat \ {0}
ASSUME BoundsAssumption == MaxKills \in Nat /\ MaxRemovals \in Nat

VARIABLES
    image,             \* what the mapped file holds
    pending,           \* stores the running callback has yet to make
    finished,          \* what the file holds once it has made them
    work,              \* what the running callback does
    numOfDataBlocks,   \* fs_ctx.num_of_data_blocks
    status,            \* what becomes of the driver once pending is empty
    ret,               \* what the running, or else the last, callback returns
    kills,             \* times the driver was killed between two stores
    removals,          \* entries whose removal was begun
    held,              \* history: the last indirect block with extents of an inode
    astray             \* history: a callback has begun where a kill left damage

driverVars == <<numOfDataBlocks, status, ret>>
vars       == <<image, pending, finished, work, driverVars, kills, removals, held, astray>>

Inodes     == 0 .. NumInodes - 1
ROOT_INODE == 0
NoBlock    == -1
NotThere   == -1

-----------------------------------------------------------------------------
(***************************************************************************)
(* An image is a record of the fields the code stores into.  A store names *)
(* the fields it overwrites and gives each <<where, what>>; a structure    *)
(* copy is one store.  Extents and entries are at <<block, index>>; a      *)
(* directory's size is counted in entries.                                 *)
(***************************************************************************)
Made(img, s) ==
    [f \in DOMAIN img |-> IF f \in DOMAIN s THEN [img[f] EXCEPT ![s[f][1]] = s[f][2]]
                                             ELSE img[f]]

Apply(img, stores) ==
    LET after[k \in 0 .. Len(stores)] ==
          IF k = 0 THEN img ELSE Made(after[k - 1], stores[k])
    IN  after[Len(stores)]

Blocks == 0 .. NumBlocks - 1

\* An image formatted by mkfs -z: zeros are an entry of inode 0 without a name.
EmptyImage ==
    [inodeBit      |-> [i \in Inodes |-> i = ROOT_INODE],
     dataBit       |-> [b \in Blocks |-> FALSE],
     available     |-> [inodes |-> NumInodes - 1, blocks |-> NumBlocks],
     mode          |-> [i \in Inodes |-> IF i = ROOT_INODE THEN "dir" ELSE "none"],
     links         |-> [i \in Inodes |-> IF i = ROOT_INODE THEN 2 ELSE 0],
     size          |-> [i \in Inodes |-> 0],
     num_dir_entry |-> [i \in Inodes |-> 0],
     extent_num    |-> [i \in Inodes |-> 0],
     indirect_pt   |-> [i \in Inodes |-> NoBlock],
     start         |-> [x \in Blocks \X (0 .. MaxExtents - 1) |-> 0],
     count         |-> [x \in Blocks \X (0 .. MaxExtents - 1) |-> 0],
     dentry        |-> [x \in Blocks \X (0 .. DentriesPerBlock - 1) |-> [name |-> "", ino |-> 0]]]

(***************************************************************************)
(* What img says of inode d: its blocks in order, and the entries in them  *)
(* that readdir lists and that a lookup compares.  Both walk the blocks of *)
(* the extents until num_dir_entry entries were seen or there is no slot   *)
(* left; the count is compared after an entry was looked at.               *)
(***************************************************************************)
BlocksOf(img, d) ==
    LET ib == img.indirect_pt[d]
    IN  FlattenSeq([k \in 1 .. img.extent_num[d] |->
            [j \in 1 .. img.count[<<ib, k - 1>>] |-> img.start[<<ib, k - 1>>] + j - 1]])

EntriesOf(img, d) ==
    LET bs == BlocksOf(img, d)
        n  == Min({Max({img.num_dir_entry[d], 1}), DentriesPerBlock * Len(bs)})
        es == [k \in 1 .. n |-> img.dentry[<<bs[(k - 1) \div DentriesPerBlock + 1],
                                             (k - 1) % DentriesPerBlock>>]]
    IN  SubSeq(es, 1, n)

(***************************************************************************)
(* One step of path_lookup.  Only below the root the size is looked at.    *)
(* A walk that runs out of slots before it has seen num_dir_entry entries  *)
(* goes on with the inode it had: d itself, or -1 for the root.  A walk    *)
(* below -1 ends at -1 (see Paths).                                        *)
(***************************************************************************)
LookupIn(img, d, nm) ==
    LET es    == EntriesOf(img, d)
        found == {k \in DOMAIN es : es[k].name = nm}
        first == CHOOSE k \in found : \A l \in found : k <= l
    IN  CASE d # ROOT_INODE /\ img.size[d] = 0 -> NotThere
          [] (d = ROOT_INODE \/ img.size[d] # 0) /\ found # {} -> es[first].ino
          [] OTHER -> IF d # ROOT_INODE /\ Len(es) < Max({img.num_dir_entry[d], 1})
                        THEN d ELSE NotThere

\* The inodes some path leads to: no set closed under lookups leaves one out.
Reached(img) ==
    LET below == [d \in Inodes |-> {LookupIn(img, d, nm) : nm \in Names} \cap Inodes]
        closed == {S \in SUBSET Inodes : ROOT_INODE \in S /\ \A d \in S : below[d] \subseteq S}
    IN  {i \in Inodes : \A S \in closed : i \in S}

Directories(img) == {d \in Reached(img) : img.mode[d] = "dir"}

\* The size of directory d, its count of entries and its blocks go together.
CountsAgree(img, d) ==
    /\ img.size[d] = img.num_dir_entry[d]
    /\ Len(BlocksOf(img, d)) =
          (img.num_dir_entry[d] + DentriesPerBlock - 1) \div DentriesPerBlock

\* <<d, k, i>>: the k-th entry of d names i; <<i, k, b>>: the k-th block i uses is b.
Listed(img) ==
    UNION {LET es == EntriesOf(img, d) IN {<<d, k, es[k].ino>> : k \in DOMAIN es} : d \in Inodes}

Used(img) ==
    UNION {LET bs == <<img.indirect_pt[i]>> \o BlocksOf(img, i)
           IN  {<<i, k, bs[k]>> : k \in DOMAIN bs} : i \in {j \in Inodes : img.extent_num[j] > 0}}

Once(S)      == \A x, y \in S : x[3] = y[3] => x = y
Within(S, T) == {x[3] : x \in S} \subseteq T

InodeBits(img) == {i \in Inodes : img.inodeBit[i]}
DataBits(img)  == {b \in Blocks : img.dataBit[b]}

\* Namespace's view of an image.
ItableOf(img) ==
    [i \in Inodes |-> IF img.inodeBit[i]
       THEN [mode |-> img.mode[i], links |-> img.links[i], size |-> 0]
       ELSE [mode |-> "none", links |-> 0, size |-> 0]]

ExtentsOf(img) ==
    [i \in Inodes |-> SubSeq([k \in 1 .. img.extent_num[i] |->
        [start |-> img.start[<<img.indirect_pt[i], k - 1>>],
         count |-> img.count[<<img.indirect_pt[i], k - 1>>]]], 1, img.extent_num[i])]

Seen == INSTANCE Namespace WITH
    inodeBitmap     <- InodeBits(image),
    dataBitmap      <- DataBits(image),
    availableInodes <- image.available.inodes,
    availableBlocks <- image.available.blocks,
    itable          <- ItableOf(image),
    indirect        <- [i \in Inodes |-> image.indirect_pt[i]],
    extents         <- ExtentsOf(image),
    entries         <- [d \in Inodes |-> EntriesOf(image, d)]

-----------------------------------------------------------------------------
(* The stores of mkdir and create. *)

AvailableInodes == image.available.inodes
AvailableBlocks == image.available.blocks
NewInode        == get_first_available_position(NumInodes, InodeBits(image))

SearchBlock(taken) ==
    get_first_available_position(numOfDataBlocks, DataBits(image) \cup taken)

TakeInode(m) ==
    << [inodeBit |-> <<NewInode, TRUE>>],
       [available |-> <<"inodes", AvailableInodes - 1>>],
       [mode |-> <<NewInode, m>>, links |-> <<NewInode, IF m = "dir" THEN 2 ELSE 1>>,
        size |-> <<NewInode, 0>>, extent_num |-> <<NewInode, 0>>,
        num_dir_entry |-> <<NewInode, 0>>] >>

\* Mistake: the counter is changed before the bit.
CountThenTakeBlock(b, n) ==
    << [available |-> <<"blocks", AvailableBlocks - n>>], [dataBit |-> <<b, TRUE>>] >>

\* The n-th block this callback takes.
TakeBlock(b, n) ==
    << [dataBit |-> <<b, TRUE>>], [available |-> <<"blocks", AvailableBlocks - n>>] >>

PutExtent(ib, k, b) == << [start |-> <<<<ib, k>>, b>>], [count |-> <<<<ib, k>>, 1>>] >>

PutEntry(b, slot, nm) == [dentry |-> <<<<b, slot>>, [name |-> nm, ino |-> NewInode]>>]

AddLinks(p, n)   == [links |-> <<p, image.links[p] + n>>]
AddExtents(p, n) == [extent_num |-> <<p, image.extent_num[p] + n>>]
AddSize(p, n)    == [size |-> <<p, image.size[p] + n>>]
AddCount(p, n)   == [num_dir_entry |-> <<p, image.num_dir_entry[p] + n>>]

\* Mistake: create adds a link to the parent as mkdir does.
CountEntryLinkingFiles(p, m) == << AddSize(p, 1), AddLinks(p, 1), AddCount(p, 1) >>

CountEntry(p, m) ==
    << AddSize(p, 1) >>
    \o (IF m = "dir" THEN << AddLinks(p, 1) >> ELSE <<>>)
    \o << AddCount(p, 1) >>

\* Mistake: the entry is counted before it is there.
CountThenPut(p, m, b, slot, nm) == CountEntry(p, m) \o << PutEntry(b, slot, nm) >>

PutThenCount(p, m, b, slot, nm) == << PutEntry(b, slot, nm) >> \o CountEntry(p, m)

\* The callback begins: its stores are known, since no other callback runs.
Begin(kind, stores, s, r) ==
    /\ pending' = stores
    /\ work' = IF stores = <<>> THEN work ELSE kind
    /\ status' = s
    /\ ret' = r
    /\ finished' = Apply(image, stores)
    /\ held' = [i \in Inodes |-> IF finished'.extent_num[i] > 0
                                   THEN finished'.indirect_pt[i]
                                   ELSE held[i]]
    /\ UNCHANGED <<image, numOfDataBlocks, kills>>

\* The three ends of an addition.  A search that finds nothing ends in a store
\* far outside the image.
Succeed(stores)     == Begin("adding", stores, "mounted", "ok")
FailNoSpace(stores) == Begin("adding", stores, "mounted", "ENOSPC")
Die(stores)         == Begin("adding", stores, "killed", "none")

\* The test both counters get before a block is taken, n blocks having been taken.
NoneLeft(n) == AvailableInodes - 1 = 0 \/ AvailableBlocks - n = 0

AddToEmptyParent(p, nm, m) ==
    LET ib    == SearchBlock({})
        db    == SearchBlock({ib})
        first == TakeBlock(ib, 1) \o << [indirect_pt |-> <<p, ib>>] >>
    IN  /\ image.num_dir_entry[p] = 0
        /\ \/ NoneLeft(0) /\ FailNoSpace(TakeInode(m))
           \/ ~NoneLeft(0) /\ ib = NotFound /\ Die(TakeInode(m))
           \/ /\ ~NoneLeft(0) /\ ib # NotFound
              /\ NoneLeft(1)
              /\ FailNoSpace(TakeInode(m) \o first)
           \/ /\ ~NoneLeft(0) /\ ib # NotFound
              /\ ~NoneLeft(1) /\ db = NotFound
              /\ Die(TakeInode(m) \o first)
           \/ /\ ~NoneLeft(0) /\ ib # NotFound
              /\ ~NoneLeft(1) /\ db # NotFound
              /\ Succeed(TakeInode(m) \o first \o TakeBlock(db, 2) \o PutExtent(ib, 0, db)
                         \o PutThenCount(p, m, db, 0, nm) \o << AddExtents(p, 1) >>)

\* The last block of a directory with entries and no extent is computed from an
\* extent before the first one: what happens then is not followed.
AddToNoBlock(p, m) ==
    /\ image.num_dir_entry[p] # 0 /\ image.extent_num[p] = 0
    /\ Begin("adding", TakeInode(m), "overrun", "none")

AddToLastBlock(p, nm, m) ==
    LET n == image.num_dir_entry[p]
    IN  /\ n # 0 /\ image.extent_num[p] # 0
        /\ image.size[p] % DentriesPerBlock # 0
        /\ Succeed(TakeInode(m)
                   \o PutThenCount(p, m, Seen!find_last_block(p), n % DentriesPerBlock, nm))

\* What a directory does behind the image is Namespace's subject; here it stays
\* inside.
AddToNextBlock(p, nm, m) ==
    LET b  == Seen!find_last_block(p) + 1
        ib == image.indirect_pt[p]
        k  == image.extent_num[p] - 1
    IN  /\ image.num_dir_entry[p] # 0 /\ image.extent_num[p] # 0
        /\ image.size[p] % DentriesPerBlock = 0
        /\ ~is_bit_set(b, DataBits(image))
        /\ b < NumBlocks
        /\ Succeed(TakeInode(m) \o TakeBlock(b, 1)
                   \o << PutEntry(b, 0, nm),
                         [count |-> <<<<ib, k>>, image.count[<<ib, k>>] + 1>>] >>
                   \o CountEntry(p, m))

\* Mistake: the extent is counted before its block is taken.
ExtentThenTakeBlock(p, nm, b) ==
    LET k == image.extent_num[p]
    IN  PutExtent(image.indirect_pt[p], k, b) \o << AddExtents(p, 1) >>
        \o TakeBlock(b, 1) \o << PutEntry(b, 0, nm) >>

NewExtent(p, nm, b) ==
    LET k == image.extent_num[p]
    IN  TakeBlock(b, 1) \o PutExtent(image.indirect_pt[p], k, b)
        \o << PutEntry(b, 0, nm), AddExtents(p, 1) >>

AddToNewExtent(p, nm, m) ==
    LET b == SearchBlock({})
    IN  /\ image.num_dir_entry[p] # 0 /\ image.extent_num[p] # 0
        /\ image.size[p] % DentriesPerBlock = 0
        /\ is_bit_set(Seen!find_last_block(p) + 1, DataBits(image))
        /\ \/ NoneLeft(0) /\ FailNoSpace(TakeInode(m))
           \/ ~NoneLeft(0) /\ b = NotFound /\ Die(TakeInode(m))
           \/ /\ ~NoneLeft(0) /\ b # NotFound
              /\ image.extent_num[p] < MaxExtents
              /\ Succeed(TakeInode(m) \o NewExtent(p, nm, b) \o CountEntry(p, m))

\* A kill left directory d with counts that differ, or without its inode's bit.
Damaged(img, d) == ~img.inodeBit[d] \/ ~CountsAgree(img, d)

\* A callback begins in directory p; after a removal cut short, every directory
\* counts as damaged.
BeginsIn(p) == astray' = (astray \/ work # "none" \/ Damaged(image, p))

AddEntry(p, nm, m) ==
    /\ LookupIn(image, p, nm) = NotThere
    /\ BeginsIn(p)
    /\ UNCHANGED removals
    /\ \/ (AvailableInodes = 0 \/ AvailableBlocks = 0) /\ FailNoSpace(<<>>)
       \/ /\ AvailableInodes > 0 /\ AvailableBlocks > 0
          /\ NewInode = NotFound
          /\ Die(<<>>)
       \/ /\ AvailableInodes > 0 /\ AvailableBlocks > 0
          /\ NewInode # NotFound
          /\ \/ AddToEmptyParent(p, nm, m)
             \/ AddToNoBlock(p, m)
             \/ AddToLastBlock(p, nm, m)
             \/ AddToNextBlock(p, nm, m)
             \/ AddToNewExtent(p, nm, m)

Mkdir(p, nm)  == AddEntry(p, nm, "dir")
Create(p, nm) == AddEntry(p, nm, "reg")

-----------------------------------------------------------------------------
(* The stores of rmdir and unlink. *)

\* Where the last entry of p is, from its count and the last block.
LastSlot(p) ==
    LET r == image.num_dir_entry[p] % DentriesPerBlock
    IN  <<Seen!find_last_block(p), IF r = 0 THEN DentriesPerBlock - 1 ELSE r - 1>>

\* Mistake: the first entry is taken for the one for t.
MoveLastToFront(p, t) ==
    LET b == BlocksOf(image, p)[1]
    IN  IF image.dentry[LastSlot(p)].ino = t THEN <<>>
        ELSE << [dentry |-> <<<<b, 0>>, image.dentry[LastSlot(p)]>>] >>

\* The last entry is copied over the first one for t, unless it is that one.  All
\* slots of the directory's blocks are looked at.
MoveLast(p, t) ==
    LET bs    == BlocksOf(image, p)
        at(k) == <<bs[(k - 1) \div DentriesPerBlock + 1], (k - 1) % DentriesPerBlock>>
        first == CHOOSE k \in 1 .. DentriesPerBlock * Len(bs) :
                    /\ image.dentry[at(k)].ino = t
                    /\ \A l \in 1 .. k - 1 : image.dentry[at(l)].ino # t
    IN  IF image.dentry[LastSlot(p)].ino = t THEN <<>>
        ELSE << [dentry |-> <<at(first), image.dentry[LastSlot(p)]>>] >>

GiveInode(t) ==
    << [inodeBit |-> <<t, FALSE>>], [available |-> <<"inodes", AvailableInodes + 1>>] >>

\* The n-th block this callback gives back.
GiveBlock(b, n) ==
    << [dataBit |-> <<b, FALSE>>], [available |-> <<"blocks", AvailableBlocks + n>>] >>

\* Mistake: the parent keeps its size.
UncountEntryButSize(p, m) ==
    (IF m = "dir" THEN << AddLinks(p, -1) >> ELSE <<>>) \o << AddCount(p, -1) >>

UncountEntry(p, m) ==
    (IF m = "dir" THEN << AddLinks(p, -1) >> ELSE <<>>)
    \o << AddCount(p, -1), AddSize(p, -1) >>

\* Mistake: an emptied directory keeps its size.
EmptyButSize(p) ==
    << [extent_num |-> <<p, 0>>], [links |-> <<p, 2>>], [num_dir_entry |-> <<p, 0>>] >>

Empty(p) ==
    << [extent_num |-> <<p, 0>>], [links |-> <<p, 2>>],
       [num_dir_entry |-> <<p, 0>>], [size |-> <<p, 0>>] >>

\* What follows the move: t's inode, the parent's last block if t's entry was
\* alone in it, and the parent's counts.
DropLast(p, m) ==
    LET n  == image.num_dir_entry[p]
        ib == image.indirect_pt[p]
        k  == image.extent_num[p] - 1
        c  == image.count[<<ib, k>>]
        lb == Seen!find_last_block(p)
    IN  CASE n = 1 -> GiveBlock(lb, 1) \o GiveBlock(ib, 2) \o Empty(p)
          [] n # 1 /\ n % DentriesPerBlock # 1 -> UncountEntry(p, m)
          [] n # 1 /\ n % DentriesPerBlock = 1 /\ c > 1 ->
               GiveBlock(lb, 1) \o << [count |-> <<<<ib, k>>, c - 1>>] >> \o UncountEntry(p, m)
          [] n # 1 /\ n % DentriesPerBlock = 1 /\ c = 1 ->
               GiveBlock(lb, 1) \o << AddExtents(p, -1) >> \o UncountEntry(p, m)

RemoveEntry(p, t, m) ==
    /\ removals < MaxRemovals
    /\ removals' = removals + 1
    /\ Begin("removing", MoveLast(p, t) \o GiveInode(t) \o DropLast(p, m), "mounted", "ok")

RemoveNamed(p, nm, m) ==
    LET t == LookupIn(image, p, nm)
    IN  /\ t # NotThere
        /\ image.mode[t] = m
        /\ BeginsIn(p)
        /\ IF image.size[t] # 0
             THEN Begin("removing", <<>>, "mounted", "ENOTEMPTY") /\ UNCHANGED removals
             ELSE RemoveEntry(p, t, m)

Rmdir(p, nm)  == RemoveNamed(p, nm, "dir")
Unlink(p, nm) == RemoveNamed(p, nm, "reg")

-----------------------------------------------------------------------------

Init ==
    /\ image = EmptyImage
    /\ finished = image
    /\ pending = <<>>
    /\ work = "none"
    /\ numOfDataBlocks = NumBlocks
    /\ status = "mounted"
    /\ ret = "none"
    /\ kills = 0
    /\ removals = 0
    /\ held = [i \in Inodes |-> NoBlock]
    /\ astray = FALSE

\* The next store reaches the image.
Store ==
    /\ pending # <<>>
    /\ image' = Made(image, Head(pending))
    /\ pending' = Tail(pending)
    /\ work' = IF Len(pending) = 1 THEN "none" ELSE work
    /\ UNCHANGED <<finished, driverVars, kills, removals, held, astray>>

\* The driver is killed: what it has not stored yet never will be.
Kill ==
    /\ pending # <<>>
    /\ kills < MaxKills
    /\ kills' = kills + 1
    /\ pending' = <<>>
    /\ finished' = image
    /\ work' = IF work = "removing" THEN "cut" ELSE "none"
    /\ status' = "killed"
    /\ ret' = "none"
    /\ UNCHANGED <<image, numOfDataBlocks, removals, held, astray>>

\* fs_ctx_init, at the address the image had before.
Mount ==
    /\ pending = <<>>
    /\ status \in {"mounted", "killed"}
    /\ status' = "mounted"
    /\ numOfDataBlocks' = AvailableBlocks
    /\ ret' = "none"
    /\ UNCHANGED <<image, pending, finished, work, kills, removals, held, astray>>

(***************************************************************************)
(* FUSE runs one callback at a time, on a directory and a name that        *)
(* lookups led to.  Blocks are kept apart by what they are used for: once  *)
(* one has two uses, which takes a kill, no further callback is followed.  *)
(***************************************************************************)
Callback ==
    /\ status = "mounted" /\ pending = <<>>
    /\ Once(Used(image))
    /\ \E p \in Directories(image), nm \in Names :
          Mkdir(p, nm) \/ Create(p, nm) \/ Rmdir(p, nm) \/ Unlink(p, nm)

Next == Callback \/ Store \/ Kill \/ Mount

Spec == Init /\ [][Next]_vars

-----------------------------------------------------------------------------
(* Properties. *)

After == INSTANCE Namespace WITH
    inodeBitmap     <- InodeBits(finished),
    dataBitmap      <- DataBits(finished),
    availableInodes <- finished.available.inodes,
    availableBlocks <- finished.available.blocks,
    itable          <- ItableOf(finished),
    indirect        <- held,
    extents         <- ExtentsOf(finished),
    entries         <- [d \in Inodes |-> EntriesOf(finished, d)]

\* Until a driver is killed, a callback's stores add up to one step of Namespace:
\* each of the four layouts an entry is added to, and of the four it is removed
\* from, updates bits, counters, extents and counts in an order of its own.
ImplementsNamespace == After!Init /\ [][kills' = 0 => [After!Next]_(After!vars)]_vars

\* At every store of an addition, and after one was cut short there, each entry
\* names an allocated inode of its own and each block has one owner and its bit:
\* what a kill leaves behind is lost, never used twice.  This is so in all
\* directories, until a callback begins in the one that the kill left damaged.
AdditionsOnlyLeak ==
    ~astray /\ work \notin {"removing", "cut"} =>
        /\ Once(Listed(image))
        /\ Within(Listed(image), InodeBits(image))
        /\ Once(Used(image))
        /\ Within(Used(image), DataBits(image))


\* The entries that readdir lists from img, whatever their slot.
Listing(img) ==
    UNION {{<<d, e>> : e \in ToSet(EntriesOf(img, d))} : d \in Inodes}

\* One store makes the change of a callback visible, all of it: readdir lists the
\* old entries if the driver is killed before it and the new ones if it is killed
\* after it, in removals too, although an entry is moved and blocks are given back
\* before the counts go down.  (Lookups between two stores: AbsentNamesPerKill.)
SeenOldOrNew ==
    [][pending # <<>> /\ ~astray =>
          Listing(image') \in {Listing(image), Listing(finished)}]_vars

\* A removal cut short tears one directory at its end: its last entry may be
\* listed twice or name a freed inode, and its last blocks may have lost their
\* bits.  Its other entries and all other directories are whole.  This is the
\* image that is mounted again; the next callback may spread the damage.
RemovalsTearTheEnd ==
    ~astray /\ work \in {"removing", "cut"} =>
        \E p \in Inodes :
            LET kept == {x \in Listed(image) : x[1] # p \/ x[2] < Len(EntriesOf(image, p))}
            IN  /\ Once(kept)
                /\ Within(kept, InodeBits(image))
                /\ Within({x \in Used(image) : x[1] # p}, DataBits(image))

\* While no removal is under way or was cut short, and until a callback begins in
\* a damaged directory, the superblock counts no less than what is clear, and more
\* only for the addition under way and for each one a kill cut short.
CountersDrift ==
    ~astray /\ work \notin {"removing", "cut"} =>
        LET cut == kills + (IF pending = <<>> THEN 0 ELSE 1)
        IN  /\ AvailableInodes + Cardinality(InodeBits(image)) - NumInodes \in 0 .. cut
            /\ AvailableBlocks + Cardinality(DataBits(image)) - NumBlocks \in 0 .. cut

\* Size, count of entries and blocks of a directory are stored one by one, and
\* the code tests now the one and now the other.  Between callbacks they differ in
\* one directory at most for each kill, and in none without.
CountsDifferPerKill ==
    pending = <<>> /\ ~astray =>
        Cardinality({d \in InodeBits(image) :
                        image.mode[d] = "dir" /\ ~CountsAgree(image, d)}) <= kills

\* path_lookup in d finds just the names that readdir lists there.
FindsWhatIsListed(d) ==
    {nm \in Names : LookupIn(image, d, nm) # NotThere} =
        {e.name : e \in ToSet(EntriesOf(image, d))} \ {""}

\* A directory with a size and no extent answers to every name with itself, and one
\* without a size hides the entries it has, although fs_ctx.h:76 says -1 for what
\* does not exist.  Without a kill there is neither, and each kill makes one.
AbsentNamesPerKill ==
    pending = <<>> /\ ~astray =>
        Cardinality({d \in InodeBits(image) :
                        image.mode[d] = "dir" /\ ~FindsWhatIsListed(d)}) <= kills

=============================================================================
