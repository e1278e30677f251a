-------------------------- MODULE StoresAdditions ---------------------------
(***************************************************************************)
(* Proofs about mkdir and create, store by store, for every value of the   *)
(* constants: each image such a callback goes through is sound, lists what *)
(* was listed before up to the store that counts the new entry, and has    *)
(* counters that drift by the allocation under way at most.                *)
(***************************************************************************)
EXTENDS StoresImages

-----------------------------------------------------------------------------
(* The stores that take an inode or a block, where they stand in a list. *)

Same(i, j, F) == \A f \in F : j[f] = i[f]

\* Extents, entries and where they are.
Laid == {"start", "count", "dentry", "indirect_pt"}

\* The inode is taken by the first three stores.
InodeTaken(A, stores) ==
    /\ 3 <= Len(stores) /\ Len(stores) \in Nat /\ Neutral(A, 0, 3)
    /\ A[0] = image
    /\ A[3].inodeBit = [image.inodeBit EXCEPT ![NewInode] = TRUE]
    /\ A[3].dataBit = image.dataBit /\ A[3].available["blocks"] = AvailableBlocks
    /\ Same(image, A[3], Laid)
    /\ CalmOn(image, stores, 0, 3)

\* The stores of TakeInode take the inode.
LEMMA InodeStores ==
  ASSUME Sound(image), NewInode # NotFound, NEW m \in {"dir", "reg"},
         NEW A, NEW stores, Traced(A, image, stores), At(stores, 0, TakeInode(m))
  PROVE  InodeTaken(A, stores)
<1>0. IsImage(image) /\ Len(stores) \in Nat /\ \A n \in 0 .. Len(stores) : IsImage(A[n])
  BY SoundView DEF Traced
<1>1. NewInode \in Inodes /\ NewInode \notin InodeBits(image) /\ image.extent_num[NewInode] = 0
  BY NewInodeFree
<1>2. AvailableInodes \in Int /\ AvailableBlocks \in Int
  BY <1>0, ImageTypes DEF AvailableInodes, AvailableBlocks
<1>. DEFINE s3 == [mode |-> <<NewInode, m>>, links |-> <<NewInode, IF m = "dir" THEN 2 ELSE 1>>,
                   size |-> <<NewInode, 0>>, extent_num |-> <<NewInode, 0>>,
                   num_dir_entry |-> <<NewInode, 0>>]
<1>3. TakeInode(m) = << [inodeBit |-> <<NewInode, TRUE>>],
                        [available |-> <<"inodes", AvailableInodes - 1>>], s3 >>
  BY DEF TakeInode
<1>4. /\ Len(TakeInode(m)) = 3 /\ TakeInode(m)[1] = [inodeBit |-> <<NewInode, TRUE>>]
      /\ TakeInode(m)[2] = [available |-> <<"inodes", AvailableInodes - 1>>]
      /\ TakeInode(m)[3] = s3
  <2>. HIDE DEF s3
  <2>. QED  BY <1>3, SeqOfFew
<1>5. DOMAIN s3 = {"mode", "links", "size", "extent_num", "num_dir_entry"}
  OBVIOUS
<1>. HIDE DEF s3
<1>6. /\ 3 <= Len(stores) /\ stores[0 + 1] = [inodeBit |-> <<NewInode, TRUE>>]
      /\ stores[0 + 2] = [available |-> <<"inodes", AvailableInodes - 1>>]
      /\ stores[3] = s3
  <2>1. 0 + 3 <= Len(stores) /\ \A k \in 1 .. 3 : stores[0 + k] = TakeInode(m)[k]
    BY <1>4 DEF At
  <2>2. stores[0 + 1] = TakeInode(m)[1] /\ stores[0 + 2] = TakeInode(m)[2]
        /\ stores[0 + 3] = TakeInode(m)[3]
    BY <2>1
  <2>3. 0 + 3 = 3
    OBVIOUS
  <2>. QED  BY <1>0, <1>4, <2>1, <2>2, <2>3
<1>7. /\ DOMAIN stores[0 + 1] = {"inodeBit"} /\ stores[0 + 1]["inodeBit"] = <<NewInode, TRUE>>
      /\ DOMAIN stores[0 + 2] = {"available"}
      /\ stores[0 + 2]["available"] = <<"inodes", AvailableInodes - 1>>
  <2>. DEFINE x == <<NewInode, TRUE>>
              y == <<"inodes", AvailableInodes - 1>>
  <2>1. stores[0 + 1] = [inodeBit |-> x] /\ stores[0 + 2] = [available |-> y]
    BY <1>6
  <2>. HIDE DEF x, y
  <2>2. /\ DOMAIN stores[0 + 1] = {"inodeBit"} /\ stores[0 + 1]["inodeBit"] = x
        /\ DOMAIN stores[0 + 2] = {"available"} /\ stores[0 + 2]["available"] = y
    BY <2>1
  <2>. QED  BY <2>2 DEF x, y
<1>8. A[0] = image
  BY TraceSteps DEF Traced
<1>9. Paired(A[0], A[0 + 1], A[0 + 2], "inodeBit", "dataBit", NewInode, TRUE,
             "inodes", AvailableInodes - 1)
  <2>1. 0 \in Nat /\ 0 + 2 <= Len(stores)
    BY <1>0, <1>6
  <2>. QED  BY <1>7, <2>1, PairMade
<1>10. Paired(image, A[1], A[2], "inodeBit", "dataBit", NewInode, TRUE,
              "inodes", AvailableInodes - 1)
  <2>1. 0 + 1 = 1 /\ 0 + 2 = 2
    OBVIOUS
  <2>. QED  BY <1>8, <1>9, <2>1
<1>11. IsImage(A[1]) /\ IsImage(A[2]) /\ IsImage(A[3])
  <2>1. 1 \in 0 .. Len(stores) /\ 2 \in 0 .. Len(stores) /\ 3 \in 0 .. Len(stores)
    BY <1>0, <1>6
  <2>. QED  BY <1>0, <2>1
<1>12. ~image.inodeBit[NewInode] /\ TRUE \in BOOLEAN /\ AvailableInodes - 1 \in Int
       /\ AvailableInodes - 1 = image.available["inodes"] - 1
  BY <1>1, <1>2 DEF InodeBits, AvailableInodes
<1>13. /\ A[2].dataBit = image.dataBit /\ A[2].available["blocks"] = image.available["blocks"]
       /\ A[2].inodeBit = [image.inodeBit EXCEPT ![NewInode] = TRUE]
       /\ BlockDrift(A[1]) = BlockDrift(image) /\ BlockDrift(A[2]) = BlockDrift(image)
       /\ InodeDrift(A[1]) = InodeDrift(image) + 1 /\ InodeDrift(A[2]) = InodeDrift(image)
  <2>1. InodeMoved(image, A[1], A[2], NewInode, TRUE, AvailableInodes - 1)
    BY <1>0, <1>1, <1>10, <1>11, <1>12, InodePair
  <2>. QED  BY <1>12, <2>1 DEF InodeMoved
<1>14. Neutral(A, 0, 2)
  <2>1. InodeDrift(image) \in Int /\ BlockDrift(image) \in Int
    BY <1>0, DriftInt
  <2>2. \A k \in 0 .. 2 : k = 0 \/ k = 1 \/ k = 2
    OBVIOUS
  <2>. QED  BY <1>8, <1>13, <2>1, <2>2 DEF Neutral, Even
<1>15. Neutral(A, 2, 3) /\ \A f \in Counted : A[3][f] = A[2][f]
  <2>1. 2 \in 0 .. Len(stores) /\ 3 \in 2 .. Len(stores)
    BY <1>0, <1>6
  <2>2. \A j \in 2 + 1 .. 3 : j = 3
    OBVIOUS
  <2>3. \A j \in 2 + 1 .. 3 : DOMAIN stores[j] \cap Counted = {}
    BY <1>5, <1>6, <2>2 DEF Counted
  <2>. QED  BY <2>1, <2>3, OtherNeutral
<1>16. Neutral(A, 0, 3)
  <2>1. \A k \in 0 .. 3 : IsImage(A[k])
    BY <1>0, <1>6
  <2>. QED  BY <1>14, <1>15, <2>1, NeutralJoin
<1>17. Same(image, A[3], Laid)
  <2>. SUFFICES ASSUME NEW f \in Laid PROVE A[3][f] = image[f]
    BY DEF Same
  <2>1. f \in Fields
    BY FieldNames DEF Laid
  <2>2. \A j \in 0 + 1 .. 3 : j = 1 \/ j = 2 \/ j = 3
    OBVIOUS
  <2>3. \A j \in 0 + 1 .. 3 : f \notin DOMAIN stores[j]
    BY <1>5, <1>6, <1>7, <2>2 DEF Laid
  <2>4. 0 \in 0 .. Len(stores) /\ 3 \in 0 .. Len(stores) /\ 3 \in 0 .. 3
    BY <1>0, <1>6
  <2>. QED  BY <1>8, <2>1, <2>3, <2>4, FieldKept
<1>18. CalmOn(image, stores, 0, 3)
  <2>1. \A k \in 1 .. Len(TakeInode(m)) : CalmTyped(image, TakeInode(m)[k])
    BY <1>1, <1>2, <1>4, TakeInodeCalm
  <2>2. CalmOn(image, stores, 0, 0 + Len(TakeInode(m)))
    BY <2>1, CalmAt
  <2>3. 0 + Len(TakeInode(m)) = 3
    BY <1>4
  <2>. QED  BY <2>2, <2>3
<1>19. A[3].dataBit = image.dataBit /\ A[3].inodeBit = [image.inodeBit EXCEPT ![NewInode] = TRUE]
       /\ A[3].available["blocks"] = AvailableBlocks
  <2>1. A[3].dataBit = A[2].dataBit /\ A[3].inodeBit = A[2].inodeBit /\ A[3].available = A[2].available
    BY <1>15 DEF Counted
  <2>. QED  BY <1>13, <2>1 DEF AvailableBlocks
<1>. QED  BY <1>0, <1>6, <1>8, <1>16, <1>17, <1>18, <1>19 DEF InodeTaken

\* What every store but those of a block's bit and counter leaves.
Other == Fields \ {"dataBit", "available"}

\* The n-th block is taken by the two stores after the first c.
BlockTaken(A, stores, c, b, n) ==
    /\ c + 2 <= Len(stores) /\ Neutral(A, c, c + 2)
    /\ A[c + 2].dataBit = [A[c].dataBit EXCEPT ![b] = TRUE]
    /\ A[c + 2].available["blocks"] = AvailableBlocks - n
    /\ Same(A[c], A[c + 2], Other)
    /\ CalmOn(image, stores, c, c + 2)

\* The stores of TakeBlock take the block.
LEMMA BlockStores ==
  ASSUME Sound(image), NEW A, NEW stores, Traced(A, image, stores),
         NEW b \in Blocks, NEW n \in Nat, NEW c \in Nat, At(stores, c, TakeBlock(b, n)),
         n >= 1, ~A[c].dataBit[b], A[c].available["blocks"] = AvailableBlocks - n + 1
  PROVE  BlockTaken(A, stores, c, b, n)
<1>0. IsImage(image) /\ Len(stores) \in Nat /\ \A k \in 0 .. Len(stores) : IsImage(A[k])
  BY SoundView DEF Traced
<1>1. AvailableBlocks \in Int
  BY <1>0, ImageTypes DEF AvailableBlocks
<1>2. /\ Len(TakeBlock(b, n)) = 2 /\ TakeBlock(b, n)[1] = [dataBit |-> <<b, TRUE>>]
      /\ TakeBlock(b, n)[2] = [available |-> <<"blocks", AvailableBlocks - n>>]
  BY SeqOfFew DEF TakeBlock
<1>3. /\ c + 2 <= Len(stores) /\ stores[c + 1] = [dataBit |-> <<b, TRUE>>]
      /\ stores[c + 2] = [available |-> <<"blocks", AvailableBlocks - n>>]
  <2>1. c + Len(TakeBlock(b, n)) <= Len(stores)
        /\ \A k \in 1 .. Len(TakeBlock(b, n)) : stores[c + k] = TakeBlock(b, n)[k]
    BY DEF At
  <2>2. 1 \in 1 .. 2 /\ 2 \in 1 .. 2
    OBVIOUS
  <2>. QED  BY <1>0, <1>2, <2>1, <2>2
<1>4. /\ DOMAIN stores[c + 1] = {"dataBit"} /\ stores[c + 1]["dataBit"] = <<b, TRUE>>
      /\ DOMAIN stores[c + 2] = {"available"}
      /\ stores[c + 2]["available"] = <<"blocks", AvailableBlocks - n>>
  <2>. DEFINE x == <<b, TRUE>>
              y == <<"blocks", AvailableBlocks - n>>
  <2>1. stores[c + 1] = [dataBit |-> x] /\ stores[c + 2] = [available |-> y]
    BY <1>3
  <2>. HIDE DEF x, y
  <2>2. /\ DOMAIN stores[c + 1] = {"dataBit"} /\ stores[c + 1]["dataBit"] = x
        /\ DOMAIN stores[c + 2] = {"available"} /\ stores[c + 2]["available"] = y
    BY <2>1
  <2>. QED  BY <2>2 DEF x, y
<1>5. Paired(A[c], A[c + 1], A[c + 2], "dataBit", "inodeBit", b, TRUE, "blocks", AvailableBlocks - n)
  BY <1>3, <1>4, PairMade
<1>6. IsImage(A[c]) /\ IsImage(A[c + 1]) /\ IsImage(A[c + 2])
  <2>1. c \in 0 .. Len(stores) /\ c + 1 \in 0 .. Len(stores) /\ c + 2 \in 0 .. Len(stores)
    BY <1>0, <1>3
  <2>. QED  BY <1>0, <2>1
<1>7. TRUE \in BOOLEAN /\ AvailableBlocks - n \in Int
      /\ AvailableBlocks - n = A[c].available["blocks"] - 1
  BY <1>1
<1>8. /\ A[c + 2].inodeBit = A[c].inodeBit
      /\ A[c + 2].available["blocks"] = AvailableBlocks - n
      /\ A[c + 2].dataBit = [A[c].dataBit EXCEPT ![b] = TRUE]
      /\ InodeDrift(A[c + 1]) = InodeDrift(A[c]) /\ InodeDrift(A[c + 2]) = InodeDrift(A[c])
      /\ BlockDrift(A[c + 1]) = BlockDrift(A[c]) + 1 /\ BlockDrift(A[c + 2]) = BlockDrift(A[c])
  <2>1. BlockMoved(A[c], A[c + 1], A[c + 2], b, TRUE, AvailableBlocks - n)
    BY <1>5, <1>6, <1>7, BlockPair
  <2>. QED  BY <1>7, <2>1 DEF BlockMoved
<1>9. Neutral(A, c, c + 2)
  <2>1. InodeDrift(A[c]) \in Int /\ BlockDrift(A[c]) \in Int
    BY <1>6, DriftInt
  <2>2. \A k \in c .. c + 2 : k = c \/ k = c + 1 \/ k = c + 2
    OBVIOUS
  <2>. QED  BY <1>8, <2>1, <2>2 DEF Neutral, Even
<1>10. Same(A[c], A[c + 2], Other)
  <2>. SUFFICES ASSUME NEW f \in Other PROVE A[c + 2][f] = A[c][f]
    BY DEF Same
  <2>1. f \in Fields /\ f # "dataBit" /\ f # "available"
    BY DEF Other
  <2>2. \A j \in c + 1 .. c + 2 : j = c + 1 \/ j = c + 2
    OBVIOUS
  <2>3. \A j \in c + 1 .. c + 2 : f \notin DOMAIN stores[j]
    BY <1>4, <2>1, <2>2
  <2>4. c \in 0 .. Len(stores) /\ c + 2 \in c .. Len(stores) /\ c + 2 \in c .. c + 2
    BY <1>0, <1>3
  <2>. QED  BY <2>1, <2>3, <2>4, FieldKept
<1>11. CalmOn(image, stores, c, c + 2)
  <2>1. AvailableBlocks - n <= image.available["blocks"]
    BY <1>1 DEF AvailableBlocks
  <2>2. \A k \in 1 .. Len(TakeBlock(b, n)) : CalmTyped(image, TakeBlock(b, n)[k])
    BY <1>1, <1>2, <2>1, TakeBlockCalm
  <2>3. CalmOn(image, stores, c, c + Len(TakeBlock(b, n)))
    BY <2>2, CalmAt
  <2>. QED  BY <1>2, <2>3
<1>. QED  BY <1>3, <1>8, <1>9, <1>10, <1>11 DEF BlockTaken

-----------------------------------------------------------------------------
(* The stores that count an entry. *)

\* The entry for nm is behind the last one of p, and not counted yet.
NewEntry(nm) == [name |-> nm, ino |-> NewInode]
Ready(img, p, nm) ==
    /\ Sound(img) /\ img.extent_num[p] > 0
    /\ img.num_dir_entry[p] = image.num_dir_entry[p]
    /\ img.num_dir_entry[p] < D * Len(BlocksOf(img, p))
    /\ img.dentry[Slot(BlocksOf(img, p), img.num_dir_entry[p] + 1)] = NewEntry(nm)
    /\ NewInode \in InodeBits(img)
    /\ \A x \in Inodes : EntriesOf(img, x) = EntriesOf(image, x)

\* A store of p's count of entries alone.
LEMMA CountMade ==
  ASSUME NEW i, IsImage(i), Held(i), NEW p \in Inodes, NEW v \in Nat, NEW s,
         DOMAIN s = {"num_dir_entry"}, s["num_dir_entry"] = <<p, v>>, v > 0,
         NEW j, j = Made(i, s)
  PROVE  /\ IsImage(j) /\ Held(j) /\ j.num_dir_entry[p] = v
         /\ \A x \in Inodes : KeepsExtents(i, j, x) /\ KeepsEntries(i, j, x)
         /\ \A x \in Inodes \ {p} : Keeps(i, j, x)
         /\ j.dentry = i.dentry /\ InodeBits(j) = InodeBits(i) /\ DataBits(j) = DataBits(i)
         /\ j.available = i.available
<1>1. s["num_dir_entry"][1] = p /\ s["num_dir_entry"][2] = v
  OBVIOUS
<1>2. FieldRange["num_dir_entry"] = Nat
  BY DEF FieldRange
<1>3. Typed(s)
  BY <1>1, <1>2, FieldNames DEF Typed
<1>4. IsImage(j)
  BY <1>3, MadeIsImage
<1>5. Stored(i, j, s)
  BY MadeStored
<1>6. /\ j.num_dir_entry = [i.num_dir_entry EXCEPT ![p] = v]
      /\ \A f \in Fields \ {"num_dir_entry"} : j[f] = i[f]
  BY <1>1, <1>5, FieldNames DEF Stored
<1>7. /\ j.start = i.start /\ j.count = i.count /\ j.dentry = i.dentry
      /\ j.indirect_pt = i.indirect_pt /\ j.extent_num = i.extent_num /\ j.size = i.size
      /\ j.inodeBit = i.inodeBit /\ j.dataBit = i.dataBit /\ j.available = i.available
  BY <1>6, FieldNames
<1>8. i.num_dir_entry \in [Inodes -> Nat]
  BY ImageTypes
<1>9. j.num_dir_entry[p] = v /\ \A x \in Inodes \ {p} : j.num_dir_entry[x] = i.num_dir_entry[x]
  BY <1>6, <1>8
<1>10. \A x \in Inodes : KeepsExtents(i, j, x) /\ KeepsEntries(i, j, x)
  BY <1>7 DEF KeepsExtents, KeepsEntries
<1>11. \A x \in Inodes \ {p} : Keeps(i, j, x)
  BY <1>9, <1>10 DEF Keeps
<1>12. Held(j)
  <2>1. \A x \in Inodes : i.extent_num[x] > 0 =>
           j.inodeBit[x] /\ j.size[x] > 0 /\ j.num_dir_entry[x] > 0
    BY <1>7, <1>9 DEF Held
  <2>. QED  BY <1>4, <1>10, <2>1, HeldKept
<1>13. InodeBits(j) = InodeBits(i) /\ DataBits(j) = DataBits(i)
  BY <1>7 DEF InodeBits, DataBits
<1>. QED  BY <1>4, <1>7, <1>9, <1>10, <1>11, <1>12, <1>13

\* The store that counts the new entry shows it, at its end.
LEMMA ReadyCounts ==
  ASSUME Sound(image), NewInode # NotFound, NEW p \in Inodes, NEW nm \in Names,
         NEW i, Ready(i, p, nm), NEW j, j = Made(i, AddCount(p, 1))
  PROVE  /\ Sound(j) /\ EntriesOf(j, p) = Append(EntriesOf(image, p), NewEntry(nm))
         /\ \A x \in Inodes \ {p} : EntriesOf(j, x) = EntriesOf(image, x)
         /\ \A x \in Inodes : BlocksOf(j, x) = BlocksOf(i, x)
<1>. DEFINE n == i.num_dir_entry[p]
<1>1. /\ Sound(i) /\ i.extent_num[p] > 0 /\ n = image.num_dir_entry[p]
      /\ n < D * Len(BlocksOf(i, p))
      /\ i.dentry[Slot(BlocksOf(i, p), n + 1)] = NewEntry(nm)
      /\ NewInode \in InodeBits(i) /\ \A x \in Inodes : EntriesOf(i, x) = EntriesOf(image, x)
  BY DEF Ready
<1>2. IsImage(i) /\ Held(i) /\ \A x \in Inodes : UsesInto(i, x, Blocks)
  BY <1>1, SoundView
<1>3. n \in Nat
  BY <1>2, ImageTypes
<1>4. DOMAIN AddCount(p, 1) = {"num_dir_entry"} /\ AddCount(p, 1)["num_dir_entry"] = <<p, n + 1>>
  BY <1>1 DEF AddCount
<1>5. n + 1 \in Nat /\ n + 1 > 0
  BY <1>3
<1>. HIDE DEF n
<1>6. /\ IsImage(j) /\ Held(j) /\ j.num_dir_entry[p] = n + 1
      /\ \A x \in Inodes : KeepsExtents(i, j, x) /\ KeepsEntries(i, j, x)
      /\ \A x \in Inodes \ {p} : Keeps(i, j, x)
      /\ j.dentry = i.dentry /\ InodeBits(j) = InodeBits(i) /\ DataBits(j) = DataBits(i)
      /\ j.available = i.available
  BY <1>2, <1>4, <1>5, CountMade
<1>7. \A x \in Inodes \ {p} : SameView(i, j, x)
  BY <1>2, <1>6, KeptView
<1>8. NewEntry(nm).ino = NewInode
  BY DEF NewEntry
<1>9. Unlisted(i, NewInode)
  <2>1. Unlisted(image, NewInode)
    BY NewInodeFree
  <2>. QED  BY <1>1, <2>1 DEF Unlisted, Lists
<1>10. j.available["blocks"] <= i.available["blocks"]
  <2>1. i.available["blocks"] \in Int
    BY <1>2, ImageTypes
  <2>. QED  BY <1>6, <2>1
<1>11. Sound(j) /\ EntriesOf(j, p) = Append(EntriesOf(i, p), NewEntry(nm))
  <2>. DEFINE e == NewEntry(nm)
  <2>1. /\ e = j.dentry[Slot(BlocksOf(i, p), i.num_dir_entry[p] + 1)]
        /\ e.ino \in InodeBits(j) /\ Unlisted(i, e.ino)
        /\ j.num_dir_entry[p] = i.num_dir_entry[p] + 1
        /\ i.num_dir_entry[p] < D * Len(BlocksOf(i, p))
        /\ KeepsExtents(i, j, p) /\ KeepsEntries(i, j, p)
        /\ DataBits(i) \subseteq DataBits(j) /\ InodeBits(i) \subseteq InodeBits(j)
    BY <1>1, <1>6, <1>8, <1>9 DEF n
  <2>. HIDE DEF e
  <2>2. Sound(j) /\ EntriesOf(j, p) = Append(EntriesOf(i, p), e)
    BY <1>1, <1>6, <1>7, <1>10, <2>1, ShowEntry
  <2>. QED  BY <2>2 DEF e
<1>12. \A x \in Inodes : BlocksOf(j, x) = BlocksOf(i, x)
  BY <1>2, <1>6, KeptBlocks
<1>. QED  BY <1>1, <1>7, <1>11, <1>12 DEF SameView

-----------------------------------------------------------------------------
(* What an addition makes of the image, in the end and on the way. *)

SameListing(i) == \A x \in Inodes : EntriesOf(i, x) = EntriesOf(image, x)

\* From c to e the images are sound, and before e they list what the image does.
Steady(A, c, e) ==
    /\ \A k \in c .. e : Sound(A[k])
    /\ \A k \in c .. e : k < e => SameListing(A[k])
    /\ Neutral(A, c, e)

\* Two steady stretches in a row are one.
LEMMA SteadyJoin ==
  ASSUME NEW A, NEW c \in Nat, NEW e \in Nat, NEW g \in Nat, c <= e, e <= g,
         Steady(A, c, e), SameListing(A[e]), Steady(A, e, g)
  PROVE  Steady(A, c, g)
<1>1. \A k \in c .. g : k \in c .. e \/ k \in e .. g
  OBVIOUS
<1>2. \A k \in c .. g : Sound(A[k])
  BY <1>1 DEF Steady
<1>3. \A k \in c .. g : IsImage(A[k])
  BY <1>2, SoundView
<1>4. Neutral(A, c, g)
  BY <1>3, NeutralJoin DEF Steady
<1>5. ASSUME NEW k \in c .. g, k < g PROVE SameListing(A[k])
  <2>1. CASE k < e
    <3>1. k \in c .. e
      BY <2>1
    <3>. QED  BY <2>1, <3>1 DEF Steady
  <2>2. CASE k >= e
    <3>1. k \in e .. g
      BY <2>2
    <3>. QED  BY <1>5, <3>1 DEF Steady
  <2>. QED  BY <2>1, <2>2
<1>. QED  BY <1>2, <1>4, <1>5 DEF Steady

\* A calm and neutral stretch is steady, to its end.
LEMMA CalmSteady ==
  ASSUME NEW A, NEW stores, Traced(A, image, stores),
         NEW c \in Nat, NEW e \in Nat, c <= e, e <= Len(stores),
         Sound(A[c]), SameListing(A[c]), CalmOn(A[c], stores, c, e), Neutral(A, c, e)
  PROVE  /\ Steady(A, c, e) /\ SameListing(A[e]) /\ Sound(A[e])
         /\ \A x \in Inodes : Keeps(A[c], A[e], x) /\ SameView(A[c], A[e], x)
         /\ InodeBits(A[c]) \subseteq InodeBits(A[e]) /\ DataBits(A[c]) \subseteq DataBits(A[e])
<1>1. Len(stores) \in Nat
  BY DEF Traced
<1>2. c \in 0 .. Len(stores) /\ e \in c .. Len(stores)
  BY <1>1
<1>3. \A j \in c + 1 .. e : Calm(A[c], stores[j])
  BY DEF CalmOn, CalmTyped
<1>4. \A k \in c .. e :
        /\ Sound(A[k])
        /\ \A x \in Inodes : Keeps(A[c], A[k], x) /\ SameView(A[c], A[k], x)
        /\ InodeBits(A[c]) \subseteq InodeBits(A[k]) /\ DataBits(A[c]) \subseteq DataBits(A[k])
  BY <1>2, <1>3, CalmRun
<1>5. \A k \in c .. e : SameListing(A[k])
  BY <1>4 DEF SameListing, SameView
<1>6. e \in c .. e
  OBVIOUS
<1>7. Steady(A, c, e)
  BY <1>4, <1>5 DEF Steady
<1>. QED  BY <1>4, <1>5, <1>6, <1>7

\* What counts an entry of p: AddSize, AddLinks for a directory, and AddCount.
LEMMA CountEntryList ==
  ASSUME NEW p, NEW m
  PROVE  \E q : /\ IsSeq(q) /\ Len(q) \in 1 .. 2 /\ CountEntry(p, m) = q \o << AddCount(p, 1) >>
                /\ \A k \in 1 .. Len(q) : q[k] = AddSize(p, 1) \/ q[k] = AddLinks(p, 1)
                /\ q[1] = AddSize(p, 1)
<1>. DEFINE a == << AddSize(p, 1) >>
            o == IF m = "dir" THEN << AddLinks(p, 1) >> ELSE <<>>
<1>1. IsSeq(a) /\ Len(a) = 1 /\ a[1] = AddSize(p, 1)
  BY SeqOfFew
<1>2. IsSeq(o) /\ (Len(o) = 0 \/ (Len(o) = 1 /\ o[1] = AddLinks(p, 1)))
  <2>1. CASE m = "dir"
    BY <2>1, SeqOfFew
  <2>2. CASE m # "dir"
    BY <2>2, SeqOfFew
  <2>. QED  BY <2>1, <2>2
<1>3. CountEntry(p, m) = (a \o o) \o << AddCount(p, 1) >>
  BY DEF CountEntry
<1>. HIDE DEF a, o
<1>4. /\ IsSeq(a \o o) /\ Len(a \o o) = Len(a) + Len(o)
      /\ \A k \in 1 .. Len(a) : (a \o o)[k] = a[k]
      /\ \A k \in 1 .. Len(o) : (a \o o)[Len(a) + k] = o[k]
  <2>1. IsSeq(a) /\ IsSeq(o)
    BY <1>1, <1>2
  <2>. QED  BY <2>1, SeqConcat
<1>5. Len(a \o o) \in 1 .. 2
  BY <1>1, <1>2, <1>4
<1>6. ASSUME NEW k \in 1 .. Len(a \o o)
      PROVE  (a \o o)[k] = AddSize(p, 1) \/ (a \o o)[k] = AddLinks(p, 1)
  <2>1. k = 1 \/ (k = 2 /\ Len(o) = 1)
    BY <1>1, <1>2, <1>4
  <2>2. CASE k = 1
    BY <1>1, <1>4, <2>2
  <2>3. CASE k = 2 /\ Len(o) = 1
    <3>1. 1 \in 1 .. Len(o) /\ Len(a) + 1 = 2
      BY <1>1, <2>3
    <3>2. (a \o o)[Len(a) + 1] = o[1]
      BY <1>4, <3>1
    <3>. QED  BY <1>2, <2>3, <3>1, <3>2
  <2>. QED  BY <2>1, <2>2, <2>3
<1>7. (a \o o)[1] = AddSize(p, 1)
  BY <1>1, <1>4
<1>. QED  BY <1>3, <1>4, <1>5, <1>6, <1>7

-----------------------------------------------------------------------------
(* The end of an addition to a directory that has blocks. *)

\* The stores of a single field of p, as the code makes them.
LEMMA SingleStores ==
  ASSUME Sound(image), NEW p \in Inodes
  PROVE  /\ \A img : CalmTyped(img, AddSize(p, 1)) /\ CalmTyped(img, AddLinks(p, 1))
         /\ DOMAIN AddSize(p, 1) = {"size"} /\ DOMAIN AddLinks(p, 1) = {"links"}
         /\ DOMAIN AddCount(p, 1) = {"num_dir_entry"} /\ DOMAIN AddExtents(p, 1) = {"extent_num"}
<1>1. image.size[p] \in Nat /\ image.links[p] \in Int
  BY SoundView, ImageTypes
<1>2. \A img : CalmTyped(img, AddSize(p, 1))
  BY <1>1, AddSizeCalm
<1>3. \A img : CalmTyped(img, AddLinks(p, 1))
  BY <1>1, AddLinksCalm
<1>. QED  BY <1>2, <1>3 DEF AddSize, AddLinks, AddCount, AddExtents

\* What CountEntry is where it follows c stores: the one after the first g counts.
CountAt(stores, c, g, p) ==
    /\ g \in c + 1 .. c + 2 /\ g + 1 <= Len(stores) /\ stores[g + 1] = AddCount(p, 1)
    /\ stores[c + 1] = AddSize(p, 1)
    /\ \A j \in c + 1 .. g : stores[j] = AddSize(p, 1) \/ stores[j] = AddLinks(p, 1)

\* The stores of CountEntry, where they stand in a list.
LEMMA CountEntryAt ==
  ASSUME NEW stores, Len(stores) \in Nat, NEW c \in Nat, NEW p, NEW m,
         At(stores, c, CountEntry(p, m))
  PROVE  \E g : CountAt(stores, c, g, p) /\ g + 1 = c + Len(CountEntry(p, m))
<1>1. PICK q : /\ IsSeq(q) /\ Len(q) \in 1 .. 2 /\ CountEntry(p, m) = q \o << AddCount(p, 1) >>
               /\ \A k \in 1 .. Len(q) : q[k] = AddSize(p, 1) \/ q[k] = AddLinks(p, 1)
               /\ q[1] = AddSize(p, 1)
  BY CountEntryList
<1>. DEFINE z == << AddCount(p, 1) >>
<1>2. IsSeq(z) /\ Len(z) = 1 /\ z[1] = AddCount(p, 1)
  BY SeqOfFew
<1>. HIDE DEF z
<1>3. CountEntry(p, m) = q \o z
  BY <1>1 DEF z
<1>4. At(stores, c, q) /\ At(stores, c + Len(q), z)
  BY <1>1, <1>2, <1>3, AtConcat
<1>5. Len(CountEntry(p, m)) = Len(q) + 1
  BY <1>1, <1>2, <1>3, SeqConcat
<1>6. \A k \in 1 .. Len(q) : stores[c + k] = q[k]
  BY <1>4 DEF At
<1>7. stores[c + Len(q) + 1] = AddCount(p, 1)
  <2>1. \A k \in 1 .. 1 : stores[c + Len(q) + k] = z[k]
    BY <1>2, <1>4 DEF At
  <2>. QED  BY <1>2, <2>1
<1>. DEFINE g == c + Len(q)
<1>8. g \in c + 1 .. c + 2 /\ g + 1 <= Len(stores) /\ g + 1 = c + Len(CountEntry(p, m))
  <2>1. Len(q) \in 1 .. 2
    BY <1>1
  <2>2. \A l \in 1 .. 2 : c + l \in c + 1 .. c + 2
    OBVIOUS
  <2>3. g \in c + 1 .. c + 2
    BY <2>1, <2>2
  <2>4. g + 1 = c + Len(CountEntry(p, m))
    BY <1>5, <2>1
  <2>5. c + Len(CountEntry(p, m)) <= Len(stores)
    BY DEF At
  <2>. QED  BY <2>3, <2>4, <2>5
<1>9. ASSUME NEW j \in c + 1 .. g PROVE stores[j] = AddSize(p, 1) \/ stores[j] = AddLinks(p, 1)
  <2>1. j - c \in 1 .. Len(q) /\ c + (j - c) = j
    BY <1>1
  <2>2. stores[j] = q[j - c]
    BY <1>6, <2>1
  <2>. QED  BY <1>1, <2>1, <2>2
<1>10. stores[c + 1] = AddSize(p, 1)
  <2>1. 1 \in 1 .. Len(q)
    BY <1>1
  <2>. QED  BY <1>1, <1>6, <2>1
<1>. QED  BY <1>7, <1>8, <1>9, <1>10 DEF CountAt

\* From an image with the entry in place, counting it is steady and shows it at the end.
LEMMA ReadyEnds ==
  ASSUME Sound(image), NewInode # NotFound, NEW p \in Inodes, NEW nm \in Names,
         NEW A, NEW stores, Traced(A, image, stores),
         NEW c \in Nat, NEW g, CountAt(stores, c, g, p), g + 1 = Len(stores),
         Ready(A[c], p, nm)
  PROVE  /\ Steady(A, c, Len(stores))
         /\ Ready(A[g], p, nm) /\ A[Len(stores)] = Made(A[g], AddCount(p, 1))
<1>1. Len(stores) \in Nat /\ \A k \in 0 .. Len(stores) : IsImage(A[k])
  BY DEF Traced
<1>2. /\ g \in Nat /\ c < g /\ g + 1 = Len(stores) /\ stores[g + 1] = AddCount(p, 1)
      /\ \A j \in c + 1 .. g : stores[j] = AddSize(p, 1) \/ stores[j] = AddLinks(p, 1)
  BY DEF CountAt
<1>3. /\ c \in 0 .. Len(stores) /\ g \in c .. Len(stores) /\ g \in 0 .. Len(stores)
      /\ g + 1 \in 1 .. Len(stores) /\ Len(stores) \in g .. Len(stores)
      /\ Len(stores) \in 0 .. Len(stores)
  BY <1>1, <1>2
<1>4. CalmOn(A[c], stores, c, g)
  BY <1>2, SingleStores DEF CalmOn
<1>5. \A j \in c + 1 .. g : DOMAIN stores[j] \cap Counted = {} /\ "dentry" \notin DOMAIN stores[j]
  BY <1>2, SingleStores DEF Counted
<1>6. Neutral(A, c, g)
  BY <1>3, <1>5, OtherNeutral
<1>7. Sound(A[c]) /\ SameListing(A[c])
  BY DEF Ready, SameListing
<1>8. /\ Steady(A, c, g) /\ SameListing(A[g]) /\ Sound(A[g])
      /\ \A x \in Inodes : Keeps(A[c], A[g], x) /\ SameView(A[c], A[g], x)
      /\ InodeBits(A[c]) \subseteq InodeBits(A[g])
  BY <1>2, <1>3, <1>4, <1>6, <1>7, CalmSteady
<1>9. A[g].dentry = A[c].dentry
  <2>1. "dentry" \in Fields /\ g \in c .. g
    BY <1>2, FieldNames
  <2>2. \A j \in c + 1 .. g : "dentry" \notin DOMAIN stores[j]
    BY <1>5
  <2>3. \A k \in c .. g : A[k]["dentry"] = A[c]["dentry"]
    BY <1>3, <2>1, <2>2, FieldKept
  <2>. QED  BY <2>1, <2>3
<1>10. Ready(A[g], p, nm)
  <2>1. /\ A[c].extent_num[p] > 0 /\ A[c].num_dir_entry[p] = image.num_dir_entry[p]
        /\ A[c].num_dir_entry[p] < D * Len(BlocksOf(A[c], p))
        /\ A[c].dentry[Slot(BlocksOf(A[c], p), A[c].num_dir_entry[p] + 1)] = NewEntry(nm)
        /\ NewInode \in InodeBits(A[c])
    BY DEF Ready
  <2>2. A[g].extent_num[p] > 0 /\ BlocksOf(A[g], p) = BlocksOf(A[c], p)
    BY <1>8, <2>1 DEF SameView
  <2>3. A[g].num_dir_entry[p] = A[c].num_dir_entry[p]
    BY <1>8, <2>1 DEF Keeps
  <2>. QED  BY <1>8, <1>9, <2>1, <2>2, <2>3 DEF Ready, SameListing
<1>11. A[Len(stores)] = Made(A[g], AddCount(p, 1))
  <2>1. g + 1 - 1 = g
    BY <1>2
  <2>2. A[g + 1] = Made(A[g + 1 - 1], stores[g + 1])
    BY <1>3, TraceStep
  <2>. QED  BY <1>2, <2>1, <2>2
<1>12. Sound(A[Len(stores)])
  BY <1>10, <1>11, ReadyCounts
<1>13. Neutral(A, g, Len(stores))
  <2>1. \A j \in g + 1 .. Len(stores) : j = g + 1
    BY <1>1, <1>2
  <2>2. \A j \in g + 1 .. Len(stores) : DOMAIN stores[j] \cap Counted = {}
    BY <1>2, <2>1, SingleStores DEF Counted
  <2>. QED  BY <1>3, <2>2, OtherNeutral
<1>14. Steady(A, g, Len(stores))
  <2>1. \A k \in g .. Len(stores) : k = g \/ k = Len(stores)
    BY <1>1, <1>2
  <2>. QED  BY <1>8, <1>12, <1>13, <2>1 DEF Steady
<1>15. Steady(A, c, Len(stores))
  BY <1>1, <1>2, <1>8, <1>14, SteadyJoin
<1>. QED  BY <1>10, <1>11, <1>15

-----------------------------------------------------------------------------
(* Where an addition writes, nobody looks. *)

\* A listed entry is in a slot of a block in use.
LEMMA ListsWhere ==
  ASSUME NEW img, Sound(img), NEW x \in Inodes, NEW k, Lists(img, x, k)
  PROVE  /\ img.extent_num[x] > 0 /\ k \in 1 .. D * Len(BlocksOf(img, x))
         /\ Slot(BlocksOf(img, x), k)[1] \in DataBits(img)
<1>1. IsImage(img) /\ Held(img) /\ UsesInto(img, x, Blocks) /\ UsesInto(img, x, DataBits(img))
  BY SoundView
<1>2. img.extent_num[x] > 0
  <2>1. CASE img.extent_num[x] = 0
    BY <2>1, NothingShown
  <2>2. img.extent_num[x] \in Nat
    BY <1>1, ImageTypes, DimensionsAssumption
  <2>. QED  BY <2>1, <2>2
<1>3. ShownBy(EntriesOf(img, x), BlocksOf(img, x), img.num_dir_entry[x], img.dentry)
  BY <1>1, <1>2, EntriesAre
<1>4. k \in 1 .. D * Len(BlocksOf(img, x)) /\ Len(BlocksOf(img, x)) \in Nat
  BY <1>3 DEF ShownBy, Lists
<1>. DEFINE q == (k - 1) \div D + 1
<1>5. q \in 1 .. Len(BlocksOf(img, x))
  BY <1>4, SlotOfEntry
<1>. HIDE DEF q
<1>6. Uses(img, x, q) /\ BlockAt(img, x, q) = BlocksOf(img, x)[q]
  BY <1>2, <1>4, <1>5 DEF Uses, BlockAt
<1>7. BlocksOf(img, x)[q] \in DataBits(img)
  BY <1>1, <1>6 DEF UsesInto
<1>. QED  BY <1>2, <1>4, <1>7 DEF Slot, q

\* In a clear block there is no entry and no extent.
LEMMA ClearUnseen ==
  ASSUME NEW img, Sound(img), NEW b, b \notin DataBits(img), NEW k
  PROVE  ~Visible(img, <<b, k>>) /\ ~Extended(img, <<b, k>>)
<1>1. ASSUME Visible(img, <<b, k>>) PROVE FALSE
  <2>1. PICK x \in Inodes : \E l : Lists(img, x, l) /\ <<b, k>> = Slot(BlocksOf(img, x), l)
    BY <1>1 DEF Visible
  <2>2. PICK l : Lists(img, x, l) /\ <<b, k>> = Slot(BlocksOf(img, x), l)
    BY <2>1
  <2>3. Slot(BlocksOf(img, x), l)[1] \in DataBits(img)
    BY <2>2, ListsWhere
  <2>. QED  BY <2>2, <2>3
<1>2. ASSUME Extended(img, <<b, k>>) PROVE FALSE
  <2>1. PICK x \in Inodes : /\ img.extent_num[x] > 0
                            /\ \E l \in 0 .. img.extent_num[x] - 1 :
                                  <<b, k>> = <<img.indirect_pt[x], l>>
    BY <1>2 DEF Extended
  <2>2. b = img.indirect_pt[x]
    BY <2>1
  <2>3. Len(BlocksOf(img, x)) \in Nat
    BY SoundView, LenProperties
  <2>4. Uses(img, x, 0) /\ BlockAt(img, x, 0) = b
    BY <2>1, <2>2, <2>3 DEF Uses, BlockAt
  <2>5. UsesInto(img, x, DataBits(img))
    BY SoundView
  <2>. QED  BY <2>4, <2>5 DEF UsesInto
<1>. QED  BY <1>1, <1>2

\* The slot after the last entry of a directory, in its last block.
LEMMA EndUnseen ==
  ASSUME NEW img, Sound(img), NEW p \in Inodes, Agrees(img, p),
         img.num_dir_entry[p] < D * Len(BlocksOf(img, p))
  PROVE  ~Visible(img, Slot(BlocksOf(img, p), img.num_dir_entry[p] + 1))
<1>. DEFINE n == img.num_dir_entry[p]
            bs == BlocksOf(img, p)
<1>1. n \in Nat /\ Len(bs) \in Nat /\ D \in Nat /\ Len(EntriesOf(img, p)) = n
  BY ParentCounts
<1>2. D * Len(bs) \in Nat
  BY <1>1
<1>3. n + 1 \in 1 .. D * Len(bs)
  BY <1>1, <1>2
<1>. SUFFICES ASSUME Visible(img, Slot(bs, n + 1)) PROVE FALSE
  OBVIOUS
<1>4. PICK x \in Inodes : \E l : Lists(img, x, l) /\ Slot(bs, n + 1) = Slot(BlocksOf(img, x), l)
  BY DEF Visible
<1>5. PICK l : Lists(img, x, l) /\ Slot(bs, n + 1) = Slot(BlocksOf(img, x), l)
  BY <1>4
<1>6. l \in 1 .. D * Len(BlocksOf(img, x))
  BY <1>5, ListsWhere
<1>7. x = p /\ l = n + 1
  BY <1>3, <1>5, <1>6, SlotOnce
<1>. QED  BY <1>1, <1>5, <1>7 DEF Lists

\* The extent after the last one of a directory.
LEMMA EndUnextended ==
  ASSUME NEW img, Sound(img), NEW p \in Inodes, img.extent_num[p] > 0
  PROVE  ~Extended(img, <<img.indirect_pt[p], img.extent_num[p]>>)
<1>. SUFFICES ASSUME Extended(img, <<img.indirect_pt[p], img.extent_num[p]>>) PROVE FALSE
  OBVIOUS
<1>1. PICK x \in Inodes : /\ img.extent_num[x] > 0
                          /\ \E l \in 0 .. img.extent_num[x] - 1 :
                                <<img.indirect_pt[p], img.extent_num[p]>> = <<img.indirect_pt[x], l>>
  BY DEF Extended
<1>2. PICK l \in 0 .. img.extent_num[x] - 1 : img.indirect_pt[p] = img.indirect_pt[x]
                                              /\ img.extent_num[p] = l
  BY <1>1
<1>3. Len(BlocksOf(img, x)) \in Nat /\ Len(BlocksOf(img, p)) \in Nat
  BY SoundView, LenProperties
<1>4. /\ Uses(img, x, 0) /\ BlockAt(img, x, 0) = img.indirect_pt[x]
      /\ Uses(img, p, 0) /\ BlockAt(img, p, 0) = img.indirect_pt[p]
  BY <1>1, <1>3 DEF Uses, BlockAt
<1>5. x = p
  <2>1. UsesApart(img)
    BY SoundView
  <2>. QED  BY <1>2, <1>4, <2>1 DEF UsesApart
<1>6. img.extent_num[p] \in Nat
  BY SoundView, ImageTypes, DimensionsAssumption
<1>. QED  BY <1>2, <1>5, <1>6

-----------------------------------------------------------------------------
(* The store of an entry. *)

EntryPut(A, stores, c, b, slot, nm) ==
    /\ c + 1 <= Len(stores) /\ Neutral(A, c, c + 1)
    /\ A[c + 1].dentry[<<b, slot>>] = NewEntry(nm)
    /\ Same(A[c], A[c + 1], Fields \ {"dentry"})
    /\ CalmOn(image, stores, c, c + 1)
    /\ DOMAIN stores[c + 1] = {"dentry"}

\* The store of an entry that nobody sees puts it there.
LEMMA EntryStore ==
  ASSUME Sound(image), NewInode # NotFound, NEW A, NEW stores, Traced(A, image, stores),
         NEW b \in Blocks, NEW slot \in Slots, NEW nm \in Names, ~Visible(image, <<b, slot>>),
         NEW c \in Nat, At(stores, c, << PutEntry(b, slot, nm) >>)
  PROVE  EntryPut(A, stores, c, b, slot, nm)
<1>0. Len(stores) \in Nat /\ \A k \in 0 .. Len(stores) : IsImage(A[k])
  BY DEF Traced
<1>. DEFINE s == PutEntry(b, slot, nm)
<1>1. DOMAIN s = {"dentry"} /\ s["dentry"] = <<<<b, slot>>, NewEntry(nm)>>
  BY DEF PutEntry, NewEntry
<1>2. CalmTyped(image, s)
  BY NewInodeFree, PutEntryCalm
<1>. HIDE DEF s
<1>3. c + 1 <= Len(stores) /\ stores[c + 1] = s
  <2>1. Len(<<s>>) = 1 /\ <<s>>[1] = s
    BY SeqOfFew
  <2>2. At(stores, c, <<s>>)
    BY DEF s
  <2>3. c + 1 <= Len(stores) /\ \A k \in 1 .. 1 : stores[c + k] = <<s>>[k]
    BY <2>1, <2>2 DEF At
  <2>. QED  BY <2>1, <2>3
<1>4. CalmOn(image, stores, c, c + 1)
  BY <1>2, <1>3 DEF CalmOn
<1>5. c + 1 \in 1 .. Len(stores) /\ c \in 0 .. Len(stores) /\ c + 1 \in c .. Len(stores)
  BY <1>0, <1>3
<1>6. Stored(A[c], A[c + 1], s)
  BY <1>3, <1>5, FieldStep
<1>7. Same(A[c], A[c + 1], Fields \ {"dentry"})
  BY <1>1, <1>6 DEF Stored, Same
<1>8. A[c + 1]["dentry"] = [A[c]["dentry"] EXCEPT ![<<b, slot>>] = NewEntry(nm)]
  <2>1. s["dentry"][1] = <<b, slot>> /\ s["dentry"][2] = NewEntry(nm)
    BY <1>1
  <2>. QED  BY <1>1, <1>6, <2>1, FieldNames DEF Stored
<1>9. A[c + 1].dentry[<<b, slot>>] = NewEntry(nm)
  <2>1. A[c].dentry \in [Blocks \X Slots -> Entry]
    BY <1>0, <1>5, ImageTypes
  <2>2. <<b, slot>> \in Blocks \X Slots
    OBVIOUS
  <2>. QED  BY <1>8, <2>1, <2>2
<1>10. Neutral(A, c, c + 1)
  <2>1. \A j \in c + 1 .. c + 1 : DOMAIN stores[j] \cap Counted = {}
    BY <1>1, <1>3 DEF Counted
  <2>. QED  BY <1>5, <2>1, OtherNeutral
<1>. QED  BY <1>1, <1>3, <1>4, <1>7, <1>9, <1>10 DEF EntryPut

\* CountEntry is a sequence of stores.
LEMMA CountEntryIsSeq ==
  ASSUME NEW p, NEW m
  PROVE  IsSeq(CountEntry(p, m))
<1>1. PICK q : IsSeq(q) /\ CountEntry(p, m) = q \o << AddCount(p, 1) >>
  BY CountEntryList
<1>2. IsSeq(<< AddCount(p, 1) >>)
  BY SeqOfFew
<1>. QED  BY <1>1, <1>2, SeqConcat

-----------------------------------------------------------------------------
(* Additions that fail, and additions to the last block. *)

\* A list of well-typed stores.
WellTyped(s) == IsSeq(s) /\ \A k \in 1 .. Len(s) : Typed(s[k])

\* Well-typed lists make a well-typed list.
LEMMA WellJoin ==
  ASSUME NEW a, NEW b, WellTyped(a), WellTyped(b)
  PROVE  /\ WellTyped(a \o b) /\ Len(a) \in Nat /\ Len(b) \in Nat
         /\ Len(a \o b) = Len(a) + Len(b)
<1>1. IsSeq(a) /\ IsSeq(b)
  BY DEF WellTyped
<1>2. /\ IsSeq(a \o b) /\ Len(a) \in Nat /\ Len(b) \in Nat /\ Len(a \o b) = Len(a) + Len(b)
      /\ \A k \in 1 .. Len(a) : (a \o b)[k] = a[k]
      /\ \A k \in 1 .. Len(b) : (a \o b)[Len(a) + k] = b[k]
  BY <1>1, SeqConcat
<1>. DEFINE s == a \o b
<1>. HIDE DEF s
<1>3. /\ IsSeq(s) /\ Len(s) = Len(a) + Len(b)
      /\ \A k \in 1 .. Len(a) : s[k] = a[k]
      /\ \A k \in 1 .. Len(b) : s[Len(a) + k] = b[k]
  BY <1>2 DEF s
<1>4. ASSUME NEW k \in 1 .. Len(s) PROVE Typed(s[k])
  <2>1. CASE k <= Len(a)
    <3>1. k \in 1 .. Len(a)
      BY <2>1
    <3>. QED  BY <1>3, <3>1 DEF WellTyped
  <2>2. CASE ~(k <= Len(a))
    <3>1. k - Len(a) \in 1 .. Len(b) /\ Len(a) + (k - Len(a)) = k
      BY <1>2, <1>3, <2>2
    <3>2. s[k] = b[k - Len(a)]
      BY <1>3, <3>1
    <3>. QED  BY <3>1, <3>2 DEF WellTyped
  <2>. QED  BY <2>1, <2>2
<1>5. WellTyped(s)
  BY <1>3, <1>4 DEF WellTyped
<1>. QED  BY <1>2, <1>5 DEF s

\* So does a single well-typed store.
LEMMA WellSingle ==
  ASSUME NEW s, Typed(s)
  PROVE  WellTyped(<<s>>) /\ Len(<<s>>) = 1 /\ <<s>>[1] = s
<1>1. IsSeq(<<s>>) /\ Len(<<s>>) = 1 /\ <<s>>[1] = s
  BY SeqOfFew
<1>. QED  BY <1>1 DEF WellTyped

\* The lists an addition is made of.
LEMMA WellPieces ==
  ASSUME Sound(image), NEW p \in Inodes
  PROVE  /\ \A m \in {"dir", "reg"} : NewInode # NotFound
               => WellTyped(TakeInode(m)) /\ Len(TakeInode(m)) = 3
         /\ \A b \in Blocks, n \in Int : WellTyped(TakeBlock(b, n)) /\ Len(TakeBlock(b, n)) = 2
         /\ \A m : WellTyped(CountEntry(p, m))
<1>1. /\ AvailableInodes \in Int /\ AvailableBlocks \in Int /\ image.num_dir_entry[p] \in Nat
      /\ image.available["blocks"] = AvailableBlocks
  BY SoundView, ImageTypes DEF AvailableInodes, AvailableBlocks
<1>2. ASSUME NEW m \in {"dir", "reg"}, NewInode # NotFound
      PROVE  WellTyped(TakeInode(m)) /\ Len(TakeInode(m)) = 3
  <2>1. NewInode \in Inodes /\ image.extent_num[NewInode] = 0
    BY <1>2, NewInodeFree
  <2>2. \A k \in 1 .. 3 : CalmTyped(image, TakeInode(m)[k])
    BY <1>1, <2>1, TakeInodeCalm
  <2>3. IsSeq(TakeInode(m)) /\ Len(TakeInode(m)) = 3
    <3>1. 1 \in 1 .. 3
      OBVIOUS
    <3>. QED  BY <1>1, <2>1, <3>1, TakeInodeCalm
  <2>. QED  BY <2>2, <2>3 DEF WellTyped, CalmTyped
<1>3. ASSUME NEW b \in Blocks, NEW n \in Int
      PROVE  WellTyped(TakeBlock(b, n)) /\ Len(TakeBlock(b, n)) = 2
  <2>. DEFINE x == [dataBit |-> <<b, TRUE>>]
              y == [available |-> <<"blocks", AvailableBlocks - n>>]
  <2>1. TakeBlock(b, n) = <<x, y>>
    BY DEF TakeBlock
  <2>2. DOMAIN x = {"dataBit"} /\ DOMAIN y = {"available"}
    OBVIOUS
  <2>3. x["dataBit"][2] \in BOOLEAN
    OBVIOUS
  <2>4. y["available"][2] \in Int
    BY <1>1
  <2>. HIDE DEF x, y
  <2>5. FieldRange["dataBit"] = BOOLEAN /\ FieldRange["available"] = Int
    BY DEF FieldRange
  <2>6. Typed(x)
    <3>1. \A f \in DOMAIN x : f = "dataBit"
      BY <2>2
    <3>2. \A f \in DOMAIN x : x[f][2] \in FieldRange[f]
      BY <2>3, <2>5, <3>1
    <3>3. DOMAIN x \subseteq Fields
      BY <2>2, FieldNames
    <3>. QED  BY <3>2, <3>3 DEF Typed
  <2>7. Typed(y)
    <3>1. \A f \in DOMAIN y : f = "available"
      BY <2>2
    <3>2. \A f \in DOMAIN y : y[f][2] \in FieldRange[f]
      BY <2>4, <2>5, <3>1
    <3>3. DOMAIN y \subseteq Fields
      BY <2>2, FieldNames
    <3>. QED  BY <3>2, <3>3 DEF Typed
  <2>8. IsSeq(<<x, y>>) /\ Len(<<x, y>>) = 2 /\ <<x, y>>[1] = x /\ <<x, y>>[2] = y
    BY SeqOfFew
  <2>9. \A k \in 1 .. 2 : <<x, y>>[k] = x \/ <<x, y>>[k] = y
    BY <2>8
  <2>. QED  BY <2>1, <2>6, <2>7, <2>8, <2>9 DEF WellTyped
<1>4. ASSUME NEW m PROVE WellTyped(CountEntry(p, m))
  <2>1. PICK q : /\ IsSeq(q) /\ CountEntry(p, m) = q \o << AddCount(p, 1) >>
                 /\ \A k \in 1 .. Len(q) : q[k] = AddSize(p, 1) \/ q[k] = AddLinks(p, 1)
    BY CountEntryList
  <2>2. Typed(AddSize(p, 1)) /\ Typed(AddLinks(p, 1))
    BY SingleStores DEF CalmTyped
  <2>3. Typed(AddCount(p, 1))
    <3>1. DOMAIN AddCount(p, 1) = {"num_dir_entry"}
          /\ AddCount(p, 1)["num_dir_entry"][2] = image.num_dir_entry[p] + 1
      BY DEF AddCount
    <3>2. FieldRange["num_dir_entry"] = Nat
      BY DEF FieldRange
    <3>. QED  BY <1>1, <3>1, <3>2, FieldNames DEF Typed
  <2>4. WellTyped(q)
    BY <2>1, <2>2 DEF WellTyped
  <2>5. WellTyped(<< AddCount(p, 1) >>)
    BY <2>3, WellSingle
  <2>. QED  BY <2>1, <2>4, <2>5, WellJoin
<1>. QED  BY <1>2, <1>3, <1>4

\* What an addition of nm to p begins with.
Enters(p, nm, m) ==
    /\ Sound(image) /\ NewInode # NotFound
    /\ p \in Inodes /\ image.inodeBit[p] /\ Agrees(image, p)
    /\ nm \in Names /\ m \in {"dir", "reg"}
    /\ numOfDataBlocks \in Int /\ numOfDataBlocks <= NumBlocks

\* Nothing is seen of the stores before the last, and the images stay sound.
Added(stores) ==
    /\ WellTyped(stores)
    /\ \A A : Traced(A, image, stores) => Steady(A, 0, Len(stores))

\* The trace of well-typed stores, and calm stretches of it.
LEMMA EntersTraced ==
  ASSUME NEW A, NEW stores, Traced(A, image, stores), Sound(image)
  PROVE  /\ A[0] = image /\ Sound(A[0]) /\ SameListing(A[0]) /\ Len(stores) \in Nat
         /\ \A k \in 0 .. Len(stores) : IsImage(A[k])
<1>1. A[0] = image
  BY TraceSteps DEF Traced
<1>. QED  BY <1>1 DEF Traced, SameListing

\* The entry in place after its store, in the last block of p.
LEMMA ReadyLast ==
  ASSUME NEW p, NEW nm, NEW m, Enters(p, nm, m), image.extent_num[p] > 0,
         image.num_dir_entry[p] < D * Len(BlocksOf(image, p)),
         NEW b, NEW slot, <<b, slot>> = Slot(BlocksOf(image, p), image.num_dir_entry[p] + 1),
         NEW A, NEW stores, Traced(A, image, stores), InodeTaken(A, stores),
         At(stores, 3, << PutEntry(b, slot, nm) >>)
  PROVE  Steady(A, 0, 4) /\ SameListing(A[4]) /\ Ready(A[4], p, nm) /\ CalmOn(image, stores, 0, 4)
<1>0. /\ Sound(image) /\ NewInode # NotFound /\ p \in Inodes /\ nm \in Names /\ Agrees(image, p)
  BY DEF Enters
<1>1. /\ A[0] = image /\ Sound(A[0]) /\ SameListing(A[0]) /\ Len(stores) \in Nat
      /\ \A k \in 0 .. Len(stores) : IsImage(A[k])
  BY <1>0, EntersTraced
<1>. DEFINE n == image.num_dir_entry[p]
            bs == BlocksOf(image, p)
<1>2. n \in Nat /\ Len(bs) \in Nat /\ D \in Nat /\ bs \in Seq(Blocks)
  BY <1>0, ParentCounts, SoundView
<1>3. n + 1 \in 1 .. D * Len(bs) /\ <<b, slot>> = Slot(bs, n + 1)
  BY <1>2
<1>5. b \in Blocks /\ slot \in Slots
  <2>. DEFINE k == n + 1
  <2>1. k \in 1 .. D * Len(bs) /\ <<b, slot>> = Slot(bs, k)
    BY <1>3
  <2>. HIDE DEF k, n, bs
  <2>2. (k - 1) \div D + 1 \in 1 .. Len(bs) /\ (k - 1) % D \in Slots
    BY <1>2, <2>1, SlotOfEntry
  <2>3. b = bs[(k - 1) \div D + 1] /\ slot = (k - 1) % D
    BY <2>1 DEF Slot
  <2>4. \A i \in 1 .. Len(bs) : bs[i] \in Blocks
    BY <1>2, ElementOfSeq
  <2>. QED  BY <2>2, <2>3, <2>4
<1>6. ~Visible(image, <<b, slot>>)
  BY <1>0, EndUnseen
<1>7. EntryPut(A, stores, 3, b, slot, nm)
  BY <1>0, <1>5, <1>6, EntryStore
<1>8. /\ 3 + 1 <= Len(stores) /\ Neutral(A, 3, 3 + 1)
      /\ A[3 + 1].dentry[<<b, slot>>] = NewEntry(nm)
      /\ Same(A[3], A[3 + 1], Fields \ {"dentry"}) /\ CalmOn(image, stores, 3, 3 + 1)
  BY <1>7 DEF EntryPut
<1>9. /\ Neutral(A, 0, 3) /\ CalmOn(image, stores, 0, 3)
      /\ A[3].inodeBit = [image.inodeBit EXCEPT ![NewInode] = TRUE]
  BY DEF InodeTaken
<1>10. 3 + 1 = 4
  OBVIOUS
<1>11. CalmOn(image, stores, 0, 4)
  BY <1>8, <1>9, <1>10, CalmJoin
<1>12. Neutral(A, 0, 4)
  <2>1. \A k \in 0 .. 4 : IsImage(A[k])
    BY <1>1, <1>8, <1>10
  <2>. QED  BY <1>8, <1>9, <1>10, <2>1, NeutralJoin
<1>13. /\ Steady(A, 0, 4) /\ SameListing(A[4]) /\ Sound(A[4])
       /\ \A x \in Inodes : Keeps(A[0], A[4], x) /\ SameView(A[0], A[4], x)
  <2>1. CalmOn(A[0], stores, 0, 4) /\ 4 <= Len(stores)
    BY <1>1, <1>8, <1>10, <1>11
  <2>. QED  BY <1>1, <1>12, <2>1, CalmSteady
<1>14. NewInode \in InodeBits(A[4])
  <2>1. "inodeBit" \in Fields \ {"dentry"}
    BY FieldNames
  <2>2. A[4].inodeBit = A[3].inodeBit
    BY <1>8, <1>10, <2>1 DEF Same
  <2>3. NewInode \in Inodes /\ image.inodeBit \in [Inodes -> BOOLEAN]
    BY <1>0, NewInodeFree, SoundView, ImageTypes
  <2>. QED  BY <1>9, <2>2, <2>3 DEF InodeBits
<1>15. /\ A[4].extent_num[p] > 0 /\ BlocksOf(A[4], p) = BlocksOf(image, p)
       /\ A[4].num_dir_entry[p] = image.num_dir_entry[p]
  BY <1>0, <1>1, <1>13 DEF SameView, Keeps
<1>16. Ready(A[4], p, nm)
  BY <1>8, <1>10, <1>13, <1>14, <1>15 DEF Ready, SameListing
<1>. QED  BY <1>11, <1>13, <1>16

\* The slot after n entries.
LEMMA SlotAfter ==
  ASSUME NEW bs, NEW n \in Nat
  PROVE  Slot(bs, n + 1) = <<bs[n \div D + 1], n % D>>
<1>. DEFINE k == n + 1
<1>1. k - 1 = n
  OBVIOUS
<1>. HIDE DEF k
<1>2. Slot(bs, k) = <<bs[(k - 1) \div D + 1], (k - 1) % D>>
  BY DEF Slot
<1>3. Slot(bs, k) = <<bs[n \div D + 1], n % D>>
  BY <1>1, <1>2
<1>. QED  BY <1>3 DEF k

\* The list s is the end of stores, from the one after the first c on.
AtEnd(stores, c, s) == At(stores, c, s) /\ c + Len(s) = Len(stores)

\* The stores of an addition to the last block of a directory.
LastList(p, nm, m) ==
    TakeInode(m) \o PutThenCount(p, m, Seen!find_last_block(p), image.num_dir_entry[p] % D, nm)

\* Where its parts are.
LEMMA LastParts ==
  ASSUME NEW p, NEW nm, NEW m, Enters(p, nm, m), image.size[p] % D # 0,
         NEW S, S = LastList(p, nm, m),
         NEW b, b = Seen!find_last_block(p), NEW slot, slot = image.num_dir_entry[p] % D
  PROVE  /\ WellTyped(S) /\ Len(S) \in Nat
         /\ At(S, 0, TakeInode(m)) /\ At(S, 3, << PutEntry(b, slot, nm) >>)
         /\ AtEnd(S, 4, CountEntry(p, m))
         /\ image.extent_num[p] > 0 /\ image.num_dir_entry[p] < D * Len(BlocksOf(image, p))
         /\ <<b, slot>> = Slot(BlocksOf(image, p), image.num_dir_entry[p] + 1)
<1>0. /\ Sound(image) /\ NewInode # NotFound /\ p \in Inodes /\ nm \in Names /\ Agrees(image, p)
      /\ m \in {"dir", "reg"}
  BY DEF Enters
<1>. DEFINE n == image.num_dir_entry[p]
            bs == BlocksOf(image, p)
            pe == << PutEntry(b, slot, nm) >>
            ce == CountEntry(p, m)
<1>1. /\ n \in Nat /\ Len(bs) \in Nat /\ D \in Nat /\ n # 0 /\ image.extent_num[p] > 0
      /\ n < D * Len(bs) /\ n \div D + 1 = Len(bs)
  <2>1. n % D # 0
    BY <1>0 DEF Agrees
  <2>2. 0 % D = 0
    BY DimensionsAssumption DEF D
  <2>. QED  BY <1>0, <2>1, <2>2, ParentCounts
<1>2. b = bs[Len(bs)]
  BY <1>0, <1>1, FindLastBlock
<1>3. <<b, slot>> = Slot(bs, n + 1)
  <2>3. Slot(bs, n + 1) = <<bs[n \div D + 1], n % D>>
    BY <1>1, SlotAfter
  <2>4. slot = n % D
    OBVIOUS
  <2>. QED  BY <1>1, <1>2, <2>3, <2>4
<1>4. WellTyped(TakeInode(m)) /\ Len(TakeInode(m)) = 3 /\ WellTyped(ce)
  BY <1>0, WellPieces
<1>5. WellTyped(pe) /\ Len(pe) = 1
  <2>1. b \in Blocks /\ ~Visible(image, <<b, slot>>)
    <3>1. bs \in Seq(Blocks) /\ Len(bs) \in 1 .. Len(bs)
      BY <1>0, <1>1, SoundView
    <3>2. b \in Blocks
      <4>. HIDE DEF bs
      <4>. QED  BY <1>2, <3>1, ElementOfSeq
    <3>. QED  BY <1>0, <1>1, <1>3, <3>2, EndUnseen
  <2>2. Typed(PutEntry(b, slot, nm))
    BY <1>0, <2>1, NewInodeFree, PutEntryCalm DEF CalmTyped
  <2>. QED  BY <2>2, WellSingle
<1>6. S = TakeInode(m) \o (pe \o ce)
  BY DEF PutThenCount, LastList
<1>. HIDE DEF n, bs, pe, ce
<1>7. WellTyped(pe \o ce) /\ Len(pe \o ce) = 1 + Len(ce) /\ Len(ce) \in Nat
  BY <1>4, <1>5, WellJoin
<1>8. WellTyped(S) /\ Len(S) = 4 + Len(ce)
  <2>1. WellTyped(S) /\ Len(S) = 3 + Len(pe \o ce)
    BY <1>4, <1>6, <1>7, WellJoin
  <2>. QED  BY <1>7, <2>1
<1>9. At(S, 0, TakeInode(m)) /\ At(S, 3, pe) /\ At(S, 4, ce)
  <2>1. IsSeq(TakeInode(m)) /\ IsSeq(pe) /\ IsSeq(ce) /\ IsSeq(pe \o ce) /\ IsSeq(S)
    BY <1>4, <1>5, <1>7, <1>8 DEF WellTyped
  <2>2. At(S, 0, S)
    BY <2>1, AtAll
  <2>3. At(S, 0, TakeInode(m)) /\ At(S, 0 + 3, pe \o ce)
    BY <1>4, <1>6, <2>1, <2>2, AtConcat
  <2>4. 0 + 3 = 3 /\ 3 + 1 = 4
    OBVIOUS
  <2>5. At(S, 3, pe) /\ At(S, 3 + 1, ce)
    BY <1>5, <2>1, <2>3, <2>4, AtConcat
  <2>. QED  BY <2>3, <2>4, <2>5
<1>10. AtEnd(S, 4, ce)
  BY <1>8, <1>9 DEF AtEnd
<1>. QED  BY <1>1, <1>3, <1>7, <1>8, <1>9, <1>10 DEF n, bs, pe, ce

\* The addition to the last block of a directory.
LEMMA AddedToLast ==
  ASSUME NEW p, NEW nm, NEW m, Enters(p, nm, m), image.size[p] % D # 0
  PROVE  Added(TakeInode(m)
               \o PutThenCount(p, m, Seen!find_last_block(p), image.num_dir_entry[p] % D, nm))
<1>0. /\ Sound(image) /\ NewInode # NotFound /\ p \in Inodes /\ nm \in Names
      /\ m \in {"dir", "reg"}
  BY DEF Enters
<1>. DEFINE S == LastList(p, nm, m)
            b == Seen!find_last_block(p)
            slot == image.num_dir_entry[p] % D
<1>1. /\ WellTyped(S) /\ Len(S) \in Nat
      /\ At(S, 0, TakeInode(m)) /\ At(S, 3, << PutEntry(b, slot, nm) >>)
      /\ AtEnd(S, 4, CountEntry(p, m))
      /\ image.extent_num[p] > 0 /\ image.num_dir_entry[p] < D * Len(BlocksOf(image, p))
      /\ <<b, slot>> = Slot(BlocksOf(image, p), image.num_dir_entry[p] + 1)
  BY LastParts
<1>. HIDE DEF S, b, slot
<1>2. PICK g : CountAt(S, 4, g, p) /\ g + 1 = Len(S)
  <2>1. At(S, 4, CountEntry(p, m)) /\ 4 + Len(CountEntry(p, m)) = Len(S)
    BY <1>1 DEF AtEnd
  <2>2. \E g : CountAt(S, 4, g, p) /\ g + 1 = 4 + Len(CountEntry(p, m))
    BY <1>1, <2>1, CountEntryAt
  <2>. QED  BY <2>1, <2>2
<1>3. ASSUME NEW A, Traced(A, image, S)
      PROVE  Steady(A, 0, Len(S))
  <2>1. InodeTaken(A, S)
    BY <1>0, <1>1, <1>3, InodeStores
  <2>2. Steady(A, 0, 4) /\ SameListing(A[4]) /\ Ready(A[4], p, nm)
    BY <1>1, <1>3, <2>1, ReadyLast
  <2>3. Steady(A, 4, Len(S))
    BY <1>0, <1>2, <1>3, <2>2, ReadyEnds
  <2>4. 4 <= Len(S)
    BY <1>1, <1>2 DEF CountAt
  <2>. QED  BY <1>1, <2>2, <2>3, <2>4, SteadyJoin
<1>. QED  BY <1>1, <1>3 DEF Added, S, LastList

-----------------------------------------------------------------------------
(* Single stores of other fields than bits and counters. *)

\* A list of two stores is one store after the other.
LEMMA AtPair ==
  ASSUME NEW stores, Len(stores) \in Nat, NEW c, NEW x, NEW y, At(stores, c, <<x, y>>)
  PROVE  /\ c \in Nat /\ c + 2 <= Len(stores) /\ stores[c + 1] = x /\ stores[c + 2] = y
         /\ At(stores, c, <<x>>) /\ At(stores, c + 1, <<y>>)
<1>1. /\ IsSeq(<<x>>) /\ Len(<<x>>) = 1 /\ <<x>>[1] = x
      /\ IsSeq(<<y>>) /\ Len(<<y>>) = 1 /\ <<y>>[1] = y
      /\ Len(<<x, y>>) = 2 /\ <<x, y>>[1] = x /\ <<x, y>>[2] = y
  BY SeqOfFew
<1>2. c \in Nat /\ c + 2 <= Len(stores) /\ \A k \in 1 .. 2 : stores[c + k] = <<x, y>>[k]
  BY <1>1 DEF At
<1>3. stores[c + 1] = x /\ stores[c + 2] = y
  BY <1>1, <1>2
<1>4. c + 1 <= Len(stores) /\ c + 1 + 1 <= Len(stores) /\ c + 1 + 1 = c + 2 /\ c + 1 \in Nat
  BY <1>2
<1>5. At(stores, c, <<x>>)
  <2>1. \A k \in 1 .. 1 : stores[c + k] = <<x>>[k]
    BY <1>1, <1>3
  <2>. QED  BY <1>1, <1>2, <1>4, <2>1 DEF At
<1>6. At(stores, c + 1, <<y>>)
  <2>1. \A k \in 1 .. 1 : stores[c + 1 + k] = <<y>>[k]
    BY <1>1, <1>3, <1>4
  <2>. QED  BY <1>1, <1>4, <2>1 DEF At
<1>. QED  BY <1>2, <1>3, <1>5, <1>6

\* A list of one store is that store.
LEMMA AtSingle ==
  ASSUME NEW stores, NEW c, NEW s, At(stores, c, <<s>>)
  PROVE  c \in Nat /\ c + 1 <= Len(stores) /\ stores[c + 1] = s
<1>1. Len(<<s>>) = 1 /\ <<s>>[1] = s
  BY SeqOfFew
<1>2. c \in Nat /\ c + 1 <= Len(stores) /\ \A k \in 1 .. 1 : stores[c + k] = <<s>>[k]
  BY <1>1 DEF At
<1>. QED  BY <1>1, <1>2

\* A store of v at the place x of the field f alone.
FieldPut(A, stores, c, f, x, v) ==
    /\ c + 1 <= Len(stores) /\ Neutral(A, c, c + 1)
    /\ A[c + 1][f] = [A[c][f] EXCEPT ![x] = v] /\ Same(A[c], A[c + 1], Fields \ {f})
    /\ A[c + 1] = Made(A[c], stores[c + 1])

\* A single store of a field that is no bit and no counter.
LEMMA FieldStore ==
  ASSUME NEW A, NEW img, NEW stores, Traced(A, img, stores), NEW c \in Nat,
         NEW f \in Fields \ Counted, NEW x, NEW v, NEW s,
         DOMAIN s = {f}, s[f] = <<x, v>>, At(stores, c, <<s>>)
  PROVE  FieldPut(A, stores, c, f, x, v)
<1>0. Len(stores) \in Nat
  BY DEF Traced
<1>1. c + 1 <= Len(stores) /\ stores[c + 1] = s
  BY AtSingle
<1>2. c + 1 \in 1 .. Len(stores) /\ c \in 0 .. Len(stores) /\ c + 1 \in c .. Len(stores)
      /\ c + 1 - 1 = c
  BY <1>0, <1>1
<1>3. Stored(A[c], A[c + 1], s)
  BY <1>1, <1>2, FieldStep
<1>4. s[f][1] = x /\ s[f][2] = v
  OBVIOUS
<1>5. A[c + 1][f] = [A[c][f] EXCEPT ![x] = v]
  BY <1>3, <1>4 DEF Stored
<1>6. Same(A[c], A[c + 1], Fields \ {f})
  BY <1>3 DEF Stored, Same
<1>7. A[c + 1] = Made(A[c], stores[c + 1])
  <2>1. A[c + 1] = Made(A[c + 1 - 1], stores[c + 1])
    BY <1>2, TraceStep
  <2>. QED  BY <1>2, <2>1
<1>8. Neutral(A, c, c + 1)
  <2>1. \A j \in c + 1 .. c + 1 : DOMAIN stores[j] \cap Counted = {}
    BY <1>1
  <2>. QED  BY <1>2, <2>1, OtherNeutral
<1>. QED  BY <1>1, <1>5, <1>6, <1>7, <1>8 DEF FieldPut

\* The extent e of ib becomes the block b.
ExtentPut(A, stores, c, ib, e, b) ==
    /\ c + 2 <= Len(stores) /\ Neutral(A, c, c + 2)
    /\ A[c + 2].start = [A[c].start EXCEPT ![<<ib, e>>] = b]
    /\ A[c + 2].count = [A[c].count EXCEPT ![<<ib, e>>] = 1]
    /\ Same(A[c], A[c + 2], Fields \ {"start", "count"})
    /\ CalmOn(image, stores, c, c + 2)

\* The two stores of an extent put it there.
LEMMA ExtentStores ==
  ASSUME NEW A, NEW img, NEW stores, Traced(A, img, stores), NEW c \in Nat,
         NEW ib, NEW e, NEW b \in Blocks, ~Extended(image, <<ib, e>>),
         At(stores, c, PutExtent(ib, e, b))
  PROVE  ExtentPut(A, stores, c, ib, e, b)
<1>0. Len(stores) \in Nat /\ \A k \in 0 .. Len(stores) : IsImage(A[k])
  BY DEF Traced
<1>. DEFINE x == [start |-> <<<<ib, e>>, b>>]
            y == [count |-> <<<<ib, e>>, 1>>]
<1>1. PutExtent(ib, e, b) = <<x, y>>
  BY DEF PutExtent
<1>2. DOMAIN x = {"start"} /\ x["start"] = <<<<ib, e>>, b>>
      /\ DOMAIN y = {"count"} /\ y["count"] = <<<<ib, e>>, 1>>
  OBVIOUS
<1>. HIDE DEF x, y
<1>3. /\ c + 2 <= Len(stores) /\ stores[c + 1] = x /\ stores[c + 2] = y
      /\ At(stores, c, <<x>>) /\ At(stores, c + 1, <<y>>)
  BY <1>0, <1>1, AtPair
<1>4. "start" \in Fields \ Counted /\ "count" \in Fields \ Counted
  BY FieldNames DEF Counted
<1>5. FieldPut(A, stores, c, "start", <<ib, e>>, b)
  BY <1>2, <1>3, <1>4, FieldStore
<1>6. FieldPut(A, stores, c + 1, "count", <<ib, e>>, 1)
  <2>1. c + 1 \in Nat
    OBVIOUS
  <2>. QED  BY <1>2, <1>3, <1>4, <2>1, FieldStore
<1>7. c + 1 + 1 = c + 2
  OBVIOUS
<1>8. /\ Neutral(A, c, c + 1) /\ Neutral(A, c + 1, c + 2)
      /\ A[c + 1]["start"] = [A[c]["start"] EXCEPT ![<<ib, e>>] = b]
      /\ Same(A[c], A[c + 1], Fields \ {"start"})
      /\ A[c + 2]["count"] = [A[c + 1]["count"] EXCEPT ![<<ib, e>>] = 1]
      /\ Same(A[c + 1], A[c + 2], Fields \ {"count"})
  BY <1>5, <1>6, <1>7 DEF FieldPut
<1>9. /\ A[c + 2].start = [A[c].start EXCEPT ![<<ib, e>>] = b]
      /\ A[c + 2].count = [A[c].count EXCEPT ![<<ib, e>>] = 1]
      /\ Same(A[c], A[c + 2], Fields \ {"start", "count"})
  BY <1>8, FieldNames DEF Same
<1>10. Neutral(A, c, c + 2)
  <2>1. \A k \in c .. c + 2 : IsImage(A[k])
    BY <1>0, <1>3
  <2>. QED  BY <1>8, <2>1, NeutralJoin
<1>11. CalmOn(image, stores, c, c + 2)
  <2>1. Len(PutExtent(ib, e, b)) = 2 /\ \A k \in 1 .. 2 : CalmTyped(image, PutExtent(ib, e, b)[k])
    <3>1. \A k \in 1 .. 2 : CalmTyped(image, PutExtent(ib, e, b)[k])
      BY PutExtentCalm
    <3>2. Len(PutExtent(ib, e, b)) = 2
      BY <1>1, SeqOfFew
    <3>. QED  BY <3>1, <3>2
  <2>2. CalmOn(image, stores, c, c + Len(PutExtent(ib, e, b)))
    BY <2>1, CalmAt
  <2>. QED  BY <2>1, <2>2
<1>. QED  BY <1>3, <1>9, <1>10, <1>11 DEF ExtentPut

-----------------------------------------------------------------------------
(* Additions that fail after they took an inode, or an indirect block too. *)

\* A list of n well-typed stores.
Long(s, n) == WellTyped(s) /\ Len(s) = n /\ n \in Nat

\* The length of two lists together.
LEMMA LongJoin ==
  ASSUME NEW a, NEW b, NEW k, NEW l, Long(a, k), Long(b, l)
  PROVE  Long(a \o b, k + l)
<1>1. WellTyped(a \o b) /\ Len(a \o b) = Len(a) + Len(b)
  BY WellJoin DEF Long
<1>. DEFINE s == a \o b
<1>. HIDE DEF s
<1>2. WellTyped(s) /\ Len(s) = Len(a) + Len(b)
  BY <1>1 DEF s
<1>3. Long(s, k + l)
  BY <1>2 DEF Long
<1>. QED  BY <1>3 DEF s

\* Where each of two lists that were joined is.
LEMMA LongAt ==
  ASSUME NEW stores, NEW c \in Nat, NEW a, NEW b, NEW k, NEW l, Long(a, k), Long(b, l),
         At(stores, c, a \o b)
  PROVE  At(stores, c, a) /\ At(stores, c + k, b)
<1>1. IsSeq(a) /\ IsSeq(b) /\ Len(a) = k
  BY DEF Long, WellTyped
<1>2. At(stores, c, a) /\ At(stores, c + Len(a), b)
  BY <1>1, AtConcat
<1>. QED  BY <1>1, <1>2

\* A well-typed list, as a part of itself.
LEMMA WellWhole ==
  ASSUME NEW stores, WellTyped(stores)
  PROVE  At(stores, 0, stores) /\ Len(stores) \in Nat
BY AtAll DEF WellTyped

\* A calm and neutral list adds nothing.
LEMMA CalmAdds ==
  ASSUME Sound(image), NEW stores, WellTyped(stores),
         \A A : Traced(A, image, stores) =>
                   CalmOn(image, stores, 0, Len(stores)) /\ Neutral(A, 0, Len(stores))
  PROVE  Added(stores)
<1>1. ASSUME NEW A, Traced(A, image, stores) PROVE Steady(A, 0, Len(stores))
  <2>1. A[0] = image /\ Sound(A[0]) /\ SameListing(A[0]) /\ Len(stores) \in Nat
    BY <1>1, EntersTraced
  <2>2. CalmOn(A[0], stores, 0, Len(stores)) /\ Neutral(A, 0, Len(stores))
    BY <1>1, <2>1
  <2>3. 0 \in Nat /\ 0 <= Len(stores) /\ Len(stores) <= Len(stores)
    BY <2>1
  <2>. QED  BY <1>1, <2>1, <2>2, <2>3, CalmSteady
<1>. QED  BY <1>1 DEF Added

\* A callback that gives up once it has an inode adds nothing.
LEMMA AddedInode ==
  ASSUME Sound(image), NewInode # NotFound, NEW m \in {"dir", "reg"}, NEW p \in Inodes
  PROVE  Added(TakeInode(m))
<1>. DEFINE S == TakeInode(m)
<1>1. WellTyped(S) /\ Len(S) = 3
  BY WellPieces
<1>2. At(S, 0, TakeInode(m))
  BY <1>1, WellWhole
<1>3. ASSUME NEW A, Traced(A, image, S)
      PROVE  CalmOn(image, S, 0, Len(S)) /\ Neutral(A, 0, Len(S))
  <2>1. InodeTaken(A, S)
    BY <1>2, <1>3, InodeStores
  <2>. QED  BY <1>1, <2>1 DEF InodeTaken
<1>. QED  BY <1>1, <1>3, CalmAdds

\* The stores up to that of the indirect block's address.
ToIndirect(p, m, ib) ==
    TakeInode(m) \o (TakeBlock(ib, 1) \o << [indirect_pt |-> <<p, ib>>] >>)

\* Where the parts of ToIndirect are.
LEMMA IndirectList ==
  ASSUME Sound(image), NewInode # NotFound, NEW m \in {"dir", "reg"}, NEW p \in Inodes,
         NEW ib \in Blocks, image.extent_num[p] = 0
  PROVE  /\ WellTyped(ToIndirect(p, m, ib)) /\ Len(ToIndirect(p, m, ib)) = 6
         /\ \A stores : At(stores, 0, ToIndirect(p, m, ib)) =>
              /\ At(stores, 0, TakeInode(m)) /\ At(stores, 3, TakeBlock(ib, 1))
              /\ At(stores, 5, << [indirect_pt |-> <<p, ib>>] >>)
<1>. DEFINE z == << [indirect_pt |-> <<p, ib>>] >>
            y == TakeBlock(ib, 1) \o z
<1>1. Long(TakeInode(m), 3)
  BY WellPieces DEF Long
<1>2. Long(TakeBlock(ib, 1), 2)
  BY WellPieces DEF Long
<1>3. Long(z, 1)
  BY IndirectCalm, WellSingle DEF CalmTyped, Long
<1>. HIDE DEF z
<1>4. Long(y, 3)
  <2>1. Long(y, 2 + 1)
    BY <1>2, <1>3, LongJoin
  <2>. QED  BY <2>1
<1>5. ToIndirect(p, m, ib) = TakeInode(m) \o y
  BY DEF ToIndirect, z
<1>6. Long(ToIndirect(p, m, ib), 6)
  <2>. HIDE DEF y
  <2>1. Long(TakeInode(m) \o y, 3 + 3)
    BY <1>1, <1>4, LongJoin
  <2>2. 3 + 3 = 6
    OBVIOUS
  <2>. QED  BY <1>5, <2>1, <2>2
<1>7. ASSUME NEW stores, At(stores, 0, ToIndirect(p, m, ib))
      PROVE  At(stores, 0, TakeInode(m)) /\ At(stores, 3, TakeBlock(ib, 1)) /\ At(stores, 5, z)
  <2>1. At(stores, 0, TakeInode(m)) /\ At(stores, 0 + 3, y)
    <3>. HIDE DEF y
    <3>1. At(stores, 0, TakeInode(m) \o y)
      BY <1>5, <1>7
    <3>. QED  BY <1>1, <1>4, <3>1, LongAt
  <2>2. 0 + 3 = 3 /\ 3 + 2 = 5 /\ 3 \in Nat
    OBVIOUS
  <2>3. At(stores, 3, TakeBlock(ib, 1)) /\ At(stores, 3 + 2, z)
    <3>1. At(stores, 3, TakeBlock(ib, 1) \o z)
      BY <2>1, <2>2
    <3>. QED  BY <1>2, <1>3, <2>2, <3>1, LongAt
  <2>. QED  BY <2>1, <2>2, <2>3
<1>. QED  BY <1>6, <1>7 DEF z, Long

\* What they leave.
IndirectTaken(A, stores, p, ib) ==
    /\ 6 <= Len(stores) /\ Neutral(A, 0, 6) /\ CalmOn(image, stores, 0, 6)
    /\ A[6].inodeBit = [image.inodeBit EXCEPT ![NewInode] = TRUE]
    /\ A[6].dataBit = [image.dataBit EXCEPT ![ib] = TRUE]
    /\ A[6].available["blocks"] = AvailableBlocks - 1
    /\ A[6].indirect_pt = [image.indirect_pt EXCEPT ![p] = ib]

\* The stores of ToIndirect take the inode and the indirect block.
LEMMA IndirectStores ==
  ASSUME Sound(image), NewInode # NotFound, NEW m \in {"dir", "reg"}, NEW p \in Inodes,
         NEW ib \in Blocks, ib \notin DataBits(image), image.extent_num[p] = 0,
         NEW A, NEW stores, Traced(A, image, stores), At(stores, 0, ToIndirect(p, m, ib))
  PROVE  IndirectTaken(A, stores, p, ib)
<1>0. /\ Len(stores) \in Nat /\ \A k \in 0 .. Len(stores) : IsImage(A[k])
  BY DEF Traced
<1>. DEFINE s == [indirect_pt |-> <<p, ib>>]
<1>1. At(stores, 0, TakeInode(m)) /\ At(stores, 3, TakeBlock(ib, 1)) /\ At(stores, 5, <<s>>)
  BY IndirectList
<1>2. /\ A[0] = image /\ 3 <= Len(stores) /\ Neutral(A, 0, 3) /\ CalmOn(image, stores, 0, 3)
      /\ A[3].inodeBit = [image.inodeBit EXCEPT ![NewInode] = TRUE]
      /\ A[3].dataBit = image.dataBit /\ A[3].available["blocks"] = AvailableBlocks
      /\ A[3].indirect_pt = image.indirect_pt
  <2>1. InodeTaken(A, stores)
    BY <1>1, InodeStores
  <2>. QED  BY <2>1 DEF InodeTaken, Same, Laid
<1>3. /\ 5 <= Len(stores) /\ Neutral(A, 3, 5) /\ CalmOn(image, stores, 3, 5)
      /\ A[5].dataBit = [image.dataBit EXCEPT ![ib] = TRUE]
      /\ A[5].available["blocks"] = AvailableBlocks - 1
      /\ A[5].inodeBit = A[3].inodeBit /\ A[5].indirect_pt = A[3].indirect_pt
  <2>1. ~A[3].dataBit[ib]
    BY <1>2 DEF DataBits
  <2>2. AvailableBlocks \in Int
    BY SoundView, ImageTypes DEF AvailableBlocks
  <2>3. A[3].available["blocks"] = AvailableBlocks - 1 + 1 /\ 3 \in Nat /\ 1 \in Nat /\ 1 >= 1
    BY <1>2, <2>2
  <2>4. BlockTaken(A, stores, 3, ib, 1)
    BY <1>1, <2>1, <2>3, BlockStores
  <2>5. 3 + 2 = 5 /\ "inodeBit" \in Other /\ "indirect_pt" \in Other
    BY FieldNames DEF Other
  <2>. QED  BY <1>2, <2>4, <2>5 DEF BlockTaken, Same
<1>4. /\ 6 <= Len(stores) /\ Neutral(A, 5, 6)
      /\ A[6].indirect_pt = [A[5].indirect_pt EXCEPT ![p] = ib]
      /\ A[6].dataBit = A[5].dataBit /\ A[6].available = A[5].available
      /\ A[6].inodeBit = A[5].inodeBit
  <2>1. DOMAIN s = {"indirect_pt"} /\ s["indirect_pt"] = <<p, ib>>
    OBVIOUS
  <2>2. "indirect_pt" \in Fields \ Counted /\ 5 \in Nat
    BY FieldNames DEF Counted
  <2>. HIDE DEF s
  <2>3. FieldPut(A, stores, 5, "indirect_pt", p, ib)
    BY <1>1, <2>1, <2>2, FieldStore
  <2>4. 5 + 1 = 6
    OBVIOUS
  <2>5. \A f \in Counted : f \in Fields \ {"indirect_pt"}
    BY FieldNames DEF Counted
  <2>. QED  BY <2>3, <2>4, <2>5 DEF FieldPut, Same, Counted
<1>5. CalmOn(image, stores, 5, 6)
  <2>1. CalmTyped(image, s)
    BY IndirectCalm
  <2>2. stores[5 + 1] = s /\ 5 + 1 = 6
    BY <1>1, AtSingle
  <2>. HIDE DEF s
  <2>. QED  BY <2>1, <2>2 DEF CalmOn
<1>6. CalmOn(image, stores, 0, 6)
  <2>1. CalmOn(image, stores, 0, 5)
    BY <1>2, <1>3, CalmJoin
  <2>. QED  BY <1>5, <2>1, CalmJoin
<1>7. Neutral(A, 0, 6)
  <2>1. \A k \in 0 .. 6 : IsImage(A[k])
    BY <1>0, <1>4
  <2>2. \A k \in 0 .. 5 : IsImage(A[k])
    BY <2>1
  <2>3. Neutral(A, 0, 5)
    BY <1>2, <1>3, <2>2, NeutralJoin
  <2>. QED  BY <1>4, <2>1, <2>3, NeutralJoin
<1>. QED  BY <1>2, <1>3, <1>4, <1>6, <1>7 DEF IndirectTaken

\* A callback that gives up then adds nothing either.
LEMMA AddedIndirect ==
  ASSUME Sound(image), NewInode # NotFound, NEW m \in {"dir", "reg"}, NEW p \in Inodes,
         NEW ib \in Blocks, ib \notin DataBits(image), image.extent_num[p] = 0
  PROVE  Added(ToIndirect(p, m, ib))
<1>. DEFINE S == ToIndirect(p, m, ib)
<1>1. WellTyped(S) /\ Len(S) = 6
  BY IndirectList
<1>2. At(S, 0, ToIndirect(p, m, ib))
  BY <1>1, WellWhole
<1>3. ASSUME NEW A, Traced(A, image, S)
      PROVE  CalmOn(image, S, 0, Len(S)) /\ Neutral(A, 0, Len(S))
  <2>1. IndirectTaken(A, S, p, ib)
    BY <1>2, <1>3, IndirectStores
  <2>. QED  BY <1>1, <2>1 DEF IndirectTaken
<1>. QED  BY <1>1, <1>3, CalmAdds

-----------------------------------------------------------------------------
(* An addition to a directory without blocks. *)

\* What is in place before the extent is counted.
FirstInPlace(i, p, nm, ib, db) ==
    /\ Sound(i) /\ \A x \in Inodes : SameView(image, i, x)
    /\ i.indirect_pt[p] = ib /\ i.start[<<ib, 0>>] = db /\ i.count[<<ib, 0>>] = 1
    /\ {ib, db} \subseteq DataBits(i) /\ NewInode \in InodeBits(i) /\ p \in InodeBits(i)
    /\ i.available["blocks"] = AvailableBlocks - 2
    /\ i.dentry[<<db, 0>>] = NewEntry(nm)
    /\ i.size[p] = 1 /\ i.num_dir_entry[p] = 1

\* The store that counts the first extent shows the entry.
LEMMA FirstShown ==
  ASSUME NEW p, NEW nm, NEW m, Enters(p, nm, m), image.num_dir_entry[p] = 0,
         NEW ib \in Blocks, NEW db \in Blocks, ib # db,
         ib \notin DataBits(image), db \notin DataBits(image),
         NEW i, FirstInPlace(i, p, nm, ib, db), NEW j, j = Made(i, AddExtents(p, 1))
  PROVE  Sound(j) /\ EntriesOf(j, p) = << NewEntry(nm) >>
<1>0. /\ Sound(image) /\ NewInode # NotFound /\ p \in Inodes /\ nm \in Names /\ Agrees(image, p)
  BY DEF Enters
<1>1. IsImage(i) /\ Held(i) /\ IsImage(image) /\ Room(image) /\ UsesApart(i)
  BY <1>0, SoundView DEF FirstInPlace
<1>2. image.extent_num[p] = 0 /\ i.extent_num[p] = 0
  <2>1. image.extent_num[p] = 0
    BY <1>0, ParentCounts
  <2>2. i.extent_num[p] \in Nat
    BY <1>0, <1>1, ImageTypes, DimensionsAssumption
  <2>. QED  BY <1>0, <2>1, <2>2 DEF FirstInPlace, SameView
<1>. DEFINE s == AddExtents(p, 1)
<1>3. DOMAIN s = {"extent_num"} /\ s["extent_num"][1] = p /\ s["extent_num"][2] = 1
  BY <1>2 DEF AddExtents
<1>4. IsImage(j) /\ Stored(i, j, s)
  <2>1. FieldRange["extent_num"] = 0 .. MaxExtents /\ 1 \in 0 .. MaxExtents
    BY DimensionsAssumption DEF FieldRange
  <2>2. Typed(s)
    <3>. HIDE DEF s
    <3>. QED  BY <1>3, <2>1, FieldNames DEF Typed
  <2>. QED  BY <1>1, <2>2, MadeIsImage, MadeStored
<1>. HIDE DEF s
<1>5. /\ j.extent_num = [i.extent_num EXCEPT ![p] = 1]
      /\ \A f \in Fields \ {"extent_num"} : j[f] = i[f]
  BY <1>3, <1>4, FieldNames DEF Stored
<1>6. /\ j.start = i.start /\ j.count = i.count /\ j.dentry = i.dentry
      /\ j.indirect_pt = i.indirect_pt /\ j.num_dir_entry = i.num_dir_entry /\ j.size = i.size
      /\ j.inodeBit = i.inodeBit /\ j.dataBit = i.dataBit /\ j.available = i.available
  BY <1>5, FieldNames
<1>7. j.extent_num[p] = 1 /\ \A x \in Inodes \ {p} : j.extent_num[x] = i.extent_num[x]
  <2>1. i.extent_num \in [Inodes -> 0 .. MaxExtents]
    BY <1>1, ImageTypes
  <2>. QED  BY <1>0, <1>5, <2>1
<1>8. \A x \in Inodes \ {p} : Keeps(i, j, x)
  BY <1>6, <1>7 DEF Keeps, KeepsExtents, KeepsEntries
<1>9. \A x \in Inodes \ {p} : SameView(i, j, x)
  <2>1. \A x \in Inodes : UsesInto(i, x, Blocks)
    BY SoundView DEF FirstInPlace
  <2>. QED  BY <1>1, <1>4, <1>8, <2>1, KeptView
<1>10. Held(j)
  <2>. SUFFICES ASSUME NEW x \in Inodes, j.extent_num[x] > 0
                PROVE  /\ j.inodeBit[x] /\ j.size[x] > 0 /\ j.num_dir_entry[x] > 0
                       /\ j.indirect_pt[x] \in Blocks
                       /\ \A k \in 0 .. j.extent_num[x] - 1 : j.count[<<j.indirect_pt[x], k>>] > 0
    BY DEF Held
  <2>1. CASE x = p
    <3>1. \A k \in 0 .. j.extent_num[p] - 1 : k = 0
      BY <1>7
    <3>2. j.inodeBit[p]
      BY <1>6 DEF FirstInPlace, InodeBits
    <3>. QED  BY <1>6, <2>1, <3>1, <3>2 DEF FirstInPlace
  <2>2. CASE x # p
    <3>1. i.extent_num[x] > 0
      BY <1>7, <2>2
    <3>2. /\ i.inodeBit[x] /\ i.size[x] > 0 /\ i.num_dir_entry[x] > 0
          /\ i.indirect_pt[x] \in Blocks
          /\ \A k \in 0 .. i.extent_num[x] - 1 : i.count[<<i.indirect_pt[x], k>>] > 0
      BY <1>1, <3>1 DEF Held
    <3>. QED  BY <1>6, <1>7, <2>2, <3>2
  <2>. QED  BY <2>1, <2>2
<1>11. BlocksOf(j, p) = <<db>>
  <2>1. BlocksOf(j, p) = FirstBlocks(j, ib, 1)
    BY <1>6, <1>7, BlocksAreFirstBlocks DEF FirstInPlace
  <2>2. /\ \A k \in 0 .. 0 - 1 : j.start[<<ib, k>>] = i.start[<<ib, k>>]
                                 /\ j.count[<<ib, k>>] = i.count[<<ib, k>>]
        /\ 0 \in 0 .. MaxExtents - 1 /\ j.count[<<ib, 0>>] = 1 /\ j.start[<<ib, 0>>] = db
    BY <1>6, DimensionsAssumption DEF FirstInPlace
  <2>3. FirstBlocks(j, ib, 0 + 1) = Append(FirstBlocks(i, ib, 0), j.start[<<ib, 0>>])
    BY <1>1, <1>4, <2>2, ExtentOfOne
  <2>4. FirstBlocks(i, ib, 0) = <<>>
    <3>1. 0 + 1 \in 0 .. MaxExtents /\ 0 \in Nat
      BY DimensionsAssumption
    <3>2. Numbers(i, ib, 0 + 1)
      BY <1>1, <3>1, ExtentNumbers
    <3>. QED  BY <3>1, <3>2, BlocksGrow
  <2>5. 0 + 1 = 1
    OBVIOUS
  <2>6. Append(<<>>, db) = <<db>>
    OBVIOUS
  <2>7. BlocksOf(j, p) = Append(<<>>, db)
    <3>1. FirstBlocks(j, ib, 1) = Append(FirstBlocks(i, ib, 0), j.start[<<ib, 0>>])
      BY <2>3, <2>5
    <3>2. j.start[<<ib, 0>>] = db
      BY <2>2
    <3>. QED  BY <2>1, <2>4, <3>1, <3>2
  <2>. QED  BY <2>6, <2>7
<1>12. UsedBlocks(i) = UsedBlocks(image) /\ ib \notin UsedBlocks(image) /\ db \notin UsedBlocks(image)
  BY <1>0, UsedBlocksSame, ClearIsUnused DEF FirstInPlace
<1>13. DataBits(j) = DataBits(i) /\ InodeBits(j) = InodeBits(i)
  BY <1>6 DEF DataBits, InodeBits
<1>14. Unlisted(i, NewInode)
  <2>1. Unlisted(image, NewInode)
    BY <1>0, NewInodeFree
  <2>2. \A x \in Inodes : EntriesOf(i, x) = EntriesOf(image, x)
    BY DEF FirstInPlace, SameView
  <2>. QED  BY <2>1, <2>2 DEF Unlisted, Lists
<1>15. j.available["blocks"] + Cardinality(UsedBlocks(i)) + 2 <= NumBlocks
  <2>1. Cardinality(UsedBlocks(image)) \in Nat
    BY UsedBlocksFinite
  <2>2. AvailableBlocks \in Int /\ AvailableBlocks = image.available["blocks"] /\ NumBlocks \in Int
    BY <1>1, ImageTypes, DimensionsAssumption DEF AvailableBlocks
  <2>3. AvailableBlocks + Cardinality(UsedBlocks(image)) <= NumBlocks
    BY <1>1, <2>2 DEF Room
  <2>. QED  BY <1>6, <1>12, <2>1, <2>2, <2>3 DEF FirstInPlace
<1>16. /\ NewEntry(nm) = j.dentry[<<db, 0>>] /\ NewEntry(nm).ino = NewInode
       /\ NewInode \in InodeBits(j) /\ j.num_dir_entry[p] = 1
       /\ {ib, db} \subseteq DataBits(j) \ UsedBlocks(i)
       /\ j.indirect_pt[p] = ib
  BY <1>6, <1>12, <1>13 DEF FirstInPlace, NewEntry
<1>17. j.extent_num[p] > 0 /\ Sound(i) /\ DataBits(i) \subseteq DataBits(j)
       /\ InodeBits(i) \subseteq InodeBits(j)
  BY <1>7, <1>13 DEF FirstInPlace
<1>. DEFINE e == NewEntry(nm)
<1>18. e = j.dentry[<<db, 0>>] /\ e.ino \in InodeBits(j) /\ Unlisted(i, e.ino)
  BY <1>14, <1>16
<1>. HIDE DEF e
<1>19. Sound(j) /\ EntriesOf(j, p) = <<e>>
  BY <1>0, <1>2, <1>4, <1>9, <1>10, <1>11, <1>15, <1>16, <1>17, <1>18, FirstExtent
<1>. QED  BY <1>19 DEF e

-----------------------------------------------------------------------------
(* The stores of an addition to a directory without blocks. *)

\* What counting an entry leaves.
EntryCounted(A, c, g, p) ==
    /\ Neutral(A, c, g + 1) /\ Same(A[c], A[g + 1], Fields \ {"size", "links", "num_dir_entry"})
    /\ A[g + 1].size[p] = image.size[p] + 1
    /\ A[g + 1].num_dir_entry[p] = image.num_dir_entry[p] + 1

\* The stores of CountEntry count it.
LEMMA CountValues ==
  ASSUME Sound(image), NEW p \in Inodes, NEW A, NEW stores, Traced(A, image, stores),
         NEW c \in Nat, NEW g, CountAt(stores, c, g, p)
  PROVE  EntryCounted(A, c, g, p)
<1>0. Len(stores) \in Nat /\ \A k \in 0 .. Len(stores) : IsImage(A[k])
  BY DEF Traced
<1>1. /\ g \in c + 1 .. c + 2 /\ g + 1 <= Len(stores) /\ stores[g + 1] = AddCount(p, 1)
      /\ stores[c + 1] = AddSize(p, 1)
      /\ \A j \in c + 1 .. g : stores[j] = AddSize(p, 1) \/ stores[j] = AddLinks(p, 1)
  BY DEF CountAt
<1>. DEFINE h == g + 1
<1>2. /\ c \in 0 .. Len(stores) /\ h \in c .. Len(stores) /\ h \in 0 .. Len(stores)
      /\ h \in 1 .. Len(stores) /\ c + 1 \in 1 .. Len(stores) /\ h \in c + 1 .. Len(stores)
      /\ h \in c .. h /\ h \in c + 1 .. h /\ h \in h .. Len(stores) /\ h \in h .. h
  BY <1>0, <1>1
<1>3. \A j \in c + 1 .. h : \/ stores[j] = AddSize(p, 1)
                            \/ stores[j] = AddLinks(p, 1)
                            \/ stores[j] = AddCount(p, 1)
  <2>1. \A j \in c + 1 .. h : j \in c + 1 .. g \/ j = g + 1
    BY <1>1
  <2>. QED  BY <1>1, <2>1
<1>4. stores[h] = AddCount(p, 1)
  BY <1>1
<1>. HIDE DEF h
<1>5. /\ DOMAIN AddSize(p, 1) = {"size"} /\ DOMAIN AddLinks(p, 1) = {"links"}
      /\ DOMAIN AddCount(p, 1) = {"num_dir_entry"}
  BY SingleStores
<1>6. Neutral(A, c, h)
  <2>1. \A j \in c + 1 .. h : DOMAIN stores[j] \cap Counted = {}
    BY <1>3, <1>5 DEF Counted
  <2>. QED  BY <1>2, <2>1, OtherNeutral
<1>7. Same(A[c], A[h], Fields \ {"size", "links", "num_dir_entry"})
  <2>. SUFFICES ASSUME NEW f \in Fields, f \notin {"size", "links", "num_dir_entry"}
                PROVE  A[h][f] = A[c][f]
    BY DEF Same
  <2>1. \A j \in c + 1 .. h : f \notin DOMAIN stores[j]
    BY <1>3, <1>5
  <2>2. \A k \in c .. h : A[k][f] = A[c][f]
    BY <1>2, <2>1, FieldKept
  <2>. QED  BY <1>2, <2>2
<1>8. A[h].size[p] = image.size[p] + 1
  <2>. DEFINE v == image.size[p] + 1
  <2>1. AddSize(p, 1)["size"] = <<p, v>>
    BY DEF AddSize
  <2>. HIDE DEF v
  <2>2. AddSize(p, 1)["size"][1] = p /\ AddSize(p, 1)["size"][2] = v
    BY <2>1
  <2>3. Writes(stores[c + 1], "size", p) /\ stores[c + 1]["size"][2] = v
    BY <1>1, <1>5, <2>2 DEF Writes
  <2>. DEFINE d == c + 1
  <2>4. \A j \in d + 1 .. h : Writes(stores[j], "size", p) => stores[j]["size"][2] = v
    <3>. SUFFICES ASSUME NEW j \in d + 1 .. h, Writes(stores[j], "size", p)
                  PROVE  stores[j]["size"][2] = v
      OBVIOUS
    <3>1. j \in c + 1 .. h
      OBVIOUS
    <3>2. "size" \in DOMAIN stores[j]
      BY DEF Writes
    <3>. QED  BY <1>3, <1>5, <2>2, <3>1, <3>2
  <2>5. "size" \in Fields /\ p \in FieldDomain["size"]
    BY FieldNames DEF FieldDomain
  <2>6. d \in 1 .. Len(stores) /\ h \in d .. Len(stores) /\ h \in d .. h
        /\ Writes(stores[d], "size", p) /\ stores[d]["size"][2] = v
    BY <1>2, <2>3
  <2>. HIDE DEF d
  <2>7. \A k \in d .. h : A[k]["size"][p] = v
    BY <2>4, <2>5, <2>6, PlaceFrom, SMTT(60)
  <2>. QED  BY <2>6, <2>7 DEF v
<1>9. A[h].num_dir_entry[p] = image.num_dir_entry[p] + 1
  <2>. DEFINE v == image.num_dir_entry[p] + 1
  <2>1. AddCount(p, 1)["num_dir_entry"] = <<p, v>>
    BY DEF AddCount
  <2>. HIDE DEF v
  <2>2. AddCount(p, 1)["num_dir_entry"][1] = p /\ AddCount(p, 1)["num_dir_entry"][2] = v
    BY <2>1
  <2>3. Writes(stores[h], "num_dir_entry", p) /\ stores[h]["num_dir_entry"][2] = v
    BY <1>4, <1>5, <2>2 DEF Writes
  <2>4. \A j \in h + 1 .. h : Writes(stores[j], "num_dir_entry", p) => stores[j]["num_dir_entry"][2] = v
    BY <1>2
  <2>5. "num_dir_entry" \in Fields /\ p \in FieldDomain["num_dir_entry"]
    BY FieldNames DEF FieldDomain
  <2>6. \A k \in h .. h : A[k]["num_dir_entry"][p] = v
    BY <1>2, <2>3, <2>4, <2>5, PlaceFrom
  <2>. QED  BY <1>2, <2>6 DEF v
<1>. QED  BY <1>6, <1>7, <1>8, <1>9 DEF EntryCounted, h

\* The store of an entry, and those that count one, are well typed.
LEMMA LongEntry ==
  ASSUME Sound(image), NewInode # NotFound, NEW b, NEW slot, NEW nm \in Names,
         ~Visible(image, <<b, slot>>), NEW p \in Inodes, NEW m
  PROVE  Long(<< PutEntry(b, slot, nm) >>, 1) /\ \E l : Long(CountEntry(p, m), l)
<1>1. Typed(PutEntry(b, slot, nm))
  BY NewInodeFree, PutEntryCalm DEF CalmTyped
<1>2. Long(<< PutEntry(b, slot, nm) >>, 1)
  BY <1>1, WellSingle DEF Long
<1>3. WellTyped(CountEntry(p, m))
  BY WellPieces
<1>4. Len(CountEntry(p, m)) \in Nat
  BY <1>3, WellWhole
<1>. QED  BY <1>2, <1>3, <1>4 DEF Long

\* The stores of an extent are.
LEMMA LongExtent ==
  ASSUME NEW ib, NEW e, NEW b \in Blocks, ~Extended(image, <<ib, e>>)
  PROVE  Long(PutExtent(ib, e, b), 2)
<1>1. \A k \in 1 .. 2 : CalmTyped(image, PutExtent(ib, e, b)[k])
  BY PutExtentCalm
<1>2. IsSeq(PutExtent(ib, e, b)) /\ Len(PutExtent(ib, e, b)) = 2
  <2>1. 1 \in 1 .. 2
    OBVIOUS
  <2>. QED  BY <2>1, PutExtentCalm
<1>. QED  BY <1>1, <1>2 DEF Long, WellTyped, CalmTyped

\* The store that counts an extent is.
LEMMA LongAdd ==
  ASSUME Sound(image), NEW p \in Inodes, image.extent_num[p] < MaxExtents
  PROVE  Long(<< AddExtents(p, 1) >>, 1)
<1>1. DOMAIN AddExtents(p, 1) = {"extent_num"}
      /\ AddExtents(p, 1)["extent_num"][2] = image.extent_num[p] + 1
  BY DEF AddExtents
<1>2. FieldRange["extent_num"] = 0 .. MaxExtents
  BY DEF FieldRange
<1>3. image.extent_num[p] \in 0 .. MaxExtents /\ MaxExtents \in Nat
  BY SoundView, ImageTypes, DimensionsAssumption
<1>4. image.extent_num[p] + 1 \in 0 .. MaxExtents
  BY <1>3
<1>5. Typed(AddExtents(p, 1))
  BY <1>1, <1>2, <1>4, FieldNames DEF Typed
<1>. QED  BY <1>5, WellSingle DEF Long

FirstList(p, nm, m, ib, db) ==
    ToIndirect(p, m, ib) \o TakeBlock(db, 2) \o PutExtent(ib, 0, db)
    \o PutThenCount(p, m, db, 0, nm) \o << AddExtents(p, 1) >>

\* Where its parts are.
LEMMA FirstParts ==
  ASSUME Sound(image), NewInode # NotFound, NEW m \in {"dir", "reg"}, NEW p \in Inodes,
         NEW nm \in Names, NEW ib \in Blocks, NEW db \in Blocks, image.extent_num[p] = 0,
         ib \notin DataBits(image), db \notin DataBits(image),
         NEW S, S = FirstList(p, nm, m, ib, db)
  PROVE  /\ WellTyped(S)
         /\ At(S, 0, ToIndirect(p, m, ib)) /\ At(S, 6, TakeBlock(db, 2))
         /\ At(S, 8, PutExtent(ib, 0, db)) /\ At(S, 10, << PutEntry(db, 0, nm) >>)
         /\ At(S, 11, CountEntry(p, m))
         /\ \E g : CountAt(S, 11, g, p) /\ At(S, g + 1, << AddExtents(p, 1) >>)
                   /\ g + 2 = Len(S) /\ g + 1 = 11 + Len(CountEntry(p, m))
<1>. DEFINE a1 == ToIndirect(p, m, ib)
            tb == TakeBlock(db, 2)
            px == PutExtent(ib, 0, db)
            pe == << PutEntry(db, 0, nm) >>
            ce == CountEntry(p, m)
            ae == << AddExtents(p, 1) >>
            a2 == a1 \o tb
            a3 == a2 \o px
            pc == pe \o ce
            a4 == a3 \o pc
<1>0. ~Visible(image, <<db, 0>>) /\ ~Extended(image, <<ib, 0>>)
  BY ClearUnseen
<1>1. Long(a1, 6)
  <2>1. WellTyped(ToIndirect(p, m, ib)) /\ Len(ToIndirect(p, m, ib)) = 6
    BY IndirectList
  <2>. QED  BY <2>1 DEF Long
<1>2. Long(tb, 2)
  BY WellPieces DEF Long
<1>3. Long(px, 2)
  BY <1>0, LongExtent
<1>4. Long(pe, 1) /\ \E l : Long(ce, l)
  BY <1>0, LongEntry
<1>5. PICK l : Long(ce, l)
  BY <1>4
<1>6. Long(ae, 1)
  <2>1. image.extent_num[p] < MaxExtents
    BY DimensionsAssumption
  <2>. QED  BY <2>1, LongAdd
<1>7. S = a4 \o ae
  BY DEF FirstList, PutThenCount
<1>. HIDE DEF a1, tb, px, pe, ce, ae
<1>8. Long(a2, 8)
  <2>1. Long(a2, 6 + 2)
    BY <1>1, <1>2, LongJoin
  <2>. QED  BY <2>1
<1>9. Long(a3, 10)
  <2>. HIDE DEF a2
  <2>1. Long(a3, 8 + 2)
    BY <1>3, <1>8, LongJoin
  <2>. QED  BY <2>1
<1>10. Long(pc, 1 + l)
  BY <1>4, <1>5, LongJoin
<1>11. Long(a4, 10 + (1 + l))
  <2>. HIDE DEF a3, pc
  <2>. QED  BY <1>9, <1>10, LongJoin
<1>12. Long(S, 10 + (1 + l) + 1)
  <2>. HIDE DEF a4
  <2>. QED  BY <1>6, <1>7, <1>11, LongJoin
<1>13. At(S, 0, S) /\ l \in Nat /\ WellTyped(S) /\ Len(S) = 10 + (1 + l) + 1
  BY <1>5, <1>12, WellWhole DEF Long
<1>14. At(S, 0, a4) /\ At(S, 0 + (10 + (1 + l)), ae)
  <2>. HIDE DEF a4
  <2>1. At(S, 0, a4 \o ae)
    BY <1>7, <1>13
  <2>. QED  BY <1>6, <1>11, <2>1, LongAt
<1>15. At(S, 0, a3) /\ At(S, 0 + 10, pc)
  <2>1. At(S, 0, a3 \o pc)
    BY <1>14
  <2>. HIDE DEF a3, pc, a4
  <2>. QED  BY <1>9, <1>10, <2>1, LongAt
<1>16. At(S, 0, a2) /\ At(S, 0 + 8, px)
  <2>1. At(S, 0, a2 \o px)
    BY <1>15
  <2>. HIDE DEF a2, a3, pc, a4
  <2>. QED  BY <1>3, <1>8, <2>1, LongAt
<1>17. At(S, 0, a1) /\ At(S, 0 + 6, tb)
  BY <1>1, <1>2, <1>16, LongAt
<1>18. 0 + 10 = 10 /\ 0 + 8 = 8 /\ 0 + 6 = 6 /\ 10 + 1 = 11 /\ 10 \in Nat /\ 11 \in Nat
  OBVIOUS
<1>19. At(S, 10, pe) /\ At(S, 11, ce)
  <2>1. At(S, 10, pc)
    BY <1>15, <1>18
  <2>2. At(S, 10, pe) /\ At(S, 10 + 1, ce)
    BY <1>4, <1>5, <1>18, <2>1, LongAt
  <2>. QED  BY <1>18, <2>2
<1>20. PICK g : CountAt(S, 11, g, p) /\ g + 1 = 11 + Len(CountEntry(p, m))
  <2>1. Len(S) \in Nat
    BY <1>13
  <2>2. At(S, 11, CountEntry(p, m))
    BY <1>19 DEF ce
  <2>. QED  BY <1>18, <2>1, <2>2, CountEntryAt
<1>21. g + 1 = 11 + l /\ g \in Int
  <2>1. Len(CountEntry(p, m)) = l
    BY <1>5 DEF Long, ce
  <2>2. g \in Int
    BY <1>20 DEF CountAt
  <2>. QED  BY <1>20, <2>1, <2>2
<1>22. At(S, g + 1, ae) /\ g + 2 = Len(S)
  <2>1. 0 + (10 + (1 + l)) = g + 1
    BY <1>13, <1>21
  <2>2. g + 2 = Len(S)
    BY <1>13, <1>21
  <2>. QED  BY <1>14, <2>1, <2>2
<1>23. At(S, 6, tb) /\ At(S, 8, px)
  BY <1>16, <1>17, <1>18
<1>. QED  BY <1>13, <1>17, <1>19, <1>20, <1>22, <1>23 DEF a1, tb, px, pe, ce, ae

\* Fields that stay the same twice stay the same.
LEMMA SameJoin ==
  ASSUME NEW i, NEW j, NEW k, NEW F, NEW G, NEW H, Same(i, j, F), Same(j, k, G), H \subseteq F \cap G
  PROVE  Same(i, k, H)
BY DEF Same

\* The whole list, up to the store that counts the extent.
LEMMA FirstTrace ==
  ASSUME NEW p, NEW nm, NEW m, Enters(p, nm, m), image.num_dir_entry[p] = 0,
         NEW ib \in Blocks, NEW db \in Blocks, ib # db,
         ib \notin DataBits(image), db \notin DataBits(image),
         NEW A, NEW S, Traced(A, image, S),
         At(S, 0, ToIndirect(p, m, ib)), At(S, 6, TakeBlock(db, 2)),
         At(S, 8, PutExtent(ib, 0, db)), At(S, 10, << PutEntry(db, 0, nm) >>),
         NEW g, CountAt(S, 11, g, p), g + 2 = Len(S)
  PROVE  /\ CalmOn(image, S, 0, g + 1) /\ Neutral(A, 0, g + 1)
         /\ FirstInPlace(A[g + 1], p, nm, ib, db)
<1>0. /\ Sound(image) /\ NewInode # NotFound /\ p \in Inodes /\ nm \in Names /\ Agrees(image, p)
      /\ m \in {"dir", "reg"} /\ image.inodeBit[p]
  BY DEF Enters
<1>1. image.extent_num[p] = 0 /\ image.size[p] = 0 /\ image.num_dir_entry[p] = 0
  BY <1>0, ParentCounts DEF Agrees
<1>2. /\ A[0] = image /\ Sound(A[0]) /\ SameListing(A[0]) /\ Len(S) \in Nat
      /\ \A k \in 0 .. Len(S) : IsImage(A[k])
  BY <1>0, EntersTraced
<1>3. g \in {12, 13} /\ g + 1 <= Len(S)
  BY DEF CountAt
<1>4. ~Visible(image, <<db, 0>>) /\ ~Extended(image, <<ib, 0>>)
  BY <1>0, ClearUnseen
<1>5. /\ Neutral(A, 0, 6) /\ CalmOn(image, S, 0, 6)
      /\ A[6].inodeBit = [image.inodeBit EXCEPT ![NewInode] = TRUE]
      /\ A[6].dataBit = [image.dataBit EXCEPT ![ib] = TRUE]
      /\ A[6].available["blocks"] = AvailableBlocks - 1
      /\ A[6].indirect_pt = [image.indirect_pt EXCEPT ![p] = ib]
  <2>1. IndirectTaken(A, S, p, ib)
    BY <1>0, <1>1, IndirectStores
  <2>. QED  BY <2>1 DEF IndirectTaken
<1>6. image.dataBit \in [Blocks -> BOOLEAN] /\ AvailableBlocks \in Int
      /\ image.inodeBit \in [Inodes -> BOOLEAN] /\ image.indirect_pt \in [Inodes -> Blocks \cup {NoBlock}]
  BY <1>0, SoundView, ImageTypes DEF AvailableBlocks
<1>7. /\ Neutral(A, 6, 8) /\ CalmOn(image, S, 6, 8) /\ Same(A[6], A[8], Other)
      /\ A[8].dataBit = [A[6].dataBit EXCEPT ![db] = TRUE]
      /\ A[8].available["blocks"] = AvailableBlocks - 2
  <2>1. ~A[6].dataBit[db]
    BY <1>5, <1>6 DEF DataBits
  <2>2. A[6].available["blocks"] = AvailableBlocks - 2 + 1 /\ 6 \in Nat /\ 2 \in Nat /\ 2 >= 1
    BY <1>5, <1>6
  <2>3. BlockTaken(A, S, 6, db, 2)
    BY <1>0, <2>1, <2>2, BlockStores
  <2>4. 6 + 2 = 8
    OBVIOUS
  <2>. QED  BY <2>3, <2>4 DEF BlockTaken
<1>8. /\ Neutral(A, 8, 10) /\ CalmOn(image, S, 8, 10)
      /\ Same(A[8], A[10], Fields \ {"start", "count"})
      /\ A[10].start = [A[8].start EXCEPT ![<<ib, 0>>] = db]
      /\ A[10].count = [A[8].count EXCEPT ![<<ib, 0>>] = 1]
  <2>1. 8 + 2 = 10 /\ 8 \in Nat
    OBVIOUS
  <2>2. ExtentPut(A, S, 8, ib, 0, db)
    BY <1>4, <2>1, ExtentStores
  <2>. QED  BY <2>1, <2>2 DEF ExtentPut
<1>9. /\ Neutral(A, 10, 11) /\ CalmOn(image, S, 10, 11)
      /\ Same(A[10], A[11], Fields \ {"dentry"})
      /\ A[11].dentry[<<db, 0>>] = NewEntry(nm)
  <2>1. 10 + 1 = 11 /\ 10 \in Nat /\ 0 \in Slots
    BY DimensionsAssumption DEF Slots, D
  <2>2. EntryPut(A, S, 10, db, 0, nm)
    BY <1>0, <1>4, <2>1, EntryStore
  <2>. QED  BY <2>1, <2>2 DEF EntryPut
<1>10. /\ Neutral(A, 11, g + 1)
       /\ Same(A[11], A[g + 1], Fields \ {"size", "links", "num_dir_entry"})
       /\ A[g + 1].size[p] = 1 /\ A[g + 1].num_dir_entry[p] = 1
  <2>1. EntryCounted(A, 11, g, p)
    BY <1>0, CountValues
  <2>. QED  BY <1>1, <2>1 DEF EntryCounted
<1>. DEFINE h == g + 1
            i == A[g + 1]
<1>11. h \in {13, 14} /\ h <= Len(S) /\ h \in Nat
  BY <1>3
<1>12. Neutral(A, 0, h)
  <2>1. \A k \in 0 .. h : IsImage(A[k])
    BY <1>2, <1>11
  <2>2. \A e \in 0 .. h : \A k \in 0 .. e : IsImage(A[k])
    BY <1>11, <2>1
  <2>3. 8 \in 0 .. h /\ 10 \in 0 .. h /\ 11 \in 0 .. h
    BY <1>11
  <2>4. Neutral(A, 0, 8)
    BY <1>5, <1>7, <2>2, <2>3, NeutralJoin
  <2>5. Neutral(A, 0, 10)
    BY <1>8, <2>2, <2>3, <2>4, NeutralJoin
  <2>6. Neutral(A, 0, 11)
    BY <1>9, <2>2, <2>3, <2>5, NeutralJoin
  <2>7. 0 <= 11 /\ 11 <= h /\ Neutral(A, 11, h) /\ 0 \in Nat /\ 11 \in Nat
    BY <1>10, <1>11
  <2>. HIDE DEF h
  <2>. QED  BY <1>11, <2>1, <2>6, <2>7, NeutralJoin
<1>13. CalmOn(image, S, 0, h)
  <2>1. CalmOn(image, S, 0, 11)
    <3>1. CalmOn(image, S, 0, 8)
      BY <1>5, <1>7, CalmJoin
    <3>2. CalmOn(image, S, 0, 10)
      BY <1>8, <3>1, CalmJoin
    <3>. QED  BY <1>9, <3>2, CalmJoin
  <2>2. \A j \in 11 + 1 .. h : \/ S[j] = AddSize(p, 1)
                               \/ S[j] = AddLinks(p, 1)
                               \/ S[j] = AddCount(p, 1)
    <3>1. \A j \in 11 + 1 .. h : j \in 11 + 1 .. g \/ j = g + 1
      BY <1>3
    <3>. QED  BY <3>1 DEF CountAt
  <2>3. CalmTyped(image, AddCount(p, 1))
    <3>1. image.num_dir_entry[p] \in Nat
      BY <1>1
    <3>. QED  BY <1>0, <1>1, <3>1, AddCountCalm
  <2>4. CalmTyped(image, AddSize(p, 1)) /\ CalmTyped(image, AddLinks(p, 1))
    BY <1>0, SingleStores
  <2>. HIDE DEF h
  <2>5. CalmOn(image, S, 11, h)
    BY <2>2, <2>3, <2>4 DEF CalmOn
  <2>. QED  BY <1>11, <2>1, <2>5, CalmJoin
<1>14. Sound(i) /\ \A x \in Inodes : SameView(image, i, x)
  <2>1. CalmOn(A[0], S, 0, h) /\ 0 <= h /\ 0 \in Nat
    BY <1>2, <1>11, <1>13
  <2>. HIDE DEF h
  <2>2. Sound(A[h]) /\ \A x \in Inodes : SameView(A[0], A[h], x)
    BY <1>2, <1>11, <1>12, <2>1, CalmSteady
  <2>. QED  BY <1>2, <2>2 DEF h
<1>15. i.indirect_pt = A[6].indirect_pt /\ i.inodeBit = A[6].inodeBit
  <2>1. "indirect_pt" \in Other /\ "inodeBit" \in Other /\ "indirect_pt" \in Fields /\ "inodeBit" \in Fields
    BY FieldNames DEF Other
  <2>. QED  BY <1>7, <1>8, <1>9, <1>10, <2>1 DEF Same
<1>16. i.dataBit = A[8].dataBit /\ i.available = A[8].available
  <2>1. "dataBit" \in Fields /\ "available" \in Fields
    BY FieldNames
  <2>. QED  BY <1>8, <1>9, <1>10, <2>1 DEF Same
<1>17. i.start = A[10].start /\ i.count = A[10].count /\ i.dentry = A[11].dentry
  <2>1. "start" \in Fields /\ "count" \in Fields /\ "dentry" \in Fields
    BY FieldNames
  <2>. QED  BY <1>9, <1>10, <2>1 DEF Same
<1>18. i.indirect_pt[p] = ib
  BY <1>0, <1>5, <1>6, <1>15
<1>19. NewInode \in InodeBits(i) /\ p \in InodeBits(i)
  <2>1. NewInode \in Inodes
    BY <1>0, NewInodeFree
  <2>. QED  BY <1>0, <1>5, <1>6, <1>15, <2>1 DEF InodeBits
<1>20. {ib, db} \subseteq DataBits(i)
  <2>1. i.dataBit = [[image.dataBit EXCEPT ![ib] = TRUE] EXCEPT ![db] = TRUE]
    BY <1>5, <1>7, <1>16
  <2>. QED  BY <1>6, <2>1 DEF DataBits
<1>21. i.start[<<ib, 0>>] = db /\ i.count[<<ib, 0>>] = 1
  <2>1. 8 \in 0 .. Len(S)
    BY <1>2, <1>11
  <2>2. A[8].start \in [Blocks \X Extents -> Blocks] /\ A[8].count \in [Blocks \X Extents -> Nat]
    BY <1>2, <2>1, ImageTypes
  <2>3. <<ib, 0>> \in Blocks \X Extents
    BY DimensionsAssumption DEF Extents
  <2>. QED  BY <1>8, <1>17, <2>2, <2>3
<1>22. i.available["blocks"] = AvailableBlocks - 2 /\ i.dentry[<<db, 0>>] = NewEntry(nm)
       /\ i.size[p] = 1 /\ i.num_dir_entry[p] = 1
  BY <1>7, <1>9, <1>10, <1>16, <1>17
<1>23. FirstInPlace(i, p, nm, ib, db)
  <2>. HIDE DEF i
  <2>. QED  BY <1>14, <1>18, <1>19, <1>20, <1>21, <1>22 DEF FirstInPlace
<1>. QED  BY <1>12, <1>13, <1>23

\* Nothing of the addition is seen before the extent is counted.
LEMMA AddedFirst ==
  ASSUME NEW p, NEW nm, NEW m, Enters(p, nm, m), image.num_dir_entry[p] = 0,
         NEW ib \in Blocks, NEW db \in Blocks, ib # db,
         ib \notin DataBits(image), db \notin DataBits(image)
  PROVE  Added(FirstList(p, nm, m, ib, db))
<1>. DEFINE S == FirstList(p, nm, m, ib, db)
<1>0. /\ Sound(image) /\ NewInode # NotFound /\ p \in Inodes /\ nm \in Names /\ Agrees(image, p)
      /\ m \in {"dir", "reg"} /\ image.extent_num[p] = 0
  BY ParentCounts DEF Enters
<1>1. /\ WellTyped(S)
      /\ At(S, 0, ToIndirect(p, m, ib)) /\ At(S, 6, TakeBlock(db, 2))
      /\ At(S, 8, PutExtent(ib, 0, db)) /\ At(S, 10, << PutEntry(db, 0, nm) >>)
      /\ \E g : CountAt(S, 11, g, p) /\ At(S, g + 1, << AddExtents(p, 1) >>) /\ g + 2 = Len(S)
  BY <1>0, FirstParts
<1>2. PICK g : CountAt(S, 11, g, p) /\ At(S, g + 1, << AddExtents(p, 1) >>) /\ g + 2 = Len(S)
  BY <1>1
<1>. HIDE DEF S
<1>3. g \in Nat /\ g + 1 \in Nat
  BY <1>2 DEF CountAt
<1>4. S[g + 2] = AddExtents(p, 1)
  <2>1. S[g + 1 + 1] = AddExtents(p, 1) /\ g + 1 + 1 = g + 2
    BY <1>2, <1>3, AtSingle
  <2>. QED  BY <2>1
<1>5. ASSUME NEW A, Traced(A, image, S) PROVE Steady(A, 0, Len(S))
  <2>. DEFINE h == g + 1
  <2>0. /\ A[0] = image /\ Sound(A[0]) /\ SameListing(A[0]) /\ Len(S) \in Nat
        /\ \A k \in 0 .. Len(S) : IsImage(A[k])
    BY <1>0, <1>5, EntersTraced
  <2>1. /\ CalmOn(image, S, 0, h) /\ Neutral(A, 0, h) /\ FirstInPlace(A[h], p, nm, ib, db)
    BY <1>1, <1>2, <1>5, FirstTrace
  <2>2. h \in Nat /\ h + 1 = Len(S) /\ h <= Len(S) /\ 0 <= h /\ S[h + 1] = AddExtents(p, 1)
    BY <1>2, <1>3, <1>4
  <2>. HIDE DEF h
  <2>3. Steady(A, 0, h) /\ SameListing(A[h]) /\ Sound(A[h])
    BY <1>5, <2>0, <2>1, <2>2, CalmSteady
  <2>4. A[h + 1] = Made(A[h], AddExtents(p, 1))
    <3>1. h + 1 \in 1 .. Len(S) /\ h + 1 - 1 = h
      BY <2>0, <2>2
    <3>2. \A k \in 1 .. Len(S) : A[k] = Made(A[k - 1], S[k])
      BY <1>5, TraceStep
    <3>. QED  BY <2>2, <3>1, <3>2
  <2>5. Sound(A[h + 1])
    BY <2>1, <2>4, FirstShown
  <2>6. Neutral(A, h, h + 1)
    <3>1. h \in 0 .. Len(S) /\ h + 1 \in h .. Len(S)
      BY <2>0, <2>2
    <3>2. \A j \in h + 1 .. h + 1 : j = h + 1
      BY <2>2
    <3>3. \A j \in h + 1 .. h + 1 : DOMAIN S[j] \cap Counted = {}
      BY <1>0, <2>2, <3>2, SingleStores DEF Counted
    <3>. QED  BY <1>5, <3>1, <3>3, OtherNeutral
  <2>7. Steady(A, h, h + 1)
    <3>1. \A k \in h .. h + 1 : k = h \/ k = h + 1
      BY <2>2
    <3>. QED  BY <2>2, <2>3, <2>5, <2>6, <3>1 DEF Steady
  <2>8. h + 1 \in Nat /\ h <= h + 1
    BY <2>2
  <2>9. Steady(A, 0, h + 1)
    BY <2>2, <2>3, <2>7, <2>8, SteadyJoin
  <2>. QED  BY <2>2, <2>9
<1>. QED  BY <1>1, <1>5 DEF Added, S

-----------------------------------------------------------------------------
(* An addition to a directory whose last block is full. *)

\* The fields neither an extent nor a count of extents is in.
Lasting == {"inodeBit", "dataBit", "available", "size", "num_dir_entry", "indirect_pt", "dentry"}

\* The image in which p grows by b is next.
GrowsNext(i, p, nm, b) ==
    /\ Sound(i) /\ \A x \in Inodes : SameView(image, i, x)
    /\ i.num_dir_entry[p] = image.num_dir_entry[p]
    /\ NewInode \in InodeBits(i) /\ b \in DataBits(i)
    /\ i.available["blocks"] = AvailableBlocks - 1
    /\ i.dentry[<<b, 0>>] = NewEntry(nm)

\* j has a block more in p than i.
Grew(i, j, p, b) ==
    /\ Same(i, j, Lasting) /\ j.extent_num[p] > 0
    /\ BlocksOf(j, p) = Append(BlocksOf(i, p), b)
    /\ \A k \in 0 .. j.extent_num[p] - 1 : j.count[<<i.indirect_pt[p], k>>] > 0
    /\ \A x \in Inodes \ {p} : KeepsExtents(i, j, x)

\* The directory holds its extents after that.
LEMMA HeldGrown ==
  ASSUME NEW i, IsImage(i), Held(i), NEW p \in Inodes, i.extent_num[p] > 0,
         NEW j, IsImage(j), NEW b, Grew(i, j, p, b)
  PROVE  Held(j)
<1>1. /\ j.inodeBit = i.inodeBit /\ j.size = i.size /\ j.num_dir_entry = i.num_dir_entry
      /\ j.indirect_pt = i.indirect_pt
  BY DEF Grew, Same, Lasting
<1>2. ASSUME NEW d \in Inodes, j.extent_num[d] > 0
      PROVE  /\ j.inodeBit[d] /\ j.size[d] > 0 /\ j.num_dir_entry[d] > 0
             /\ j.indirect_pt[d] \in Blocks
             /\ \A k \in 0 .. j.extent_num[d] - 1 : j.count[<<j.indirect_pt[d], k>>] > 0
  <2>1. CASE d = p
    <3>1. \A k \in 0 .. j.extent_num[p] - 1 : j.count[<<i.indirect_pt[p], k>>] > 0
      BY DEF Grew
    <3>. QED  BY <1>1, <2>1, <3>1 DEF Held
  <2>2. CASE d # p
    <3>1. KeepsExtents(i, j, d)
      BY <2>2 DEF Grew
    <3>2. i.extent_num[d] > 0
      BY <1>2, <3>1 DEF KeepsExtents
    <3>3. \A k \in 0 .. i.extent_num[d] - 1 : i.count[<<i.indirect_pt[d], k>>] > 0
      BY <3>2 DEF Held
    <3>. QED  BY <1>1, <3>1, <3>2, <3>3 DEF Held, KeepsExtents
  <2>. QED  BY <2>1, <2>2
<1>. QED  BY <1>2 DEF Held

\* A block more behind a full directory, with the new entry in its first slot.
LEMMA GrewReady ==
  ASSUME NEW p, NEW nm, NEW m, Enters(p, nm, m), image.num_dir_entry[p] # 0,
         image.num_dir_entry[p] % D = 0,
         NEW b \in Blocks, b \notin DataBits(image),
         NEW i, GrowsNext(i, p, nm, b), NEW j, IsImage(j), Grew(i, j, p, b)
  PROVE  Ready(j, p, nm)
<1>0. /\ Sound(image) /\ p \in Inodes /\ Agrees(image, p)
  BY DEF Enters
<1>1. /\ Sound(i) /\ SameView(image, i, p) /\ i.num_dir_entry[p] = image.num_dir_entry[p]
      /\ \A x \in Inodes : SameView(image, i, x)
      /\ i.available["blocks"] = AvailableBlocks - 1
  BY <1>0 DEF GrowsNext
<1>. DEFINE n == image.num_dir_entry[p]
            bs == BlocksOf(image, p)
<1>2. /\ n \in Nat /\ Len(bs) \in Nat /\ D \in Nat /\ D > 1 /\ image.extent_num[p] > 0
      /\ D * Len(bs) = n
  BY <1>0, ParentCounts
<1>3. BlocksOf(i, p) = bs /\ i.extent_num[p] > 0 /\ bs \in Seq(Blocks)
  BY <1>0, <1>1, <1>2, SoundView DEF SameView
<1>4. /\ j.inodeBit = i.inodeBit /\ j.dataBit = i.dataBit /\ j.available = i.available
      /\ j.num_dir_entry = i.num_dir_entry /\ j.indirect_pt = i.indirect_pt /\ j.dentry = i.dentry
  BY DEF Grew, Same, Lasting
<1>5. IsImage(i) /\ Held(i) /\ \A x \in Inodes : UsesInto(i, x, Blocks)
  BY <1>1, SoundView
<1>6. Held(j)
  BY <1>0, <1>3, <1>5, HeldGrown
<1>7. ASSUME NEW x \in Inodes \ {p} PROVE SameView(i, j, x)
  <2>1. KeepsExtents(i, j, x)
    BY <1>7 DEF Grew
  <2>2. Keeps(i, j, x)
    BY <1>4, <2>1 DEF Keeps, KeepsEntries
  <2>. QED  BY <1>5, <2>2, KeptView
<1>8. b \notin UsedBlocks(i)
  <2>1. UsedBlocks(i) = UsedBlocks(image)
    BY <1>1, UsedBlocksSame
  <2>. QED  BY <1>0, <2>1, ClearIsUnused
<1>9. j.available["blocks"] + Cardinality(UsedBlocks(i)) < NumBlocks
  <2>1. UsedBlocks(i) = UsedBlocks(image)
    BY <1>1, UsedBlocksSame
  <2>2. image.available["blocks"] + Cardinality(UsedBlocks(image)) <= NumBlocks
        /\ image.available["blocks"] \in Int
    BY <1>0, SoundView, ImageTypes DEF Room
  <2>3. Cardinality(UsedBlocks(image)) \in Nat
    BY UsedBlocksFinite
  <2>. QED  BY <1>1, <1>4, <2>1, <2>2, <2>3, DimensionsAssumption DEF AvailableBlocks
<1>10. /\ DataBits(i) \subseteq DataBits(j) /\ InodeBits(i) \subseteq InodeBits(j)
       /\ b \in DataBits(j) /\ NewInode \in InodeBits(j)
  BY <1>4 DEF GrowsNext, DataBits, InodeBits
<1>11. KeepsEntries(i, j, p)
  BY <1>4 DEF KeepsEntries
<1>12. j.extent_num[p] > 0 /\ BlocksOf(j, p) = Append(BlocksOf(i, p), b)
  BY DEF Grew
<1>13. j.num_dir_entry[p] = i.num_dir_entry[p] /\ j.indirect_pt[p] = i.indirect_pt[p]
  BY <1>4
<1>14. i.num_dir_entry[p] <= D * Len(BlocksOf(i, p))
  BY <1>1, <1>2, <1>3
<1>15. Sound(j) /\ EntriesOf(j, p) = EntriesOf(i, p)
  BY <1>0, <1>1, <1>3, <1>6, <1>7, <1>8, <1>9, <1>10, <1>11, <1>12, <1>13, <1>14, GrewByOne
<1>16. \A x \in Inodes : EntriesOf(j, x) = EntriesOf(image, x)
  BY <1>1, <1>7, <1>15 DEF SameView
<1>. DEFINE cs == Append(bs, b)
<1>17. Len(cs) = Len(bs) + 1 /\ cs[Len(bs) + 1] = b
  BY <1>3
<1>18. n < D * (Len(bs) + 1) /\ n \div D = Len(bs)
  <2>. DEFINE c == Len(bs)
  <2>. HIDE DEF n, bs
  <2>1. n \div D \in Nat /\ n = D * (n \div D) + (n % D)
    BY <1>2, DivMod
  <2>2. n % D = 0
    BY DEF n
  <2>3. D * c = D * (n \div D) /\ c \in Nat
    BY <1>2, <2>1, <2>2
  <2>4. \A x, y \in Nat : D * x = D * y => x = y
    BY <1>2
  <2>5. c = n \div D
    BY <2>1, <2>3, <2>4
  <2>6. D * (c + 1) = D * c + D
    BY <1>2
  <2>. QED  BY <1>2, <2>5, <2>6
<1>19. Slot(cs, n + 1) = <<b, 0>>
  <2>1. Slot(cs, n + 1) = <<cs[n \div D + 1], n % D>>
    BY <1>2, SlotAfter
  <2>2. cs[n \div D + 1] = b
    BY <1>17, <1>18
  <2>. QED  BY <2>1, <2>2
<1>20. BlocksOf(j, p) = cs /\ Len(BlocksOf(j, p)) = Len(bs) + 1
  BY <1>3, <1>12, <1>17
<1>21. j.num_dir_entry[p] < D * Len(BlocksOf(j, p))
  BY <1>1, <1>13, <1>18, <1>20
<1>22. j.dentry[Slot(BlocksOf(j, p), j.num_dir_entry[p] + 1)] = NewEntry(nm)
  BY <1>1, <1>4, <1>13, <1>19, <1>20 DEF GrowsNext
<1>. QED  BY <1>1, <1>10, <1>12, <1>13, <1>15, <1>16, <1>21, <1>22 DEF Ready

\* The stores up to the one that grows the directory.
BlockInPlace(A, stores, p, nm, b, h) ==
    /\ h \in Nat /\ h <= Len(stores)
    /\ Steady(A, 0, h) /\ SameListing(A[h]) /\ GrowsNext(A[h], p, nm, b)
    /\ \A x \in Inodes : KeepsExtents(image, A[h], x)

\* The entry is in the block once inode and block are taken and it is stored.
LEMMA BlockPlaced ==
  ASSUME NEW p, NEW nm, NEW m, Enters(p, nm, m), image.extent_num[p] > 0,
         NEW b \in Blocks, b \notin DataBits(image),
         NEW A, NEW stores, Traced(A, image, stores),
         At(stores, 0, TakeInode(m)), At(stores, 3, TakeBlock(b, 1)),
         NEW h \in Nat, 5 <= h, h <= Len(stores),
         Neutral(A, 5, h), CalmOn(image, stores, 5, h),
         Same(A[5], A[h], {"inodeBit", "dataBit", "available"}),
         A[h].dentry[<<b, 0>>] = NewEntry(nm)
  PROVE  BlockInPlace(A, stores, p, nm, b, h)
<1>0. /\ Sound(image) /\ NewInode # NotFound /\ p \in Inodes /\ Agrees(image, p)
      /\ m \in {"dir", "reg"}
  BY DEF Enters
<1>1. /\ A[0] = image /\ Sound(A[0]) /\ SameListing(A[0]) /\ Len(stores) \in Nat
      /\ \A k \in 0 .. Len(stores) : IsImage(A[k])
  BY <1>0, EntersTraced
<1>2. /\ Neutral(A, 0, 3) /\ CalmOn(image, stores, 0, 3)
      /\ A[3].inodeBit = [image.inodeBit EXCEPT ![NewInode] = TRUE]
      /\ A[3].dataBit = image.dataBit /\ A[3].available["blocks"] = AvailableBlocks
  <2>1. InodeTaken(A, stores)
    BY <1>0, InodeStores
  <2>. QED  BY <2>1 DEF InodeTaken
<1>3. /\ image.inodeBit \in [Inodes -> BOOLEAN] /\ image.dataBit \in [Blocks -> BOOLEAN]
      /\ AvailableBlocks \in Int /\ NewInode \in Inodes
  <2>1. IsImage(image)
    BY <1>0, SoundView
  <2>2. NewInode \in Inodes
    BY <1>0, NewInodeFree
  <2>. QED  BY <2>1, <2>2, ImageTypes DEF AvailableBlocks
<1>4. /\ Neutral(A, 3, 5) /\ CalmOn(image, stores, 3, 5)
      /\ A[5].dataBit = [image.dataBit EXCEPT ![b] = TRUE]
      /\ A[5].available["blocks"] = AvailableBlocks - 1
      /\ A[5].inodeBit = A[3].inodeBit
  <2>1. ~A[3].dataBit[b] /\ A[3].available["blocks"] = AvailableBlocks - 1 + 1
    BY <1>2, <1>3 DEF DataBits
  <2>2. 3 \in Nat /\ 1 \in Nat /\ 1 >= 1 /\ 3 + 2 = 5
    OBVIOUS
  <2>3. BlockTaken(A, stores, 3, b, 1)
    BY <1>0, <2>1, <2>2, BlockStores
  <2>4. "inodeBit" \in Other
    BY FieldNames DEF Other
  <2>5. /\ Neutral(A, 3, 3 + 2) /\ CalmOn(image, stores, 3, 3 + 2)
        /\ A[3 + 2].dataBit = [A[3].dataBit EXCEPT ![b] = TRUE]
        /\ A[3 + 2].available["blocks"] = AvailableBlocks - 1
        /\ \A f \in Other : A[3 + 2][f] = A[3][f]
    BY <2>3 DEF BlockTaken, Same
  <2>6. A[3 + 2].inodeBit = A[3].inodeBit
    BY <2>4, <2>5
  <2>. QED  BY <1>2, <2>2, <2>5, <2>6
<1>5. CalmOn(image, stores, 0, h)
  <2>0. 0 \in Nat /\ 3 \in Nat /\ 5 \in Nat
    OBVIOUS
  <2>1. CalmOn(image, stores, 0, 5)
    BY <1>2, <1>4, <2>0, CalmJoin
  <2>. QED  BY <2>0, <2>1, CalmJoin
<1>6. Neutral(A, 0, h)
  <2>1. \A k \in 0 .. h : IsImage(A[k])
    BY <1>1
  <2>2. /\ \A k \in 0 .. 5 : IsImage(A[k])
        /\ 0 \in Nat /\ 3 \in Nat /\ 5 \in Nat /\ 0 <= 3 /\ 3 <= 5
    BY <2>1
  <2>3. Neutral(A, 0, 5)
    BY <1>2, <1>4, <2>2, NeutralJoin
  <2>. QED  BY <2>1, <2>3, NeutralJoin
<1>7. /\ Steady(A, 0, h) /\ SameListing(A[h]) /\ Sound(A[h])
      /\ \A x \in Inodes : Keeps(A[0], A[h], x) /\ SameView(A[0], A[h], x)
  <2>1. CalmOn(A[0], stores, 0, h) /\ 0 <= h /\ 0 \in Nat
    BY <1>1, <1>5
  <2>. QED  BY <1>1, <1>6, <2>1, CalmSteady
<1>8. /\ A[h].inodeBit = A[5].inodeBit /\ A[h].dataBit = A[5].dataBit
      /\ A[h].available = A[5].available
  BY DEF Same
<1>9. NewInode \in InodeBits(A[h]) /\ b \in DataBits(A[h])
  BY <1>2, <1>3, <1>4, <1>8 DEF InodeBits, DataBits
<1>10. A[h].num_dir_entry[p] = image.num_dir_entry[p]
  BY <1>0, <1>1, <1>7 DEF Keeps
<1>11. GrowsNext(A[h], p, nm, b)
  BY <1>1, <1>4, <1>7, <1>8, <1>9, <1>10 DEF GrowsNext
<1>12. \A x \in Inodes : KeepsExtents(image, A[h], x)
  BY <1>1, <1>7 DEF Keeps
<1>. QED  BY <1>7, <1>11, <1>12 DEF BlockInPlace

\* Once the directory has grown, the entry is counted.
LEMMA GrownEnds ==
  ASSUME NEW p, NEW nm, NEW m, Enters(p, nm, m), image.num_dir_entry[p] # 0,
         image.num_dir_entry[p] % D = 0, NEW b \in Blocks, b \notin DataBits(image),
         NEW A, NEW stores, Traced(A, image, stores), NEW h,
         BlockInPlace(A, stores, p, nm, b, h), Grew(A[h], A[h + 1], p, b),
         DOMAIN stores[h + 1] \cap Counted = {},
         NEW g, CountAt(stores, h + 1, g, p), g + 1 = Len(stores)
  PROVE  Steady(A, 0, Len(stores))
<1>0. /\ Sound(image) /\ NewInode # NotFound /\ p \in Inodes /\ nm \in Names
  BY DEF Enters
<1>1. /\ h \in Nat /\ h + 1 \in Nat /\ h + 1 <= Len(stores) /\ Len(stores) \in Nat
      /\ h + 1 \in 0 .. Len(stores) /\ h <= h + 1
  BY DEF BlockInPlace, CountAt, Traced
<1>. DEFINE e == h + 1
<1>2. IsImage(A[e])
  BY <1>1 DEF Traced
<1>3. Steady(A, 0, h) /\ SameListing(A[h]) /\ GrowsNext(A[h], p, nm, b) /\ Sound(A[h])
  BY DEF BlockInPlace, GrowsNext
<1>4. Ready(A[e], p, nm)
  BY <1>2, <1>3, GrewReady
<1>5. Steady(A, e, Len(stores))
  <2>1. e \in Nat /\ CountAt(stores, e, g, p)
    BY <1>1
  <2>. HIDE DEF e
  <2>. QED  BY <1>0, <1>4, <2>1, ReadyEnds
<1>6. Neutral(A, h, e)
  <2>1. h \in 0 .. Len(stores) /\ e \in h .. Len(stores)
    BY <1>1
  <2>2. \A j \in h + 1 .. e : DOMAIN stores[j] \cap Counted = {}
    <3>1. \A j \in h + 1 .. e : j = h + 1
      BY <1>1
    <3>. QED  BY <3>1
  <2>. HIDE DEF e
  <2>. QED  BY <2>1, <2>2, OtherNeutral
<1>7. Steady(A, h, e) /\ SameListing(A[e])
  <2>1. \A k \in h .. e : k = h \/ k = e
    BY <1>1
  <2>2. h < e
    BY <1>1
  <2>3. Sound(A[e]) /\ SameListing(A[e])
    BY <1>4 DEF Ready, SameListing
  <2>. HIDE DEF e
  <2>. QED  BY <1>3, <1>6, <2>1, <2>3 DEF Steady
<1>8. e \in Nat /\ h <= e /\ e <= Len(stores)
  BY <1>1
<1>. HIDE DEF e
<1>9. Steady(A, 0, e)
  BY <1>1, <1>3, <1>7, <1>8, SteadyJoin
<1>. QED  BY <1>1, <1>5, <1>7, <1>8, <1>9, SteadyJoin

\* A list of two well-typed stores.
LEMMA LongPair ==
  ASSUME NEW x, NEW y, Typed(x), Typed(y)
  PROVE  Long(<<x, y>>, 2)
<1>1. IsSeq(<<x, y>>) /\ Len(<<x, y>>) = 2 /\ <<x, y>>[1] = x /\ <<x, y>>[2] = y
  BY SeqOfFew
<1>2. \A k \in 1 .. 2 : <<x, y>>[k] = x \/ <<x, y>>[k] = y
  BY <1>1
<1>. QED  BY <1>1, <1>2 DEF Long, WellTyped

\* The store that makes the last extent of p one block longer.
Longer(p) ==
    LET ib == image.indirect_pt[p]
        k  == image.extent_num[p] - 1
    IN  [count |-> <<<<ib, k>>, image.count[<<ib, k>>] + 1>>]

\* The store that makes the last extent longer is well typed.
LEMMA LongerTyped ==
  ASSUME Sound(image), NEW p \in Inodes, image.extent_num[p] > 0
  PROVE  /\ Typed(Longer(p)) /\ DOMAIN Longer(p) = {"count"}
         /\ image.indirect_pt[p] \in Blocks /\ image.extent_num[p] \in 1 .. MaxExtents
         /\ <<image.indirect_pt[p], image.extent_num[p] - 1>> \in Blocks \X Extents
<1>1. IsImage(image) /\ Held(image)
  BY SoundView
<1>2. image.indirect_pt[p] \in Blocks /\ image.extent_num[p] \in 1 .. MaxExtents
  BY <1>1, ImageTypes DEF Held
<1>. DEFINE y == <<image.indirect_pt[p], image.extent_num[p] - 1>>
<1>3. y \in Blocks \X Extents
  <2>1. image.extent_num[p] - 1 \in Extents
    BY <1>2, DimensionsAssumption DEF Extents
  <2>. QED  BY <1>2, <2>1
<1>. HIDE DEF y
<1>4. image.count[y] + 1 \in Nat
  BY <1>1, <1>3, ImageTypes
<1>5. Longer(p) = [count |-> <<y, image.count[y] + 1>>]
  BY DEF Longer, y
<1>6. FieldRange["count"] = Nat
  BY DEF FieldRange
<1>7. DOMAIN Longer(p) = {"count"} /\ Longer(p)["count"][2] = image.count[y] + 1
  BY <1>5
<1>8. Typed(Longer(p))
  BY <1>4, <1>6, <1>7, FieldNames DEF Typed
<1>. QED  BY <1>2, <1>3, <1>7, <1>8 DEF y

\* It gives the directory the block after its last one.
LEMMA LongerGrew ==
  ASSUME Sound(image), NEW p \in Inodes, image.extent_num[p] > 0,
         NEW b \in Blocks, b = BlocksOf(image, p)[Len(BlocksOf(image, p))] + 1,
         NEW i, Sound(i), \A x \in Inodes : KeepsExtents(image, i, x),
         NEW j, IsImage(j), j = Made(i, Longer(p))
  PROVE  Grew(i, j, p, b)
<1>. DEFINE ib == image.indirect_pt[p]
            e == image.extent_num[p]
            y == <<ib, e - 1>>
<1>1. IsImage(image) /\ Held(image) /\ IsImage(i) /\ Held(i)
  BY SoundView
<1>2. Longer(p) = [count |-> <<y, image.count[y] + 1>>] /\ DOMAIN Longer(p) = {"count"}
  BY LongerTyped DEF Longer
<1>3. /\ ib \in Blocks /\ e \in 1 .. MaxExtents /\ y \in Blocks \X Extents /\ MaxExtents \in Nat
      /\ e \in Nat
  <2>1. MaxExtents \in Nat
    BY DimensionsAssumption
  <2>. QED  BY <2>1, LongerTyped
<1>4. /\ \A f \in Fields : f # "count" => j[f] = i[f]
      /\ j["count"] = [i["count"] EXCEPT ![y] = image.count[y] + 1]
  <2>1. Stored(i, j, Longer(p))
    BY <1>1, MadeStored
  <2>2. "count" \in Fields /\ Longer(p)["count"] = <<y, image.count[y] + 1>>
    BY <1>2, FieldNames
  <2>. HIDE DEF y
  <2>. QED  BY <1>2, <2>1, <2>2 DEF Stored
<1>5. Same(i, j, Lasting) /\ j.extent_num = i.extent_num /\ j.start = i.start
      /\ j.indirect_pt = i.indirect_pt
  BY <1>4, FieldNames DEF Same, Lasting
<1>6. i.extent_num[p] = e /\ i.indirect_pt[p] = ib
      /\ \A k \in 0 .. e - 1 : /\ i.start[<<ib, k>>] = image.start[<<ib, k>>]
                               /\ i.count[<<ib, k>>] = image.count[<<ib, k>>]
  BY DEF KeepsExtents
<1>. HIDE DEF ib, e
<1>7. i.count \in [Blocks \X Extents -> Nat] /\ e - 1 \in 0 .. e - 1
  <2>1. e - 1 \in 0 .. e - 1
    BY <1>3
  <2>. QED  BY <1>1, <2>1, ImageTypes
<1>8. j.count[y] = i.count[y] + 1 /\ \A z : z # y /\ z \in Blocks \X Extents => j.count[z] = i.count[z]
  <2>1. i.count[y] = image.count[y]
    BY <1>6, <1>7
  <2>. HIDE DEF y
  <2>. QED  BY <1>3, <1>4, <1>7, <2>1
<1>10. ASSUME NEW x \in Inodes \ {p} PROVE KeepsExtents(i, j, x)
  <2>1. CASE i.extent_num[x] = 0
    BY <1>5, <2>1 DEF KeepsExtents
  <2>2. CASE i.extent_num[x] # 0
    <3>1. i.extent_num[x] \in 1 .. MaxExtents /\ i.indirect_pt[x] \in Blocks
      BY <1>1, <2>2, ImageTypes DEF Held
    <3>2. i.indirect_pt[x] # i.indirect_pt[p]
      <4>1. Uses(i, x, 0) /\ Uses(i, p, 0)
        <5>1. Len(BlocksOf(i, x)) \in Nat /\ Len(BlocksOf(i, p)) \in Nat
          BY SoundView
        <5>2. i.extent_num[x] > 0 /\ i.extent_num[p] > 0
          BY <1>3, <1>6, <3>1
        <5>. QED  BY <5>1, <5>2 DEF Uses
      <4>2. BlockAt(i, x, 0) = i.indirect_pt[x] /\ BlockAt(i, p, 0) = i.indirect_pt[p]
        BY DEF BlockAt
      <4>. QED  BY <4>1, <4>2, SoundView DEF UsesApart
    <3>3. \A k \in 0 .. i.extent_num[x] - 1 : j.count[<<i.indirect_pt[x], k>>] = i.count[<<i.indirect_pt[x], k>>]
      <4>1. \A k \in 0 .. i.extent_num[x] - 1 : k \in Extents
        BY <1>3, <3>1 DEF Extents
      <4>2. \A k \in 0 .. i.extent_num[x] - 1 :
               <<i.indirect_pt[x], k>> \in Blocks \X Extents /\ <<i.indirect_pt[x], k>> # y
        BY <1>6, <3>1, <3>2, <4>1
      <4>. QED  BY <1>8, <4>2
    <3>. QED  BY <1>5, <3>3 DEF KeepsExtents
  <2>. QED  BY <2>1, <2>2
<1>11. ASSUME NEW k \in 0 .. e - 1 PROVE j.count[<<ib, k>>] > 0
  <2>1. i.count[<<ib, k>>] > 0
    BY <1>1, <1>3, <1>6 DEF Held
  <2>2. <<ib, k>> \in Blocks \X Extents
    <3>1. k \in Extents
      BY <1>3 DEF Extents
    <3>. QED  BY <1>3, <3>1
  <2>3. i.count[<<ib, k>>] \in Nat
    BY <1>7, <2>2
  <2>4. j.count[<<ib, k>>] = i.count[<<ib, k>>] \/ j.count[<<ib, k>>] = i.count[<<ib, k>>] + 1
    BY <1>8, <2>2
  <2>. QED  BY <2>1, <2>3, <2>4
<1>12. BlocksOf(j, p) = Append(BlocksOf(i, p), b)
  <2>1. BlocksOf(j, p) = FirstBlocks(j, ib, e) /\ BlocksOf(i, p) = FirstBlocks(i, ib, e)
    BY <1>5, <1>6, BlocksAreFirstBlocks
  <2>2. \A k \in 0 .. e - 2 : j.start[<<ib, k>>] = i.start[<<ib, k>>]
                              /\ j.count[<<ib, k>>] = i.count[<<ib, k>>]
    <3>0. \A k \in 0 .. e - 2 : k \in Extents /\ k # e - 1
      BY <1>3 DEF Extents
    <3>1. \A k \in 0 .. e - 2 : <<ib, k>> \in Blocks \X Extents /\ <<ib, k>> # y
      BY <1>3, <3>0
    <3>. QED  BY <1>5, <1>8, <3>1
  <2>3. j.start[<<ib, e - 1>>] = i.start[<<ib, e - 1>>] /\ j.count[<<ib, e - 1>>] = i.count[<<ib, e - 1>>] + 1
    BY <1>5, <1>8
  <2>4. b = i.start[<<ib, e - 1>>] + i.count[<<ib, e - 1>>]
    <3>1. BlocksOf(image, p)[Len(BlocksOf(image, p))] = image.start[<<ib, e - 1>>] + image.count[<<ib, e - 1>>] - 1
      BY <1>1, BlocksView DEF ib, e
    <3>2. image.start[<<ib, e - 1>>] \in Int /\ image.count[<<ib, e - 1>>] \in Int
      <4>1. image.start \in [Blocks \X Extents -> Blocks] /\ image.count \in [Blocks \X Extents -> Nat]
        BY <1>1, ImageTypes
      <4>2. image.start[y] \in Blocks /\ image.count[y] \in Nat
        BY <1>3, <4>1
      <4>. QED  BY <4>2 DEF Blocks
    <3>3. b = image.start[<<ib, e - 1>>] + image.count[<<ib, e - 1>>]
      BY <3>1, <3>2
    <3>. QED  BY <1>6, <1>7, <3>3
  <2>. QED  BY <1>1, <1>3, <2>1, <2>2, <2>3, <2>4, LastExtentGrows
<1>13. j.extent_num[p] > 0 /\ j.extent_num[p] = e
  BY <1>3, <1>5, <1>6
<1>. QED  BY <1>5, <1>6, <1>10, <1>11, <1>12, <1>13 DEF Grew

NextList(p, nm, m, b) ==
    TakeInode(m) \o TakeBlock(b, 1) \o << PutEntry(b, 0, nm), Longer(p) >> \o CountEntry(p, m)

\* The list S is a and the count of an entry, and where the last store of it is.
EndsCounted(S, a, c, p, m) ==
    /\ WellTyped(S) /\ At(S, 0, a) /\ Len(S) \in Nat
    /\ AtEnd(S, c, CountEntry(p, m))
    /\ \E g : CountAt(S, c, g, p) /\ g + 1 = Len(S)

\* What a list that ends by counting an entry ends with.
LEMMA CountEnds ==
  ASSUME Sound(image), NEW p \in Inodes, NEW m, NEW S, NEW a, NEW c \in Nat, Long(a, c),
         S = a \o CountEntry(p, m)
  PROVE  EndsCounted(S, a, c, p, m)
<1>1. PICK l : Long(CountEntry(p, m), l)
  <2>1. WellTyped(CountEntry(p, m))
    BY WellPieces
  <2>2. IsSeq(<<>>) /\ \A k \in 1 .. Len(<<>>) : Typed(<<>>[k])
    BY SeqOfFew
  <2>3. WellTyped(<<>>)
    BY <2>2 DEF WellTyped
  <2>4. Len(CountEntry(p, m)) \in Nat
    BY <2>1, <2>3, WellJoin
  <2>. QED  BY <2>1, <2>4 DEF Long
<1>2. Long(S, c + l)
  BY <1>1, LongJoin
<1>3. WellTyped(S) /\ Len(S) = c + l /\ l \in Nat /\ Len(CountEntry(p, m)) = l
  BY <1>1, <1>2 DEF Long
<1>4. At(S, 0, a \o CountEntry(p, m))
  BY <1>3, WellWhole
<1>5. At(S, 0, a) /\ At(S, 0 + c, CountEntry(p, m))
  BY <1>1, <1>4, LongAt
<1>6. At(S, c, CountEntry(p, m)) /\ Len(S) \in Nat
  BY <1>3, <1>5
<1>7. \E g : CountAt(S, c, g, p) /\ g + 1 = c + Len(CountEntry(p, m))
  BY <1>6, CountEntryAt
<1>8. AtEnd(S, c, CountEntry(p, m)) /\ c + Len(CountEntry(p, m)) = Len(S)
  BY <1>3, <1>6 DEF AtEnd
<1>. QED  BY <1>3, <1>5, <1>7, <1>8 DEF EndsCounted

\* Where the parts of NextList are.
LEMMA NextParts ==
  ASSUME Sound(image), NewInode # NotFound, NEW m \in {"dir", "reg"}, NEW p \in Inodes,
         NEW nm \in Names, NEW b \in Blocks, b \notin DataBits(image), image.extent_num[p] > 0,
         NEW S, S = NextList(p, nm, m, b)
  PROVE  /\ WellTyped(S)
         /\ At(S, 0, TakeInode(m)) /\ At(S, 3, TakeBlock(b, 1))
         /\ At(S, 5, << PutEntry(b, 0, nm) >>) /\ At(S, 6, << Longer(p) >>)
         /\ AtEnd(S, 7, CountEntry(p, m))
         /\ \E g : CountAt(S, 7, g, p) /\ g + 1 = Len(S)
<1>. DEFINE t == TakeInode(m)
            u == TakeBlock(b, 1)
            v == << PutEntry(b, 0, nm), Longer(p) >>
<1>1. Long(t, 3) /\ Long(u, 2)
  BY WellPieces DEF Long
<1>2. Long(v, 2)
  <2>1. Typed(PutEntry(b, 0, nm))
    BY ClearUnseen, NewInodeFree, PutEntryCalm DEF CalmTyped
  <2>. QED  BY <2>1, LongerTyped, LongPair
<1>. HIDE DEF t, u, v
<1>3. Long(t \o u, 5) /\ Long(t \o u \o v, 7)
  <2>1. Long(t \o u, 3 + 2)
    BY <1>1, LongJoin
  <2>2. Long(t \o u, 5)
    BY <2>1
  <2>3. Long(t \o u \o v, 5 + 2)
    BY <1>2, <2>2, LongJoin
  <2>4. 5 + 2 = 7
    OBVIOUS
  <2>. QED  BY <2>2, <2>3, <2>4
<1>4. /\ WellTyped(S) /\ At(S, 0, t \o u \o v) /\ Len(S) \in Nat
      /\ AtEnd(S, 7, CountEntry(p, m))
      /\ \E g : CountAt(S, 7, g, p) /\ g + 1 = Len(S)
  <2>1. S = (t \o u \o v) \o CountEntry(p, m)
    BY DEF NextList, t, u, v
  <2>2. EndsCounted(S, t \o u \o v, 7, p, m)
    BY <1>3, <2>1, CountEnds
  <2>. QED  BY <2>2 DEF EndsCounted
<1>5. At(S, 0, t \o u) /\ At(S, 5, v)
  <2>1. 0 + 5 = 5 /\ 0 \in Nat
    OBVIOUS
  <2>2. Long(t \o u, 5) /\ At(S, 0, t \o u \o v)
    BY <1>3, <1>4
  <2>. QED  BY <1>2, <2>1, <2>2, LongAt
<1>6. At(S, 0, t) /\ At(S, 3, u)
  <2>1. 0 + 3 = 3 /\ 0 \in Nat
    OBVIOUS
  <2>. QED  BY <1>1, <1>5, <2>1, LongAt
<1>7. At(S, 5, << PutEntry(b, 0, nm) >>) /\ At(S, 5 + 1, << Longer(p) >>)
  <2>1. At(S, 5, << PutEntry(b, 0, nm), Longer(p) >>)
    BY <1>5 DEF v
  <2>. QED  BY <1>4, <2>1, AtPair
<1>8. 5 + 1 = 6
  OBVIOUS
<1>. QED  BY <1>4, <1>6, <1>7, <1>8 DEF t, u

\* What its stores do up to the one that makes the last extent longer.
LEMMA NextSteps ==
  ASSUME NEW p, NEW nm, NEW m, Enters(p, nm, m), image.num_dir_entry[p] # 0,
         image.size[p] % D = 0, NEW b \in Blocks, b \notin DataBits(image),
         b = Seen!find_last_block(p) + 1,
         NEW S, S = NextList(p, nm, m, b), NEW A, Traced(A, image, S)
  PROVE  /\ EntryPut(A, S, 5, b, 0, nm) /\ BlockInPlace(A, S, p, nm, b, 6)
         /\ 6 + 1 \in 0 .. Len(S) /\ A[6 + 1] = Made(A[6], Longer(p))
         /\ Grew(A[6], A[6 + 1], p, b) /\ DOMAIN S[6 + 1] \cap Counted = {}
<1>0. /\ Sound(image) /\ NewInode # NotFound /\ p \in Inodes /\ nm \in Names /\ Agrees(image, p)
      /\ m \in {"dir", "reg"}
  BY DEF Enters
<1>1. image.extent_num[p] > 0 /\ image.num_dir_entry[p] % D = 0
  <2>1. image.num_dir_entry[p] > 0
    BY <1>0, ParentCounts
  <2>. QED  BY <1>0, <2>1, ParentCounts DEF Agrees
<1>2. b = BlocksOf(image, p)[Len(BlocksOf(image, p))] + 1
  BY <1>0, <1>1, FindLastBlock
<1>3. /\ At(S, 0, TakeInode(m)) /\ At(S, 3, TakeBlock(b, 1))
      /\ At(S, 5, << PutEntry(b, 0, nm) >>) /\ At(S, 6, << Longer(p) >>)
  BY <1>0, <1>1, NextParts
<1>4. \A k \in 0 .. Len(S) : IsImage(A[k])
  BY <1>0, EntersTraced
<1>5. EntryPut(A, S, 5, b, 0, nm)
  <2>1. 5 \in Nat /\ 0 \in Slots
    BY DimensionsAssumption DEF Slots, D
  <2>2. ~Visible(image, <<b, 0>>)
    BY <1>0, ClearUnseen
  <2>. QED  BY <1>0, <1>3, <2>1, <2>2, EntryStore
<1>6. /\ 6 <= Len(S) /\ Neutral(A, 5, 6) /\ CalmOn(image, S, 5, 6)
      /\ A[6].dentry[<<b, 0>>] = NewEntry(nm) /\ Same(A[5], A[6], Fields \ {"dentry"})
  <2>1. 5 + 1 = 6
    OBVIOUS
  <2>. QED  BY <1>5, <2>1 DEF EntryPut
<1>7. Same(A[5], A[6], {"inodeBit", "dataBit", "available"})
  BY <1>6, FieldNames DEF Same
<1>8. BlockInPlace(A, S, p, nm, b, 6)
  BY <1>1, <1>3, <1>6, <1>7, BlockPlaced
<1>9. 6 + 1 <= Len(S) /\ S[6 + 1] = Longer(p)
  BY <1>3, AtSingle
<1>10. A[6 + 1] = Made(A[6], Longer(p)) /\ 6 + 1 \in 0 .. Len(S)
  <2>1. \A k \in 1 .. Len(S) : A[k] = Made(A[k - 1], S[k])
    BY TraceStep
  <2>2. Len(S) \in Nat
    BY DEF Traced
  <2>3. 6 + 1 \in 1 .. Len(S) /\ 6 + 1 - 1 = 6 /\ 6 + 1 \in 0 .. Len(S)
    BY <1>9, <2>2
  <2>4. A[6 + 1] = Made(A[6 + 1 - 1], S[6 + 1])
    BY <2>1, <2>3
  <2>. QED  BY <1>9, <2>3, <2>4
<1>11. Grew(A[6], A[6 + 1], p, b)
  <2>1. Sound(A[6]) /\ \A x \in Inodes : KeepsExtents(image, A[6], x)
    BY <1>8 DEF BlockInPlace, GrowsNext
  <2>2. IsImage(A[6 + 1])
    BY <1>4, <1>10
  <2>. QED  BY <1>0, <1>1, <1>2, <1>10, <2>1, <2>2, LongerGrew
<1>12. DOMAIN S[6 + 1] \cap Counted = {}
  BY <1>0, <1>1, <1>9, LongerTyped DEF Counted
<1>. QED  BY <1>5, <1>8, <1>10, <1>11, <1>12

\* The addition to the block after the last one of a directory.
LEMMA AddedToNext ==
  ASSUME NEW p, NEW nm, NEW m, Enters(p, nm, m), image.num_dir_entry[p] # 0,
         image.size[p] % D = 0, NEW b \in Blocks, b \notin DataBits(image),
         b = Seen!find_last_block(p) + 1
  PROVE  Added(NextList(p, nm, m, b))
<1>0. /\ Sound(image) /\ NewInode # NotFound /\ p \in Inodes /\ nm \in Names /\ Agrees(image, p)
      /\ m \in {"dir", "reg"}
  BY DEF Enters
<1>1. image.extent_num[p] > 0 /\ image.num_dir_entry[p] % D = 0
  <2>1. image.num_dir_entry[p] > 0
    BY <1>0, ParentCounts
  <2>. QED  BY <1>0, <2>1, ParentCounts DEF Agrees
<1>. DEFINE S == NextList(p, nm, m, b)
<1>3. /\ WellTyped(S)
      /\ At(S, 0, TakeInode(m)) /\ At(S, 3, TakeBlock(b, 1))
      /\ At(S, 5, << PutEntry(b, 0, nm) >>) /\ At(S, 6, << Longer(p) >>)
      /\ \E g : CountAt(S, 7, g, p) /\ g + 1 = Len(S)
  BY <1>0, <1>1, NextParts
<1>. HIDE DEF S
<1>4. PICK g : CountAt(S, 7, g, p) /\ g + 1 = Len(S)
  BY <1>3
<1>5. ASSUME NEW A, Traced(A, image, S) PROVE Steady(A, 0, Len(S))
  <2>1. /\ BlockInPlace(A, S, p, nm, b, 6) /\ Grew(A[6], A[6 + 1], p, b)
        /\ DOMAIN S[6 + 1] \cap Counted = {}
    BY <1>5, NextSteps DEF S
  <2>2. CountAt(S, 6 + 1, g, p) /\ g + 1 = Len(S)
    <3>1. 6 + 1 = 7
      OBVIOUS
    <3>. QED  BY <1>4, <3>1
  <2>. QED  BY <1>1, <1>5, <2>1, <2>2, GrownEnds
<1>. QED  BY <1>3, <1>5 DEF Added, S

\* Counting the extent that was put behind the last one.
LEMMA ExtentGrew ==
  ASSUME Sound(image), NEW p \in Inodes, image.extent_num[p] > 0,
         image.extent_num[p] < MaxExtents, NEW b \in Blocks,
         NEW i, Sound(i), \A x \in Inodes : KeepsExtents(image, i, x),
         i.start[<<image.indirect_pt[p], image.extent_num[p]>>] = b,
         i.count[<<image.indirect_pt[p], image.extent_num[p]>>] = 1,
         NEW j, IsImage(j), j = Made(i, AddExtents(p, 1))
  PROVE  Grew(i, j, p, b)
<1>. DEFINE ib == image.indirect_pt[p]
            e == image.extent_num[p]
            v == e + 1
<1>1. IsImage(image) /\ Held(image) /\ IsImage(i) /\ Held(i)
  BY SoundView
<1>2. /\ ib \in Blocks /\ e \in 1 .. MaxExtents /\ MaxExtents \in Nat /\ e \in Nat
      /\ e \in 0 .. MaxExtents - 1
  <2>1. MaxExtents \in Nat
    BY DimensionsAssumption
  <2>2. ib \in Blocks /\ e \in 1 .. MaxExtents
    BY LongerTyped
  <2>. QED  BY <2>1, <2>2
<1>3. AddExtents(p, 1) = [extent_num |-> <<p, v>>]
  BY DEF AddExtents
<1>4. /\ \A f \in Fields : f # "extent_num" => j[f] = i[f]
      /\ j["extent_num"] = [i["extent_num"] EXCEPT ![p] = v]
  <2>1. Stored(i, j, AddExtents(p, 1))
    BY <1>1, MadeStored
  <2>2. "extent_num" \in Fields /\ DOMAIN AddExtents(p, 1) = {"extent_num"}
        /\ AddExtents(p, 1)["extent_num"] = <<p, v>>
    BY <1>3, FieldNames
  <2>. HIDE DEF v
  <2>. QED  BY <2>1, <2>2 DEF Stored
<1>5. /\ Same(i, j, Lasting) /\ j.start = i.start /\ j.count = i.count
      /\ j.indirect_pt = i.indirect_pt
  BY <1>4, FieldNames DEF Same, Lasting
<1>6. i.extent_num[p] = e /\ i.indirect_pt[p] = ib
      /\ \A k \in 0 .. e - 1 : /\ i.start[<<ib, k>>] = image.start[<<ib, k>>]
                               /\ i.count[<<ib, k>>] = image.count[<<ib, k>>]
  BY DEF KeepsExtents
<1>. HIDE DEF ib, e
<1>7. j.extent_num[p] = e + 1 /\ \A x \in Inodes : x # p => j.extent_num[x] = i.extent_num[x]
  <2>1. i.extent_num \in [Inodes -> 0 .. MaxExtents]
    BY <1>1, ImageTypes
  <2>. QED  BY <1>4, <2>1 DEF v
<1>8. ASSUME NEW x \in Inodes \ {p} PROVE KeepsExtents(i, j, x)
  BY <1>5, <1>7 DEF KeepsExtents
<1>9. ASSUME NEW k \in 0 .. e PROVE j.count[<<ib, k>>] > 0
  <2>1. CASE k = e
    BY <1>5, <2>1 DEF ib, e
  <2>2. CASE k # e
    <3>1. k \in 0 .. e - 1
      BY <1>2, <2>2
    <3>2. i.count[<<ib, k>>] > 0
      BY <1>1, <1>2, <1>6, <3>1 DEF Held
    <3>. QED  BY <1>5, <3>2
  <2>. QED  BY <2>1, <2>2
<1>10. BlocksOf(j, p) = Append(BlocksOf(i, p), b)
  <2>1. BlocksOf(j, p) = FirstBlocks(j, ib, e + 1) /\ BlocksOf(i, p) = FirstBlocks(i, ib, e)
    <3>1. BlocksOf(j, p) = FirstBlocks(j, j.indirect_pt[p], j.extent_num[p])
          /\ BlocksOf(i, p) = FirstBlocks(i, i.indirect_pt[p], i.extent_num[p])
      BY BlocksAreFirstBlocks
    <3>. QED  BY <1>5, <1>6, <1>7, <3>1
  <2>2. j.count[<<ib, e>>] = 1 /\ j.start[<<ib, e>>] = b
    BY <1>5 DEF ib, e
  <2>3. \A k \in 0 .. e - 1 : j.start[<<ib, k>>] = i.start[<<ib, k>>]
                              /\ j.count[<<ib, k>>] = i.count[<<ib, k>>]
    BY <1>5
  <2>. QED  BY <1>1, <1>2, <2>1, <2>2, <2>3, ExtentOfOne
<1>11. j.extent_num[p] > 0 /\ \A k \in 0 .. j.extent_num[p] - 1 : j.count[<<i.indirect_pt[p], k>>] > 0
  <2>1. \A k \in 0 .. j.extent_num[p] - 1 : k \in 0 .. e
    BY <1>2, <1>7
  <2>. QED  BY <1>2, <1>6, <1>7, <1>9, <2>1
<1>. QED  BY <1>5, <1>8, <1>10, <1>11 DEF Grew

ExtentList(p, nm, m, b) == TakeInode(m) \o NewExtent(p, nm, b) \o CountEntry(p, m)

\* Where the parts of ExtentList are.
LEMMA ExtentParts ==
  ASSUME Sound(image), NewInode # NotFound, NEW m \in {"dir", "reg"}, NEW p \in Inodes,
         NEW nm \in Names, NEW b \in Blocks, b \notin DataBits(image), image.extent_num[p] > 0,
         image.extent_num[p] < MaxExtents,
         NEW S, S = ExtentList(p, nm, m, b)
  PROVE  /\ WellTyped(S)
         /\ At(S, 0, TakeInode(m)) /\ At(S, 3, TakeBlock(b, 1))
         /\ At(S, 5, PutExtent(image.indirect_pt[p], image.extent_num[p], b))
         /\ At(S, 7, << PutEntry(b, 0, nm) >>) /\ At(S, 8, << AddExtents(p, 1) >>)
         /\ AtEnd(S, 9, CountEntry(p, m))
         /\ \E g : CountAt(S, 9, g, p) /\ g + 1 = Len(S)
<1>. DEFINE t == TakeInode(m)
            u == TakeBlock(b, 1)
            w == PutExtent(image.indirect_pt[p], image.extent_num[p], b)
            v == << PutEntry(b, 0, nm), AddExtents(p, 1) >>
<1>1. Long(t, 3) /\ Long(u, 2) /\ Long(w, 2)
  <2>1. ~Extended(image, <<image.indirect_pt[p], image.extent_num[p]>>)
    BY EndUnextended
  <2>2. Long(w, 2)
    BY <2>1, LongExtent
  <2>. QED  BY <2>2, WellPieces DEF Long
<1>2. Long(v, 2)
  <2>1. Typed(PutEntry(b, 0, nm))
    BY ClearUnseen, NewInodeFree, PutEntryCalm DEF CalmTyped
  <2>2. Typed(AddExtents(p, 1))
    <3>1. Long(<< AddExtents(p, 1) >>, 1)
      BY LongAdd
    <3>2. <<AddExtents(p, 1)>>[1] = AddExtents(p, 1)
      OBVIOUS
    <3>. QED  BY <3>1, <3>2 DEF Long, WellTyped
  <2>. QED  BY <2>1, <2>2, LongPair
<1>. HIDE DEF t, u, v, w
<1>3. Long(u \o w, 4) /\ Long(u \o w \o v, 6) /\ Long(t \o (u \o w \o v), 9)
  <2>1. Long(u \o w, 2 + 2)
    BY <1>1, LongJoin
  <2>2. Long(u \o w, 4)
    BY <2>1
  <2>3. Long(u \o w \o v, 4 + 2)
    BY <1>2, <2>2, LongJoin
  <2>4. Long(u \o w \o v, 6)
    BY <2>3
  <2>5. Long(t \o (u \o w \o v), 3 + 6)
    BY <1>1, <2>4, LongJoin
  <2>6. Long(t \o (u \o w \o v), 9)
    BY <2>5
  <2>. QED  BY <2>2, <2>4, <2>6
<1>4. /\ WellTyped(S) /\ At(S, 0, t \o (u \o w \o v)) /\ Len(S) \in Nat
      /\ AtEnd(S, 9, CountEntry(p, m))
      /\ \E g : CountAt(S, 9, g, p) /\ g + 1 = Len(S)
  <2>1. S = (t \o (u \o w \o v)) \o CountEntry(p, m)
    BY DEF ExtentList, NewExtent, t, u, v, w
  <2>2. EndsCounted(S, t \o (u \o w \o v), 9, p, m)
    BY <1>3, <2>1, CountEnds
  <2>. QED  BY <2>2 DEF EndsCounted
<1>5. At(S, 0, t) /\ At(S, 3, u \o w \o v)
  <2>. DEFINE r == u \o w \o v
  <2>1. Long(r, 6) /\ At(S, 0, t \o r)
    BY <1>3, <1>4
  <2>. HIDE DEF r
  <2>2. 0 + 3 = 3 /\ 0 \in Nat
    OBVIOUS
  <2>3. At(S, 0, t) /\ At(S, 0 + 3, r)
    BY <1>1, <2>1, <2>2, LongAt
  <2>. QED  BY <2>2, <2>3 DEF r
<1>6. At(S, 3, u \o w) /\ At(S, 7, v)
  <2>1. 3 + 4 = 7 /\ 3 \in Nat
    OBVIOUS
  <2>. QED  BY <1>2, <1>3, <1>5, <2>1, LongAt
<1>7. At(S, 3, u) /\ At(S, 5, w)
  <2>1. 3 + 2 = 5 /\ 3 \in Nat
    OBVIOUS
  <2>. QED  BY <1>1, <1>6, <2>1, LongAt
<1>8. At(S, 7, << PutEntry(b, 0, nm) >>) /\ At(S, 7 + 1, << AddExtents(p, 1) >>)
  <2>1. At(S, 7, << PutEntry(b, 0, nm), AddExtents(p, 1) >>)
    BY <1>6 DEF v
  <2>. QED  BY <1>4, <2>1, AtPair
<1>9. 7 + 1 = 8
  OBVIOUS
<1>. QED  BY <1>4, <1>5, <1>7, <1>8, <1>9 DEF t, u, w

\* What its stores do up to the one that counts the extent.
LEMMA ExtentSteps ==
  ASSUME NEW p, NEW nm, NEW m, Enters(p, nm, m), image.num_dir_entry[p] # 0,
         image.size[p] % D = 0, NEW b \in Blocks, b \notin DataBits(image),
         image.extent_num[p] < MaxExtents,
         NEW ib, ib = image.indirect_pt[p], NEW x, x = image.extent_num[p],
         NEW S, S = ExtentList(p, nm, m, b), NEW A, Traced(A, image, S)
  PROVE  /\ ExtentPut(A, S, 5, ib, x, b) /\ EntryPut(A, S, 7, b, 0, nm)
         /\ BlockInPlace(A, S, p, nm, b, 8)
         /\ 8 + 1 \in 0 .. Len(S) /\ A[8 + 1] = Made(A[8], AddExtents(p, 1))
         /\ A[8].start[<<ib, x>>] = b /\ A[8].count[<<ib, x>>] = 1
         /\ Grew(A[8], A[8 + 1], p, b) /\ DOMAIN S[8 + 1] \cap Counted = {}
<1>0. /\ Sound(image) /\ NewInode # NotFound /\ p \in Inodes /\ nm \in Names /\ Agrees(image, p)
      /\ m \in {"dir", "reg"}
  BY DEF Enters
<1>1. image.extent_num[p] > 0 /\ image.num_dir_entry[p] % D = 0
  <2>1. image.num_dir_entry[p] > 0
    BY <1>0, ParentCounts
  <2>. QED  BY <1>0, <2>1, ParentCounts DEF Agrees
<1>2. /\ At(S, 0, TakeInode(m)) /\ At(S, 3, TakeBlock(b, 1)) /\ At(S, 5, PutExtent(ib, x, b))
      /\ At(S, 7, << PutEntry(b, 0, nm) >>) /\ At(S, 8, << AddExtents(p, 1) >>)
  BY <1>0, <1>1, ExtentParts
<1>4. \A k \in 0 .. Len(S) : IsImage(A[k])
  BY <1>0, EntersTraced
<1>5. /\ ExtentPut(A, S, 5, ib, x, b)
      /\ 7 <= Len(S) /\ Neutral(A, 5, 7) /\ CalmOn(image, S, 5, 7)
      /\ A[7].start = [A[5].start EXCEPT ![<<ib, x>>] = b]
      /\ A[7].count = [A[5].count EXCEPT ![<<ib, x>>] = 1]
      /\ Same(A[5], A[7], Fields \ {"start", "count"})
  <2>1. 5 + 2 = 7 /\ 5 \in Nat
    OBVIOUS
  <2>2. ~Extended(image, <<ib, x>>)
    BY <1>0, <1>1, EndUnextended
  <2>3. ExtentPut(A, S, 5, ib, x, b)
    BY <1>2, <2>1, <2>2, ExtentStores
  <2>. QED  BY <2>1, <2>3 DEF ExtentPut
<1>6. /\ EntryPut(A, S, 7, b, 0, nm)
      /\ 8 <= Len(S) /\ Neutral(A, 7, 8) /\ CalmOn(image, S, 7, 8)
      /\ A[8].dentry[<<b, 0>>] = NewEntry(nm) /\ Same(A[7], A[8], Fields \ {"dentry"})
  <2>1. 7 + 1 = 8 /\ 7 \in Nat /\ 0 \in Slots
    BY DimensionsAssumption DEF Slots, D
  <2>2. ~Visible(image, <<b, 0>>)
    BY <1>0, ClearUnseen
  <2>3. EntryPut(A, S, 7, b, 0, nm)
    BY <1>0, <1>2, <2>1, <2>2, EntryStore
  <2>. QED  BY <2>1, <2>3 DEF EntryPut
<1>7. Same(A[5], A[8], {"inodeBit", "dataBit", "available"})
  BY <1>5, <1>6, FieldNames DEF Same
<1>8. Neutral(A, 5, 8) /\ CalmOn(image, S, 5, 8)
  <2>1. \A k \in 5 .. 8 : IsImage(A[k])
    <3>1. \A k \in 5 .. 8 : k \in 0 .. Len(S)
      BY <1>6 DEF Traced
    <3>. QED  BY <1>4, <3>1
  <2>. QED  BY <1>5, <1>6, <2>1, NeutralJoin, CalmJoin
<1>9. BlockInPlace(A, S, p, nm, b, 8)
  BY <1>1, <1>2, <1>6, <1>7, <1>8, BlockPlaced
<1>10. 8 + 1 <= Len(S) /\ S[8 + 1] = AddExtents(p, 1)
  BY <1>2, AtSingle
<1>11. A[8 + 1] = Made(A[8], AddExtents(p, 1)) /\ 8 + 1 \in 0 .. Len(S)
  <2>1. \A k \in 1 .. Len(S) : A[k] = Made(A[k - 1], S[k])
    BY TraceStep
  <2>2. Len(S) \in Nat
    BY DEF Traced
  <2>3. 8 + 1 \in 1 .. Len(S) /\ 8 + 1 - 1 = 8 /\ 8 + 1 \in 0 .. Len(S)
    BY <1>10, <2>2
  <2>4. A[8 + 1] = Made(A[8 + 1 - 1], S[8 + 1])
    BY <2>1, <2>3
  <2>. QED  BY <1>10, <2>3, <2>4
<1>12. A[8].start[<<ib, x>>] = b /\ A[8].count[<<ib, x>>] = 1
  <2>1. 5 \in 0 .. Len(S)
    BY <1>6 DEF Traced
  <2>2. A[5].start \in [Blocks \X Extents -> Blocks] /\ A[5].count \in [Blocks \X Extents -> Nat]
    BY <1>4, <2>1, ImageTypes
  <2>3. <<ib, x>> \in Blocks \X Extents
    <3>1. ib \in Blocks /\ x \in Nat /\ x < MaxExtents
      <4>1. MaxExtents \in Nat
        BY DimensionsAssumption
      <4>2. ib \in Blocks /\ x \in 1 .. MaxExtents
        BY <1>0, <1>1, LongerTyped
      <4>. QED  BY <4>1, <4>2
    <3>2. x \in Extents
      BY <3>1, DimensionsAssumption DEF Extents
    <3>. QED  BY <3>1, <3>2
  <2>4. A[8].start = A[7].start /\ A[8].count = A[7].count
    BY <1>6, FieldNames DEF Same
  <2>. QED  BY <1>5, <2>2, <2>3, <2>4
<1>13. Grew(A[8], A[8 + 1], p, b)
  <2>1. Sound(A[8]) /\ \A y \in Inodes : KeepsExtents(image, A[8], y)
    BY <1>9 DEF BlockInPlace, GrowsNext
  <2>2. IsImage(A[8 + 1])
    BY <1>4, <1>11
  <2>. QED  BY <1>0, <1>1, <1>11, <1>12, <2>1, <2>2, ExtentGrew
<1>14. DOMAIN S[8 + 1] \cap Counted = {}
  BY <1>0, <1>10, SingleStores DEF Counted
<1>. QED  BY <1>5, <1>6, <1>9, <1>11, <1>12, <1>13, <1>14

\* The addition to a new extent.
LEMMA AddedToExtent ==
  ASSUME NEW p, NEW nm, NEW m, Enters(p, nm, m), image.num_dir_entry[p] # 0,
         image.size[p] % D = 0, NEW b \in Blocks, b \notin DataBits(image),
         image.extent_num[p] < MaxExtents
  PROVE  Added(ExtentList(p, nm, m, b))
<1>0. /\ Sound(image) /\ NewInode # NotFound /\ p \in Inodes /\ nm \in Names /\ Agrees(image, p)
      /\ m \in {"dir", "reg"}
  BY DEF Enters
<1>1. image.extent_num[p] > 0 /\ image.num_dir_entry[p] % D = 0
  <2>1. image.num_dir_entry[p] > 0
    BY <1>0, ParentCounts
  <2>. QED  BY <1>0, <2>1, ParentCounts DEF Agrees
<1>. DEFINE S == ExtentList(p, nm, m, b)
            ib == image.indirect_pt[p]
            x == image.extent_num[p]
<1>3. /\ WellTyped(S)
      /\ At(S, 0, TakeInode(m)) /\ At(S, 3, TakeBlock(b, 1)) /\ At(S, 5, PutExtent(ib, x, b))
      /\ At(S, 7, << PutEntry(b, 0, nm) >>) /\ At(S, 8, << AddExtents(p, 1) >>)
      /\ \E g : CountAt(S, 9, g, p) /\ g + 1 = Len(S)
  BY <1>0, <1>1, ExtentParts
<1>. HIDE DEF S
<1>4. PICK g : CountAt(S, 9, g, p) /\ g + 1 = Len(S)
  BY <1>3
<1>5. ASSUME NEW A, Traced(A, image, S) PROVE Steady(A, 0, Len(S))
  <2>1. /\ BlockInPlace(A, S, p, nm, b, 8) /\ Grew(A[8], A[8 + 1], p, b)
        /\ DOMAIN S[8 + 1] \cap Counted = {}
    BY <1>5, ExtentSteps DEF S
  <2>2. CountAt(S, 8 + 1, g, p) /\ g + 1 = Len(S)
    <3>1. 8 + 1 = 9
      OBVIOUS
    <3>. QED  BY <1>4, <3>1
  <2>. QED  BY <1>1, <1>5, <2>1, <2>2, GrownEnds
<1>. QED  BY <1>3, <1>5 DEF Added, S

-----------------------------------------------------------------------------
(* Every addition. *)

\* A callback that makes no store adds nothing.
LEMMA AddedNothing ==
  ASSUME Sound(image)
  PROVE  Added(<<>>)
<1>1. IsSeq(<<>>) /\ Len(<<>>) = 0
  BY SeqOfFew
<1>2. WellTyped(<<>>)
  BY <1>1 DEF WellTyped
<1>. DEFINE S == <<>>
<1>. HIDE DEF S
<1>3. WellTyped(S) /\ Len(S) = 0
  BY <1>1, <1>2 DEF S
<1>4. ASSUME NEW A, Traced(A, image, S) PROVE CalmOn(image, S, 0, Len(S)) /\ Neutral(A, 0, Len(S))
  <2>1. \A j \in 0 + 1 .. 0 : FALSE
    OBVIOUS
  <2>2. 0 \in 0 .. Len(S) /\ \A j \in 0 + 1 .. 0 : DOMAIN S[j] \cap Counted = {}
    BY <1>3, <2>1
  <2>3. Neutral(A, 0, 0)
    BY <1>3, <1>4, <2>2, OtherNeutral
  <2>. QED  BY <1>3, <2>1, <2>3 DEF CalmOn
<1>. QED  BY <1>3, <1>4, CalmAdds DEF S

\* A callback that adds an entry: its stores, and what they do.
AddsBegun == \E stores, s, r : Begin("adding", stores, s, r) /\ Added(stores)

\* mkdir and create in a directory without entries, with all the ways they fail.
LEMMA AddedEmptyParent ==
  ASSUME NEW p, NEW nm, NEW m, Enters(p, nm, m), AddToEmptyParent(p, nm, m)
  PROVE  AddsBegun
<1>0. /\ Sound(image) /\ NewInode # NotFound /\ p \in Inodes /\ Agrees(image, p)
      /\ m \in {"dir", "reg"} /\ numOfDataBlocks \in Int /\ numOfDataBlocks <= NumBlocks
  BY DEF Enters
<1>. DEFINE ib == SearchBlock({})
            db == SearchBlock({ib})
            first == TakeBlock(ib, 1) \o << [indirect_pt |-> <<p, ib>>] >>
<1>1. image.num_dir_entry[p] = 0 /\ image.extent_num[p] = 0
  BY <1>0, ParentCounts DEF AddToEmptyParent
<1>2. ib # NotFound => ib \in Blocks /\ ib \notin DataBits(image)
  <2>1. ib # NotFound => ib \in Blocks /\ ib \notin DataBits(image) \cup {}
    BY <1>0, BlockFree
  <2>. QED  BY <2>1
<1>3. db # NotFound => db \in Blocks /\ db \notin DataBits(image) /\ db # ib
  <2>1. db # NotFound => db \in Blocks /\ db \notin DataBits(image) \cup {ib}
    BY <1>0, BlockFree
  <2>. QED  BY <2>1
<1>4. \/ FailNoSpace(TakeInode(m)) \/ Die(TakeInode(m))
      \/ ib # NotFound /\ (FailNoSpace(TakeInode(m) \o first) \/ Die(TakeInode(m) \o first))
      \/ /\ ib # NotFound /\ db # NotFound
         /\ Succeed(TakeInode(m) \o first \o TakeBlock(db, 2) \o PutExtent(ib, 0, db)
                         \o PutThenCount(p, m, db, 0, nm) \o << AddExtents(p, 1) >>)
  BY DEF AddToEmptyParent
<1>. HIDE DEF ib, db
<1>5. TakeInode(m) \o first = ToIndirect(p, m, ib)
  BY DEF ToIndirect
<1>. HIDE DEF first
<1>6. CASE FailNoSpace(TakeInode(m)) \/ Die(TakeInode(m))
  <2>1. Added(TakeInode(m))
    BY <1>0, AddedInode
  <2>. QED  BY <1>6, <2>1 DEF AddsBegun, FailNoSpace, Die
<1>7. CASE ib # NotFound /\ (FailNoSpace(TakeInode(m) \o first) \/ Die(TakeInode(m) \o first))
  <2>1. Added(ToIndirect(p, m, ib))
    BY <1>0, <1>1, <1>2, <1>7, AddedIndirect
  <2>. QED  BY <1>5, <1>7, <2>1 DEF AddsBegun, FailNoSpace, Die
<1>8. CASE /\ ib # NotFound /\ db # NotFound
           /\ Succeed(TakeInode(m) \o first \o TakeBlock(db, 2) \o PutExtent(ib, 0, db)
                         \o PutThenCount(p, m, db, 0, nm) \o << AddExtents(p, 1) >>)
  <2>1. Added(FirstList(p, nm, m, ib, db))
    BY <1>1, <1>2, <1>3, <1>8, AddedFirst
  <2>2. TakeInode(m) \o first \o TakeBlock(db, 2) \o PutExtent(ib, 0, db)
           \o PutThenCount(p, m, db, 0, nm) \o << AddExtents(p, 1) >> = FirstList(p, nm, m, ib, db)
    BY <1>5 DEF FirstList
  <2>3. Succeed(FirstList(p, nm, m, ib, db))
    BY <1>8, <2>2
  <2>. QED  BY <2>1, <2>3 DEF AddsBegun, Succeed
<1>. QED  BY <1>4, <1>6, <1>7, <1>8

\* The same where the last extent grows.
LEMMA AddedNextBlock ==
  ASSUME NEW p, NEW nm, NEW m, Enters(p, nm, m), AddToNextBlock(p, nm, m)
  PROVE  AddsBegun
<1>0. Sound(image) /\ p \in Inodes /\ Agrees(image, p)
  BY DEF Enters
<1>. DEFINE b == Seen!find_last_block(p) + 1
<1>1. /\ image.num_dir_entry[p] # 0 /\ image.size[p] % D = 0
      /\ b \notin DataBits(image) /\ b < NumBlocks /\ Succeed(NextList(p, nm, m, b))
  BY DEF AddToNextBlock, NextList, Longer, D, is_bit_set
<1>2. b \in Blocks
  <2>1. image.extent_num[p] > 0
    BY <1>0, <1>1, ParentCounts
  <2>2. /\ BlocksOf(image, p) \in Seq(Blocks) /\ BlocksOf(image, p) # <<>>
    BY <1>0, <2>1, SoundView
  <2>3. BlocksOf(image, p)[Len(BlocksOf(image, p))] \in Blocks
    BY <2>2
  <2>4. b = BlocksOf(image, p)[Len(BlocksOf(image, p))] + 1
    BY <1>0, <2>1, FindLastBlock
  <2>. HIDE DEF b
  <2>. QED  BY <1>1, <2>3, <2>4, DimensionsAssumption DEF Blocks
<1>3. Added(NextList(p, nm, m, b))
  BY <1>1, <1>2, AddedToNext
<1>. QED  BY <1>1, <1>3 DEF AddsBegun, Succeed

\* The same where there is a new extent.
LEMMA AddedNewExtent ==
  ASSUME NEW p, NEW nm, NEW m, Enters(p, nm, m), AddToNewExtent(p, nm, m)
  PROVE  AddsBegun
<1>0. /\ Sound(image) /\ NewInode # NotFound /\ p \in Inodes
      /\ m \in {"dir", "reg"} /\ numOfDataBlocks \in Int /\ numOfDataBlocks <= NumBlocks
  BY DEF Enters
<1>. DEFINE b == SearchBlock({})
<1>1. /\ image.num_dir_entry[p] # 0 /\ image.size[p] % D = 0
      /\ \/ FailNoSpace(TakeInode(m)) \/ Die(TakeInode(m))
         \/ /\ b # NotFound /\ image.extent_num[p] < MaxExtents
            /\ Succeed(ExtentList(p, nm, m, b))
  BY DEF AddToNewExtent, ExtentList, D
<1>2. b # NotFound => b \in Blocks /\ b \notin DataBits(image)
  <2>1. b # NotFound => b \in Blocks /\ b \notin DataBits(image) \cup {}
    BY <1>0, BlockFree
  <2>. QED  BY <2>1
<1>. HIDE DEF b
<1>3. CASE FailNoSpace(TakeInode(m)) \/ Die(TakeInode(m))
  <2>1. Added(TakeInode(m))
    BY <1>0, AddedInode
  <2>. QED  BY <1>3, <2>1 DEF AddsBegun, FailNoSpace, Die
<1>4. CASE /\ b # NotFound /\ image.extent_num[p] < MaxExtents
           /\ Succeed(ExtentList(p, nm, m, b))
  <2>1. Added(ExtentList(p, nm, m, b))
    BY <1>1, <1>2, <1>4, AddedToExtent
  <2>. QED  BY <1>4, <2>1 DEF AddsBegun, Succeed
<1>. QED  BY <1>1, <1>3, <1>4

\* The same where the last block has room.
LEMMA AddedLastBlock ==
  ASSUME NEW p, NEW nm, NEW m, Enters(p, nm, m), AddToLastBlock(p, nm, m)
  PROVE  AddsBegun
<1>. DEFINE S == TakeInode(m)
                 \o PutThenCount(p, m, Seen!find_last_block(p), image.num_dir_entry[p] % D, nm)
<1>1. image.size[p] % D # 0 /\ Succeed(S)
  BY DEF AddToLastBlock, D
<1>2. Added(S)
  BY <1>1, AddedToLast
<1>. QED  BY <1>1, <1>2 DEF AddsBegun, Succeed

\* What holds when a callback begins and the history goes on undamaged.
LEMMA RunsIn ==
  ASSUME NEW p \in Inodes, BeginsIn(p), ~astray'
  PROVE  image.inodeBit[p] /\ Agrees(image, p) /\ work = "none" /\ ~astray
<1>1. ~(astray \/ work # "none" \/ Damaged(image, p))
  BY DEF BeginsIn
<1>. QED  BY <1>1 DEF Damaged, CountsAgree, Agrees, D

\* Every mkdir and create is such a callback.
LEMMA AdditionBegun ==
  ASSUME Sound(image), numOfDataBlocks \in Int, numOfDataBlocks <= NumBlocks,
         NEW p \in Inodes, NEW nm \in Names, NEW m \in {"dir", "reg"}, AddEntry(p, nm, m),
         ~astray'
  PROVE  AddsBegun /\ UNCHANGED removals /\ work = "none"
<1>1. image.inodeBit[p] /\ Agrees(image, p) /\ work = "none" /\ UNCHANGED removals
  BY RunsIn DEF AddEntry
<1>2. \/ FailNoSpace(<<>>) \/ Die(<<>>)
      \/ /\ NewInode # NotFound
         /\ \/ AddToEmptyParent(p, nm, m) \/ AddToLastBlock(p, nm, m)
            \/ AddToNextBlock(p, nm, m) \/ AddToNewExtent(p, nm, m)
  <2>1. image.num_dir_entry[p] = 0 <=> image.extent_num[p] = 0
    BY <1>1, ParentCounts
  <2>2. ~AddToNoBlock(p, m)
    BY <2>1 DEF AddToNoBlock
  <2>. QED  BY <2>2 DEF AddEntry
<1>3. CASE FailNoSpace(<<>>) \/ Die(<<>>)
  BY <1>1, <1>3, AddedNothing DEF AddsBegun, FailNoSpace, Die
<1>4. CASE /\ NewInode # NotFound
           /\ \/ AddToEmptyParent(p, nm, m) \/ AddToLastBlock(p, nm, m)
              \/ AddToNextBlock(p, nm, m) \/ AddToNewExtent(p, nm, m)
  <2>1. Enters(p, nm, m)
    BY <1>1, <1>4 DEF Enters
  <2>. QED
    BY <1>1, <1>4, <2>1, AddedEmptyParent, AddedLastBlock, AddedNextBlock, AddedNewExtent
<1>. QED  BY <1>1, <1>2, <1>3, <1>4

=============================================================================
