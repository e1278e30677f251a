--------------------------- MODULE NamespaceTree ----------------------------
(***************************************************************************)
(* Proofs about the tree that the entries of Namespace make, for every     *)
(* value of the constants: each callback does to the tree what DirTree     *)
(* allows it to, every linked inode hangs below the root, and the link     *)
(* counts are right.  What an entry does is described here by the set of   *)
(* entries of a directory, without the slots they are kept in.  With it the*)
(* space of an image: the blocks of a directory, counted as the code counts*)
(* them, are those its entries fill, and a callback that succeeds leaks none.*)
(***************************************************************************)
EXTENDS NamespaceBlocks

-----------------------------------------------------------------------------
(* The inductive invariant, and the effects a step can have on the tree. *)

EntrySet(d) == {entries[d][k] : k \in DOMAIN entries[d]}

\* An inode that a callback may take has nothing in it.
FreeInodesEmpty == \A i \in Inodes : i \notin inodeBitmap => entries[i] = <<>>

\* No two entries of a directory have one name.
NamesDiffer ==
    \A d \in Inodes : \A e, f \in EntrySet(d) : e.name = f.name => e = f

\* What is listed is a file or a directory.
LinkedHasMode == \A i \in Inodes : Linked(i) => itable[i].mode # "none"

TreeInv ==
    /\ TypeInv
    /\ FreeInodesEmpty
    /\ NamesDiffer
    /\ itable[ROOT_INODE].mode = "dir"
    /\ LinkedHasMode

Entered(p, nm, m) ==
    /\ IsDirectory(p) /\ ~HasEntry(p, nm)
    /\ availableInodes > 0 /\ TakeInode
    /\ EnterIn(p, nm, m)
    /\ ret' = "ok"

Abandoned(m) ==
    /\ availableInodes > 0 /\ TakeInode
    /\ AbandonInode(m)
    /\ ret' \in {"ENOSPC", "none"}

Removed(p, nm, lost) ==
    /\ IsDirectory(p) /\ HasEntry(p, nm)
    /\ entries[Lookup(p, nm)] = <<>>
    /\ itable[Lookup(p, nm)].mode = IF lost = 1 THEN "dir" ELSE "reg"
    /\ RemoveEntry(p, Lookup(p, nm), {}, 0, lost)

RefusedRmdir(p, nm) ==
    /\ IsDirectory(p) /\ HasEntry(p, nm)
    /\ entries[Lookup(p, nm)] # <<>>
    /\ ret' = "ENOTEMPTY"
    /\ UNCHANGED <<allocVars, fileVars>>

NothingDone ==
    /\ ret' \in {"ENOSPC", "none", ret}
    /\ UNCHANGED <<allocVars, fileVars>>

-----------------------------------------------------------------------------
(* Entries as sets. *)

\* What Namespace says of slots, said of sets of entries, in both states of a step.
LEMMA EntriesAsSets ==
  /\ \A i \in Inodes : Linked(i) <=>
        i = ROOT_INODE \/ \E d \in Inodes : \E e \in EntrySet(d) : e.ino = i
  /\ \A d, nm : HasEntry(d, nm) <=> \E e \in EntrySet(d) : e.name = nm
  /\ ListedOnce => \A d, f \in Inodes : \A e \in EntrySet(d), g \in EntrySet(f) :
        e.ino = g.ino => d = f /\ e = g
BY DEF Linked, HasEntry, ListedOnce, EntrySet

\* The same of what is linked, after a step.
LEMMA EntriesAsSetsNext ==
  \A i \in Inodes : Linked(i)' <=>
     i = ROOT_INODE \/ \E d \in Inodes : \E e \in EntrySet(d)' : e.ino = i
BY DEF Linked, EntrySet

\* The types of entries, and what the inode invariant says of them.
LEMMA EntrySetTypes ==
  ASSUME InodeInv, NEW d \in Inodes
  PROVE  /\ EntrySet(d) \subseteq Dentry
         /\ entries[d] = <<>> <=> EntrySet(d) = {}
         /\ \A e \in EntrySet(d) : e.ino \in inodeBitmap /\ e.ino # ROOT_INODE
<1>1. /\ entries[d] \in Seq(Dentry) /\ Len(entries[d]) \in Nat
      /\ DOMAIN entries[d] = 1 .. Len(entries[d])
      /\ \A k \in DOMAIN entries[d] : entries[d][k] \in Dentry
  BY LenProperties, ElementOfSeq DEF InodeInv, InodeTypes
<1>2. entries[d] = <<>> <=> EntrySet(d) = {}
  <2>1. entries[d] = <<>> <=> Len(entries[d]) = 0
    BY <1>1, EmptySeq
  <2>2. Len(entries[d]) = 0 => DOMAIN entries[d] = {}
    BY <1>1
  <2>3. Len(entries[d]) # 0 => 1 \in DOMAIN entries[d]
    BY <1>1
  <2>. QED  BY <2>1, <2>2, <2>3 DEF EntrySet
<1>3. EntrySet(d) \subseteq Dentry
  BY <1>1 DEF EntrySet
<1>4. ASSUME NEW e \in EntrySet(d)
      PROVE  e.ino \in inodeBitmap /\ e.ino # ROOT_INODE
  <2>1. e.ino \in Inodes
    BY <1>3 DEF Dentry
  <2>2. Linked(e.ino)
    BY <2>1, EntriesAsSets
  <2>3. e.ino # ROOT_INODE
    BY DEF InodeInv, RootUnlisted, EntrySet
  <2>. QED  BY <2>1, <2>2, <2>3 DEF InodeInv, LinkedAllocated
<1>. QED  BY <1>2, <1>3, <1>4

\* The directory operations leave files empty, so unlink has no blocks of a file to
\* give back.
LEMMA UnlinkRemoves ==
  ASSUME TypeInv, NEW p \in Inodes, NEW nm \in Names, Unlink(p, nm)
  PROVE  Removed(p, nm, 0)
<1>. DEFINE t == Lookup(p, nm)
<1>1. /\ IsDirectory(p) /\ HasEntry(p, nm) /\ itable[t].mode = "reg"
      /\ itable[t].size = 0 => RemoveEntry(p, t, {}, 0, 0)
  BY DEF Unlink
<1>2. t \in Inodes
  <2>1. entries[p] \in Seq(Dentry)
    BY DEF TypeInv, InodeInv, InodeTypes
  <2>2. PICK k \in DOMAIN entries[p] : entries[p][k].ino = t
    BY <1>1, <2>1, LookupFinds
  <2>3. entries[p][k] \in Dentry
    BY <2>1, <2>2, LenProperties, ElementOfSeq
  <2>. QED  BY <2>2, <2>3 DEF Dentry
<1>3. entries[t] = <<>> /\ itable[t].size = 0
  BY <1>1, <1>2 DEF TypeInv, TableInv, OnlyDirectoriesHoldEntries, FilesEmpty
<1>. QED  BY <1>1, <1>3 DEF Removed

\* Each step has one of the five effects.
LEMMA StepEffects ==
  ASSUME TypeInv, [Next]_vars
  PROVE  \/ \E p \in Inodes, nm \in Names, m \in {"dir", "reg"} : Entered(p, nm, m)
         \/ \E m \in {"dir", "reg"} : Abandoned(m)
         \/ \E p \in Inodes, nm \in Names, lost \in {0, 1} : Removed(p, nm, lost)
         \/ \E p \in Inodes, nm \in Names : RefusedRmdir(p, nm)
         \/ NothingDone
<1>1. ASSUME NEW p \in Inodes, NEW nm \in Names, NEW m \in {"dir", "reg"},
             AddEntry(p, nm, m)
      PROVE  Entered(p, nm, m) \/ Abandoned(m) \/ NothingDone
  <2>1. CASE ret' = "ENOSPC" /\ UNCHANGED <<allocVars, fileVars, status>>
    BY <2>1 DEF NothingDone
  <2>2. CASE /\ availableInodes > 0 /\ TakeInode
             /\ \/ AddToEmptyParent(p, nm, m) \/ AddToLastBlock(p, nm, m)
                \/ AddToNextBlock(p, nm, m) \/ AddToNewExtent(p, nm, m)
    <3>1. \/ EnterIn(p, nm, m) /\ ret' = "ok"
          \/ AbandonInode(m) /\ ret' \in {"ENOSPC", "none"}
      BY <2>2 DEF AddToEmptyParent, AddToLastBlock, AddToNextBlock, AddToNewExtent,
                  FailNoSpace, Die, Succeed, Overrun
    <3>. QED  BY <1>1, <2>2, <3>1 DEF Entered, Abandoned, AddEntry
  <2>. QED  BY <1>1, <2>1, <2>2 DEF AddEntry
<1>2. ASSUME NEW p \in Inodes, NEW nm \in Names, Rmdir(p, nm)
      PROVE  Removed(p, nm, 1) \/ RefusedRmdir(p, nm)
  BY <1>2 DEF Rmdir, Removed, RefusedRmdir
<1>3. ASSUME NEW p \in Inodes, NEW nm \in Names, Unlink(p, nm)
      PROVE  Removed(p, nm, 0)
  BY <1>3, UnlinkRemoves
<1>4. CASE Mount
  BY <1>4 DEF Mount, NothingDone
<1>5. CASE UNCHANGED vars
  BY <1>5 DEF vars, NothingDone
<1>6. CASE Callback
  <2>1. CASE \E p \in Inodes, nm \in Names : Mkdir(p, nm)
    BY <1>1, <2>1 DEF Mkdir
  <2>2. CASE \E p \in Inodes, nm \in Names : Create(p, nm)
    BY <1>1, <2>2 DEF Create
  <2>3. CASE \E p \in Inodes, nm \in Names : Rmdir(p, nm)
    BY <1>2, <2>3
  <2>4. CASE \E p \in Inodes, nm \in Names : Unlink(p, nm)
    BY <1>3, <2>4
  <2>. QED  BY <1>6, <2>1, <2>2, <2>3, <2>4 DEF Callback
<1>. QED  BY <1>4, <1>5, <1>6 DEF Next

-----------------------------------------------------------------------------
(* What the effects change, entry by entry. *)

\* Entry e for a new inode of mode m joins p.
EntryAdded(p, e, m) ==
    /\ e.ino # p /\ e \in Dentry
    /\ inodeBitmap' = inodeBitmap \cup {e.ino}
    /\ EntrySet(p)' = EntrySet(p) \cup {e}
    /\ \A d \in Inodes \ {p} : entries'[d] = entries[d] /\ EntrySet(d)' = EntrySet(d)
    /\ itable'[e.ino] = FreshInode(m)
    /\ itable'[p] = [itable[p] EXCEPT !.links = IF m = "dir" THEN @ + 1 ELSE @]
    /\ \A i \in Inodes \ {p, e.ino} : itable'[i] = itable[i]

\* Entry e leaves p, and its inode, which has no entries, is freed.
EntryDropped(p, e, lost) ==
    /\ e.ino \in Inodes /\ e.ino # p /\ e.ino # ROOT_INODE /\ EntrySet(e.ino) = {}
    /\ inodeBitmap' = inodeBitmap \ {e.ino}
    /\ e \in EntrySet(p) /\ EntrySet(p)' = EntrySet(p) \ {e}
    /\ \A d \in Inodes \ {p} : entries'[d] = entries[d] /\ EntrySet(d)' = EntrySet(d)
    /\ itable'[e.ino].mode = "none"
    /\ itable'[p] = [itable[p] EXCEPT
                       !.links = IF Len(entries[p]) = 1 THEN 2 ELSE @ - lost]
    /\ \A i \in Inodes \ {p, e.ino} : itable'[i] = itable[i]

\* The inode a callback takes is in nobody's hands.
LEMMA NewInodeFresh ==
  ASSUME TreeInv, availableInodes > 0
  PROVE  /\ NewInode \in Inodes /\ NewInode \notin inodeBitmap
         /\ ~Linked(NewInode) /\ NewInode # ROOT_INODE
         /\ entries[NewInode] = <<>> /\ EntrySet(NewInode) = {}
<1>1. NewInode \in Inodes /\ NewInode \notin inodeBitmap
  BY NewInodeIsFree DEF TreeInv, TypeInv
<1>2. ~Linked(NewInode) /\ NewInode # ROOT_INODE
  BY <1>1 DEF TreeInv, TypeInv, InodeInv, LinkedAllocated, Linked
<1>3. entries[NewInode] = <<>>
  BY <1>1 DEF TreeInv, FreeInodesEmpty
<1>. QED  BY <1>1, <1>2, <1>3, EntrySetTypes DEF TreeInv, TypeInv

\* An addition: one entry more, for an inode that had none.
LEMMA EnteredEffect ==
  ASSUME TreeInv, NEW p \in Inodes, NEW nm \in Names, NEW m \in {"dir", "reg"},
         Entered(p, nm, m)
  PROVE  EntryAdded(p, [name |-> nm, ino |-> NewInode], m)
<1>. DEFINE new == NewInode
            e   == [name |-> nm, ino |-> new]
            n   == Len(entries[p])
<1>1. /\ new \in Inodes /\ ~Linked(new) /\ entries[new] = <<>>
      /\ Linked(p) /\ EnterIn(p, nm, m) /\ TakeInode
  BY NewInodeFresh DEF Entered, IsDirectory
<1>2. new # p
  BY <1>1
<1>3. entries' = [entries EXCEPT ![new] = <<>>, ![p] = Append(@, e)]
  BY <1>1 DEF EnterIn
<1>4. itable' = [itable EXCEPT ![new] = FreshInode(m),
                               ![p].links = IF m = "dir" THEN @ + 1 ELSE @]
  BY <1>1 DEF EnterIn
<1>5. inodeBitmap' = inodeBitmap \cup {new}
  BY <1>1 DEF TakeInode, set_bitmap
<1>6. e \in Dentry
  BY <1>1 DEF Dentry
<1>. HIDE DEF new, e
<1>7. /\ entries'[p] = Append(entries[p], e)
      /\ \A d \in Inodes \ {p} : entries'[d] = entries[d]
  BY <1>1, <1>2, <1>3 DEF TreeInv, TypeInv, InodeInv, InodeTypes
<1>8. EntrySet(p)' = EntrySet(p) \cup {e}
  <2>1. /\ entries[p] \in Seq(Dentry) /\ n \in Nat
        /\ DOMAIN entries[p] = 1 .. n
    BY LenProperties DEF TreeInv, TypeInv, InodeInv, InodeTypes
  <2>2. /\ DOMAIN Append(entries[p], e) = 1 .. n + 1
        /\ \A k \in 1 .. n : Append(entries[p], e)[k] = entries[p][k]
        /\ Append(entries[p], e)[n + 1] = e
    BY <1>6, <2>1, AppendProperties, LenProperties
  <2>3. 1 .. n + 1 = (1 .. n) \cup {n + 1}
    BY <2>1
  <2>. HIDE DEF n
  <2>. QED  BY <1>7, <2>1, <2>2, <2>3 DEF EntrySet
<1>9. \A d \in Inodes \ {p} : EntrySet(d)' = EntrySet(d)
  BY <1>7 DEF EntrySet
<1>10. /\ itable'[new] = FreshInode(m)
       /\ itable'[p] = [itable[p] EXCEPT !.links = IF m = "dir" THEN @ + 1 ELSE @]
       /\ \A i \in Inodes \ {p, new} : itable'[i] = itable[i]
  BY <1>1, <1>2, <1>4 DEF TreeInv, TypeInv, TableInv
<1>11. e.ino = new /\ e.name = nm
  BY DEF e
<1>. QED  BY <1>2, <1>5, <1>6, <1>7, <1>8, <1>9, <1>10, <1>11 DEF EntryAdded, new, e

\* An inode abandoned: it had no entries, so no directory changes.
LEMMA AbandonedEffect ==
  ASSUME TreeInv, NEW m \in {"dir", "reg"}, Abandoned(m)
  PROVE  /\ inodeBitmap' = inodeBitmap \cup {NewInode}
         /\ entries' = entries
         /\ \A d \in Inodes : EntrySet(d)' = EntrySet(d)
         /\ \A i \in Inodes \ {NewInode} : itable'[i] = itable[i]
<1>. DEFINE new == NewInode
<1>1. new \in Inodes /\ entries[new] = <<>> /\ TakeInode /\ AbandonInode(m)
  BY NewInodeFresh DEF Abandoned
<1>2. /\ entries' = [entries EXCEPT ![new] = <<>>]
      /\ itable' = [itable EXCEPT ![new] = FreshInode(m)]
      /\ inodeBitmap' = inodeBitmap \cup {new}
  BY <1>1 DEF AbandonInode, TakeInode, set_bitmap
<1>. HIDE DEF new
<1>3. entries' = entries
  BY <1>1, <1>2 DEF TreeInv, TypeInv, InodeInv, InodeTypes
<1>4. \A i \in Inodes \ {new} : itable'[i] = itable[i]
  BY <1>1, <1>2 DEF TreeInv, TypeInv, TableInv
<1>. QED  BY <1>2, <1>3, <1>4 DEF EntrySet, new

\* The entry that a removal is about, and its inode.
LEMMA RemovedEntry ==
  ASSUME TreeInv, NEW p \in Inodes, NEW nm \in Names, HasEntry(p, nm)
  PROVE  LET t == Lookup(p, nm)
         IN  /\ t \in Inodes /\ t # ROOT_INODE /\ Linked(t)
             /\ [name |-> nm, ino |-> t] \in EntrySet(p)
             /\ entries[t] = <<>> => t # p
<1>. DEFINE es == entries[p]
            t  == Lookup(p, nm)
            First(j) == es[j].name = nm /\ \A l \in 1 .. j - 1 : es[l].name # nm
            T == {j \in DOMAIN es : es[j].name = nm}
<1>1. /\ es \in Seq(Dentry) /\ Len(es) \in Nat /\ DOMAIN es = 1 .. Len(es)
      /\ \A j \in DOMAIN es : es[j] \in Dentry
  BY LenProperties, ElementOfSeq DEF TreeInv, TypeInv, InodeInv, InodeTypes
<1>2. T \in SUBSET Nat /\ T # {}
  BY <1>1 DEF HasEntry
<1>3. PICK m \in T : \A j \in T : m <= j
  BY <1>2, LeastElement
<1>4. m \in DOMAIN es /\ First(m)
  BY <1>1, <1>3
<1>. DEFINE k == CHOOSE j \in DOMAIN es : First(j)
<1>5. k \in DOMAIN es /\ es[k].name = nm
  BY <1>4
<1>6. t = es[k].ino
  BY DEF Lookup
<1>7. es[k] = [name |-> nm, ino |-> t] /\ es[k] \in EntrySet(p)
  <2>. HIDE DEF k, t
  <2>1. es[k] \in Dentry
    BY <1>1, <1>5
  <2>. QED  BY <1>5, <1>6, <2>1 DEF Dentry, EntrySet
<1>. HIDE DEF k, t
<1>8. t \in Inodes /\ t # ROOT_INODE
  BY <1>1, <1>5, <1>6, <1>7, EntrySetTypes DEF Dentry, TreeInv, TypeInv
<1>9. Linked(t)
  BY <1>6, <1>7, <1>8, EntriesAsSets
<1>10. entries[t] = <<>> => t # p
  BY <1>7, EntrySetTypes DEF TreeInv, TypeInv
<1>. QED  BY <1>7, <1>8, <1>9, <1>10 DEF t

\* A removal: every entry stays but the one for the freed inode.
LEMMA RemovedEffect ==
  ASSUME TreeInv, NEW p \in Inodes, NEW nm \in Names, NEW lost \in {0, 1},
         Removed(p, nm, lost)
  PROVE  EntryDropped(p, [name |-> nm, ino |-> Lookup(p, nm)], lost)
<1>. DEFINE t  == Lookup(p, nm)
            e  == [name |-> nm, ino |-> t]
            es == entries[p]
            n  == Len(es)
            r  == WithoutEntry(es, t)
<1>1. /\ HasEntry(p, nm) /\ entries[t] = <<>> /\ RemoveEntry(p, t, {}, 0, lost)
  BY DEF Removed
<1>2. /\ t \in Inodes /\ t # ROOT_INODE /\ Linked(t) /\ e \in EntrySet(p) /\ t # p
  BY <1>1, RemovedEntry
<1>3. /\ entries' = [entries EXCEPT ![p] = r]
      /\ itable' = [itable EXCEPT
                      ![t] = [mode |-> "none", links |-> 0, size |-> 0],
                      ![p].links = IF Len(entries[p]) = 1 THEN 2 ELSE @ - lost]
      /\ inodeBitmap' = inodeBitmap \ {t}
  BY <1>1 DEF RemoveEntry, unset_bitmap
<1>. HIDE DEF t
<1>4. /\ entries'[p] = r
      /\ \A d \in Inodes \ {p} : entries'[d] = entries[d]
  BY <1>3 DEF TreeInv, TypeInv, InodeInv, InodeTypes
<1>5. /\ es \in Seq(Dentry) /\ n \in Nat /\ DOMAIN es = 1 .. n
      /\ \A i, j \in DOMAIN es : es[i].ino = es[j].ino => i = j
  BY LenProperties DEF TreeInv, TypeInv, InodeInv, InodeTypes, ListedOnce
<1>6. PICK k \in DOMAIN es : es[k] = e
  BY <1>2 DEF EntrySet
<1>7. es[k].ino = t
  BY <1>6
<1>8. /\ DOMAIN r = 1 .. n - 1
      /\ \A j \in 1 .. n - 1 : r[j] = es[IF j = k THEN n ELSE j]
  <2>1. /\ es \in Seq(Dentry) /\ k \in DOMAIN es /\ es[k].ino = t
        /\ \A i, j \in DOMAIN es : es[i].ino = es[j].ino => i = j
    BY <1>5, <1>7
  <2>. HIDE DEF es, r, e
  <2>2. /\ WithoutEntry(es, t) \in Seq(Dentry)
        /\ Len(WithoutEntry(es, t)) = Len(es) - 1
        /\ \A j \in DOMAIN WithoutEntry(es, t) :
              WithoutEntry(es, t)[j] = es[IF j = k THEN Len(es) ELSE j]
    BY <2>1, RemovalKeepsTheRest
  <2>3. DOMAIN WithoutEntry(es, t) = 1 .. Len(es) - 1
    BY <2>2, LenProperties
  <2>. QED  BY <2>2, <2>3 DEF r
<1>9. EntrySet(p)' = EntrySet(p) \ {e}
  <2>1. EntrySet(p)' = {r[j] : j \in 1 .. n - 1}
    BY <1>4, <1>8 DEF EntrySet
  <2>2. EntrySet(p) = {es[j] : j \in 1 .. n}
    BY <1>5 DEF EntrySet
  <2>. HIDE DEF r, es, n
  <2>3. \A i, j \in 1 .. n : es[i] = es[j] => i = j
    BY <1>5
  <2>4. ASSUME NEW j \in 1 .. n - 1
        PROVE  r[j] \in EntrySet(p) \ {e}
    <3>1. (IF j = k THEN n ELSE j) \in 1 .. n /\ (IF j = k THEN n ELSE j) # k
      BY <1>5
    <3>. QED  BY <1>5, <1>6, <1>8, <2>2, <2>3, <3>1
  <2>5. ASSUME NEW i \in 1 .. n, es[i] # e
        PROVE  \E j \in 1 .. n - 1 : r[j] = es[i]
    <3>1. CASE i = n
      <4>1. k \in 1 .. n - 1
        BY <1>5, <1>6, <2>5, <3>1
      <4>. QED  BY <1>8, <3>1, <4>1
    <3>2. CASE i # n
      <4>1. i \in 1 .. n - 1 /\ i # k
        BY <1>5, <1>6, <2>5, <3>2
      <4>. QED  BY <1>8, <4>1
    <3>. QED  BY <3>1, <3>2
  <2>6. EntrySet(p)' \subseteq EntrySet(p) \ {e}
    BY <2>1, <2>4
  <2>7. EntrySet(p) \ {e} \subseteq EntrySet(p)'
    BY <2>1, <2>2, <2>5
  <2>. QED  BY <2>6, <2>7
<1>10. \A d \in Inodes \ {p} : EntrySet(d)' = EntrySet(d)
  BY <1>4 DEF EntrySet
<1>11. /\ itable'[t].mode = "none"
       /\ itable'[p] = [itable[p] EXCEPT !.links = IF n = 1 THEN 2 ELSE @ - lost]
       /\ \A i \in Inodes \ {p, t} : itable'[i] = itable[i]
  BY <1>2, <1>3 DEF TreeInv, TypeInv, TableInv
<1>12. EntrySet(t) = {}
  BY <1>1, <1>2, EntrySetTypes DEF t, TreeInv, TypeInv
<1>13. e.ino = t
  OBVIOUS
<1>. HIDE DEF e
<1>. QED  BY <1>2, <1>3, <1>4, <1>9, <1>10, <1>11, <1>12, <1>13 DEF EntryDropped, t, e

-----------------------------------------------------------------------------
(* The invariant is inductive. *)

\* mkfs leaves no entries, and a root that is a directory.
LEMMA InitTreeInv == Init => TreeInv
<1>. SUFFICES ASSUME Init PROVE TreeInv
  OBVIOUS
<1>1. TypeInv
  BY InitTypeInv
<1>2. \A d \in Inodes : entries[d] = <<>> /\ DOMAIN entries[d] = {} /\ EntrySet(d) = {}
  BY DEF Init, Formatted, EntrySet
<1>3. ROOT_INODE \in Inodes /\ itable[ROOT_INODE].mode = "dir"
  BY NumInodesAssumption DEF Inodes, ROOT_INODE, Init, Formatted, FreshInode
<1>4. LinkedHasMode
  BY <1>2, <1>3 DEF LinkedHasMode, Linked
<1>. QED  BY <1>1, <1>2, <1>3, <1>4 DEF TreeInv, FreeInodesEmpty, NamesDiffer

\* The new entry has a name that p did not have.
LEMMA EnteredKeepsTreeInv ==
  ASSUME TreeInv, TypeInv',
         NEW p \in Inodes, NEW nm \in Names, NEW m \in {"dir", "reg"}, Entered(p, nm, m)
  PROVE  TreeInv'
<1>. DEFINE new == NewInode
            e   == [name |-> nm, ino |-> new]
<1>1. EntryAdded(p, e, m)
  BY EnteredEffect
<1>2. new \in Inodes /\ new # ROOT_INODE /\ e.name = nm /\ e.ino = new
  BY NewInodeFresh DEF Entered
<1>. HIDE DEF new, e
<1>. USE DEF EntryAdded
<1>3. itable'[p].mode = itable[p].mode /\ itable'[new].mode = m
  BY <1>1, <1>2 DEF FreshInode, TreeInv, TypeInv, TableInv, Inode
<1>4. p \in inodeBitmap /\ Linked(p) /\ ~HasEntry(p, nm)
  BY DEF Entered, IsDirectory, TreeInv, TypeInv, InodeInv, LinkedAllocated
<1>5. FreeInodesEmpty'
  BY <1>1, <1>4 DEF TreeInv, FreeInodesEmpty
<1>6. NamesDiffer'
  <2>1. \A f \in EntrySet(p) : f.name # nm
    BY <1>4, EntriesAsSets
  <2>2. \A f, g \in EntrySet(p)' : f.name = g.name => f = g
    BY <1>1, <1>2, <2>1 DEF TreeInv, NamesDiffer
  <2>. QED  BY <1>1, <2>2 DEF TreeInv, NamesDiffer
<1>7. itable'[ROOT_INODE].mode = "dir"
  <2>1. ROOT_INODE \in Inodes
    BY NumInodesAssumption DEF Inodes, ROOT_INODE
  <2>. QED  BY <1>1, <1>2, <1>3, <2>1 DEF TreeInv
<1>8. LinkedHasMode'
  <2>. SUFFICES ASSUME NEW i \in Inodes, Linked(i)' PROVE itable'[i].mode # "none"
    BY DEF LinkedHasMode
  <2>1. CASE i = new
    BY <1>3, <2>1
  <2>2. CASE i # new
    <3>1. Linked(i)
      BY <1>1, <1>2, <2>2, EntriesAsSets, EntriesAsSetsNext
    <3>. QED  BY <1>1, <1>2, <1>3, <2>2, <3>1 DEF TreeInv, LinkedHasMode
  <2>. QED  BY <2>1, <2>2
<1>. QED  BY <1>5, <1>6, <1>7, <1>8 DEF TreeInv

\* The abandoned inode stays unlinked.
LEMMA AbandonedKeepsTreeInv ==
  ASSUME TreeInv, TypeInv', NEW m \in {"dir", "reg"}, Abandoned(m)
  PROVE  TreeInv'
<1>1. /\ inodeBitmap' = inodeBitmap \cup {NewInode}
      /\ entries' = entries
      /\ \A d \in Inodes : EntrySet(d)' = EntrySet(d)
      /\ \A i \in Inodes \ {NewInode} : itable'[i] = itable[i]
  BY AbandonedEffect
<1>2. NewInode \in Inodes /\ ~Linked(NewInode) /\ NewInode # ROOT_INODE
  BY NewInodeFresh DEF Abandoned
<1>3. FreeInodesEmpty' /\ NamesDiffer'
  BY <1>1 DEF TreeInv, FreeInodesEmpty, NamesDiffer
<1>4. itable'[ROOT_INODE].mode = "dir"
  BY <1>1, <1>2, NumInodesAssumption DEF TreeInv, Inodes, ROOT_INODE
<1>5. LinkedHasMode'
  BY <1>1, <1>2 DEF TreeInv, LinkedHasMode, Linked
<1>. QED  BY <1>3, <1>4, <1>5 DEF TreeInv

\* The freed inode has no entries, and none names it.
LEMMA RemovedKeepsTreeInv ==
  ASSUME TreeInv, TypeInv',
         NEW p \in Inodes, NEW nm \in Names, NEW lost \in {0, 1}, Removed(p, nm, lost)
  PROVE  TreeInv'
<1>. DEFINE t == Lookup(p, nm)
            e == [name |-> nm, ino |-> t]
<1>1. EntryDropped(p, e, lost)
  BY RemovedEffect
<1>2. e.ino = t
  OBVIOUS
<1>3. entries[t] = <<>> /\ p \in inodeBitmap
  BY DEF Removed, IsDirectory, TreeInv, TypeInv, InodeInv, LinkedAllocated
<1>. HIDE DEF t, e
<1>. USE DEF EntryDropped
<1>4. itable'[p].mode = itable[p].mode
  BY <1>1, <1>2 DEF TreeInv, TypeInv, TableInv, Inode
<1>5. FreeInodesEmpty'
  BY <1>1, <1>2, <1>3 DEF TreeInv, FreeInodesEmpty
<1>6. NamesDiffer'
  BY <1>1 DEF TreeInv, NamesDiffer
<1>7. itable'[ROOT_INODE].mode = "dir"
  <2>1. ROOT_INODE \in Inodes
    BY NumInodesAssumption DEF Inodes, ROOT_INODE
  <2>. QED  BY <1>1, <1>2, <1>4, <2>1 DEF TreeInv
<1>8. LinkedHasMode'
  <2>. SUFFICES ASSUME NEW i \in Inodes, Linked(i)' PROVE itable'[i].mode # "none"
    BY DEF LinkedHasMode
  <2>1. Linked(i)
    BY <1>1, EntriesAsSets, EntriesAsSetsNext
  <2>2. i # t
    <3>1. \A d \in Inodes : \A g \in EntrySet(d) : g.ino = t => d = p /\ g = e
      BY <1>1, <1>2, EntriesAsSets DEF TreeInv, TypeInv, InodeInv
    <3>. QED  BY <1>1, <1>2, <3>1, EntriesAsSetsNext
  <2>. QED  BY <1>1, <1>2, <1>4, <2>1, <2>2 DEF TreeInv, LinkedHasMode
<1>. QED  BY <1>5, <1>6, <1>7, <1>8 DEF TreeInv

\* Every callback, mount and death keeps TreeInv: a new name was looked up and not
\* found, a new inode was free and so empty, and what loses its entry is unlinked.
LEMMA NextKeepsTreeInv == TreeInv /\ [Next]_vars => TreeInv'
<1>. SUFFICES ASSUME TreeInv, [Next]_vars PROVE TreeInv'
  OBVIOUS
<1>1. TypeInv'
  BY NextKeepsTypeInv DEF TreeInv
<1>2. ASSUME UNCHANGED <<allocVars, fileVars>>
      PROVE  TreeInv'
  BY <1>1, <1>2 DEF TreeInv, FreeInodesEmpty, NamesDiffer, EntrySet, LinkedHasMode, Linked,
                    allocVars, fileVars
<1>3. CASE NothingDone
  BY <1>2, <1>3 DEF NothingDone
<1>4. ASSUME NEW p \in Inodes, NEW nm \in Names, RefusedRmdir(p, nm)
      PROVE  TreeInv'
  BY <1>2, <1>4 DEF RefusedRmdir
<1>. QED
  BY <1>1, <1>3, <1>4, StepEffects, EnteredKeepsTreeInv, AbandonedKeepsTreeInv,
     RemovedKeepsTreeInv DEF TreeInv

\* In every reachable state a name is used once in a directory, what is listed is
\* a file or a directory, and an inode that is free has no entries of its own.
THEOREM TreeInvariant == Spec => []TreeInv
<1>. QED  BY InitTreeInv, NextKeepsTreeInv, PTL DEF Spec

-----------------------------------------------------------------------------
(* Each callback does what DirTree lets it do. *)

Node(d, e) == [parent |-> d, name |-> e.name, ino |-> e.ino, mode |-> itable[e.ino].mode]

\* The abstract tree has one node for each entry of each directory.
LEMMA TreeNodes ==
  \A x : x \in TreeOf <=> \E d \in Inodes : \E e \in EntrySet(d) : x = Node(d, e)
BY DEF TreeOf, EntrySet, Node

\* The same after a step.
LEMMA TreeNodesNext ==
  \A x : x \in TreeOf' <=> \E d \in Inodes : \E e \in EntrySet(d)' : x = Node(d, e)'
BY DEF TreeOf, EntrySet, Node

\* The nodes below d in the abstract tree are the entries of d.
LEMMA NodesOfDirectory ==
  \A d \in Inodes : Tree!EntriesOf(d) = {Node(d, e) : e \in EntrySet(d)}
BY TreeNodes DEF Tree!EntriesOf, Node

\* The abstract tree knows the same inodes and the same directories.
LEMMA TreeAgrees ==
  ASSUME TreeInv
  PROVE  /\ \A i \in Inodes : Linked(i) <=> i \in Tree!Used
         /\ \A i \in Inodes : IsDirectory(i) => i \in Tree!Directories
<1>1. \A i \in Inodes : Linked(i) <=> i \in Tree!Used
  <2>1. \A d, e : Node(d, e).ino = e.ino
    BY DEF Node
  <2>. HIDE DEF Node
  <2>2. \A i : (\E x \in TreeOf : x.ino = i)
                  <=> \E d \in Inodes : \E e \in EntrySet(d) : e.ino = i
    BY <2>1, TreeNodes
  <2>3. \A i : i \in Tree!Used <=> i = ROOT_INODE \/ \E x \in TreeOf : x.ino = i
    BY DEF Tree!Used
  <2>. QED  BY <2>2, <2>3, EntriesAsSets
<1>2. ASSUME NEW i \in Inodes, IsDirectory(i), i # ROOT_INODE
      PROVE  i \in Tree!Directories
  <2>1. PICK d \in Inodes : \E e \in EntrySet(d) : e.ino = i
    BY <1>2, EntriesAsSets DEF IsDirectory
  <2>2. PICK e \in EntrySet(d) : e.ino = i
    BY <2>1
  <2>3. /\ Node(d, e) \in TreeOf /\ Node(d, e).ino = i
        /\ Node(d, e).mode = "dir"
    BY <1>2, <2>2, TreeNodes DEF Node, IsDirectory
  <2>. HIDE DEF Node
  <2>. QED  BY <2>3 DEF Tree!Directories
<1>. QED  BY <1>1, <1>2 DEF Tree!Directories

\* An addition gives the tree its node and disturbs no other.
LEMMA EnteredIsAdd ==
  ASSUME TreeInv, NEW p \in Inodes, NEW nm \in Names, NEW m \in {"dir", "reg"},
         Entered(p, nm, m)
  PROVE  Tree!Add(p, nm, m)
<1>. DEFINE new == NewInode
            e   == [name |-> nm, ino |-> new]
            x   == [parent |-> p, name |-> nm, ino |-> new, mode |-> m]
<1>1. EntryAdded(p, e, m)
  BY EnteredEffect
<1>2. new \in Inodes /\ ~Linked(new) /\ e.name = nm /\ e.ino = new
  BY NewInodeFresh DEF Entered
<1>3. IsDirectory(p) /\ ~HasEntry(p, nm) /\ ret' = "ok"
  BY DEF Entered
<1>. HIDE DEF new, e
<1>. USE DEF EntryAdded
<1>4. p \in Tree!Directories /\ new \notin Tree!Used
  BY <1>2, <1>3, TreeAgrees
<1>5. \A f \in Tree!EntriesOf(p) : f.name # nm
  BY <1>3, EntriesAsSets, NodesOfDirectory DEF Node
<1>6. ASSUME NEW d \in Inodes, NEW f \in EntrySet(d)
      PROVE  Node(d, f)' = Node(d, f)
  <2>1. f.ino \in Inodes /\ Linked(f.ino)
    BY EntrySetTypes, EntriesAsSets DEF TreeInv, TypeInv, Dentry
  <2>2. itable'[p].mode = itable[p].mode
    BY <1>1 DEF TreeInv, TypeInv, TableInv, Inode
  <2>3. itable'[f.ino].mode = itable[f.ino].mode
    BY <1>1, <1>2, <2>1, <2>2
  <2>. QED  BY <2>3 DEF Node
<1>7. ASSUME NEW f, f = e
      PROVE  Node(p, f)' = x
  BY <1>1, <1>2, <1>7 DEF Node, FreshInode
<1>. HIDE DEF x
<1>8. TreeOf' = TreeOf \cup {x}
  <2>1. \A y : y \in TreeOf' <=> y \in TreeOf \/ y = x
    <3>1. \A d \in Inodes : \A f : f \in EntrySet(d)' <=>
             f \in EntrySet(d) \/ (d = p /\ f = e)
      BY <1>1
    <3>. QED  BY <1>6, <1>7, <3>1, TreeNodes, TreeNodesNext
  <2>. QED  BY <2>1
<1>. QED  BY <1>2, <1>3, <1>4, <1>5, <1>8 DEF Tree!Add, x

\* A removal takes one node away, that of an inode with no entries.
LEMMA RemovedIsRemove ==
  ASSUME TreeInv,
         NEW p \in Inodes, NEW nm \in Names, NEW lost \in {0, 1}, Removed(p, nm, lost)
  PROVE  \E x \in TreeOf : Tree!Remove(x)
<1>. DEFINE t == Lookup(p, nm)
            e == [name |-> nm, ino |-> t]
            x == Node(p, e)
<1>1. EntryDropped(p, e, lost)
  BY RemovedEffect
<1>2. e.ino = t /\ ret' = "ok"
  BY DEF Removed, RemoveEntry
<1>. HIDE DEF t, e
<1>. USE DEF EntryDropped
<1>3. x \in TreeOf /\ x.ino = t
  BY <1>1, <1>2, TreeNodes DEF Node
<1>4. Tree!EntriesOf(x.ino) = {}
  BY <1>1, <1>2, <1>3, NodesOfDirectory
<1>5. ASSUME NEW d \in Inodes, NEW f \in EntrySet(d)'
      PROVE  /\ f \in EntrySet(d) /\ Node(d, f)' = Node(d, f) /\ Node(d, f) # x
  <2>1. f \in EntrySet(d) /\ ~(d = p /\ f = e)
    BY <1>1
  <2>2. f.ino \in Inodes
    BY <2>1, EntrySetTypes DEF TreeInv, TypeInv, Dentry
  <2>3. f.ino # t
    BY <1>1, <1>2, <2>1, EntriesAsSets DEF TreeInv, TypeInv, InodeInv
  <2>4. itable'[p].mode = itable[p].mode
    BY <1>1 DEF TreeInv, TypeInv, TableInv, Inode
  <2>5. itable'[f.ino].mode = itable[f.ino].mode
    BY <1>1, <1>2, <2>2, <2>3, <2>4
  <2>. QED  BY <1>2, <2>1, <2>3, <2>5 DEF Node
<1>6. ASSUME NEW d \in Inodes, NEW f \in EntrySet(d), f \notin EntrySet(d)'
      PROVE  Node(d, f) = x
  BY <1>1, <1>6
<1>. HIDE DEF x
<1>7. TreeOf' = TreeOf \ {x}
  <2>1. \A y : y \in TreeOf' <=> y \in TreeOf /\ y # x
    BY <1>5, <1>6, TreeNodes, TreeNodesNext
  <2>. QED  BY <2>1
<1>. QED  BY <1>2, <1>3, <1>4, <1>7 DEF Tree!Remove

\* A refused rmdir found entries in the directory it was asked to remove.
LEMMA RefusedIsRefused ==
  ASSUME TreeInv, NEW p \in Inodes, NEW nm \in Names, RefusedRmdir(p, nm)
  PROVE  \E x \in TreeOf : Tree!RefuseRmdir(x)
<1>. DEFINE t == Lookup(p, nm)
            e == [name |-> nm, ino |-> t]
            x == Node(p, e)
<1>1. t \in Inodes /\ e \in EntrySet(p)
  BY RemovedEntry DEF RefusedRmdir
<1>2. entries[t] # <<>> /\ ret' = "ENOTEMPTY" /\ UNCHANGED <<allocVars, fileVars>>
  BY DEF RefusedRmdir
<1>3. x \in TreeOf /\ x.ino = t
  BY <1>1, TreeNodes DEF Node
<1>. HIDE DEF t, e, x
<1>4. Tree!EntriesOf(x.ino) # {}
  <2>1. EntrySet(t) # {}
    BY <1>1, <1>2, EntrySetTypes DEF TreeInv, TypeInv
  <2>. QED  BY <1>1, <1>3, <2>1, NodesOfDirectory
<1>5. UNCHANGED TreeOf
  BY <1>2 DEF TreeOf, fileVars
<1>. QED  BY <1>2, <1>3, <1>4, <1>5 DEF Tree!RefuseRmdir

\* An abandoned inode is in no entry.
LEMMA AbandonedIsUnseen ==
  ASSUME TreeInv, NEW m \in {"dir", "reg"}, Abandoned(m)
  PROVE  Tree!NoChange
<1>1. /\ \A d \in Inodes : EntrySet(d)' = EntrySet(d)
      /\ \A i \in Inodes \ {NewInode} : itable'[i] = itable[i]
      /\ ret' \in {"ENOSPC", "none"}
  BY AbandonedEffect DEF Abandoned
<1>2. ~Linked(NewInode)
  BY NewInodeFresh DEF Abandoned
<1>3. ASSUME NEW d \in Inodes, NEW f \in EntrySet(d)
      PROVE  Node(d, f)' = Node(d, f)
  <2>1. f.ino \in Inodes /\ Linked(f.ino)
    BY EntrySetTypes, EntriesAsSets DEF TreeInv, TypeInv, Dentry
  <2>. QED  BY <1>1, <1>2, <2>1 DEF Node
<1>4. \A y : y \in TreeOf' <=> y \in TreeOf
  BY <1>1, <1>3, TreeNodes, TreeNodesNext
<1>5. TreeOf' = TreeOf
  BY <1>4
<1>. QED  BY <1>1, <1>5 DEF Tree!NoChange

\* A fresh image is the tree without entries.
LEMMA InitIsTreeInit == Init => Tree!Init
<1>. SUFFICES ASSUME Init PROVE Tree!Init
  OBVIOUS
<1>1. \A d \in Inodes : DOMAIN entries[d] = {}
  BY DEF Init, Formatted
<1>2. TreeOf = {}
  BY <1>1, TreeNodes DEF EntrySet
<1>. QED  BY <1>2 DEF Tree!Init, Init, Formatted

\* Every callback, mount and death is a step of the tree, or leaves it as it is.
LEMMA NextIsTreeNext == TreeInv /\ [Next]_vars => [Tree!Next]_<<TreeOf, ret>>
<1>. SUFFICES ASSUME TreeInv, [Next]_vars PROVE [Tree!Next]_<<TreeOf, ret>>
  OBVIOUS
<1>1. ASSUME NEW p \in Inodes, NEW nm \in Names, NEW m \in {"dir", "reg"},
             Entered(p, nm, m)
      PROVE  Tree!Next
  <2>1. Tree!Add(p, nm, m)
    BY <1>1, EnteredIsAdd
  <2>. QED  BY <2>1 DEF Tree!Next
<1>2. ASSUME NEW m \in {"dir", "reg"}, Abandoned(m)
      PROVE  Tree!Next
  BY <1>2, AbandonedIsUnseen DEF Tree!Next
<1>3. ASSUME NEW p \in Inodes, NEW nm \in Names, NEW lost \in {0, 1}, Removed(p, nm, lost)
      PROVE  Tree!Next
  <2>1. PICK x \in TreeOf : Tree!Remove(x)
    BY <1>3, RemovedIsRemove
  <2>. QED  BY <2>1 DEF Tree!Next
<1>4. ASSUME NEW p \in Inodes, NEW nm \in Names, RefusedRmdir(p, nm)
      PROVE  Tree!Next
  <2>1. PICK x \in TreeOf : Tree!RefuseRmdir(x)
    BY <1>4, RefusedIsRefused
  <2>. QED  BY <2>1 DEF Tree!Next
<1>5. CASE NothingDone
  <2>1. UNCHANGED TreeOf
    BY <1>5 DEF NothingDone, TreeOf, fileVars
  <2>2. ret' \in {"ENOSPC", "none"} \/ UNCHANGED ret
    BY <1>5 DEF NothingDone
  <2>. QED  BY <2>1, <2>2 DEF Tree!Next, Tree!NoChange
<1>6. TypeInv
  BY DEF TreeInv
<1>. QED  BY <1>1, <1>2, <1>3, <1>4, <1>5, <1>6, StepEffects

\* Seen from outside, each callback adds its entry, removes its entry or leaves the
\* tree alone: the namespace with its slots, blocks, bitmaps and failures half-way
\* implements the tree of DirTree.
THEOREM NamespaceImplementsTree == Spec => ImplementsTree
<1>1. Spec => []TreeInv
  BY TreeInvariant
<1>. QED  BY <1>1, InitIsTreeInit, NextIsTreeNext, PTL DEF Spec, ImplementsTree, Tree!Spec

-----------------------------------------------------------------------------
(* Every linked inode hangs below the root. *)

\* ReachedFromRoot without the counting of levels: a set of inodes with the root and
\* the children of its members has all that is linked.
RootReachesAll ==
    \A S \in SUBSET Inodes :
        ROOT_INODE \in S /\ Children(S) \subseteq S => LinkedInodes \subseteq S

\* An inode is a child of a set of directories if one of their entries has it, before
\* a step and after it.
LEMMA ChildrenAreEntries ==
  /\ \A S, i : i \in Children(S) <=> \E d \in S : \E e \in EntrySet(d) : e.ino = i
  /\ \A S, i : i \in Children(S)' <=> \E d \in S : \E e \in EntrySet(d)' : e.ino = i
BY DEF Children, EntrySet

\* On a fresh image only the root is linked.
LEMMA InitReaches == Init => RootReachesAll
<1>. SUFFICES ASSUME Init PROVE RootReachesAll
  OBVIOUS
<1>1. \A d \in Inodes : EntrySet(d) = {}
  BY DEF Init, Formatted, EntrySet
<1>. QED  BY <1>1, EntriesAsSets DEF RootReachesAll, LinkedInodes

\* p was reached before and its new entry is followed too.
LEMMA EnteredReaches ==
  ASSUME TreeInv, RootReachesAll,
         NEW p \in Inodes, NEW nm \in Names, NEW m \in {"dir", "reg"}, Entered(p, nm, m)
  PROVE  RootReachesAll'
<1>. DEFINE e == [name |-> nm, ino |-> NewInode]
<1>1. EntryAdded(p, e, m) /\ Linked(p)
  BY EnteredEffect DEF Entered, IsDirectory
<1>. HIDE DEF e
<1>. USE DEF EntryAdded
<1>. SUFFICES ASSUME NEW S \in SUBSET Inodes, ROOT_INODE \in S, Children(S)' \subseteq S
              PROVE  LinkedInodes' \subseteq S
  BY DEF RootReachesAll
<1>2. Children(S) \subseteq Children(S)'
  BY <1>1, ChildrenAreEntries
<1>3. LinkedInodes \subseteq S
  BY <1>2 DEF RootReachesAll
<1>4. e.ino \in S
  <2>1. p \in S /\ e \in EntrySet(p)'
    BY <1>1, <1>3 DEF LinkedInodes
  <2>. QED  BY <2>1, ChildrenAreEntries
<1>5. ASSUME NEW i \in Inodes, Linked(i)'
      PROVE  Linked(i) \/ i = e.ino
  BY <1>1, <1>5, EntriesAsSets, EntriesAsSetsNext
<1>. QED  BY <1>3, <1>4, <1>5 DEF LinkedInodes

\* What was reached through the removed entry was its inode and nothing else.
LEMMA RemovedReaches ==
  ASSUME TreeInv, RootReachesAll,
         NEW p \in Inodes, NEW nm \in Names, NEW lost \in {0, 1}, Removed(p, nm, lost)
  PROVE  RootReachesAll'
<1>. DEFINE t == Lookup(p, nm)
            e == [name |-> nm, ino |-> t]
<1>1. EntryDropped(p, e, lost) /\ e.ino = t
  BY RemovedEffect
<1>. HIDE DEF t, e
<1>. USE DEF EntryDropped
<1>. SUFFICES ASSUME NEW S \in SUBSET Inodes, ROOT_INODE \in S, Children(S)' \subseteq S
              PROVE  LinkedInodes' \subseteq S
  BY DEF RootReachesAll
<1>2. Children(S \cup {t}) \subseteq S \cup {t}
  <2>. SUFFICES ASSUME NEW i \in Children(S \cup {t}), i # t PROVE i \in S
    OBVIOUS
  <2>1. PICK d \in S \cup {t} : \E f \in EntrySet(d) : f.ino = i
    BY ChildrenAreEntries
  <2>2. d \in S
    BY <1>1, <2>1
  <2>3. PICK f \in EntrySet(d) : f.ino = i
    BY <2>1
  <2>4. f \in EntrySet(d)'
    BY <1>1, <2>2, <2>3
  <2>. QED  BY <2>2, <2>3, <2>4, ChildrenAreEntries
<1>3. LinkedInodes \subseteq S \cup {t}
  BY <1>1, <1>2 DEF RootReachesAll
<1>4. ASSUME NEW i \in Inodes, Linked(i)'
      PROVE  Linked(i) /\ i # t
  <2>1. Linked(i)
    BY <1>1, <1>4, EntriesAsSets, EntriesAsSetsNext
  <2>2. \A d \in Inodes : \A g \in EntrySet(d) : g.ino = t => d = p /\ g = e
    BY <1>1, EntriesAsSets DEF TreeInv, TypeInv, InodeInv
  <2>. QED  BY <1>1, <1>4, <2>1, <2>2, EntriesAsSetsNext
<1>. QED  BY <1>3, <1>4 DEF LinkedInodes

\* No step cuts a linked inode off: what is entered hangs below a linked parent, and
\* what is removed has nothing below it.
LEMMA NextReaches ==
  TreeInv /\ RootReachesAll /\ [Next]_vars => RootReachesAll'
<1>. SUFFICES ASSUME TreeInv, RootReachesAll, [Next]_vars PROVE RootReachesAll'
  OBVIOUS
<1>1. ASSUME UNCHANGED entries
      PROVE  RootReachesAll'
  BY <1>1 DEF RootReachesAll, Children, LinkedInodes, Linked
<1>2. ASSUME NEW m \in {"dir", "reg"}, Abandoned(m)
      PROVE  UNCHANGED entries
  BY <1>2, AbandonedEffect
<1>3. (NothingDone \/ \E p \in Inodes, nm \in Names : RefusedRmdir(p, nm))
         => UNCHANGED entries
  BY DEF NothingDone, RefusedRmdir, fileVars
<1>. QED
  BY <1>1, <1>2, <1>3, StepEffects, EnteredReaches, RemovedReaches DEF TreeInv

\* The levels of the tree from the root down, as ReachedFromRoot counts them: r is
\* such a count up to level k.
Levels(r, k) ==
    r = [n \in 0 .. k |-> IF n = 0 THEN {ROOT_INODE} ELSE r[n - 1] \cup Children(r[n - 1])]

\* They can be counted to any level: a least level they could not be counted to
\* would have one before it.
LEMMA LevelsExist == \A k \in Nat : \E r : Levels(r, k)
<1>. DEFINE Bad == {k \in Nat : ~\E r : Levels(r, k)}
<1>. SUFFICES ASSUME Bad # {} PROVE FALSE
  OBVIOUS
<1>1. PICK k \in Bad : \A j \in Bad : k <= j
  BY LeastElement
<1>2. k # 0
  <2>. DEFINE s == [n \in 0 .. 0 |-> {ROOT_INODE}]
  <2>1. s = [n \in 0 .. 0 |-> IF n = 0 THEN {ROOT_INODE} ELSE s[n - 1] \cup Children(s[n - 1])]
    OBVIOUS
  <2>2. Levels(s, 0)
    BY <2>1 DEF Levels
  <2>. QED  BY <1>1, <2>2
<1>3. k - 1 \in Nat /\ k - 1 \notin Bad
  BY <1>1, <1>2
<1>4. PICK r : Levels(r, k - 1)
  BY <1>3
<1>. DEFINE Level(f, n) == IF n = 0 THEN {ROOT_INODE} ELSE f[n - 1] \cup Children(f[n - 1])
            s == [n \in 0 .. k |-> Level(r, n)]
<1>5. \A n \in 0 .. k - 1 : r[n] = Level(r, n)
  BY <1>4 DEF Levels
<1>6. ASSUME NEW n \in 0 .. k
      PROVE  Level(s, n) = Level(r, n)
  <2>1. CASE n = 0
    BY <2>1
  <2>2. CASE n # 0
    <3>1. n - 1 \in 0 .. k - 1 /\ n - 1 \in 0 .. k
      BY <1>1, <2>2
    <3>2. s[n - 1] = r[n - 1]
      BY <1>5, <3>1
    <3>. QED  BY <2>2, <3>2
  <2>. QED  BY <2>1, <2>2
<1>7. s = [n \in 0 .. k |-> Level(s, n)]
  BY <1>6
<1>8. Levels(s, k)
  BY <1>7 DEF Levels
<1>. QED  BY <1>1, <1>8

\* Each level adds an inode or is the last: of NumInodes levels, one was the last.
LEMMA LevelsClose ==
  ASSUME TypeInv, NEW r, Levels(r, NumInodes)
  PROVE  /\ r[NumInodes] \in SUBSET Inodes
         /\ ROOT_INODE \in r[NumInodes]
         /\ Children(r[NumInodes]) \subseteq r[NumInodes]
<1>. DEFINE Done(n) == /\ r[n] \in SUBSET Inodes
                       /\ ROOT_INODE \in r[n]
                       /\ \/ Children(r[n]) \subseteq r[n]
                          \/ Cardinality(r[n]) > n
            Bad == {n \in 0 .. NumInodes : ~Done(n)}
<1>1. /\ NumInodes \in Nat /\ NumInodes > 0 /\ 0 \in 0 .. NumInodes
      /\ IsFiniteSet(Inodes) /\ Cardinality(Inodes) = NumInodes
  BY NumInodesAssumption, InodesFinite
<1>2. ASSUME NEW S \in SUBSET Inodes
      PROVE  /\ Children(S) \subseteq Inodes /\ IsFiniteSet(S)
             /\ Cardinality(S) \in Nat /\ Cardinality(S) <= NumInodes
  <2>1. \A d \in Inodes : \A e \in EntrySet(d) : e.ino \in Inodes
    BY EntrySetTypes DEF TypeInv, Dentry
  <2>2. Children(S) \subseteq Inodes
    BY <2>1, ChildrenAreEntries
  <2>. QED  BY <1>1, <2>2, FS_Subset, FS_CardinalityType
<1>3. /\ r[0] = {ROOT_INODE}
      /\ \A n \in 1 .. NumInodes : r[n] = r[n - 1] \cup Children(r[n - 1])
  <2>1. \A n \in 0 .. NumInodes :
           r[n] = IF n = 0 THEN {ROOT_INODE} ELSE r[n - 1] \cup Children(r[n - 1])
    BY DEF Levels
  <2>2. \A n \in 1 .. NumInodes : n \in 0 .. NumInodes /\ n # 0
    BY <1>1
  <2>. QED  BY <1>1, <2>1, <2>2
<1>4. Done(0)
  <2>1. ROOT_INODE \in Inodes
    BY <1>1 DEF Inodes, ROOT_INODE
  <2>2. Cardinality({ROOT_INODE}) = 1
    BY FS_Singleton
  <2>. QED  BY <1>3, <2>1, <2>2
<1>5. ASSUME NEW n \in 1 .. NumInodes, Done(n - 1)
      PROVE  Done(n)
  <2>. DEFINE low == r[n - 1]
  <2>1. r[n] = low \cup Children(low)
    BY <1>3
  <2>2. low \in SUBSET Inodes /\ r[n] \in SUBSET Inodes
    BY <1>2, <1>5, <2>1
  <2>. HIDE DEF low
  <2>3. CASE Children(low) \subseteq low
    <3>1. r[n] = low
      BY <2>1, <2>3
    <3>. QED  BY <1>5, <2>2, <2>3, <3>1 DEF low
  <2>4. CASE ~(Children(low) \subseteq low)
    <3>1. PICK i \in Children(low) : i \notin low
      BY <2>4
    <3>2. low \cup {i} \subseteq r[n]
      BY <2>1, <3>1
    <3>3. Cardinality(low \cup {i}) = Cardinality(low) + 1
      BY <1>2, <2>2, <3>1, FS_AddElement
    <3>4. Cardinality(low \cup {i}) <= Cardinality(r[n])
      BY <1>2, <2>2, <3>2, FS_Subset
    <3>5. Cardinality(low) > n - 1 /\ Cardinality(low) \in Nat /\ Cardinality(r[n]) \in Nat
      BY <1>2, <1>5, <2>2, <2>4 DEF low
    <3>6. Cardinality(r[n]) > n
      BY <1>1, <3>3, <3>4, <3>5
    <3>7. ROOT_INODE \in r[n]
      BY <1>5, <2>1 DEF low
    <3>. QED  BY <2>2, <3>6, <3>7
  <2>. QED  BY <2>3, <2>4
<1>6. Bad = {}
  <2>. SUFFICES ASSUME Bad # {} PROVE FALSE
    OBVIOUS
  <2>. HIDE DEF Done
  <2>1. Bad \in SUBSET Nat
    BY <1>1
  <2>2. PICK n \in Bad : \A j \in Bad : n <= j
    <3>. HIDE DEF Bad
    <3>. QED  BY <2>1, LeastElement
  <2>3. n \in 1 .. NumInodes /\ n - 1 \in 0 .. NumInodes /\ n - 1 \notin Bad
    BY <1>1, <1>4, <2>2
  <2>. QED  BY <1>5, <2>2, <2>3
<1>7. Done(NumInodes)
  BY <1>1, <1>6
<1>. QED  BY <1>1, <1>2, <1>7

\* No directory is cut off: each one that is linked has a chain of parents that leads
\* to the root.
THEOREM NothingIsCutOff == Spec => []ReachedFromRoot
<1>1. TreeInv /\ RootReachesAll => ReachedFromRoot
  <2>. SUFFICES ASSUME TreeInv, RootReachesAll PROVE ReachedFromRoot
    OBVIOUS
  <2>. DEFINE Step(f) == [n \in 0 .. NumInodes |->
                            IF n = 0 THEN {ROOT_INODE} ELSE f[n - 1] \cup Children(f[n - 1])]
              reach == CHOOSE f : f = Step(f)
  <2>1. PICK r : Levels(r, NumInodes)
    BY NumInodesAssumption, LevelsExist
  <2>2. r = Step(r)
    BY <2>1 DEF Levels
  <2>3. reach = Step(reach)
    <3>. HIDE DEF Step
    <3>. QED  BY <2>2
  <2>4. Levels(reach, NumInodes)
    <3>. HIDE DEF reach
    <3>. QED  BY <2>3 DEF Levels
  <2>5. LinkedInodes \subseteq reach[NumInodes]
    <3>. HIDE DEF reach
    <3>. QED  BY <2>4, LevelsClose DEF TreeInv, RootReachesAll
  <2>6. \A i \in Inodes : Linked(i) => i \in reach[NumInodes]
    BY <2>5 DEF LinkedInodes
  <2>. QED  BY <2>6 DEF ReachedFromRoot
<1>. QED  BY <1>1, InitTreeInv, InitReaches, NextKeepsTreeInv, NextReaches, PTL DEF Spec

-----------------------------------------------------------------------------
(* The link counts. *)

Subdirs(d) == {e \in EntrySet(d) : itable[e.ino].mode = "dir"}

\* LinksCounted, with the subdirectories as a set of entries.
LinksInv ==
    \A i \in Inodes : Linked(i) =>
        itable[i].links = IF itable[i].mode = "dir" THEN 2 + Cardinality(Subdirs(i)) ELSE 1

\* An inode is listed once, so slots and entries are equally many.
LEMMA SubdirsAreSlots ==
  ASSUME TypeInv, NEW d \in Inodes
  PROVE  /\ IsFiniteSet(Subdirs(d)) /\ Cardinality(Subdirs(d)) \in Nat
         /\ Cardinality(Subdirs(d)) = Cardinality(Subdirectories(d))
<1>. DEFINE es == entries[d]
            f  == [k \in Subdirectories(d) |-> es[k]]
<1>1. /\ DOMAIN es = 1 .. Len(es) /\ Len(es) \in Nat
      /\ \A i, j \in DOMAIN es : es[i].ino = es[j].ino => i = j
  BY LenProperties DEF TypeInv, InodeInv, InodeTypes, ListedOnce
<1>2. IsFiniteSet(Subdirectories(d))
  <2>1. Subdirectories(d) \in SUBSET (1 .. Len(es))
    BY <1>1 DEF Subdirectories
  <2>2. IsFiniteSet(1 .. Len(es))
    BY <1>1, FS_Interval
  <2>. QED  BY <2>1, <2>2, FS_Subset
<1>. HIDE DEF es
<1>3. f \in [Subdirectories(d) -> Subdirs(d)]
  BY DEF Subdirectories, Subdirs, EntrySet, es
<1>4. \A i, j \in Subdirectories(d) : f[i] = f[j] => i = j
  BY <1>1 DEF Subdirectories, es
<1>5. \A e \in Subdirs(d) : \E k \in Subdirectories(d) : f[k] = e
  BY DEF Subdirectories, Subdirs, EntrySet, es
<1>6. ExistsBijection(Subdirectories(d), Subdirs(d))
  <2>. HIDE DEF f
  <2>1. f \in Bijection(Subdirectories(d), Subdirs(d))
    BY <1>3, <1>4, <1>5 DEF Bijection, Injection, Surjection, IsInjective
  <2>. QED  BY <2>1 DEF ExistsBijection
<1>. QED  BY <1>2, <1>6, FS_Bijection, FS_CardinalityType

\* mkfs gives the root two links and no entries.
LEMMA InitLinksInv == Init => LinksInv
<1>. SUFFICES ASSUME Init PROVE LinksInv
  OBVIOUS
<1>1. \A d \in Inodes : EntrySet(d) = {} /\ Subdirs(d) = {}
  BY DEF Init, Formatted, EntrySet, Subdirs
<1>2. \A i \in Inodes : Linked(i) => i = ROOT_INODE
  BY <1>1, EntriesAsSets
<1>3. ROOT_INODE \in Inodes
  BY NumInodesAssumption DEF Inodes, ROOT_INODE
<1>4. /\ itable[ROOT_INODE].links = 2 /\ itable[ROOT_INODE].mode = "dir"
      /\ Cardinality(Subdirs(ROOT_INODE)) = 0
  BY <1>1, <1>3, FS_EmptySet DEF Init, Formatted, FreshInode
<1>. QED  BY <1>2, <1>4 DEF LinksInv

\* A new directory is one more subdirectory of its parent, and has none itself.
LEMMA EnteredKeepsLinks ==
  ASSUME TreeInv, LinksInv,
         NEW p \in Inodes, NEW nm \in Names, NEW m \in {"dir", "reg"}, Entered(p, nm, m)
  PROVE  LinksInv'
<1>. DEFINE new == NewInode
            e   == [name |-> nm, ino |-> new]
<1>1. EntryAdded(p, e, m)
  BY EnteredEffect
<1>2. /\ new \in Inodes /\ ~Linked(new) /\ EntrySet(new) = {} /\ e.ino = new
      /\ Linked(p) /\ itable[p].mode = "dir"
  BY NewInodeFresh DEF Entered, IsDirectory
<1>. HIDE DEF new, e
<1>. USE DEF EntryAdded
<1>3. /\ itable'[p].mode = "dir" /\ itable'[new] = FreshInode(m)
      /\ itable'[p].links = IF m = "dir" THEN itable[p].links + 1 ELSE itable[p].links
      /\ \A i \in Inodes \ {new} : itable'[i].mode = itable[i].mode
  <2>1. itable[p] \in Inode
    BY DEF TreeInv, TypeInv, TableInv
  <2>2. /\ itable'[p] = [itable[p] EXCEPT !.links = IF m = "dir" THEN @ + 1 ELSE @]
        /\ itable'[new] = FreshInode(m)
        /\ \A i \in Inodes \ {p, new} : itable'[i] = itable[i]
    BY <1>1, <1>2
  <2>3. /\ itable'[p].mode = itable[p].mode
        /\ itable'[p].links = IF m = "dir" THEN itable[p].links + 1 ELSE itable[p].links
    BY <2>1, <2>2 DEF Inode
  <2>. QED  BY <1>2, <2>2, <2>3
<1>4. \A d \in Inodes : \A f \in EntrySet(d) :
         f.ino \in Inodes /\ f.ino # new /\ itable'[f.ino].mode = itable[f.ino].mode
  <2>1. \A d \in Inodes : \A f \in EntrySet(d) : f.ino \in Inodes
    BY EntrySetTypes DEF TreeInv, TypeInv, Dentry
  <2>2. \A d \in Inodes : \A f \in EntrySet(d) : f.ino # new
    BY <1>2, EntriesAsSets
  <2>. QED  BY <1>3, <2>1, <2>2
<1>5. ASSUME NEW d \in Inodes \ {p}
      PROVE  Subdirs(d)' = Subdirs(d)
  BY <1>1, <1>4 DEF Subdirs
<1>6. Cardinality(Subdirs(p)') = Cardinality(Subdirs(p)) + (IF m = "dir" THEN 1 ELSE 0)
  <2>1. e \notin EntrySet(p) /\ IsFiniteSet(Subdirs(p)) /\ Cardinality(Subdirs(p)) \in Nat
    BY <1>2, <1>4, SubdirsAreSlots DEF TreeInv
  <2>2. itable'[e.ino].mode = m
    BY <1>2, <1>3 DEF FreshInode
  <2>3. CASE m = "dir"
    <3>1. Subdirs(p)' = Subdirs(p) \cup {e}
      BY <1>1, <1>4, <2>2, <2>3 DEF Subdirs
    <3>2. e \notin Subdirs(p)
      BY <2>1 DEF Subdirs
    <3>. QED  BY <2>1, <2>3, <3>1, <3>2, FS_AddElement
  <2>4. CASE m # "dir"
    <3>1. Subdirs(p)' = Subdirs(p)
      BY <1>1, <1>4, <2>2, <2>4 DEF Subdirs
    <3>. QED  BY <2>1, <2>4, <3>1
  <2>. QED  BY <2>3, <2>4
<1>. SUFFICES ASSUME NEW i \in Inodes, Linked(i)'
              PROVE  itable'[i].links = IF itable'[i].mode = "dir"
                                          THEN 2 + Cardinality(Subdirs(i)') ELSE 1
  BY DEF LinksInv
<1>7. CASE i = new
  <2>1. Subdirs(new) = {} /\ new # p
    BY <1>1, <1>2 DEF Subdirs
  <2>2. Subdirs(i)' = {}
    BY <1>5, <1>7, <2>1
  <2>3. Cardinality(Subdirs(i)') = 0
    BY <2>2, FS_EmptySet
  <2>. QED  BY <1>3, <1>7, <2>3 DEF FreshInode
<1>8. CASE i = p
  <2>1. itable[p].links = 2 + Cardinality(Subdirs(p)) /\ Cardinality(Subdirs(p)) \in Nat
    BY <1>2, SubdirsAreSlots DEF LinksInv, TreeInv
  <2>. QED  BY <1>3, <1>6, <1>8, <2>1
<1>9. CASE i # p /\ i # new
  <2>1. Linked(i)
    BY <1>1, <1>2, <1>9, EntriesAsSets, EntriesAsSetsNext
  <2>. QED  BY <1>1, <1>2, <1>5, <1>9, <2>1 DEF LinksInv
<1>. QED  BY <1>7, <1>8, <1>9

\* A directory emptied has no subdirectory left; another loses the one removed.
LEMMA RemovedKeepsLinks ==
  ASSUME TreeInv, LinksInv,
         NEW p \in Inodes, NEW nm \in Names, NEW lost \in {0, 1}, Removed(p, nm, lost)
  PROVE  LinksInv'
<1>. DEFINE t == Lookup(p, nm)
            e == [name |-> nm, ino |-> t]
            n == Len(entries[p])
<1>1. EntryDropped(p, e, lost)
  BY RemovedEffect
<1>2. /\ e.ino = t /\ itable[t].mode = IF lost = 1 THEN "dir" ELSE "reg"
      /\ Linked(p) /\ itable[p].mode = "dir"
  BY DEF Removed, IsDirectory
<1>. HIDE DEF t, e
<1>. USE DEF EntryDropped
<1>3. /\ itable'[p].mode = "dir"
      /\ itable'[p].links = IF n = 1 THEN 2 ELSE itable[p].links - lost
      /\ \A i \in Inodes \ {t} : itable'[i].mode = itable[i].mode
  <2>1. itable[p] \in Inode
    BY DEF TreeInv, TypeInv, TableInv
  <2>2. /\ itable'[p] = [itable[p] EXCEPT !.links = IF n = 1 THEN 2 ELSE @ - lost]
        /\ \A i \in Inodes \ {p, t} : itable'[i] = itable[i]
    BY <1>1, <1>2
  <2>3. /\ itable'[p].mode = itable[p].mode
        /\ itable'[p].links = IF n = 1 THEN 2 ELSE itable[p].links - lost
    BY <2>1, <2>2 DEF Inode
  <2>. QED  BY <1>2, <2>2, <2>3
<1>4. \A d \in Inodes : \A f \in EntrySet(d)' :
         /\ f \in EntrySet(d) /\ f.ino # t /\ itable'[f.ino].mode = itable[f.ino].mode
  <2>1. \A d \in Inodes : \A f \in EntrySet(d)' : f \in EntrySet(d)
    BY <1>1
  <2>2. \A d \in Inodes : \A f \in EntrySet(d) : f.ino \in Inodes
    BY EntrySetTypes DEF TreeInv, TypeInv, Dentry
  <2>3. \A d \in Inodes : \A f \in EntrySet(d) : f.ino = t => d = p /\ f = e
    BY <1>1, <1>2, EntriesAsSets DEF TreeInv, TypeInv, InodeInv
  <2>4. \A d \in Inodes : \A f \in EntrySet(d)' : f.ino # t
    BY <1>1, <2>1, <2>3
  <2>. QED  BY <1>3, <2>1, <2>2, <2>4
<1>5. ASSUME NEW d \in Inodes \ {p}
      PROVE  Subdirs(d)' = Subdirs(d)
  BY <1>1, <1>4 DEF Subdirs
<1>6. Subdirs(p)' = Subdirs(p) \ {e}
  BY <1>1, <1>2, <1>4 DEF Subdirs
<1>7. itable'[p].links = 2 + Cardinality(Subdirs(p)')
  <2>1. /\ IsFiniteSet(Subdirs(p)) /\ Cardinality(Subdirs(p)) \in Nat
        /\ itable[p].links = 2 + Cardinality(Subdirs(p))
    BY <1>2, SubdirsAreSlots DEF TreeInv, LinksInv
  <2>2. e \in Subdirs(p) <=> lost = 1
    BY <1>1, <1>2 DEF Subdirs
  <2>3. Cardinality(Subdirs(p)') = Cardinality(Subdirs(p)) - lost
    <3>1. Cardinality(Subdirs(p) \ {e}) =
             IF e \in Subdirs(p) THEN Cardinality(Subdirs(p)) - 1 ELSE Cardinality(Subdirs(p))
      BY <2>1, FS_RemoveElement
    <3>2. CASE lost = 1
      BY <1>6, <2>2, <3>1, <3>2
    <3>3. CASE lost = 0
      BY <1>6, <2>1, <2>2, <3>1, <3>3
    <3>. QED  BY <3>2, <3>3
  <2>4. CASE n = 1
    <3>1. DOMAIN entries[p] = {1}
      BY <2>4, LenProperties DEF TreeInv, TypeInv, InodeInv, InodeTypes
    <3>2. EntrySet(p)' = {}
      BY <1>1, <3>1 DEF EntrySet
    <3>3. Subdirs(p)' = {}
      BY <3>2 DEF Subdirs
    <3>. QED  BY <1>3, <2>4, <3>3, FS_EmptySet
  <2>5. CASE n # 1
    BY <1>3, <2>1, <2>3, <2>5
  <2>. QED  BY <2>4, <2>5
<1>. SUFFICES ASSUME NEW i \in Inodes, Linked(i)'
              PROVE  itable'[i].links = IF itable'[i].mode = "dir"
                                          THEN 2 + Cardinality(Subdirs(i)') ELSE 1
  BY DEF LinksInv
<1>8. CASE i = p
  BY <1>3, <1>7, <1>8
<1>9. CASE i # p
  <2>1. Linked(i) /\ i # t
    BY <1>1, <1>2, <1>4, EntriesAsSets, EntriesAsSetsNext
  <2>. QED  BY <1>1, <1>2, <1>5, <1>9, <2>1 DEF LinksInv
<1>. QED  BY <1>8, <1>9

\* An abandoned inode is in no directory.
LEMMA AbandonedKeepsLinks ==
  ASSUME TreeInv, LinksInv, NEW m \in {"dir", "reg"}, Abandoned(m)
  PROVE  LinksInv'
<1>1. /\ entries' = entries
      /\ \A d \in Inodes : EntrySet(d)' = EntrySet(d)
      /\ \A i \in Inodes \ {NewInode} : itable'[i] = itable[i]
      /\ ~Linked(NewInode)
  BY AbandonedEffect, NewInodeFresh DEF Abandoned
<1>2. \A d \in Inodes : \A f \in EntrySet(d) : f.ino \in Inodes /\ f.ino # NewInode
  BY <1>1, EntrySetTypes, EntriesAsSets DEF TreeInv, TypeInv, Dentry
<1>3. \A d \in Inodes : Subdirs(d)' = Subdirs(d)
  BY <1>1, <1>2 DEF Subdirs
<1>4. \A i \in Inodes : Linked(i)' <=> Linked(i)
  BY <1>1 DEF Linked
<1>. QED  BY <1>1, <1>3, <1>4 DEF LinksInv

\* Every step keeps the link counts: only mkdir and rmdir change them, each with the
\* entry it is about.
LEMMA NextKeepsLinks == TreeInv /\ LinksInv /\ [Next]_vars => LinksInv'
<1>. SUFFICES ASSUME TreeInv, LinksInv, [Next]_vars PROVE LinksInv'
  OBVIOUS
<1>1. ASSUME UNCHANGED <<allocVars, fileVars>>
      PROVE  LinksInv'
  BY <1>1 DEF LinksInv, Linked, Subdirs, EntrySet, fileVars
<1>. QED
  BY <1>1, StepEffects, EnteredKeepsLinks, RemovedKeepsLinks, AbandonedKeepsLinks
     DEF TreeInv, NothingDone, RefusedRmdir

\* The link count of a directory is two and one for each of its subdirectories, and
\* that of a file one: the increments, the decrements and the constant 2 that an
\* emptied directory gets agree.
THEOREM LinksAreCounted == Spec => []LinksCounted
<1>1. TreeInv /\ LinksInv => LinksCounted
  BY SubdirsAreSlots DEF TreeInv, LinksInv, LinksCounted
<1>. QED  BY <1>1, InitTreeInv, InitLinksInv, NextKeepsTreeInv, NextKeepsLinks, PTL DEF Spec

-----------------------------------------------------------------------------
(* Sums over finite sets, as MapThenSumSet folds them: the elements are      *)
(* taken in an order that nobody knows.                                      *)

Chosen(s) == CHOOSE k \in s : TRUE

\* The sum of f over s, where count has the sums over smaller sets.
CountOf(f, count, s) ==
    IF s = {} THEN 0 ELSE f[Chosen(s)] + count[s \ {Chosen(s)}]

\* count has the sum of f over each set of arguments.
Counts(f, count) == count = [s \in SUBSET DOMAIN f |-> CountOf(f, count, s)]

\* The sizes of the sets of arguments.
LEMMA ArgumentSets ==
  ASSUME NEW X, IsFiniteSet(X), NEW f \in [X -> Nat]
  PROVE  /\ \A s \in SUBSET DOMAIN f : IsFiniteSet(s) /\ Cardinality(s) \in Nat
         /\ \A s \in SUBSET DOMAIN f : \A k \in s :
               /\ s \ {k} \in SUBSET DOMAIN f
               /\ Cardinality(s \ {k}) = Cardinality(s) - 1
               /\ f[k] \in Nat
<1>1. DOMAIN f = X
  OBVIOUS
<1>2. \A s \in SUBSET DOMAIN f : IsFiniteSet(s) /\ Cardinality(s) \in Nat
  BY <1>1, FS_Subset, FS_CardinalityType
<1>. QED  BY <1>1, <1>2, FS_RemoveElement

\* The counts exist: a least size of the sets they could not be made for would
\* have one before it.
LEMMA CountsExist ==
  ASSUME NEW X, IsFiniteSet(X), NEW f \in [X -> Nat]
  PROVE  \E count : Counts(f, count)
<1>. DEFINE Sets == SUBSET DOMAIN f
            UpTo(n, c) == \A s \in Sets : Cardinality(s) <= n => c[s] = CountOf(f, c, s)
            Bad == {n \in Nat : ~\E c : UpTo(n, c)}
<1>1. \A s \in Sets : Cardinality(s) \in Nat
  BY ArgumentSets
<1>2. ASSUME NEW n \in Nat, NEW c, UpTo(n, c)
      PROVE  UpTo(n + 1, [s \in Sets |-> CountOf(f, c, s)])
  <2>. DEFINE d == [s \in Sets |-> CountOf(f, c, s)]
  <2>. SUFFICES ASSUME NEW s \in Sets, Cardinality(s) <= n + 1
                PROVE  d[s] = CountOf(f, d, s)
    OBVIOUS
  <2>1. CASE s = {}
    BY <2>1 DEF CountOf
  <2>2. CASE s # {}
    <3>. DEFINE r == s \ {Chosen(s)}
    <3>1. Chosen(s) \in s
      BY <2>2 DEF Chosen
    <3>2. r \in Sets /\ Cardinality(r) = Cardinality(s) - 1
      BY <3>1, ArgumentSets
    <3>3. Cardinality(r) <= n
      BY <1>1, <3>2
    <3>4. d[r] = CountOf(f, c, r) /\ c[r] = CountOf(f, c, r)
      BY <1>2, <3>2, <3>3
    <3>5. d[s] = CountOf(f, c, s)
      OBVIOUS
    <3>. HIDE DEF d, r
    <3>. QED  BY <2>2, <3>4, <3>5 DEF CountOf, r
  <2>. QED  BY <2>1, <2>2
<1>3. \E c : UpTo(0, c)
  <2>. DEFINE c == [s \in Sets |-> 0]
  <2>1. ASSUME NEW s \in Sets, Cardinality(s) <= 0
        PROVE  c[s] = CountOf(f, c, s)
    <3>1. s = {}
      BY <1>1, <2>1, ArgumentSets, FS_EmptySet
    <3>. QED  BY <3>1 DEF CountOf
  <2>. QED  BY <2>1
<1>4. Bad = {}
  <2>. SUFFICES ASSUME Bad # {} PROVE FALSE
    OBVIOUS
  <2>. HIDE DEF UpTo
  <2>1. PICK n \in Bad : \A j \in Bad : n <= j
    <3>1. Bad \in SUBSET Nat
      OBVIOUS
    <3>. HIDE DEF Bad
    <3>. QED  BY <3>1, LeastElement
  <2>2. n - 1 \in Nat /\ n - 1 \notin Bad
    BY <1>3, <2>1
  <2>3. PICK c : UpTo(n - 1, c)
    BY <2>2
  <2>4. \E c1 : UpTo((n - 1) + 1, c1)
    BY <1>2, <2>2, <2>3
  <2>. QED  BY <2>1, <2>4
<1>5. DOMAIN f \in Sets
  OBVIOUS
<1>6. PICK c : UpTo(Cardinality(DOMAIN f), c)
  <2>. HIDE DEF UpTo
  <2>1. Cardinality(DOMAIN f) \in Nat
    BY <1>1, <1>5
  <2>. QED  BY <1>4, <2>1
<1>7. \A s \in Sets : Cardinality(s) <= Cardinality(DOMAIN f)
  BY <1>5, ArgumentSets, FS_Subset
<1>8. \A s \in Sets : c[s] = CountOf(f, c, s)
  BY <1>6, <1>7
<1>. DEFINE d == [s \in Sets |-> CountOf(f, c, s)]
<1>9. \A s \in Sets : CountOf(f, d, s) = CountOf(f, c, s)
  <2>. SUFFICES ASSUME NEW s \in Sets, s # {}
                PROVE  CountOf(f, d, s) = CountOf(f, c, s)
    BY DEF CountOf
  <2>1. s \ {Chosen(s)} \in Sets
    OBVIOUS
  <2>2. d[s \ {Chosen(s)}] = c[s \ {Chosen(s)}]
    BY <1>8, <2>1
  <2>. HIDE DEF d
  <2>. QED  BY <2>2 DEF CountOf
<1>10. Counts(f, d)
  <2>1. d = [s \in Sets |-> CountOf(f, d, s)]
    BY <1>9
  <2>. HIDE DEF d
  <2>. QED  BY <2>1 DEF Counts
<1>. QED  BY <1>10

\* Whichever element is taken out of a set, its value and the sum over the others
\* make up the sum over the set.
LEMMA CountsSplit ==
  ASSUME NEW X, IsFiniteSet(X), NEW f \in [X -> Nat], NEW count, Counts(f, count)
  PROVE  /\ \A s \in SUBSET DOMAIN f : count[s] \in Nat
         /\ count[{}] = 0
         /\ \A s \in SUBSET DOMAIN f : \A k \in s : count[s] = f[k] + count[s \ {k}]
<1>. DEFINE Sets == SUBSET DOMAIN f
            Good(s) == /\ count[s] \in Nat
                       /\ \A k \in s : count[s] = f[k] + count[s \ {k}]
            Bad == {n \in Nat : \E s \in Sets : Cardinality(s) = n /\ ~Good(s)}
<1>1. \A s \in Sets : Cardinality(s) \in Nat
  BY ArgumentSets
<1>2. \A s \in Sets : count[s] = CountOf(f, count, s)
  BY DEF Counts
<1>3. count[{}] = 0
  BY <1>2 DEF CountOf
<1>4. Bad = {}
  <2>. SUFFICES ASSUME Bad # {} PROVE FALSE
    OBVIOUS
  <2>. HIDE DEF Good
  <2>1. PICK n \in Bad : \A j \in Bad : n <= j
    <3>1. Bad \in SUBSET Nat
      OBVIOUS
    <3>. HIDE DEF Bad
    <3>. QED  BY <3>1, LeastElement
  <2>2. PICK s \in Sets : Cardinality(s) = n /\ ~Good(s)
    BY <2>1
  <2>3. ASSUME NEW r \in Sets, Cardinality(r) = n - 1
        PROVE  Good(r)
    <3>1. n - 1 \in Nat /\ n - 1 \notin Bad
      BY <1>1, <2>1, <2>3
    <3>. QED  BY <2>3, <3>1
  <2>4. s # {}
    <3>1. Good({})
      BY <1>3 DEF Good
    <3>. QED  BY <2>2, <3>1
  <2>. DEFINE x == Chosen(s)
              r == s \ {x}
  <2>5. x \in s
    BY <2>4 DEF Chosen
  <2>6. /\ r \in Sets /\ Cardinality(r) = n - 1 /\ f[x] \in Nat
    BY <2>2, <2>5, ArgumentSets
  <2>7. count[s] = f[x] + count[r]
    BY <1>2, <2>4 DEF CountOf
  <2>. HIDE DEF x, r
  <2>8. Good(r)
    BY <2>3, <2>6
  <2>9. count[s] \in Nat
    BY <2>6, <2>7, <2>8 DEF Good
  <2>10. ASSUME NEW k \in s
         PROVE  count[s] = f[k] + count[s \ {k}]
    <3>1. CASE k = x
      BY <2>7, <3>1 DEF r
    <3>2. CASE k # x
      <4>. DEFINE q == s \ {k}
                  both == r \ {k}
      <4>1. k \in r /\ x \in q /\ both = q \ {x}
        BY <2>5, <3>2 DEF r
      <4>2. q \in Sets /\ Cardinality(q) = n - 1 /\ f[k] \in Nat
        BY <2>2, ArgumentSets
      <4>3. both \in Sets /\ Cardinality(both) = Cardinality(r) - 1
        BY <2>6, <4>1, ArgumentSets
      <4>4. Good(q)
        BY <2>3, <4>2
      <4>. HIDE DEF q, both
      <4>5. count[r] = f[k] + count[both]
        BY <2>8, <4>1 DEF Good, both
      <4>6. count[q] = f[x] + count[both]
        BY <4>1, <4>4 DEF Good
      <4>7. count[both] \in Nat
        <5>1. n - 2 \in Nat /\ Cardinality(both) = n - 2
          BY <1>1, <2>6, <4>3
        <5>2. n - 2 \notin Bad
          BY <2>1, <5>1
        <5>. QED  BY <4>3, <5>1, <5>2 DEF Good
      <4>. QED  BY <2>6, <2>7, <4>2, <4>5, <4>6, <4>7 DEF q
    <3>. QED  BY <3>1, <3>2
  <2>. QED  BY <2>2, <2>9, <2>10 DEF Good
<1>5. \A s \in Sets : Good(s)
  <2>. HIDE DEF Good
  <2>. QED  BY <1>1, <1>4
<1>. QED  BY <1>3, <1>5

\* The sum of the sizes of sets that are apart is the size of their union.
LEMMA SizesAddUp ==
  ASSUME NEW X, IsFiniteSet(X), NEW f \in [X -> Nat], NEW count, Counts(f, count),
         NEW B, \A x \in X : IsFiniteSet(B[x]) /\ Cardinality(B[x]) = f[x],
         \A x, y \in X : x # y => B[x] \cap B[y] = {}
  PROVE  /\ IsFiniteSet(UNION {B[x] : x \in X})
         /\ Cardinality(UNION {B[x] : x \in X}) = count[X]
<1>. DEFINE U(s) == UNION {B[x] : x \in s}
            Good(s) == IsFiniteSet(U(s)) /\ Cardinality(U(s)) = count[s]
            Bad == {n \in Nat : \E s \in SUBSET X : Cardinality(s) = n /\ ~Good(s)}
<1>1. \A s \in SUBSET X : IsFiniteSet(s) /\ Cardinality(s) \in Nat
  BY FS_Subset, FS_CardinalityType
<1>2. /\ count[{}] = 0
      /\ \A s \in SUBSET X : count[s] \in Nat
      /\ \A s \in SUBSET X : \A k \in s : count[s] = f[k] + count[s \ {k}]
  <2>1. DOMAIN f = X
    OBVIOUS
  <2>. QED  BY <2>1, CountsSplit
<1>3. Good({})
  <2>1. U({}) = {}
    OBVIOUS
  <2>. QED  BY <1>2, <2>1, FS_EmptySet
<1>4. ASSUME NEW s \in SUBSET X, NEW x \in s, Good(s \ {x})
      PROVE  Good(s)
  <2>. DEFINE r == s \ {x}
  <2>1. U(s) = U(r) \cup B[x]
    OBVIOUS
  <2>2. U(r) \cap B[x] = {}
    OBVIOUS
  <2>3. /\ IsFiniteSet(U(r)) /\ Cardinality(U(r)) = count[r]
        /\ IsFiniteSet(B[x]) /\ Cardinality(B[x]) = f[x]
    BY <1>4
  <2>4. count[s] = f[x] + count[r] /\ count[r] \in Nat /\ f[x] \in Nat
    BY <1>2
  <2>. HIDE DEF U, r
  <2>5. /\ IsFiniteSet(U(r) \cup B[x])
        /\ Cardinality(U(r) \cup B[x]) = Cardinality(U(r)) + Cardinality(B[x]) - 0
    BY <2>2, <2>3, FS_Union, FS_EmptySet
  <2>6. Cardinality(U(s)) = count[s] /\ IsFiniteSet(U(s))
    BY <2>1, <2>3, <2>4, <2>5
  <2>. QED  BY <2>6
<1>. HIDE DEF Good
<1>5. Bad = {}
  <2>. SUFFICES ASSUME Bad # {} PROVE FALSE
    OBVIOUS
  <2>1. PICK n \in Bad : \A j \in Bad : n <= j
    <3>1. Bad \in SUBSET Nat
      OBVIOUS
    <3>. HIDE DEF Bad
    <3>. QED  BY <3>1, LeastElement
  <2>2. PICK s \in SUBSET X : Cardinality(s) = n /\ ~Good(s)
    BY <2>1
  <2>3. PICK x : x \in s
    BY <1>3, <2>2
  <2>4. s \ {x} \in SUBSET X /\ Cardinality(s \ {x}) = n - 1
    BY <1>1, <2>2, <2>3, FS_RemoveElement
  <2>5. n - 1 \in Nat
    BY <1>1, <2>4
  <2>6. Good(s \ {x})
    BY <2>1, <2>4, <2>5
  <2>. QED  BY <1>4, <2>2, <2>3, <2>6
<1>6. Good(X)
  BY <1>1, <1>5
<1>. QED  BY <1>6 DEF Good

\* The blocks of a sequence of extents, as the code counts them.
BlockSum(es) == MapThenSumSet(LAMBDA k : es[k].count, DOMAIN es)

\* What get_num_blks_of_file computes of an inode.
LEMMA BlocksAreSummed == \A i : get_num_blks_of_file(i) = BlockSum(extents[i])
BY DEF get_num_blks_of_file, BlockSum

\* The fold of MapThenSumSet is such a sum.
LEMMA BlocksFolded ==
  ASSUME NEW es, IsFiniteSet(DOMAIN es), \A k \in DOMAIN es : es[k].count \in Nat
  PROVE  LET g == [k \in DOMAIN es |-> es[k].count]
         IN  /\ g \in [DOMAIN es -> Nat]
             /\ \E count :
                   /\ Counts(g, count) /\ BlockSum(es) = count[DOMAIN es]
                   /\ count[{}] = 0
                   /\ \A s \in SUBSET DOMAIN es : count[s] \in Nat
                   /\ \A s \in SUBSET DOMAIN es : \A k \in s :
                         count[s] = es[k].count + count[s \ {k}]
<1>. DEFINE X == DOMAIN es
            g == [k \in X |-> es[k].count]
            Step(c) == [s \in SUBSET X |->
                          IF s = {} THEN 0
                                    ELSE LET k == CHOOSE j \in s : TRUE
                                         IN  es[k].count + c[s \ {k}]]
            count == CHOOSE c : c = Step(c)
<1>1. IsFiniteSet(X)
  OBVIOUS
<1>2. g \in [X -> Nat] /\ \A k \in X : g[k] = es[k].count
  OBVIOUS
<1>3. BlockSum(es) = count[X]
  BY DEF BlockSum, MapThenSumSet, MapThenFoldSet
<1>. HIDE DEF X
<1>4. \A c : c = Step(c) <=> Counts(g, c)
  <2>1. ASSUME NEW s \in SUBSET X, s # {}
        PROVE  es[Chosen(s)].count = g[Chosen(s)]
    BY <1>2, <2>1 DEF Chosen
  <2>2. DOMAIN g = X
    BY <1>2
  <2>. HIDE DEF g
  <2>. QED  BY <2>1, <2>2 DEF Counts, CountOf, Chosen
<1>. HIDE DEF Step, g
<1>5. Counts(g, count)
  <2>1. \E c : c = Step(c)
    BY <1>1, <1>2, <1>4, CountsExist
  <2>2. count = Step(count)
    BY <2>1
  <2>. HIDE DEF count
  <2>. QED  BY <1>4, <2>2
<1>. HIDE DEF count
<1>6. DOMAIN g = X
  BY <1>2
<1>7. /\ count[{}] = 0
      /\ \A s \in SUBSET X : count[s] \in Nat
      /\ \A s \in SUBSET X : \A k \in s : count[s] = g[k] + count[s \ {k}]
  <2>1. /\ count[{}] = 0
        /\ \A s \in SUBSET DOMAIN g : count[s] \in Nat
        /\ \A s \in SUBSET DOMAIN g : \A k \in s : count[s] = g[k] + count[s \ {k}]
    BY <1>1, <1>2, <1>5, CountsSplit
  <2>. QED  BY <1>6, <2>1
<1>8. \A s \in SUBSET X : \A k \in s : count[s] = es[k].count + count[s \ {k}]
  BY <1>2, <1>7
<1>9. X = DOMAIN es /\ g = [k \in DOMAIN es |-> es[k].count]
  BY Zenon DEF X, g
<1>10. \E c : /\ Counts(g, c) /\ BlockSum(es) = c[X]
              /\ c[{}] = 0
              /\ \A s \in SUBSET X : c[s] \in Nat
              /\ \A s \in SUBSET X : \A k \in s : c[s] = es[k].count + c[s \ {k}]
  <2>1. /\ Counts(g, count) /\ BlockSum(es) = count[X]
        /\ count[{}] = 0
        /\ \A s \in SUBSET X : count[s] \in Nat
        /\ \A s \in SUBSET X : \A k \in s : count[s] = es[k].count + count[s \ {k}]
    BY <1>3, <1>5, <1>7, <1>8, Zenon
  <2>. QED  BY <2>1, Zenon
<1>11. g \in [X -> Nat]
  BY <1>2
<1>. QED  BY <1>9, <1>10, <1>11, Zenon

\* The sum over all extents is one over ever smaller sets of them.
LEMMA BlocksSplit ==
  \A es : IsFiniteSet(DOMAIN es) /\ (\A k \in DOMAIN es : es[k].count \in Nat) =>
     \E count :
        /\ BlockSum(es) = count[DOMAIN es]
        /\ count[{}] = 0
        /\ \A s \in SUBSET DOMAIN es : count[s] \in Nat
        /\ \A s \in SUBSET DOMAIN es : \A k \in s : count[s] = es[k].count + count[s \ {k}]
<1>. SUFFICES ASSUME NEW es, IsFiniteSet(DOMAIN es), \A k \in DOMAIN es : es[k].count \in Nat
              PROVE  \E count :
                        /\ BlockSum(es) = count[DOMAIN es]
                        /\ count[{}] = 0
                        /\ \A s \in SUBSET DOMAIN es : count[s] \in Nat
                        /\ \A s \in SUBSET DOMAIN es : \A k \in s :
                              count[s] = es[k].count + count[s \ {k}]
  OBVIOUS
<1>. DEFINE g == [k \in DOMAIN es |-> es[k].count]
<1>1. \E count :
        /\ Counts(g, count) /\ BlockSum(es) = count[DOMAIN es]
        /\ count[{}] = 0
        /\ \A s \in SUBSET DOMAIN es : count[s] \in Nat
        /\ \A s \in SUBSET DOMAIN es : \A k \in s : count[s] = es[k].count + count[s \ {k}]
  BY BlocksFolded
<1>. HIDE DEF g
<1>. QED  BY <1>1, Zenon

\* It is the sum f that Fits makes of them in order.
LEMMA BlocksCountedInOrder ==
  ASSUME NEW es, NEW l \in Nat, DOMAIN es = 1 .. l, \A k \in 1 .. l : es[k].count \in Nat,
         NEW f \in [0 .. l -> Nat], f[0] = 0,
         \A k \in 1 .. l : f[k] = f[k - 1] + es[k].count
  PROVE  BlockSum(es) = f[l]
<1>1. DOMAIN es = 1 .. l /\ l \in Nat /\ IsFiniteSet(DOMAIN es)
  <2>1. IsFiniteSet(1 .. l)
    BY FS_Interval
  <2>. QED  BY <2>1
<1>3. PICK count :
        /\ BlockSum(es) = count[DOMAIN es]
        /\ count[{}] = 0
        /\ \A s \in SUBSET DOMAIN es : count[s] \in Nat
        /\ \A s \in SUBSET DOMAIN es : \A k \in s : count[s] = es[k].count + count[s \ {k}]
  <2>1. \A k \in DOMAIN es : es[k].count \in Nat
    BY <1>1
  <2>. QED  BY <1>1, <2>1, BlocksSplit, Zenon
<1>. DEFINE Bad == {n \in 0 .. l : count[1 .. n] # f[n]}
<1>7. Bad = {}
  <2>. SUFFICES ASSUME Bad # {} PROVE FALSE
    OBVIOUS
  <2>1. PICK n \in Bad : \A j \in Bad : n <= j
    <3>1. Bad \in SUBSET Nat
      BY <1>1
    <3>. HIDE DEF Bad
    <3>. QED  BY <3>1, LeastElement
  <2>2. n # 0
    <3>1. 1 .. 0 = {}
      OBVIOUS
    <3>. QED  BY <1>3, <2>1, <3>1
  <2>3. n \in 1 .. l /\ n - 1 \in 0 .. l /\ n - 1 \notin Bad
    BY <1>1, <2>1, <2>2
  <2>4. count[1 .. n - 1] = f[n - 1]
    BY <2>3
  <2>5. 1 .. n \in SUBSET DOMAIN es /\ n \in 1 .. n /\ (1 .. n) \ {n} = 1 .. n - 1
    <3>. HIDE DEF Bad
    <3>1. \A k : k \in 1 .. n <=> k \in 1 .. n - 1 \/ k = n
      BY <1>1, <2>3
    <3>2. n \notin 1 .. n - 1 /\ \A k \in 1 .. n : k \in 1 .. l
      BY <1>1, <2>3
    <3>3. (1 .. n) \ {n} = 1 .. n - 1
      BY <3>1, <3>2, Zenon
    <3>. QED  BY <1>1, <3>1, <3>2, <3>3, Zenon
  <2>6. count[1 .. n] = es[n].count + count[1 .. n - 1]
    <3>1. count[1 .. n] = es[n].count + count[(1 .. n) \ {n}]
      BY <1>3, <2>5
    <3>. QED  BY <2>5, <3>1
  <2>7. f[n] = f[n - 1] + es[n].count /\ es[n].count \in Nat /\ f[n - 1] \in Nat
    BY <1>1, <2>3
  <2>8. count[1 .. n] = f[n]
    BY <2>4, <2>6, <2>7
  <2>. QED  BY <2>1, <2>8
<1>8. count[DOMAIN es] = f[l]
  BY <1>1, <1>7
<1>. QED  BY <1>3, <1>8

\* A directory holds exactly the blocks its entries fill, as its extents count them.
LEMMA BlocksFilled ==
  ASSUME TypeInv, NEW i \in Inodes
  PROVE  /\ entries[i] = <<>> <=> extents[i] = <<>>
         /\ get_num_blks_of_file(i) \in Nat
         /\ (Len(entries[i]) + D - 1) \div D = get_num_blks_of_file(i)
<1>. DEFINE n  == Len(entries[i])
            es == extents[i]
            l  == Len(es)
<1>1. n \in Nat /\ es \in Seq(Extent) /\ l \in Nat /\ Fits(es, n)
  BY LenProperties DEF TypeInv, InodeInv, InodeTypes, TableInv, ExtentsFitEntries
<1>2. entries[i] = <<>> <=> n = 0
  BY EmptySeq DEF TypeInv, InodeInv, InodeTypes
<1>3. PICK f \in [0 .. l -> Nat] :
        /\ f[0] = 0
        /\ \A k \in 1 .. l : es[k].count > 0 /\ f[k] = f[k - 1] + es[k].count
        /\ f[l] * D - D < n /\ n <= f[l] * D
  BY <1>1 DEF Fits
<1>4. get_num_blks_of_file(i) = f[l]
  <2>1. DOMAIN es = 1 .. l /\ \A k \in 1 .. l : es[k].count \in Nat
    BY <1>1, LenProperties, ExtentAt
  <2>. QED  BY <1>1, <1>3, <2>1, BlocksCountedInOrder, BlocksAreSummed
<1>. HIDE DEF n, es
<1>5. n = 0 <=> es = <<>>
  BY <1>1, FitsNonempty
<1>6. (n + D - 1) \div D = f[l]
  <2>. DEFINE c == f[l]
  <2>1. D \in Nat /\ D > 1 /\ c \in Nat
    BY <1>1, <1>3, DentriesAssumption DEF D
  <2>2. c * D - D < n /\ n <= c * D
    BY <1>3
  <2>. HIDE DEF c, D
  <2>. DEFINE r == n + D - 1 - c * D
  <2>3. r \in 0 .. D - 1 /\ n + D - 1 = c * D + r
    BY <1>1, <2>1, <2>2
  <2>. HIDE DEF r
  <2>4. (c * D + r) \div D = c
    BY <2>1, <2>3
  <2>. QED  BY <2>3, <2>4 DEF c
<1>. QED  BY <1>1, <1>2, <1>3, <1>4, <1>5, <1>6 DEF n, es

\* A directory holds exactly the blocks its entries fill, so the position of its last
\* entry, which every callback computes from the number of entries and the last
\* extent, is where that entry is.
THEOREM DirectoriesAreDense == Spec => []DirectoriesDense
<1>1. TypeInv => DirectoriesDense
  BY BlocksFilled DEF DirectoriesDense, D
<1>. QED  BY <1>1, TypeInvariant, PTL

-----------------------------------------------------------------------------
(* What a callback that succeeds does to the bits nothing accounts for. *)

SpaceInv == OwnerInv /\ TreeInv

\* Blocks taken are owned afterwards and blocks given back were owned before.
LEMMA LeaksUnchanged ==
  ASSUME OwnerInv, NEW p \in Inodes, NEW B, NEW G,
         B \cap dataBitmap = {}, G \subseteq OwnedBlocks(p),
         dataBitmap' = (dataBitmap \cup B) \ G,
         OwnedBlocks(p)' = (OwnedBlocks(p) \cup B) \ G,
         \A i \in Inodes \ {p} : OwnedBlocks(i)' = OwnedBlocks(i)
  PROVE  LeakedBlocks' = LeakedBlocks
<1>1. \A b : b \in AllOwned <=> \E i \in Inodes : b \in OwnedBlocks(i)
  BY DEF AllOwned
<1>2. \A b : b \in AllOwned' <=> \E i \in Inodes : b \in OwnedBlocks(i)'
  BY DEF AllOwned
<1>3. \A i \in Inodes : OwnedBlocks(i) \subseteq dataBitmap
  BY DEF OwnerInv, OwnedAllocated
<1>4. \A i \in Inodes \ {p} : OwnedBlocks(i) \cap OwnedBlocks(p) = {}
  BY OwnedIsOwnedOf DEF OwnerInv
<1>5. ASSUME NEW b
      PROVE  b \in LeakedBlocks' <=> b \in LeakedBlocks
  <2>1. CASE b \in B
    <3>1. b \notin dataBitmap /\ b \notin G
      BY <1>3, <2>1
    <3>2. b \in AllOwned'
      BY <1>2, <2>1, <3>1
    <3>. QED  BY <3>1, <3>2 DEF LeakedBlocks
  <2>2. CASE b \in G
    <3>1. b \in AllOwned /\ b \notin dataBitmap'
      BY <1>1, <2>2
    <3>. QED  BY <3>1 DEF LeakedBlocks
  <2>3. CASE b \notin B /\ b \notin G
    <3>1. b \in dataBitmap' <=> b \in dataBitmap
      BY <2>3
    <3>2. b \in AllOwned' <=> b \in AllOwned
      BY <1>1, <1>2, <2>3
    <3>. QED  BY <3>1, <3>2 DEF LeakedBlocks
  <2>. QED  BY <2>1, <2>2, <2>3
<1>. QED  BY <1>5

\* A free inode and an empty directory own nothing.
LEMMA NothingOwned ==
  ASSUME TypeInv, NEW i \in Inodes, entries[i] = <<>>
  PROVE  extents[i] = <<>> /\ OwnedBlocks(i) = {}
BY BlocksFilled DEF OwnedBlocks

\* The blocks B end up with p, and the new inode had none to lose.
LEMMA EnteredBlocks ==
  ASSUME SpaceInv, availableInodes > 0, NEW p \in Inodes, NewInode # p,
         NEW B, B \cap dataBitmap = {}, TakeBlocks(B),
         NEW es, NEW ib, extents' = [extents EXCEPT ![NewInode] = <<>>, ![p] = es],
         \/ indirect' = [indirect EXCEPT ![p] = ib]
         \/ UNCHANGED indirect /\ ib = indirect[p],
         OwnedOf(es, ib) = OwnedOf(extents[p], indirect[p]) \cup B
  PROVE  LeakedBlocks' = LeakedBlocks
<1>1. NewInode \in Inodes /\ extents[NewInode] = <<>>
  BY NewInodeFresh, NothingOwned DEF SpaceInv, TreeInv
<1>2. /\ extents'[p] = es /\ indirect'[p] = ib
      /\ \A i \in Inodes \ {p} : extents'[i] = extents[i] /\ indirect'[i] = indirect[i]
  BY <1>1 DEF SpaceInv, TreeInv, TypeInv, BlockTypes, TableInv
<1>3. \A i \in Inodes \ {p} : OwnedBlocks(i)' = OwnedBlocks(i)
  BY <1>2, OwnedIsOwnedOf, OwnedIsOwnedOfNext
<1>4. OwnedBlocks(p)' = OwnedBlocks(p) \cup B
  BY <1>2, OwnedIsOwnedOf, OwnedIsOwnedOfNext
<1>. DEFINE G == {}
<1>5. /\ G \subseteq OwnedBlocks(p) /\ dataBitmap' = (dataBitmap \cup B) \ G
      /\ OwnedBlocks(p)' = (OwnedBlocks(p) \cup B) \ G
  BY <1>4 DEF TakeBlocks
<1>. HIDE DEF G
<1>. QED  BY <1>3, <1>5, LeaksUnchanged DEF SpaceInv

\* The four ways of an addition.  The ones that fail return something else than 0.
LEMMA AddedBlocks ==
  ASSUME SpaceInv, NEW p \in Inodes, NEW nm \in Names, NEW m \in {"dir", "reg"},
         AddEntry(p, nm, m), ret' = "ok"
  PROVE  LeakedBlocks' = LeakedBlocks
<1>. DEFINE n  == Len(entries[p])
            es == extents[p]
<1>1. /\ IsDirectory(p) /\ numOfDataBlocks \in Nat /\ availableInodes > 0
      /\ n \in Nat /\ es \in Seq(Extent) /\ Fits(es, n)
      /\ \/ AddToEmptyParent(p, nm, m) \/ AddToLastBlock(p, nm, m)
         \/ AddToNextBlock(p, nm, m) \/ AddToNewExtent(p, nm, m)
  BY LenProperties
     DEF AddEntry, SpaceInv, TreeInv, TypeInv, InodeInv, InodeTypes, BlockTypes, TableInv,
         ExtentsFitEntries
<1>2. NewInode \in Inodes /\ NewInode # p
  BY <1>1, NewInodeIsFree
     DEF SpaceInv, TreeInv, TypeInv, InodeInv, LinkedAllocated, IsDirectory
<1>3. entries[p] = <<>> <=> es = <<>>
  BY BlocksFilled DEF SpaceInv, TreeInv
<1>4. ASSUME NEW s, extents' = [extents EXCEPT ![NewInode] = <<>>, ![p] = s],
             UNCHANGED indirect, es # <<>>, s # <<>>,
             NEW B, B \cap dataBitmap = {}, TakeBlocks(B), DataOf(s) = DataOf(es) \cup B
      PROVE  LeakedBlocks' = LeakedBlocks
  <2>1. OwnedOf(s, indirect[p]) = OwnedOf(extents[p], indirect[p]) \cup B
    BY <1>4 DEF OwnedOf
  <2>. HIDE DEF es
  <2>. QED  BY <1>1, <1>2, <1>4, <2>1, EnteredBlocks
<1>. HIDE DEF n, es
<1>5. ASSUME AddToEmptyParent(p, nm, m)
      PROVE  LeakedBlocks' = LeakedBlocks
  <2>. DEFINE ib == get_first_available_position(numOfDataBlocks, dataBitmap)
              db == get_first_available_position(numOfDataBlocks, set_bitmap(dataBitmap, ib))
              first == <<[start |-> db, count |-> 1]>>
  <2>1. /\ ib # NotFound /\ db # NotFound /\ TakeBlocks({ib, db})
        /\ indirect' = [indirect EXCEPT ![p] = ib]
        /\ extents' = [extents EXCEPT ![NewInode] = <<>>, ![p] = first]
        /\ entries[p] = <<>>
    BY <1>5 DEF AddToEmptyParent, FailNoSpace, Die
  <2>2. ib \in Nat /\ ib \notin dataBitmap
    BY <1>1, <2>1, FoundBlock
  <2>3. db \in Nat /\ db # ib /\ db \notin dataBitmap
    BY <1>1, <2>1, FoundBlock DEF set_bitmap
  <2>. HIDE DEF ib, db
  <2>4. DataOf(first) = {db} /\ first # <<>>
    BY <2>3, FirstExtent
  <2>. HIDE DEF first
  <2>5. OwnedOf(first, ib) = OwnedOf(extents[p], indirect[p]) \cup {ib, db}
    BY <1>3, <2>1, <2>4 DEF OwnedOf, es
  <2>6. {ib, db} \cap dataBitmap = {}
    BY <2>2, <2>3
  <2>. QED  BY <1>1, <1>2, <2>1, <2>5, <2>6, EnteredBlocks
<1>6. ASSUME AddToLastBlock(p, nm, m)
      PROVE  LeakedBlocks' = LeakedBlocks
  <2>. DEFINE B == {}
  <2>1. extents' = [extents EXCEPT ![NewInode] = <<>>, ![p] = es]
    BY <1>2, <1>6 DEF AddToLastBlock, SpaceInv, TreeInv, TypeInv, TableInv, es
  <2>2. TakeBlocks(B) /\ UNCHANGED indirect /\ B \cap dataBitmap = {}
    BY <1>6 DEF AddToLastBlock
  <2>3. OwnedOf(es, indirect[p]) = OwnedOf(extents[p], indirect[p]) \cup B
    BY DEF es
  <2>. HIDE DEF B
  <2>. QED  BY <1>1, <1>2, <2>1, <2>2, <2>3, EnteredBlocks
<1>7. ASSUME AddToNextBlock(p, nm, m)
      PROVE  LeakedBlocks' = LeakedBlocks
  <2>. DEFINE l == Len(es)
              b == find_last_block(p) + 1
              e == [es[l] EXCEPT !.count = @ + 1]
              longer == [es EXCEPT ![l].count = @ + 1]
  <2>1. es # <<>> /\ l \in DOMAIN es /\ DOMAIN es = 1 .. l
    BY <1>1, <1>3, <1>7, LenProperties, EmptySeq DEF AddToNextBlock
  <2>2. es[l] \in Extent /\ es[l].start \in Nat /\ es[l].count \in Nat
    BY <1>1, <2>1, ExtentAt
  <2>3. b = es[l].start + es[l].count
    <3>1. b = es[l].start + es[l].count - 1 + 1
      BY DEF find_last_block, Last, es
    <3>. HIDE DEF b, e, longer, l
    <3>. QED  BY <2>2, <3>1
  <2>4. /\ b \notin dataBitmap /\ TakeBlocks({b})
        /\ UNCHANGED indirect
        /\ extents' = [extents EXCEPT ![NewInode] = <<>>,
                                      ![p][Len(extents[p])].count = @ + 1]
    BY <1>7 DEF AddToNextBlock, is_bit_set, Die
  <2>. HIDE DEF b
  <2>5. extents' = [extents EXCEPT ![NewInode] = <<>>, ![p] = longer]
    BY <1>2, <2>4 DEF SpaceInv, TreeInv, TypeInv, TableInv, es
  <2>6. ExtentBlocks(e) = ExtentBlocks(es[l]) \cup {b}
    <3>1. e.start = es[l].start /\ e.count = es[l].count + 1
      BY <2>2 DEF Extent
    <3>. HIDE DEF e, l
    <3>. QED  BY <2>2, <2>3, <3>1, ExtentResized
  <2>7. /\ DOMAIN longer = DOMAIN es /\ longer # <<>>
        /\ \A k \in DOMAIN es : longer[k] = IF k = l THEN e ELSE es[k]
    <3>1. DOMAIN longer = DOMAIN es
      OBVIOUS
    <3>2. longer # <<>>
      BY <2>1, <3>1
    <3>. QED  BY <2>1, <3>1, <3>2
  <2>8. /\ b \notin DataOf(es) /\ b # indirect[p] /\ Apart(es, indirect[p])
    BY <2>1, <2>4, OwnedByOne DEF es, SpaceInv
  <2>. HIDE DEF e, longer
  <2>9. DataOf(longer) = DataOf(es) \cup {b}
    <3>1. \A c : ExtentBlocks(e) = ExtentBlocks(es[Len(es)]) \cup {c}
                 /\ c \notin DataOf(es) /\ c # indirect[p] =>
                    DataOf(longer) = DataOf(es) \cup {c} /\ Apart(longer, indirect[p])
      BY <1>1, <2>1, <2>7, <2>8, LastExtentChanged
    <3>. QED  BY <2>6, <2>8, <3>1
  <2>10. {b} \cap dataBitmap = {}
    BY <2>4
  <2>. QED  BY <1>4, <2>1, <2>4, <2>5, <2>7, <2>9, <2>10
<1>8. ASSUME AddToNewExtent(p, nm, m)
      PROVE  LeakedBlocks' = LeakedBlocks
  <2>. DEFINE b == get_first_available_position(numOfDataBlocks, dataBitmap)
              more == Append(es, [start |-> b, count |-> 1])
  <2>1. /\ b # NotFound /\ TakeBlocks({b}) /\ UNCHANGED indirect
        /\ extents' = [extents EXCEPT ![NewInode] = <<>>,
                                      ![p] = Append(@, [start |-> b, count |-> 1])]
        /\ entries[p] # <<>>
    BY <1>8 DEF AddToNewExtent, FailNoSpace, Die
  <2>2. b \in Nat /\ b \notin dataBitmap
    BY <1>1, <2>1, FoundBlock
  <2>. HIDE DEF b
  <2>3. extents' = [extents EXCEPT ![NewInode] = <<>>, ![p] = more]
    BY <1>2, <2>1 DEF SpaceInv, TreeInv, TypeInv, TableInv, es
  <2>4. es # <<>>
    BY <1>3, <2>1
  <2>5. /\ b \notin DataOf(es) /\ b # indirect[p] /\ Apart(es, indirect[p])
    <3>. HIDE DEF more
    <3>. QED  BY <2>2, <2>4, OwnedByOne DEF es, SpaceInv
  <2>6. DataOf(more) = DataOf(es) \cup {b} /\ more # <<>>
    BY <1>1, <2>2, <2>4, <2>5, ExtentAdded
  <2>7. {b} \cap dataBitmap = {}
    BY <2>2
  <2>. HIDE DEF more
  <2>. QED  BY <1>4, <2>1, <2>3, <2>4, <2>6, <2>7
<1>. QED  BY <1>1, <1>5, <1>6, <1>7, <1>8

\* A removal gives back the last block of p, or all p has, and the freed inode owned
\* nothing.
LEMMA RemovedBlocks ==
  ASSUME SpaceInv,
         NEW p \in Inodes, NEW nm \in Names, NEW lost \in {0, 1}, Removed(p, nm, lost)
  PROVE  LeakedBlocks' = LeakedBlocks
<1>. DEFINE t == Lookup(p, nm)
<1>1. /\ t \in Inodes /\ t # p /\ entries[t] = <<>> /\ entries[p] # <<>>
  <2>1. /\ t \in Inodes /\ t # p /\ entries[t] = <<>>
        /\ [name |-> nm, ino |-> t] \in EntrySet(p)
    BY RemovedEntry DEF Removed, SpaceInv
  <2>. QED  BY <2>1, EntrySetTypes DEF SpaceInv, TreeInv, TypeInv
<1>2. /\ extents' = [extents EXCEPT ![t] = <<>>, ![p] = ExtentsKept(p)]
      /\ indirect' = indirect
      /\ dataBitmap' = dataBitmap \ BlocksGivenBack(p)
  BY DEF Removed, RemoveEntry
<1>. HIDE DEF t
<1>3. extents[t] = <<>>
  BY <1>1, NothingOwned DEF SpaceInv, TreeInv
<1>4. /\ extents'[p] = ExtentsKept(p)
      /\ \A i \in Inodes \ {p} : extents'[i] = extents[i]
  BY <1>1, <1>2, <1>3 DEF SpaceInv, TreeInv, TypeInv, TableInv
<1>5. /\ BlocksGivenBack(p) \subseteq OwnedBlocks(p)
      /\ OwnedOf(ExtentsKept(p), indirect[p]) =
            OwnedOf(extents[p], indirect[p]) \ BlocksGivenBack(p)
  BY <1>1, ExtentsKeptOwned DEF SpaceInv
<1>6. OwnedBlocks(p)' = OwnedBlocks(p) \ BlocksGivenBack(p)
  BY <1>2, <1>4, <1>5, OwnedIsOwnedOf, OwnedIsOwnedOfNext
<1>7. \A i \in Inodes \ {p} : OwnedBlocks(i)' = OwnedBlocks(i)
  BY <1>2, <1>4, OwnedIsOwnedOf, OwnedIsOwnedOfNext
<1>. DEFINE B == {}
            G == BlocksGivenBack(p)
<1>8. /\ B \cap dataBitmap = {} /\ dataBitmap' = (dataBitmap \cup B) \ G
      /\ OwnedBlocks(p)' = (OwnedBlocks(p) \cup B) \ G /\ G \subseteq OwnedBlocks(p)
  BY <1>2, <1>5, <1>6
<1>. HIDE DEF B, G
<1>. QED  BY <1>7, <1>8, LeaksUnchanged DEF SpaceInv

\* The inode that is entered gets its bit and its entry, the one removed loses both.
LEMMA LeakedInodesUnchanged ==
  ASSUME TreeInv, NEW p \in Inodes, NEW nm \in Names
  PROVE  /\ \A m \in {"dir", "reg"} : Entered(p, nm, m) => LeakedInodes' = LeakedInodes
         /\ \A lost \in {0, 1} : Removed(p, nm, lost) => LeakedInodes' = LeakedInodes
<1>1. ASSUME NEW m \in {"dir", "reg"}, Entered(p, nm, m)
      PROVE  LeakedInodes' = LeakedInodes
  <2>. DEFINE e == [name |-> nm, ino |-> NewInode]
  <2>1. EntryAdded(p, e, m)
    BY <1>1, EnteredEffect
  <2>2. e.ino \notin inodeBitmap /\ e.ino \in Inodes
    BY <1>1, NewInodeFresh DEF Entered
  <2>. HIDE DEF e
  <2>3. ASSUME NEW i \in Inodes
        PROVE  Linked(i)' <=> Linked(i) \/ i = e.ino
    BY <2>1, EntriesAsSets, EntriesAsSetsNext DEF EntryAdded
  <2>4. inodeBitmap' = inodeBitmap \cup {e.ino}
    BY <2>1 DEF EntryAdded
  <2>5. LinkedInodes' = LinkedInodes \cup {e.ino}
    BY <2>2, <2>3 DEF LinkedInodes
  <2>. QED  BY <2>2, <2>4, <2>5 DEF LeakedInodes
<1>2. ASSUME NEW lost \in {0, 1}, Removed(p, nm, lost)
      PROVE  LeakedInodes' = LeakedInodes
  <2>. DEFINE e == [name |-> nm, ino |-> Lookup(p, nm)]
  <2>1. EntryDropped(p, e, lost)
    BY <1>2, RemovedEffect
  <2>. HIDE DEF e
  <2>2. \A d \in Inodes : \A g \in EntrySet(d) : g.ino = e.ino => d = p /\ g = e
    BY <2>1, EntriesAsSets DEF EntryDropped, TreeInv, TypeInv, InodeInv
  <2>3. ASSUME NEW i \in Inodes
        PROVE  Linked(i)' <=> Linked(i) /\ i # e.ino
    <3>1. CASE i = e.ino
      BY <2>1, <2>2, <3>1, EntriesAsSetsNext DEF EntryDropped
    <3>2. CASE i # e.ino
      BY <2>1, <3>2, EntriesAsSets, EntriesAsSetsNext DEF EntryDropped
    <3>. QED  BY <3>1, <3>2
  <2>4. inodeBitmap' = inodeBitmap \ {e.ino}
    BY <2>1 DEF EntryDropped
  <2>5. LinkedInodes' = LinkedInodes \ {e.ino}
    BY <2>3 DEF LinkedInodes
  <2>6. Linked(e.ino) /\ e.ino \in Inodes
    BY <2>1, EntriesAsSets DEF EntryDropped
  <2>. QED  BY <2>4, <2>5, <2>6 DEF LeakedInodes, LinkedInodes
<1>. QED  BY <1>1, <1>2

\* Every step that returns 0 enters, removes, or does nothing.
LEMMA NextLeaksNothing ==
  SpaceInv /\ [Next]_vars => [ret' = "ok" => UNCHANGED <<LeakedInodes, LeakedBlocks>>]_vars
<1>. DEFINE Kept == UNCHANGED <<LeakedInodes, LeakedBlocks>>
<1>. SUFFICES ASSUME SpaceInv, [Next]_vars, ret' = "ok" PROVE Kept
  OBVIOUS
<1>. HIDE DEF Kept
<1>1. TypeInv
  BY DEF SpaceInv, TreeInv
<1>2. ASSUME NEW p \in Inodes, NEW nm \in Names, NEW m \in {"dir", "reg"},
             AddEntry(p, nm, m)
      PROVE  Kept
  <2>1. availableInodes > 0 /\ TakeInode /\ EnterIn(p, nm, m)
    BY <1>2 DEF AddEntry, AddToEmptyParent, AddToLastBlock, AddToNextBlock,
                AddToNewExtent, FailNoSpace, Die
  <2>2. Entered(p, nm, m)
    BY <1>2, <2>1 DEF AddEntry, Entered
  <2>. QED  BY <1>2, <2>2, AddedBlocks, LeakedInodesUnchanged DEF SpaceInv, Kept
<1>3. ASSUME NEW p \in Inodes, NEW nm \in Names, NEW lost \in {0, 1},
             Removed(p, nm, lost)
      PROVE  Kept
  BY <1>3, RemovedBlocks, LeakedInodesUnchanged DEF SpaceInv, Kept
<1>4. ASSUME UNCHANGED <<allocVars, fileVars>>
      PROVE  Kept
  BY <1>4 DEF Kept, LeakedInodes, LinkedInodes, Linked, LeakedBlocks, AllOwned,
              OwnedBlocks, DataBlocks, allocVars, fileVars
<1>5. ASSUME NEW p \in Inodes, NEW nm \in Names, RefusedRmdir(p, nm)
      PROVE  Kept
  BY <1>4, <1>5 DEF RefusedRmdir
<1>6. CASE Mount \/ UNCHANGED vars
  BY <1>4, <1>6 DEF Mount, vars
<1>7. CASE \E p \in Inodes, nm \in Names : Mkdir(p, nm) \/ Create(p, nm)
  BY <1>2, <1>7 DEF Mkdir, Create
<1>8. CASE \E p \in Inodes, nm \in Names : Rmdir(p, nm)
  BY <1>3, <1>5, <1>8 DEF Rmdir, Removed, RefusedRmdir
<1>9. CASE \E p \in Inodes, nm \in Names : Unlink(p, nm)
  <2>1. PICK p \in Inodes, nm \in Names : Unlink(p, nm)
    BY <1>9
  <2>2. Removed(p, nm, 0)
    BY <1>1, <2>1, UnlinkRemoves
  <2>. QED  BY <1>3, <2>2
<1>. QED  BY <1>6, <1>7, <1>8, <1>9 DEF Next, Callback

\* A callback that returns 0 neither loses an inode or a block nor recovers one that
\* an earlier failure lost: the bits that belong to nothing stay as they were.
THEOREM SuccessfulCallsLeakNothing == Spec => SuccessLeaksNothing
<1>1. Spec => []SpaceInv
  BY OwnerInvariant, TreeInvariant, PTL DEF SpaceInv
<1>. QED  BY <1>1, NextLeaksNothing, PTL DEF Spec, SuccessLeaksNothing

=============================================================================
