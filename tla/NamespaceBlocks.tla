-------------------------- MODULE NamespaceBlocks ---------------------------
(***************************************************************************)
(* Proofs about the inodes and blocks of Namespace, for every value of the *)
(* constants.  Inodes first, of which nothing depends on blocks: what is   *)
(* listed is allocated and listed once, and the counter of free inodes is  *)
(* exact.  Then the extents of a directory are shown to hold as many blocks*)
(* as its entries fill, which is what keeps find_last_block from reading an*)
(* extent that is not there.  Then who owns which block: the counter of free*)
(* blocks is exact, no block is owned twice and every owned block is marked.*)
(***************************************************************************)
EXTENDS Namespace, FiniteSetTheorems, SequenceTheorems, WellFoundedInduction, TLAPS

-----------------------------------------------------------------------------
(* Facts about the helpers. *)

\* A nonempty set of naturals has a least element.
LEMMA LeastElement ==
  ASSUME NEW T \in SUBSET Nat, T # {}
  PROVE  \E m \in T : \A k \in T : m <= k
<1>1. PICK m \in T : \A k \in T : <<k, m>> \notin OpToRel(<, Nat)
  BY NatLessThanWellFounded, WFMin
<1>2. \A k \in T : ~(k < m)
  BY <1>1 DEF OpToRel
<1>. QED  BY <1>2

\* A search that does not fail returns a clear position below n, and it fails
\* only when every position below n is set.
LEMMA SearchFindsClear ==
  ASSUME NEW n \in Nat, NEW bitmap
  PROVE  LET i == get_first_available_position(n, bitmap)
         IN  \/ i \in 0 .. n - 1 /\ i \notin bitmap
             \/ i = NotFound /\ 0 .. n - 1 \subseteq bitmap
<1>. DEFINE clear == {i \in 0 .. n - 1 : i \notin bitmap}
<1>1. CASE clear = {}
  BY <1>1 DEF get_first_available_position, is_bit_set
<1>2. CASE clear # {}
  <2>1. PICK m \in clear : \A k \in clear : m <= k
    <3>1. clear \in SUBSET Nat
      OBVIOUS
    <3>. HIDE DEF clear
    <3>. QED  BY <1>2, <3>1, LeastElement
  <2>2. IsFirstAvailable(m, n, bitmap)
    BY <2>1 DEF IsFirstAvailable, is_bit_set
  <2>. DEFINE i == CHOOSE j \in 0 .. n - 1 : IsFirstAvailable(j, n, bitmap)
  <2>3. i \in 0 .. n - 1 /\ IsFirstAvailable(i, n, bitmap)
    BY <2>1, <2>2
  <2>4. get_first_available_position(n, bitmap) = i
    BY <1>2 DEF get_first_available_position, is_bit_set
  <2>. QED  BY <2>3, <2>4 DEF IsFirstAvailable, is_bit_set
<1>. QED  BY <1>1, <1>2

\* Lookup returns the inode of an entry with that name.
LEMMA LookupFinds ==
  ASSUME NEW d \in Inodes, NEW nm, entries[d] \in Seq(Dentry), HasEntry(d, nm)
  PROVE  \E k \in DOMAIN entries[d] : entries[d][k].ino = Lookup(d, nm)
<1>. DEFINE es == entries[d]
            T  == {j \in DOMAIN es : es[j].name = nm}
            First(j) == es[j].name = nm /\ \A l \in 1 .. j - 1 : es[l].name # nm
<1>1. DOMAIN es = 1 .. Len(es) /\ Len(es) \in Nat
  BY LenProperties
<1>2. T \in SUBSET Nat /\ T # {}
  BY <1>1 DEF HasEntry
<1>3. PICK m \in T : \A k \in T : m <= k
  BY <1>2, LeastElement
<1>4. m \in DOMAIN es /\ First(m)
  BY <1>1, <1>3
<1>. DEFINE k == CHOOSE j \in DOMAIN es : First(j)
<1>5. k \in DOMAIN es
  BY <1>4
<1>6. Lookup(d, nm) = es[k].ino
  BY DEF Lookup
<1>. QED  BY <1>5, <1>6

\* Removing the entry at k moves the last one there: no entry for t is left, and
\* every other entry is kept once.
LEMMA RemovalKeepsTheRest ==
  ASSUME NEW es \in Seq(Dentry), NEW t, NEW k \in DOMAIN es, es[k].ino = t,
         \A i, j \in DOMAIN es : es[i].ino = es[j].ino => i = j
  PROVE  LET r == WithoutEntry(es, t)
         IN  /\ r \in Seq(Dentry)
             /\ Len(r) = Len(es) - 1
             /\ \A j \in DOMAIN r : r[j] = es[IF j = k THEN Len(es) ELSE j]
<1>. DEFINE n == Len(es)
<1>1. DOMAIN es = 1 .. n /\ n \in Nat /\ n > 0 /\ \A j \in 1 .. n : es[j] \in Dentry
  BY LenProperties, ElementOfSeq
<1>2. ASSUME NEW s \in Seq(Dentry), Len(s) = n
      PROVE  /\ Front(s) \in Seq(Dentry)
             /\ Len(Front(s)) = n - 1
             /\ DOMAIN Front(s) = 1 .. n - 1
             /\ \A j \in 1 .. n - 1 : Front(s)[j] = s[j]
  <2>1. \A j \in 1 .. n - 1 : s[j] \in Dentry
    BY <1>1, <1>2, ElementOfSeq
  <2>2. /\ Front(s) \in Seq(Dentry)
        /\ Len(Front(s)) = n - 1
        /\ \A j \in 1 .. n - 1 : Front(s)[j] = s[j]
    BY <1>1, <1>2, <2>1, SubSeqProperties DEF Front
  <2>. QED  BY <2>2, LenProperties
<1>3. CASE Last(es).ino = t
  <2>1. k = n
    BY <1>1, <1>3 DEF Last
  <2>2. WithoutEntry(es, t) = Front(es)
    BY <1>3 DEF WithoutEntry
  <2>3. /\ Front(es) \in Seq(Dentry)
        /\ Len(Front(es)) = n - 1
        /\ DOMAIN Front(es) = 1 .. n - 1
        /\ \A j \in 1 .. n - 1 : Front(es)[j] = es[j]
    BY <1>2
  <2>. HIDE DEF n
  <2>. QED  BY <1>1, <2>1, <2>2, <2>3 DEF n
<1>4. CASE Last(es).ino # t
  <2>. DEFINE First(j) == es[j].ino = t /\ \A l \in 1 .. j - 1 : es[l].ino # t
              c == CHOOSE j \in DOMAIN es : First(j)
              s == [es EXCEPT ![k] = Last(es)]
  <2>1. First(k)
    BY <1>1
  <2>2. c \in DOMAIN es /\ First(c)
    BY <2>1
  <2>3. c = k
    BY <2>2
  <2>4. WithoutEntry(es, t) = Front(s)
    BY <1>4, <2>3 DEF WithoutEntry
  <2>5. Last(es) \in Dentry /\ Last(es) = es[n]
    BY <1>1 DEF Last
  <2>6. s \in Seq(Dentry) /\ Len(s) = n /\ \A j \in 1 .. n : s[j] = IF j = k THEN es[n] ELSE es[j]
    BY <1>1, <2>5, ExceptSeq
  <2>7. /\ Front(s) \in Seq(Dentry)
        /\ Len(Front(s)) = n - 1
        /\ DOMAIN Front(s) = 1 .. n - 1
        /\ \A j \in 1 .. n - 1 : Front(s)[j] = s[j]
    BY <1>2, <2>6
  <2>. HIDE DEF s
  <2>. QED  BY <1>1, <2>4, <2>6, <2>7
<1>. QED  BY <1>3, <1>4

-----------------------------------------------------------------------------
(* The inductive invariant. *)

\* No entry names the root, so no removal frees it.
RootUnlisted ==
    \A d \in Inodes : \A k \in DOMAIN entries[d] : entries[d][k].ino # ROOT_INODE

InodeTypes ==
    /\ inodeBitmap \in SUBSET Inodes
    /\ availableInodes \in Nat
    /\ entries \in [Inodes -> Seq(Dentry)]

InodeInv ==
    /\ InodeTypes
    /\ InodesCounted
    /\ ListedOnce
    /\ LinkedAllocated
    /\ RootUnlisted

\* The inode table is finite, and so is every set of its inodes.
LEMMA InodesFinite ==
  /\ IsFiniteSet(Inodes) /\ Cardinality(Inodes) = NumInodes
  /\ \A S \in SUBSET Inodes : IsFiniteSet(S) /\ Cardinality(S) \in Nat
<1>1. IsFiniteSet(Inodes) /\ Cardinality(Inodes) = NumInodes
  BY FS_Interval, NumInodesAssumption DEF Inodes
<1>2. \A S \in SUBSET Inodes : IsFiniteSet(S) /\ Cardinality(S) \in Nat
  BY <1>1, FS_Subset, FS_CardinalityType
<1>. QED  BY <1>1, <1>2

\* As long as the counter is not 0 the search for an inode succeeds.
LEMMA NewInodeIsFree ==
  ASSUME InodeInv, availableInodes > 0
  PROVE  NewInode \in Inodes /\ NewInode \notin inodeBitmap
<1>1. CASE NewInode = NotFound /\ Inodes \subseteq inodeBitmap
  <2>1. inodeBitmap = Inodes
    BY <1>1 DEF InodeInv, InodeTypes
  <2>2. Cardinality(inodeBitmap) = NumInodes
    BY <2>1, InodesFinite
  <2>. QED  BY <2>2, NumInodesAssumption DEF InodeInv, InodeTypes, InodesCounted
<1>2. CASE NewInode \in Inodes /\ NewInode \notin inodeBitmap
  BY <1>2
<1>. QED
  BY <1>1, <1>2, SearchFindsClear, NumInodesAssumption DEF NewInode, Inodes

\* A formatted image: the root alone is allocated and named by nothing.
LEMMA InitInodeInv == Init => InodeInv
<1>. SUFFICES ASSUME Init PROVE InodeInv
  OBVIOUS
<1>1. ROOT_INODE \in Inodes
  BY NumInodesAssumption DEF Inodes, ROOT_INODE
<1>2. \A d \in Inodes : entries[d] = <<>> /\ DOMAIN entries[d] = {}
  BY DEF Init, Formatted
<1>3. InodeTypes
  BY <1>1, EmptySeq, NumInodesAssumption DEF Init, Formatted, InodeTypes
<1>4. InodesCounted
  <2>1. Cardinality({ROOT_INODE}) = 1
    BY FS_Singleton
  <2>. QED  BY <2>1, NumInodesAssumption DEF Init, Formatted, InodesCounted
<1>5. ListedOnce /\ RootUnlisted
  BY <1>2 DEF ListedOnce, RootUnlisted
<1>6. LinkedAllocated
  BY <1>2 DEF LinkedAllocated, Linked, Init, Formatted
<1>. QED  BY <1>3, <1>4, <1>5, <1>6 DEF InodeInv

\* The three things a callback does to inodes: enter a new one, abandon a new
\* one, remove one.
LEMMA TakeInodeCounted ==
  ASSUME InodeInv, availableInodes > 0, TakeInode
  PROVE  /\ inodeBitmap' = inodeBitmap \cup {NewInode}
         /\ inodeBitmap' \in SUBSET Inodes
         /\ availableInodes' \in Nat
         /\ InodesCounted'
<1>1. NewInode \in Inodes /\ NewInode \notin inodeBitmap
  BY NewInodeIsFree
<1>2. inodeBitmap' = inodeBitmap \cup {NewInode}
  BY DEF TakeInode, set_bitmap
<1>3. IsFiniteSet(inodeBitmap) /\ Cardinality(inodeBitmap) \in Nat
  BY InodesFinite DEF InodeInv, InodeTypes
<1>4. Cardinality(inodeBitmap') = Cardinality(inodeBitmap) + 1
  BY <1>1, <1>2, <1>3, FS_AddElement
<1>5. availableInodes' = availableInodes - 1 /\ availableInodes \in Nat
  BY DEF TakeInode, InodeInv, InodeTypes
<1>6. InodesCounted'
  BY <1>3, <1>4, <1>5, NumInodesAssumption DEF InodeInv, InodesCounted
<1>. QED  BY <1>1, <1>2, <1>5, <1>6 DEF InodeInv, InodeTypes

\* The inode taken was clear, hence named by no entry, and gets one entry.
LEMMA EnterKeepsInodeInv ==
  ASSUME InodeInv, availableInodes > 0, TakeInode,
         NEW p \in Inodes, Linked(p), NEW nm \in Names,
         entries' = [entries EXCEPT
                       ![NewInode] = <<>>,
                       ![p] = Append(@, [name |-> nm, ino |-> NewInode])]
  PROVE  InodeInv'
<1>. DEFINE new == NewInode
            e   == [name |-> nm, ino |-> new]
            n   == Len(entries[p])
<1>1. new \in Inodes /\ new \notin inodeBitmap
  BY NewInodeIsFree
<1>2. p # new /\ new # ROOT_INODE /\ ROOT_INODE \in inodeBitmap
  BY <1>1, NumInodesAssumption DEF InodeInv, LinkedAllocated, Linked, Inodes, ROOT_INODE
<1>3. /\ inodeBitmap' = inodeBitmap \cup {new}
      /\ inodeBitmap' \in SUBSET Inodes
      /\ availableInodes' \in Nat
      /\ InodesCounted'
  BY TakeInodeCounted
<1>4. entries[p] \in Seq(Dentry) /\ n \in Nat /\ e \in Dentry
  BY <1>1, LenProperties DEF InodeInv, InodeTypes, Dentry
<1>5. /\ entries'[p] \in Seq(Dentry)
      /\ DOMAIN entries'[p] = 1 .. n + 1
      /\ \A k \in 1 .. n : entries'[p][k] = entries[p][k]
      /\ entries'[p][n + 1] = e
  <2>1. entries'[p] = Append(entries[p], e)
    BY <1>1, <1>2 DEF InodeInv, InodeTypes
  <2>2. /\ Append(entries[p], e) \in Seq(Dentry)
        /\ Len(Append(entries[p], e)) = n + 1
        /\ \A k \in 1 .. n : Append(entries[p], e)[k] = entries[p][k]
        /\ Append(entries[p], e)[n + 1] = e
    BY <1>4, AppendProperties
  <2>. QED  BY <2>1, <2>2, LenProperties
<1>6. entries'[new] = <<>> /\ DOMAIN entries'[new] = {}
  BY <1>1, <1>2 DEF InodeInv, InodeTypes
<1>7. \A d \in Inodes \ {p, new} : entries'[d] = entries[d]
  BY <1>1 DEF InodeInv, InodeTypes
<1>8. InodeTypes'
  <2>1. entries' \in [Inodes -> Seq(Dentry)]
    <3>1. DOMAIN entries' = Inodes /\ entries' = [d \in Inodes |-> entries'[d]]
      BY DEF InodeInv, InodeTypes
    <3>2. \A d \in Inodes : entries'[d] \in Seq(Dentry)
      BY <1>5, <1>6, <1>7, EmptySeq DEF InodeInv, InodeTypes
    <3>. QED  BY <3>1, <3>2
  <2>. QED  BY <1>3, <2>1 DEF InodeTypes
<1>9. \A d \in Inodes : \A k \in DOMAIN entries'[d] :
         \/ k \in DOMAIN entries[d] /\ entries'[d][k] = entries[d][k]
         \/ d = p /\ k = n + 1 /\ entries'[d][k] = e
  <2>1. DOMAIN entries[p] = 1 .. n
    BY <1>4, LenProperties
  <2>2. \A k \in 1 .. n + 1 : k \in 1 .. n \/ k = n + 1
    BY <1>4
  <2>. HIDE DEF e, n, new
  <2>. QED  BY <1>5, <1>6, <1>7, <2>1, <2>2
<1>10. \A d \in Inodes : \A k \in DOMAIN entries[d] : entries[d][k].ino \in inodeBitmap
  <2>. SUFFICES ASSUME NEW d \in Inodes, NEW k \in DOMAIN entries[d]
                PROVE  entries[d][k].ino \in inodeBitmap
    OBVIOUS
  <2>1. entries[d][k] \in Dentry
    BY LenProperties, ElementOfSeq DEF InodeInv, InodeTypes
  <2>. QED  BY <2>1 DEF InodeInv, LinkedAllocated, Linked, Dentry
<1>11. ListedOnce'
  <2>. SUFFICES ASSUME NEW d \in Inodes, NEW f \in Inodes,
                       NEW k \in DOMAIN entries'[d], NEW l \in DOMAIN entries'[f],
                       entries'[d][k].ino = entries'[f][l].ino
                PROVE  d = f /\ k = l
    BY DEF ListedOnce
  <2>1. e.ino = new
    OBVIOUS
  <2>. HIDE DEF e, n, new
  <2>2. CASE /\ k \in DOMAIN entries[d] /\ entries'[d][k] = entries[d][k]
             /\ l \in DOMAIN entries[f] /\ entries'[f][l] = entries[f][l]
    BY <2>2 DEF InodeInv, ListedOnce
  <2>3. CASE /\ d = p /\ k = n + 1 /\ entries'[d][k] = e
             /\ f = p /\ l = n + 1
    BY <2>3
  <2>4. CASE /\ entries'[d][k] = e
             /\ l \in DOMAIN entries[f] /\ entries'[f][l] = entries[f][l]
    BY <2>1, <2>4, <1>1, <1>10
  <2>5. CASE /\ entries'[f][l] = e
             /\ k \in DOMAIN entries[d] /\ entries'[d][k] = entries[d][k]
    BY <2>1, <2>5, <1>1, <1>10
  <2>. QED  BY <1>9, <2>2, <2>3, <2>4, <2>5
<1>12. LinkedAllocated'
  <2>. SUFFICES ASSUME NEW i \in Inodes, Linked(i)' PROVE i \in inodeBitmap'
    BY DEF LinkedAllocated
  <2>1. e.ino = new
    OBVIOUS
  <2>2. CASE i = ROOT_INODE
    BY <1>2, <1>3, <2>2
  <2>3. CASE \E d \in Inodes : \E k \in DOMAIN entries'[d] : entries'[d][k].ino = i
    <3>. HIDE DEF e, n, new
    <3>. QED  BY <1>3, <1>9, <1>10, <2>1, <2>3 DEF new
  <2>. QED  BY <2>2, <2>3 DEF Linked
<1>13. RootUnlisted'
  <2>. SUFFICES ASSUME NEW d \in Inodes, NEW k \in DOMAIN entries'[d]
                PROVE  entries'[d][k].ino # ROOT_INODE
    BY DEF RootUnlisted
  <2>1. e.ino = new
    OBVIOUS
  <2>. HIDE DEF e, n, new
  <2>2. CASE k \in DOMAIN entries[d] /\ entries'[d][k] = entries[d][k]
    BY <2>2 DEF InodeInv, RootUnlisted
  <2>3. CASE entries'[d][k] = e
    BY <1>2, <2>1, <2>3
  <2>. QED  BY <1>9, <2>2, <2>3
<1>. QED  BY <1>3, <1>8, <1>11, <1>12, <1>13 DEF InodeInv

\* Fewer entries over more allocated inodes.
LEMMA AbandonKeepsInodeInv ==
  ASSUME InodeInv, availableInodes > 0, TakeInode,
         entries' = [entries EXCEPT ![NewInode] = <<>>]
  PROVE  InodeInv'
<1>1. NewInode \in Inodes
  BY NewInodeIsFree
<1>2. /\ inodeBitmap' = inodeBitmap \cup {NewInode}
      /\ inodeBitmap' \in SUBSET Inodes
      /\ availableInodes' \in Nat
      /\ InodesCounted'
  BY TakeInodeCounted
<1>3. InodeTypes'
  BY <1>1, <1>2, EmptySeq DEF InodeInv, InodeTypes
<1>4. \A d \in Inodes : \A k \in DOMAIN entries'[d] :
         k \in DOMAIN entries[d] /\ entries'[d][k] = entries[d][k]
  BY DEF InodeInv, InodeTypes
<1>5. ListedOnce'
  BY <1>4 DEF InodeInv, ListedOnce
<1>6. LinkedAllocated'
  BY <1>2, <1>4 DEF InodeInv, LinkedAllocated, Linked
<1>7. RootUnlisted'
  BY <1>4 DEF InodeInv, RootUnlisted
<1>. QED  BY <1>2, <1>3, <1>5, <1>6, <1>7 DEF InodeInv

\* The entry for t was its only one; once it is gone, t may be freed.
LEMMA RemoveKeepsInodeInv ==
  ASSUME InodeInv,
         NEW p \in Inodes, NEW k \in DOMAIN entries[p], NEW t, t = entries[p][k].ino,
         inodeBitmap' = unset_bitmap(inodeBitmap, t),
         availableInodes' = availableInodes + 1,
         entries' = [entries EXCEPT ![p] = WithoutEntry(@, t)]
  PROVE  InodeInv'
<1>. DEFINE n == Len(entries[p])
            from(j) == IF j = k THEN n ELSE j
<1>1. /\ entries[p] \in Seq(Dentry) /\ n \in Nat
      /\ DOMAIN entries[p] = 1 .. n
      /\ k \in 1 .. n
      /\ entries[p][k] \in Dentry
  BY LenProperties, ElementOfSeq DEF InodeInv, InodeTypes
<1>2. t \in Inodes /\ t \in inodeBitmap /\ t # ROOT_INODE
  BY <1>1 DEF InodeInv, LinkedAllocated, RootUnlisted, Linked, Dentry
<1>3. /\ entries'[p] \in Seq(Dentry)
      /\ DOMAIN entries'[p] = 1 .. n - 1
      /\ \A j \in 1 .. n - 1 : entries'[p][j] = entries[p][from(j)]
  <2>1. \A i, j \in DOMAIN entries[p] : entries[p][i].ino = entries[p][j].ino => i = j
    BY DEF InodeInv, ListedOnce
  <2>2. entries'[p] = WithoutEntry(entries[p], t)
    BY DEF InodeInv, InodeTypes
  <2>. DEFINE r == WithoutEntry(entries[p], t)
  <2>3. /\ r \in Seq(Dentry)
        /\ Len(r) = n - 1
        /\ \A j \in DOMAIN r : r[j] = entries[p][from(j)]
    <3>. DEFINE es == entries[p]
    <3>1. /\ es \in Seq(Dentry) /\ k \in DOMAIN es /\ es[k].ino = t
          /\ \A i, j \in DOMAIN es : es[i].ino = es[j].ino => i = j
      BY <1>1, <2>1
    <3>. HIDE DEF es
    <3>2. /\ WithoutEntry(es, t) \in Seq(Dentry)
          /\ Len(WithoutEntry(es, t)) = Len(es) - 1
          /\ \A j \in DOMAIN WithoutEntry(es, t) :
                WithoutEntry(es, t)[j] = es[IF j = k THEN Len(es) ELSE j]
      BY <3>1, RemovalKeepsTheRest
    <3>. QED  BY <3>2 DEF es
  <2>4. DOMAIN r = 1 .. n - 1
    BY <2>3, LenProperties
  <2>. QED  BY <2>2, <2>3, <2>4
<1>4. \A d \in Inodes \ {p} : entries'[d] = entries[d]
  BY DEF InodeInv, InodeTypes
<1>5. InodesCounted' /\ availableInodes' \in Nat /\ inodeBitmap' \in SUBSET Inodes
  <2>1. inodeBitmap' = inodeBitmap \ {t}
    BY DEF unset_bitmap
  <2>2. IsFiniteSet(inodeBitmap) /\ Cardinality(inodeBitmap) \in Nat
    BY InodesFinite DEF InodeInv, InodeTypes
  <2>3. Cardinality(inodeBitmap') = Cardinality(inodeBitmap) - 1
    <3>1. Cardinality(inodeBitmap \ {t}) = Cardinality(inodeBitmap) - 1
      <4>. DEFINE S == inodeBitmap
      <4>1. t \in S /\ IsFiniteSet(S)
        BY <1>2, <2>2
      <4>. HIDE DEF S
      <4>2. Cardinality(S \ {t}) = Cardinality(S) - 1
        BY <4>1, FS_RemoveElement
      <4>. QED  BY <4>2 DEF S
    <3>. QED  BY <2>1, <3>1
  <2>. QED
    BY <2>1, <2>2, <2>3, NumInodesAssumption DEF InodeInv, InodeTypes, InodesCounted
<1>6. InodeTypes'
  <2>1. entries' \in [Inodes -> Seq(Dentry)]
    BY <1>3 DEF InodeInv, InodeTypes
  <2>. QED  BY <1>5, <2>1 DEF InodeTypes
<1>. DEFINE old(d, j) == IF d = p THEN from(j) ELSE j
<1>7. \A d \in Inodes : \A j \in DOMAIN entries'[d] :
         /\ old(d, j) \in DOMAIN entries[d]
         /\ entries'[d][j] = entries[d][old(d, j)]
         /\ d = p => old(d, j) # k
  <2>. SUFFICES ASSUME NEW d \in Inodes, NEW j \in DOMAIN entries'[d]
                PROVE  /\ old(d, j) \in DOMAIN entries[d]
                       /\ entries'[d][j] = entries[d][old(d, j)]
                       /\ d = p => old(d, j) # k
    OBVIOUS
  <2>1. CASE d # p
    BY <1>4, <2>1
  <2>2. CASE d = p
    <3>. HIDE DEF n
    <3>1. j \in 1 .. n - 1 /\ entries'[p][j] = entries[p][from(j)]
      BY <1>3, <2>2
    <3>2. from(j) \in 1 .. n /\ from(j) # k
      BY <1>1, <3>1
    <3>. QED  BY <1>1, <2>2, <3>1, <3>2
  <2>. QED  BY <2>1, <2>2
<1>8. \A d \in Inodes : \A i, j \in DOMAIN entries'[d] : old(d, i) = old(d, j) => i = j
  BY <1>1, <1>3
<1>9. ListedOnce'
  <2>. SUFFICES ASSUME NEW d \in Inodes, NEW f \in Inodes,
                       NEW i \in DOMAIN entries'[d], NEW j \in DOMAIN entries'[f],
                       entries'[d][i].ino = entries'[f][j].ino
                PROVE  d = f /\ i = j
    BY DEF ListedOnce
  <2>. HIDE DEF old
  <2>1. entries[d][old(d, i)].ino = entries[f][old(f, j)].ino
    BY <1>7
  <2>2. d = f /\ old(d, i) = old(f, j)
    <3>1. old(d, i) \in DOMAIN entries[d] /\ old(f, j) \in DOMAIN entries[f]
      BY <1>7
    <3>. QED  BY <2>1, <3>1 DEF InodeInv, ListedOnce
  <2>. QED  BY <1>8, <2>2
<1>10. RootUnlisted'
  <2>. HIDE DEF old
  <2>. QED  BY <1>7 DEF InodeInv, RootUnlisted
<1>11. LinkedAllocated'
  <2>. SUFFICES ASSUME NEW i \in Inodes, Linked(i)' PROVE i \in inodeBitmap'
    BY DEF LinkedAllocated
  <2>1. inodeBitmap' = inodeBitmap \ {t}
    BY DEF unset_bitmap
  <2>2. CASE i = ROOT_INODE
    BY <1>2, <2>1, <2>2 DEF InodeInv, LinkedAllocated, Linked
  <2>3. ASSUME NEW d \in Inodes, NEW j \in DOMAIN entries'[d], entries'[d][j].ino = i
        PROVE  i \in inodeBitmap'
    <3>. HIDE DEF old
    <3>1. entries[d][old(d, j)].ino = i /\ old(d, j) \in DOMAIN entries[d]
      BY <1>7, <2>3
    <3>2. i \in inodeBitmap
      BY <3>1 DEF InodeInv, LinkedAllocated, Linked
    <3>3. i # t
      BY <1>1, <1>7, <3>1 DEF InodeInv, ListedOnce
    <3>. QED  BY <2>1, <3>2, <3>3
  <2>. QED  BY <2>2, <2>3 DEF Linked
<1>. QED  BY <1>5, <1>6, <1>9, <1>10, <1>11 DEF InodeInv

-----------------------------------------------------------------------------
(* The steps. *)

\* Each way an addition ends either enters the new inode or abandons it.
LEMMA AddEntryKeepsInodeInv ==
  ASSUME InodeInv, NEW p \in Inodes, NEW nm \in Names, NEW m, AddEntry(p, nm, m)
  PROVE  InodeInv'
<1>1. Linked(p)
  BY DEF AddEntry, IsDirectory
<1>2. CASE UNCHANGED <<allocVars, fileVars>>
  BY <1>2 DEF InodeInv, InodeTypes, InodesCounted, ListedOnce, LinkedAllocated,
              RootUnlisted, Linked, allocVars, fileVars
<1>3. CASE /\ availableInodes > 0 /\ TakeInode
           /\ EnterIn(p, nm, m) \/ AbandonInode(m)
  <2>1. CASE EnterIn(p, nm, m)
    BY <1>1, <1>3, <2>1, EnterKeepsInodeInv DEF EnterIn
  <2>2. CASE AbandonInode(m)
    BY <1>3, <2>2, AbandonKeepsInodeInv DEF AbandonInode
  <2>. QED  BY <1>3, <2>1, <2>2
<1>4. ASSUME \/ AddToEmptyParent(p, nm, m) \/ AddToLastBlock(p, nm, m)
             \/ AddToNextBlock(p, nm, m) \/ AddToNewExtent(p, nm, m)
      PROVE  EnterIn(p, nm, m) \/ AbandonInode(m)
  BY <1>4 DEF AddToEmptyParent, AddToLastBlock, AddToNextBlock, AddToNewExtent,
              FailNoSpace, Die
<1>. QED  BY <1>2, <1>3, <1>4 DEF AddEntry

\* The removal as rmdir and unlink make it.
LEMMA RemoveEntryKeepsInodeInv ==
  ASSUME InodeInv, NEW p \in Inodes, NEW nm \in Names, HasEntry(p, nm),
         NEW freed, NEW count, NEW lost,
         RemoveEntry(p, Lookup(p, nm), freed, count, lost)
  PROVE  InodeInv'
<1>1. entries[p] \in Seq(Dentry)
  BY DEF InodeInv, InodeTypes
<1>2. PICK k \in DOMAIN entries[p] : entries[p][k].ino = Lookup(p, nm)
  BY <1>1, LookupFinds
<1>. QED  BY <1>2, RemoveKeepsInodeInv DEF RemoveEntry

\* One step for each callback and for a mount.
LEMMA NextKeepsInodeInv == InodeInv /\ [Next]_vars => InodeInv'
<1>. SUFFICES ASSUME InodeInv, [Next]_vars PROVE InodeInv'
  OBVIOUS
<1>1. ASSUME UNCHANGED <<allocVars, fileVars>>
      PROVE  InodeInv'
  BY <1>1 DEF InodeInv, InodeTypes, InodesCounted, ListedOnce, LinkedAllocated,
              RootUnlisted, Linked, allocVars, fileVars
<1>2. CASE Mount
  BY <1>1, <1>2 DEF Mount
<1>3. ASSUME NEW p \in Inodes, NEW nm \in Names, Mkdir(p, nm)
      PROVE  InodeInv'
  BY <1>3, AddEntryKeepsInodeInv DEF Mkdir
<1>4. ASSUME NEW p \in Inodes, NEW nm \in Names, Create(p, nm)
      PROVE  InodeInv'
  BY <1>4, AddEntryKeepsInodeInv DEF Create
<1>5. ASSUME NEW p \in Inodes, NEW nm \in Names, Rmdir(p, nm)
      PROVE  InodeInv'
  BY <1>1, <1>5, RemoveEntryKeepsInodeInv DEF Rmdir
<1>6. ASSUME NEW p \in Inodes, NEW nm \in Names, Unlink(p, nm)
      PROVE  InodeInv'
  BY <1>6, RemoveEntryKeepsInodeInv DEF Unlink
<1>7. CASE UNCHANGED vars
  BY <1>1, <1>7 DEF vars
<1>. QED  BY <1>2, <1>3, <1>4, <1>5, <1>6, <1>7 DEF Next, Callback

\* In every reachable state the inodes are accounted for: the invariant of this
\* module, from which the next three theorems are read off.
THEOREM InodeInvariant == Spec => []InodeInv
<1>. QED  BY InitInodeInv, NextKeepsInodeInv, PTL DEF Spec

\* available_inodes is exact after every callback, whatever it returned.
THEOREM InodesAreCounted == Spec => []InodesCounted
<1>1. InodeInv => InodesCounted
  BY DEF InodeInv
<1>. QED  BY <1>1, InodeInvariant, PTL

\* No inode is reached through two entries.
THEOREM EntriesListInodesOnce == Spec => []ListedOnce
<1>1. InodeInv => ListedOnce
  BY DEF InodeInv
<1>. QED  BY <1>1, InodeInvariant, PTL

\* Nothing that can be reached is offered to a new file or directory.
THEOREM LinkedIsAllocated == Spec => []LinkedAllocated
<1>1. InodeInv => LinkedAllocated
  BY DEF InodeInv
<1>. QED  BY <1>1, InodeInvariant, PTL

-----------------------------------------------------------------------------
(* Entries and the extents that hold them. *)

D == DentriesPerBlock

\* The extents es hold the blocks that n entries fill, and none is empty.  f[k]
\* is the number of blocks in the first k extents.
Fits(es, n) ==
    \E f \in [0 .. Len(es) -> Nat] :
        /\ f[0] = 0
        /\ \A k \in 1 .. Len(es) : es[k].count > 0 /\ f[k] = f[k - 1] + es[k].count
        /\ f[Len(es)] * D - D < n /\ n <= f[Len(es)] * D

\* n entries that fill c blocks fill them completely when n % D is 0, and the
\* last block holds one entry when n % D is 1.
LEMMA LastBlockEntries ==
  ASSUME NEW n \in Nat, NEW c \in Nat, c * D - D < n, n <= c * D
  PROVE  /\ n % D = 0 <=> n = c * D
         /\ n % D = 1 <=> n = c * D - D + 1
<1>1. D \in Nat /\ D > 1
  BY DentriesAssumption DEF D
<1>. HIDE DEF D
<1>. DEFINE q == n \div D
            r == n % D
<1>2. q \in Nat /\ r \in 0 .. D - 1 /\ n = D * q + r
  BY <1>1
<1>. HIDE DEF q, r
<1>3. CASE q >= c
  <2>1. D * q >= D * c
    BY <1>1, <1>2, <1>3
  <2>2. n = c * D /\ r = 0
    BY <1>1, <1>2, <2>1
  <2>. QED  BY <1>1, <2>2 DEF r
<1>4. CASE q = c - 1
  <2>1. D * q = c * D - D
    BY <1>1, <1>2, <1>4
  <2>2. n = c * D - D + r /\ r > 0
    BY <1>1, <1>2, <2>1
  <2>. QED  BY <1>1, <1>2, <2>2 DEF r
<1>5. CASE q <= c - 2
  <2>1. D * q <= D * (c - 2)
    BY <1>1, <1>2, <1>5
  <2>2. D * (c - 2) = c * D - 2 * D
    BY <1>1, <1>2
  <2>. QED  BY <1>1, <1>2, <2>1, <2>2
<1>. QED  BY <1>2, <1>3, <1>4, <1>5

\* An extent of a sequence has a start and a count.
LEMMA ExtentAt ==
  ASSUME NEW es \in Seq(Extent), NEW k \in 1 .. Len(es)
  PROVE  es[k] \in Extent /\ es[k].start \in Nat /\ es[k].count \in Nat
<1>1. es[k] \in Extent
  BY ElementOfSeq
<1>. QED  BY <1>1 DEF Extent

\* Front drops the last extent and keeps the others.
LEMMA FrontKeeps ==
  ASSUME NEW es \in Seq(Extent), es # <<>>
  PROVE  /\ Front(es) \in Seq(Extent)
         /\ Len(Front(es)) = Len(es) - 1
         /\ \A k \in 1 .. Len(es) - 1 : Front(es)[k] = es[k]
<1>. DEFINE m == Len(es) - 1
            r == SubSeq(es, 1, m)
<1>1. m \in Int /\ 1 \in Int /\ m >= 0
  BY LenProperties, EmptySeq
<1>2. \A k \in 1 .. m : es[k] \in Extent
  BY <1>1, ExtentAt
<1>3. /\ r \in Seq(Extent)
      /\ Len(r) = IF 1 <= m THEN m - 1 + 1 ELSE 0
      /\ \A i \in 1 .. m - 1 + 1 : r[i] = es[1 + i - 1]
  <2>. HIDE DEF m
  <2>. QED  BY <1>1, <1>2, SubSeqProperties
<1>4. Front(es) = r
  BY DEF Front
<1>. HIDE DEF r
<1>. QED  BY <1>1, <1>3, <1>4

\* A directory has extents exactly when it has entries.
LEMMA FitsNonempty ==
  ASSUME NEW es \in Seq(Extent), NEW n \in Nat, Fits(es, n)
  PROVE  n = 0 <=> es = <<>>
<1>1. D \in Nat /\ D > 1
  BY DentriesAssumption DEF D
<1>. DEFINE l == Len(es)
<1>2. l \in Nat
  BY LenProperties
<1>3. PICK f \in [0 .. l -> Nat] :
        /\ f[0] = 0
        /\ \A k \in 1 .. l : es[k].count > 0 /\ f[k] = f[k - 1] + es[k].count
        /\ f[l] * D - D < n /\ n <= f[l] * D
  BY DEF Fits
<1>4. CASE es = <<>>
  <2>1. l = 0
    BY <1>4
  <2>. QED  BY <1>1, <1>3, <1>4, <2>1
<1>5. CASE es # <<>>
  <2>1. l > 0
    BY <1>2, <1>5, EmptySeq
  <2>2. es[l].count \in Nat
    BY <1>2, <2>1, ExtentAt
  <2>3. f[l] > 0 /\ f[l] \in Nat
    BY <1>2, <1>3, <2>1, <2>2
  <2>4. f[l] * D >= D
    BY <1>1, <2>3
  <2>. QED  BY <1>1, <1>3, <1>5, <2>3, <2>4
<1>. QED  BY <1>4, <1>5

\* Only the number of blocks counts: entries come and go within the last block.
LEMMA FitsSameBlocks ==
  ASSUME NEW es \in Seq(Extent), NEW n \in Nat, Fits(es, n)
  PROVE  /\ n % D # 0 => Fits(es, n + 1)
         /\ n % D # 1 /\ n > 0 => Fits(es, n - 1)
<1>1. D \in Nat /\ D > 1
  BY DentriesAssumption DEF D
<1>. DEFINE l == Len(es)
<1>2. l \in Nat
  BY LenProperties
<1>3. PICK f \in [0 .. l -> Nat] :
        /\ f[0] = 0
        /\ \A k \in 1 .. l : es[k].count > 0 /\ f[k] = f[k - 1] + es[k].count
        /\ f[l] * D - D < n /\ n <= f[l] * D
  BY DEF Fits
<1>. DEFINE c == f[l]
<1>4. c \in Nat /\ c * D \in Nat
  BY <1>1, <1>2
<1>5. /\ n % D = 0 <=> n = c * D
      /\ n % D = 1 <=> n = c * D - D + 1
  <2>. HIDE DEF c
  <2>1. c * D - D < n /\ n <= c * D
    BY <1>3 DEF c
  <2>. QED  BY <1>4, <2>1, LastBlockEntries
<1>6. ASSUME n % D # 0
      PROVE  Fits(es, n + 1)
  <2>1. c * D - D < n + 1 /\ n + 1 <= c * D
    BY <1>1, <1>3, <1>4, <1>5, <1>6
  <2>. QED  BY <1>3, <2>1 DEF Fits
<1>7. ASSUME n % D # 1, n > 0
      PROVE  Fits(es, n - 1)
  <2>1. c * D - D < n - 1 /\ n - 1 <= c * D
    BY <1>1, <1>3, <1>4, <1>5, <1>7
  <2>. QED  BY <1>3, <2>1 DEF Fits
<1>. QED  BY <1>6, <1>7

\* One more block, full or with a single entry in it, as a block of the last
\* extent or as an extent of its own.
LEMMA FitsOneMore ==
  ASSUME NEW es \in Seq(Extent), NEW n \in Nat, Fits(es, n), n % D = 0,
         NEW b \in Nat
  PROVE  /\ Append(es, [start |-> b, count |-> 1]) \in Seq(Extent)
         /\ Fits(Append(es, [start |-> b, count |-> 1]), n + 1)
         /\ n > 0 => LET longer == [es EXCEPT ![Len(es)].count = @ + 1]
                     IN  longer \in Seq(Extent) /\ Fits(longer, n + 1)
<1>1. D \in Nat /\ D > 1
  BY DentriesAssumption DEF D
<1>. DEFINE l == Len(es)
            e == [start |-> b, count |-> 1]
<1>2. l \in Nat
  BY LenProperties
<1>3. PICK f \in [0 .. l -> Nat] :
        /\ f[0] = 0
        /\ \A k \in 1 .. l : es[k].count > 0 /\ f[k] = f[k - 1] + es[k].count
        /\ f[l] * D - D < n /\ n <= f[l] * D
  BY DEF Fits
<1>. DEFINE c == f[l]
<1>4. c \in Nat /\ c * D \in Nat /\ (c + 1) * D = c * D + D
  BY <1>1, <1>2
<1>5. n = c * D
  <2>. HIDE DEF c
  <2>1. c * D - D < n /\ n <= c * D
    BY <1>3 DEF c
  <2>. QED  BY <1>4, <2>1, LastBlockEntries
<1>6. (c + 1) * D - D < n + 1 /\ n + 1 <= (c + 1) * D
  BY <1>1, <1>4, <1>5
<1>7. Append(es, e) \in Seq(Extent) /\ Fits(Append(es, e), n + 1)
  <2>. DEFINE s == Append(es, e)
              g == [k \in 0 .. l + 1 |-> IF k = l + 1 THEN c + 1 ELSE f[k]]
  <2>1. e \in Extent
    BY DEF Extent
  <2>2. /\ s \in Seq(Extent) /\ Len(s) = l + 1
        /\ \A k \in 1 .. l : s[k] = es[k]
        /\ s[l + 1] = e
    BY <2>1, AppendProperties
  <2>3. g \in [0 .. l + 1 -> Nat] /\ g[0] = 0 /\ g[l + 1] = c + 1
    BY <1>2, <1>3, <1>4
  <2>4. ASSUME NEW k \in 1 .. l + 1
        PROVE  s[k].count > 0 /\ g[k] = g[k - 1] + s[k].count
    <3>1. CASE k = l + 1
      BY <1>2, <1>4, <2>2, <3>1
    <3>2. CASE k \in 1 .. l
      BY <1>2, <1>3, <2>2, <3>2
    <3>. QED  BY <1>2, <3>1, <3>2
  <2>5. Fits(s, n + 1)
    <3>. HIDE DEF s, g, c
    <3>. QED  BY <1>6, <2>2, <2>3, <2>4 DEF Fits
  <2>. QED  BY <2>2, <2>5
<1>8. ASSUME n > 0
      PROVE  LET s == [es EXCEPT ![l].count = @ + 1]
             IN  s \in Seq(Extent) /\ Fits(s, n + 1)
  <2>. DEFINE s == [es EXCEPT ![l].count = @ + 1]
              g == [f EXCEPT ![l] = c + 1]
  <2>1. l > 0
    BY <1>2, <1>8, FitsNonempty, EmptySeq
  <2>2. es[l].start \in Nat /\ es[l].count \in Nat /\ es[l] \in Extent
    BY <1>2, <2>1, ExtentAt
  <2>3. [es[l] EXCEPT !.count = @ + 1] \in Extent
    BY <2>2 DEF Extent
  <2>4. s = [es EXCEPT ![l] = [es[l] EXCEPT !.count = @ + 1]]
    OBVIOUS
  <2>5. /\ s \in Seq(Extent) /\ Len(s) = l
        /\ \A k \in 1 .. l : s[k] = IF k = l THEN [es[l] EXCEPT !.count = @ + 1] ELSE es[k]
    BY <1>2, <2>1, <2>3, <2>4, ExceptSeq
  <2>6. g \in [0 .. l -> Nat] /\ g[0] = 0 /\ g[l] = c + 1
    BY <1>2, <1>3, <1>4, <2>1
  <2>7. [es[l] EXCEPT !.count = @ + 1].count = es[l].count + 1
    BY <2>2 DEF Extent
  <2>8. ASSUME NEW k \in 1 .. l
        PROVE  s[k].count > 0 /\ g[k] = g[k - 1] + s[k].count
    <3>. HIDE DEF s
    <3>1. CASE k = l
      <4>1. s[k].count = es[l].count + 1
        BY <2>5, <2>7, <3>1
      <4>2. g[k - 1] = f[l - 1] /\ g[k] = f[l] + 1 /\ f[l - 1] \in Nat
        BY <1>2, <2>1, <3>1
      <4>. QED  BY <1>3, <2>1, <2>2, <3>1, <4>1, <4>2
    <3>2. CASE k # l
      BY <1>2, <1>3, <2>5, <3>2
    <3>. QED  BY <3>1, <3>2
  <2>9. Fits(s, n + 1)
    <3>. HIDE DEF s, g, c
    <3>. QED  BY <1>6, <2>5, <2>6, <2>8 DEF Fits
  <2>. QED  BY <2>5, <2>9
<1>. QED  BY <1>7, <1>8

\* One block less, when the last one holds a single entry.
LEMMA FitsOneLess ==
  ASSUME NEW es \in Seq(Extent), NEW n \in Nat, Fits(es, n), n % D = 1, n > 1
  PROVE  /\ es # <<>> /\ Front(es) \in Seq(Extent)
         /\ es[Len(es)].count > 1 =>
               LET shorter == [es EXCEPT ![Len(es)].count = @ - 1]
               IN  shorter \in Seq(Extent) /\ Fits(shorter, n - 1)
         /\ es[Len(es)].count <= 1 => Fits(Front(es), n - 1)
<1>1. D \in Nat /\ D > 1
  BY DentriesAssumption DEF D
<1>. DEFINE l == Len(es)
<1>2. l \in Nat /\ l > 0 /\ es # <<>>
  BY FitsNonempty, LenProperties, EmptySeq
<1>3. PICK f \in [0 .. l -> Nat] :
        /\ f[0] = 0
        /\ \A k \in 1 .. l : es[k].count > 0 /\ f[k] = f[k - 1] + es[k].count
        /\ f[l] * D - D < n /\ n <= f[l] * D
  BY DEF Fits
<1>. DEFINE c == f[l]
<1>4. /\ es[l].start \in Nat /\ es[l].count \in Nat /\ es[l].count > 0 /\ es[l] \in Extent
      /\ f[l - 1] \in Nat /\ c = f[l - 1] + es[l].count
  <2>. HIDE DEF l
  <2>1. l \in 1 .. l /\ l - 1 \in 0 .. l
    BY <1>2
  <2>2. /\ es[l].start \in Nat /\ es[l].count \in Nat /\ es[l] \in Extent
    BY <2>1, ExtentAt DEF l
  <2>. QED  BY <1>3, <2>1, <2>2
<1>5. c \in Nat /\ c > 0 /\ c * D \in Nat /\ (c - 1) * D = c * D - D
  <2>. HIDE DEF c, l
  <2>1. c \in Nat /\ c > 0
    BY <1>4
  <2>. QED  BY <1>1, <2>1
<1>6. n = c * D - D + 1
  <2>. HIDE DEF c
  <2>1. c * D - D < n /\ n <= c * D
    BY <1>3 DEF c
  <2>. QED  BY <1>5, <2>1, LastBlockEntries
<1>7. (c - 1) * D - D < n - 1 /\ n - 1 <= (c - 1) * D
  <2>. DEFINE most == c * D
              rest == (c - 1) * D
  <2>1. most \in Nat /\ rest = most - D /\ n = most - D + 1
    BY <1>5, <1>6
  <2>. HIDE DEF most, rest
  <2>2. rest - D < n - 1 /\ n - 1 <= rest
    BY <1>1, <2>1
  <2>. QED  BY <2>2 DEF rest
<1>8. /\ Front(es) \in Seq(Extent) /\ Len(Front(es)) = l - 1
      /\ \A k \in 1 .. l - 1 : Front(es)[k] = es[k]
  BY <1>2, FrontKeeps
<1>9. ASSUME es[l].count > 1
      PROVE  LET s == [es EXCEPT ![l].count = @ - 1]
             IN  s \in Seq(Extent) /\ Fits(s, n - 1)
  <2>. DEFINE s == [es EXCEPT ![l].count = @ - 1]
              g == [f EXCEPT ![l] = c - 1]
  <2>1. [es[l] EXCEPT !.count = @ - 1] \in Extent
    <3>1. es[l].count - 1 \in Nat
      BY <1>4, <1>9
    <3>. QED  BY <1>4, <3>1 DEF Extent
  <2>2. s = [es EXCEPT ![l] = [es[l] EXCEPT !.count = @ - 1]]
    OBVIOUS
  <2>3. /\ s \in Seq(Extent) /\ Len(s) = l
        /\ \A k \in 1 .. l : s[k] = IF k = l THEN [es[l] EXCEPT !.count = @ - 1] ELSE es[k]
    BY <1>2, <2>1, <2>2, ExceptSeq
  <2>4. g \in [0 .. l -> Nat] /\ g[0] = 0 /\ g[l] = c - 1
    BY <1>2, <1>3, <1>5
  <2>5. [es[l] EXCEPT !.count = @ - 1].count = es[l].count - 1
    BY <1>4 DEF Extent
  <2>6. ASSUME NEW k \in 1 .. l
        PROVE  s[k].count > 0 /\ g[k] = g[k - 1] + s[k].count
    <3>. HIDE DEF s
    <3>1. CASE k = l
      <4>1. s[k].count = es[l].count - 1
        BY <2>3, <2>5, <3>1
      <4>2. g[k - 1] = f[l - 1] /\ g[k] = f[l] - 1
        BY <1>2, <3>1
      <4>3. s[k].count > 0
        BY <1>4, <1>9, <4>1
      <4>4. g[k] = g[k - 1] + s[k].count
        BY <1>4, <4>1, <4>2
      <4>. QED  BY <4>3, <4>4
    <3>2. CASE k # l
      BY <1>2, <1>3, <2>3, <3>2
    <3>. QED  BY <3>1, <3>2
  <2>7. Fits(s, n - 1)
    <3>. HIDE DEF s, g, c
    <3>. QED  BY <1>7, <2>3, <2>4, <2>6 DEF Fits
  <2>. QED  BY <2>3, <2>7
<1>10. ASSUME es[l].count <= 1
       PROVE  Fits(Front(es), n - 1)
  <2>. DEFINE g == [k \in 0 .. l - 1 |-> f[k]]
  <2>1. g \in [0 .. l - 1 -> Nat] /\ g[0] = 0 /\ g[l - 1] = c - 1
    BY <1>2, <1>3, <1>4, <1>10
  <2>2. ASSUME NEW k \in 1 .. l - 1
        PROVE  Front(es)[k].count > 0 /\ g[k] = g[k - 1] + Front(es)[k].count
    BY <1>2, <1>3, <1>8
  <2>. HIDE DEF g, c
  <2>. QED  BY <1>7, <1>8, <2>1, <2>2 DEF Fits
<1>. QED  BY <1>2, <1>8, <1>9, <1>10

-----------------------------------------------------------------------------
(* The inductive invariant.  The directory operations leave files empty: only *)
(* truncate and write, which are not in Namespace, give a file a size.        *)

BlockTypes ==
    /\ dataBitmap \in SUBSET Nat
    /\ availableBlocks \in Nat
    /\ numOfDataBlocks \in Nat
    /\ indirect \in [Inodes -> Nat \cup {NoBlock}]
    /\ status \in Status
    /\ ret \in Returns

FilesEmpty == \A i \in Inodes : itable[i].size = 0

OnlyDirectoriesHoldEntries ==
    \A i \in Inodes : itable[i].mode # "dir" => entries[i] = <<>>

ExtentsFitEntries == \A i \in Inodes : Fits(extents[i], Len(entries[i]))

TableInv ==
    /\ itable \in [Inodes -> Inode]
    /\ extents \in [Inodes -> Seq(Extent)]
    /\ FilesEmpty
    /\ OnlyDirectoriesHoldEntries
    /\ ExtentsFitEntries

TypeInv == InodeInv /\ BlockTypes /\ TableInv

\* No entries fill no blocks, and one entry fills the first.
LEMMA FitsSmall ==
  /\ Fits(<<>>, 0)
  /\ \A b \in Nat : LET es == <<[start |-> b, count |-> 1]>>
                    IN  es \in Seq(Extent) /\ Fits(es, 1)
<1>1. D \in Nat /\ D > 1
  BY DentriesAssumption DEF D
<1>2. Fits(<<>>, 0)
  <2>. DEFINE f == [k \in 0 .. 0 |-> 0]
  <2>1. f \in [0 .. Len(<<>>) -> Nat] /\ f[0] = 0 /\ Len(<<>>) = 0
    OBVIOUS
  <2>2. 0 * D - D < 0 /\ 0 <= 0 * D
    BY <1>1
  <2>. HIDE DEF f
  <2>. QED  BY <2>1, <2>2 DEF Fits
<1>3. ASSUME NEW b \in Nat
      PROVE  LET es == <<[start |-> b, count |-> 1]>>
             IN  es \in Seq(Extent) /\ Fits(es, 1)
  <2>. DEFINE e  == [start |-> b, count |-> 1]
              es == Append(<<>>, e)
  <2>1. <<>> \in Seq(Extent) /\ 0 \in Nat /\ 0 % D = 0
    BY <1>1
  <2>2. es \in Seq(Extent) /\ Fits(es, 0 + 1)
    BY <1>2, <2>1, FitsOneMore
  <2>3. es = <<e>>
    OBVIOUS
  <2>. QED  BY <2>2, <2>3
<1>. QED  BY <1>2, <1>3

\* A formatted image: no directory has entries, so none has extents.
LEMMA InitTypeInv == Init => TypeInv
<1>. SUFFICES ASSUME Init PROVE TypeInv
  OBVIOUS
<1>1. InodeInv
  BY InitInodeInv
<1>2. BlockTypes
  BY NumBlocksAssumption DEF Init, Formatted, BlockTypes, Status, Returns
<1>3. \A i \in Inodes : itable[i] \in Inode /\ itable[i].size = 0
  BY DEF Init, Formatted, Inode, Modes, FreshInode
<1>4. itable \in [Inodes -> Inode]
  <2>1. DOMAIN itable = Inodes /\ itable = [i \in Inodes |-> itable[i]]
    BY DEF Init, Formatted
  <2>. QED  BY <1>3, <2>1
<1>5. \A i \in Inodes : extents[i] = <<>> /\ entries[i] = <<>> /\ Len(entries[i]) = 0
  BY DEF Init, Formatted
<1>6. extents \in [Inodes -> Seq(Extent)]
  BY EmptySeq DEF Init, Formatted
<1>7. ExtentsFitEntries
  BY <1>5, FitsSmall DEF ExtentsFitEntries
<1>. QED
  BY <1>1, <1>2, <1>3, <1>4, <1>5, <1>6, <1>7
     DEF TypeInv, TableInv, FilesEmpty, OnlyDirectoriesHoldEntries

\* A new inode is entered in p, which now has the extents es.
LEMMA EnterKeepsTableInv ==
  ASSUME TypeInv, availableInodes > 0,
         NEW p \in Inodes, IsDirectory(p), NEW nm \in Names, NEW m \in {"dir", "reg"},
         EnterIn(p, nm, m),
         NEW es \in Seq(Extent), Fits(es, Len(entries[p]) + 1),
         extents' = [extents EXCEPT ![NewInode] = <<>>, ![p] = es]
  PROVE  TableInv'
<1>. DEFINE new == NewInode
<1>1. new \in Inodes /\ new \notin inodeBitmap
  BY NewInodeIsFree DEF TypeInv
<1>2. p # new
  BY <1>1 DEF TypeInv, InodeInv, LinkedAllocated, IsDirectory
<1>. HIDE DEF new
<1>3. FreshInode(m) \in Inode /\ FreshInode(m).size = 0
  BY DEF FreshInode, Inode, Modes
<1>4. /\ itable'[p] \in Inode /\ itable'[p].size = 0 /\ itable'[p].mode = "dir"
      /\ itable'[new] = FreshInode(m)
      /\ \A i \in Inodes \ {p, new} : itable'[i] = itable[i]
  <2>1. itable[p] \in Inode /\ itable[p].size = 0 /\ itable[p].mode = "dir"
    BY DEF TypeInv, TableInv, FilesEmpty, IsDirectory
  <2>2. itable' = [itable EXCEPT ![new] = FreshInode(m),
                                 ![p].links = IF m = "dir" THEN @ + 1 ELSE @]
    BY DEF EnterIn, new
  <2>3. itable'[p] = [itable[p] EXCEPT !.links = IF m = "dir" THEN @ + 1 ELSE @]
    BY <1>1, <1>2, <2>2 DEF TypeInv, TableInv
  <2>4. itable'[p] \in Inode /\ itable'[p].size = 0 /\ itable'[p].mode = "dir"
    BY <2>1, <2>3 DEF Inode
  <2>. QED  BY <1>1, <1>2, <2>2, <2>4 DEF TypeInv, TableInv
<1>5. itable' \in [Inodes -> Inode]
  <2>1. DOMAIN itable' = Inodes /\ itable' = [i \in Inodes |-> itable'[i]]
    BY DEF EnterIn, TypeInv, TableInv
  <2>. QED  BY <1>3, <1>4, <2>1 DEF TypeInv, TableInv
<1>6. FilesEmpty'
  BY <1>3, <1>4 DEF TypeInv, TableInv, FilesEmpty
<1>7. /\ entries'[new] = <<>> /\ Len(entries'[new]) = 0
      /\ Len(entries'[p]) = Len(entries[p]) + 1
      /\ \A i \in Inodes \ {p, new} : entries'[i] = entries[i]
  <2>. DEFINE e == [name |-> nm, ino |-> new]
  <2>1. entries' = [entries EXCEPT ![new] = <<>>, ![p] = Append(@, e)]
    BY DEF EnterIn, new
  <2>2. e \in Dentry /\ entries[p] \in Seq(Dentry)
    BY <1>1 DEF Dentry, TypeInv, InodeInv, InodeTypes
  <2>3. entries'[p] = Append(entries[p], e)
    BY <1>1, <1>2, <2>1 DEF TypeInv, InodeInv, InodeTypes
  <2>4. Len(Append(entries[p], e)) = Len(entries[p]) + 1
    BY <2>2, AppendProperties
  <2>. QED  BY <1>1, <1>2, <2>1, <2>3, <2>4 DEF TypeInv, InodeInv, InodeTypes
<1>8. OnlyDirectoriesHoldEntries'
  BY <1>4, <1>7 DEF TypeInv, TableInv, OnlyDirectoriesHoldEntries
<1>9. /\ extents'[new] = <<>> /\ extents'[p] = es
      /\ \A i \in Inodes \ {p, new} : extents'[i] = extents[i]
      /\ extents' \in [Inodes -> Seq(Extent)]
  BY <1>1, <1>2, EmptySeq DEF new, TypeInv, TableInv
<1>10. ExtentsFitEntries'
  <2>. SUFFICES ASSUME NEW i \in Inodes PROVE Fits(extents'[i], Len(entries'[i]))
    BY DEF ExtentsFitEntries
  <2>1. CASE i = new
    BY <1>7, <1>9, <2>1, FitsSmall
  <2>2. CASE i = p
    BY <1>7, <1>9, <2>2
  <2>3. CASE i \notin {p, new}
    BY <1>7, <1>9, <2>3 DEF TypeInv, TableInv, ExtentsFitEntries
  <2>. QED  BY <2>1, <2>2, <2>3
<1>. QED  BY <1>5, <1>6, <1>8, <1>9, <1>10 DEF TableInv

\* A new inode is left with nothing in it.
LEMMA AbandonKeepsTableInv ==
  ASSUME TypeInv, availableInodes > 0, NEW m \in {"dir", "reg"}, AbandonInode(m)
  PROVE  TableInv'
<1>. DEFINE new == NewInode
<1>1. new \in Inodes
  BY NewInodeIsFree DEF TypeInv
<1>2. FreshInode(m) \in Inode /\ FreshInode(m).size = 0
  BY DEF FreshInode, Inode, Modes
<1>3. /\ itable' = [itable EXCEPT ![new] = FreshInode(m)]
      /\ entries' = [entries EXCEPT ![new] = <<>>]
      /\ extents' = [extents EXCEPT ![new] = <<>>]
  BY DEF AbandonInode
<1>. HIDE DEF new
<1>4. itable' \in [Inodes -> Inode] /\ extents' \in [Inodes -> Seq(Extent)]
  BY <1>2, <1>3, EmptySeq DEF TypeInv, TableInv
<1>5. FilesEmpty'
  BY <1>1, <1>2, <1>3 DEF TypeInv, TableInv, FilesEmpty
<1>6. OnlyDirectoriesHoldEntries'
  BY <1>1, <1>3
     DEF TypeInv, TableInv, OnlyDirectoriesHoldEntries, InodeInv, InodeTypes
<1>7. ExtentsFitEntries'
  <2>. SUFFICES ASSUME NEW i \in Inodes PROVE Fits(extents'[i], Len(entries'[i]))
    BY DEF ExtentsFitEntries
  <2>1. CASE i = new
    <3>1. extents'[i] = <<>> /\ Len(entries'[i]) = 0
      BY <1>1, <1>3, <2>1 DEF TypeInv, TableInv, InodeInv, InodeTypes
    <3>. QED  BY <3>1, FitsSmall
  <2>2. CASE i # new
    <3>1. extents'[i] = extents[i] /\ entries'[i] = entries[i]
      BY <1>3, <2>2 DEF TypeInv, TableInv, InodeInv, InodeTypes
    <3>. QED  BY <3>1 DEF TypeInv, TableInv, ExtentsFitEntries
  <2>. QED  BY <2>1, <2>2
<1>. QED  BY <1>4, <1>5, <1>6, <1>7 DEF TableInv

-----------------------------------------------------------------------------
(* The steps. *)

\* A search either returns a clear block or NotFound, which is no block.
LEMMA FoundBlock ==
  ASSUME numOfDataBlocks \in Nat, NEW bits,
         get_first_available_position(numOfDataBlocks, bits) # NotFound
  PROVE  LET b == get_first_available_position(numOfDataBlocks, bits)
         IN  b \in Nat /\ b \notin bits
BY SearchFindsClear

\* What an addition does to the blocks when it takes the blocks B.
LEMMA TakeBlocksTypes ==
  ASSUME TypeInv, NEW B \in SUBSET Nat, NEW n \in Nat, Cardinality(B) = n,
         n <= availableBlocks, TakeBlocks(B)
  PROVE  dataBitmap' \in SUBSET Nat /\ availableBlocks' \in Nat
<1>1. dataBitmap' \in SUBSET Nat
  BY DEF TakeBlocks, TypeInv, BlockTypes
<1>2. availableBlocks' = availableBlocks - n
  BY DEF TakeBlocks
<1>. QED  BY <1>1, <1>2 DEF TypeInv, BlockTypes

\* The sizes of the sets of blocks one callback takes.
LEMMA SmallCardinalities ==
  /\ Cardinality({}) = 0
  /\ \A a : Cardinality({a}) = 1
  /\ \A a, b : a # b => Cardinality({a, b}) = 2
<1>1. \A a : IsFiniteSet({a}) /\ Cardinality({a}) = 1
  BY FS_Singleton
<1>2. ASSUME NEW a, NEW b, a # b
      PROVE  Cardinality({a, b}) = 2
  <2>1. IsFiniteSet({a}) /\ Cardinality({a}) = 1 /\ b \notin {a}
    BY <1>1, <1>2
  <2>2. Cardinality({a} \cup {b}) = Cardinality({a}) + 1
    BY <2>1, FS_AddElement
  <2>3. {a, b} = {a} \cup {b}
    OBVIOUS
  <2>. QED  BY <2>1, <2>2, <2>3
<1>. QED  BY <1>1, <1>2, FS_EmptySet

\* The four ways of an addition, one step each.
LEMMA AddEntryKeepsTypeInv ==
  ASSUME TypeInv, NEW p \in Inodes, NEW nm \in Names, NEW m \in {"dir", "reg"},
         AddEntry(p, nm, m)
  PROVE  TypeInv'
<1>. DEFINE n  == Len(entries[p])
            es == extents[p]
<1>1. InodeInv'
  BY AddEntryKeepsInodeInv DEF TypeInv
<1>2. /\ IsDirectory(p) /\ numOfDataBlocks' = numOfDataBlocks /\ status = "mounted"
      /\ entries[p] \in Seq(Dentry) /\ n \in Nat
      /\ es \in Seq(Extent) /\ Fits(es, n)
  BY LenProperties
     DEF AddEntry, TypeInv, InodeInv, InodeTypes, TableInv, ExtentsFitEntries
<1>3. availableBlocks \in Nat /\ numOfDataBlocks \in Nat /\ dataBitmap \in SUBSET Nat
  BY DEF TypeInv, BlockTypes
<1>. DEFINE Types == /\ dataBitmap' \in SUBSET Nat
                     /\ availableBlocks' \in Nat
                     /\ indirect' \in [Inodes -> Nat \cup {NoBlock}]
                     /\ status' \in Status
                     /\ ret' \in Returns
<1>4. CASE UNCHANGED <<allocVars, fileVars, status>> /\ ret' = "ENOSPC"
  <2>1. BlockTypes'
    BY <1>2, <1>4 DEF TypeInv, BlockTypes, allocVars, fileVars, Returns
  <2>2. TableInv'
    BY <1>4 DEF TypeInv, TableInv, FilesEmpty, OnlyDirectoriesHoldEntries,
                ExtentsFitEntries, fileVars
  <2>. QED  BY <1>1, <2>1, <2>2 DEF TypeInv
<1>5. ASSUME availableInodes > 0, AbandonInode(m), NEW B \in SUBSET Nat, NEW k \in Nat,
             Cardinality(B) = k, k <= availableBlocks, TakeBlocks(B),
             FailNoSpace(m) \/ Die(m)
      PROVE  Types /\ TableInv'
  <2>1. TableInv'
    BY <1>5, AbandonKeepsTableInv
  <2>2. dataBitmap' \in SUBSET Nat /\ availableBlocks' \in Nat
    BY <1>5, TakeBlocksTypes
  <2>3. indirect' = indirect /\ status' \in Status /\ ret' \in Returns
    BY <1>2, <1>5 DEF FailNoSpace, Die, AbandonInode, Status, Returns
  <2>. QED  BY <2>1, <2>2, <2>3 DEF TypeInv, BlockTypes
<1>6. ASSUME NEW B \in SUBSET Nat, NEW k \in Nat, Cardinality(B) = k,
             k <= availableBlocks, TakeBlocks(B),
             indirect' \in [Inodes -> Nat \cup {NoBlock}],
             Succeed \/ Overrun
      PROVE  Types
  <2>1. dataBitmap' \in SUBSET Nat /\ availableBlocks' \in Nat
    BY <1>6, TakeBlocksTypes
  <2>2. status' \in Status /\ ret' \in Returns
    BY <1>2, <1>6 DEF Succeed, Overrun, Status, Returns
  <2>. QED  BY <1>6, <2>1, <2>2
<1>7. ASSUME availableInodes > 0, availableBlocks > 0, AddToEmptyParent(p, nm, m)
      PROVE  Types /\ TableInv'
  <2>. DEFINE ib == get_first_available_position(numOfDataBlocks, dataBitmap)
              db == get_first_available_position(numOfDataBlocks, set_bitmap(dataBitmap, ib))
  <2>1. ib # NotFound => ib \in Nat
    BY <1>3, FoundBlock
  <2>2. db # NotFound => db \in Nat /\ db # ib
    BY <1>3, FoundBlock DEF set_bitmap
  <2>. HIDE DEF ib, db
  <2>3. CASE TakeBlocks({}) /\ (FailNoSpace(m) \/ Die(m))
    BY <1>3, <1>5, <1>7, <2>3, SmallCardinalities DEF FailNoSpace, Die
  <2>4. CASE ib # NotFound /\ TakeBlocks({ib}) /\ (FailNoSpace(m) \/ Die(m))
    <3>1. {ib} \in SUBSET Nat
      BY <2>1, <2>4
    <3>2. Cardinality({ib}) = 1
      BY SmallCardinalities
    <3>3. 1 \in Nat /\ 1 <= availableBlocks
      BY <1>3, <1>7
    <3>. QED  BY <1>5, <1>7, <2>4, <3>1, <3>2, <3>3 DEF FailNoSpace, Die
  <2>5. CASE /\ ib # NotFound /\ db # NotFound
             /\ availableBlocks - 1 > 0
             /\ TakeBlocks({ib, db})
             /\ indirect' = [indirect EXCEPT ![p] = ib]
             /\ extents' = [extents EXCEPT ![NewInode] = <<>>,
                                           ![p] = <<[start |-> db, count |-> 1]>>]
             /\ EnterIn(p, nm, m)
             /\ Succeed
             /\ entries[p] = <<>>
    <3>. DEFINE first == <<[start |-> db, count |-> 1]>>
    <3>1. {ib, db} \in SUBSET Nat
      BY <2>1, <2>2, <2>5
    <3>2. Cardinality({ib, db}) = 2
      BY <2>2, <2>5, SmallCardinalities
    <3>3. 2 \in Nat /\ 2 <= availableBlocks
      BY <1>3, <2>5
    <3>4. indirect' \in [Inodes -> Nat \cup {NoBlock}]
      BY <2>1, <2>5 DEF TypeInv, BlockTypes
    <3>5. Types
      BY <1>6, <2>5, <3>1, <3>2, <3>3, <3>4
    <3>6. n + 1 = 1 /\ first \in Seq(Extent) /\ Fits(first, 1)
      BY <2>2, <2>5, FitsSmall
    <3>7. TableInv'
      <4>. HIDE DEF first
      <4>1. extents' = [extents EXCEPT ![NewInode] = <<>>, ![p] = first]
        BY <2>5 DEF first
      <4>2. EnterIn(p, nm, m)
        BY <2>5
      <4>. QED  BY <1>2, <1>7, <3>6, <4>1, <4>2, EnterKeepsTableInv
    <3>. QED  BY <3>5, <3>7
  <2>. QED  BY <1>7, <2>3, <2>4, <2>5 DEF AddToEmptyParent, ib, db
<1>8. ASSUME availableInodes > 0, availableBlocks > 0, AddToLastBlock(p, nm, m)
      PROVE  Types /\ TableInv'
  <2>1. Fits(es, n + 1)
    BY <1>2, <1>8, FitsSameBlocks DEF AddToLastBlock, D
  <2>2. NewInode # p /\ NewInode \in Inodes
    BY <1>2, <1>8, NewInodeIsFree
       DEF TypeInv, InodeInv, LinkedAllocated, IsDirectory
  <2>3. extents' = [extents EXCEPT ![NewInode] = <<>>, ![p] = es]
    BY <1>8, <2>2 DEF AddToLastBlock, TypeInv, TableInv
  <2>4. EnterIn(p, nm, m)
    BY <1>8 DEF AddToLastBlock
  <2>5. TableInv'
    <3>. HIDE DEF es
    <3>. QED  BY <1>2, <1>8, <2>1, <2>3, <2>4, EnterKeepsTableInv
  <2>6. Types
    BY <1>3, <1>6, <1>8, SmallCardinalities DEF AddToLastBlock, TypeInv, BlockTypes
  <2>. QED  BY <2>5, <2>6
<1>9. ASSUME availableInodes > 0, availableBlocks > 0, AddToNextBlock(p, nm, m)
      PROVE  Types /\ TableInv'
  <2>. DEFINE b == find_last_block(p) + 1
              longer == [es EXCEPT ![Len(es)].count = @ + 1]
  <2>1. n > 0 /\ n % D = 0 /\ es # <<>>
    BY <1>2, <1>9, FitsNonempty, EmptySeq DEF AddToNextBlock, D
  <2>2. b \in Nat
    <3>1. Len(es) \in Nat /\ Len(es) > 0
      BY <1>2, <2>1, LenProperties, EmptySeq
    <3>2. Last(es) = es[Len(es)] /\ es[Len(es)].start \in Nat /\ es[Len(es)].count \in Nat
      BY <1>2, <3>1, ExtentAt DEF Last
    <3>. DEFINE s == es[Len(es)].start
                c == es[Len(es)].count
    <3>3. b = s + c - 1 + 1 /\ s \in Nat /\ c \in Nat
      BY <3>2 DEF find_last_block
    <3>. HIDE DEF b, s, c
    <3>. QED  BY <3>3
  <2>. HIDE DEF b
  <2>3. TakeBlocks({b})
    BY <1>9 DEF AddToNextBlock, b
  <2>4. {b} \in SUBSET Nat /\ Cardinality({b}) = 1
    BY <2>2, SmallCardinalities
  <2>5. 1 \in Nat /\ 1 <= availableBlocks
    BY <1>3, <1>9
  <2>6. CASE Die(m)
    BY <1>5, <1>9, <2>3, <2>5, <2>6, <2>4 DEF Die
  <2>7. CASE /\ extents' = [extents EXCEPT ![NewInode] = <<>>,
                                           ![p][Len(extents[p])].count = @ + 1]
             /\ UNCHANGED indirect
             /\ EnterIn(p, nm, m)
             /\ Succeed \/ Overrun
    <3>1. longer \in Seq(Extent) /\ Fits(longer, n + 1)
      BY <1>2, <2>1, <2>2, FitsOneMore
    <3>2. NewInode # p /\ NewInode \in Inodes
      BY <1>2, <1>9, NewInodeIsFree
         DEF TypeInv, InodeInv, LinkedAllocated, IsDirectory
    <3>3. extents' = [extents EXCEPT ![NewInode] = <<>>, ![p] = longer]
      BY <2>7, <3>2 DEF TypeInv, TableInv
    <3>4. TableInv'
      <4>1. EnterIn(p, nm, m)
        BY <2>7
      <4>. HIDE DEF longer
      <4>. QED  BY <1>2, <1>9, <3>1, <3>3, <4>1, EnterKeepsTableInv
    <3>5. Types
      BY <1>6, <2>3, <2>5, <2>7, <2>4 DEF TypeInv, BlockTypes
    <3>. QED  BY <3>4, <3>5
  <2>. QED  BY <1>9, <2>6, <2>7 DEF AddToNextBlock
<1>10. ASSUME availableInodes > 0, availableBlocks > 0, AddToNewExtent(p, nm, m)
       PROVE  Types /\ TableInv'
  <2>. DEFINE b == get_first_available_position(numOfDataBlocks, dataBitmap)
              more == Append(es, [start |-> b, count |-> 1])
  <2>1. b # NotFound => b \in Nat
    BY <1>3, FoundBlock
  <2>. HIDE DEF b
  <2>2. n % D = 0
    BY <1>10 DEF AddToNewExtent, D
  <2>3. CASE TakeBlocks({}) /\ (FailNoSpace(m) \/ Die(m))
    BY <1>3, <1>5, <1>10, <2>3, SmallCardinalities DEF FailNoSpace, Die
  <2>4. CASE /\ b # NotFound
             /\ TakeBlocks({b})
             /\ extents' = [extents EXCEPT ![NewInode] = <<>>,
                                           ![p] = Append(@, [start |-> b, count |-> 1])]
             /\ UNCHANGED indirect
             /\ EnterIn(p, nm, m)
             /\ Succeed \/ Overrun
    <3>1. more \in Seq(Extent) /\ Fits(more, n + 1)
      BY <1>2, <2>1, <2>2, <2>4, FitsOneMore
    <3>2. NewInode # p /\ NewInode \in Inodes
      BY <1>2, <1>10, NewInodeIsFree
         DEF TypeInv, InodeInv, LinkedAllocated, IsDirectory
    <3>3. extents' = [extents EXCEPT ![NewInode] = <<>>, ![p] = more]
      BY <2>4, <3>2 DEF TypeInv, TableInv
    <3>4. TableInv'
      <4>1. EnterIn(p, nm, m)
        BY <2>4
      <4>. HIDE DEF more
      <4>. QED  BY <1>2, <1>10, <3>1, <3>3, <4>1, EnterKeepsTableInv
    <3>5. {b} \in SUBSET Nat /\ Cardinality({b}) = 1
      BY <2>1, <2>4, SmallCardinalities
    <3>6. 1 \in Nat /\ 1 <= availableBlocks
      BY <1>3, <1>10
    <3>7. Types
      BY <1>6, <2>4, <3>5, <3>6 DEF TypeInv, BlockTypes
    <3>. QED  BY <3>4, <3>7
  <2>. QED  BY <1>10, <2>3, <2>4 DEF AddToNewExtent, b
<1>11. CASE /\ availableInodes > 0 /\ availableBlocks > 0
            /\ \/ AddToEmptyParent(p, nm, m) \/ AddToLastBlock(p, nm, m)
               \/ AddToNextBlock(p, nm, m) \/ AddToNewExtent(p, nm, m)
  <2>1. Types /\ TableInv'
    BY <1>7, <1>8, <1>9, <1>10, <1>11
  <2>2. BlockTypes'
    BY <1>2, <1>3, <2>1 DEF BlockTypes
  <2>. QED  BY <1>1, <2>1, <2>2 DEF TypeInv
<1>. QED  BY <1>4, <1>11 DEF AddEntry

\* What a removal leaves of the extents of p: the blocks its other entries fill.
LEMMA ExtentsKeptFit ==
  ASSUME NEW p \in Inodes, entries[p] \in Seq(Dentry), entries[p] # <<>>,
         extents[p] \in Seq(Extent), Fits(extents[p], Len(entries[p]))
  PROVE  /\ ExtentsKept(p) \in Seq(Extent)
         /\ Fits(ExtentsKept(p), Len(entries[p]) - 1)
<1>. DEFINE n  == Len(entries[p])
            es == extents[p]
            k  == Len(es)
<1>1. /\ n \in Nat /\ n > 0
      /\ es \in Seq(Extent) /\ Fits(es, n)
  BY LenProperties, EmptySeq
<1>. HIDE DEF n, es
<1>2. CASE n = 1
  BY <1>2, FitsSmall, EmptySeq DEF ExtentsKept, n
<1>3. CASE n # 1 /\ n % D # 1
  <2>1. ExtentsKept(p) = es
    BY <1>3 DEF ExtentsKept, D, n, es
  <2>2. Fits(es, n - 1)
    BY <1>1, <1>3, FitsSameBlocks
  <2>. QED  BY <1>1, <2>1, <2>2 DEF n
<1>4. CASE n # 1 /\ n % D = 1
  <2>1. n > 1
    BY <1>1, <1>4
  <2>2. /\ es # <<>> /\ Front(es) \in Seq(Extent)
        /\ es[k].count > 1 =>
              LET shorter == [es EXCEPT ![k].count = @ - 1]
              IN  shorter \in Seq(Extent) /\ Fits(shorter, n - 1)
        /\ es[k].count <= 1 => Fits(Front(es), n - 1)
    BY <1>1, <1>4, <2>1, FitsOneLess
  <2>3. ExtentsKept(p) = IF es[k].count > 1 THEN [es EXCEPT ![k].count = @ - 1]
                                            ELSE Front(es)
    BY <1>4 DEF ExtentsKept, D, n, es
  <2>4. k \in 1 .. Len(es)
    BY <1>1, <2>2, LenProperties, EmptySeq
  <2>5. es[k].count \in Nat
    BY <1>1, <2>4, ExtentAt
  <2>6. CASE es[k].count > 1
    BY <2>2, <2>3, <2>6 DEF n
  <2>7. CASE es[k].count <= 1
    BY <2>2, <2>3, <2>5, <2>7 DEF n
  <2>. QED  BY <2>5, <2>6, <2>7
<1>. QED  BY <1>2, <1>3, <1>4

\* The removal of t, which has no entries, from p.
LEMMA RemoveEntryKeepsTypeInv ==
  ASSUME TypeInv, NEW p \in Inodes, NEW nm \in Names, HasEntry(p, nm),
         NEW lost \in {0, 1},
         entries[Lookup(p, nm)] = <<>>,
         RemoveEntry(p, Lookup(p, nm), {}, 0, lost)
  PROVE  TypeInv'
<1>. DEFINE t == Lookup(p, nm)
            n == Len(entries[p])
<1>1. InodeInv'
  BY RemoveEntryKeepsInodeInv DEF TypeInv
<1>2. entries[p] \in Seq(Dentry) /\ n \in Nat
  BY LenProperties DEF TypeInv, InodeInv, InodeTypes
<1>3. PICK j \in DOMAIN entries[p] : entries[p][j].ino = t
  BY <1>2, LookupFinds
<1>4. entries[p][j] \in Dentry /\ entries[p] # <<>>
  BY <1>2, <1>3, LenProperties, ElementOfSeq, EmptySeq
<1>5. t \in Inodes /\ t # p
  BY <1>3, <1>4 DEF Dentry
<1>. HIDE DEF t
<1>6. /\ entries' = [entries EXCEPT ![p] = WithoutEntry(@, t)]
      /\ extents' = [extents EXCEPT ![t] = <<>>, ![p] = ExtentsKept(p)]
      /\ itable' = [itable EXCEPT
                      ![t] = [mode |-> "none", links |-> 0, size |-> 0],
                      ![p].links = IF Len(entries[p]) = 1 THEN 2 ELSE @ - lost]
      /\ entries[t] = <<>>
  BY DEF RemoveEntry, t
<1>7. Len(entries'[p]) = n - 1 /\ \A i \in Inodes \ {p} : entries'[i] = entries[i]
  <2>1. \A i, l \in DOMAIN entries[p] : entries[p][i].ino = entries[p][l].ino => i = l
    BY DEF TypeInv, InodeInv, ListedOnce
  <2>. DEFINE es == entries[p]
  <2>2. Len(WithoutEntry(es, t)) = Len(es) - 1
    <3>. HIDE DEF es
    <3>. QED  BY <1>2, <1>3, <2>1, RemovalKeepsTheRest DEF es
  <2>3. entries'[p] = WithoutEntry(es, t)
    BY <1>6 DEF TypeInv, InodeInv, InodeTypes
  <2>. QED  BY <1>6, <2>2, <2>3 DEF TypeInv, InodeInv, InodeTypes
<1>8. BlockTypes'
  <2>1. dataBitmap' \in SUBSET Nat
    BY DEF RemoveEntry, TypeInv, BlockTypes
  <2>2. CountGivenBack(p) \in Nat
    BY DEF CountGivenBack
  <2>3. availableBlocks' \in Nat
    BY <2>2 DEF RemoveEntry, TypeInv, BlockTypes
  <2>. QED  BY <2>1, <2>3 DEF RemoveEntry, TypeInv, BlockTypes, Returns
<1>9. /\ itable'[p] \in Inode /\ itable'[p].size = 0 /\ itable'[p].mode = itable[p].mode
      /\ itable'[t] \in Inode /\ itable'[t].size = 0
      /\ \A i \in Inodes \ {p, t} : itable'[i] = itable[i]
  <2>1. itable[p] \in Inode /\ itable[p].size = 0
    BY DEF TypeInv, TableInv, FilesEmpty
  <2>2. itable'[p] = [itable[p] EXCEPT !.links = IF Len(entries[p]) = 1 THEN 2 ELSE @ - lost]
    BY <1>5, <1>6 DEF TypeInv, TableInv
  <2>3. itable'[p] \in Inode /\ itable'[p].size = 0 /\ itable'[p].mode = itable[p].mode
    BY <2>1, <2>2 DEF Inode
  <2>4. itable'[t] = [mode |-> "none", links |-> 0, size |-> 0]
    BY <1>5, <1>6 DEF TypeInv, TableInv
  <2>. QED  BY <1>6, <2>3, <2>4 DEF Inode, Modes, TypeInv, TableInv
<1>10. itable' \in [Inodes -> Inode]
  <2>1. DOMAIN itable' = Inodes /\ itable' = [i \in Inodes |-> itable'[i]]
    BY <1>6 DEF TypeInv, TableInv
  <2>2. \A i \in Inodes : itable'[i] \in Inode
    BY <1>9 DEF TypeInv, TableInv
  <2>. QED  BY <2>1, <2>2
<1>11. FilesEmpty'
  BY <1>9 DEF TypeInv, TableInv, FilesEmpty
<1>12. OnlyDirectoriesHoldEntries'
  <2>1. itable[p].mode = "dir"
    BY <1>4 DEF TypeInv, TableInv, OnlyDirectoriesHoldEntries
  <2>. QED
    BY <1>5, <1>6, <1>7, <1>9, <2>1 DEF TypeInv, TableInv, OnlyDirectoriesHoldEntries
<1>13. /\ ExtentsKept(p) \in Seq(Extent) /\ Fits(ExtentsKept(p), n - 1)
  <2>1. extents[p] \in Seq(Extent) /\ Fits(extents[p], Len(entries[p]))
    BY DEF TypeInv, TableInv, ExtentsFitEntries
  <2>. QED  BY <1>2, <1>4, <2>1, ExtentsKeptFit
<1>14. /\ extents' \in [Inodes -> Seq(Extent)]
       /\ extents'[p] = ExtentsKept(p) /\ extents'[t] = <<>>
       /\ \A i \in Inodes \ {p, t} : extents'[i] = extents[i]
  BY <1>5, <1>6, <1>13, EmptySeq DEF TypeInv, TableInv
<1>15. ExtentsFitEntries'
  <2>. SUFFICES ASSUME NEW i \in Inodes PROVE Fits(extents'[i], Len(entries'[i]))
    BY DEF ExtentsFitEntries
  <2>1. CASE i = p
    BY <1>7, <1>13, <1>14, <2>1
  <2>2. CASE i = t
    <3>1. Len(entries'[t]) = 0
      BY <1>5, <1>6, <1>7
    <3>. QED  BY <1>14, <2>2, <3>1, FitsSmall
  <2>3. CASE i \notin {p, t}
    BY <1>7, <1>14, <2>3 DEF TypeInv, TableInv, ExtentsFitEntries
  <2>. QED  BY <2>1, <2>2, <2>3
<1>. QED  BY <1>1, <1>8, <1>10, <1>11, <1>12, <1>14, <1>15 DEF TypeInv, TableInv

\* One step for each callback and for a mount.
LEMMA NextKeepsTypeInv == TypeInv /\ [Next]_vars => TypeInv'
<1>. SUFFICES ASSUME TypeInv, [Next]_vars PROVE TypeInv'
  OBVIOUS
<1>1. InodeInv'
  BY NextKeepsInodeInv DEF TypeInv
<1>2. ASSUME UNCHANGED <<allocVars, fileVars>>, numOfDataBlocks' \in Nat,
             status' \in Status, ret' \in Returns
      PROVE  TypeInv'
  BY <1>1, <1>2 DEF TypeInv, BlockTypes, TableInv, FilesEmpty,
                    OnlyDirectoriesHoldEntries, ExtentsFitEntries, allocVars, fileVars
<1>3. CASE Mount
  BY <1>2, <1>3 DEF Mount, TypeInv, BlockTypes, Status, Returns
<1>4. ASSUME NEW p \in Inodes, NEW nm \in Names, Mkdir(p, nm)
      PROVE  TypeInv'
  BY <1>4, AddEntryKeepsTypeInv DEF Mkdir
<1>5. ASSUME NEW p \in Inodes, NEW nm \in Names, Create(p, nm)
      PROVE  TypeInv'
  BY <1>5, AddEntryKeepsTypeInv DEF Create
<1>6. ASSUME NEW p \in Inodes, NEW nm \in Names, Rmdir(p, nm)
      PROVE  TypeInv'
  <2>. DEFINE t == Lookup(p, nm)
  <2>1. CASE ret' = "ENOTEMPTY" /\ UNCHANGED <<allocVars, fileVars, numOfDataBlocks, status>>
    BY <1>2, <2>1 DEF TypeInv, BlockTypes, Returns
  <2>2. CASE entries[t] = <<>> /\ RemoveEntry(p, t, {}, 0, 1)
    BY <1>6, <2>2, RemoveEntryKeepsTypeInv DEF Rmdir
  <2>. QED  BY <1>6, <2>1, <2>2 DEF Rmdir
<1>7. ASSUME NEW p \in Inodes, NEW nm \in Names, Unlink(p, nm)
      PROVE  TypeInv'
  <2>. DEFINE t == Lookup(p, nm)
  <2>1. t \in Inodes
    <3>1. entries[p] \in Seq(Dentry)
      BY DEF TypeInv, InodeInv, InodeTypes
    <3>2. PICK k \in DOMAIN entries[p] : entries[p][k].ino = t
      BY <1>7, <3>1, LookupFinds DEF Unlink
    <3>3. entries[p][k] \in Dentry
      BY <3>1, <3>2, LenProperties, ElementOfSeq
    <3>. QED  BY <3>2, <3>3 DEF Dentry
  <2>2. itable[t].mode = "reg" /\ HasEntry(p, nm)
    BY <1>7 DEF Unlink
  <2>3. entries[t] = <<>> /\ itable[t].size = 0
    BY <2>1, <2>2 DEF TypeInv, TableInv, OnlyDirectoriesHoldEntries, FilesEmpty
  <2>4. RemoveEntry(p, t, {}, 0, 0)
    BY <1>7, <2>3 DEF Unlink
  <2>. QED  BY <2>2, <2>3, <2>4, RemoveEntryKeepsTypeInv
<1>8. CASE UNCHANGED vars
  BY <1>2, <1>8 DEF vars, TypeInv, BlockTypes
<1>. QED  BY <1>3, <1>4, <1>5, <1>6, <1>7, <1>8 DEF Next, Callback

\* The invariant of this module holds in every reachable state: a directory has
\* at every moment the blocks its entries fill, in extents none of which is empty.
THEOREM TypeInvariant == Spec => []TypeInv
<1>. QED  BY InitTypeInv, NextKeepsTypeInv, PTL DEF Spec

\* Every structure keeps its type; in particular no counter goes below zero and
\* no block number is made of an extent that does not exist.
THEOREM TypesAreCorrect == Spec => []TypeOK
<1>1. TypeInv => TypeOK
  BY DEF TypeInv, InodeInv, InodeTypes, BlockTypes, TableInv, TypeOK
<1>. QED  BY <1>1, TypeInvariant, PTL

-----------------------------------------------------------------------------
(* The blocks of a sequence of extents es with indirect block ib. *)

DataOf(es) == UNION {ExtentBlocks(es[k]) : k \in DOMAIN es}

OwnedOf(es, ib) == IF es = <<>> THEN {} ELSE {ib} \cup DataOf(es)

\* No block is used twice.
Apart(es, ib) ==
    /\ es # <<>> => ib \notin DataOf(es)
    /\ \A k, l \in DOMAIN es :
          k # l => ExtentBlocks(es[k]) \cap ExtentBlocks(es[l]) = {}

\* The blocks of an extent that counts one more or one less.
LEMMA ExtentResized ==
  ASSUME NEW e, NEW d, e.start \in Nat, e.count \in Nat, d.start = e.start
  PROVE  /\ d.count = e.count + 1 =>
               ExtentBlocks(d) = ExtentBlocks(e) \cup {e.start + e.count}
         /\ e.count > 0 /\ d.count = e.count - 1 =>
               ExtentBlocks(d) = ExtentBlocks(e) \ {e.start + e.count - 1}
<1>1. ASSUME NEW s \in Nat, NEW c \in Nat
      PROVE  /\ s .. s + (c + 1) - 1 = (s .. s + c - 1) \cup {s + c}
             /\ c > 0 => s .. s + (c - 1) - 1 = (s .. s + c - 1) \ {s + c - 1}
  OBVIOUS
<1>. QED  BY <1>1 DEF ExtentBlocks

\* A sequence with one extent of one block.
LEMMA FirstExtent ==
  ASSUME NEW b \in Nat, NEW ib, b # ib
  PROVE  LET es == <<[start |-> b, count |-> 1]>>
         IN  DataOf(es) = {b} /\ Apart(es, ib) /\ es # <<>>
<1>. DEFINE e  == [start |-> b, count |-> 1]
            es == <<e>>
<1>1. ExtentBlocks(e) = {b}
  BY DEF ExtentBlocks
<1>2. DOMAIN es = {1} /\ es[1] = e /\ es # <<>>
  OBVIOUS
<1>. HIDE DEF e, es
<1>3. DataOf(es) = {b}
  BY <1>1, <1>2 DEF DataOf
<1>4. Apart(es, ib)
  BY <1>2, <1>3 DEF Apart
<1>. QED  BY <1>2, <1>3, <1>4 DEF es, e

\* Changing the last extent changes the blocks by as much.
LEMMA LastExtentChanged ==
  ASSUME NEW es \in Seq(Extent), es # <<>>, NEW ib, Apart(es, ib),
         NEW e, NEW s, DOMAIN s = DOMAIN es,
         \A k \in DOMAIN es : s[k] = IF k = Len(es) THEN e ELSE es[k]
  PROVE  /\ \A b : ExtentBlocks(e) = ExtentBlocks(es[Len(es)]) \cup {b}
                   /\ b \notin DataOf(es) /\ b # ib =>
                      DataOf(s) = DataOf(es) \cup {b} /\ Apart(s, ib)
         /\ \A b : ExtentBlocks(e) = ExtentBlocks(es[Len(es)]) \ {b}
                   /\ b \in ExtentBlocks(es[Len(es)]) =>
                      DataOf(s) = DataOf(es) \ {b} /\ Apart(s, ib)
<1>. DEFINE l == Len(es)
<1>1. l \in DOMAIN es
  BY LenProperties, EmptySeq
<1>. HIDE DEF l
<1>2. \A k \in DOMAIN es : s[k] = IF k = l THEN e ELSE es[k]
  BY DEF l
<1>3. \A i, j \in DOMAIN es : i # j => ExtentBlocks(es[i]) \cap ExtentBlocks(es[j]) = {}
  BY DEF Apart
<1>4. ib \notin DataOf(es) /\ \A k \in DOMAIN es : ExtentBlocks(es[k]) \subseteq DataOf(es)
  BY DEF Apart, DataOf
<1>5. ASSUME NEW b, ExtentBlocks(e) = ExtentBlocks(es[l]) \cup {b},
             b \notin DataOf(es), b # ib
      PROVE  DataOf(s) = DataOf(es) \cup {b} /\ Apart(s, ib)
  <2>1. DataOf(s) = DataOf(es) \cup {b}
    BY <1>1, <1>2, <1>5 DEF DataOf
  <2>2. \A i, j \in DOMAIN s : i # j => ExtentBlocks(s[i]) \cap ExtentBlocks(s[j]) = {}
    BY <1>1, <1>2, <1>3, <1>4, <1>5
  <2>. QED  BY <1>4, <1>5, <2>1, <2>2 DEF Apart
<1>6. ASSUME NEW b, ExtentBlocks(e) = ExtentBlocks(es[l]) \ {b},
             b \in ExtentBlocks(es[l])
      PROVE  DataOf(s) = DataOf(es) \ {b} /\ Apart(s, ib)
  <2>1. \A k \in DOMAIN es : k # l => b \notin ExtentBlocks(es[k])
    BY <1>1, <1>3, <1>6
  <2>2. DataOf(s) = DataOf(es) \ {b}
    BY <1>1, <1>2, <1>6, <2>1 DEF DataOf
  <2>3. \A i, j \in DOMAIN s : i # j => ExtentBlocks(s[i]) \cap ExtentBlocks(s[j]) = {}
    BY <1>1, <1>2, <1>3, <1>6
  <2>. QED  BY <1>4, <2>2, <2>3 DEF Apart
<1>. QED  BY <1>5, <1>6 DEF l

\* An extent of one new block at the end.
LEMMA ExtentAdded ==
  ASSUME NEW es \in Seq(Extent), es # <<>>, NEW ib, Apart(es, ib),
         NEW b \in Nat, b \notin DataOf(es), b # ib
  PROVE  LET s == Append(es, [start |-> b, count |-> 1])
         IN  DataOf(s) = DataOf(es) \cup {b} /\ Apart(s, ib) /\ s # <<>>
<1>. DEFINE e == [start |-> b, count |-> 1]
            s == Append(es, e)
            l == Len(es)
<1>1. ExtentBlocks(e) = {b}
  BY DEF ExtentBlocks
<1>2. e \in Extent
  BY DEF Extent
<1>3. /\ DOMAIN es = 1 .. l /\ l \in Nat
      /\ DOMAIN s = 1 .. l + 1
      /\ \A k \in 1 .. l : s[k] = es[k]
      /\ s[l + 1] = e
      /\ s # <<>>
  BY <1>2, AppendProperties, LenProperties
<1>. HIDE DEF e, s, l
<1>4. DOMAIN s = DOMAIN es \cup {l + 1} /\ l + 1 \notin DOMAIN es
  BY <1>3
<1>5. \A k \in DOMAIN es : s[k] = es[k]
  BY <1>3
<1>6. DataOf(s) = DataOf(es) \cup {b}
  BY <1>1, <1>3, <1>4, <1>5 DEF DataOf
<1>7. \A i, j \in DOMAIN s : i # j => ExtentBlocks(s[i]) \cap ExtentBlocks(s[j]) = {}
  <2>1. \A k \in DOMAIN es : b \notin ExtentBlocks(s[k])
    BY <1>5 DEF DataOf
  <2>2. \A i, j \in DOMAIN es : i # j => ExtentBlocks(s[i]) \cap ExtentBlocks(s[j]) = {}
    BY <1>5 DEF Apart
  <2>3. ExtentBlocks(s[l + 1]) = {b}
    BY <1>1, <1>3
  <2>. QED  BY <1>4, <2>1, <2>2, <2>3
<1>8. Apart(s, ib)
  BY <1>6, <1>7 DEF Apart
<1>. QED  BY <1>3, <1>6, <1>8 DEF s, e

\* The last extent, of one block, dropped.
LEMMA ExtentDropped ==
  ASSUME NEW es \in Seq(Extent), es # <<>>, NEW ib, Apart(es, ib),
         NEW b, ExtentBlocks(es[Len(es)]) = {b}
  PROVE  DataOf(Front(es)) = DataOf(es) \ {b} /\ Apart(Front(es), ib)
<1>. DEFINE l == Len(es)
            s == Front(es)
<1>1. DOMAIN es = 1 .. l /\ l \in Nat /\ l > 0
  BY LenProperties, EmptySeq
<1>2. DOMAIN s = 1 .. l - 1 /\ \A k \in 1 .. l - 1 : s[k] = es[k]
  <2>1. s \in Seq(Extent) /\ Len(s) = l - 1 /\ \A k \in 1 .. l - 1 : s[k] = es[k]
    BY FrontKeeps
  <2>. QED  BY <2>1, LenProperties
<1>. HIDE DEF s, l
<1>3. DOMAIN es = DOMAIN s \cup {l} /\ l \notin DOMAIN s
  BY <1>1, <1>2
<1>4. \A k \in DOMAIN s : s[k] = es[k] /\ k \in DOMAIN es /\ k # l
  BY <1>2, <1>3
<1>5. \A i, j \in DOMAIN es : i # j => ExtentBlocks(es[i]) \cap ExtentBlocks(es[j]) = {}
  BY DEF Apart
<1>6. ExtentBlocks(es[l]) = {b}
  BY DEF l
<1>7. \A k \in DOMAIN s : b \notin ExtentBlocks(es[k])
  BY <1>3, <1>4, <1>5, <1>6
<1>8. DataOf(s) = DataOf(es) \ {b}
  BY <1>3, <1>4, <1>6, <1>7 DEF DataOf
<1>9. Apart(s, ib)
  BY <1>4, <1>5, <1>8 DEF Apart
<1>. QED  BY <1>8, <1>9 DEF s

-----------------------------------------------------------------------------
(* The inductive invariant. *)

OwnerInv ==
    /\ TypeInv
    /\ IsFiniteSet(dataBitmap)
    /\ BlocksCounted
    /\ OwnedAllocated
    /\ BlocksOwnedOnce

\* The definitions of Namespace in the terms used here.
LEMMA OwnedIsOwnedOf ==
  /\ \A i \in Inodes : OwnedBlocks(i) = OwnedOf(extents[i], indirect[i])
  /\ BlocksOwnedOnce <=>
        /\ \A i, j \in Inodes : i # j => OwnedBlocks(i) \cap OwnedBlocks(j) = {}
        /\ \A i \in Inodes : Apart(extents[i], indirect[i])
<1>1. \A i \in Inodes : DataBlocks(i) = DataOf(extents[i])
  BY DEF DataBlocks, DataOf
<1>2. \A i \in Inodes : OwnedBlocks(i) = OwnedOf(extents[i], indirect[i])
  BY <1>1 DEF OwnedBlocks, OwnedOf
<1>3. BlocksOwnedOnce => \A i \in Inodes : Apart(extents[i], indirect[i])
  BY <1>1 DEF BlocksOwnedOnce, Apart
<1>4. BlocksOwnedOnce => \A i, j \in Inodes : i # j => OwnedBlocks(i) \cap OwnedBlocks(j) = {}
  BY DEF BlocksOwnedOnce
<1>5. ASSUME \A i, j \in Inodes : i # j => OwnedBlocks(i) \cap OwnedBlocks(j) = {},
             \A i \in Inodes : Apart(extents[i], indirect[i])
      PROVE  BlocksOwnedOnce
  BY <1>1, <1>5 DEF BlocksOwnedOnce, Apart
<1>. QED  BY <1>2, <1>3, <1>4, <1>5

\* The same of the next state.
LEMMA OwnedIsOwnedOfNext ==
  /\ \A i \in Inodes : OwnedBlocks(i)' = OwnedOf(extents'[i], indirect'[i])
  /\ BlocksOwnedOnce' <=>
        /\ \A i, j \in Inodes : i # j => OwnedBlocks(i)' \cap OwnedBlocks(j)' = {}
        /\ \A i \in Inodes : Apart(extents'[i], indirect'[i])
<1>1. \A i \in Inodes : DataBlocks(i)' = DataOf(extents'[i])
  BY DEF DataBlocks, DataOf
<1>2. \A i \in Inodes : OwnedBlocks(i)' = OwnedOf(extents'[i], indirect'[i])
  BY <1>1 DEF OwnedBlocks, OwnedOf
<1>3. BlocksOwnedOnce' => \A i \in Inodes : Apart(extents'[i], indirect'[i])
  BY <1>1 DEF BlocksOwnedOnce, Apart
<1>4. BlocksOwnedOnce' => \A i, j \in Inodes : i # j => OwnedBlocks(i)' \cap OwnedBlocks(j)' = {}
  BY DEF BlocksOwnedOnce
<1>5. ASSUME \A i, j \in Inodes : i # j => OwnedBlocks(i)' \cap OwnedBlocks(j)' = {},
             \A i \in Inodes : Apart(extents'[i], indirect'[i])
      PROVE  BlocksOwnedOnce'
  BY <1>1, <1>5 DEF BlocksOwnedOnce, Apart
<1>. QED  BY <1>2, <1>3, <1>4, <1>5

\* A callback that takes the clear blocks B for p, gives back the blocks G of p,
\* and leaves every other inode its blocks or none.
LEMMA OwnersStep ==
  ASSUME OwnedAllocated, BlocksOwnedOnce,
         NEW p \in Inodes, NEW B, NEW G, B \cap dataBitmap = {}, G \subseteq OwnedBlocks(p),
         dataBitmap' = (dataBitmap \cup B) \ G,
         OwnedOf(extents'[p], indirect'[p]) \subseteq
            (OwnedOf(extents[p], indirect[p]) \cup B) \ G,
         Apart(extents'[p], indirect'[p]),
         \A i \in Inodes \ {p} : \/ extents'[i] = <<>>
                                 \/ extents'[i] = extents[i] /\ indirect'[i] = indirect[i]
  PROVE  OwnedAllocated' /\ BlocksOwnedOnce'
<1>1. /\ \A i \in Inodes : OwnedBlocks(i) = OwnedOf(extents[i], indirect[i])
      /\ \A i, j \in Inodes : i # j => OwnedBlocks(i) \cap OwnedBlocks(j) = {}
      /\ \A i \in Inodes : Apart(extents[i], indirect[i])
      /\ \A i \in Inodes : OwnedBlocks(i) \subseteq dataBitmap
  BY OwnedIsOwnedOf DEF OwnedAllocated
<1>2. OwnedBlocks(p)' \subseteq (OwnedBlocks(p) \cup B) \ G
  BY <1>1, OwnedIsOwnedOfNext
<1>3. \A i \in Inodes \ {p} : /\ OwnedBlocks(i)' \subseteq OwnedBlocks(i)
                              /\ Apart(extents'[i], indirect'[i])
  <2>. SUFFICES ASSUME NEW i \in Inodes \ {p}
                PROVE  /\ OwnedBlocks(i)' \subseteq OwnedBlocks(i)
                       /\ Apart(extents'[i], indirect'[i])
    OBVIOUS
  <2>1. CASE extents'[i] = <<>>
    <3>1. OwnedBlocks(i)' = {}
      BY <2>1, OwnedIsOwnedOfNext DEF OwnedOf
    <3>2. DOMAIN extents'[i] = {}
      BY <2>1
    <3>. QED  BY <2>1, <3>1, <3>2 DEF Apart
  <2>2. CASE extents'[i] = extents[i] /\ indirect'[i] = indirect[i]
    BY <1>1, <2>2, OwnedIsOwnedOfNext
  <2>. QED  BY <2>1, <2>2
<1>4. OwnedAllocated'
  <2>. SUFFICES ASSUME NEW i \in Inodes PROVE OwnedBlocks(i)' \subseteq dataBitmap'
    BY DEF OwnedAllocated
  <2>1. CASE i = p
    BY <1>1, <1>2, <2>1
  <2>2. CASE i # p
    <3>1. OwnedBlocks(i) \cap OwnedBlocks(p) = {}
      BY <1>1, <2>2
    <3>. QED  BY <1>1, <1>3, <2>2, <3>1
  <2>. QED  BY <2>1, <2>2
<1>5. \A i, j \in Inodes : i # j => OwnedBlocks(i)' \cap OwnedBlocks(j)' = {}
  <2>. SUFFICES ASSUME NEW i \in Inodes, NEW j \in Inodes, i # j
                PROVE  OwnedBlocks(i)' \cap OwnedBlocks(j)' = {}
    OBVIOUS
  <2>1. OwnedBlocks(i) \cap OwnedBlocks(j) = {} /\ OwnedBlocks(i) \subseteq dataBitmap
        /\ OwnedBlocks(j) \subseteq dataBitmap
    BY <1>1
  <2>2. CASE i = p
    BY <1>2, <1>3, <2>1, <2>2
  <2>3. CASE j = p
    BY <1>2, <1>3, <2>1, <2>3
  <2>4. CASE i # p /\ j # p
    BY <1>3, <2>1, <2>4
  <2>. QED  BY <2>2, <2>3, <2>4
<1>6. \A i \in Inodes : Apart(extents'[i], indirect'[i])
  BY <1>3
<1>. QED  BY <1>4, <1>5, <1>6, OwnedIsOwnedOfNext

\* The counter follows the bits when clear blocks are taken.
LEMMA TakeBlocksCounted ==
  ASSUME IsFiniteSet(dataBitmap), BlocksCounted, availableBlocks \in Nat,
         NEW B, IsFiniteSet(B), B \cap dataBitmap = {}, TakeBlocks(B)
  PROVE  IsFiniteSet(dataBitmap)' /\ BlocksCounted'
<1>1. /\ IsFiniteSet(dataBitmap \cup B)
      /\ Cardinality(dataBitmap \cup B)
            = Cardinality(dataBitmap) + Cardinality(B) - Cardinality(dataBitmap \cap B)
  BY FS_Union
<1>2. Cardinality(dataBitmap \cap B) = 0
  <2>1. dataBitmap \cap B = {}
    OBVIOUS
  <2>. QED  BY <2>1, FS_EmptySet
<1>3. Cardinality(B) \in Nat /\ Cardinality(dataBitmap) \in Nat
  BY FS_CardinalityType
<1>4. /\ dataBitmap' = dataBitmap \cup B
      /\ availableBlocks' = availableBlocks - Cardinality(B)
  BY DEF TakeBlocks
<1>5. Cardinality(dataBitmap') = Cardinality(dataBitmap) + Cardinality(B)
  BY <1>1, <1>2, <1>3, <1>4
<1>6. BlocksCounted'
  BY <1>3, <1>4, <1>5, NumBlocksAssumption DEF BlocksCounted
<1>. QED  BY <1>1, <1>4, <1>6

\* The counter follows the bits when the marked block a, or the two marked blocks
\* a and b, are given back.
LEMMA GiveBackCounted ==
  ASSUME IsFiniteSet(dataBitmap), BlocksCounted, availableBlocks \in Nat,
         NEW a \in dataBitmap, NEW b \in dataBitmap, a # b
  PROVE  /\ dataBitmap' = dataBitmap /\ availableBlocks' = availableBlocks =>
               IsFiniteSet(dataBitmap)' /\ BlocksCounted'
         /\ dataBitmap' = dataBitmap \ {a} /\ availableBlocks' = availableBlocks + 1 =>
               IsFiniteSet(dataBitmap)' /\ BlocksCounted'
         /\ dataBitmap' = dataBitmap \ {a, b} /\ availableBlocks' = availableBlocks + 2 =>
               IsFiniteSet(dataBitmap)' /\ BlocksCounted'
<1>1. Cardinality(dataBitmap) \in Nat
  BY FS_CardinalityType
<1>2. /\ IsFiniteSet(dataBitmap \ {a})
      /\ Cardinality(dataBitmap \ {a}) = Cardinality(dataBitmap) - 1
  BY FS_RemoveElement
<1>3. /\ IsFiniteSet((dataBitmap \ {a}) \ {b})
      /\ Cardinality((dataBitmap \ {a}) \ {b}) = Cardinality(dataBitmap \ {a}) - 1
  <2>1. b \in dataBitmap \ {a}
    OBVIOUS
  <2>. QED  BY <1>2, <2>1, FS_RemoveElement
<1>4. (dataBitmap \ {a}) \ {b} = dataBitmap \ {a, b}
  OBVIOUS
<1>5. CASE dataBitmap' = dataBitmap /\ availableBlocks' = availableBlocks
  BY <1>5 DEF BlocksCounted
<1>6. CASE dataBitmap' = dataBitmap \ {a} /\ availableBlocks' = availableBlocks + 1
  BY <1>1, <1>2, <1>6, NumBlocksAssumption DEF BlocksCounted
<1>7. CASE dataBitmap' = dataBitmap \ {a, b} /\ availableBlocks' = availableBlocks + 2
  <2>1. dataBitmap' = (dataBitmap \ {a}) \ {b}
    BY <1>4, <1>7
  <2>2. /\ IsFiniteSet(dataBitmap')
        /\ Cardinality(dataBitmap') = Cardinality(dataBitmap \ {a}) - 1
    BY <1>3, <2>1
  <2>3. Cardinality(dataBitmap') = Cardinality(dataBitmap) - 2
    BY <1>1, <1>2, <2>2
  <2>4. BlocksCounted'
    BY <1>1, <1>7, <2>3, NumBlocksAssumption DEF BlocksCounted
  <2>. QED  BY <2>2, <2>4
<1>. QED  BY <1>5, <1>6, <1>7

-----------------------------------------------------------------------------
(* The steps. *)

\* A formatted image: no extent, no bit set.
LEMMA InitOwnerInv == Init => OwnerInv
<1>. SUFFICES ASSUME Init PROVE OwnerInv
  OBVIOUS
<1>1. TypeInv
  BY InitTypeInv
<1>2. dataBitmap = {} /\ availableBlocks = NumBlocks
      /\ \A i \in Inodes : extents[i] = <<>> /\ DOMAIN extents[i] = {}
  BY DEF Init, Formatted
<1>3. IsFiniteSet(dataBitmap) /\ Cardinality(dataBitmap) = 0
  BY <1>2, FS_EmptySet
<1>4. BlocksCounted
  BY <1>2, <1>3, NumBlocksAssumption DEF BlocksCounted
<1>5. \A i \in Inodes : OwnedBlocks(i) = {} /\ Apart(extents[i], indirect[i])
  BY <1>2 DEF OwnedBlocks, Apart
<1>6. OwnedAllocated /\ BlocksOwnedOnce
  BY <1>5, OwnedIsOwnedOf DEF OwnedAllocated
<1>. QED  BY <1>1, <1>3, <1>4, <1>6 DEF OwnerInv

\* The callback ends half-way with the clear blocks B taken by nobody.
LEMMA AbandonKeepsOwners ==
  ASSUME OwnerInv, availableInodes > 0, NEW m, AbandonInode(m),
         NEW B, IsFiniteSet(B), B \cap dataBitmap = {}, TakeBlocks(B)
  PROVE  IsFiniteSet(dataBitmap)' /\ BlocksCounted' /\ OwnedAllocated' /\ BlocksOwnedOnce'
<1>1. NewInode \in Inodes
  BY NewInodeIsFree DEF OwnerInv, TypeInv
<1>2. dataBitmap' = (dataBitmap \cup B) \ {}
  BY DEF TakeBlocks
<1>3. /\ extents'[NewInode] = <<>> /\ DOMAIN extents'[NewInode] = {}
      /\ \A i \in Inodes \ {NewInode} : extents'[i] = extents[i] /\ indirect'[i] = indirect[i]
  BY <1>1 DEF AbandonInode, OwnerInv, TypeInv, TableInv
<1>4. OwnedOf(extents'[NewInode], indirect'[NewInode]) = {}
      /\ Apart(extents'[NewInode], indirect'[NewInode])
  BY <1>3 DEF OwnedOf, Apart
<1>5. OwnedAllocated' /\ BlocksOwnedOnce'
  <2>. DEFINE G == {}
  <2>1. G \subseteq OwnedBlocks(NewInode) /\ dataBitmap' = (dataBitmap \cup B) \ G
    BY <1>2
  <2>2. OwnedOf(extents'[NewInode], indirect'[NewInode]) \subseteq
            (OwnedOf(extents[NewInode], indirect[NewInode]) \cup B) \ G
    BY <1>4
  <2>. HIDE DEF G
  <2>. QED  BY <1>1, <1>3, <1>4, <2>1, <2>2, OwnersStep DEF OwnerInv
<1>. QED  BY <1>5, TakeBlocksCounted DEF OwnerInv, TypeInv, BlockTypes

\* The callback ends with the clear blocks B taken by p.
LEMMA EnterKeepsOwners ==
  ASSUME OwnerInv, NEW p \in Inodes, NEW new \in Inodes, new # p,
         NEW B, IsFiniteSet(B), B \cap dataBitmap = {}, TakeBlocks(B),
         NEW es, NEW ib, extents' = [extents EXCEPT ![new] = <<>>, ![p] = es],
         \/ indirect' = [indirect EXCEPT ![p] = ib]
         \/ UNCHANGED indirect /\ ib = indirect[p],
         OwnedOf(es, ib) \subseteq OwnedOf(extents[p], indirect[p]) \cup B,
         Apart(es, ib)
  PROVE  IsFiniteSet(dataBitmap)' /\ BlocksCounted' /\ OwnedAllocated' /\ BlocksOwnedOnce'
<1>1. dataBitmap' = (dataBitmap \cup B) \ {}
  BY DEF TakeBlocks
<1>2. /\ extents'[p] = es /\ indirect'[p] = ib
      /\ \A i \in Inodes \ {p} : \/ extents'[i] = <<>>
                                 \/ extents'[i] = extents[i] /\ indirect'[i] = indirect[i]
  BY DEF OwnerInv, TypeInv, BlockTypes, TableInv
<1>3. OwnedAllocated' /\ BlocksOwnedOnce'
  <2>. DEFINE G == {}
  <2>1. G \subseteq OwnedBlocks(p) /\ dataBitmap' = (dataBitmap \cup B) \ G
    BY <1>1
  <2>2. OwnedOf(extents'[p], indirect'[p]) \subseteq
            (OwnedOf(extents[p], indirect[p]) \cup B) \ G
    BY <1>2
  <2>. HIDE DEF G
  <2>. QED  BY <1>2, <2>1, <2>2, OwnersStep DEF OwnerInv
<1>. QED  BY <1>3, TakeBlocksCounted DEF OwnerInv, TypeInv, BlockTypes

\* What an inode with extents owns is marked.
LEMMA OwnedByOne ==
  ASSUME OwnerInv, NEW p \in Inodes, extents[p] # <<>>
  PROVE  /\ OwnedOf(extents[p], indirect[p]) = {indirect[p]} \cup DataOf(extents[p])
         /\ OwnedOf(extents[p], indirect[p]) = OwnedBlocks(p)
         /\ OwnedBlocks(p) \subseteq dataBitmap
         /\ Apart(extents[p], indirect[p])
BY OwnedIsOwnedOf DEF OwnerInv, OwnedAllocated, OwnedOf

\* A callback that fails before it takes anything.
LEMMA OwnersUnchanged ==
  ASSUME OwnerInv, UNCHANGED <<dataBitmap, availableBlocks, indirect, extents>>
  PROVE  IsFiniteSet(dataBitmap)' /\ BlocksCounted' /\ OwnedAllocated' /\ BlocksOwnedOnce'
<1>1. \A i \in Inodes : OwnedBlocks(i)' = OwnedBlocks(i)
  BY DEF OwnedBlocks, DataBlocks
<1>2. IsFiniteSet(dataBitmap)' /\ BlocksCounted' /\ OwnedAllocated'
  BY <1>1 DEF OwnerInv, BlocksCounted, OwnedAllocated
<1>3. BlocksOwnedOnce'
  BY <1>1, OwnedIsOwnedOf, OwnedIsOwnedOfNext DEF OwnerInv
<1>. QED  BY <1>2, <1>3

\* The four ways of an addition, one step each.
LEMMA AddEntryKeepsOwners ==
  ASSUME OwnerInv, NEW p \in Inodes, NEW nm \in Names, NEW m \in {"dir", "reg"},
         AddEntry(p, nm, m)
  PROVE  IsFiniteSet(dataBitmap)' /\ BlocksCounted' /\ OwnedAllocated' /\ BlocksOwnedOnce'
<1>. DEFINE n  == Len(entries[p])
            es == extents[p]
            Owners == /\ IsFiniteSet(dataBitmap)'
                      /\ BlocksCounted'
                      /\ OwnedAllocated'
                      /\ BlocksOwnedOnce'
<1>1. /\ IsDirectory(p) /\ numOfDataBlocks \in Nat /\ availableBlocks \in Nat
      /\ n \in Nat /\ es \in Seq(Extent) /\ Fits(es, n)
  BY LenProperties
     DEF AddEntry, OwnerInv, TypeInv, InodeInv, InodeTypes, BlockTypes, TableInv,
         ExtentsFitEntries
<1>2. CASE UNCHANGED <<allocVars, fileVars, status>>
  BY <1>2, OwnersUnchanged DEF allocVars, fileVars, Owners
<1>3. ASSUME availableInodes > 0
      PROVE  NewInode \in Inodes /\ NewInode # p
  BY <1>1, <1>3, NewInodeIsFree
     DEF OwnerInv, TypeInv, InodeInv, LinkedAllocated, IsDirectory
<1>4. ASSUME availableInodes > 0, FailNoSpace(m) \/ Die(m),
             NEW B, IsFiniteSet(B), B \cap dataBitmap = {}, TakeBlocks(B)
      PROVE  Owners
  BY <1>4, AbandonKeepsOwners DEF FailNoSpace, Die
<1>5. IsFiniteSet({}) /\ (\A a : IsFiniteSet({a})) /\ (\A a, b : IsFiniteSet({a, b}))
  <2>1. IsFiniteSet({})
    BY FS_EmptySet
  <2>2. \A a : IsFiniteSet({a})
    BY FS_Singleton
  <2>3. ASSUME NEW a, NEW b PROVE IsFiniteSet({a, b})
    <3>1. IsFiniteSet({a} \cup {b})
      BY <2>2, FS_Union
    <3>2. {a, b} = {a} \cup {b}
      OBVIOUS
    <3>. QED  BY <3>1, <3>2
  <2>. QED  BY <2>1, <2>2, <2>3
<1>. HIDE DEF Owners, n, es
<1>6. ASSUME availableInodes > 0, AddToEmptyParent(p, nm, m)
      PROVE  Owners
  <2>. DEFINE ib == get_first_available_position(numOfDataBlocks, dataBitmap)
              db == get_first_available_position(numOfDataBlocks, set_bitmap(dataBitmap, ib))
  <2>1. ib # NotFound => ib \in Nat /\ ib \notin dataBitmap
    BY <1>1, FoundBlock
  <2>2. db # NotFound => db \in Nat /\ db # ib /\ db \notin dataBitmap
    BY <1>1, FoundBlock DEF set_bitmap
  <2>. HIDE DEF ib, db
  <2>3. CASE TakeBlocks({}) /\ (FailNoSpace(m) \/ Die(m))
    BY <1>4, <1>5, <1>6, <2>3
  <2>4. CASE ib # NotFound /\ TakeBlocks({ib}) /\ (FailNoSpace(m) \/ Die(m))
    <3>1. {ib} \cap dataBitmap = {}
      BY <2>1, <2>4
    <3>. QED  BY <1>4, <1>5, <1>6, <2>4, <3>1
  <2>5. CASE /\ ib # NotFound /\ db # NotFound
             /\ TakeBlocks({ib, db})
             /\ indirect' = [indirect EXCEPT ![p] = ib]
             /\ extents' = [extents EXCEPT ![NewInode] = <<>>,
                                           ![p] = <<[start |-> db, count |-> 1]>>]
    <3>. DEFINE first == <<[start |-> db, count |-> 1]>>
    <3>1. DataOf(first) = {db} /\ Apart(first, ib) /\ first # <<>>
      BY <2>2, <2>5, FirstExtent
    <3>2. extents' = [extents EXCEPT ![NewInode] = <<>>, ![p] = first]
      BY <2>5
    <3>. HIDE DEF first
    <3>3. OwnedOf(first, ib) \subseteq OwnedOf(extents[p], indirect[p]) \cup {ib, db}
      BY <3>1 DEF OwnedOf
    <3>4. {ib, db} \cap dataBitmap = {}
      BY <2>1, <2>2, <2>5
    <3>. QED  BY <1>3, <1>5, <1>6, <2>5, <3>1, <3>2, <3>3, <3>4, EnterKeepsOwners DEF Owners
  <2>. QED  BY <1>6, <2>3, <2>4, <2>5 DEF AddToEmptyParent, ib, db
<1>7. ASSUME availableInodes > 0, AddToLastBlock(p, nm, m)
      PROVE  Owners
  <2>1. NewInode \in Inodes /\ NewInode # p
    BY <1>3, <1>7
  <2>2. extents' = [extents EXCEPT ![NewInode] = <<>>, ![p] = es]
    BY <1>7, <2>1 DEF AddToLastBlock, OwnerInv, TypeInv, TableInv, es
  <2>3. TakeBlocks({}) /\ UNCHANGED indirect
    BY <1>7 DEF AddToLastBlock
  <2>4. Apart(es, indirect[p])
    BY OwnedIsOwnedOf DEF OwnerInv, es
  <2>5. OwnedOf(es, indirect[p]) \subseteq OwnedOf(extents[p], indirect[p]) \cup {}
    BY DEF es
  <2>6. {} \cap dataBitmap = {}
    OBVIOUS
  <2>. QED  BY <1>5, <2>1, <2>2, <2>3, <2>4, <2>5, <2>6, EnterKeepsOwners DEF Owners
<1>8. ASSUME availableInodes > 0, AddToNextBlock(p, nm, m)
      PROVE  Owners
  <2>. DEFINE l == Len(es)
              b == find_last_block(p) + 1
              e == [es[l] EXCEPT !.count = @ + 1]
              longer == [es EXCEPT ![l].count = @ + 1]
  <2>1. es # <<>> /\ l \in DOMAIN es /\ DOMAIN es = 1 .. l
    <3>1. n # 0
      BY <1>1, <1>8, EmptySeq DEF AddToNextBlock, n, OwnerInv, TypeInv, InodeInv, InodeTypes
    <3>2. es # <<>>
      BY <1>1, <3>1, FitsNonempty
    <3>. QED  BY <1>1, <3>2, LenProperties, EmptySeq
  <2>2. es[l] \in Extent /\ es[l].start \in Nat /\ es[l].count \in Nat
    BY <1>1, <2>1, ExtentAt
  <2>3. b = es[l].start + es[l].count /\ b \in Nat
    <3>1. b = es[l].start + es[l].count - 1 + 1
      BY DEF find_last_block, Last, es
    <3>. HIDE DEF b, e, longer, l
    <3>. QED  BY <2>2, <3>1
  <2>4. b \notin dataBitmap /\ TakeBlocks({b})
    BY <1>8 DEF AddToNextBlock, is_bit_set
  <2>. HIDE DEF b
  <2>5. {b} \cap dataBitmap = {}
    BY <2>4
  <2>6. CASE Die(m)
    BY <1>4, <1>5, <1>8, <2>4, <2>5, <2>6
  <2>7. CASE /\ extents' = [extents EXCEPT ![NewInode] = <<>>,
                                           ![p][Len(extents[p])].count = @ + 1]
             /\ UNCHANGED indirect
    <3>1. NewInode \in Inodes /\ NewInode # p
      BY <1>3, <1>8
    <3>2. extents' = [extents EXCEPT ![NewInode] = <<>>, ![p] = longer]
      BY <2>7, <3>1 DEF OwnerInv, TypeInv, TableInv, es
    <3>3. ExtentBlocks(e) = ExtentBlocks(es[l]) \cup {b}
      <4>1. e.start = es[l].start /\ e.count = es[l].count + 1
        BY <2>2 DEF Extent
      <4>. HIDE DEF e, l
      <4>. QED  BY <2>2, <2>3, <4>1, ExtentResized
    <3>4. DOMAIN longer = DOMAIN es /\ \A k \in DOMAIN es : longer[k] = IF k = l THEN e ELSE es[k]
      BY <2>1
    <3>5. /\ b \notin DataOf(es) /\ b # indirect[p] /\ Apart(es, indirect[p])
          /\ OwnedOf(es, indirect[p]) = {indirect[p]} \cup DataOf(es)
      BY <2>1, <2>4, OwnedByOne DEF es
    <3>. HIDE DEF e, longer
    <3>6. DataOf(longer) = DataOf(es) \cup {b} /\ Apart(longer, indirect[p])
      <4>1. \A c : ExtentBlocks(e) = ExtentBlocks(es[Len(es)]) \cup {c}
                   /\ c \notin DataOf(es) /\ c # indirect[p] =>
                      DataOf(longer) = DataOf(es) \cup {c} /\ Apart(longer, indirect[p])
        BY <1>1, <2>1, <3>4, <3>5, LastExtentChanged
      <4>. QED  BY <3>3, <3>5, <4>1
    <3>7. OwnedOf(longer, indirect[p]) \subseteq OwnedOf(extents[p], indirect[p]) \cup {b}
      BY <3>5, <3>6 DEF OwnedOf, es
    <3>. QED  BY <1>5, <2>4, <2>5, <2>7, <3>1, <3>2, <3>6, <3>7, EnterKeepsOwners DEF Owners
  <2>. QED  BY <1>8, <2>6, <2>7 DEF AddToNextBlock
<1>9. ASSUME availableInodes > 0, AddToNewExtent(p, nm, m)
      PROVE  Owners
  <2>. DEFINE b == get_first_available_position(numOfDataBlocks, dataBitmap)
              more == Append(es, [start |-> b, count |-> 1])
  <2>1. b # NotFound => b \in Nat /\ b \notin dataBitmap
    BY <1>1, FoundBlock
  <2>. HIDE DEF b
  <2>2. es # <<>>
    <3>1. n # 0
      BY <1>1, <1>9, EmptySeq DEF AddToNewExtent, n, OwnerInv, TypeInv, InodeInv, InodeTypes
    <3>. QED  BY <1>1, <3>1, FitsNonempty
  <2>3. CASE TakeBlocks({}) /\ (FailNoSpace(m) \/ Die(m))
    BY <1>4, <1>5, <1>9, <2>3
  <2>4. CASE /\ b # NotFound /\ TakeBlocks({b})
             /\ extents' = [extents EXCEPT ![NewInode] = <<>>,
                                           ![p] = Append(@, [start |-> b, count |-> 1])]
             /\ UNCHANGED indirect
    <3>1. NewInode \in Inodes /\ NewInode # p
      BY <1>3, <1>9
    <3>2. extents' = [extents EXCEPT ![NewInode] = <<>>, ![p] = more]
      BY <2>4, <3>1 DEF OwnerInv, TypeInv, TableInv, es
    <3>3. /\ b \notin DataOf(es) /\ b # indirect[p] /\ Apart(es, indirect[p])
          /\ OwnedOf(es, indirect[p]) = {indirect[p]} \cup DataOf(es)
      <4>1. b \notin dataBitmap
        BY <2>1, <2>4
      <4>. HIDE DEF more
      <4>. QED  BY <2>2, <4>1, OwnedByOne DEF es
    <3>4. DataOf(more) = DataOf(es) \cup {b} /\ Apart(more, indirect[p])
      BY <1>1, <2>1, <2>2, <2>4, <3>3, ExtentAdded
    <3>. HIDE DEF more
    <3>5. OwnedOf(more, indirect[p]) \subseteq OwnedOf(extents[p], indirect[p]) \cup {b}
      BY <3>3, <3>4 DEF OwnedOf, es
    <3>6. {b} \cap dataBitmap = {}
      BY <2>1, <2>4
    <3>. QED  BY <1>5, <2>4, <3>1, <3>2, <3>4, <3>5, <3>6, EnterKeepsOwners DEF Owners
  <2>. QED  BY <1>9, <2>3, <2>4 DEF AddToNewExtent, b
<1>. QED  BY <1>2, <1>6, <1>7, <1>8, <1>9 DEF AddEntry, Owners

\* The last block of a directory with entries: it is one of its data blocks,
\* marked, and not its indirect block.
LEMMA LastBlockOwned ==
  ASSUME OwnerInv, NEW p \in Inodes, entries[p] # <<>>
  PROVE  LET es == extents[p]
             l  == Len(es)
             b  == find_last_block(p)
         IN  /\ es \in Seq(Extent) /\ es # <<>> /\ l \in DOMAIN es
             /\ es[l].start \in Nat /\ es[l].count \in Nat /\ es[l].count > 0
             /\ b = es[l].start + es[l].count - 1
             /\ b \in ExtentBlocks(es[l]) /\ b \in DataOf(es)
             /\ b \in dataBitmap /\ indirect[p] \in dataBitmap /\ b # indirect[p]
             /\ Apart(es, indirect[p])
<1>. DEFINE es == extents[p]
            l  == Len(es)
            b  == find_last_block(p)
            n  == Len(entries[p])
<1>1. n \in Nat /\ n # 0 /\ es \in Seq(Extent) /\ Fits(es, n)
  BY LenProperties, EmptySeq
     DEF OwnerInv, TypeInv, InodeInv, InodeTypes, TableInv, ExtentsFitEntries
<1>2. b = es[l].start + es[l].count - 1
  BY DEF find_last_block, Last
<1>. HIDE DEF n, b
<1>3. es # <<>>
  <2>. HIDE DEF es
  <2>. QED  BY <1>1, FitsNonempty
<1>4. Apart(es, indirect[p]) /\ OwnedOf(es, indirect[p]) \subseteq dataBitmap
      /\ OwnedOf(es, indirect[p]) = {indirect[p]} \cup DataOf(es)
  BY <1>3, OwnedByOne
<1>. HIDE DEF es
<1>5. l \in 1 .. Len(es) /\ DOMAIN es = 1 .. Len(es)
  BY <1>1, <1>3, LenProperties, EmptySeq
<1>. HIDE DEF l
<1>6. es[l].start \in Nat /\ es[l].count \in Nat
  BY <1>1, <1>5, ExtentAt
<1>7. es[l].count > 0
  BY <1>1, <1>5 DEF Fits
<1>8. b \in ExtentBlocks(es[l])
  BY <1>2, <1>6, <1>7 DEF ExtentBlocks
<1>9. b \in DataOf(es)
  BY <1>5, <1>8 DEF DataOf
<1>10. b \in dataBitmap /\ indirect[p] \in dataBitmap /\ b # indirect[p]
  BY <1>3, <1>4, <1>9 DEF Apart
<1>. QED
  BY <1>1, <1>2, <1>3, <1>4, <1>5, <1>6, <1>7, <1>8, <1>9, <1>10 DEF es, l, b

\* One entry fills one block.
LEMMA OneEntryOneBlock ==
  ASSUME NEW es \in Seq(Extent), Fits(es, 1)
  PROVE  DOMAIN es = {1} /\ es[1].count = 1
<1>. DEFINE l == Len(es)
<1>1. D \in Nat /\ D > 1 /\ l \in Nat
  BY DentriesAssumption, LenProperties DEF D
<1>2. PICK f \in [0 .. l -> Nat] :
        /\ f[0] = 0
        /\ \A k \in 1 .. l : es[k].count > 0 /\ f[k] = f[k - 1] + es[k].count
        /\ f[l] * D - D < 1 /\ 1 <= f[l] * D
  BY DEF Fits
<1>3. f[l] = 1
  <2>. DEFINE c == f[l]
  <2>1. c \in Nat /\ c * D - D < 1 /\ 1 <= c * D
    BY <1>1, <1>2
  <2>. HIDE DEF c
  <2>2. c # 0
    BY <1>1, <2>1
  <2>3. CASE c > 1
    <3>1. (c - 2) * D \in Nat
      BY <1>1, <2>1, <2>3
    <3>2. c * D - D = (c - 2) * D + D
      BY <1>1, <2>1
    <3>. QED  BY <1>1, <2>1, <3>1, <3>2
  <2>. QED  BY <2>1, <2>2, <2>3 DEF c
<1>. HIDE DEF l
<1>4. l # 0
  BY <1>2, <1>3
<1>5. \A k \in 1 .. l : es[k].count \in Nat
  BY ExtentAt DEF l
<1>6. l = 1
  <2>. SUFFICES ASSUME l # 1 PROVE FALSE
    OBVIOUS
  <2>1. l \in 1 .. l /\ l - 1 \in 1 .. l /\ l - 2 \in 0 .. l
    BY <1>1, <1>4
  <2>2. f[l] = f[l - 1] + es[l].count /\ f[l - 1] = f[l - 2] + es[l - 1].count
    BY <1>2, <2>1
  <2>3. /\ es[l].count > 0 /\ es[l].count \in Nat
        /\ es[l - 1].count > 0 /\ es[l - 1].count \in Nat /\ f[l - 2] \in Nat
    BY <1>2, <1>5, <2>1
  <2>. DEFINE u == es[l].count
              v == es[l - 1].count
              w == f[l - 2]
  <2>4. f[l] = (w + v) + u /\ u \in Nat /\ v \in Nat /\ w \in Nat /\ u > 0 /\ v > 0
    BY <2>2, <2>3
  <2>. HIDE DEF u, v, w
  <2>5. f[l] > 1
    BY <2>4
  <2>6. f[l] = 1
    BY <1>3
  <2>. QED  BY <2>5, <2>6
<1>7. es[1].count = 1
  BY <1>2, <1>3, <1>5, <1>6
<1>. QED  BY <1>6, <1>7, LenProperties DEF l

\* p keeps every block but the ones it gives back, whichever extent they were in:
\* with its last entry it gives back all it owns.
LEMMA ExtentsKeptOwned ==
  ASSUME OwnerInv, NEW p \in Inodes, entries[p] # <<>>
  PROVE  /\ BlocksGivenBack(p) \subseteq OwnedBlocks(p)
         /\ OwnedOf(ExtentsKept(p), indirect[p]) =
               OwnedOf(extents[p], indirect[p]) \ BlocksGivenBack(p)
         /\ Apart(ExtentsKept(p), indirect[p])
<1>. DEFINE es == extents[p]
            l  == Len(es)
            b  == find_last_block(p)
            ib == indirect[p]
            n  == Len(entries[p])
<1>1. /\ es \in Seq(Extent) /\ es # <<>> /\ l \in DOMAIN es
      /\ es[l].start \in Nat /\ es[l].count \in Nat /\ es[l].count > 0
      /\ b = es[l].start + es[l].count - 1
      /\ b \in ExtentBlocks(es[l]) /\ b \in DataOf(es)
      /\ b # ib
      /\ Apart(es, ib)
  BY LastBlockOwned
<1>2. OwnedOf(es, ib) = {ib} \cup DataOf(es) /\ OwnedOf(es, ib) = OwnedBlocks(p)
  BY <1>1, OwnedByOne
<1>3. BlocksGivenBack(p) = IF n = 1 THEN {b, ib} ELSE IF n % D = 1 THEN {b} ELSE {}
  BY DEF BlocksGivenBack, D
<1>4. ExtentsKept(p) = IF n = 1 THEN <<>>
                       ELSE IF n % D # 1 THEN es
                       ELSE IF es[l].count > 1 THEN [es EXCEPT ![l].count = @ - 1]
                       ELSE Front(es)
  BY DEF ExtentsKept, D
<1>. HIDE DEF n, b, ib, es
<1>5. BlocksGivenBack(p) \subseteq OwnedBlocks(p)
  BY <1>1, <1>2, <1>3
<1>6. CASE n = 1
  <2>1. ExtentsKept(p) = <<>> /\ DOMAIN ExtentsKept(p) = {}
    BY <1>4, <1>6
  <2>2. Fits(es, 1)
    BY <1>6, LenProperties DEF n, es, OwnerInv, TypeInv, TableInv, ExtentsFitEntries
  <2>3. DOMAIN es = {1} /\ es[1].count = 1
    BY <1>1, <2>2, OneEntryOneBlock
  <2>4. DataOf(es) = {b}
    <3>. HIDE DEF l
    <3>1. l = 1
      BY <1>1, <2>3
    <3>2. b = es[1].start
      BY <1>1, <2>3, <3>1
    <3>3. ExtentBlocks(es[1]) = {b}
      BY <1>1, <2>3, <3>1, <3>2 DEF ExtentBlocks
    <3>. QED  BY <2>3, <3>3 DEF DataOf
  <2>5. OwnedOf(es, ib) \ BlocksGivenBack(p) = {}
    BY <1>2, <1>3, <1>6, <2>4
  <2>. QED  BY <1>5, <2>1, <2>5 DEF OwnedOf, Apart, es, ib
<1>7. CASE n # 1 /\ n % D # 1
  <2>1. ExtentsKept(p) = es /\ BlocksGivenBack(p) = {}
    BY <1>3, <1>4, <1>7
  <2>. QED  BY <1>1, <1>5, <2>1 DEF es, ib
<1>8. CASE n # 1 /\ n % D = 1
  <2>. DEFINE kept == ExtentsKept(p)
  <2>1. BlocksGivenBack(p) = {b}
    BY <1>3, <1>8
  <2>2. DataOf(kept) = DataOf(es) \ {b} /\ Apart(kept, ib)
    <3>1. CASE es[l].count > 1
      <4>. DEFINE e == [es[l] EXCEPT !.count = @ - 1]
      <4>1. kept = [es EXCEPT ![l] = e]
        BY <1>1, <1>4, <1>8, <3>1
      <4>2. ExtentBlocks(e) = ExtentBlocks(es[l]) \ {b}
        <5>1. es[l] \in Extent
          BY <1>1, LenProperties, ElementOfSeq
        <5>2. e.start = es[l].start /\ e.count = es[l].count - 1
          BY <5>1 DEF Extent
        <5>. HIDE DEF e, l
        <5>. QED  BY <1>1, <5>2, ExtentResized
      <4>. HIDE DEF e, kept
      <4>3. DOMAIN kept = DOMAIN es /\ \A k \in DOMAIN es : kept[k] = IF k = l THEN e ELSE es[k]
        BY <1>1, <4>1
      <4>4. \A c : ExtentBlocks(e) = ExtentBlocks(es[Len(es)]) \ {c}
                   /\ c \in ExtentBlocks(es[Len(es)]) =>
                      DataOf(kept) = DataOf(es) \ {c} /\ Apart(kept, ib)
        BY <1>1, <4>3, LastExtentChanged
      <4>. QED  BY <1>1, <4>2, <4>4
    <3>2. CASE ~(es[l].count > 1)
      <4>1. es[l].count = 1 /\ b = es[l].start
        BY <1>1, <3>2
      <4>2. ExtentBlocks(es[l]) = {b}
        BY <1>1, <4>1 DEF ExtentBlocks
      <4>3. kept = Front(es)
        BY <1>4, <1>8, <3>2
      <4>. HIDE DEF kept
      <4>. QED  BY <1>1, <4>2, <4>3, ExtentDropped
    <3>. QED  BY <3>1, <3>2
  <2>. HIDE DEF kept
  <2>3. kept # <<>>
    <3>1. n \in Nat /\ n - 1 \in Nat /\ n - 1 # 0
      BY <1>8, LenProperties, EmptySeq DEF n, OwnerInv, TypeInv, InodeInv, InodeTypes
    <3>2. kept \in Seq(Extent) /\ Fits(kept, n - 1)
      <4>1. /\ entries[p] \in Seq(Dentry) /\ extents[p] \in Seq(Extent)
            /\ Fits(extents[p], Len(entries[p]))
        BY DEF OwnerInv, TypeInv, InodeInv, InodeTypes, TableInv, ExtentsFitEntries
      <4>. QED  BY <4>1, ExtentsKeptFit DEF kept, n
    <3>. QED  BY <3>1, <3>2, FitsNonempty
  <2>4. OwnedOf(kept, ib) = OwnedOf(es, ib) \ {b}
    BY <1>1, <1>2, <2>2, <2>3 DEF OwnedOf
  <2>. QED  BY <1>5, <2>1, <2>2, <2>4 DEF kept, es, ib
<1>. QED  BY <1>6, <1>7, <1>8

\* The removal of t, which has no entries, from p.
LEMMA RemoveEntryKeepsOwners ==
  ASSUME OwnerInv, NEW p \in Inodes, NEW nm \in Names, HasEntry(p, nm),
         NEW lost \in {0, 1},
         entries[Lookup(p, nm)] = <<>>,
         RemoveEntry(p, Lookup(p, nm), {}, 0, lost)
  PROVE  IsFiniteSet(dataBitmap)' /\ BlocksCounted' /\ OwnedAllocated' /\ BlocksOwnedOnce'
<1>. DEFINE t == Lookup(p, nm)
            b == find_last_block(p)
            ib == indirect[p]
<1>1. entries[p] \in Seq(Dentry) /\ availableBlocks \in Nat
  BY DEF OwnerInv, TypeInv, InodeInv, InodeTypes, BlockTypes
<1>2. PICK j \in DOMAIN entries[p] : entries[p][j].ino = t
  BY <1>1, LookupFinds
<1>3. entries[p][j] \in Dentry /\ entries[p] # <<>>
  BY <1>1, <1>2, LenProperties, ElementOfSeq, EmptySeq
<1>4. t \in Inodes /\ t # p /\ entries[t] = <<>>
  BY <1>2, <1>3 DEF Dentry
<1>. HIDE DEF t
<1>5. /\ extents' = [extents EXCEPT ![t] = <<>>, ![p] = ExtentsKept(p)]
      /\ dataBitmap' = dataBitmap \ BlocksGivenBack(p)
      /\ availableBlocks' = availableBlocks + CountGivenBack(p)
      /\ indirect' = indirect
  <2>1. CountGivenBack(p) \in Nat
    BY DEF CountGivenBack
  <2>2. availableBlocks' = availableBlocks + 0 + CountGivenBack(p)
    BY DEF RemoveEntry
  <2>3. availableBlocks' = availableBlocks + CountGivenBack(p)
    BY <1>1, <2>1, <2>2
  <2>. QED  BY <2>3 DEF RemoveEntry, t
<1>6. b \in dataBitmap /\ ib \in dataBitmap /\ b # ib
  BY <1>3, LastBlockOwned
<1>. HIDE DEF b, ib
<1>7. IsFiniteSet(dataBitmap)' /\ BlocksCounted'
  <2>1. \/ BlocksGivenBack(p) = {b, ib} /\ CountGivenBack(p) = 2
        \/ BlocksGivenBack(p) = {b} /\ CountGivenBack(p) = 1
        \/ BlocksGivenBack(p) = {} /\ CountGivenBack(p) = 0
    BY DEF BlocksGivenBack, CountGivenBack, b, ib
  <2>2. \/ dataBitmap' = dataBitmap \ {b, ib} /\ availableBlocks' = availableBlocks + 2
        \/ dataBitmap' = dataBitmap \ {b} /\ availableBlocks' = availableBlocks + 1
        \/ dataBitmap' = dataBitmap /\ availableBlocks' = availableBlocks
    BY <1>1, <1>5, <2>1
  <2>. QED  BY <1>1, <1>6, <2>2, GiveBackCounted DEF OwnerInv
<1>8. /\ BlocksGivenBack(p) \subseteq OwnedBlocks(p)
      /\ OwnedOf(ExtentsKept(p), indirect[p]) =
               OwnedOf(extents[p], indirect[p]) \ BlocksGivenBack(p)
      /\ Apart(ExtentsKept(p), indirect[p])
  BY <1>3, ExtentsKeptOwned
<1>9. /\ extents'[p] = ExtentsKept(p)
      /\ \A i \in Inodes \ {p} : extents'[i] = <<>> \/ extents'[i] = extents[i]
  BY <1>4, <1>5 DEF OwnerInv, TypeInv, TableInv
<1>10. OwnedAllocated' /\ BlocksOwnedOnce'
  <2>. DEFINE B == {}
              G == BlocksGivenBack(p)
  <2>1. B \cap dataBitmap = {} /\ dataBitmap' = (dataBitmap \cup B) \ G
    BY <1>5
  <2>2. OwnedOf(extents'[p], indirect'[p]) \subseteq
            (OwnedOf(extents[p], indirect[p]) \cup B) \ G
    BY <1>5, <1>8, <1>9
  <2>3. /\ G \subseteq OwnedBlocks(p) /\ Apart(extents'[p], indirect'[p])
        /\ \A i \in Inodes \ {p} : \/ extents'[i] = <<>>
                                   \/ extents'[i] = extents[i] /\ indirect'[i] = indirect[i]
    BY <1>5, <1>8, <1>9
  <2>. HIDE DEF B, G
  <2>. QED  BY <2>1, <2>2, <2>3, OwnersStep DEF OwnerInv
<1>. QED  BY <1>7, <1>10

\* One step for each callback and for a mount.
LEMMA NextKeepsOwnerInv == OwnerInv /\ [Next]_vars => OwnerInv'
<1>. SUFFICES ASSUME OwnerInv, [Next]_vars PROVE OwnerInv'
  OBVIOUS
<1>. DEFINE Owners == /\ IsFiniteSet(dataBitmap)'
                      /\ BlocksCounted'
                      /\ OwnedAllocated'
                      /\ BlocksOwnedOnce'
<1>1. TypeInv'
  BY NextKeepsTypeInv DEF OwnerInv
<1>2. ASSUME UNCHANGED <<allocVars, fileVars>>
      PROVE  Owners
  BY <1>2, OwnersUnchanged DEF allocVars, fileVars
<1>3. ASSUME Mount
      PROVE  Owners
  BY <1>2, <1>3 DEF Mount
<1>4. ASSUME NEW p \in Inodes, NEW nm \in Names, Mkdir(p, nm)
      PROVE  Owners
  BY <1>4, AddEntryKeepsOwners DEF Mkdir
<1>5. ASSUME NEW p \in Inodes, NEW nm \in Names, Create(p, nm)
      PROVE  Owners
  BY <1>5, AddEntryKeepsOwners DEF Create
<1>6. ASSUME NEW p \in Inodes, NEW nm \in Names, Rmdir(p, nm)
      PROVE  Owners
  <2>. DEFINE t == Lookup(p, nm)
  <2>1. CASE UNCHANGED <<allocVars, fileVars, numOfDataBlocks, status>>
    BY <1>2, <2>1
  <2>2. CASE entries[t] = <<>> /\ RemoveEntry(p, t, {}, 0, 1)
    BY <1>6, <2>2, RemoveEntryKeepsOwners DEF Rmdir
  <2>. QED  BY <1>6, <2>1, <2>2 DEF Rmdir
<1>7. ASSUME NEW p \in Inodes, NEW nm \in Names, Unlink(p, nm)
      PROVE  Owners
  <2>. DEFINE t == Lookup(p, nm)
  <2>1. t \in Inodes
    <3>1. entries[p] \in Seq(Dentry)
      BY DEF OwnerInv, TypeInv, InodeInv, InodeTypes
    <3>2. PICK k \in DOMAIN entries[p] : entries[p][k].ino = t
      BY <1>7, <3>1, LookupFinds DEF Unlink
    <3>3. entries[p][k] \in Dentry
      BY <3>1, <3>2, LenProperties, ElementOfSeq
    <3>. QED  BY <3>2, <3>3 DEF Dentry
  <2>2. itable[t].mode = "reg" /\ HasEntry(p, nm)
    BY <1>7 DEF Unlink
  <2>3. entries[t] = <<>> /\ itable[t].size = 0
    BY <2>1, <2>2 DEF OwnerInv, TypeInv, TableInv, OnlyDirectoriesHoldEntries, FilesEmpty
  <2>4. RemoveEntry(p, t, {}, 0, 0)
    BY <1>7, <2>3 DEF Unlink
  <2>. QED  BY <2>2, <2>3, <2>4, RemoveEntryKeepsOwners
<1>8. ASSUME UNCHANGED vars
      PROVE  Owners
  BY <1>2, <1>8 DEF vars
<1>9. Owners
  BY <1>3, <1>4, <1>5, <1>6, <1>7, <1>8 DEF Next, Callback
<1>. QED  BY <1>1, <1>9 DEF OwnerInv

\* The invariant of this module holds in every reachable state, the ones a killed
\* driver leaves behind and a later mount starts from included.
THEOREM OwnerInvariant == Spec => []OwnerInv
<1>. QED  BY InitOwnerInv, NextKeepsOwnerInv, PTL DEF Spec

\* available_blocks is exact: every path that sets or clears a bit of the data
\* bitmap moves the counter with it, the paths that give up half-way included.
THEOREM BlocksAreCounted == Spec => []BlocksCounted
<1>1. OwnerInv => BlocksCounted
  BY DEF OwnerInv
<1>. QED  BY <1>1, OwnerInvariant, PTL

\* A block a directory owns has its bit set, so no search returns it and no
\* extent grows into it.
THEOREM OwnedIsAllocated == Spec => []OwnedAllocated
<1>1. OwnerInv => OwnedAllocated
  BY DEF OwnerInv
<1>. QED  BY <1>1, OwnerInvariant, PTL

\* No block is used twice: by two directories, by two extents of one, or as data
\* and as an indirect block.
THEOREM BlocksHaveOneOwner == Spec => []BlocksOwnedOnce
<1>1. OwnerInv => BlocksOwnedOnce
  BY DEF OwnerInv
<1>. QED  BY <1>1, OwnerInvariant, PTL

=============================================================================
