----------------------------- MODULE PathsLookup -----------------------------
(***************************************************************************)
(* Proofs about Paths, for every value of the constants: path_lookup walks *)
(* the tree one name at a time, so that each inode has one path, readdir   *)
(* lists what can be looked up, a change of times is answered with the     *)
(* entry of the root, and the blocks that are counted add up.              *)
(***************************************************************************)
EXTENDS Paths, NamespaceTree

-----------------------------------------------------------------------------
(* What the recursive function of path_lookup computes. *)

\* What is found for the first k names of path, where f has what is found for fewer.
FoundStep(path, f, k) ==
    CASE k = 0 -> ROOT_INODE
      [] k = 1 -> Scan(ROOT_INODE, path[1], NotThere)
      [] k > 1 /\ f[k - 1] = NotADir -> NotADir
      [] OTHER -> Descend(f[k - 1], path[k])

\* f has what is found for each beginning of path up to n names.
Walks(path, f, n) == f = [k \in 0 .. n |-> FoundStep(path, f, k)]

\* Such a walk exists: a least length for which there is none would have one before it.
LEMMA WalksExist ==
  ASSUME NEW path
  PROVE  \A n \in Nat : \E f : Walks(path, f, n)
<1>. DEFINE Bad == {n \in Nat : ~\E f : Walks(path, f, n)}
<1>. SUFFICES ASSUME Bad # {} PROVE FALSE
  OBVIOUS
<1>1. PICK n \in Bad : \A j \in Bad : n <= j
  BY LeastElement
<1>2. n # 0
  <2>. DEFINE s == [k \in 0 .. 0 |-> ROOT_INODE]
  <2>1. \A k \in 0 .. 0 : FoundStep(path, s, k) = ROOT_INODE
    BY DEF FoundStep
  <2>2. s = [k \in 0 .. 0 |-> FoundStep(path, s, k)]
    BY <2>1
  <2>3. Walks(path, s, 0)
    BY <2>2 DEF Walks
  <2>. QED  BY <1>1, <2>3
<1>3. n - 1 \in Nat /\ n - 1 \notin Bad
  BY <1>1, <1>2
<1>4. PICK f : Walks(path, f, n - 1)
  BY <1>3
<1>. DEFINE s == [k \in 0 .. n |-> FoundStep(path, f, k)]
<1>5. \A k \in 0 .. n - 1 : f[k] = FoundStep(path, f, k)
  BY <1>4 DEF Walks
<1>6. ASSUME NEW k \in 0 .. n
      PROVE  FoundStep(path, s, k) = FoundStep(path, f, k)
  <2>1. CASE k = 0 \/ k = 1
    BY <2>1 DEF FoundStep
  <2>2. CASE k > 1
    <3>1. k - 1 \in 0 .. n - 1 /\ k - 1 \in 0 .. n
      BY <1>1, <2>2
    <3>2. s[k - 1] = f[k - 1]
      BY <1>5, <3>1
    <3>. HIDE DEF s
    <3>. QED  BY <2>2, <3>2 DEF FoundStep
  <2>. QED  BY <1>1, <2>1, <2>2
<1>7. s = [k \in 0 .. n |-> FoundStep(path, s, k)]
  BY <1>6
<1>8. Walks(path, s, n)
  BY <1>7 DEF Walks
<1>. QED  BY <1>1, <1>8

\* What is found for a beginning depends on the names in it only.
LEMMA WalksAgree ==
  ASSUME NEW p, NEW q, NEW f, NEW g, NEW m \in Nat, NEW n \in Nat, NEW k \in Nat,
         k <= m, k <= n, Walks(p, f, m), Walks(q, g, n),
         \A j \in 1 .. k : p[j] = q[j]
  PROVE  f[k] = g[k]
<1>. DEFINE Bad == {j \in 0 .. k : f[j] # g[j]}
<1>. SUFFICES ASSUME Bad # {} PROVE FALSE
  OBVIOUS
<1>1. PICK j \in Bad : \A i \in Bad : j <= i
  <2>1. Bad \in SUBSET Nat
    OBVIOUS
  <2>. HIDE DEF Bad
  <2>. QED  BY <2>1, LeastElement
<1>2. f[j] = FoundStep(p, f, j) /\ g[j] = FoundStep(q, g, j)
  <2>1. j \in 0 .. m /\ j \in 0 .. n
    BY <1>1
  <2>. QED  BY <2>1 DEF Walks
<1>3. CASE j = 0
  BY <1>1, <1>2, <1>3 DEF FoundStep
<1>4. CASE j = 1
  BY <1>1, <1>2, <1>4 DEF FoundStep
<1>5. CASE j > 1
  <2>1. j - 1 \in 0 .. k /\ j - 1 \notin Bad /\ j \in 1 .. k
    BY <1>1, <1>5
  <2>2. f[j - 1] = g[j - 1] /\ p[j] = q[j]
    BY <2>1
  <2>. QED  BY <1>1, <1>2, <1>5, <2>2 DEF FoundStep
<1>. QED  BY <1>1, <1>3, <1>4, <1>5

\* path_lookup returns the end of the walk along its path.
LEMMA LookupWalks ==
  ASSUME NEW path, Len(path) \in Nat
  PROVE  \E f : Walks(path, f, Len(path)) /\ path_lookup(path) = f[Len(path)]
<1>. DEFINE Step(f) == [k \in 0 .. Len(path) |->
                          CASE k = 0 -> ROOT_INODE
                            [] k = 1 -> Scan(ROOT_INODE, path[1], NotThere)
                            [] k > 1 /\ f[k - 1] = NotADir -> NotADir
                            [] OTHER -> Descend(f[k - 1], path[k])]
            found == CHOOSE f : f = Step(f)
<1>1. path_lookup(path) = found[Len(path)]
  BY DEF path_lookup
<1>2. \A f : f = Step(f) <=> Walks(path, f, Len(path))
  BY DEF Walks, FoundStep
<1>. HIDE DEF Step
<1>3. \E f : f = Step(f)
  BY <1>2, WalksExist
<1>4. found = Step(found)
  BY <1>3
<1>. HIDE DEF found
<1>. QED  BY <1>1, <1>2, <1>4

\* path_lookup goes from what it found for a path to one more name.
LEMMA LookupOneMore ==
  /\ path_lookup(<<>>) = ROOT_INODE
  /\ \A path \in Seq(Names), nm \in Names :
        path_lookup(Append(path, nm)) =
            IF path = <<>> THEN Scan(ROOT_INODE, nm, NotThere)
            ELSE IF path_lookup(path) = NotADir THEN NotADir
            ELSE Descend(path_lookup(path), nm)
<1>1. path_lookup(<<>>) = ROOT_INODE
  <2>1. Len(<<>>) = 0
    OBVIOUS
  <2>2. PICK f : Walks(<<>>, f, 0) /\ path_lookup(<<>>) = f[0]
    BY <2>1, LookupWalks
  <2>3. f[0] = FoundStep(<<>>, f, 0)
    BY <2>2 DEF Walks
  <2>. QED  BY <2>2, <2>3 DEF FoundStep
<1>2. ASSUME NEW path \in Seq(Names), NEW nm \in Names
      PROVE  path_lookup(Append(path, nm)) =
                IF path = <<>> THEN Scan(ROOT_INODE, nm, NotThere)
                ELSE IF path_lookup(path) = NotADir THEN NotADir
                ELSE Descend(path_lookup(path), nm)
  <2>. DEFINE l == Len(path)
              longer == Append(path, nm)
  <2>1. /\ l \in Nat /\ longer \in Seq(Names) /\ Len(longer) = l + 1 /\ longer[l + 1] = nm
        /\ \A j \in 1 .. l : path[j] = longer[j]
        /\ path = <<>> <=> l = 0
    BY LenProperties, EmptySeq
  <2>. HIDE DEF l, longer
  <2>2. PICK f : Walks(path, f, l) /\ path_lookup(path) = f[l]
    BY <2>1, LookupWalks DEF l
  <2>3. PICK g : Walks(longer, g, l + 1) /\ path_lookup(longer) = g[l + 1]
    BY <2>1, LookupWalks
  <2>4. f[l] = g[l]
    BY <2>1, <2>2, <2>3, WalksAgree
  <2>5. g[l + 1] = FoundStep(longer, g, l + 1)
    <3>1. l + 1 \in 0 .. l + 1
      BY <2>1
    <3>. QED  BY <2>3, <3>1 DEF Walks
  <2>6. CASE l = 0
    BY <2>1, <2>3, <2>5, <2>6 DEF FoundStep, longer
  <2>7. CASE l > 0
    <3>1. (l + 1) - 1 = l /\ l + 1 > 1
      BY <2>1, <2>7
    <3>. QED  BY <2>1, <2>2, <2>3, <2>4, <2>5, <2>7, <3>1 DEF FoundStep, longer
  <2>. QED  BY <2>1, <2>6, <2>7
<1>. QED  BY <1>1, <1>2

-----------------------------------------------------------------------------
(* path_lookup in a tree. *)

\* A path that has names is a shorter one and a last name.
LEMMA PathEnds ==
  ASSUME NEW path \in Seq(Names), path # <<>>
  PROVE  \E q \in Seq(Names) : \E nm \in Names :
            /\ path = Append(q, nm)
            /\ Len(path) = Len(q) + 1
            /\ \A k \in 1 .. Len(q) : q[k] = path[k]
<1>. DEFINE l  == Len(path)
            q  == [k \in 1 .. l - 1 |-> path[k]]
            nm == path[l]
<1>1. l \in Nat /\ l > 0 /\ DOMAIN path = 1 .. l /\ \A k \in 1 .. l : path[k] \in Names
  BY LenProperties, EmptySeq, ElementOfSeq
<1>2. q \in Seq(Names) /\ Len(q) = l - 1 /\ nm \in Names
  BY <1>1
<1>3. \A k \in 1 .. l - 1 : q[k] = path[k]
  OBVIOUS
<1>4. path[l] = nm
  OBVIOUS
<1>. HIDE DEF q, nm, l
<1>5. path = Append(q, nm)
  <2>. DEFINE a == Append(q, nm)
  <2>1. /\ a \in Seq(Names) /\ Len(a) = l /\ a[l] = nm
        /\ \A k \in 1 .. l - 1 : a[k] = q[k]
    BY <1>1, <1>2
  <2>. HIDE DEF a
  <2>2. \A k \in 1 .. l : a[k] = path[k]
    <3>1. \A k \in 1 .. l : k = l \/ k \in 1 .. l - 1
      BY <1>1
    <3>. QED  BY <1>3, <1>4, <2>1, <3>1
  <2>3. path = a
    BY <2>1, <2>2, SeqEqual DEF l
  <2>. QED  BY <2>3 DEF a
<1>6. Len(path) = Len(q) + 1 /\ Len(q) = l - 1
  BY <1>1, <1>2 DEF l
<1>. QED  BY <1>2, <1>3, <1>5, <1>6

\* The paths the properties speak of are sequences of names.
LEMMA AllPathsAreSequences ==
  /\ \A path \in AllPaths : path \in Seq(Names)
  /\ \A path \in Seq(Names) : path \in AllPaths <=> Len(path) <= NumInodes - 1
<1>1. NumInodes \in Nat /\ NumInodes > 0
  BY NumInodesAssumption
<1>2. ASSUME NEW n \in Nat, NEW path \in [1 .. n -> Names]
      PROVE  path \in Seq(Names) /\ Len(path) = n
  BY <1>2
<1>3. ASSUME NEW path \in AllPaths
      PROVE  path \in Seq(Names) /\ Len(path) <= NumInodes - 1
  <2>1. PICK n \in 0 .. NumInodes - 1 : path \in [1 .. n -> Names]
    BY DEF AllPaths
  <2>. QED  BY <1>1, <1>2, <2>1
<1>4. ASSUME NEW path \in Seq(Names), Len(path) <= NumInodes - 1
      PROVE  path \in AllPaths
  <2>1. Len(path) \in 0 .. NumInodes - 1 /\ path \in [1 .. Len(path) -> Names]
    BY <1>1, <1>4, LenProperties
  <2>. QED  BY <2>1 DEF AllPaths
<1>. QED  BY <1>3, <1>4

\* From a linked inode, a name leads to the inode its entry has, and to nothing if
\* there is no such entry, whatever the inode is and however full it is.
LEMMA DescendFollowsEntries ==
  ASSUME TreeInv, NEW d \in Inodes, Linked(d), NEW nm \in Names
  PROVE  /\ Descend(d, nm) = IF HasEntry(d, nm) THEN Lookup(d, nm) ELSE NotThere
         /\ d = ROOT_INODE =>
               Scan(d, nm, NotThere) = IF HasEntry(d, nm) THEN Lookup(d, nm) ELSE NotThere
<1>1. /\ entries[d] = <<>> <=> extents[d] = <<>>
      /\ itable[d] \in Inode /\ itable[d].size = 0
      /\ itable[d].mode # "dir" => entries[d] = <<>>
      /\ entries[d] \in Seq(Dentry)
      /\ d # NotThere
  BY BlocksFilled DEF TreeInv, TypeInv, TableInv, FilesEmpty, OnlyDirectoriesHoldEntries,
                      InodeInv, InodeTypes, Inodes, NotThere
<1>2. HasEntry(d, nm) => entries[d] # <<>>
  BY DEF HasEntry
<1>3. entries[d] = <<>> <=> Len(entries[d]) = 0
  BY <1>1, EmptySeq
<1>4. SizeOf(d) = 0 <=> entries[d] = <<>>
  BY <1>1, <1>3 DEF SizeOf
<1>5. entries[d] # <<>> => itable[d].mode = "dir" /\ itable[d].mode # "reg"
  BY <1>1
<1>. QED  BY <1>1, <1>2, <1>4, <1>5 DEF Descend, Scan

\* What path_lookup finds is nothing or a linked inode; from there one name more
\* leads where the entries say.
LEMMA LookupFollowsEntries ==
  ASSUME TreeInv
  PROVE  \A path \in Seq(Names) :
            LET d == path_lookup(path)
            IN  /\ d = NotThere \/ (d \in Inodes /\ Linked(d))
                /\ \A nm \in Names :
                      path_lookup(Append(path, nm)) =
                         IF d # NotThere /\ HasEntry(d, nm) THEN Lookup(d, nm) ELSE NotThere
<1>1. /\ ROOT_INODE \in Inodes /\ Linked(ROOT_INODE)
      /\ NotThere \notin Inodes /\ NotADir \notin Inodes /\ NotThere # NotADir
  BY NumInodesAssumption DEF Inodes, ROOT_INODE, Linked, NotThere, NotADir
<1>. DEFINE Ends(path) ==
              LET d == path_lookup(path) IN d = NotThere \/ (d \in Inodes /\ Linked(d))
            Goes(path, nm) ==
              LET d == path_lookup(path)
              IN  path_lookup(Append(path, nm)) =
                     IF d # NotThere /\ HasEntry(d, nm) THEN Lookup(d, nm) ELSE NotThere
<1>2. ASSUME NEW path \in Seq(Names), Ends(path), NEW nm \in Names
      PROVE  Goes(path, nm)
  <2>1. CASE path = <<>>
    BY <1>1, <2>1, LookupOneMore, DescendFollowsEntries
  <2>2. CASE path # <<>>
    <3>1. path_lookup(path) # NotADir
      BY <1>1, <1>2
    <3>2. path_lookup(Append(path, nm)) = Descend(path_lookup(path), nm)
      BY <2>2, <3>1, LookupOneMore
    <3>3. path_lookup(path) = NotThere => Descend(path_lookup(path), nm) = NotThere
      BY DEF Descend
    <3>. QED  BY <1>2, <3>2, <3>3, DescendFollowsEntries
  <2>. QED  BY <2>1, <2>2
<1>3. ASSUME NEW path \in Seq(Names), Ends(path), NEW nm \in Names
      PROVE  Ends(Append(path, nm))
  <2>. DEFINE d == path_lookup(path)
  <2>1. Goes(path, nm)
    BY <1>2, <1>3
  <2>2. ASSUME d \in Inodes, HasEntry(d, nm)
        PROVE  Lookup(d, nm) \in Inodes /\ Linked(Lookup(d, nm))
    BY <2>2, RemovedEntry
  <2>. QED  BY <1>3, <2>1, <2>2
<1>. DEFINE Bad == {n \in Nat : \E path \in Seq(Names) : Len(path) = n /\ ~Ends(path)}
<1>4. Bad = {}
  <2>. SUFFICES ASSUME Bad # {} PROVE FALSE
    OBVIOUS
  <2>. HIDE DEF Ends, Goes
  <2>1. PICK n \in Bad : \A j \in Bad : n <= j
    <3>1. Bad \in SUBSET Nat
      OBVIOUS
    <3>. HIDE DEF Bad
    <3>. QED  BY <3>1, LeastElement
  <2>2. PICK path \in Seq(Names) : Len(path) = n /\ ~Ends(path)
    BY <2>1
  <2>3. path # <<>>
    <3>1. Ends(<<>>)
      BY <1>1, LookupOneMore DEF Ends
    <3>. QED  BY <2>2, <3>1
  <2>4. PICK q \in Seq(Names), nm \in Names : path = Append(q, nm) /\ Len(path) = Len(q) + 1
    BY <2>3, PathEnds
  <2>5. Len(q) \in Nat /\ Len(q) = n - 1
    BY <2>2, <2>4, LenProperties
  <2>6. Ends(q)
    BY <2>1, <2>5
  <2>. QED  BY <1>3, <2>2, <2>4, <2>6
<1>5. \A path \in Seq(Names) : Ends(path)
  <2>. HIDE DEF Ends
  <2>. QED  BY <1>4, LenProperties
<1>. QED  BY <1>2, <1>5

-----------------------------------------------------------------------------
(* The answers of getattr and readdir. *)

\* getattr answers for what path_lookup finds, and with no other inode.
LEMMA GetattrAnswers ==
  ASSUME TreeInv, NEW path \in Seq(Names)
  PROVE  LET i == path_lookup(path)
             a == getattr(path)
         IN  /\ a.err = "none" <=> i # NotThere
             /\ i # NotThere => /\ i \in Inodes /\ Linked(i)
                                /\ a.mode = itable[i].mode
                                /\ a.size = SizeOf(i)
<1>1. \/ path_lookup(path) = NotThere
      \/ path_lookup(path) \in Inodes /\ Linked(path_lookup(path))
  BY LookupFollowsEntries
<1>2. NotThere \notin Inodes /\ NotADir \notin Inodes
  BY DEF NotThere, NotADir, Inodes
<1>. QED  BY <1>1, <1>2 DEF getattr

\* One name more is answered for if and only if the directory has an entry for it.
LEMMA GetattrBelow ==
  ASSUME TreeInv, NEW path \in Seq(Names), path_lookup(path) # NotThere, NEW nm \in Names
  PROVE  getattr(Append(path, nm)).err = "none" <=> HasEntry(path_lookup(path), nm)
<1>. DEFINE d == path_lookup(path)
<1>1. d \in Inodes /\ Linked(d)
  BY LookupFollowsEntries
<1>2. path_lookup(Append(path, nm)) = IF HasEntry(d, nm) THEN Lookup(d, nm) ELSE NotThere
  BY LookupFollowsEntries
<1>3. HasEntry(d, nm) => Lookup(d, nm) # NotThere
  <2>1. NotThere \notin Inodes
    BY DEF Inodes, NotThere
  <2>2. HasEntry(d, nm) => Lookup(d, nm) \in Inodes
    BY <1>1, RemovedEntry
  <2>. QED  BY <2>1, <2>2
<1>4. Append(path, nm) \in Seq(Names)
  OBVIOUS
<1>. QED  BY <1>2, <1>3, <1>4, GetattrAnswers

\* The entries of a directory are no more than the slots of its blocks.
LEMMA EntriesHaveSlots ==
  ASSUME TypeInv, NEW i \in Inodes
  PROVE  /\ Len(entries[i]) \in Nat /\ DentriesPerBlock * get_num_blks_of_file(i) \in Nat
         /\ Len(entries[i]) <= DentriesPerBlock * get_num_blks_of_file(i)
<1>. DEFINE n == Len(entries[i])
            c == get_num_blks_of_file(i)
            q == (n + D - 1) \div D
            r == (n + D - 1) % D
<1>1. n \in Nat /\ c \in Nat /\ q = c
  <2>1. n \in Nat
    BY LenProperties DEF TypeInv, InodeInv, InodeTypes
  <2>. QED  BY <2>1, BlocksFilled
<1>2. D \in Nat /\ D > 0 /\ D = DentriesPerBlock
  BY DentriesAssumption DEF D
<1>. HIDE DEF n, c, D
<1>3. n + D - 1 = D * q + r /\ r \in 0 .. D - 1 /\ q \in Int
  BY <1>1, <1>2
<1>. HIDE DEF q, r
<1>4. D * c \in Nat /\ n <= D * c
  BY <1>1, <1>2, <1>3
<1>. QED  BY <1>1, <1>2, <1>4 DEF n, c

\* readdir lists each name once for which getattr finds something, and no other, and
\* all of them unless it says that there was no room.
THEOREM ReaddirAgreesWithGetattr == Spec => []ReaddirListsLookups
<1>1. TreeInv => ReaddirListsLookups
  <2>. SUFFICES ASSUME TreeInv, NEW path \in AllPaths, getattr(path).err = "none",
                       NEW room \in 0 .. NumInodes
                PROVE  LET answer == readdir(path, room)
                           found  == {nm \in Names : getattr(Append(path, nm)).err = "none"}
                       IN  /\ Range(answer.names) \subseteq found /\ IsInjective(answer.names)
                           /\ answer.err = "none" <=> Range(answer.names) = found
    BY DEF ReaddirListsLookups
  <2>. DEFINE d  == path_lookup(path)
              es == entries[d]
              n  == Len(es)
              m  == IF n <= room THEN n ELSE room
              names == [k \in 1 .. m |-> es[k].name]
              found == {nm \in Names : getattr(Append(path, nm)).err = "none"}
  <2>1. path \in Seq(Names) /\ d # NotThere /\ d \in Inodes
    BY AllPathsAreSequences, GetattrAnswers
  <2>2. /\ es \in Seq(Dentry) /\ DOMAIN es = 1 .. n /\ n \in Nat
        /\ \A k \in 1 .. n : es[k].name \in Names
    <3>1. es \in Seq(Dentry)
      BY <2>1 DEF TreeInv, TypeInv, InodeInv, InodeTypes
    <3>2. \A k \in DOMAIN es : es[k] \in Dentry
      BY <3>1, LenProperties, ElementOfSeq
    <3>. QED  BY <3>1, <3>2, LenProperties DEF Dentry
  <2>3. m \in 0 .. n /\ (m < n \/ m = n) /\ room \in Int
    BY <2>2, NumInodesAssumption
  <2>4. readdir(path, room) = [err |-> IF m < n THEN "ENOMEM" ELSE "none", names |-> names]
    <3>. DEFINE slots == DentriesPerBlock * get_num_blks_of_file(d)
                listed == IF n <= slots THEN n ELSE slots
                taken == IF listed <= room THEN listed ELSE room
    <3>1. n <= slots
      BY <2>1, EntriesHaveSlots DEF TreeInv
    <3>2. readdir(path, room) = [err |-> IF taken < listed THEN "ENOMEM" ELSE "none",
                                 names |-> [k \in 1 .. taken |-> es[k].name]]
      BY DEF readdir
    <3>3. listed = n /\ taken = m
      BY <3>1
    <3>. HIDE DEF listed, taken, es, n
    <3>. QED  BY <3>2, <3>3
  <2>. HIDE DEF m
  <2>5. found = {es[k].name : k \in 1 .. n}
    <3>1. \A nm \in Names : getattr(Append(path, nm)).err = "none" <=> HasEntry(d, nm)
      BY <2>1, GetattrBelow
    <3>2. \A nm : HasEntry(d, nm) <=> \E k \in 1 .. n : es[k].name = nm
      BY <2>2 DEF HasEntry
    <3>. HIDE DEF d, es, n
    <3>. QED  BY <2>2, <3>1, <3>2 DEF es, n
  <2>6. ASSUME NEW k \in 1 .. n, NEW l \in 1 .. n, es[k].name = es[l].name
        PROVE  k = l
    <3>1. k \in DOMAIN es /\ l \in DOMAIN es
      BY <2>2
    <3>2. es[k] = es[l]
      BY <2>1, <2>6, <3>1 DEF TreeInv, NamesDiffer, EntrySet
    <3>. QED  BY <2>1, <3>1, <3>2 DEF TreeInv, TypeInv, InodeInv, ListedOnce
  <2>. HIDE DEF d, es, n, found
  <2>7. Range(names) = {es[k].name : k \in 1 .. m} /\ 1 .. m \subseteq 1 .. n
    BY <2>2, <2>3 DEF Range
  <2>8. Range(names) \subseteq found /\ IsInjective(names)
    <3>1. IsInjective(names)
      BY <2>6, <2>7 DEF IsInjective
    <3>. QED  BY <2>5, <2>7, <3>1
  <2>9. readdir(path, room).names = names /\ (readdir(path, room).err = "none" <=> m = n)
    <3>1. m < n <=> m # n
      BY <2>2, <2>3
    <3>. HIDE DEF names
    <3>. QED  BY <2>4, <3>1
  <2>. HIDE DEF names
  <2>10. m = n <=> Range(names) = found
    <3>1. CASE m = n
      BY <2>5, <2>7, <3>1
    <3>2. CASE m < n
      <4>1. m + 1 \in 1 .. n /\ m + 1 \notin 1 .. m
        BY <2>2, <2>3, <3>2
      <4>2. es[m + 1].name \in found /\ es[m + 1].name \notin Range(names)
        BY <2>5, <2>6, <2>7, <4>1
      <4>. QED  BY <2>2, <2>3, <3>2, <4>2
    <3>. QED  BY <2>3, <3>1, <3>2
  <2>11. /\ Range(readdir(path, room).names) \subseteq found
         /\ IsInjective(readdir(path, room).names)
         /\ readdir(path, room).err = "none" <=> Range(readdir(path, room).names) = found
    BY <2>8, <2>9, <2>10
  <2>. QED  BY <2>11 DEF found
<1>. QED  BY <1>1, TreeInvariant, PTL

\* A path that is found and goes below the root has a directory for its first name,
\* and that directory has entries.
LEMMA FirstIsDirectory ==
  ASSUME TreeInv, NEW path \in Seq(Names), Len(path) > 1, path_lookup(path) # NotThere
  PROVE  LET d == path_lookup(<<path[1]>>)
         IN  d \in Inodes /\ Linked(d) /\ entries[d] # <<>>
<1>. DEFINE Good(p) == LET d == path_lookup(<<p[1]>>)
                       IN  d \in Inodes /\ Linked(d) /\ entries[d] # <<>>
            Bad == {n \in Nat : \E p \in Seq(Names) :
                      Len(p) = n /\ n > 1 /\ path_lookup(p) # NotThere /\ ~Good(p)}
<1>. SUFFICES ASSUME Bad # {} PROVE FALSE
  BY LenProperties
<1>. HIDE DEF Good
<1>1. PICK n \in Bad : \A j \in Bad : n <= j
  <2>1. Bad \in SUBSET Nat
    OBVIOUS
  <2>. HIDE DEF Bad
  <2>. QED  BY <2>1, LeastElement
<1>2. PICK p \in Seq(Names) : Len(p) = n /\ n > 1 /\ path_lookup(p) # NotThere /\ ~Good(p)
  BY <1>1
<1>3. PICK q \in Seq(Names), nm \in Names :
         /\ p = Append(q, nm)
         /\ Len(p) = Len(q) + 1
         /\ \A k \in 1 .. Len(q) : q[k] = p[k]
  <2>1. p # <<>>
    BY <1>2, EmptySeq
  <2>. QED  BY <2>1, PathEnds
<1>4. Len(q) = n - 1 /\ Len(q) \in Nat /\ Len(q) >= 1 /\ q[1] = p[1] /\ q[1] \in Names
  BY <1>1, <1>2, <1>3, LenProperties, ElementOfSeq
<1>5. path_lookup(q) # NotThere /\ HasEntry(path_lookup(q), nm)
  BY <1>2, <1>3, LookupFollowsEntries
<1>6. CASE n = 2
  <2>1. q = <<p[1]>>
    <3>1. /\ <<p[1]>> \in Seq(Names) /\ Len(<<p[1]>>) = 1 /\ Len(q) = 1
          /\ \A k \in 1 .. 1 : q[k] = <<p[1]>>[k]
      BY <1>4, <1>6
    <3>. QED  BY <3>1, SeqEqual
  <2>2. entries[path_lookup(q)] # <<>>
    BY <1>5 DEF HasEntry
  <2>3. path_lookup(q) \in Inodes /\ Linked(path_lookup(q))
    BY <1>5, LookupFollowsEntries
  <2>. QED  BY <1>2, <2>1, <2>2, <2>3 DEF Good
<1>7. CASE n > 2
  <2>1. n - 1 \in Nat /\ n - 1 > 1 /\ n - 1 \notin Bad
    BY <1>1, <1>7
  <2>2. Good(q)
    BY <1>4, <1>5, <2>1
  <2>. QED  BY <1>2, <1>4, <2>2 DEF Good
<1>. QED  BY <1>1, <1>2, <1>6, <1>7

\* touch and truncate are answered with the entry of the root on the way to the file,
\* which is there whenever the file is, and is the file itself in the root only.
THEOREM SetattrAnswersForTheFirstName == Spec => []SetattrAnswersFromTheRoot
<1>1. TreeInv => SetattrAnswersFromTheRoot
  <2>. SUFFICES ASSUME TreeInv, NEW path \in AllPaths, getattr(path).err = "none"
                PROVE  /\ setattr(path).err = "none"
                       /\ Len(path) <= 1 => setattr(path) = getattr(path)
                       /\ Len(path) > 1 => setattr(path).mode = "dir" /\ setattr(path).size > 0
    BY DEF SetattrAnswersFromTheRoot
  <2>1. path \in Seq(Names) /\ Len(path) \in Nat /\ path_lookup(path) # NotThere
    BY AllPathsAreSequences, GetattrAnswers, LenProperties
  <2>2. CASE Len(path) <= 1
    <3>1. Cut(path) = path
      <4>1. CASE path = <<>>
        BY <4>1 DEF Cut
      <4>2. CASE path # <<>>
        <5>1. Len(path) = 1 /\ Head(path) = path[1]
          <6>1. Len(path) # 0
            BY <2>1, <4>2, EmptySeq
          <6>2. Head(path) = path[1]
            BY <2>1, <4>2
          <6>3. \A n \in Nat : n <= 1 /\ n # 0 => n = 1
            OBVIOUS
          <6>4. Len(path) = 1
            BY <2>1, <2>2, <6>1, <6>3
          <6>. QED  BY <6>2, <6>4
        <5>2. path[1] \in Names
          BY <2>1, <5>1, ElementOfSeq
        <5>3. /\ <<path[1]>> \in Seq(Names) /\ Len(<<path[1]>>) = 1
              /\ \A k \in 1 .. 1 : path[k] = <<path[1]>>[k]
          BY <5>2
        <5>4. path = <<path[1]>>
          BY <2>1, <5>1, <5>3, SeqEqual
        <5>. QED  BY <4>2, <5>1, <5>4 DEF Cut
      <4>. QED  BY <4>1, <4>2
    <3>. QED  BY <2>2, <3>1 DEF setattr
  <2>3. CASE Len(path) > 1
    <3>. DEFINE d == path_lookup(<<path[1]>>)
    <3>1. d \in Inodes /\ Linked(d) /\ entries[d] # <<>>
      BY <2>1, <2>3, FirstIsDirectory
    <3>2. path # <<>> /\ Head(path) = path[1] /\ path[1] \in Names
      BY <2>1, <2>3, EmptySeq, ElementOfSeq
    <3>3. Cut(path) = <<path[1]>> /\ <<path[1]>> \in Seq(Names)
      BY <3>2 DEF Cut
    <3>4. d # NotThere
      BY <3>1 DEF Inodes, NotThere
    <3>5. /\ setattr(path).err = "none"
          /\ setattr(path).mode = itable[d].mode
          /\ setattr(path).size = SizeOf(d)
      BY <3>3, <3>4, GetattrAnswers DEF setattr
    <3>6. itable[d].mode = "dir" /\ SizeOf(d) > 0
      <4>1. itable[d].mode = "dir"
        BY <3>1 DEF TreeInv, TypeInv, TableInv, OnlyDirectoriesHoldEntries
      <4>2. Len(entries[d]) > 0
        BY <3>1, EmptySeq DEF TreeInv, TypeInv, InodeInv, InodeTypes
      <4>. QED  BY <4>1, <4>2 DEF SizeOf
    <3>. QED  BY <2>3, <3>5, <3>6
  <2>. QED  BY <2>1, <2>2, <2>3
<1>. QED  BY <1>1, TreeInvariant, PTL

-----------------------------------------------------------------------------
(* One path for each inode. *)

\* The last name of a path that is found is an entry for what is found.
LEMMA LastNameIsEntry ==
  ASSUME TreeInv, NEW path \in Seq(Names), path # <<>>, path_lookup(path) # NotThere
  PROVE  \E q \in Seq(Names) : \E nm \in Names :
            /\ path = Append(q, nm) /\ Len(path) = Len(q) + 1
            /\ path_lookup(q) # NotThere /\ path_lookup(q) \in Inodes
            /\ [name |-> nm, ino |-> path_lookup(path)] \in EntrySet(path_lookup(q))
<1>1. PICK q \in Seq(Names), nm \in Names : path = Append(q, nm) /\ Len(path) = Len(q) + 1
  BY PathEnds
<1>2. /\ path_lookup(q) # NotThere /\ HasEntry(path_lookup(q), nm)
      /\ path_lookup(path) = Lookup(path_lookup(q), nm)
  BY <1>1, LookupFollowsEntries
<1>3. path_lookup(q) \in Inodes
  BY <1>2, LookupFollowsEntries
<1>. QED  BY <1>1, <1>2, <1>3, RemovedEntry

\* An entry of what a path finds is found by a path with one name more.
LEMMA EntryIsFound ==
  ASSUME TreeInv, NEW path \in Seq(Names), path_lookup(path) \in Inodes,
         NEW e \in EntrySet(path_lookup(path))
  PROVE  e.name \in Names /\ path_lookup(Append(path, e.name)) = e.ino
<1>. DEFINE d == path_lookup(path)
<1>1. d # NotThere
  BY DEF Inodes, NotThere
<1>2. e \in Dentry /\ e.name \in Names
  BY EntrySetTypes DEF TreeInv, TypeInv, Dentry
<1>3. HasEntry(d, e.name)
  BY EntriesAsSets
<1>4. path_lookup(Append(path, e.name)) = Lookup(d, e.name)
  BY <1>1, <1>2, <1>3, LookupFollowsEntries
<1>5. [name |-> e.name, ino |-> Lookup(d, e.name)] \in EntrySet(d)
  BY <1>2, <1>3, RemovedEntry
<1>6. e = [name |-> e.name, ino |-> Lookup(d, e.name)]
  BY <1>5 DEF TreeInv, NamesDiffer
<1>. QED  BY <1>2, <1>4, <1>6

\* Two paths to one inode end with the same entry of the same directory, and so on up
\* to the root, which has no entry: they are one path.
LEMMA PathsDiffer ==
  ASSUME TreeInv
  PROVE  \A p, q \in Seq(Names) :
            path_lookup(p) # NotThere /\ path_lookup(p) = path_lookup(q) => p = q
<1>. DEFINE Good(p) == \A q \in Seq(Names) :
                          path_lookup(p) # NotThere /\ path_lookup(p) = path_lookup(q) => p = q
            Bad == {n \in Nat : \E p \in Seq(Names) : Len(p) = n /\ ~Good(p)}
<1>. SUFFICES ASSUME Bad # {} PROVE FALSE
  BY LenProperties
<1>. HIDE DEF Good
<1>1. PICK n \in Bad : \A j \in Bad : n <= j
  <2>1. Bad \in SUBSET Nat
    OBVIOUS
  <2>. HIDE DEF Bad
  <2>. QED  BY <2>1, LeastElement
<1>2. PICK p \in Seq(Names) : Len(p) = n /\ ~Good(p)
  BY <1>1
<1>3. PICK q \in Seq(Names) :
         path_lookup(p) # NotThere /\ path_lookup(p) = path_lookup(q) /\ p # q
  BY <1>2 DEF Good
<1>4. ASSUME NEW x \in Seq(Names), x # <<>>, path_lookup(x) # NotThere
      PROVE  path_lookup(x) # ROOT_INODE
  <2>1. PICK y \in Seq(Names), nm \in Names :
           /\ path_lookup(y) \in Inodes
           /\ [name |-> nm, ino |-> path_lookup(x)] \in EntrySet(path_lookup(y))
    BY <1>4, LastNameIsEntry
  <2>. QED  BY <2>1, EntrySetTypes DEF TreeInv, TypeInv
<1>5. p # <<>> /\ q # <<>>
  BY <1>3, <1>4, LookupOneMore
<1>6. PICK r \in Seq(Names), nm \in Names :
         /\ p = Append(r, nm) /\ Len(p) = Len(r) + 1
         /\ path_lookup(r) # NotThere /\ path_lookup(r) \in Inodes
         /\ [name |-> nm, ino |-> path_lookup(p)] \in EntrySet(path_lookup(r))
  BY <1>3, <1>5, LastNameIsEntry
<1>7. PICK t \in Seq(Names), mn \in Names :
         /\ q = Append(t, mn) /\ Len(q) = Len(t) + 1
         /\ path_lookup(t) # NotThere /\ path_lookup(t) \in Inodes
         /\ [name |-> mn, ino |-> path_lookup(q)] \in EntrySet(path_lookup(t))
  BY <1>3, <1>5, LastNameIsEntry
<1>8. path_lookup(r) = path_lookup(t) /\ nm = mn
  <2>. DEFINE e == [name |-> nm, ino |-> path_lookup(p)]
              g == [name |-> mn, ino |-> path_lookup(q)]
  <2>1. e.ino = g.ino /\ e.name = nm /\ g.name = mn
    BY <1>3
  <2>2. ListedOnce
    BY DEF TreeInv, TypeInv, InodeInv
  <2>3. e \in EntrySet(path_lookup(r)) /\ g \in EntrySet(path_lookup(t))
    BY <1>6, <1>7
  <2>. HIDE DEF e, g
  <2>4. path_lookup(r) = path_lookup(t) /\ e = g
    BY <1>6, <1>7, <2>1, <2>2, <2>3, EntriesAsSets
  <2>. QED  BY <2>1, <2>4
<1>9. Good(r)
  <2>1. Len(r) \in Nat /\ Len(r) = n - 1
    BY <1>2, <1>6, LenProperties
  <2>. QED  BY <1>1, <2>1
<1>10. r = t
  BY <1>6, <1>8, <1>9 DEF Good
<1>. QED  BY <1>3, <1>6, <1>7, <1>8, <1>10

\* What is found by a path with at most n names.
Near(n) == {i \in Inodes : \E path \in Seq(Names) : Len(path) <= n /\ path_lookup(path) = i}

\* One name more finds the entries of what was found, and nothing else.
LEMMA NearGrows ==
  ASSUME TreeInv, NEW n \in Nat
  PROVE  /\ ROOT_INODE \in Near(n)
         /\ Near(n) \subseteq Near(n + 1)
         /\ Children(Near(n)) \subseteq Near(n + 1)
         /\ Near(n + 1) \subseteq {ROOT_INODE} \cup Children(Near(n))
<1>1. ROOT_INODE \in Near(n)
  <2>1. ROOT_INODE \in Inodes
    BY NumInodesAssumption DEF Inodes, ROOT_INODE
  <2>2. <<>> \in Seq(Names) /\ Len(<<>>) <= n
    BY EmptySeq
  <2>. QED  BY <2>1, <2>2, LookupOneMore DEF Near
<1>2. Near(n) \subseteq Near(n + 1)
  <2>1. \A path \in Seq(Names) : Len(path) <= n => Len(path) <= n + 1
    BY LenProperties
  <2>. QED  BY <2>1 DEF Near
<1>3. ASSUME NEW i \in Children(Near(n))
      PROVE  i \in Near(n + 1)
  <2>1. PICK d \in Near(n) : \E e \in EntrySet(d) : e.ino = i
    BY <1>3, ChildrenAreEntries
  <2>2. PICK e \in EntrySet(d) : e.ino = i
    BY <2>1
  <2>3. PICK path \in Seq(Names) : Len(path) <= n /\ path_lookup(path) = d
    BY DEF Near
  <2>4. d \in Inodes
    BY DEF Near
  <2>5. e.name \in Names /\ path_lookup(Append(path, e.name)) = i
    BY <2>2, <2>3, <2>4, EntryIsFound
  <2>6. i \in Inodes
    BY <2>2, <2>4, EntrySetTypes DEF TreeInv, TypeInv, Dentry
  <2>7. Append(path, e.name) \in Seq(Names) /\ Len(Append(path, e.name)) <= n + 1
    BY <2>3, <2>5, LenProperties
  <2>. QED  BY <2>5, <2>6, <2>7 DEF Near
<1>4. ASSUME NEW i \in Near(n + 1), i # ROOT_INODE
      PROVE  i \in Children(Near(n))
  <2>1. PICK path \in Seq(Names) : Len(path) <= n + 1 /\ path_lookup(path) = i
    BY DEF Near
  <2>2. i \in Inodes /\ i # NotThere
    BY DEF Near, Inodes, NotThere
  <2>3. path # <<>>
    BY <1>4, <2>1, LookupOneMore
  <2>4. PICK q \in Seq(Names), nm \in Names :
           /\ Len(path) = Len(q) + 1
           /\ path_lookup(q) \in Inodes
           /\ [name |-> nm, ino |-> path_lookup(path)] \in EntrySet(path_lookup(q))
    BY <2>1, <2>2, <2>3, LastNameIsEntry
  <2>5. Len(q) <= n
    BY <2>1, <2>4, LenProperties
  <2>6. path_lookup(q) \in Near(n)
    BY <2>4, <2>5 DEF Near
  <2>7. [name |-> nm, ino |-> path_lookup(path)].ino = i
    BY <2>1
  <2>. QED  BY <2>4, <2>6, <2>7, ChildrenAreEntries
<1>. QED  BY <1>1, <1>2, <1>3, <1>4

\* Each name more finds an inode more or none: with as many names as there are inodes
\* but the root, everything below the root is found.
LEMMA NearCloses ==
  ASSUME TreeInv
  PROVE  /\ ROOT_INODE \in Near(NumInodes - 1)
         /\ Children(Near(NumInodes - 1)) \subseteq Near(NumInodes - 1)
<1>. DEFINE Done(n) == \/ Children(Near(n)) \subseteq Near(n)
                       \/ Cardinality(Near(n)) > n
            Bad == {n \in Nat : ~Done(n)}
<1>1. /\ NumInodes \in Nat /\ NumInodes > 0 /\ NumInodes - 1 \in Nat
      /\ IsFiniteSet(Inodes) /\ Cardinality(Inodes) = NumInodes
  BY NumInodesAssumption, InodesFinite
<1>2. ASSUME NEW n \in Nat
      PROVE  /\ Near(n) \subseteq Inodes /\ IsFiniteSet(Near(n))
             /\ Cardinality(Near(n)) \in Nat /\ Cardinality(Near(n)) <= NumInodes
  <2>1. Near(n) \subseteq Inodes
    BY DEF Near
  <2>. QED  BY <1>1, <2>1, FS_Subset, FS_CardinalityType
<1>3. Done(0)
  <2>1. Near(0) # {} /\ IsFiniteSet(Near(0)) /\ Cardinality(Near(0)) \in Nat
    BY <1>2, NearGrows
  <2>2. Cardinality(Near(0)) # 0
    BY <2>1, FS_EmptySet
  <2>. QED  BY <2>1, <2>2
<1>4. ASSUME NEW n \in Nat, Done(n)
      PROVE  Done(n + 1)
  <2>1. CASE Children(Near(n)) \subseteq Near(n)
    <3>1. Near(n + 1) = Near(n)
      BY <2>1, NearGrows
    <3>. QED  BY <2>1, <3>1
  <2>2. CASE ~(Children(Near(n)) \subseteq Near(n))
    <3>1. PICK i \in Children(Near(n)) : i \notin Near(n)
      BY <2>2
    <3>2. Near(n) \cup {i} \subseteq Near(n + 1)
      BY <3>1, NearGrows
    <3>3. Cardinality(Near(n) \cup {i}) = Cardinality(Near(n)) + 1
      BY <1>2, <3>1, FS_AddElement
    <3>4. n + 1 \in Nat /\ IsFiniteSet(Near(n + 1)) /\ Cardinality(Near(n + 1)) \in Nat
      BY <1>2
    <3>5. Cardinality(Near(n) \cup {i}) <= Cardinality(Near(n + 1))
      BY <3>2, <3>4, FS_Subset
    <3>6. Cardinality(Near(n)) \in Nat /\ Cardinality(Near(n)) > n
      BY <1>2, <1>4, <2>2
    <3>7. Cardinality(Near(n + 1)) > n + 1
      BY <3>3, <3>4, <3>5, <3>6
    <3>. QED  BY <3>7
  <2>. QED  BY <2>1, <2>2
<1>5. Bad = {}
  <2>. SUFFICES ASSUME Bad # {} PROVE FALSE
    OBVIOUS
  <2>. HIDE DEF Done
  <2>1. PICK n \in Bad : \A j \in Bad : n <= j
    <3>1. Bad \in SUBSET Nat
      OBVIOUS
    <3>. HIDE DEF Bad
    <3>. QED  BY <3>1, LeastElement
  <2>2. n - 1 \in Nat /\ n - 1 \notin Bad /\ (n - 1) + 1 = n
    BY <1>3, <2>1
  <2>. QED  BY <1>4, <2>1, <2>2
<1>6. Done(NumInodes - 1)
  <2>. HIDE DEF Done
  <2>. QED  BY <1>1, <1>5
<1>7. CASE Cardinality(Near(NumInodes - 1)) > NumInodes - 1
  <2>1. Cardinality(Near(NumInodes - 1)) = NumInodes
    BY <1>1, <1>2, <1>7
  <2>2. Near(NumInodes - 1) = Inodes
    BY <1>1, <1>2, <2>1, FS_Subset
  <2>3. Children(Inodes) \subseteq Inodes
    <3>1. \A d \in Inodes : \A e \in EntrySet(d) : e.ino \in Inodes
      BY EntrySetTypes DEF TreeInv, TypeInv, Dentry
    <3>. QED  BY <3>1, ChildrenAreEntries
  <2>. QED  BY <1>1, <2>2, <2>3, NearGrows
<1>. QED  BY <1>1, <1>6, <1>7, NearGrows

\* Each file and directory has one path, of as many names as the tree is deep, and no
\* path leads to anything else.
THEOREM EachInodeHasOnePath == Spec => []PathsNameInodes
<1>1. TreeInv /\ RootReachesAll => PathsNameInodes
  <2>. SUFFICES ASSUME TreeInv, RootReachesAll PROVE PathsNameInodes
    OBVIOUS
  <2>. DEFINE found == {path \in AllPaths : path_lookup(path) \in Inodes}
  <2>1. \A path \in found : path \in Seq(Names) /\ path_lookup(path) # NotThere
    BY AllPathsAreSequences DEF Inodes, NotThere
  <2>2. \A path \in found : path_lookup(path) \in LinkedInodes
    BY <2>1, LookupFollowsEntries DEF LinkedInodes
  <2>3. LinkedInodes \subseteq Near(NumInodes - 1)
    <3>1. Near(NumInodes - 1) \in SUBSET Inodes
      BY DEF Near
    <3>. QED  BY <3>1, NearCloses DEF RootReachesAll
  <2>4. ASSUME NEW i \in LinkedInodes
        PROVE  \E path \in found : path_lookup(path) = i
    <3>1. PICK path \in Seq(Names) : Len(path) <= NumInodes - 1 /\ path_lookup(path) = i
      BY <2>3 DEF Near
    <3>2. path \in AllPaths /\ i \in Inodes
      BY <3>1, AllPathsAreSequences DEF LinkedInodes
    <3>. QED  BY <3>1, <3>2
  <2>5. \A p, q \in found : path_lookup(p) = path_lookup(q) => p = q
    BY <2>1, PathsDiffer
  <2>. HIDE DEF found
  <2>6. {path_lookup(path) : path \in found} = LinkedInodes
    BY <2>2, <2>4
  <2>. QED  BY <2>5, <2>6 DEF PathsNameInodes, found
<1>. QED  BY <1>1, InitTreeInv, InitReaches, NextKeepsTreeInv, NextReaches, PTL DEF Spec

-----------------------------------------------------------------------------
(* What statfs and getattr count. *)

\* What getattr counts for an inode are the blocks it owns, the indirect one included.
LEMMA ExactBlocksOwned ==
  ASSUME OwnerInv, NEW i \in Inodes
  PROVE  /\ get_exact_num_blks_of_file(i) \in Nat
         /\ IsFiniteSet(OwnedBlocks(i))
         /\ Cardinality(OwnedBlocks(i)) = get_exact_num_blks_of_file(i)
<1>. DEFINE es == extents[i]
            g  == [k \in DOMAIN es |-> es[k].count]
            B  == [k \in DOMAIN es |-> ExtentBlocks(es[k])]
<1>1. /\ es \in Seq(Extent)
      /\ SizeOf(i) = 0 <=> es = <<>>
      /\ get_num_blks_of_file(i) \in Nat
  <2>1. /\ entries[i] = <<>> <=> es = <<>>
        /\ entries[i] = <<>> <=> Len(entries[i]) = 0
        /\ itable[i].mode # "dir" => entries[i] = <<>> /\ itable[i].size = 0
        /\ es \in Seq(Extent)
        /\ get_num_blks_of_file(i) \in Nat
    BY BlocksFilled, EmptySeq
       DEF OwnerInv, TypeInv, InodeInv, InodeTypes, TableInv, FilesEmpty,
           OnlyDirectoriesHoldEntries
  <2>. QED  BY <2>1 DEF SizeOf
<1>2. Apart(es, indirect[i]) /\ OwnedBlocks(i) = OwnedOf(es, indirect[i])
  BY OwnedIsOwnedOf DEF OwnerInv
<1>3. /\ g \in [DOMAIN es -> Nat] /\ IsFiniteSet(DOMAIN es)
      /\ \E c : Counts(g, c) /\ get_num_blks_of_file(i) = c[DOMAIN es]
  <2>1. DOMAIN es = 1 .. Len(es) /\ IsFiniteSet(DOMAIN es)
    <3>1. DOMAIN es = 1 .. Len(es) /\ Len(es) \in Nat
      BY <1>1, LenProperties
    <3>2. IsFiniteSet(1 .. Len(es))
      BY <3>1, FS_Interval
    <3>. QED  BY <3>1, <3>2
  <2>2. \A k \in DOMAIN es : es[k].count \in Nat
    BY <1>1, <2>1, ExtentAt
  <2>. QED  BY <2>1, <2>2, BlocksFolded, BlocksAreSummed
<1>4. PICK count : Counts(g, count) /\ get_num_blks_of_file(i) = count[DOMAIN es]
  BY <1>3
<1>5. \A k \in DOMAIN es : IsFiniteSet(B[k]) /\ Cardinality(B[k]) = g[k]
  <2>. SUFFICES ASSUME NEW k \in DOMAIN es
                PROVE  /\ IsFiniteSet(ExtentBlocks(es[k]))
                       /\ Cardinality(ExtentBlocks(es[k])) = es[k].count
    OBVIOUS
  <2>1. es[k].start \in Nat /\ es[k].count \in Nat
    BY <1>1, LenProperties, ExtentAt
  <2>. DEFINE a == es[k].start
              n == es[k].count
  <2>2. ExtentBlocks(es[k]) = a .. a + n - 1
    BY DEF ExtentBlocks
  <2>3. a \in Int /\ a + n - 1 \in Int /\ n \in Nat
    BY <2>1
  <2>. HIDE DEF a, n
  <2>4. IsFiniteSet(a .. a + n - 1) /\ Cardinality(a .. a + n - 1) = n
    BY <2>3, FS_Interval
  <2>. QED  BY <2>2, <2>4 DEF n
<1>6. \A k, l \in DOMAIN es : k # l => B[k] \cap B[l] = {}
  BY <1>2 DEF Apart
<1>7. DataOf(es) = UNION {B[k] : k \in DOMAIN es}
  BY DEF DataOf
<1>. HIDE DEF es, g, B
<1>8. IsFiniteSet(DataOf(es)) /\ Cardinality(DataOf(es)) = get_num_blks_of_file(i)
  <2>. DEFINE X == DOMAIN es
  <2>1. IsFiniteSet(X) /\ g \in [X -> Nat]
    BY <1>3
  <2>2. /\ \A k \in X : IsFiniteSet(B[k]) /\ Cardinality(B[k]) = g[k]
        /\ \A k, l \in X : k # l => B[k] \cap B[l] = {}
        /\ DataOf(es) = UNION {B[k] : k \in X}
        /\ get_num_blks_of_file(i) = count[X]
    BY <1>4, <1>5, <1>6, <1>7
  <2>. HIDE DEF X
  <2>. QED  BY <1>4, <2>1, <2>2, SizesAddUp
<1>9. CASE es = <<>>
  <2>1. OwnedBlocks(i) = {}
    BY <1>2, <1>9 DEF OwnedOf
  <2>2. get_exact_num_blks_of_file(i) = 0
    BY <1>1, <1>9 DEF get_exact_num_blks_of_file
  <2>. QED  BY <2>1, <2>2, FS_EmptySet
<1>10. CASE es # <<>>
  <2>1. OwnedBlocks(i) = DataOf(es) \cup {indirect[i]} /\ indirect[i] \notin DataOf(es)
    BY <1>2, <1>10 DEF OwnedOf, Apart
  <2>2. get_exact_num_blks_of_file(i) = 1 + get_num_blks_of_file(i)
    BY <1>1, <1>10 DEF get_exact_num_blks_of_file
  <2>3. /\ IsFiniteSet(DataOf(es) \cup {indirect[i]})
        /\ Cardinality(DataOf(es) \cup {indirect[i]}) = get_num_blks_of_file(i) + 1
    BY <1>8, <2>1, FS_AddElement
  <2>. QED  BY <1>1, <2>1, <2>2, <2>3
<1>. QED  BY <1>9, <1>10

\* What no entry names has no entries and no blocks.
LEMMA UnlinkedOwnNothing ==
  ASSUME TreeInv, RootReachesAll, NEW i \in Inodes, ~Linked(i)
  PROVE  OwnedBlocks(i) = {}
<1>1. entries[i] = <<>>
  <2>. SUFFICES ASSUME entries[i] # <<>> PROVE FALSE
    OBVIOUS
  <2>1. PICK e \in EntrySet(i) : e.ino \in Inodes /\ e.ino # ROOT_INODE
    <3>1. EntrySet(i) # {}
      BY EntrySetTypes DEF TreeInv, TypeInv
    <3>. QED  BY <3>1, EntrySetTypes DEF TreeInv, TypeInv, Dentry
  <2>. DEFINE S == LinkedInodes \ {e.ino}
  <2>2. S \in SUBSET Inodes /\ ROOT_INODE \in S
    BY <2>1, NumInodesAssumption DEF LinkedInodes, Linked, Inodes, ROOT_INODE
  <2>3. ASSUME NEW d \in S, NEW f \in EntrySet(d)
        PROVE  f.ino \in S
    <3>1. d \in Inodes /\ d # i
      BY DEF LinkedInodes
    <3>2. f.ino \in Inodes /\ Linked(f.ino)
      BY <3>1, EntrySetTypes, EntriesAsSets DEF TreeInv, TypeInv, Dentry
    <3>3. f.ino # e.ino
      BY <3>1, EntriesAsSets DEF TreeInv, TypeInv, InodeInv
    <3>. QED  BY <3>2, <3>3 DEF LinkedInodes
  <2>4. Children(S) \subseteq S
    BY <2>3, ChildrenAreEntries
  <2>5. e.ino \in LinkedInodes
    BY <2>1, EntriesAsSets DEF LinkedInodes
  <2>6. LinkedInodes \subseteq S
    <3>. HIDE DEF S
    <3>. QED  BY <2>2, <2>4 DEF RootReachesAll
  <2>. QED  BY <2>5, <2>6
<1>. QED  BY <1>1, NothingOwned DEF TreeInv

\* What getattr counts for all that is linked are the blocks that have an owner.
LEMMA UsedBlocksOwned ==
  ASSUME OwnerInv, TreeInv, RootReachesAll
  PROVE  /\ IsFiniteSet(AllOwned)
         /\ Cardinality(AllOwned) =
               MapThenSumSet(get_exact_num_blks_of_file, LinkedInodes)
<1>. DEFINE X == LinkedInodes
            f == [i \in X |-> get_exact_num_blks_of_file(i)]
            B == [i \in X |-> OwnedBlocks(i)]
            Step(c) == [s \in SUBSET X |->
                          IF s = {} THEN 0
                                    ELSE LET i == CHOOSE j \in s : TRUE
                                         IN  get_exact_num_blks_of_file(i) + c[s \ {i}]]
            count == CHOOSE c : c = Step(c)
<1>1. X \subseteq Inodes /\ IsFiniteSet(X)
  BY InodesFinite, FS_Subset DEF LinkedInodes
<1>2. f \in [X -> Nat] /\ \A i \in X : f[i] = get_exact_num_blks_of_file(i)
  BY <1>1, ExactBlocksOwned
<1>3. MapThenSumSet(get_exact_num_blks_of_file, LinkedInodes) = count[X]
  BY DEF MapThenSumSet, MapThenFoldSet
<1>4. \A c : c = Step(c) <=> Counts(f, c)
  <2>1. ASSUME NEW s \in SUBSET X, s # {}
        PROVE  get_exact_num_blks_of_file(Chosen(s)) = f[Chosen(s)]
    BY <1>2, <2>1 DEF Chosen
  <2>2. DOMAIN f = X
    BY <1>2
  <2>. HIDE DEF f, X
  <2>. QED  BY <2>1, <2>2 DEF Counts, CountOf, Chosen
<1>. HIDE DEF Step, f
<1>5. Counts(f, count)
  <2>1. \E c : c = Step(c)
    BY <1>1, <1>2, <1>4, CountsExist
  <2>2. count = Step(count)
    BY <2>1
  <2>. HIDE DEF count
  <2>. QED  BY <1>4, <2>2
<1>6. \A i \in X : IsFiniteSet(B[i]) /\ Cardinality(B[i]) = f[i]
  BY <1>1, <1>2, ExactBlocksOwned
<1>7. \A i, j \in X : i # j => B[i] \cap B[j] = {}
  BY <1>1 DEF OwnerInv, BlocksOwnedOnce
<1>8. AllOwned = UNION {B[i] : i \in X}
  <2>1. \A i \in Inodes : i \notin X => OwnedBlocks(i) = {}
    BY UnlinkedOwnNothing DEF LinkedInodes
  <2>2. \A i \in X : B[i] = OwnedBlocks(i)
    OBVIOUS
  <2>. HIDE DEF B, X
  <2>. QED  BY <1>1, <2>1, <2>2 DEF AllOwned
<1>. HIDE DEF X, B, count
<1>. QED  BY <1>1, <1>2, <1>3, <1>5, <1>6, <1>7, <1>8, SizesAddUp DEF X

\* Free blocks, the blocks of the files and directories, and what failures lost are
\* the blocks of the image, as the counter and get_exact_num_blks_of_file count them.
THEOREM CountsAddUp == Spec => []FreeAndUsedAddUp
<1>1. OwnerInv /\ TreeInv /\ RootReachesAll => FreeAndUsedAddUp
  <2>. SUFFICES ASSUME OwnerInv, TreeInv, RootReachesAll PROVE FreeAndUsedAddUp
    OBVIOUS
  <2>1. IsFiniteSet(AllOwned) /\ AllOwned \subseteq dataBitmap
    BY UsedBlocksOwned DEF OwnerInv, OwnedAllocated, AllOwned
  <2>2. IsFiniteSet(LeakedBlocks) /\ LeakedBlocks \cap AllOwned = {}
    BY FS_Subset DEF OwnerInv, LeakedBlocks
  <2>3. dataBitmap = LeakedBlocks \cup AllOwned
    BY <2>1 DEF LeakedBlocks
  <2>4. /\ Cardinality(dataBitmap) = Cardinality(LeakedBlocks) + Cardinality(AllOwned) - 0
        /\ Cardinality(LeakedBlocks) \in Nat /\ Cardinality(AllOwned) \in Nat
    BY <2>1, <2>2, <2>3, FS_Union, FS_EmptySet, FS_CardinalityType
  <2>5. availableBlocks \in Nat /\ availableBlocks + Cardinality(dataBitmap) = NumBlocks
    BY DEF OwnerInv, BlocksCounted, TypeInv, BlockTypes
  <2>7. Cardinality(AllOwned) = MapThenSumSet(get_exact_num_blks_of_file, LinkedInodes)
    BY UsedBlocksOwned
  <2>8. availableBlocks + Cardinality(AllOwned) + Cardinality(LeakedBlocks) = NumBlocks
    BY <2>4, <2>5
  <2>. QED  BY <2>7, <2>8 DEF FreeAndUsedAddUp
<1>. QED
  BY <1>1, OwnerInvariant, InitTreeInv, InitReaches, NextKeepsTreeInv, NextReaches, PTL DEF Spec
=============================================================================
