----------------------------- MODULE StoresKept -----------------------------
(***************************************************************************)
(* Proofs about rmdir and unlink, store by store, and about kills between  *)
(* any two stores: the images of a removal are torn at the end of one      *)
(* directory at most, the last of them is sound again, and so every image  *)
(* is what the properties of Stores say, for every value of the constants. *)
(***************************************************************************)
EXTENDS StoresAdditions

-----------------------------------------------------------------------------
(* What a removal leaves of the entries. *)

\* The removal of t, the k-th entry of p, begins.
Leaves(p, t, k) ==
    /\ Sound(image) /\ p \in Inodes /\ image.inodeBit[p] /\ Agrees(image, p)
    /\ Lists(image, p, k) /\ EntriesOf(image, p)[k].ino = t
    /\ image.size[t] = 0

\* What it begins with: the entries es of p, n of them, in the blocks bs.
LeavesFrom(p, t, k, n, es, bs) ==
    /\ IsImage(image) /\ Held(image)
    /\ n = image.num_dir_entry[p] /\ es = EntriesOf(image, p) /\ bs = BlocksOf(image, p)
    /\ n \in Nat /\ k \in 1 .. n /\ image.size[p] = n
    /\ es \in Seq(Entry) /\ Len(es) = n
    /\ bs \in Seq(Blocks) /\ Len(bs) \in Nat /\ Len(bs) > 0 /\ D \in Nat /\ D > 1
    /\ n <= D * Len(bs) /\ D * Len(bs) \in Nat
    /\ n % D = 1 => D * (Len(bs) - 1) = n - 1
    /\ image.extent_num[p] > 0
    /\ t \in Inodes /\ t \in InodeBits(image) /\ t # p /\ image.extent_num[t] = 0
    /\ \A l \in 1 .. n : es[l] = image.dentry[Slot(bs, l)] /\ Slot(bs, l) \in Blocks \X Slots
                         /\ l \in 1 .. D * Len(bs)

\* What a removal begins with follows from the image being sound.
LEMMA LeavesView ==
  ASSUME NEW p, NEW t, NEW k, Leaves(p, t, k)
  PROVE  LeavesFrom(p, t, k, image.num_dir_entry[p], EntriesOf(image, p), BlocksOf(image, p))
<1>. DEFINE n == image.num_dir_entry[p]
            es == EntriesOf(image, p)
            bs == BlocksOf(image, p)
<1>1. /\ Sound(image) /\ p \in Inodes /\ Agrees(image, p) /\ k \in 1 .. Len(es)
      /\ es[k].ino = t /\ image.size[t] = 0
  BY DEF Leaves, Lists
<1>2. /\ n \in Nat /\ Len(bs) \in Nat /\ n <= D * Len(bs) /\ D \in Nat /\ D > 1
      /\ n % D = 1 => D * (Len(bs) - 1) = n - 1
      /\ Len(es) = n /\ (n > 0 <=> image.extent_num[p] > 0)
  BY <1>1, ParentCounts
<1>3. /\ IsImage(image) /\ Held(image) /\ UsesInto(image, p, Blocks)
      /\ ListsInto(image, p, InodeBits(image)) /\ es \in Seq(Entry)
  BY <1>1, SoundView
<1>4. k \in 1 .. n /\ n > 0 /\ image.extent_num[p] > 0
  <2>. HIDE DEF n, es, bs
  <2>1. k \in 1 .. n
    BY <1>1, <1>2
  <2>2. n > 0
    BY <1>2, <2>1
  <2>. QED  BY <1>2, <2>1, <2>2
<1>5. ShownBy(es, bs, n, image.dentry)
  BY <1>1, <1>3, <1>4, EntriesAre
<1>6. t \in InodeBits(image)
  BY <1>1, <1>3 DEF ListsInto, Lists
<1>7. t \in Inodes /\ image.extent_num[t] = 0
  <2>1. t \in Inodes
    BY <1>6 DEF InodeBits
  <2>2. image.extent_num[t] \in Nat
    BY <1>3, <2>1, ImageTypes
  <2>3. ~(image.extent_num[t] > 0)
    BY <1>1, <1>3, <2>1 DEF Held
  <2>. QED  BY <2>1, <2>2, <2>3
<1>8. t # p
  BY <1>4, <1>7
<1>9. image.size[p] = n
  BY <1>1 DEF Agrees
<1>10. \A l \in 1 .. n : es[l] = image.dentry[Slot(bs, l)] /\ Slot(bs, l) \in Blocks \X Slots
                         /\ l \in 1 .. D * Len(bs)
  <2>. HIDE DEF n, es, bs
  <2>. QED  BY <1>2, <1>5 DEF ShownBy
<1>11. Len(bs) > 0 /\ D * Len(bs) \in Nat /\ bs \in Seq(Blocks)
  BY <1>5 DEF ShownBy
<1>. QED  BY <1>2, <1>3, <1>4, <1>6, <1>7, <1>8, <1>9, <1>10, <1>11 DEF LeavesFrom

\* The entries of p with the last one in the place of the k-th, and without the last.
MovedTo(es, k)   == [l \in 1 .. Len(es) |-> IF l = k THEN es[Len(es)] ELSE es[l]]
RestOf(es, k)    == [l \in 1 .. Len(es) - 1 |-> IF l = k THEN es[Len(es)] ELSE es[l]]

\* A function on 1 .. n is a sequence.
LEMMA FunIsSeq ==
  ASSUME NEW T, NEW n \in Nat, NEW f, f = [l \in 1 .. n |-> f[l]], \A l \in 1 .. n : f[l] \in T
  PROVE  f \in Seq(T) /\ Len(f) = n
<1>1. [l \in 1 .. n |-> f[l]] \in Seq(T) /\ Len([l \in 1 .. n |-> f[l]]) = n
  OBVIOUS
<1>. QED  BY <1>1

\* The rest of the entries: sequences, still distinct, without t.
LEMMA RestView ==
  ASSUME NEW p, NEW t, NEW k, Leaves(p, t, k), NEW es, es = EntriesOf(image, p),
         NEW n, n = image.num_dir_entry[p]
  PROVE  /\ RestOf(es, k) \in Seq(Entry) /\ Len(RestOf(es, k)) = n - 1
         /\ MovedTo(es, k) \in Seq(Entry) /\ Len(MovedTo(es, k)) = n
         /\ \A l \in 1 .. n - 1 : /\ RestOf(es, k)[l] = MovedTo(es, k)[l]
                                  /\ RestOf(es, k)[l].ino \in InodeBits(image) \ {t}
         /\ \A l, m \in 1 .. n - 1 : RestOf(es, k)[l].ino = RestOf(es, k)[m].ino => l = m
         /\ \A x \in Inodes \ {p} : \A m : Lists(image, x, m) =>
               /\ EntriesOf(image, x)[m].ino # t
               /\ \A l \in 1 .. n - 1 : RestOf(es, k)[l].ino # EntriesOf(image, x)[m].ino
         /\ ToSet(RestOf(es, k)) \subseteq ToSet(es)
         /\ k < n => ToSet(MovedTo(es, k)) = ToSet(RestOf(es, k))
         /\ k = n => MovedTo(es, k) = es
<1>. DEFINE s(l) == IF l = k THEN n ELSE l
            f == MovedTo(es, k)
            r == RestOf(es, k)
<1>1. /\ n \in Nat /\ k \in 1 .. n /\ es \in Seq(Entry) /\ Len(es) = n /\ es[k].ino = t
      /\ p \in Inodes /\ Sound(image)
  BY LeavesView DEF LeavesFrom, Leaves
<1>2. \A l \in 1 .. n : s(l) \in 1 .. n
  BY <1>1
<1>3. /\ DOMAIN f = 1 .. n /\ DOMAIN r = 1 .. n - 1
      /\ \A l \in 1 .. n : f[l] = es[s(l)]
      /\ \A l \in 1 .. n - 1 : r[l] = es[s(l)]
  BY <1>1 DEF MovedTo, RestOf
<1>4. \A l \in 1 .. n : es[l] \in Entry
  BY <1>1, ElementOfSeq
<1>5. f \in Seq(Entry) /\ Len(f) = n /\ r \in Seq(Entry) /\ Len(r) = n - 1
  <2>1. f = [l \in 1 .. n |-> f[l]] /\ r = [l \in 1 .. n - 1 |-> r[l]]
    BY <1>1 DEF MovedTo, RestOf
  <2>2. \A l \in 1 .. n - 1 : l \in 1 .. n
    BY <1>1
  <2>3. (\A l \in 1 .. n : f[l] \in Entry) /\ \A l \in 1 .. n - 1 : r[l] \in Entry
    BY <1>2, <1>3, <1>4, <2>2
  <2>4. n - 1 \in Nat
    BY <1>1
  <2>. DEFINE m == n - 1
  <2>. HIDE DEF f, r, m
  <2>5. f \in Seq(Entry) /\ Len(f) = n
    BY <1>1, <2>1, <2>3, FunIsSeq
  <2>6. r \in Seq(Entry) /\ Len(r) = m
    <3>1. m \in Nat /\ r = [l \in 1 .. m |-> r[l]] /\ \A l \in 1 .. m : r[l] \in Entry
      BY <2>1, <2>3, <2>4 DEF m
    <3>. QED  BY <3>1, FunIsSeq
  <2>. QED  BY <2>5, <2>6 DEF m
<1>6. \A l \in 1 .. n - 1 : l \in 1 .. n /\ s(l) # k
  BY <1>1
<1>7. \A l, m \in 1 .. n - 1 : s(l) = s(m) => l = m
  BY <1>1
<1>8. \A l, m \in 1 .. n : es[l].ino = es[m].ino => l = m
  <2>1. \A l \in 1 .. n : Lists(image, p, l)
    BY <1>1 DEF Lists
  <2>. QED  BY <1>1, <2>1, SoundView DEF ListsApart
<1>9. \A l \in 1 .. n : es[l].ino \in InodeBits(image)
  <2>1. \A l \in 1 .. n : Lists(image, p, l)
    BY <1>1 DEF Lists
  <2>. QED  BY <1>1, <2>1, SoundView DEF ListsInto
<1>10. \A x \in Inodes \ {p} : \A m : Lists(image, x, m) =>
          \A l \in 1 .. n : es[l].ino # EntriesOf(image, x)[m].ino
  <2>1. \A l \in 1 .. n : Lists(image, p, l)
    BY <1>1 DEF Lists
  <2>. QED  BY <1>1, <2>1, SoundView DEF ListsApart
<1>. HIDE DEF f, r, s
<1>11. \A l \in 1 .. n - 1 : r[l] = f[l] /\ r[l].ino \in InodeBits(image) \ {t}
  <2>. SUFFICES ASSUME NEW l \in 1 .. n - 1
                PROVE  r[l] = f[l] /\ r[l].ino \in InodeBits(image) \ {t}
    OBVIOUS
  <2>1. l \in 1 .. n /\ s(l) # k /\ s(l) \in 1 .. n
    BY <1>2, <1>6
  <2>2. r[l] = es[s(l)] /\ f[l] = es[s(l)]
    BY <1>3, <2>1
  <2>3. es[s(l)].ino # t
    BY <1>1, <1>8, <2>1
  <2>. QED  BY <1>9, <2>1, <2>2, <2>3
<1>12. \A l, m \in 1 .. n - 1 : r[l].ino = r[m].ino => l = m
  <2>. SUFFICES ASSUME NEW l \in 1 .. n - 1, NEW m \in 1 .. n - 1, r[l].ino = r[m].ino
                PROVE  l = m
    OBVIOUS
  <2>1. s(l) \in 1 .. n /\ s(m) \in 1 .. n
    BY <1>2, <1>6
  <2>2. r[l] = es[s(l)] /\ r[m] = es[s(m)]
    BY <1>3
  <2>. QED  BY <1>7, <1>8, <2>1, <2>2
<1>13. \A x \in Inodes \ {p} : \A m : Lists(image, x, m) =>
          /\ EntriesOf(image, x)[m].ino # t
          /\ \A l \in 1 .. n - 1 : r[l].ino # EntriesOf(image, x)[m].ino
  <2>. SUFFICES ASSUME NEW x \in Inodes \ {p}, NEW m, Lists(image, x, m)
                PROVE  /\ EntriesOf(image, x)[m].ino # t
                       /\ \A l \in 1 .. n - 1 : r[l].ino # EntriesOf(image, x)[m].ino
    OBVIOUS
  <2>1. \A l \in 1 .. n : es[l].ino # EntriesOf(image, x)[m].ino
    BY <1>10
  <2>2. \A l \in 1 .. n - 1 : s(l) \in 1 .. n /\ r[l] = es[s(l)]
    BY <1>2, <1>3, <1>6
  <2>. QED  BY <1>1, <2>1, <2>2
<1>14. ToSet(r) = {r[l] : l \in 1 .. n - 1} /\ ToSet(f) = {f[l] : l \in 1 .. n}
       /\ ToSet(es) = {es[l] : l \in 1 .. n}
  <2>1. DOMAIN es = 1 .. n
    BY <1>1
  <2>. QED  BY <1>3, <2>1 DEF ToSet
<1>15. ToSet(r) \subseteq ToSet(es)
  <2>1. \A l \in 1 .. n - 1 : s(l) \in 1 .. n /\ r[l] = es[s(l)]
    BY <1>2, <1>3, <1>6
  <2>. QED  BY <1>14, <2>1
<1>16. ASSUME k < n PROVE ToSet(f) = ToSet(r)
  <2>1. f[n] = r[k] /\ k \in 1 .. n - 1
    <3>1. k \in 1 .. n - 1 /\ n \in 1 .. n
      BY <1>1, <1>16
    <3>2. s(n) = n /\ s(k) = n
      BY <1>16 DEF s
    <3>. QED  BY <1>3, <3>1, <3>2
  <2>2. \A l \in 1 .. n : l = n \/ l \in 1 .. n - 1
    BY <1>1
  <2>3. \A l \in 1 .. n : \E m \in 1 .. n - 1 : f[l] = r[m]
    BY <1>11, <2>1, <2>2
  <2>4. \A l \in 1 .. n - 1 : l \in 1 .. n /\ r[l] = f[l]
    BY <1>6, <1>11
  <2>. QED  BY <1>14, <2>3, <2>4
<1>17. ASSUME k = n PROVE f = es
  <2>1. \A l \in 1 .. n : s(l) = l
    BY <1>17 DEF s
  <2>2. \A l \in 1 .. n : f[l] = es[l]
    BY <1>3, <2>1
  <2>. QED  BY <1>1, <1>5, <2>2, SeqEqual
<1>. QED  BY <1>5, <1>11, <1>12, <1>13, <1>15, <1>16, <1>17 DEF f, r

\* What an image shows of p, from its count of entries and its blocks.
LEMMA ShownAs ==
  ASSUME NEW img, IsImage(img), Held(img), NEW p \in Inodes, UsesInto(img, p, Blocks),
         NEW cs, cs = BlocksOf(img, p), cs # <<>>, NEW es \in Seq(Entry), NEW q \in Nat,
         Len(es) = q, q <= D * Len(cs),
         img.num_dir_entry[p] = q \/ (img.num_dir_entry[p] > q /\ q = D * Len(cs)),
         \A l \in 1 .. q : img.dentry[Slot(cs, l)] = es[l]
  PROVE  EntriesOf(img, p) = es
<1>. DEFINE fs == EntriesOf(img, p)
            m == img.num_dir_entry[p]
<1>1. img.extent_num[p] > 0
  BY ViewOf
<1>2. ShownBy(fs, cs, m, img.dentry)
  BY <1>1, EntriesAre
<1>. HIDE DEF fs, m
<1>3. fs \in Seq(Entry) /\ Len(fs) = q
  BY <1>2 DEF ShownBy, m
<1>4. \A l \in 1 .. q : fs[l] = es[l]
  BY <1>2, <1>3 DEF ShownBy
<1>. QED  BY <1>3, <1>4, SeqEqual DEF fs

\* The blocks of p but the last.
Fewer(bs) == [l \in 1 .. Len(bs) - 1 |-> bs[l]]

\* Their blocks and slots are those of the directory.
LEMMA FewerView ==
  ASSUME NEW bs \in Seq(Blocks), Len(bs) > 0
  PROVE  /\ Fewer(bs) \in Seq(Blocks) /\ Len(Fewer(bs)) = Len(bs) - 1
         /\ \A l \in 1 .. Len(bs) - 1 : Fewer(bs)[l] = bs[l]
         /\ \A l \in 1 .. D * (Len(bs) - 1) : Slot(Fewer(bs), l) = Slot(bs, l)
<1>. DEFINE n == Len(bs) - 1
            cs == Fewer(bs)
<1>1. n \in Nat /\ Len(bs) = n + 1
  BY LenProperties
<1>2. cs = [l \in 1 .. n |-> bs[l]] /\ \A l \in 1 .. n : bs[l] \in Blocks
  <2>1. \A l \in 1 .. n : l \in 1 .. Len(bs)
    BY <1>1
  <2>. QED  BY <2>1, ElementOfSeq DEF Fewer
<1>. HIDE DEF n, cs
<1>3. cs \in Seq(Blocks) /\ Len(cs) = n /\ \A l \in 1 .. n : cs[l] = bs[l]
  <2>1. cs = [l \in 1 .. n |-> cs[l]] /\ \A l \in 1 .. n : cs[l] \in Blocks
    BY <1>2
  <2>. QED  BY <1>1, <1>2, <2>1, FunIsSeq
<1>4. \A l \in 1 .. D * n : Slot(cs, l) = Slot(bs, l)
  <2>. SUFFICES ASSUME NEW l \in 1 .. D * n PROVE Slot(cs, l) = Slot(bs, l)
    OBVIOUS
  <2>1. (l - 1) \div D + 1 \in 1 .. n
    BY <1>1, SlotOfEntry
  <2>. QED  BY <1>3, <2>1 DEF Slot
<1>. QED  BY <1>3, <1>4 DEF n, cs

\* The entries of p once the last one was moved: all of them, or all but the last.
LEMMA RestShown ==
  ASSUME NEW p, NEW t, NEW k, Leaves(p, t, k), NEW es, es = EntriesOf(image, p),
         NEW n, n = image.num_dir_entry[p], NEW bs, bs = BlocksOf(image, p),
         NEW img, IsImage(img), Held(img), UsesInto(img, p, Blocks),
         \A l \in 1 .. n : img.dentry[Slot(bs, l)] = MovedTo(es, k)[l],
         img.num_dir_entry[p] \in {n - 1, n}
  PROVE  /\ BlocksOf(img, p) = bs /\ img.num_dir_entry[p] = n => EntriesOf(img, p) = MovedTo(es, k)
         /\ BlocksOf(img, p) = bs /\ img.num_dir_entry[p] = n - 1 => EntriesOf(img, p) = RestOf(es, k)
         /\ n # 1 /\ n % D = 1 /\ BlocksOf(img, p) = Fewer(bs) => EntriesOf(img, p) = RestOf(es, k)
         /\ n = 1 /\ img.extent_num[p] = 0 => EntriesOf(img, p) = RestOf(es, k)
<1>1. /\ n \in Nat /\ k \in 1 .. n /\ bs \in Seq(Blocks) /\ Len(bs) \in Nat /\ Len(bs) > 0 /\ bs # <<>>
      /\ D \in Nat /\ n <= D * Len(bs) /\ D * Len(bs) \in Nat
      /\ n % D = 1 => D * (Len(bs) - 1) = n - 1
      /\ p \in Inodes
  <2>1. LeavesFrom(p, t, k, n, es, bs)
    BY LeavesView
  <2>2. Len(<<>>) = 0
    OBVIOUS
  <2>. QED  BY <2>1, <2>2 DEF LeavesFrom, Leaves
<1>2. /\ RestOf(es, k) \in Seq(Entry) /\ Len(RestOf(es, k)) = n - 1
      /\ MovedTo(es, k) \in Seq(Entry) /\ Len(MovedTo(es, k)) = n
      /\ \A l \in 1 .. n - 1 : RestOf(es, k)[l] = MovedTo(es, k)[l]
  BY RestView
<1>. DEFINE f == MovedTo(es, k)
            r == RestOf(es, k)
            q == n - 1
<1>3. q \in Nat /\ \A l \in 1 .. q : l \in 1 .. n
  BY <1>1
<1>4. ASSUME BlocksOf(img, p) = bs, img.num_dir_entry[p] = n PROVE EntriesOf(img, p) = f
  <2>1. /\ f \in Seq(Entry) /\ Len(f) = n /\ \A l \in 1 .. n : img.dentry[Slot(bs, l)] = f[l]
        /\ (img.num_dir_entry[p] = n \/ (img.num_dir_entry[p] > n /\ n = D * Len(bs)))
        /\ bs = BlocksOf(img, p)
    BY <1>2, <1>4
  <2>. HIDE DEF f
  <2>. QED  BY <1>1, <2>1, ShownAs
<1>5. ASSUME BlocksOf(img, p) = bs, img.num_dir_entry[p] = n - 1 PROVE EntriesOf(img, p) = r
  <2>1. \A l \in 1 .. q : img.dentry[Slot(bs, l)] = r[l]
    BY <1>2, <1>3
  <2>2. q <= D * Len(bs) /\ Len(r) = q /\ bs = BlocksOf(img, p) /\ img.num_dir_entry[p] = q
    BY <1>1, <1>2, <1>5
  <2>3. r \in Seq(Entry)
    BY <1>2
  <2>4. bs # <<>> /\ q \in Nat /\ p \in Inodes
    BY <1>1, <1>3
  <2>. HIDE DEF q, r
  <2>5. /\ BlocksOf(img, p) # <<>> /\ q <= D * Len(BlocksOf(img, p))
        /\ \A l \in 1 .. q : img.dentry[Slot(BlocksOf(img, p), l)] = r[l]
    BY <2>1, <2>2, <2>4
  <2>. QED  BY <2>2, <2>3, <2>4, <2>5, ShownAs
<1>6. ASSUME n # 1, n % D = 1, BlocksOf(img, p) = Fewer(bs) PROVE EntriesOf(img, p) = r
  <2>. DEFINE cs == Fewer(bs)
  <2>1. /\ cs \in Seq(Blocks) /\ Len(cs) = Len(bs) - 1
        /\ \A l \in 1 .. D * (Len(bs) - 1) : Slot(cs, l) = Slot(bs, l)
    BY <1>1, FewerView
  <2>2. D * (Len(bs) - 1) = q
    BY <1>1, <1>6
  <2>3. D * Len(cs) = q
    BY <2>1, <2>2
  <2>4. \A l \in 1 .. q : img.dentry[Slot(cs, l)] = r[l]
    BY <1>2, <1>3, <2>1, <2>2
  <2>5. cs # <<>>
    <3>1. q > 0
      BY <1>1, <1>6
    <3>2. Len(cs) # 0
      BY <1>1, <2>3, <3>1
    <3>3. Len(<<>>) = 0
      OBVIOUS
    <3>. QED  BY <3>2, <3>3
  <2>6. img.num_dir_entry[p] = q \/ (img.num_dir_entry[p] > q /\ q = D * Len(cs))
    BY <1>1, <2>3
  <2>7. r \in Seq(Entry) /\ Len(r) = q /\ q <= D * Len(cs)
    BY <1>2, <1>3, <2>3
  <2>. HIDE DEF q, r, cs
  <2>8. cs = BlocksOf(img, p)
    BY <1>6 DEF cs
  <2>9. p \in Inodes /\ q \in Nat
    BY <1>1, <1>3
  <2>. QED  BY <2>4, <2>5, <2>6, <2>7, <2>8, <2>9, ShownAs
<1>7. ASSUME n = 1, img.extent_num[p] = 0 PROVE EntriesOf(img, p) = r
  <2>1. r \in Seq(Entry) /\ Len(r) = 0
    BY <1>2, <1>7
  <2>2. r = <<>>
    <3>. HIDE DEF r
    <3>. QED  BY <2>1, EmptySeq
  <2>3. /\ BlocksOf(img, p) = <<>> /\ EntriesOf(img, p) \in Seq(Entry)
        /\ BlocksOf(img, p) \in Seq(Blocks)
        /\ BlocksOf(img, p) # <<>> => img.num_dir_entry[p] > 0
    BY <1>1, <1>7, ViewOf
  <2>4. Len(EntriesOf(img, p)) = 0
    <3>1. Len(EntriesOf(img, p)) = IF img.num_dir_entry[p] <= D * Len(BlocksOf(img, p))
             THEN (IF BlocksOf(img, p) = <<>> THEN 0 ELSE img.num_dir_entry[p])
             ELSE D * Len(BlocksOf(img, p))
      BY <1>1, <2>3, EntriesView
    <3>2. D * Len(BlocksOf(img, p)) = 0
      <4>1. Len(BlocksOf(img, p)) = 0 /\ D * 0 = 0
        BY <1>1, <2>3
      <4>. QED  BY <4>1
    <3>. QED  BY <2>3, <3>1, <3>2
  <2>. HIDE DEF r
  <2>. QED  BY <2>2, <2>3, <2>4, EmptySeq
<1>. QED  BY <1>4, <1>5, <1>6, <1>7

\* Blocks p uses.
OwnedBy(img, p, G) == \A b \in G : \E m : Uses(img, p, m) /\ BlockAt(img, p, m) = b

\* What p uses in j it used in i, and it is none of G.
UsesFewer(i, j, p, G) ==
    \A m : Uses(j, p, m) => /\ Uses(i, p, m) /\ BlockAt(j, p, m) = BlockAt(i, p, m)
                            /\ BlockAt(i, p, m) \notin G

\* The blocks of G are free in j, and nothing else of what image uses is.
LEMMA FewerUsed ==
  ASSUME Sound(image), NEW p \in Inodes, NEW j, \A x \in Inodes \ {p} : SameView(image, j, x),
         NEW G, OwnedBy(image, p, G), UsesFewer(image, j, p, G)
  PROVE  /\ Cardinality(UsedBlocks(j)) + Cardinality(G) <= Cardinality(UsedBlocks(image))
         /\ Cardinality(UsedBlocks(j)) \in Nat /\ Cardinality(G) \in Nat
         /\ Cardinality(UsedBlocks(image)) \in Nat
<1>. DEFINE U == UsedBlocks(image)
            V == UsedBlocks(j)
<1>1. IsFiniteSet(U) /\ IsFiniteSet(V) /\ Cardinality(U) \in Nat /\ Cardinality(V) \in Nat
  BY UsedBlocksFinite
<1>2. UsesApart(image) /\ \A x \in Inodes : UsesInto(image, x, Blocks)
  BY SoundView
<1>3. G \subseteq U
  <2>. SUFFICES ASSUME NEW b \in G PROVE b \in U
    OBVIOUS
  <2>1. PICK m : Uses(image, p, m) /\ BlockAt(image, p, m) = b
    BY DEF OwnedBy
  <2>2. b \in Blocks
    BY <1>2, <2>1 DEF UsesInto
  <2>. QED  BY <2>1, <2>2, UsedBlocksOf
<1>4. V \subseteq U \ G
  <2>. SUFFICES ASSUME NEW b \in V PROVE b \in U \ G
    OBVIOUS
  <2>1. PICK x \in Inodes : \E m : Uses(j, x, m) /\ BlockAt(j, x, m) = b
    BY UsedBlocksOf
  <2>2. PICK m : Uses(j, x, m) /\ BlockAt(j, x, m) = b
    BY <2>1
  <2>3. Uses(image, x, m) /\ BlockAt(image, x, m) = b
    <3>1. CASE x = p
      BY <2>2, <3>1 DEF UsesFewer
    <3>2. CASE x # p
      BY <2>2, <3>2, ViewUses
    <3>. QED  BY <3>1, <3>2
  <2>4. b \in U
    BY <1>2, <2>3, UsedBlocksOf DEF UsesInto
  <2>5. ASSUME b \in G PROVE FALSE
    <3>1. PICK l : Uses(image, p, l) /\ BlockAt(image, p, l) = b
      BY <2>5 DEF OwnedBy
    <3>2. x = p
      BY <1>2, <2>3, <3>1 DEF UsesApart
    <3>. QED  BY <2>2, <2>3, <2>5, <3>2 DEF UsesFewer
  <2>. QED  BY <2>4, <2>5
<1>. HIDE DEF U, V
<1>5. IsFiniteSet(U \ G) /\ Cardinality(U \ G) = Cardinality(U) - Cardinality(U \cap G)
  BY <1>1, FS_Difference
<1>6. U \cap G = G /\ IsFiniteSet(G) /\ Cardinality(G) \in Nat
  BY <1>1, <1>3, FS_Subset, FS_CardinalityType
<1>7. Cardinality(V) <= Cardinality(U \ G)
  BY <1>4, <1>5, FS_Subset
<1>. QED  BY <1>1, <1>5, <1>6, <1>7 DEF U, V

\* t is gone from p, and with it the blocks of G.
Dropped(j, p, t, k, G) ==
    /\ IsImage(j) /\ Held(j) /\ \A x \in Inodes \ {p} : SameView(image, j, x)
    /\ OwnedBy(image, p, G) /\ UsesFewer(image, j, p, G)
    /\ EntriesOf(j, p) = RestOf(EntriesOf(image, p), k)
    /\ DataBits(image) \ G \subseteq DataBits(j) /\ InodeBits(image) \ {t} \subseteq InodeBits(j)
    /\ j.available["blocks"] = image.available["blocks"] + Cardinality(G)

\* Such an image is sound.
LEMMA DroppedSound ==
  ASSUME NEW p, NEW t, NEW k, Leaves(p, t, k), NEW j, NEW G, Dropped(j, p, t, k, G)
  PROVE  Sound(j)
<1>. DEFINE es == EntriesOf(image, p)
            n == image.num_dir_entry[p]
            r == RestOf(es, k)
<1>1. Sound(image) /\ p \in Inodes
  BY DEF Leaves
<1>2. /\ UsesApart(image) /\ Room(image) /\ IsImage(image)
      /\ \A x \in Inodes : UsesInto(image, x, DataBits(image)) /\ ListsInto(image, x, InodeBits(image))
  BY <1>1, SoundView
<1>3. Room(j)
  <2>1. /\ Cardinality(UsedBlocks(j)) + Cardinality(G) <= Cardinality(UsedBlocks(image))
        /\ Cardinality(UsedBlocks(j)) \in Nat /\ Cardinality(G) \in Nat
        /\ Cardinality(UsedBlocks(image)) \in Nat
    BY <1>1, FewerUsed DEF Dropped
  <2>2. image.available["blocks"] \in Int
    BY <1>2, ImageTypes
  <2>. QED  BY <1>2, <2>1, <2>2, DimensionsAssumption DEF Room, Dropped
<1>4. \A x \in Inodes \ {p} : UsesInto(image, x, DataBits(j))
  <2>. SUFFICES ASSUME NEW x \in Inodes \ {p}, NEW m, Uses(image, x, m)
                PROVE  BlockAt(image, x, m) \in DataBits(j)
    BY DEF UsesInto
  <2>1. BlockAt(image, x, m) \in DataBits(image)
    BY <1>2 DEF UsesInto
  <2>2. BlockAt(image, x, m) \notin G
    <3>1. \A l : Uses(image, p, l) => BlockAt(image, p, l) # BlockAt(image, x, m)
      BY <1>1, <1>2 DEF UsesApart
    <3>. QED  BY <3>1 DEF OwnedBy, Dropped
  <2>. QED  BY <2>1, <2>2 DEF Dropped
<1>5. /\ Len(r) = n - 1 /\ n \in Nat
      /\ \A l \in 1 .. n - 1 : r[l].ino \in InodeBits(image) \ {t}
      /\ \A l, m \in 1 .. n - 1 : r[l].ino = r[m].ino => l = m
      /\ \A x \in Inodes \ {p} : \A m : Lists(image, x, m) =>
            /\ EntriesOf(image, x)[m].ino # t
            /\ \A l \in 1 .. n - 1 : r[l].ino # EntriesOf(image, x)[m].ino
  <2>1. n \in Nat
    BY <1>1, <1>2, ImageTypes
  <2>. QED  BY <2>1, RestView
<1>6. \A x \in Inodes \ {p} : ListsInto(image, x, InodeBits(j))
  <2>. SUFFICES ASSUME NEW x \in Inodes \ {p}, NEW m, Lists(image, x, m)
                PROVE  EntriesOf(image, x)[m].ino \in InodeBits(j)
    BY DEF ListsInto
  <2>1. EntriesOf(image, x)[m].ino \in InodeBits(image) /\ EntriesOf(image, x)[m].ino # t
    BY <1>2, <1>5 DEF ListsInto
  <2>. QED  BY <2>1 DEF Dropped
<1>7. OwnUses(image, j, p)
  <2>1. UsesInto(j, p, DataBits(j))
    BY <1>1, <1>2 DEF Dropped, UsesFewer, UsesInto
  <2>2. \A m, l : Uses(j, p, m) /\ Uses(j, p, l) /\ BlockAt(j, p, m) = BlockAt(j, p, l) => m = l
    BY <1>1, <1>2 DEF Dropped, UsesFewer, UsesApart
  <2>3. \A x \in Inodes \ {p} : \A m, l :
           Uses(j, p, m) /\ Uses(image, x, l) => BlockAt(j, p, m) # BlockAt(image, x, l)
    BY <1>1, <1>2 DEF Dropped, UsesFewer, UsesApart
  <2>. QED  BY <2>1, <2>2, <2>3 DEF OwnUses
<1>8. EntriesOf(j, p) = r /\ \A l : Lists(j, p, l) <=> l \in 1 .. n - 1
  BY <1>5 DEF Dropped, Lists
<1>. HIDE DEF r, es, n
<1>9. OwnEntries(image, j, p)
  <2>1. ListsInto(j, p, InodeBits(j))
    <3>1. \A l : Lists(j, p, l) => EntriesOf(j, p)[l].ino \in InodeBits(image) \ {t}
      BY <1>5, <1>8
    <3>. QED  BY <3>1 DEF ListsInto, Dropped
  <2>2. \A m, l : Lists(j, p, m) /\ Lists(j, p, l) /\ EntriesOf(j, p)[m].ino = EntriesOf(j, p)[l].ino
                     => m = l
    BY <1>5, <1>8
  <2>3. \A x \in Inodes \ {p} : \A m, l :
           Lists(j, p, m) /\ Lists(image, x, l) => EntriesOf(j, p)[m].ino # EntriesOf(image, x)[l].ino
    BY <1>5, <1>8
  <2>. QED  BY <2>1, <2>2, <2>3 DEF OwnEntries
<1>. QED  BY <1>1, <1>3, <1>4, <1>6, <1>7, <1>9, SoundStep DEF Dropped

\* p is torn at its end, at most.
Kept(img, p)  == {x \in Listed(img) : x[1] # p \/ x[2] < Len(EntriesOf(img, p))}
Torn(img, p) ==
    /\ Once(Kept(img, p)) /\ Within(Kept(img, p), InodeBits(img))
    /\ Within({x \in Used(img) : x[1] # p}, DataBits(img))

\* The entries of p but the last are whole in img.
WholeBelow(img, p) ==
    LET fs == EntriesOf(img, p)
    IN  \A l \in 1 .. Len(fs) - 1 :
          /\ fs[l].ino \in InodeBits(img)
          /\ \A m \in 1 .. Len(fs) - 1 : fs[l].ino = fs[m].ino => l = m
          /\ \A x \in Inodes \ {p} : \A m : Lists(image, x, m) => EntriesOf(image, x)[m].ino # fs[l].ino

\* An image is torn at the end of p at most if all but that is whole.
LEMMA TornFrom ==
  ASSUME Sound(image), NEW p \in Inodes, NEW img, IsImage(img), Held(img),
         \A x \in Inodes \ {p} : /\ SameView(image, img, x)
                                 /\ ListsInto(image, x, InodeBits(img))
                                 /\ UsesInto(image, x, DataBits(img)),
         EntriesOf(img, p) \in Seq(Entry), WholeBelow(img, p)
  PROVE  Torn(img, p)
<1>. DEFINE fs == EntriesOf(img, p)
            K == Kept(img, p)
            listed(y) == \E d \in Inodes : \E k :
                            /\ Lists(img, d, k) /\ y = <<d, k, EntriesOf(img, d)[k].ino>>
                            /\ d = p => k \in 1 .. Len(fs) - 1
<1>1. \A d \in Inodes : EntriesOf(img, d) \in Seq(Entry)
  BY SoundView DEF SameView
<1>2. Len(fs) \in Nat
  BY LenProperties
<1>3. \A y \in K : listed(y)
  <2>. SUFFICES ASSUME NEW y \in K PROVE listed(y)
    OBVIOUS
  <2>0. PICK d \in Inodes : \E k \in 1 .. Len(EntriesOf(img, d)) :
               Lists(img, d, k) /\ y = <<d, k, EntriesOf(img, d)[k].ino>>
    BY <1>1, ListedView DEF Kept
  <2>1. PICK k \in 1 .. Len(EntriesOf(img, d)) :
               Lists(img, d, k) /\ y = <<d, k, EntriesOf(img, d)[k].ino>>
    BY <2>0
  <2>2. y[1] = d /\ y[2] = k
    BY <2>1
  <2>3. d = p => k < Len(fs)
    BY <2>2 DEF Kept
  <2>4. d = p => k \in 1 .. Len(fs) - 1
    <3>1. d = p => k \in 1 .. Len(fs)
      BY DEF fs
    <3>. HIDE DEF fs
    <3>. QED  BY <1>2, <2>3, <3>1
  <2>. HIDE DEF fs, K
  <2>. QED  BY <2>1, <2>4
<1>4. \A x \in Inodes \ {p} : EntriesOf(img, x) = EntriesOf(image, x)
                              /\ \A k : Lists(img, x, k) <=> Lists(image, x, k)
  BY ViewUses DEF SameView
<1>5. \A l \in 1 .. Len(fs) - 1 :
          /\ fs[l].ino \in InodeBits(img)
          /\ \A m \in 1 .. Len(fs) - 1 : fs[l].ino = fs[m].ino => l = m
          /\ \A x \in Inodes \ {p} : \A m : Lists(image, x, m) => EntriesOf(image, x)[m].ino # fs[l].ino
  BY DEF WholeBelow
<1>. HIDE DEF K
<1>6. Once(K)
  <2>. SUFFICES ASSUME NEW y \in K, NEW z \in K, y[3] = z[3] PROVE y = z
    BY DEF Once
  <2>1. PICK d \in Inodes : \E k : /\ Lists(img, d, k) /\ y = <<d, k, EntriesOf(img, d)[k].ino>>
                                   /\ d = p => k \in 1 .. Len(fs) - 1
    BY <1>3
  <2>2. PICK k : /\ Lists(img, d, k) /\ y = <<d, k, EntriesOf(img, d)[k].ino>>
                 /\ d = p => k \in 1 .. Len(fs) - 1
    BY <2>1
  <2>3. PICK e \in Inodes : \E l : /\ Lists(img, e, l) /\ z = <<e, l, EntriesOf(img, e)[l].ino>>
                                   /\ e = p => l \in 1 .. Len(fs) - 1
    BY <1>3
  <2>4. PICK l : /\ Lists(img, e, l) /\ z = <<e, l, EntriesOf(img, e)[l].ino>>
                 /\ e = p => l \in 1 .. Len(fs) - 1
    BY <2>3
  <2>5. EntriesOf(img, d)[k].ino = EntriesOf(img, e)[l].ino
    BY <2>2, <2>4
  <2>6. d = e /\ k = l
    <3>1. CASE d = p /\ e = p
      BY <1>5, <2>2, <2>4, <2>5, <3>1
    <3>2. CASE d = p /\ e # p
      BY <1>4, <1>5, <2>2, <2>4, <2>5, <3>2
    <3>3. CASE d # p /\ e = p
      BY <1>4, <1>5, <2>2, <2>4, <2>5, <3>3
    <3>4. CASE d # p /\ e # p
      <4>1. Lists(image, d, k) /\ Lists(image, e, l)
            /\ EntriesOf(image, d)[k].ino = EntriesOf(image, e)[l].ino
        BY <1>4, <2>2, <2>4, <2>5, <3>4
      <4>. QED  BY <4>1, SoundView DEF ListsApart
    <3>. QED  BY <3>1, <3>2, <3>3, <3>4
  <2>. QED  BY <2>2, <2>4, <2>6
<1>7. Within(K, InodeBits(img))
  <2>. SUFFICES ASSUME NEW y \in K PROVE y[3] \in InodeBits(img)
    BY DEF Within
  <2>1. PICK d \in Inodes : \E k : /\ Lists(img, d, k) /\ y = <<d, k, EntriesOf(img, d)[k].ino>>
                                   /\ d = p => k \in 1 .. Len(fs) - 1
    BY <1>3
  <2>2. PICK k : /\ Lists(img, d, k) /\ y = <<d, k, EntriesOf(img, d)[k].ino>>
                 /\ d = p => k \in 1 .. Len(fs) - 1
    BY <2>1
  <2>3. y[3] = EntriesOf(img, d)[k].ino
    BY <2>2
  <2>4. CASE d = p
    BY <1>5, <2>2, <2>3, <2>4
  <2>5. CASE d # p
    <3>1. Lists(image, d, k) /\ EntriesOf(img, d)[k].ino = EntriesOf(image, d)[k].ino
      BY <1>4, <2>2, <2>5
    <3>2. ListsInto(image, d, InodeBits(img))
      BY <2>5
    <3>. QED  BY <2>3, <3>1, <3>2 DEF ListsInto
  <2>. QED  BY <2>4, <2>5
<1>8. Within({x \in Used(img) : x[1] # p}, DataBits(img))
  <2>. SUFFICES ASSUME NEW y \in Used(img), y[1] # p PROVE y[3] \in DataBits(img)
    BY DEF Within
  <2>0. PICK i \in Inodes : \E k \in 0 .. Len(BlocksOf(img, i)) :
                Uses(img, i, k) /\ y = <<i, k + 1, BlockAt(img, i, k)>>
    BY UsedView
  <2>1. PICK k \in 0 .. Len(BlocksOf(img, i)) :
                Uses(img, i, k) /\ y = <<i, k + 1, BlockAt(img, i, k)>>
    BY <2>0
  <2>2. y[1] = i /\ y[3] = BlockAt(img, i, k)
    BY <2>1
  <2>3. i # p
    BY <2>2
  <2>4. SameView(image, img, i) /\ UsesInto(image, i, DataBits(img))
    BY <2>3
  <2>5. Uses(image, i, k) /\ BlockAt(img, i, k) = BlockAt(image, i, k)
    BY <2>1, <2>4, ViewUses
  <2>. QED  BY <2>2, <2>4, <2>5 DEF UsesInto
<1>. QED  BY <1>6, <1>7, <1>8 DEF Torn, K

\* Sound images are torn nowhere.
LEMMA WholeIsTorn ==
  ASSUME NEW p, NEW t, NEW k, Leaves(p, t, k), NEW img, IsImage(img), Held(img),
         \A x \in Inodes : SameView(image, img, x),
         DataBits(image) \subseteq DataBits(img), InodeBits(image) \subseteq InodeBits(img)
  PROVE  Torn(img, p)
<1>1. Sound(image) /\ p \in Inodes
  BY DEF Leaves
<1>2. /\ ListsApart(image) /\ \A x \in Inodes : UsesInto(image, x, DataBits(image))
                                               /\ ListsInto(image, x, InodeBits(image))
      /\ EntriesOf(image, p) \in Seq(Entry)
  BY <1>1, SoundView
<1>3. EntriesOf(img, p) = EntriesOf(image, p)
  BY <1>1 DEF SameView
<1>. DEFINE fs == EntriesOf(image, p)
<1>4. \A l \in 1 .. Len(fs) - 1 : Lists(image, p, l)
  <2>1. Len(fs) \in Nat
    BY <1>2, LenProperties
  <2>. QED  BY <2>1 DEF Lists
<1>5. WholeBelow(img, p)
  <2>1. \A l \in 1 .. Len(fs) - 1 : fs[l].ino \in InodeBits(img)
    BY <1>1, <1>2, <1>4 DEF ListsInto
  <2>2. \A l, m \in 1 .. Len(fs) - 1 : fs[l].ino = fs[m].ino => l = m
    BY <1>1, <1>2, <1>4 DEF ListsApart
  <2>3. \A l \in 1 .. Len(fs) - 1 : \A x \in Inodes \ {p} : \A m :
           Lists(image, x, m) => EntriesOf(image, x)[m].ino # fs[l].ino
    BY <1>1, <1>2, <1>4 DEF ListsApart
  <2>. QED  BY <1>3, <2>1, <2>2, <2>3 DEF WholeBelow
<1>6. \A x \in Inodes : ListsInto(image, x, InodeBits(img)) /\ UsesInto(image, x, DataBits(img))
  BY <1>2 DEF ListsInto, UsesInto
<1>. QED  BY <1>1, <1>2, <1>3, <1>5, <1>6, TornFrom

\* The last entry was moved to the place of t's.
LEMMA MovedIsTorn ==
  ASSUME NEW p, NEW t, NEW k, Leaves(p, t, k), NEW img, IsImage(img), Held(img),
         \A x \in Inodes \ {p} : SameView(image, img, x) /\ UsesInto(image, x, DataBits(img)),
         InodeBits(image) \ {t} \subseteq InodeBits(img),
         EntriesOf(img, p) \in {MovedTo(EntriesOf(image, p), k), RestOf(EntriesOf(image, p), k)}
  PROVE  Torn(img, p)
<1>1. Sound(image) /\ p \in Inodes
  BY DEF Leaves
<1>. DEFINE es == EntriesOf(image, p)
            n == image.num_dir_entry[p]
            r == RestOf(es, k)
            fs == EntriesOf(img, p)
<1>2. /\ r \in Seq(Entry) /\ Len(r) = n - 1 /\ n \in Nat
      /\ MovedTo(es, k) \in Seq(Entry) /\ Len(MovedTo(es, k)) = n
      /\ \A l \in 1 .. n - 1 : r[l] = MovedTo(es, k)[l] /\ r[l].ino \in InodeBits(image) \ {t}
      /\ \A l, m \in 1 .. n - 1 : r[l].ino = r[m].ino => l = m
      /\ \A x \in Inodes \ {p} : \A m : Lists(image, x, m) =>
            /\ EntriesOf(image, x)[m].ino # t
            /\ \A l \in 1 .. n - 1 : r[l].ino # EntriesOf(image, x)[m].ino
  <2>1. n \in Nat
    BY <1>1, SoundView, ImageTypes
  <2>. QED  BY <2>1, RestView
<1>3. fs \in {MovedTo(es, k), r}
  OBVIOUS
<1>. HIDE DEF es, n, r, fs
<1>4. fs \in Seq(Entry) /\ Len(fs) \in {n - 1, n}
  BY <1>2, <1>3
<1>5. \A l \in 1 .. Len(fs) - 1 : l \in 1 .. n - 1 /\ fs[l] = r[l]
  <2>1. \A l \in 1 .. Len(fs) - 1 : l \in 1 .. n - 1
    BY <1>2, <1>4
  <2>. QED  BY <1>2, <1>3, <2>1
<1>6. WholeBelow(img, p)
  <2>1. \A l \in 1 .. Len(fs) - 1 : fs[l].ino \in InodeBits(img)
    BY <1>2, <1>5
  <2>2. \A l, m \in 1 .. Len(fs) - 1 : fs[l].ino = fs[m].ino => l = m
    BY <1>2, <1>5
  <2>3. \A l \in 1 .. Len(fs) - 1 : \A x \in Inodes \ {p} : \A m :
           Lists(image, x, m) => EntriesOf(image, x)[m].ino # fs[l].ino
    <3>. SUFFICES ASSUME NEW l \in 1 .. Len(fs) - 1, NEW x \in Inodes \ {p}, NEW m, Lists(image, x, m)
                  PROVE  EntriesOf(image, x)[m].ino # fs[l].ino
      OBVIOUS
    <3>1. l \in 1 .. n - 1 /\ fs[l] = r[l]
      BY <1>5
    <3>2. \A h \in 1 .. n - 1 : r[h].ino # EntriesOf(image, x)[m].ino
      BY <1>2
    <3>. QED  BY <3>1, <3>2
  <2>. QED  BY <2>1, <2>2, <2>3 DEF WholeBelow, fs
<1>7. \A x \in Inodes \ {p} : ListsInto(image, x, InodeBits(img))
  <2>1. \A x \in Inodes : ListsInto(image, x, InodeBits(image))
    BY <1>1, SoundView
  <2>. QED  BY <1>2, <2>1 DEF ListsInto
<1>. QED  BY <1>1, <1>4, <1>6, <1>7, TornFrom DEF fs

-----------------------------------------------------------------------------
(* What the stores of a removal leave of the blocks of the directory. *)

\* The store that ends a removal counts an entry less, a block less in the last
\* extent, an extent less, or no extent.
LessCounted(j, p) ==
    /\ image.num_dir_entry[p] # 1 /\ image.num_dir_entry[p] % D # 1
    /\ j.num_dir_entry[p] = image.num_dir_entry[p] - 1
    /\ KeepsExtents(image, j, p)
LessInExtent(j, p) ==
    LET ib == image.indirect_pt[p]
        e  == image.extent_num[p]
    IN  /\ image.num_dir_entry[p] # 1 /\ image.num_dir_entry[p] % D = 1
        /\ j.extent_num[p] = e /\ j.indirect_pt[p] = ib
        /\ \A l \in 0 .. e - 1 : j.start[<<ib, l>>] = image.start[<<ib, l>>]
        /\ \A l \in 0 .. e - 2 : j.count[<<ib, l>>] = image.count[<<ib, l>>]
        /\ image.count[<<ib, e - 1>>] = j.count[<<ib, e - 1>>] + 1 /\ j.count[<<ib, e - 1>>] > 0
LessExtents(j, p) ==
    LET ib == image.indirect_pt[p]
        e  == image.extent_num[p]
    IN  /\ image.num_dir_entry[p] # 1 /\ image.num_dir_entry[p] % D = 1
        /\ j.extent_num[p] = e - 1 /\ j.indirect_pt[p] = ib
        /\ \A l \in 0 .. e - 2 : /\ j.start[<<ib, l>>] = image.start[<<ib, l>>]
                                 /\ j.count[<<ib, l>>] = image.count[<<ib, l>>]
        /\ image.count[<<ib, e - 1>>] = 1
NoExtents(j, p) == image.num_dir_entry[p] = 1 /\ j.extent_num[p] = 0
Ended(j, p)     == LessCounted(j, p) \/ LessInExtent(j, p) \/ LessExtents(j, p) \/ NoExtents(j, p)

\* What is left of a sequence without its last element.
LEMMA FewerIs ==
  ASSUME NEW F \in Seq(Int), NEW x, NEW bs, bs = Append(F, x)
  PROVE  Fewer(bs) = F
<1>. DEFINE n == Len(F)
<1>1. n \in Nat /\ Len(bs) = n + 1 /\ \A l \in 1 .. n : bs[l] = F[l]
  OBVIOUS
<1>2. F = [l \in 1 .. n |-> F[l]]
  OBVIOUS
<1>. HIDE DEF n
<1>3. Fewer(bs) = [l \in 1 .. n |-> bs[l]]
  BY <1>1 DEF Fewer
<1>. QED  BY <1>1, <1>2, <1>3

\* The blocks of p are those of image but the last, or none.
LEMMA EndedBlocks ==
  ASSUME Sound(image), NEW p \in Inodes, image.extent_num[p] > 0, NEW j, IsImage(j)
  PROVE  /\ LessCounted(j, p) => BlocksOf(j, p) = BlocksOf(image, p)
         /\ LessInExtent(j, p) \/ LessExtents(j, p) => BlocksOf(j, p) = Fewer(BlocksOf(image, p))
<1>. DEFINE ib == image.indirect_pt[p]
            e  == image.extent_num[p]
<1>1. /\ IsImage(image) /\ ib \in Blocks /\ e \in 1 .. MaxExtents /\ MaxExtents \in Nat
  <2>1. IsImage(image) /\ Held(image)
    BY SoundView
  <2>2. e \in 0 .. MaxExtents /\ ib \in Blocks
    BY <2>1, ImageTypes DEF Held
  <2>. QED  BY <2>1, <2>2, DimensionsAssumption
<1>2. BlocksOf(image, p) = FirstBlocks(image, ib, e)
  BY BlocksAreFirstBlocks
<1>3. \A c \in 0 .. MaxExtents : FirstBlocks(j, ib, c) \in Seq(Int)
  <2>. SUFFICES ASSUME NEW c \in 0 .. MaxExtents PROVE FirstBlocks(j, ib, c) \in Seq(Int)
    OBVIOUS
  <2>1. CASE c = 0
    <3>1. c + 1 \in 1 .. MaxExtents /\ c \in Nat
      BY <1>1, <2>1, DimensionsAssumption
    <3>2. Numbers(j, ib, c + 1)
      BY <1>1, <3>1, ExtentNumbers
    <3>. QED  BY <3>1, <3>2, BlocksGrow
  <2>2. CASE c # 0
    <3>1. c \in 1 .. MaxExtents
      BY <2>2
    <3>. QED  BY <1>1, <3>1, LastExtent DEF GrowsBy
  <2>. QED  BY <2>1, <2>2
<1>4. ASSUME LessCounted(j, p) PROVE BlocksOf(j, p) = BlocksOf(image, p)
  BY <1>1, <1>4, KeptBlocks DEF LessCounted
<1>5. ASSUME LessInExtent(j, p) PROVE BlocksOf(j, p) = Fewer(BlocksOf(image, p))
  <2>1. /\ j.extent_num[p] = e /\ j.indirect_pt[p] = ib
        /\ \A l \in 0 .. e - 1 : j.start[<<ib, l>>] = image.start[<<ib, l>>]
        /\ \A l \in 0 .. e - 2 : j.count[<<ib, l>>] = image.count[<<ib, l>>]
        /\ image.count[<<ib, e - 1>>] = j.count[<<ib, e - 1>>] + 1
    BY <1>5 DEF LessInExtent
  <2>2. BlocksOf(j, p) = FirstBlocks(j, ib, e)
    BY <2>1, BlocksAreFirstBlocks
  <2>. HIDE DEF ib, e
  <2>3. \A l \in 0 .. e - 2 : /\ image.start[<<ib, l>>] = j.start[<<ib, l>>]
                              /\ image.count[<<ib, l>>] = j.count[<<ib, l>>]
    <3>1. \A l \in 0 .. e - 2 : l \in 0 .. e - 1
      BY <1>1
    <3>. QED  BY <2>1, <3>1
  <2>4. image.start[<<ib, e - 1>>] = j.start[<<ib, e - 1>>]
    <3>1. e - 1 \in 0 .. e - 1
      BY <1>1
    <3>. QED  BY <2>1, <3>1
  <2>5. FirstBlocks(image, ib, e) =
           Append(FirstBlocks(j, ib, e), j.start[<<ib, e - 1>>] + j.count[<<ib, e - 1>>])
    BY <1>1, <2>1, <2>3, <2>4, LastExtentGrows
  <2>6. FirstBlocks(j, ib, e) \in Seq(Int)
    BY <1>1, <1>3
  <2>7. BlocksOf(image, p) =
           Append(FirstBlocks(j, ib, e), j.start[<<ib, e - 1>>] + j.count[<<ib, e - 1>>])
    BY <1>2, <2>5
  <2>8. Fewer(BlocksOf(image, p)) = FirstBlocks(j, ib, e)
    BY <2>6, <2>7, FewerIs
  <2>. QED  BY <2>2, <2>8
<1>6. ASSUME LessExtents(j, p) PROVE BlocksOf(j, p) = Fewer(BlocksOf(image, p))
  <2>. DEFINE c == e - 1
  <2>1. /\ j.extent_num[p] = c /\ j.indirect_pt[p] = ib
        /\ \A l \in 0 .. e - 2 : /\ j.start[<<ib, l>>] = image.start[<<ib, l>>]
                                 /\ j.count[<<ib, l>>] = image.count[<<ib, l>>]
        /\ image.count[<<ib, e - 1>>] = 1
    BY <1>6 DEF LessExtents
  <2>2. BlocksOf(j, p) = FirstBlocks(j, ib, c)
    BY <2>1, BlocksAreFirstBlocks
  <2>. HIDE DEF ib, e
  <2>3. c \in 0 .. MaxExtents - 1 /\ c + 1 = e /\ c - 1 = e - 2 /\ c \in 0 .. MaxExtents
    BY <1>1
  <2>4. image.count[<<ib, c>>] = 1
    BY <2>1
  <2>. HIDE DEF c
  <2>5. \A l \in 0 .. c - 1 : /\ image.start[<<ib, l>>] = j.start[<<ib, l>>]
                              /\ image.count[<<ib, l>>] = j.count[<<ib, l>>]
    BY <2>1, <2>3
  <2>6. FirstBlocks(image, ib, c + 1) = Append(FirstBlocks(j, ib, c), image.start[<<ib, c>>])
    BY <1>1, <2>3, <2>4, <2>5, ExtentOfOne
  <2>7. FirstBlocks(j, ib, c) \in Seq(Int)
    BY <1>3, <2>3
  <2>. QED  BY <1>2, <2>2, <2>3, <2>6, <2>7, FewerIs
<1>. QED  BY <1>4, <1>5, <1>6

\* j is image but for p, whose counts may be one less, and for the bit of t.
Framed(j, p, t) ==
    /\ IsImage(j)
    /\ \A x \in Inodes \ {p} : Keeps(image, j, x) /\ j.size[x] = image.size[x]
    /\ InodeBits(image) \ {t} \subseteq InodeBits(j)
    /\ j.num_dir_entry[p] \in {image.num_dir_entry[p] - 1, image.num_dir_entry[p]}
    /\ j.size[p] \in {image.num_dir_entry[p] - 1, image.num_dir_entry[p]}

\* Before the store that ends the removal.
Begun(j, p) ==
    /\ KeepsExtents(image, j, p)
    /\ j.num_dir_entry[p] = image.num_dir_entry[p] /\ j.size[p] = image.num_dir_entry[p]

\* What p has in a Held image.
HeldOf(j, d) ==
    j.extent_num[d] > 0 =>
        /\ j.inodeBit[d] /\ j.size[d] > 0 /\ j.num_dir_entry[d] > 0
        /\ j.indirect_pt[d] \in Blocks
        /\ \A l \in 0 .. j.extent_num[d] - 1 : j.count[<<j.indirect_pt[d], l>>] > 0

\* Inodes with extents stay held throughout a removal.
LEMMA HeldAfter ==
  ASSUME NEW p, NEW t, NEW k, Leaves(p, t, k), NEW j, Framed(j, p, t),
         Begun(j, p) \/ Ended(j, p)
  PROVE  Held(j)
<1>1. LeavesFrom(p, t, k, image.num_dir_entry[p], EntriesOf(image, p), BlocksOf(image, p))
  BY LeavesView
<1>. DEFINE n  == image.num_dir_entry[p]
            ib == image.indirect_pt[p]
            e  == image.extent_num[p]
<1>2. /\ Sound(image) /\ IsImage(image) /\ Held(image) /\ p \in Inodes /\ n \in Nat /\ n > 0
      /\ e > 0 /\ e \in 0 .. MaxExtents /\ MaxExtents \in Nat /\ ib \in Blocks
      /\ t # p /\ p \in InodeBits(image) /\ image.extent_num[t] = 0
      /\ \A l \in 0 .. e - 1 : image.count[<<ib, l>>] > 0
  <2>1. /\ Sound(image) /\ IsImage(image) /\ Held(image) /\ p \in Inodes /\ n \in Nat /\ k \in 1 .. n
        /\ e > 0 /\ t # p /\ image.inodeBit[p] /\ image.extent_num[t] = 0
    BY <1>1 DEF LeavesFrom, Leaves
  <2>2. e \in 0 .. MaxExtents
    BY <2>1, ImageTypes
  <2>3. ib \in Blocks /\ \A l \in 0 .. e - 1 : image.count[<<ib, l>>] > 0
    BY <2>1 DEF Held
  <2>4. n > 0 /\ p \in InodeBits(image)
    BY <2>1 DEF InodeBits
  <2>. QED  BY <2>1, <2>2, <2>3, <2>4, DimensionsAssumption
<1>3. IsImage(j) /\ j.num_dir_entry[p] \in {n - 1, n} /\ j.size[p] \in {n - 1, n}
  BY DEF Framed
<1>4. ASSUME NEW x \in Inodes \ {p} PROVE HeldOf(j, x)
  <2>1. Keeps(image, j, x) /\ j.size[x] = image.size[x]
    BY DEF Framed
  <2>. SUFFICES ASSUME j.extent_num[x] > 0
                PROVE  /\ j.inodeBit[x] /\ j.size[x] > 0 /\ j.num_dir_entry[x] > 0
                       /\ j.indirect_pt[x] \in Blocks
                       /\ \A l \in 0 .. j.extent_num[x] - 1 : j.count[<<j.indirect_pt[x], l>>] > 0
    BY DEF HeldOf
  <2>2. image.extent_num[x] > 0 /\ KeepsExtents(image, j, x)
    BY <2>1 DEF Keeps, KeepsExtents
  <2>3. /\ image.inodeBit[x] /\ image.size[x] > 0 /\ image.num_dir_entry[x] > 0
        /\ image.indirect_pt[x] \in Blocks
        /\ \A l \in 0 .. image.extent_num[x] - 1 : image.count[<<image.indirect_pt[x], l>>] > 0
    BY <1>2, <2>2 DEF Held
  <2>4. x # t /\ x \in InodeBits(image)
    BY <1>2, <2>2, <2>3 DEF InodeBits
  <2>5. j.inodeBit[x]
    BY <2>4 DEF Framed, InodeBits
  <2>6. j.num_dir_entry[x] = image.num_dir_entry[x]
    BY <2>1, <2>2 DEF Keeps
  <2>7. j.indirect_pt[x] = image.indirect_pt[x] /\ j.extent_num[x] = image.extent_num[x]
        /\ \A l \in 0 .. image.extent_num[x] - 1 :
              j.count[<<image.indirect_pt[x], l>>] = image.count[<<image.indirect_pt[x], l>>]
    BY <2>2 DEF KeepsExtents
  <2>. QED  BY <2>1, <2>3, <2>5, <2>6, <2>7
<1>5. j.inodeBit[p]
  BY <1>2 DEF Framed, InodeBits
<1>6. n # 1 => j.size[p] > 0 /\ j.num_dir_entry[p] > 0
  BY <1>2, <1>3
<1>7. HeldOf(j, p)
  <2>1. CASE Begun(j, p) \/ LessCounted(j, p)
    <3>1. KeepsExtents(image, j, p)
      BY <2>1 DEF Begun, LessCounted
    <3>2. j.size[p] > 0 /\ j.num_dir_entry[p] > 0
      <4>1. CASE Begun(j, p)
        BY <1>2, <4>1 DEF Begun
      <4>2. CASE LessCounted(j, p)
        BY <1>6, <4>2 DEF LessCounted
      <4>. QED  BY <2>1, <4>1, <4>2
    <3>3. /\ j.extent_num[p] = e /\ j.indirect_pt[p] = ib
          /\ \A l \in 0 .. e - 1 : j.count[<<ib, l>>] = image.count[<<ib, l>>]
      BY <1>2, <3>1 DEF KeepsExtents
    <3>. QED  BY <1>2, <1>5, <3>2, <3>3 DEF HeldOf
  <2>2. CASE LessInExtent(j, p)
    <3>1. /\ n # 1 /\ j.extent_num[p] = e /\ j.indirect_pt[p] = ib
          /\ \A l \in 0 .. e - 2 : j.count[<<ib, l>>] = image.count[<<ib, l>>]
          /\ j.count[<<ib, e - 1>>] > 0
      BY <2>2 DEF LessInExtent
    <3>. HIDE DEF n, ib, e
    <3>2. \A l \in 0 .. e - 1 : j.count[<<ib, l>>] > 0
      <4>. SUFFICES ASSUME NEW l \in 0 .. e - 1 PROVE j.count[<<ib, l>>] > 0
        OBVIOUS
      <4>1. l = e - 1 \/ l \in 0 .. e - 2
        BY <1>2
      <4>. QED  BY <1>2, <3>1, <4>1
    <3>. QED  BY <1>2, <1>5, <1>6, <3>1, <3>2 DEF HeldOf
  <2>3. CASE LessExtents(j, p)
    <3>1. /\ n # 1 /\ j.extent_num[p] = e - 1 /\ j.indirect_pt[p] = ib
          /\ \A l \in 0 .. e - 2 : j.count[<<ib, l>>] = image.count[<<ib, l>>]
      BY <2>3 DEF LessExtents
    <3>. HIDE DEF n, ib, e
    <3>2. \A l \in 0 .. (e - 1) - 1 : j.count[<<ib, l>>] > 0
      <4>. SUFFICES ASSUME NEW l \in 0 .. (e - 1) - 1 PROVE j.count[<<ib, l>>] > 0
        OBVIOUS
      <4>1. l \in 0 .. e - 2 /\ l \in 0 .. e - 1
        BY <1>2
      <4>. QED  BY <1>2, <3>1, <4>1
    <3>. QED  BY <1>2, <1>5, <1>6, <3>1, <3>2 DEF HeldOf
  <2>4. CASE NoExtents(j, p)
    BY <2>4 DEF NoExtents, HeldOf
  <2>. QED  BY <2>1, <2>2, <2>3, <2>4 DEF Ended
<1>8. \A x \in Inodes : HeldOf(j, x)
  BY <1>4, <1>7
<1>. QED  BY <1>8 DEF HeldOf, Held

\* The blocks a removal gives back.
Given(p) ==
    LET lb == BlocksOf(image, p)[Len(BlocksOf(image, p))]
        n  == image.num_dir_entry[p]
    IN  IF n = 1 THEN {lb, image.indirect_pt[p]} ELSE IF n % D = 1 THEN {lb} ELSE {}

\* The blocks given back are two of the directory's, and nobody else's.
LEMMA GivenView ==
  ASSUME NEW p, NEW t, NEW k, Leaves(p, t, k),
         NEW lb, lb = BlocksOf(image, p)[Len(BlocksOf(image, p))],
         NEW ib, ib = image.indirect_pt[p]
  PROVE  /\ OwnedBy(image, p, Given(p)) /\ lb # ib
         /\ lb \in DataBits(image) /\ ib \in DataBits(image)
         /\ \A x \in Inodes \ {p} : \A b \in Given(p) : \A m : Uses(image, x, m) => BlockAt(image, x, m) # b
<1>. DEFINE bs == BlocksOf(image, p)
            q  == Len(bs)
<1>1. /\ Sound(image) /\ p \in Inodes /\ image.extent_num[p] > 0 /\ q \in Nat /\ q > 0
  BY LeavesView DEF LeavesFrom, Leaves
<1>2. Uses(image, p, 0) /\ Uses(image, p, q)
  BY <1>1 DEF Uses
<1>3. BlockAt(image, p, 0) = ib /\ BlockAt(image, p, q) = lb
  <2>1. q # 0
    BY <1>1
  <2>. QED  BY <2>1 DEF BlockAt
<1>4. UsesApart(image) /\ UsesInto(image, p, DataBits(image))
  BY <1>1, SoundView
<1>5. lb # ib
  <2>1. lb = ib => 0 = q
    BY <1>1, <1>2, <1>3, <1>4 DEF UsesApart
  <2>. QED  BY <1>1, <2>1
<1>6. lb \in DataBits(image) /\ ib \in DataBits(image)
  BY <1>2, <1>3, <1>4 DEF UsesInto
<1>7. \A b \in Given(p) : b = lb \/ b = ib
  BY DEF Given
<1>8. OwnedBy(image, p, Given(p))
  <2>. SUFFICES ASSUME NEW b \in Given(p) PROVE \E m : Uses(image, p, m) /\ BlockAt(image, p, m) = b
    BY DEF OwnedBy
  <2>. QED  BY <1>2, <1>3, <1>7
<1>9. ASSUME NEW x \in Inodes \ {p}, NEW b \in Given(p), NEW m, Uses(image, x, m)
      PROVE  BlockAt(image, x, m) # b
  <2>1. PICK l : Uses(image, p, l) /\ BlockAt(image, p, l) = b
    BY <1>8 DEF OwnedBy
  <2>. QED  BY <1>1, <1>4, <1>9, <2>1 DEF UsesApart
<1>. QED  BY <1>5, <1>6, <1>8, <1>9

\* What p uses after the stores of a removal.
LEMMA UsesAfter ==
  ASSUME NEW p, NEW t, NEW k, Leaves(p, t, k), NEW j, IsImage(j)
  PROVE  /\ Begun(j, p) => UsesFewer(image, j, p, {})
         /\ Ended(j, p) => UsesFewer(image, j, p, Given(p)) /\ UsesFewer(image, j, p, {})
<1>. DEFINE bs == BlocksOf(image, p)
            ib == image.indirect_pt[p]
            q  == Len(bs)
            lb == bs[q]
<1>1. /\ Sound(image) /\ IsImage(image) /\ p \in Inodes /\ image.extent_num[p] > 0
      /\ q \in Nat /\ q > 0 /\ bs \in Seq(Blocks)
  BY LeavesView DEF LeavesFrom, Leaves
<1>2. ASSUME KeepsExtents(image, j, p) PROVE UsesFewer(image, j, p, {})
  <2>1. BlocksOf(j, p) = bs
    BY <1>1, <1>2, KeptBlocks
  <2>2. j.indirect_pt[p] = ib /\ j.extent_num[p] = image.extent_num[p]
    BY <1>1, <1>2 DEF KeepsExtents
  <2>. QED  BY <2>1, <2>2 DEF UsesFewer, Uses, BlockAt
<1>3. LessCounted(j, p) => Given(p) = {}
  BY DEF LessCounted, Given
<1>4. ASSUME LessInExtent(j, p) \/ LessExtents(j, p) PROVE UsesFewer(image, j, p, Given(p))
  <2>1. BlocksOf(j, p) = Fewer(bs)
    BY <1>1, <1>4, EndedBlocks
  <2>2. /\ Len(Fewer(bs)) = q - 1 /\ \A l \in 1 .. q - 1 : Fewer(bs)[l] = bs[l]
    BY <1>1, FewerView
  <2>3. j.indirect_pt[p] = ib /\ Given(p) = {lb}
    BY <1>4 DEF LessInExtent, LessExtents, Given
  <2>4. \A m : Uses(j, p, m) => m \in 0 .. q - 1
    BY <2>1, <2>2 DEF Uses
  <2>. SUFFICES ASSUME NEW m, Uses(j, p, m)
                PROVE  /\ Uses(image, p, m) /\ BlockAt(j, p, m) = BlockAt(image, p, m)
                       /\ BlockAt(image, p, m) \notin Given(p)
    BY DEF UsesFewer
  <2>5. m \in 0 .. q - 1 /\ m \in 0 .. q /\ m # q /\ q \in 0 .. q
    BY <1>1, <2>4
  <2>6. Uses(image, p, m) /\ Uses(image, p, q)
    BY <1>1, <2>5 DEF Uses
  <2>7. BlockAt(j, p, m) = BlockAt(image, p, m)
    <3>1. m = 0 \/ m \in 1 .. q - 1
      BY <2>5
    <3>. QED  BY <2>1, <2>2, <2>3, <3>1 DEF BlockAt
  <2>8. BlockAt(image, p, q) = lb
    <3>1. q # 0
      BY <1>1
    <3>. QED  BY <3>1 DEF BlockAt
  <2>9. BlockAt(image, p, m) # lb
    <3>1. UsesApart(image)
      BY <1>1, SoundView
    <3>. QED  BY <1>1, <2>5, <2>6, <2>8, <3>1 DEF UsesApart
  <2>. QED  BY <2>3, <2>6, <2>7, <2>9
<1>5. ASSUME NoExtents(j, p) PROVE UsesFewer(image, j, p, Given(p))
  BY <1>5 DEF NoExtents, UsesFewer, Uses
<1>6. UsesFewer(image, j, p, Given(p)) => UsesFewer(image, j, p, {})
  BY DEF UsesFewer
<1>7. Begun(j, p) => UsesFewer(image, j, p, {})
  BY <1>2 DEF Begun
<1>8. LessCounted(j, p) => UsesFewer(image, j, p, Given(p))
  BY <1>2, <1>3 DEF LessCounted
<1>. QED  BY <1>4, <1>5, <1>6, <1>7, <1>8 DEF Ended

\* The last entry of p was stored in the place of the k-th.
Placed(j, p, k) ==
    \A l \in 1 .. image.num_dir_entry[p] :
       j.dentry[Slot(BlocksOf(image, p), l)] = MovedTo(EntriesOf(image, p), k)[l]

\* An image that a removal goes through once the last entry was moved.
Left(j, p, t, k) ==
    /\ Leaves(p, t, k) /\ Framed(j, p, t) /\ Placed(j, p, k)
    /\ DataBits(image) \ Given(p) \subseteq DataBits(j)
    /\ Begun(j, p) \/ Ended(j, p)

\* It shows all of the entries, or all but the last.
LEMMA EntriesAfter ==
  ASSUME NEW p, NEW t, NEW k, NEW j, Left(j, p, t, k)
  PROVE  /\ Begun(j, p) => EntriesOf(j, p) = MovedTo(EntriesOf(image, p), k)
         /\ Ended(j, p) => EntriesOf(j, p) = RestOf(EntriesOf(image, p), k)
<1>. DEFINE n  == image.num_dir_entry[p]
            es == EntriesOf(image, p)
            bs == BlocksOf(image, p)
<1>1. /\ Leaves(p, t, k) /\ Framed(j, p, t) /\ IsImage(j) /\ (Begun(j, p) \/ Ended(j, p))
      /\ j.num_dir_entry[p] \in {n - 1, n}
      /\ \A l \in 1 .. n : j.dentry[Slot(bs, l)] = MovedTo(es, k)[l]
  BY DEF Left, Framed, Placed
<1>2. /\ Sound(image) /\ p \in Inodes /\ image.extent_num[p] > 0
  BY <1>1, LeavesView DEF LeavesFrom, Leaves
<1>3. Held(j)
  BY <1>1, HeldAfter
<1>4. UsesInto(j, p, Blocks)
  <2>1. UsesFewer(image, j, p, {})
    BY <1>1, UsesAfter
  <2>2. UsesInto(image, p, Blocks)
    BY <1>2, SoundView
  <2>. QED  BY <2>1, <2>2 DEF UsesInto, UsesFewer
<1>5. /\ BlocksOf(j, p) = bs /\ j.num_dir_entry[p] = n => EntriesOf(j, p) = MovedTo(es, k)
      /\ BlocksOf(j, p) = bs /\ j.num_dir_entry[p] = n - 1 => EntriesOf(j, p) = RestOf(es, k)
      /\ n # 1 /\ n % D = 1 /\ BlocksOf(j, p) = Fewer(bs) => EntriesOf(j, p) = RestOf(es, k)
      /\ n = 1 /\ j.extent_num[p] = 0 => EntriesOf(j, p) = RestOf(es, k)
  <2>1. es = EntriesOf(image, p) /\ n = image.num_dir_entry[p] /\ bs = BlocksOf(image, p)
    OBVIOUS
  <2>. HIDE DEF n, es, bs
  <2>. QED  BY <1>1, <1>3, <1>4, <2>1, RestShown
<1>6. ASSUME Begun(j, p) PROVE EntriesOf(j, p) = MovedTo(es, k)
  <2>1. IsImage(image)
    BY <1>2, SoundView
  <2>2. BlocksOf(j, p) = bs
    BY <1>1, <1>2, <1>6, <2>1, KeptBlocks DEF Begun
  <2>. QED  BY <1>5, <1>6, <2>2 DEF Begun
<1>7. ASSUME Ended(j, p) PROVE EntriesOf(j, p) = RestOf(es, k)
  <2>1. CASE LessCounted(j, p)
    <3>1. BlocksOf(j, p) = bs
      BY <1>1, <1>2, <2>1, EndedBlocks
    <3>. QED  BY <1>5, <2>1, <3>1 DEF LessCounted
  <2>2. CASE LessInExtent(j, p) \/ LessExtents(j, p)
    <3>1. BlocksOf(j, p) = Fewer(bs)
      BY <1>1, <1>2, <2>2, EndedBlocks
    <3>2. n # 1 /\ n % D = 1
      BY <2>2 DEF LessInExtent, LessExtents
    <3>. QED  BY <1>5, <3>1, <3>2
  <2>3. CASE NoExtents(j, p)
    BY <1>5, <2>3 DEF NoExtents
  <2>. QED  BY <1>7, <2>1, <2>2, <2>3 DEF Ended
<1>. QED  BY <1>6, <1>7

\* The other directories are as they were, with their blocks.
LEMMA OthersAfter ==
  ASSUME NEW p, NEW t, NEW k, NEW j, Left(j, p, t, k)
  PROVE  \A x \in Inodes \ {p} : SameView(image, j, x) /\ UsesInto(image, x, DataBits(j))
<1>1. Leaves(p, t, k) /\ Framed(j, p, t) /\ IsImage(j)
  BY DEF Left, Framed
<1>2. Sound(image) /\ IsImage(image) /\ Held(image)
  BY <1>1, SoundView DEF Leaves
<1>. SUFFICES ASSUME NEW x \in Inodes \ {p}
              PROVE  SameView(image, j, x) /\ UsesInto(image, x, DataBits(j))
  OBVIOUS
<1>3. UsesInto(image, x, Blocks) /\ UsesInto(image, x, DataBits(image))
  BY <1>2, SoundView
<1>4. SameView(image, j, x)
  <2>1. Keeps(image, j, x)
    BY <1>1 DEF Framed
  <2>. QED  BY <1>1, <1>2, <1>3, <2>1, KeptView
<1>5. UsesInto(image, x, DataBits(j))
  <2>. SUFFICES ASSUME NEW m, Uses(image, x, m) PROVE BlockAt(image, x, m) \in DataBits(j)
    BY DEF UsesInto
  <2>1. BlockAt(image, x, m) \in DataBits(image)
    BY <1>3 DEF UsesInto
  <2>2. BlockAt(image, x, m) \notin Given(p)
    BY <1>1, GivenView
  <2>. QED  BY <2>1, <2>2 DEF Left
<1>. QED  BY <1>4, <1>5

\* It is torn at the end of p at most.
LEMMA TornAfter ==
  ASSUME NEW p, NEW t, NEW k, NEW j, Left(j, p, t, k)
  PROVE  Torn(j, p)
<1>1. Leaves(p, t, k) /\ Framed(j, p, t) /\ IsImage(j) /\ InodeBits(image) \ {t} \subseteq InodeBits(j)
      /\ (Begun(j, p) \/ Ended(j, p))
  BY DEF Left, Framed
<1>2. Held(j)
  BY <1>1, HeldAfter
<1>3. EntriesOf(j, p) \in {MovedTo(EntriesOf(image, p), k), RestOf(EntriesOf(image, p), k)}
  BY <1>1, EntriesAfter
<1>4. \A x \in Inodes \ {p} : SameView(image, j, x) /\ UsesInto(image, x, DataBits(j))
  BY OthersAfter
<1>. QED  BY <1>1, <1>2, <1>3, <1>4, MovedIsTorn

\* At the end of the removal it is sound again.
LEMMA SoundAfter ==
  ASSUME NEW p, NEW t, NEW k, NEW j, Left(j, p, t, k), Ended(j, p),
         j.available["blocks"] = image.available["blocks"] + Cardinality(Given(p))
  PROVE  Sound(j)
<1>1. /\ Leaves(p, t, k) /\ Framed(j, p, t) /\ IsImage(j) /\ InodeBits(image) \ {t} \subseteq InodeBits(j)
      /\ DataBits(image) \ Given(p) \subseteq DataBits(j)
  BY DEF Left, Framed
<1>2. Held(j)
  BY <1>1, HeldAfter
<1>3. EntriesOf(j, p) = RestOf(EntriesOf(image, p), k)
  BY EntriesAfter
<1>4. \A x \in Inodes \ {p} : SameView(image, j, x)
  BY OthersAfter
<1>5. OwnedBy(image, p, Given(p))
  BY <1>1, GivenView
<1>6. UsesFewer(image, j, p, Given(p))
  BY <1>1, UsesAfter
<1>7. Dropped(j, p, t, k, Given(p))
  BY <1>1, <1>2, <1>3, <1>4, <1>5, <1>6 DEF Dropped
<1>. QED  BY <1>1, <1>7, DroppedSound

\* The same entries in every directory, in any order, are the same listing.
LEMMA ListingIs ==
  ASSUME NEW i, NEW j, \A x \in Inodes : ToSet(EntriesOf(i, x)) = ToSet(EntriesOf(j, x))
  PROVE  Listing(i) = Listing(j)
BY DEF Listing

\* What lookups find before the end of the removal, and after it.
LEMMA ListingAfter ==
  ASSUME NEW p, NEW t, NEW k, NEW i, NEW j, Left(i, p, t, k), Left(j, p, t, k),
         (Begun(i, p) /\ Begun(j, p)) \/ (Ended(i, p) /\ Ended(j, p))
  PROVE  Listing(i) = Listing(j)
<1>1. EntriesOf(i, p) = EntriesOf(j, p)
  BY EntriesAfter
<1>2. \A x \in Inodes \ {p} : EntriesOf(i, x) = EntriesOf(image, x) /\ EntriesOf(j, x) = EntriesOf(image, x)
  BY OthersAfter DEF SameView
<1>3. \A x \in Inodes : EntriesOf(i, x) = EntriesOf(j, x)
  BY <1>1, <1>2
<1>. QED  BY <1>3, ListingIs

\* Moving another entry over t's makes all of the change visible.
LEMMA ListingMoved ==
  ASSUME NEW p, NEW t, NEW k, NEW i, NEW j, Left(i, p, t, k), Left(j, p, t, k),
         k # image.num_dir_entry[p]
  PROVE  Listing(i) = Listing(j)
<1>. DEFINE es == EntriesOf(image, p)
            n  == image.num_dir_entry[p]
<1>1. Leaves(p, t, k)
  BY DEF Left
<1>2. k < n
  <2>1. k \in 1 .. n /\ n \in Nat
    BY <1>1, LeavesView DEF LeavesFrom
  <2>. QED  BY <2>1
<1>3. ToSet(MovedTo(es, k)) = ToSet(RestOf(es, k))
  BY <1>1, <1>2, RestView
<1>4. EntriesOf(i, p) \in {MovedTo(es, k), RestOf(es, k)} /\ EntriesOf(j, p) \in {MovedTo(es, k), RestOf(es, k)}
  BY EntriesAfter DEF Left
<1>. HIDE DEF es
<1>5. ToSet(EntriesOf(i, p)) = ToSet(EntriesOf(j, p))
  BY <1>3, <1>4
<1>6. \A x \in Inodes \ {p} : EntriesOf(i, x) = EntriesOf(image, x) /\ EntriesOf(j, x) = EntriesOf(image, x)
  BY OthersAfter DEF SameView
<1>7. \A x \in Inodes : ToSet(EntriesOf(i, x)) = ToSet(EntriesOf(j, x))
  BY <1>5, <1>6
<1>. QED  BY <1>7, ListingIs

-----------------------------------------------------------------------------
(* The stores of a removal. *)

\* s stores v at the place x of the field f alone.
Sets(s, f, x, v) == DOMAIN s = {f} /\ s[f] = <<x, v>>

\* The store that ends a removal, g blocks having been given back.
Ends(s, p, g) ==
    LET n  == image.num_dir_entry[p]
        ib == image.indirect_pt[p]
        e  == image.extent_num[p]
        c  == image.count[<<ib, e - 1>>]
    IN  \/ n # 1 /\ n % D # 1 /\ g = 0 /\ Sets(s, "num_dir_entry", p, n - 1)
        \/ n # 1 /\ n % D = 1 /\ g = 1 /\ c > 1 /\ Sets(s, "count", <<ib, e - 1>>, c - 1)
        \/ n # 1 /\ n % D = 1 /\ g = 1 /\ c = 1 /\ Sets(s, "extent_num", p, e - 1)
        \/ n = 1 /\ g = 2 /\ Sets(s, "extent_num", p, 0)

\* The list S moves the last entry by M stores, gives back the inode t and g blocks,
\* and ends the removal by its c-th store.
Shape(S, p, t, k, M, c, g) ==
    LET n  == image.num_dir_entry[p]
        bs == BlocksOf(image, p)
    IN  /\ Leaves(p, t, k) /\ WellTyped(S) /\ Len(S) \in Nat
        /\ M \in 0 .. 1 /\ g \in 0 .. 2 /\ c \in Nat /\ M + 2 + 2 * g < c /\ c <= Len(S)
        /\ M = 0 <=> k = n
        /\ M = 1 => Sets(S[1], "dentry", Slot(bs, k), EntriesOf(image, p)[n])
        /\ Sets(S[M + 1], "inodeBit", t, FALSE)
        /\ Sets(S[M + 2], "available", "inodes", AvailableInodes + 1)
        /\ g > 0 => /\ Sets(S[M + 3], "dataBit", bs[Len(bs)], FALSE)
                    /\ Sets(S[M + 4], "available", "blocks", AvailableBlocks + 1)
        /\ g > 1 => /\ Sets(S[M + 5], "dataBit", image.indirect_pt[p], FALSE)
                    /\ Sets(S[M + 6], "available", "blocks", AvailableBlocks + 2)
        /\ \A j \in M + 2 + 2 * g + 1 .. c - 1 : DOMAIN S[j] = {"links"}
        /\ Ends(S[c], p, g)
        /\ \A j \in c + 1 .. Len(S) : \/ DOMAIN S[j] = {"links"}
                                      \/ Sets(S[j], "size", p, n - 1)
                                      \/ Sets(S[j], "num_dir_entry", p, n - 1)

\* What its j-th store is.
Sorted(S, p, t, k, M, c, g, j) ==
    LET n == image.num_dir_entry[p]
    IN  \/ /\ j = 1 /\ M = 1
           /\ Sets(S[j], "dentry", Slot(BlocksOf(image, p), k), EntriesOf(image, p)[n])
        \/ j > M /\ j < c /\ Sets(S[j], "inodeBit", t, FALSE)
        \/ j > M /\ j < c /\ \E b \in Given(p) : Sets(S[j], "dataBit", b, FALSE)
        \/ j > M /\ j < c /\ DOMAIN S[j] = {"available"}
        \/ j > M /\ j # c /\ DOMAIN S[j] = {"links"}
        \/ j > M /\ j = c /\ Ends(S[j], p, g)
        \/ j > c /\ Sets(S[j], "size", p, n - 1)
        \/ j > c /\ Sets(S[j], "num_dir_entry", p, n - 1)

\* Every store of a removal is of one of those kinds.
LEMMA StoresSorted ==
  ASSUME NEW S, NEW p, NEW t, NEW k, NEW M, NEW c, NEW g, Shape(S, p, t, k, M, c, g),
         NEW j \in 1 .. Len(S)
  PROVE  Sorted(S, p, t, k, M, c, g, j)
<1>. DEFINE n  == image.num_dir_entry[p]
            bs == BlocksOf(image, p)
            lb == bs[Len(bs)]
            ib == image.indirect_pt[p]
<1>1. /\ Len(S) \in Nat /\ M \in 0 .. 1 /\ g \in 0 .. 2 /\ c \in Nat /\ M + 2 + 2 * g < c
      /\ c <= Len(S)
  BY DEF Shape
<1>2. g > 0 => lb \in Given(p)
  BY <1>1 DEF Shape, Ends, Given
<1>3. g > 1 => ib \in Given(p)
  BY <1>1 DEF Shape, Ends, Given
<1>4. \/ j <= M \/ j = M + 1 \/ j = M + 2
      \/ (g > 0 /\ (j = M + 3 \/ j = M + 4)) \/ (g > 1 /\ (j = M + 5 \/ j = M + 6))
      \/ j \in M + 2 + 2 * g + 1 .. c - 1 \/ j = c \/ j \in c + 1 .. Len(S)
  BY <1>1
<1>5. CASE j <= M
  <2>1. j = 1 /\ M = 1
    BY <1>1, <1>5
  <2>. QED  BY <2>1 DEF Shape, Sorted
<1>6. CASE j = M + 1
  <2>1. j > M /\ j < c
    BY <1>1, <1>6
  <2>. QED  BY <1>6, <2>1 DEF Shape, Sorted
<1>7. CASE j = M + 2
  <2>1. j > M /\ j < c
    BY <1>1, <1>7
  <2>. QED  BY <1>7, <2>1 DEF Shape, Sorted, Sets
<1>8. CASE g > 0 /\ (j = M + 3 \/ j = M + 4)
  <2>1. j > M /\ j < c
    BY <1>1, <1>8
  <2>. QED  BY <1>2, <1>8, <2>1 DEF Shape, Sorted, Sets
<1>9. CASE g > 1 /\ (j = M + 5 \/ j = M + 6)
  <2>1. j > M /\ j < c
    BY <1>1, <1>9
  <2>. QED  BY <1>3, <1>9, <2>1 DEF Shape, Sorted, Sets
<1>10. CASE j \in M + 2 + 2 * g + 1 .. c - 1
  <2>1. j > M /\ j # c
    BY <1>1, <1>10
  <2>. QED  BY <1>10, <2>1 DEF Shape, Sorted
<1>11. CASE j = c
  <2>1. j > M
    BY <1>1, <1>11
  <2>. QED  BY <1>11, <2>1 DEF Shape, Sorted
<1>12. CASE j \in c + 1 .. Len(S)
  <2>1. j > M /\ j > c /\ j # c
    BY <1>1, <1>12
  <2>. QED  BY <1>12, <2>1 DEF Shape, Sorted
<1>. QED  BY <1>4, <1>5, <1>6, <1>7, <1>8, <1>9, <1>10, <1>11, <1>12

\* What it does not store into.
Spares(S, p, t, k, M, c, j) ==
    LET n == image.num_dir_entry[p]
    IN  /\ "start" \notin DOMAIN S[j] /\ "indirect_pt" \notin DOMAIN S[j]
        /\ j # c => "extent_num" \notin DOMAIN S[j] /\ "count" \notin DOMAIN S[j]
        /\ j < c => "num_dir_entry" \notin DOMAIN S[j] /\ "size" \notin DOMAIN S[j]
        /\ j > M => "dentry" \notin DOMAIN S[j]
        /\ "dentry" \in DOMAIN S[j] => S[j]["dentry"][1] = Slot(BlocksOf(image, p), k)
        /\ "inodeBit" \in DOMAIN S[j] => S[j]["inodeBit"][1] = t
        /\ "dataBit" \in DOMAIN S[j] => S[j]["dataBit"][1] \in Given(p)
        /\ "extent_num" \in DOMAIN S[j] => S[j]["extent_num"][1] = p
        /\ "num_dir_entry" \in DOMAIN S[j] => S[j]["num_dir_entry"] = <<p, n - 1>>
        /\ "size" \in DOMAIN S[j] => S[j]["size"] = <<p, n - 1>>
        /\ "count" \in DOMAIN S[j] =>
              S[j]["count"][1] = <<image.indirect_pt[p], image.extent_num[p] - 1>>

\* No store of a removal writes anything else.
LEMMA StoresSpare ==
  ASSUME NEW S, NEW p, NEW t, NEW k, NEW M, NEW c, NEW g, Shape(S, p, t, k, M, c, g),
         NEW j \in 1 .. Len(S)
  PROVE  Spares(S, p, t, k, M, c, j)
<1>. DEFINE n  == image.num_dir_entry[p]
            s  == S[j]
            y  == Slot(BlocksOf(image, p), k)
            z  == EntriesOf(image, p)[n]
<1>1. Sorted(S, p, t, k, M, c, g, j)
  BY StoresSorted
<1>2. /\ M \in 0 .. 1 /\ c \in Nat /\ M < c /\ Len(S) \in Nat /\ j \in Nat
  <2>1. /\ M \in 0 .. 1 /\ g \in 0 .. 2 /\ c \in Nat /\ M + 2 + 2 * g < c /\ Len(S) \in Nat
    BY DEF Shape
  <2>. QED  BY <2>1
<1>3. CASE j = 1 /\ M = 1 /\ Sets(s, "dentry", y, z)
  <2>1. DOMAIN s = {"dentry"} /\ s["dentry"][1] = y
    BY <1>3 DEF Sets
  <2>2. ~(j > M)
    BY <1>2, <1>3
  <2>. QED  BY <2>1, <2>2 DEF Spares
<1>4. CASE j > M /\ j < c /\ Sets(s, "inodeBit", t, FALSE)
  <2>1. DOMAIN s = {"inodeBit"} /\ s["inodeBit"][1] = t
    BY <1>4 DEF Sets
  <2>. QED  BY <2>1 DEF Spares
<1>5. CASE j > M /\ j < c /\ \E b \in Given(p) : Sets(s, "dataBit", b, FALSE)
  <2>1. DOMAIN s = {"dataBit"} /\ s["dataBit"][1] \in Given(p)
    BY <1>5 DEF Sets
  <2>. QED  BY <2>1 DEF Spares
<1>6. CASE j > M /\ (DOMAIN s = {"available"} \/ DOMAIN s = {"links"})
  BY <1>6 DEF Spares
<1>7. CASE j > M /\ j = c /\ Ends(s, p, g)
  <2>1. ~(j < c)
    BY <1>2, <1>7
  <2>2. \/ Sets(s, "num_dir_entry", p, n - 1)
        \/ \E v : Sets(s, "count", <<image.indirect_pt[p], image.extent_num[p] - 1>>, v)
        \/ \E v : Sets(s, "extent_num", p, v)
    BY <1>7 DEF Ends
  <2>3. CASE Sets(s, "num_dir_entry", p, n - 1)
    BY <1>7, <2>1, <2>3 DEF Spares, Sets
  <2>4. CASE \E v : Sets(s, "count", <<image.indirect_pt[p], image.extent_num[p] - 1>>, v)
    <3>1. DOMAIN s = {"count"} /\ s["count"][1] = <<image.indirect_pt[p], image.extent_num[p] - 1>>
      BY <2>4 DEF Sets
    <3>. QED  BY <1>7, <2>1, <3>1 DEF Spares
  <2>5. CASE \E v : Sets(s, "extent_num", p, v)
    <3>1. DOMAIN s = {"extent_num"} /\ s["extent_num"][1] = p
      BY <2>5 DEF Sets
    <3>. QED  BY <1>7, <2>1, <3>1 DEF Spares
  <2>. QED  BY <2>2, <2>3, <2>4, <2>5
<1>8. CASE j > c /\ (Sets(s, "size", p, n - 1) \/ Sets(s, "num_dir_entry", p, n - 1))
  <2>1. ~(j < c) /\ j # c
    BY <1>2, <1>8
  <2>. QED  BY <1>8, <2>1 DEF Spares, Sets
<1>. QED  BY <1>1, <1>3, <1>4, <1>5, <1>6, <1>7, <1>8 DEF Sorted

\* The run of a removal.
Run(A, S, p, t, k, M, c, g) == Shape(S, p, t, k, M, c, g) /\ Traced(A, image, S)

\* Its images, and what it starts from.
LEMMA RunView ==
  ASSUME NEW A, NEW S, NEW p, NEW t, NEW k, NEW M, NEW c, NEW g, Run(A, S, p, t, k, M, c, g)
  PROVE  /\ Sound(image) /\ p \in Inodes /\ image.inodeBit[p] /\ IsImage(image) /\ Held(image)
         /\ A[0] = image /\ Len(S) \in Nat /\ \A i \in 0 .. Len(S) : IsImage(A[i])
         /\ M \in Nat /\ M \in 0 .. 1 /\ c \in Nat /\ M < c /\ c <= Len(S) /\ 0 \in 0 .. Len(S)
         /\ M + 2 + 2 * g < c /\ g \in 0 .. 2
         /\ \A j \in 1 .. Len(S) : Spares(S, p, t, k, M, c, j) /\ Sorted(S, p, t, k, M, c, g, j)
         /\ LeavesFrom(p, t, k, image.num_dir_entry[p], EntriesOf(image, p), BlocksOf(image, p))
<1>1. Shape(S, p, t, k, M, c, g) /\ Traced(A, image, S)
  BY DEF Run
<1>2. Leaves(p, t, k) /\ Len(S) \in Nat
  BY <1>1 DEF Shape
<1>3. Sound(image) /\ p \in Inodes /\ image.inodeBit[p]
  BY <1>2 DEF Leaves
<1>4. IsImage(image) /\ Held(image)
  BY <1>3, SoundView
<1>5. A[0] = image /\ \A i \in 0 .. Len(S) : IsImage(A[i])
  BY <1>1, <1>2, TraceSteps DEF Traced
<1>6. /\ M \in 0 .. 1 /\ g \in 0 .. 2 /\ c \in Nat /\ M + 2 + 2 * g < c /\ c <= Len(S)
  BY <1>1 DEF Shape
<1>7. M \in Nat /\ M < c /\ 0 \in 0 .. Len(S)
  BY <1>2, <1>6
<1>8. \A j \in 1 .. Len(S) : Spares(S, p, t, k, M, c, j) /\ Sorted(S, p, t, k, M, c, g, j)
  BY <1>1, StoresSpare, StoresSorted
<1>9. LeavesFrom(p, t, k, image.num_dir_entry[p], EntriesOf(image, p), BlocksOf(image, p))
  BY <1>2, LeavesView
<1>. QED  BY <1>2, <1>3, <1>4, <1>5, <1>6, <1>7, <1>8, <1>9

\* Its stores leave what the other directories show.
LEMMA OthersQuiet ==
  ASSUME NEW A, NEW S, NEW p, NEW t, NEW k, NEW M, NEW c, NEW g, Run(A, S, p, t, k, M, c, g),
         NEW j \in 1 .. Len(S), NEW x \in Inodes \ {p}
  PROVE  QuietFor(image, S[j], x)
<1>. DEFINE bs == BlocksOf(image, p)
            ib == image.indirect_pt[p]
            s  == S[j]
            n  == image.num_dir_entry[p]
<1>1. /\ Sound(image) /\ p \in Inodes /\ Spares(S, p, t, k, M, c, j)
      /\ LeavesFrom(p, t, k, n, EntriesOf(image, p), bs)
  BY RunView
<1>2. UsesApart(image)
  BY <1>1, SoundView
<1>3. ~Writes(s, "extent_num", x)
  BY <1>1 DEF Spares, Writes
<1>4. ~Writes(s, "indirect_pt", x) /\ ~Writes(s, "num_dir_entry", x)
  BY <1>1 DEF Spares, Writes
<1>5. ASSUME image.extent_num[x] > 0, NEW l \in 0 .. image.extent_num[x] - 1
      PROVE  /\ ~Writes(s, "start", <<image.indirect_pt[x], l>>)
             /\ ~Writes(s, "count", <<image.indirect_pt[x], l>>)
  <2>1. ~Writes(s, "start", <<image.indirect_pt[x], l>>)
    BY <1>1 DEF Spares, Writes
  <2>2. ib # image.indirect_pt[x]
    <3>1. Uses(image, p, 0) /\ Uses(image, x, 0)
      <4>1. image.extent_num[p] > 0 /\ Len(bs) \in Nat
        BY <1>1 DEF LeavesFrom
      <4>2. BlocksOf(image, x) \in Seq(Blocks)
        BY <1>1, SoundView
      <4>3. Len(BlocksOf(image, x)) \in Nat
        BY <4>2, LenProperties
      <4>. QED  BY <1>5, <4>1, <4>3 DEF Uses
    <3>2. BlockAt(image, p, 0) = ib /\ BlockAt(image, x, 0) = image.indirect_pt[x]
      BY DEF BlockAt
    <3>. QED  BY <1>1, <1>2, <3>1, <3>2 DEF UsesApart
  <2>3. ~Writes(s, "count", <<image.indirect_pt[x], l>>)
    BY <1>1, <2>2 DEF Spares, Writes
  <2>. QED  BY <2>1, <2>3
<1>6. ASSUME NEW l, Lists(image, x, l)
      PROVE  ~Writes(s, "dentry", Slot(BlocksOf(image, x), l))
  <2>. SUFFICES ASSUME Writes(s, "dentry", Slot(BlocksOf(image, x), l)) PROVE FALSE
    OBVIOUS
  <2>1. Slot(bs, k) = Slot(BlocksOf(image, x), l)
    BY <1>1 DEF Spares, Writes
  <2>2. k \in 1 .. D * Len(bs)
    BY <1>1 DEF LeavesFrom
  <2>3. l \in 1 .. D * Len(BlocksOf(image, x))
    BY <1>1, <1>6, ListsWhere
  <2>4. x \in Inodes /\ x # p
    OBVIOUS
  <2>. QED  BY <1>1, <2>1, <2>2, <2>3, <2>4, SlotOnce
<1>. QED  BY <1>3, <1>4, <1>5, <1>6 DEF QuietFor

\* A place of a field that no store of the run writes.
LEMMA RunPlace ==
  ASSUME NEW A, NEW S, NEW p, NEW t, NEW k, NEW M, NEW c, NEW g, Run(A, S, p, t, k, M, c, g),
         NEW f \in Fields, NEW x \in FieldDomain[f],
         \A j \in 1 .. Len(S) : f \in DOMAIN S[j] => S[j][f][1] # x
  PROVE  \A i \in 0 .. Len(S) : A[i][f][x] = image[f][x]
<1>. SUFFICES ASSUME NEW i \in 0 .. Len(S) PROVE A[i][f][x] = image[f][x]
  OBVIOUS
<1>1. /\ A[0] = image /\ Len(S) \in Nat /\ \A h \in 0 .. Len(S) : IsImage(A[h]) /\ 0 \in 0 .. Len(S)
  BY RunView
<1>2. \A j \in 0 + 1 .. i : ~Writes(S[j], f, x)
  <2>1. \A j \in 0 + 1 .. i : j \in 1 .. Len(S)
    BY <1>1
  <2>. QED  BY <2>1 DEF Writes
<1>3. IsTrace(A, image, S)
  BY DEF Run, Traced
<1>4. A[i][f][x] = A[0][f][x]
  <2>1. i \in 0 .. Len(S) /\ 0 \in 0 .. Len(S)
    BY <1>1
  <2>. QED  BY <1>1, <1>2, <1>3, <2>1, PlaceKept
<1>. QED  BY <1>1, <1>4

\* A place of p's counts: what it held, or one less.
LEMMA RunCounts ==
  ASSUME NEW A, NEW S, NEW p, NEW t, NEW k, NEW M, NEW c, NEW g, Run(A, S, p, t, k, M, c, g),
         NEW f \in {"num_dir_entry", "size"}
  PROVE  \A i \in 0 .. Len(S) :
            A[i][f][p] \in {image.num_dir_entry[p] - 1, image.num_dir_entry[p]}
<1>. DEFINE n == image.num_dir_entry[p]
            T == {n - 1, n}
<1>1. /\ p \in Inodes /\ A[0] = image /\ Len(S) \in Nat
      /\ \A j \in 1 .. Len(S) : Spares(S, p, t, k, M, c, j)
      /\ image.size[p] = n
  BY RunView DEF LeavesFrom
<1>2. Traced(A, image, S)
  BY DEF Run
<1>3. f \in Fields /\ p \in FieldDomain[f]
  BY <1>1, FieldNames DEF FieldDomain
<1>4. A[0][f][p] \in T
  BY <1>1
<1>5. \A j \in 0 + 1 .. Len(S) : Writes(S[j], f, p) => S[j][f][2] \in T
  BY <1>1 DEF Spares, Writes
<1>6. 0 \in 0 .. Len(S) /\ Len(S) \in 0 .. Len(S)
  BY <1>1
<1>. HIDE DEF n, T
<1>7. \A i \in 0 .. Len(S) : A[i][f][p] \in T
  BY <1>2, <1>3, <1>4, <1>5, <1>6, PlaceWithin
<1>. QED  BY <1>7 DEF n, T

\* All but the directory and t stays as it was.
LEMMA RunFramed ==
  ASSUME NEW A, NEW S, NEW p, NEW t, NEW k, NEW M, NEW c, NEW g, Run(A, S, p, t, k, M, c, g),
         NEW i \in 0 .. Len(S)
  PROVE  Framed(A[i], p, t) /\ DataBits(image) \ Given(p) \subseteq DataBits(A[i])
<1>1. /\ p \in Inodes /\ A[0] = image /\ Len(S) \in Nat /\ Sound(image) /\ Held(image)
      /\ IsImage(A[i]) /\ \A j \in 1 .. Len(S) : Spares(S, p, t, k, M, c, j)
      /\ 0 \in 0 .. Len(S)
  BY RunView
<1>2. ASSUME NEW x \in Inodes \ {p} PROVE Keeps(image, A[i], x) /\ A[i].size[x] = image.size[x]
  <2>1. \A j \in 0 + 1 .. Len(S) : QuietFor(A[0], S[j], x)
    BY <1>1, OthersQuiet
  <2>2. UsesInto(A[0], x, Blocks) /\ Held(A[0])
    BY <1>1, SoundView
  <2>3. Traced(A, image, S) /\ Len(S) \in 0 .. Len(S)
    BY <1>1 DEF Run
  <2>4. \A h \in 0 .. Len(S) : Keeps(A[0], A[h], x)
    BY <1>1, <2>1, <2>2, <2>3, KeepsRun
  <2>5. "size" \in Fields /\ x \in FieldDomain["size"]
    BY FieldNames DEF FieldDomain
  <2>6. \A j \in 1 .. Len(S) : "size" \in DOMAIN S[j] => S[j]["size"][1] # x
    BY <1>1 DEF Spares
  <2>7. \A h \in 0 .. Len(S) : A[h]["size"][x] = image["size"][x]
    BY <2>5, <2>6, RunPlace
  <2>. QED  BY <1>1, <2>4, <2>7
<1>3. ASSUME NEW y \in InodeBits(image) \ {t} PROVE y \in InodeBits(A[i])
  <2>1. y \in Inodes /\ image.inodeBit[y] /\ y # t
    BY DEF InodeBits
  <2>2. "inodeBit" \in Fields /\ y \in FieldDomain["inodeBit"]
    BY <2>1, FieldNames DEF FieldDomain
  <2>3. \A j \in 1 .. Len(S) : "inodeBit" \in DOMAIN S[j] => S[j]["inodeBit"][1] # y
    BY <1>1, <2>1 DEF Spares
  <2>4. \A h \in 0 .. Len(S) : A[h]["inodeBit"][y] = image["inodeBit"][y]
    BY <2>2, <2>3, RunPlace
  <2>. QED  BY <2>1, <2>4 DEF InodeBits
<1>4. ASSUME NEW y \in DataBits(image) \ Given(p) PROVE y \in DataBits(A[i])
  <2>1. y \in Blocks /\ image.dataBit[y] /\ y \notin Given(p)
    BY DEF DataBits
  <2>2. "dataBit" \in Fields /\ y \in FieldDomain["dataBit"]
    BY <2>1, FieldNames DEF FieldDomain
  <2>3. \A j \in 1 .. Len(S) : "dataBit" \in DOMAIN S[j] => S[j]["dataBit"][1] # y
    BY <1>1, <2>1 DEF Spares
  <2>4. \A h \in 0 .. Len(S) : A[h]["dataBit"][y] = image["dataBit"][y]
    BY <2>2, <2>3, RunPlace
  <2>. QED  BY <2>1, <2>4 DEF DataBits
<1>5. /\ A[i].num_dir_entry[p] \in {image.num_dir_entry[p] - 1, image.num_dir_entry[p]}
      /\ A[i].size[p] \in {image.num_dir_entry[p] - 1, image.num_dir_entry[p]}
  BY RunCounts
<1>. QED  BY <1>1, <1>2, <1>3, <1>4, <1>5 DEF Framed

\* Once the last entry was moved, the entries of p are in place.
LEMMA RunPlaced ==
  ASSUME NEW A, NEW S, NEW p, NEW t, NEW k, NEW M, NEW c, NEW g, Run(A, S, p, t, k, M, c, g),
         NEW i \in M .. Len(S)
  PROVE  Placed(A[i], p, k)
<1>. DEFINE n  == image.num_dir_entry[p]
            bs == BlocksOf(image, p)
            es == EntriesOf(image, p)
<1>1. /\ p \in Inodes /\ A[0] = image /\ Len(S) \in Nat /\ Sound(image)
      /\ \A j \in 1 .. Len(S) : Spares(S, p, t, k, M, c, j)
      /\ M \in 0 .. 1 /\ i \in 0 .. Len(S)
  BY RunView
<1>2. /\ n \in Nat /\ k \in 1 .. n /\ Len(es) = n
      /\ \A l \in 1 .. n : es[l] = image.dentry[Slot(bs, l)] /\ Slot(bs, l) \in Blocks \X Slots
                           /\ l \in 1 .. D * Len(bs)
  BY RunView DEF LeavesFrom
<1>3. Traced(A, image, S) /\ Shape(S, p, t, k, M, c, g)
  BY DEF Run
<1>. SUFFICES ASSUME NEW l \in 1 .. n PROVE A[i].dentry[Slot(bs, l)] = MovedTo(es, k)[l]
  BY DEF Placed
<1>4. MovedTo(es, k)[l] = IF l = k THEN es[n] ELSE es[l]
  BY <1>2 DEF MovedTo
<1>5. "dentry" \in Fields /\ Slot(bs, l) \in FieldDomain["dentry"]
  BY <1>2, FieldNames DEF FieldDomain
<1>6. CASE l # k
  <2>1. Slot(bs, k) # Slot(bs, l)
    BY <1>1, <1>2, <1>6, SlotOnce
  <2>2. \A j \in 1 .. Len(S) : "dentry" \in DOMAIN S[j] => S[j]["dentry"][1] # Slot(bs, l)
    BY <1>1, <2>1 DEF Spares
  <2>. DEFINE y == Slot(bs, l)
  <2>3. y \in FieldDomain["dentry"] /\ "dentry" \in Fields
        /\ \A j \in 1 .. Len(S) : "dentry" \in DOMAIN S[j] => S[j]["dentry"][1] # y
    BY <1>5, <2>2
  <2>. HIDE DEF y
  <2>4. \A h \in 0 .. Len(S) : A[h]["dentry"][y] = image["dentry"][y]
    BY <2>3, RunPlace
  <2>. QED  BY <1>1, <1>2, <1>4, <1>6, <2>4 DEF y
<1>7. CASE l = k /\ M = 1
  <2>. DEFINE y == Slot(bs, k)
  <2>1. Sets(S[1], "dentry", y, es[n])
    BY <1>3, <1>7 DEF Shape
  <2>2. y \in FieldDomain["dentry"] /\ "dentry" \in Fields
    BY <1>5, <1>7
  <2>. HIDE DEF y
  <2>3. Writes(S[1], "dentry", y) /\ S[1]["dentry"][2] = es[n]
    BY <2>1 DEF Sets, Writes
  <2>4. 1 \in 1 .. Len(S) /\ i \in 1 .. Len(S)
    BY <1>1, <1>7
  <2>5. \A j \in 1 + 1 .. i : Writes(S[j], "dentry", y) => S[j]["dentry"][2] = es[n]
    <3>1. \A j \in 1 + 1 .. i : j \in 1 .. Len(S) /\ j > M
      BY <1>1, <1>7
    <3>. QED  BY <1>1, <3>1 DEF Spares, Writes
  <2>6. \A h \in 1 .. i : A[h]["dentry"][y] = es[n]
    <3>. DEFINE v == es[n]
    <3>1. Traced(A, image, S)
      BY <1>3
    <3>2. S[1]["dentry"][2] = v /\ \A j \in 1 + 1 .. i : Writes(S[j], "dentry", y) => S[j]["dentry"][2] = v
      BY <2>3, <2>5
    <3>. HIDE DEF v
    <3>3. \A h \in 1 .. i : A[h]["dentry"][y] = v
      BY <2>2, <2>3, <2>4, <3>1, <3>2, PlaceFrom
    <3>. QED  BY <3>3 DEF v
  <2>7. i \in 1 .. i
    BY <2>4
  <2>. QED  BY <1>4, <1>7, <2>6, <2>7 DEF y
<1>8. CASE l = k /\ M = 0
  <2>1. k = n
    BY <1>3, <1>8 DEF Shape
  <2>. DEFINE y == Slot(bs, k)
  <2>2. y \in FieldDomain["dentry"] /\ "dentry" \in Fields
    BY <1>5, <1>8
  <2>3. \A j \in 1 .. Len(S) : "dentry" \in DOMAIN S[j] => S[j]["dentry"][1] # y
    <3>1. \A j \in 1 .. Len(S) : j > M
      BY <1>8
    <3>. QED  BY <1>1, <3>1 DEF Spares
  <2>. HIDE DEF y
  <2>4. \A h \in 0 .. Len(S) : A[h]["dentry"][y] = image["dentry"][y]
    BY <2>2, <2>3, RunPlace
  <2>. QED  BY <1>1, <1>2, <1>4, <1>8, <2>1, <2>4 DEF y
<1>. QED  BY <1>1, <1>6, <1>7, <1>8

\* Fields that no store from the c-th to the e-th names.
LEMMA RunField ==
  ASSUME NEW A, NEW S, NEW p, NEW t, NEW k, NEW M, NEW c, NEW g, Run(A, S, p, t, k, M, c, g),
         NEW f \in Fields, NEW h \in 0 .. Len(S), NEW e \in h .. Len(S),
         \A j \in h + 1 .. e : f \notin DOMAIN S[j]
  PROVE  A[e][f] = A[h][f]
<1>1. Traced(A, image, S) /\ Len(S) \in Nat
  BY RunView DEF Run
<1>2. e \in h .. e
  BY <1>1
<1>. QED  BY <1>1, <1>2, FieldKept

\* Before the store that ends the removal, p's extents and counts are as they were.
LEMMA RunBegun ==
  ASSUME NEW A, NEW S, NEW p, NEW t, NEW k, NEW M, NEW c, NEW g, Run(A, S, p, t, k, M, c, g),
         NEW i \in 0 .. c - 1
  PROVE  /\ Begun(A[i], p)
         /\ \A f \in {"start", "indirect_pt", "extent_num", "count"} : A[i][f] = image[f]
<1>1. /\ p \in Inodes /\ A[0] = image /\ Len(S) \in Nat /\ c \in Nat /\ c <= Len(S)
      /\ \A j \in 1 .. Len(S) : Spares(S, p, t, k, M, c, j)
      /\ 0 \in 0 .. Len(S) /\ image.size[p] = image.num_dir_entry[p]
  BY RunView DEF LeavesFrom
<1>2. \A j \in 0 + 1 .. i : j \in 1 .. Len(S) /\ j < c /\ j # c
  BY <1>1
<1>3. i \in 0 .. Len(S)
  BY <1>1
<1>4. \A f \in {"start", "indirect_pt", "extent_num", "count", "num_dir_entry", "size"} :
         A[i][f] = image[f]
  <2>. SUFFICES ASSUME NEW f \in {"start", "indirect_pt", "extent_num", "count", "num_dir_entry", "size"}
                PROVE  A[i][f] = image[f]
    OBVIOUS
  <2>1. f \in Fields
    BY FieldNames
  <2>2. \A j \in 0 + 1 .. i : f \notin DOMAIN S[j]
    BY <1>1, <1>2 DEF Spares
  <2>3. A[i][f] = A[0][f]
    BY <1>1, <1>3, <2>1, <2>2, RunField
  <2>. QED  BY <1>1, <2>3
<1>5. Begun(A[i], p)
  BY <1>1, <1>4 DEF Begun, KeepsExtents
<1>. QED  BY <1>4, <1>5

\* From it on, p has ended in one of four ways.
LEMMA RunEnded ==
  ASSUME NEW A, NEW S, NEW p, NEW t, NEW k, NEW M, NEW c, NEW g, Run(A, S, p, t, k, M, c, g),
         NEW i \in c .. Len(S)
  PROVE  Ended(A[i], p)
<1>. DEFINE n  == image.num_dir_entry[p]
            ib == image.indirect_pt[p]
            e  == image.extent_num[p]
            q  == image.count[<<ib, e - 1>>]
<1>1. /\ p \in Inodes /\ IsImage(image) /\ Held(image) /\ Len(S) \in Nat /\ c \in Nat /\ c <= Len(S)
      /\ \A j \in 1 .. Len(S) : Spares(S, p, t, k, M, c, j)
      /\ M \in Nat /\ M < c /\ e > 0
  BY RunView DEF LeavesFrom
<1>2. /\ c - 1 \in 0 .. c - 1 /\ c - 1 \in Nat /\ c - 1 + 1 = c /\ c - 1 + 1 \in 1 .. Len(S) /\ c \in 1 .. Len(S)
      /\ c \in 0 .. Len(S) /\ i \in c .. Len(S) /\ i \in 0 .. Len(S)
      /\ \A j \in c + 1 .. i : j \in 1 .. Len(S) /\ j # c
  BY <1>1
<1>3. Traced(A, image, S) /\ Shape(S, p, t, k, M, c, g)
  BY DEF Run
<1>4. Ends(S[c], p, g)
  BY <1>3 DEF Shape
<1>5. \A f \in {"start", "indirect_pt", "extent_num", "count"} : A[c - 1][f] = image[f]
  BY <1>2, RunBegun
<1>6. Stored(A[c - 1], A[c], S[c])
  <2>1. Stored(A[c - 1], A[c - 1 + 1], S[c - 1 + 1])
    BY <1>2, <1>3, FieldStep
  <2>. QED  BY <1>2, <2>1
<1>7. \A f \in {"start", "indirect_pt", "extent_num", "count"} : A[i][f] = A[c][f]
  <2>. SUFFICES ASSUME NEW f \in {"start", "indirect_pt", "extent_num", "count"}
                PROVE  A[i][f] = A[c][f]
    OBVIOUS
  <2>1. f \in Fields
    BY FieldNames
  <2>2. \A j \in c + 1 .. i : f \notin DOMAIN S[j]
    BY <1>1, <1>2 DEF Spares
  <2>. QED  BY <1>2, <2>1, <2>2, RunField
<1>8. \A f \in {"start", "indirect_pt", "extent_num", "count"} :
         /\ f \notin DOMAIN S[c] => A[i][f] = image[f]
         /\ f \in DOMAIN S[c] => A[i][f] = [image[f] EXCEPT ![S[c][f][1]] = S[c][f][2]]
  <2>1. \A f \in {"start", "indirect_pt", "extent_num", "count"} : f \in Fields
    BY FieldNames
  <2>. QED  BY <1>5, <1>6, <1>7, <2>1 DEF Stored
<1>9. /\ e \in 1 .. MaxExtents /\ ib \in Blocks /\ MaxExtents \in Nat
      /\ image.extent_num \in [Inodes -> 0 .. MaxExtents]
      /\ image.count \in [Blocks \X Extents -> Nat]
  <2>1. e \in 0 .. MaxExtents /\ ib \in Blocks
    BY <1>1, ImageTypes DEF Held
  <2>2. /\ image.extent_num \in [Inodes -> 0 .. MaxExtents]
        /\ image.count \in [Blocks \X Extents -> Nat]
    BY <1>1, ImageTypes
  <2>. QED  BY <1>1, <2>1, <2>2, DimensionsAssumption
<1>10. \A l \in 0 .. e - 1 : <<ib, l>> \in Blocks \X Extents
  <2>1. \A l \in 0 .. e - 1 : l \in Extents
    BY <1>9 DEF Extents
  <2>. QED  BY <1>9, <2>1
<1>. HIDE DEF ib, e, n, q
<1>11. CASE n # 1 /\ n % D # 1 /\ Sets(S[c], "num_dir_entry", p, n - 1)
  <2>1. DOMAIN S[c] = {"num_dir_entry"} /\ S[c]["num_dir_entry"] = <<p, n - 1>>
    BY <1>11 DEF Sets
  <2>2. \A f \in {"start", "indirect_pt", "extent_num", "count"} : A[i][f] = image[f]
    BY <1>8, <2>1
  <2>3. A[i].num_dir_entry[p] = n - 1
    <3>1. "num_dir_entry" \in Fields /\ p \in FieldDomain["num_dir_entry"]
      BY <1>1, FieldNames DEF FieldDomain
    <3>. DEFINE v == n - 1
    <3>2. Writes(S[c], "num_dir_entry", p) /\ S[c]["num_dir_entry"][2] = v
      BY <2>1 DEF Writes
    <3>3. \A j \in c + 1 .. i : Writes(S[j], "num_dir_entry", p) => S[j]["num_dir_entry"][2] = v
      BY <1>1, <1>2 DEF Spares, Writes, n
    <3>. HIDE DEF v
    <3>4. \A h \in c .. i : A[h]["num_dir_entry"][p] = v
      <4>1. c \in 1 .. Len(S) /\ i \in c .. Len(S) /\ Traced(A, image, S)
        BY <1>2, <1>3
      <4>. DEFINE f == "num_dir_entry"
      <4>2. /\ f \in Fields /\ p \in FieldDomain[f] /\ Writes(S[c], f, p) /\ S[c][f][2] = v
            /\ \A j \in c + 1 .. i : Writes(S[j], f, p) => S[j][f][2] = v
        BY <3>1, <3>2, <3>3
      <4>. HIDE DEF f
      <4>3. \A h \in c .. i : A[h][f][p] = v
        BY <4>1, <4>2, PlaceFrom
      <4>. QED  BY <4>3 DEF f
    <3>5. i \in c .. i
      BY <1>1, <1>2
    <3>. QED  BY <3>4, <3>5 DEF v
  <2>4. KeepsExtents(image, A[i], p)
    BY <2>2 DEF KeepsExtents
  <2>5. LessCounted(A[i], p)
    BY <1>11, <2>3, <2>4 DEF LessCounted, n
  <2>. QED  BY <2>5 DEF Ended
<1>12. CASE n # 1 /\ n % D = 1 /\ q > 1 /\ Sets(S[c], "count", <<ib, e - 1>>, q - 1)
  <2>1. DOMAIN S[c] = {"count"} /\ S[c]["count"][1] = <<ib, e - 1>> /\ S[c]["count"][2] = q - 1
    BY <1>12 DEF Sets
  <2>2. \A f \in {"start", "indirect_pt", "extent_num"} : A[i][f] = image[f]
    BY <1>8, <2>1
  <2>3. A[i]["count"] = [image["count"] EXCEPT ![<<ib, e - 1>>] = q - 1]
    BY <1>8, <2>1
  <2>4. e - 1 \in 0 .. e - 1 /\ \A l \in 0 .. e - 2 : l \in 0 .. e - 1 /\ l # e - 1
    BY <1>9
  <2>5. A[i].count[<<ib, e - 1>>] = q - 1
    BY <1>9, <1>10, <2>3, <2>4
  <2>6. \A l \in 0 .. e - 2 : A[i].count[<<ib, l>>] = image.count[<<ib, l>>]
    BY <1>9, <1>10, <2>3, <2>4
  <2>7. q \in Nat
    BY <1>9, <1>10, <2>4 DEF q
  <2>8. q = A[i].count[<<ib, e - 1>>] + 1 /\ A[i].count[<<ib, e - 1>>] > 0
    BY <1>12, <2>5, <2>7
  <2>9. LessInExtent(A[i], p)
    BY <1>12, <2>2, <2>6, <2>8 DEF LessInExtent, n, ib, e, q
  <2>. QED  BY <2>9 DEF Ended
<1>13. CASE n # 1 /\ n % D = 1 /\ q = 1 /\ Sets(S[c], "extent_num", p, e - 1)
  <2>1. DOMAIN S[c] = {"extent_num"} /\ S[c]["extent_num"][1] = p /\ S[c]["extent_num"][2] = e - 1
    BY <1>13 DEF Sets
  <2>2. \A f \in {"start", "indirect_pt", "count"} : A[i][f] = image[f]
    BY <1>8, <2>1
  <2>3. A[i]["extent_num"] = [image["extent_num"] EXCEPT ![p] = e - 1]
    BY <1>8, <2>1
  <2>4. A[i].extent_num[p] = e - 1
    BY <1>1, <1>9, <2>3
  <2>5. LessExtents(A[i], p)
    BY <1>13, <2>2, <2>4 DEF LessExtents, n, ib, e, q
  <2>. QED  BY <2>5 DEF Ended
<1>14. CASE n = 1 /\ Sets(S[c], "extent_num", p, 0)
  <2>1. DOMAIN S[c] = {"extent_num"} /\ S[c]["extent_num"][1] = p /\ S[c]["extent_num"][2] = 0
    BY <1>14 DEF Sets
  <2>2. A[i]["extent_num"] = [image["extent_num"] EXCEPT ![p] = 0]
    BY <1>8, <2>1
  <2>3. A[i].extent_num[p] = 0
    BY <1>1, <1>9, <2>2
  <2>4. NoExtents(A[i], p)
    BY <1>14, <2>3 DEF NoExtents, n
  <2>. QED  BY <2>4 DEF Ended
<1>. QED  BY <1>4, <1>11, <1>12, <1>13, <1>14 DEF Ends, n, ib, e, q

\* Every image from the move on.
LEMMA RunLeft ==
  ASSUME NEW A, NEW S, NEW p, NEW t, NEW k, NEW M, NEW c, NEW g, Run(A, S, p, t, k, M, c, g),
         NEW i \in M .. Len(S)
  PROVE  /\ Left(A[i], p, t, k)
         /\ i < c => Begun(A[i], p)
         /\ c <= i => Ended(A[i], p)
<1>1. Len(S) \in Nat /\ c \in Nat /\ M \in Nat /\ c <= Len(S)
  BY RunView
<1>2. i \in 0 .. Len(S) /\ (i \in 0 .. c - 1 \/ i \in c .. Len(S))
      /\ (i < c => i \in 0 .. c - 1) /\ (c <= i => i \in c .. Len(S))
  BY <1>1
<1>3. Framed(A[i], p, t) /\ DataBits(image) \ Given(p) \subseteq DataBits(A[i])
  BY <1>2, RunFramed
<1>4. Placed(A[i], p, k)
  BY RunPlaced
<1>5. i < c => Begun(A[i], p)
  BY <1>2, RunBegun
<1>6. c <= i => Ended(A[i], p)
  BY <1>2, RunEnded
<1>7. i < c \/ c <= i
  BY <1>1, <1>2
<1>8. Leaves(p, t, k)
  BY DEF Run, Shape
<1>. QED  BY <1>3, <1>4, <1>5, <1>6, <1>7, <1>8 DEF Left

-----------------------------------------------------------------------------
(* The bits and the counters of a removal. *)

\* The inode t is given back by the two stores after the first h.
InodeGiven(A, h) ==
    /\ Even(A, h, h + 2) /\ A[h + 2].dataBit = A[h].dataBit
    /\ A[h + 2].available["blocks"] = A[h].available["blocks"]

\* The stores of GiveInode give it back.
LEMMA GivesInode ==
  ASSUME NEW A, NEW img, NEW S, Traced(A, img, S), NEW h \in Nat, h + 2 <= Len(S),
         NEW t \in Inodes, NEW a \in Int,
         Sets(S[h + 1], "inodeBit", t, FALSE), Sets(S[h + 2], "available", "inodes", a),
         A[h].inodeBit[t], a = A[h].available["inodes"] + 1
  PROVE  InodeGiven(A, h)
<1>1. /\ DOMAIN S[h + 1] = {"inodeBit"} /\ S[h + 1]["inodeBit"] = <<t, FALSE>>
      /\ DOMAIN S[h + 2] = {"available"} /\ S[h + 2]["available"] = <<"inodes", a>>
  BY DEF Sets
<1>. DEFINE bit   == "inodeBit"
            other == "dataBit"
            key   == "inodes"
            v     == FALSE
<1>2. /\ {bit, other} = {"inodeBit", "dataBit"} /\ bit # other
      /\ DOMAIN S[h + 1] = {bit} /\ S[h + 1][bit] = <<t, v>>
      /\ DOMAIN S[h + 2] = {"available"} /\ S[h + 2]["available"] = <<key, a>>
  BY <1>1
<1>3. Paired(A[h], A[h + 1], A[h + 2], bit, other, t, v, key, a)
  <2>. HIDE DEF bit, other, key, v
  <2>. QED  BY <1>2, PairMade
<1>4. IsImage(A[h]) /\ IsImage(A[h + 1]) /\ IsImage(A[h + 2])
  <2>1. Len(S) \in Nat /\ \A k \in 0 .. Len(S) : IsImage(A[k])
    BY DEF Traced
  <2>2. h \in 0 .. Len(S) /\ h + 1 \in 0 .. Len(S) /\ h + 2 \in 0 .. Len(S)
    BY <2>1
  <2>. QED  BY <2>1, <2>2
<1>5. Paired(A[h], A[h + 1], A[h + 2], "inodeBit", "dataBit", t, v, "inodes", a) /\ v \in BOOLEAN
  BY <1>3
<1>. HIDE DEF v
<1>6. InodeMoved(A[h], A[h + 1], A[h + 2], t, v, a)
  BY <1>4, <1>5, InodePair
<1>7. v = FALSE
  BY DEF v
<1>. QED  BY <1>6, <1>7 DEF InodeMoved, InodeGiven, Even

\* The block b is given back by the two stores after the first h.
BlockGiven(A, h, b) ==
    /\ Even(A, h, h + 2) /\ A[h + 2].dataBit = [A[h].dataBit EXCEPT ![b] = FALSE]
    /\ A[h + 2].available["blocks"] = A[h].available["blocks"] + 1

\* The stores of GiveBlock give it back.
LEMMA GivesBlock ==
  ASSUME NEW A, NEW img, NEW S, Traced(A, img, S), NEW h \in Nat, h + 2 <= Len(S),
         NEW b \in Blocks, NEW a \in Int,
         Sets(S[h + 1], "dataBit", b, FALSE), Sets(S[h + 2], "available", "blocks", a),
         A[h].dataBit[b], a = A[h].available["blocks"] + 1
  PROVE  BlockGiven(A, h, b)
<1>1. /\ DOMAIN S[h + 1] = {"dataBit"} /\ S[h + 1]["dataBit"] = <<b, FALSE>>
      /\ DOMAIN S[h + 2] = {"available"} /\ S[h + 2]["available"] = <<"blocks", a>>
  BY DEF Sets
<1>. DEFINE bit   == "dataBit"
            other == "inodeBit"
            key   == "blocks"
            v     == FALSE
<1>2. /\ {bit, other} = {"inodeBit", "dataBit"} /\ bit # other
      /\ DOMAIN S[h + 1] = {bit} /\ S[h + 1][bit] = <<b, v>>
      /\ DOMAIN S[h + 2] = {"available"} /\ S[h + 2]["available"] = <<key, a>>
  BY <1>1
<1>3. Paired(A[h], A[h + 1], A[h + 2], bit, other, b, v, key, a)
  <2>. HIDE DEF bit, other, key, v
  <2>. QED  BY <1>2, PairMade
<1>4. IsImage(A[h]) /\ IsImage(A[h + 1]) /\ IsImage(A[h + 2])
  <2>1. Len(S) \in Nat /\ \A k \in 0 .. Len(S) : IsImage(A[k])
    BY DEF Traced
  <2>2. h \in 0 .. Len(S) /\ h + 1 \in 0 .. Len(S) /\ h + 2 \in 0 .. Len(S)
    BY <2>1
  <2>. QED  BY <2>1, <2>2
<1>5. Paired(A[h], A[h + 1], A[h + 2], "dataBit", "inodeBit", b, v, "blocks", a) /\ v \in BOOLEAN
  BY <1>3
<1>. HIDE DEF v
<1>6. BlockMoved(A[h], A[h + 1], A[h + 2], b, v, a)
  BY <1>4, <1>5, BlockPair
<1>7. v = FALSE
  BY DEF v
<1>. QED  BY <1>6, <1>7 DEF BlockMoved, BlockGiven, Even

\* The counters go with the bits, in the end.
LEMMA RunEven ==
  ASSUME NEW A, NEW S, NEW p, NEW t, NEW k, NEW M, NEW c, NEW g, Run(A, S, p, t, k, M, c, g)
  PROVE  /\ Even(A, 0, Len(S))
         /\ A[Len(S)].available["blocks"] = image.available["blocks"] + g
<1>. DEFINE bs == BlocksOf(image, p)
            lb == bs[Len(bs)]
            ib == image.indirect_pt[p]
            L  == Len(S)
            F  == M + 2 + 2 * g
<1>1. /\ Sound(image) /\ A[0] = image /\ IsImage(image) /\ L \in Nat /\ M \in 0 .. 1 /\ c \in Nat /\ M \in Nat
      /\ c <= L /\ F < c /\ g \in 0 .. 2 /\ t \in InodeBits(image) /\ t \in Inodes
  BY RunView DEF LeavesFrom
<1>2. Traced(A, image, S) /\ Shape(S, p, t, k, M, c, g) /\ Leaves(p, t, k)
  BY DEF Run, Shape
<1>3. lb # ib /\ lb \in DataBits(image) /\ ib \in DataBits(image)
  BY <1>2, GivenView
<1>4. /\ image.inodeBit[t] /\ lb \in Blocks /\ ib \in Blocks /\ image.dataBit[lb] /\ image.dataBit[ib]
      /\ image.dataBit \in [Blocks -> BOOLEAN]
      /\ AvailableInodes \in Int /\ AvailableBlocks \in Int
      /\ AvailableInodes = image.available["inodes"] /\ AvailableBlocks = image.available["blocks"]
  BY <1>1, <1>3, ImageTypes DEF InodeBits, DataBits, AvailableInodes, AvailableBlocks
<1>5. Even(A, 0, M) /\ \A f \in Counted : A[M][f] = A[0][f]
  <2>1. 0 \in 0 .. L /\ M \in 0 .. L
    BY <1>1
  <2>2. \A j \in 0 + 1 .. M : DOMAIN S[j] \cap Counted = {}
    <3>. SUFFICES ASSUME NEW j \in 0 + 1 .. M PROVE DOMAIN S[j] \cap Counted = {}
      OBVIOUS
    <3>1. j = 1 /\ M = 1
      BY <1>1
    <3>2. DOMAIN S[1] = {"dentry"}
      BY <1>2, <3>1 DEF Shape, Sets
    <3>. QED  BY <3>1, <3>2 DEF Counted
  <2>3. Neutral(A, 0, M) /\ \A f \in Counted : A[M][f] = A[0][f]
    BY <1>2, <2>1, <2>2, OtherNeutral
  <2>. QED  BY <2>3 DEF Neutral
<1>6. /\ A[M].inodeBit = image.inodeBit /\ A[M].dataBit = image.dataBit
      /\ A[M].available = image.available
  BY <1>1, <1>5 DEF Counted
<1>7. InodeGiven(A, M)
  <2>1. M + 2 <= L
    BY <1>1
  <2>2. Sets(S[M + 1], "inodeBit", t, FALSE) /\ Sets(S[M + 2], "available", "inodes", AvailableInodes + 1)
    BY <1>2 DEF Shape
  <2>. DEFINE a == AvailableInodes + 1
  <2>3. a \in Int /\ a = A[M].available["inodes"] + 1 /\ A[M].inodeBit[t]
        /\ Sets(S[M + 2], "available", "inodes", a)
    BY <1>4, <1>6, <2>2
  <2>. HIDE DEF a
  <2>. QED  BY <1>1, <1>2, <2>1, <2>2, <2>3, GivesInode
<1>8. /\ Even(A, 0, M + 2) /\ A[M + 2].dataBit = image.dataBit
      /\ A[M + 2].available["blocks"] = AvailableBlocks
  BY <1>4, <1>5, <1>6, <1>7, EvenJoin DEF InodeGiven
<1>9. ASSUME g > 0
      PROVE  /\ Even(A, 0, M + 4) /\ A[M + 4].dataBit = [image.dataBit EXCEPT ![lb] = FALSE]
             /\ A[M + 4].available["blocks"] = AvailableBlocks + 1
  <2>. DEFINE h == M + 2
              a == AvailableBlocks + 1
  <2>1. h \in Nat /\ h + 2 <= L /\ h + 1 = M + 3 /\ h + 2 = M + 4
    BY <1>1, <1>9
  <2>2. Sets(S[h + 1], "dataBit", lb, FALSE) /\ Sets(S[h + 2], "available", "blocks", a)
    BY <1>2, <1>9, <2>1 DEF Shape
  <2>3. A[h].dataBit[lb] /\ a = A[h].available["blocks"] + 1 /\ a \in Int
    BY <1>4, <1>8
  <2>4. Even(A, 0, h) /\ A[h].dataBit = image.dataBit /\ A[h].available["blocks"] = AvailableBlocks
    BY <1>8
  <2>. HIDE DEF h, a, lb
  <2>5. BlockGiven(A, h, lb)
    BY <1>2, <1>4, <2>1, <2>2, <2>3, GivesBlock
  <2>6. Even(A, 0, h + 2)
    BY <2>4, <2>5, EvenJoin DEF BlockGiven
  <2>. QED  BY <2>1, <2>4, <2>5, <2>6 DEF BlockGiven
<1>10. ASSUME g > 1
       PROVE  Even(A, 0, M + 6) /\ A[M + 6].available["blocks"] = AvailableBlocks + 2
  <2>. DEFINE h == M + 4
              a == AvailableBlocks + 2
  <2>0. /\ Even(A, 0, h) /\ A[h].dataBit = [image.dataBit EXCEPT ![lb] = FALSE]
        /\ A[h].available["blocks"] = AvailableBlocks + 1
    BY <1>1, <1>9, <1>10
  <2>1. h \in Nat /\ h + 2 <= L /\ h + 1 = M + 5 /\ h + 2 = M + 6
    BY <1>1, <1>10
  <2>2. Sets(S[h + 1], "dataBit", ib, FALSE) /\ Sets(S[h + 2], "available", "blocks", a)
    BY <1>2, <1>10, <2>1 DEF Shape
  <2>3. A[h].dataBit[ib] /\ a = A[h].available["blocks"] + 1 /\ a \in Int
    BY <1>3, <1>4, <2>0
  <2>4. a = AvailableBlocks + 2
    OBVIOUS
  <2>. HIDE DEF h, a, lb, ib
  <2>5. BlockGiven(A, h, ib)
    BY <1>2, <1>4, <2>1, <2>2, <2>3, GivesBlock
  <2>6. Even(A, 0, h + 2)
    BY <2>0, <2>5, EvenJoin DEF BlockGiven
  <2>. QED  BY <2>1, <2>3, <2>4, <2>5, <2>6 DEF BlockGiven
<1>11. Even(A, 0, F) /\ A[F].available["blocks"] = AvailableBlocks + g
  <2>1. CASE g = 0
    <3>1. F = M + 2
      BY <1>1, <2>1
    <3>. QED  BY <1>4, <1>8, <2>1, <3>1
  <2>2. CASE g = 1
    <3>1. F = M + 4
      BY <1>1, <2>2
    <3>. QED  BY <1>9, <2>2, <3>1
  <2>3. CASE g = 2
    <3>1. F = M + 6
      BY <1>1, <2>3
    <3>. QED  BY <1>10, <2>3, <3>1
  <2>. QED  BY <1>1, <2>1, <2>2, <2>3
<1>12. \A j \in F + 1 .. L : DOMAIN S[j] \cap Counted = {}
  <2>. SUFFICES ASSUME NEW j \in F + 1 .. L PROVE DOMAIN S[j] \cap Counted = {}
    OBVIOUS
  <2>1. j \in F + 1 .. c - 1 \/ j = c \/ j \in c + 1 .. L
    BY <1>1
  <2>2. CASE j \in F + 1 .. c - 1
    BY <1>2, <2>2 DEF Shape, Counted
  <2>3. CASE j = c
    <3>1. Ends(S[j], p, g)
      BY <1>2, <2>3 DEF Shape
    <3>. QED  BY <3>1 DEF Ends, Sets, Counted
  <2>4. CASE j \in c + 1 .. L
    BY <1>2, <2>4 DEF Shape, Sets, Counted
  <2>. QED  BY <2>1, <2>2, <2>3, <2>4
<1>13. Even(A, F, L) /\ A[L].available = A[F].available
  <2>1. F \in 0 .. L /\ L \in F .. L
    BY <1>1
  <2>2. Traced(A, image, S) /\ F \in 0 .. Len(S) /\ L \in F .. Len(S)
    BY <1>2, <2>1
  <2>. HIDE DEF F, L
  <2>3. Neutral(A, F, L) /\ \A f \in Counted : A[L][f] = A[F][f]
    BY <1>12, <2>2, OtherNeutral
  <2>. QED  BY <2>3 DEF Neutral, Counted
<1>. HIDE DEF F, L
<1>14. Even(A, 0, L)
  BY <1>11, <1>13, EvenJoin
<1>. QED  BY <1>4, <1>11, <1>13, <1>14 DEF L

\* As many blocks are given back as the shape of the list says.
LEMMA GivenCount ==
  ASSUME NEW A, NEW S, NEW p, NEW t, NEW k, NEW M, NEW c, NEW g, Run(A, S, p, t, k, M, c, g)
  PROVE  Cardinality(Given(p)) = g
<1>. DEFINE lb == BlocksOf(image, p)[Len(BlocksOf(image, p))]
            ib == image.indirect_pt[p]
            n  == image.num_dir_entry[p]
<1>1. Leaves(p, t, k) /\ Ends(S[c], p, g)
  BY DEF Run, Shape
<1>2. lb # ib
  BY <1>1, GivenView
<1>3. (n = 1 /\ g = 2) \/ (n # 1 /\ n % D = 1 /\ g = 1) \/ (n # 1 /\ n % D # 1 /\ g = 0)
  BY <1>1 DEF Ends
<1>4. Given(p) = IF n = 1 THEN {lb, ib} ELSE IF n % D = 1 THEN {lb} ELSE {}
  BY DEF Given
<1>. HIDE DEF lb, ib
<1>5. CASE n = 1
  <2>1. Cardinality({lb, ib}) = 2
    <3>1. IsFiniteSet({ib}) /\ Cardinality({ib}) = 1
      BY FS_Singleton
    <3>2. lb \notin {ib} /\ {ib} \cup {lb} = {lb, ib}
      BY <1>2
    <3>3. Cardinality({ib} \cup {lb}) = Cardinality({ib}) + 1
      BY <3>1, <3>2, FS_AddElement
    <3>. QED  BY <3>1, <3>2, <3>3
  <2>. QED  BY <1>3, <1>4, <1>5, <2>1
<1>6. CASE n # 1 /\ n % D = 1
  BY <1>3, <1>4, <1>6, FS_Singleton
<1>7. CASE n # 1 /\ n % D # 1
  BY <1>3, <1>4, <1>7, FS_EmptySet
<1>. QED  BY <1>5, <1>6, <1>7

\* What the images of a removal are.
Gone(A, L) ==
    /\ \E p \in Inodes : \A i \in 0 .. L : Torn(A[i], p)
    /\ \A i \in 0 .. L - 1 : Listing(A[i + 1]) \in {Listing(A[i]), Listing(A[L])}
    /\ Sound(A[L]) /\ Even(A, 0, L)
Removed(S) == WellTyped(S) /\ \A A : Traced(A, image, S) => Gone(A, Len(S))

\* The images that a list of the shape of a removal goes through.
LEMMA RunGone ==
  ASSUME NEW A, NEW S, NEW p, NEW t, NEW k, NEW M, NEW c, NEW g, Run(A, S, p, t, k, M, c, g)
  PROVE  Gone(A, Len(S))
<1>. DEFINE L == Len(S)
<1>1. /\ p \in Inodes /\ A[0] = image /\ Sound(image) /\ IsImage(image) /\ Held(image)
      /\ L \in Nat /\ c \in Nat /\ M \in 0 .. 1 /\ M < c /\ c <= L
  BY RunView
<1>2. Leaves(p, t, k) /\ (M = 0 <=> k = image.num_dir_entry[p])
  BY DEF Run, Shape
<1>3. \A i \in M .. L : /\ Left(A[i], p, t, k)
                        /\ i < c => Begun(A[i], p)
                        /\ c <= i => Ended(A[i], p)
  BY RunLeft
<1>4. Torn(image, p)
  <2>1. \A x \in Inodes : SameView(image, image, x)
    BY DEF SameView
  <2>2. DataBits(image) \subseteq DataBits(image) /\ InodeBits(image) \subseteq InodeBits(image)
    OBVIOUS
  <2>. QED  BY <1>1, <1>2, <2>1, <2>2, WholeIsTorn
<1>5. \A i \in 0 .. L : Torn(A[i], p)
  <2>. SUFFICES ASSUME NEW i \in 0 .. L PROVE Torn(A[i], p)
    OBVIOUS
  <2>1. i = 0 \/ i \in M .. L
    BY <1>1
  <2>2. CASE i \in M .. L
    BY <1>3, <2>2, TornAfter
  <2>. QED  BY <1>1, <1>4, <2>1, <2>2
<1>6. L \in M .. L /\ Left(A[L], p, t, k) /\ Ended(A[L], p)
  <2>1. L \in M .. L /\ c <= L
    BY <1>1
  <2>. HIDE DEF L
  <2>. QED  BY <1>3, <2>1
<1>7. Sound(A[L])
  <2>1. A[L].available["blocks"] = image.available["blocks"] + g
    BY RunEven
  <2>2. Cardinality(Given(p)) = g
    BY GivenCount
  <2>3. A[L].available["blocks"] = image.available["blocks"] + Cardinality(Given(p))
    BY <2>1, <2>2
  <2>. HIDE DEF L
  <2>. QED  BY <1>6, <2>3, SoundAfter
<1>8. \A i \in 0 .. L - 1 : Listing(A[i + 1]) \in {Listing(A[i]), Listing(A[L])}
  <2>. SUFFICES ASSUME NEW i \in 0 .. L - 1
                PROVE  Listing(A[i + 1]) = Listing(A[i]) \/ Listing(A[i + 1]) = Listing(A[L])
    OBVIOUS
  <2>. DEFINE h == i + 1
  <2>1. h \in M .. L /\ (h < c \/ c <= h) /\ i \in Nat
    BY <1>1
  <2>. HIDE DEF h, L
  <2>2. Left(A[h], p, t, k)
    BY <1>3, <2>1
  <2>3. CASE c <= h
    <3>1. Ended(A[h], p)
      BY <1>3, <2>1, <2>3
    <3>2. Listing(A[h]) = Listing(A[L])
      BY <1>6, <2>2, <3>1, ListingAfter
    <3>. QED  BY <3>2 DEF h
  <2>4. CASE M = 1
    <3>1. k # image.num_dir_entry[p]
      BY <1>2, <2>4
    <3>2. Listing(A[h]) = Listing(A[L])
      BY <1>6, <2>2, <3>1, ListingMoved
    <3>. QED  BY <3>2 DEF h
  <2>5. CASE h < c /\ M = 0
    <3>1. i \in M .. L /\ i < c
      BY <1>1, <2>1, <2>5 DEF h
    <3>2. Left(A[i], p, t, k) /\ Begun(A[i], p) /\ Begun(A[h], p)
      BY <1>3, <2>1, <2>5, <3>1
    <3>3. Listing(A[h]) = Listing(A[i])
      BY <2>2, <3>2, ListingAfter
    <3>. QED  BY <3>3 DEF h
  <2>. QED  BY <1>1, <2>1, <2>3, <2>4, <2>5
<1>9. Even(A, 0, L)
  BY RunEven
<1>. QED  BY <1>1, <1>5, <1>7, <1>8, <1>9 DEF Gone

\* A list of that shape removes an entry.
LEMMA ShapeRemoves ==
  ASSUME NEW S, NEW p, NEW t, NEW k, NEW M, NEW c, NEW g, Shape(S, p, t, k, M, c, g)
  PROVE  Removed(S)
<1>1. WellTyped(S)
  BY DEF Shape
<1>2. ASSUME NEW A, Traced(A, image, S) PROVE Gone(A, Len(S))
  <2>1. Run(A, S, p, t, k, M, c, g)
    BY <1>2 DEF Run
  <2>. QED  BY <2>1, RunGone
<1>. QED  BY <1>1, <1>2 DEF Removed

-----------------------------------------------------------------------------
(* The lists of stores that removals are made of. *)

\* A store of a value of its field is well typed.
LEMMA SetsTyped ==
  ASSUME NEW s, NEW f \in Fields, NEW x, NEW v \in FieldRange[f], Sets(s, f, x, v)
  PROVE  Typed(s)
<1>1. DOMAIN s = {f} /\ s[f][2] = v
  BY DEF Sets
<1>. QED  BY <1>1 DEF Typed

\* Lists of one and of two stores.
LEMMA SetsOne ==
  ASSUME NEW s, Typed(s)
  PROVE  Long(<<s>>, 1) /\ \A S, o : At(S, o, <<s>>) => S[o + 1] = s
<1>1. Long(<<s>>, 1)
  BY WellSingle DEF Long
<1>. QED  BY <1>1, AtSingle

\* A list of two stores of single values.
LEMMA SetsTwo ==
  ASSUME NEW s, NEW q, Typed(s), Typed(q)
  PROVE  Long(<<s, q>>, 2)
         /\ \A S, o : Len(S) \in Nat /\ At(S, o, <<s, q>>) => S[o + 1] = s /\ S[o + 2] = q
<1>1. IsSeq(<<s, q>>) /\ Len(<<s, q>>) = 2 /\ <<s, q>>[1] = s /\ <<s, q>>[2] = q
  BY SeqOfFew
<1>. DEFINE l == <<s, q>>
<1>2. WellTyped(l)
  <2>. HIDE DEF l
  <2>1. IsSeq(l) /\ Len(l) = 2 /\ l[1] = s /\ l[2] = q
    BY <1>1 DEF l
  <2>2. \A j \in 1 .. 2 : j = 1 \/ j = 2
    OBVIOUS
  <2>. QED  BY <2>1, <2>2 DEF WellTyped
<1>3. Long(l, 2)
  BY <1>1, <1>2 DEF Long
<1>. QED  BY <1>3, AtPair

\* What gives back an inode, and a block.
LEMMA InodeList ==
  ASSUME Sound(image), NEW t \in Inodes
  PROVE  /\ Long(GiveInode(t), 2)
         /\ \A S, o : Len(S) \in Nat /\ At(S, o, GiveInode(t)) =>
               /\ Sets(S[o + 1], "inodeBit", t, FALSE)
               /\ Sets(S[o + 2], "available", "inodes", AvailableInodes + 1)
<1>. DEFINE s == [inodeBit |-> <<t, FALSE>>]
            q == [available |-> <<"inodes", AvailableInodes + 1>>]
<1>1. Sets(s, "inodeBit", t, FALSE) /\ Sets(q, "available", "inodes", AvailableInodes + 1)
  BY DEF Sets
<1>2. GiveInode(t) = <<s, q>>
  BY DEF GiveInode
<1>. HIDE DEF s, q
<1>3. AvailableInodes + 1 \in FieldRange["available"] /\ FALSE \in FieldRange["inodeBit"]
      /\ "available" \in Fields /\ "inodeBit" \in Fields
  <2>1. AvailableInodes \in Int
    BY SoundView, ImageTypes DEF AvailableInodes
  <2>2. FieldRange["available"] = Int /\ FieldRange["inodeBit"] = BOOLEAN
    BY DEF FieldRange
  <2>. QED  BY <2>1, <2>2, FieldNames
<1>4. Typed(s) /\ Typed(q)
  BY <1>1, <1>3, SetsTyped
<1>5. Long(<<s, q>>, 2)
      /\ \A S, o : Len(S) \in Nat /\ At(S, o, <<s, q>>) => S[o + 1] = s /\ S[o + 2] = q
  BY <1>4, SetsTwo
<1>. QED  BY <1>1, <1>2, <1>5

\* The list that gives back a block.
LEMMA BlockList ==
  ASSUME Sound(image), NEW b, NEW n \in Int
  PROVE  /\ Long(GiveBlock(b, n), 2)
         /\ \A S, o : Len(S) \in Nat /\ At(S, o, GiveBlock(b, n)) =>
               /\ Sets(S[o + 1], "dataBit", b, FALSE)
               /\ Sets(S[o + 2], "available", "blocks", AvailableBlocks + n)
<1>. DEFINE s == [dataBit |-> <<b, FALSE>>]
            q == [available |-> <<"blocks", AvailableBlocks + n>>]
<1>1. Sets(s, "dataBit", b, FALSE) /\ Sets(q, "available", "blocks", AvailableBlocks + n)
  BY DEF Sets
<1>2. GiveBlock(b, n) = <<s, q>>
  BY DEF GiveBlock
<1>. HIDE DEF s, q
<1>3. AvailableBlocks + n \in FieldRange["available"] /\ FALSE \in FieldRange["dataBit"]
      /\ "available" \in Fields /\ "dataBit" \in Fields
  <2>1. AvailableBlocks \in Int
    BY SoundView, ImageTypes DEF AvailableBlocks
  <2>2. FieldRange["available"] = Int /\ FieldRange["dataBit"] = BOOLEAN
    BY DEF FieldRange
  <2>. QED  BY <2>1, <2>2, FieldNames
<1>4. Typed(s) /\ Typed(q)
  BY <1>1, <1>3, SetsTyped
<1>5. Long(<<s, q>>, 2)
      /\ \A S, o : Len(S) \in Nat /\ At(S, o, <<s, q>>) => S[o + 1] = s /\ S[o + 2] = q
  BY <1>4, SetsTwo
<1>. QED  BY <1>1, <1>2, <1>5

\* A directory's links and counts, an entry less.
UncountAt(S, o, p, h) ==
    /\ h = 1 => DOMAIN S[o + 1] = {"links"}
    /\ Sets(S[o + h + 1], "num_dir_entry", p, image.num_dir_entry[p] - 1)
    /\ Sets(S[o + h + 2], "size", p, image.num_dir_entry[p] - 1)

\* The list that uncounts an entry: two stores, or three for a directory.
LEMMA UncountList ==
  ASSUME NEW p, NEW t, NEW k, Leaves(p, t, k), NEW m
  PROVE  \E h \in 0 .. 1 : /\ Long(UncountEntry(p, m), h + 2)
                           /\ \A S, o : Len(S) \in Nat /\ At(S, o, UncountEntry(p, m))
                                 => UncountAt(S, o, p, h)
<1>. DEFINE n == image.num_dir_entry[p]
            a == AddCount(p, -1)
            b == AddSize(p, -1)
            l == AddLinks(p, -1)
<1>1. /\ Sound(image) /\ IsImage(image) /\ p \in Inodes /\ n \in Nat /\ n > 0 /\ image.size[p] = n
  <2>1. LeavesFrom(p, t, k, n, EntriesOf(image, p), BlocksOf(image, p))
    BY LeavesView
  <2>2. k \in 1 .. n /\ n \in Nat
    BY <2>1 DEF LeavesFrom
  <2>3. n > 0
    BY <2>2
  <2>. QED  BY <2>1, <2>2, <2>3 DEF LeavesFrom, Leaves
<1>2. n + (-1) = n - 1 /\ n - 1 \in Nat /\ image.links[p] + (-1) \in Int
  BY <1>1, ImageTypes
<1>3. Sets(a, "num_dir_entry", p, n - 1) /\ Sets(b, "size", p, n - 1)
      /\ Sets(l, "links", p, image.links[p] + (-1))
  BY <1>1, <1>2 DEF Sets, AddCount, AddSize, AddLinks
<1>. HIDE DEF a, b, l
<1>4. Typed(a) /\ Typed(b) /\ Typed(l)
  <2>1. FieldRange["num_dir_entry"] = Nat /\ FieldRange["size"] = Nat /\ FieldRange["links"] = Int
    BY DEF FieldRange
  <2>2. "num_dir_entry" \in Fields /\ "size" \in Fields /\ "links" \in Fields
    BY FieldNames
  <2>. QED  BY <1>2, <1>3, <2>1, <2>2, SetsTyped
<1>5. Long(<<a, b>>, 2)
      /\ \A S, o : Len(S) \in Nat /\ At(S, o, <<a, b>>) => S[o + 1] = a /\ S[o + 2] = b
  BY <1>4, SetsTwo
<1>6. Long(<<l>>, 1) /\ \A S, o : At(S, o, <<l>>) => S[o + 1] = l
  BY <1>4, SetsOne
<1>7. CASE m = "dir"
  <2>1. UncountEntry(p, m) = <<l>> \o <<a, b>>
    BY <1>7 DEF UncountEntry, a, b, l
  <2>. DEFINE x == <<l>>
              y == <<a, b>>
  <2>. HIDE DEF x, y
  <2>2. Long(x \o y, 1 + 2)
    BY <1>5, <1>6, LongJoin DEF x, y
  <2>3. ASSUME NEW S, NEW o, Len(S) \in Nat, At(S, o, x \o y) PROVE UncountAt(S, o, p, 1)
    <3>1. o \in Nat
      BY <2>3 DEF At
    <3>2. At(S, o, x) /\ At(S, o + 1, y)
      BY <1>5, <1>6, <2>3, <3>1, LongAt DEF x, y
    <3>3. S[o + 1] = l /\ S[o + 1 + 1] = a /\ S[o + 1 + 2] = b
      BY <1>5, <1>6, <2>3, <3>2 DEF x, y
    <3>4. DOMAIN l = {"links"}
      BY <1>3 DEF Sets
    <3>. QED  BY <1>3, <3>3, <3>4 DEF UncountAt
  <2>4. 1 \in 0 .. 1
    OBVIOUS
  <2>. QED  BY <2>1, <2>2, <2>3, <2>4 DEF x, y
<1>8. CASE m # "dir"
  <2>. DEFINE y == <<a, b>>
  <2>1. UncountEntry(p, m) = <<>> \o y
    BY <1>8 DEF UncountEntry, a, b
  <2>2. <<>> \o y = y
    OBVIOUS
  <2>3. ASSUME NEW S, NEW o, Len(S) \in Nat, At(S, o, y) PROVE UncountAt(S, o, p, 0)
    <3>1. S[o + 1] = a /\ S[o + 2] = b /\ o \in Nat
      BY <1>5, <2>3, AtPair
    <3>2. o + 0 + 1 = o + 1 /\ o + 0 + 2 = o + 2
      BY <3>1
    <3>. QED  BY <1>3, <3>1, <3>2 DEF UncountAt
  <2>4. 0 \in 0 .. 1 /\ Long(y, 0 + 2)
    BY <1>5
  <2>. HIDE DEF y
  <2>. QED  BY <2>1, <2>2, <2>3, <2>4
<1>. QED  BY <1>7, <1>8

\* From the o-th store on, S gives back g blocks and ends the removal by its c-th.
TailShape(S, o, p, c, g) ==
    LET n  == image.num_dir_entry[p]
        bs == BlocksOf(image, p)
    IN  /\ g \in 0 .. 2 /\ c \in Nat /\ o + 2 * g < c /\ c <= Len(S)
        /\ g > 0 => /\ Sets(S[o + 1], "dataBit", bs[Len(bs)], FALSE)
                    /\ Sets(S[o + 2], "available", "blocks", AvailableBlocks + 1)
        /\ g > 1 => /\ Sets(S[o + 3], "dataBit", image.indirect_pt[p], FALSE)
                    /\ Sets(S[o + 4], "available", "blocks", AvailableBlocks + 2)
        /\ \A j \in o + 2 * g + 1 .. c - 1 : DOMAIN S[j] = {"links"}
        /\ Ends(S[c], p, g)
        /\ \A j \in c + 1 .. Len(S) : \/ DOMAIN S[j] = {"links"}
                                      \/ Sets(S[j], "size", p, n - 1)
                                      \/ Sets(S[j], "num_dir_entry", p, n - 1)

\* The list T does, where it ends a list of stores.
Drops(T, p) ==
    /\ WellTyped(T) /\ Len(T) \in Nat
    /\ \E d \in Nat, g \in 0 .. 2 : \A S, o :
          Len(S) \in Nat /\ At(S, o, T) /\ o + Len(T) = Len(S) => TailShape(S, o, p, o + d, g)

\* The entry was not the only one of its block.
LEMMA DropsEntry ==
  ASSUME NEW p, NEW t, NEW k, Leaves(p, t, k), NEW m,
         image.num_dir_entry[p] # 1, image.num_dir_entry[p] % D # 1
  PROVE  Drops(UncountEntry(p, m), p)
<1>. DEFINE T == UncountEntry(p, m)
            n == image.num_dir_entry[p]
<1>1. PICK h \in 0 .. 1 : /\ Long(T, h + 2)
                          /\ \A S, o : Len(S) \in Nat /\ At(S, o, T) => UncountAt(S, o, p, h)
  BY UncountList
<1>2. WellTyped(T) /\ Len(T) = h + 2
  BY <1>1 DEF Long
<1>. HIDE DEF T
<1>3. ASSUME NEW S, NEW o, Len(S) \in Nat, At(S, o, T), o + Len(T) = Len(S)
      PROVE  TailShape(S, o, p, o + (h + 1), 0)
  <2>1. UncountAt(S, o, p, h)
    BY <1>1, <1>3
  <2>2. o \in Nat /\ o + h + 2 = Len(S) /\ o + (h + 1) = o + h + 1
    BY <1>2, <1>3 DEF At
  <2>. DEFINE c == o + (h + 1)
  <2>3. /\ 0 \in 0 .. 2 /\ c \in Nat /\ o + 2 * 0 < c /\ c <= Len(S) /\ ~(0 > 0) /\ ~(0 > 1)
    BY <2>2
  <2>4. \A j \in o + 2 * 0 + 1 .. c - 1 : DOMAIN S[j] = {"links"}
    <3>. SUFFICES ASSUME NEW j \in o + 2 * 0 + 1 .. c - 1 PROVE DOMAIN S[j] = {"links"}
      OBVIOUS
    <3>1. h = 1 /\ j = o + 1
      BY <2>2
    <3>. QED  BY <2>1, <3>1 DEF UncountAt
  <2>5. Ends(S[c], p, 0)
    <3>1. Sets(S[c], "num_dir_entry", p, n - 1)
      BY <2>1, <2>2 DEF UncountAt
    <3>. HIDE DEF c
    <3>. QED  BY <3>1 DEF Ends
  <2>6. \A j \in c + 1 .. Len(S) : Sets(S[j], "size", p, n - 1)
    <3>. SUFFICES ASSUME NEW j \in c + 1 .. Len(S) PROVE Sets(S[j], "size", p, n - 1)
      OBVIOUS
    <3>1. j = o + h + 2
      BY <2>2
    <3>. QED  BY <2>1, <3>1 DEF UncountAt
  <2>. HIDE DEF c
  <2>7. TailShape(S, o, p, c, 0)
    BY <2>3, <2>4, <2>5, <2>6 DEF TailShape
  <2>. QED  BY <2>7 DEF c
<1>4. h + 1 \in Nat /\ 0 \in 0 .. 2 /\ Len(T) \in Nat
  BY <1>2
<1>. DEFINE d == h + 1
<1>5. d \in Nat /\ \A S, o : Len(S) \in Nat /\ At(S, o, T) /\ o + Len(T) = Len(S)
                       => TailShape(S, o, p, o + d, 0)
  BY <1>3, <1>4
<1>. HIDE DEF d
<1>6. Drops(T, p)
  BY <1>2, <1>4, <1>5 DEF Drops
<1>. QED  BY <1>6 DEF T

\* It was, and the block goes: a block less in the last extent, or an extent less.
LEMMA DropsBlock ==
  ASSUME NEW p, NEW t, NEW k, Leaves(p, t, k), NEW m,
         NEW lb, lb = BlocksOf(image, p)[Len(BlocksOf(image, p))],
         NEW s, Typed(s), Ends(s, p, 1)
  PROVE  Drops(GiveBlock(lb, 1) \o <<s>> \o UncountEntry(p, m), p)
<1>. DEFINE U == UncountEntry(p, m)
            n == image.num_dir_entry[p]
            x == GiveBlock(lb, 1)
            y == <<s>>
            z == x \o y
            T == z \o U
<1>1. PICK h \in 0 .. 1 : /\ Long(U, h + 2)
                          /\ \A S, o : Len(S) \in Nat /\ At(S, o, U) => UncountAt(S, o, p, h)
  BY UncountList
<1>2. /\ Long(x, 2)
      /\ \A S, o : Len(S) \in Nat /\ At(S, o, x) =>
            /\ Sets(S[o + 1], "dataBit", lb, FALSE)
            /\ Sets(S[o + 2], "available", "blocks", AvailableBlocks + 1)
  <2>1. Sound(image) /\ 1 \in Int
    BY DEF Leaves
  <2>. QED  BY <2>1, BlockList
<1>3. Long(y, 1) /\ \A S, o : At(S, o, y) => S[o + 1] = s
  BY SetsOne
<1>. HIDE DEF x, y, U
<1>4. Long(z, 3)
  <2>1. Long(z, 2 + 1)
    BY <1>2, <1>3, LongJoin
  <2>. QED  BY <2>1
<1>. HIDE DEF z
<1>5. Long(T, 3 + (h + 2))
  BY <1>1, <1>4, LongJoin
<1>6. WellTyped(T) /\ Len(T) = h + 5 /\ Len(T) \in Nat
  BY <1>5 DEF Long
<1>7. ASSUME NEW S, NEW o, Len(S) \in Nat, At(S, o, T), o + Len(T) = Len(S)
      PROVE  TailShape(S, o, p, o + 3, 1)
  <2>1. o \in Nat /\ o + h + 5 = Len(S)
    BY <1>6, <1>7 DEF At
  <2>2. At(S, o, z) /\ At(S, o + 3, U)
    BY <1>1, <1>4, <1>7, <2>1, LongAt
  <2>3. At(S, o, x) /\ At(S, o + 2, y)
    BY <1>2, <1>3, <2>1, <2>2, LongAt DEF z
  <2>4. UncountAt(S, o + 3, p, h)
    BY <1>1, <1>7, <2>2
  <2>5. /\ Sets(S[o + 1], "dataBit", lb, FALSE)
        /\ Sets(S[o + 2], "available", "blocks", AvailableBlocks + 1)
    BY <1>2, <1>7, <2>3
  <2>6. S[o + 3] = s
    <3>1. S[o + 2 + 1] = s /\ o + 2 + 1 = o + 3
      BY <1>3, <2>1, <2>3
    <3>. QED  BY <3>1
  <2>. DEFINE c == o + 3
  <2>7. /\ 1 \in 0 .. 2 /\ c \in Nat /\ o + 2 * 1 < c /\ c <= Len(S) /\ ~(1 > 1)
        /\ \A j \in o + 2 * 1 + 1 .. c - 1 : FALSE
    BY <2>1
  <2>8. Ends(S[c], p, 1)
    BY <2>6
  <2>9. \A j \in c + 1 .. Len(S) : \/ DOMAIN S[j] = {"links"}
                                   \/ Sets(S[j], "size", p, n - 1)
                                   \/ Sets(S[j], "num_dir_entry", p, n - 1)
    <3>. SUFFICES ASSUME NEW j \in c + 1 .. Len(S)
                  PROVE  \/ DOMAIN S[j] = {"links"}
                         \/ Sets(S[j], "size", p, n - 1)
                         \/ Sets(S[j], "num_dir_entry", p, n - 1)
      OBVIOUS
    <3>1. (h = 1 /\ j = o + 3 + 1) \/ j = o + 3 + h + 1 \/ j = o + 3 + h + 2
      BY <2>1
    <3>. QED  BY <2>4, <3>1 DEF UncountAt
  <2>. HIDE DEF c
  <2>10. TailShape(S, o, p, c, 1)
    BY <2>5, <2>7, <2>8, <2>9 DEF TailShape
  <2>. QED  BY <2>10 DEF c
<1>8. Drops(T, p)
  <2>. DEFINE d == 3
              g == 1
  <2>1. d \in Nat /\ g \in 0 .. 2 /\ \A S, o : Len(S) \in Nat /\ At(S, o, T) /\ o + Len(T) = Len(S)
                       => TailShape(S, o, p, o + d, g)
    BY <1>7
  <2>. HIDE DEF d, g, T
  <2>. QED  BY <1>6, <2>1 DEF Drops
<1>. QED  BY <1>8 DEF U, x, y, z

\* The directory is left without blocks.
LEMMA EmptyList ==
  ASSUME NEW p
  PROVE  /\ Long(Empty(p), 4)
         /\ \A S, o : At(S, o, Empty(p)) =>
               /\ Sets(S[o + 1], "extent_num", p, 0) /\ DOMAIN S[o + 2] = {"links"}
               /\ Sets(S[o + 3], "num_dir_entry", p, 0) /\ Sets(S[o + 4], "size", p, 0)
<1>. DEFINE a == [extent_num |-> <<p, 0>>]
            b == [links |-> <<p, 2>>]
            c == [num_dir_entry |-> <<p, 0>>]
            d == [size |-> <<p, 0>>]
            T == <<a, b, c, d>>
<1>1. /\ Sets(a, "extent_num", p, 0) /\ Sets(b, "links", p, 2)
      /\ Sets(c, "num_dir_entry", p, 0) /\ Sets(d, "size", p, 0)
  BY DEF Sets
<1>2. Empty(p) = T
  BY DEF Empty
<1>. HIDE DEF a, b, c, d
<1>3. Typed(a) /\ Typed(b) /\ Typed(c) /\ Typed(d)
  <2>1. /\ FieldRange["extent_num"] = 0 .. MaxExtents /\ FieldRange["links"] = Int
        /\ FieldRange["num_dir_entry"] = Nat /\ FieldRange["size"] = Nat
    BY DEF FieldRange
  <2>2. "extent_num" \in Fields /\ "links" \in Fields /\ "num_dir_entry" \in Fields /\ "size" \in Fields
    BY FieldNames
  <2>3. 0 \in 0 .. MaxExtents
    BY DimensionsAssumption
  <2>4. /\ 0 \in FieldRange["extent_num"] /\ 2 \in FieldRange["links"]
        /\ 0 \in FieldRange["num_dir_entry"] /\ 0 \in FieldRange["size"]
    BY <2>1, <2>3
  <2>5. Typed(a)
    BY <1>1, <2>2, <2>4, SetsTyped
  <2>6. Typed(b)
    BY <1>1, <2>2, <2>4, SetsTyped
  <2>7. Typed(c)
    BY <1>1, <2>2, <2>4, SetsTyped
  <2>8. Typed(d)
    BY <1>1, <2>2, <2>4, SetsTyped
  <2>. QED  BY <2>5, <2>6, <2>7, <2>8
<1>4. IsSeq(T) /\ Len(T) = 4 /\ T[1] = a /\ T[2] = b /\ T[3] = c /\ T[4] = d
  BY SeqOfFew
<1>. HIDE DEF T
<1>5. WellTyped(T)
  <2>1. \A j \in 1 .. 4 : j = 1 \/ j = 2 \/ j = 3 \/ j = 4
    OBVIOUS
  <2>. QED  BY <1>3, <1>4, <2>1 DEF WellTyped
<1>6. Long(T, 4)
  BY <1>4, <1>5 DEF Long
<1>7. ASSUME NEW S, NEW o, At(S, o, T)
      PROVE  S[o + 1] = a /\ S[o + 2] = b /\ S[o + 3] = c /\ S[o + 4] = d
  <2>1. \A j \in 1 .. 4 : S[o + j] = T[j]
    BY <1>4, <1>7 DEF At
  <2>2. 1 \in 1 .. 4 /\ 2 \in 1 .. 4 /\ 3 \in 1 .. 4 /\ 4 \in 1 .. 4
    OBVIOUS
  <2>. QED  BY <1>4, <2>1, <2>2
<1>8. ASSUME NEW S, NEW o, At(S, o, T)
      PROVE  /\ Sets(S[o + 1], "extent_num", p, 0) /\ DOMAIN S[o + 2] = {"links"}
             /\ Sets(S[o + 3], "num_dir_entry", p, 0) /\ Sets(S[o + 4], "size", p, 0)
  <2>1. S[o + 1] = a /\ S[o + 2] = b /\ S[o + 3] = c /\ S[o + 4] = d
    BY <1>7, <1>8
  <2>2. DOMAIN b = {"links"}
    BY <1>1 DEF Sets
  <2>. QED  BY <1>1, <2>1, <2>2
<1>. QED  BY <1>2, <1>6, <1>8

\* The directory's only entry goes, with both of its blocks.
LEMMA DropsAll ==
  ASSUME NEW p, NEW t, NEW k, Leaves(p, t, k), image.num_dir_entry[p] = 1,
         NEW lb, lb = BlocksOf(image, p)[Len(BlocksOf(image, p))],
         NEW ib, ib = image.indirect_pt[p]
  PROVE  Drops(GiveBlock(lb, 1) \o GiveBlock(ib, 2) \o Empty(p), p)
<1>. DEFINE n == image.num_dir_entry[p]
            U == Empty(p)
            x == GiveBlock(lb, 1)
            y == GiveBlock(ib, 2)
            z == x \o y
            T == z \o U
<1>1. Sound(image) /\ 1 \in Int /\ 2 \in Int
  BY DEF Leaves
<1>2. /\ Long(x, 2)
      /\ \A S, o : Len(S) \in Nat /\ At(S, o, x) =>
            /\ Sets(S[o + 1], "dataBit", lb, FALSE)
            /\ Sets(S[o + 2], "available", "blocks", AvailableBlocks + 1)
  BY <1>1, BlockList
<1>3. /\ Long(y, 2)
      /\ \A S, o : Len(S) \in Nat /\ At(S, o, y) =>
            /\ Sets(S[o + 1], "dataBit", ib, FALSE)
            /\ Sets(S[o + 2], "available", "blocks", AvailableBlocks + 2)
  BY <1>1, BlockList
<1>4. /\ Long(U, 4)
      /\ \A S, o : At(S, o, U) =>
            /\ Sets(S[o + 1], "extent_num", p, 0) /\ DOMAIN S[o + 2] = {"links"}
            /\ Sets(S[o + 3], "num_dir_entry", p, 0) /\ Sets(S[o + 4], "size", p, 0)
  BY EmptyList
<1>. HIDE DEF x, y, U
<1>5. Long(z, 4)
  <2>1. Long(z, 2 + 2)
    BY <1>2, <1>3, LongJoin
  <2>. QED  BY <2>1
<1>. HIDE DEF z
<1>6. Long(T, 4 + 4)
  BY <1>4, <1>5, LongJoin
<1>7. WellTyped(T) /\ Len(T) = 8 /\ Len(T) \in Nat
  BY <1>6 DEF Long
<1>8. ASSUME NEW S, NEW o, Len(S) \in Nat, At(S, o, T), o + Len(T) = Len(S)
      PROVE  TailShape(S, o, p, o + 5, 2)
  <2>1. o \in Nat /\ o + 8 = Len(S)
    BY <1>7, <1>8 DEF At
  <2>2. At(S, o, z) /\ At(S, o + 4, U)
    BY <1>4, <1>5, <1>8, <2>1, LongAt
  <2>3. At(S, o, x) /\ At(S, o + 2, y)
    BY <1>2, <1>3, <2>1, <2>2, LongAt DEF z
  <2>4. /\ Sets(S[o + 1], "dataBit", lb, FALSE)
        /\ Sets(S[o + 2], "available", "blocks", AvailableBlocks + 1)
    BY <1>2, <1>8, <2>3
  <2>5. /\ Sets(S[o + 3], "dataBit", ib, FALSE)
        /\ Sets(S[o + 4], "available", "blocks", AvailableBlocks + 2)
    <3>1. /\ Sets(S[o + 2 + 1], "dataBit", ib, FALSE)
          /\ Sets(S[o + 2 + 2], "available", "blocks", AvailableBlocks + 2)
      BY <1>3, <1>8, <2>3
    <3>2. o + 2 + 1 = o + 3 /\ o + 2 + 2 = o + 4
      BY <2>1
    <3>. QED  BY <3>1, <3>2
  <2>6. /\ Sets(S[o + 5], "extent_num", p, 0) /\ DOMAIN S[o + 6] = {"links"}
        /\ Sets(S[o + 7], "num_dir_entry", p, 0) /\ Sets(S[o + 8], "size", p, 0)
    <3>1. /\ Sets(S[o + 4 + 1], "extent_num", p, 0) /\ DOMAIN S[o + 4 + 2] = {"links"}
          /\ Sets(S[o + 4 + 3], "num_dir_entry", p, 0) /\ Sets(S[o + 4 + 4], "size", p, 0)
      BY <1>4, <2>2
    <3>2. o + 4 + 1 = o + 5 /\ o + 4 + 2 = o + 6 /\ o + 4 + 3 = o + 7 /\ o + 4 + 4 = o + 8
      BY <2>1
    <3>. QED  BY <3>1, <3>2
  <2>. DEFINE c == o + 5
  <2>7. /\ 2 \in 0 .. 2 /\ c \in Nat /\ o + 2 * 2 < c /\ c <= Len(S)
        /\ \A j \in o + 2 * 2 + 1 .. c - 1 : FALSE
    BY <2>1
  <2>8. Ends(S[c], p, 2)
    BY <2>6 DEF Ends
  <2>9. \A j \in c + 1 .. Len(S) : \/ DOMAIN S[j] = {"links"}
                                   \/ Sets(S[j], "size", p, n - 1)
                                   \/ Sets(S[j], "num_dir_entry", p, n - 1)
    <3>. SUFFICES ASSUME NEW j \in c + 1 .. Len(S)
                  PROVE  \/ DOMAIN S[j] = {"links"}
                         \/ Sets(S[j], "size", p, n - 1)
                         \/ Sets(S[j], "num_dir_entry", p, n - 1)
      OBVIOUS
    <3>1. j = o + 6 \/ j = o + 7 \/ j = o + 8
      BY <2>1
    <3>2. n - 1 = 0
      OBVIOUS
    <3>. QED  BY <2>6, <3>1, <3>2
  <2>. HIDE DEF c
  <2>10. TailShape(S, o, p, c, 2)
    BY <2>4, <2>5, <2>7, <2>8, <2>9 DEF TailShape
  <2>. QED  BY <2>10 DEF c
<1>9. Drops(T, p)
  <2>. DEFINE d == 5
              g == 2
  <2>1. d \in Nat /\ g \in 0 .. 2 /\ \A S, o : Len(S) \in Nat /\ At(S, o, T) /\ o + Len(T) = Len(S)
                       => TailShape(S, o, p, o + d, g)
    BY <1>8
  <2>. HIDE DEF d, g, T
  <2>. QED  BY <1>7, <2>1 DEF Drops
<1>. QED  BY <1>9 DEF U, x, y, z

\* All of DropLast.
LEMMA DropsLast ==
  ASSUME NEW p, NEW t, NEW k, Leaves(p, t, k), NEW m
  PROVE  Drops(DropLast(p, m), p)
<1>. DEFINE n  == image.num_dir_entry[p]
            ib == image.indirect_pt[p]
            e  == image.extent_num[p]
            c  == image.count[<<ib, e - 1>>]
            lb == Seen!find_last_block(p)
            z  == IF c > 1 THEN [count |-> <<<<ib, e - 1>>, c - 1>>] ELSE AddExtents(p, -1)
<1>1. /\ Sound(image) /\ IsImage(image) /\ Held(image) /\ p \in Inodes /\ e > 0 /\ n \in Nat
  BY LeavesView DEF LeavesFrom, Leaves
<1>2. lb = BlocksOf(image, p)[Len(BlocksOf(image, p))]
  BY <1>1, FindLastBlock
<1>3. e \in 1 .. MaxExtents /\ ib \in Blocks /\ c > 0 /\ c \in Nat /\ MaxExtents \in Nat
  <2>1. e \in 0 .. MaxExtents /\ ib \in Blocks /\ MaxExtents \in Nat
    BY <1>1, ImageTypes, DimensionsAssumption DEF Held
  <2>2. e - 1 \in 0 .. e - 1 /\ e - 1 \in Extents
    BY <1>1, <2>1 DEF Extents
  <2>3. <<ib, e - 1>> \in Blocks \X Extents
    BY <2>1, <2>2
  <2>4. c \in Nat
    BY <1>1, <2>3, ImageTypes
  <2>5. c > 0
    BY <1>1, <2>2 DEF Held
  <2>. QED  BY <1>1, <2>1, <2>4, <2>5
<1>4. CASE n = 1
  <2>1. DropLast(p, m) = GiveBlock(lb, 1) \o GiveBlock(ib, 2) \o Empty(p)
    BY <1>4 DEF DropLast
  <2>2. Drops(GiveBlock(lb, 1) \o GiveBlock(ib, 2) \o Empty(p), p)
    BY <1>2, <1>4, DropsAll
  <2>. QED  BY <2>1, <2>2
<1>5. CASE n # 1 /\ n % D # 1
  <2>1. DropLast(p, m) = UncountEntry(p, m)
    BY <1>5 DEF DropLast, D
  <2>. QED  BY <1>5, <2>1, DropsEntry
<1>6. CASE n # 1 /\ n % D = 1
  <2>1. DropLast(p, m) = GiveBlock(lb, 1) \o <<z>> \o UncountEntry(p, m)
    <3>1. CASE c > 1
      BY <1>6, <3>1 DEF DropLast, D
    <3>2. CASE c = 1
      <4>1. z = AddExtents(p, -1)
        BY <3>2
      <4>2. DropLast(p, m) = GiveBlock(lb, 1) \o << AddExtents(p, -1) >> \o UncountEntry(p, m)
        BY <1>6, <3>2 DEF DropLast, D
      <4>. QED  BY <4>1, <4>2
    <3>3. c > 1 \/ c = 1
      <4>1. c > 0 /\ c \in Nat
        BY <1>3
      <4>. HIDE DEF c
      <4>. QED  BY <4>1
    <3>. HIDE DEF c, z
    <3>. QED  BY <3>1, <3>2, <3>3
  <2>2. IF c > 1 THEN Sets(z, "count", <<ib, e - 1>>, c - 1) ELSE Sets(z, "extent_num", p, e - 1)
    <3>1. e + (-1) = e - 1
      BY <1>3
    <3>. QED  BY <3>1 DEF Sets, AddExtents
  <2>3. Typed(z)
    <3>1. FieldRange["extent_num"] = 0 .. MaxExtents /\ FieldRange["count"] = Nat
      BY DEF FieldRange
    <3>2. "extent_num" \in Fields /\ "count" \in Fields
      BY FieldNames
    <3>3. e - 1 \in 0 .. MaxExtents /\ c - 1 \in Nat
      BY <1>3
    <3>. HIDE DEF z, c, e
    <3>4. CASE c > 1
      BY <2>2, <3>1, <3>2, <3>3, <3>4, SetsTyped
    <3>5. CASE ~(c > 1)
      BY <2>2, <3>1, <3>2, <3>3, <3>5, SetsTyped
    <3>. QED  BY <3>4, <3>5
  <2>4. Ends(z, p, 1)
    <3>. HIDE DEF z
    <3>. QED  BY <1>3, <1>6, <2>2 DEF Ends
  <2>. HIDE DEF z, lb
  <2>5. Drops(GiveBlock(lb, 1) \o <<z>> \o UncountEntry(p, m), p)
    BY <1>2, <2>3, <2>4, DropsBlock
  <2>. QED  BY <2>1, <2>5
<1>. QED  BY <1>4, <1>5, <1>6

-----------------------------------------------------------------------------
(* Every removal. *)

\* A quotient and a remainder are the only ones.
LEMMA DivModUnique ==
  ASSUME NEW d \in Nat, d > 0, NEW a \in Nat, NEW b \in 0 .. d - 1, NEW m, m = d * a + b
  PROVE  m \div d = a /\ m % d = b
<1>. DEFINE q == m \div d
            r == m % d
<1>1. d * a \in Nat /\ m \in Nat
  OBVIOUS
<1>2. q \in Nat /\ r \in Nat /\ m = d * q + r /\ r \in 0 .. d - 1
  <2>1. m \div d \in Nat /\ m % d \in Nat /\ m = d * (m \div d) + (m % d)
    BY <1>1, DivMod
  <2>2. m % d \in 0 .. d - 1
    BY <1>1
  <2>. QED  BY <2>1, <2>2
<1>. HIDE DEF q, r
<1>3. d * q \in Nat
  BY <1>2
<1>4. ~(q < a)
  <2>. SUFFICES ASSUME q < a PROVE FALSE
    OBVIOUS
  <2>1. q + 1 <= a
    BY <1>2
  <2>2. d * (q + 1) <= d * a /\ d * (q + 1) = d * q + d
    BY <1>2, <2>1
  <2>. QED  BY <1>1, <1>2, <1>3, <2>2
<1>5. ~(q > a)
  <2>. SUFFICES ASSUME q > a PROVE FALSE
    OBVIOUS
  <2>1. a + 1 <= q
    BY <1>2
  <2>2. d * (a + 1) <= d * q /\ d * (a + 1) = d * a + d
    BY <1>2, <2>1
  <2>. QED  BY <1>1, <1>2, <1>3, <2>2
<1>6. q = a
  BY <1>2, <1>4, <1>5
<1>7. r = b
  BY <1>1, <1>2, <1>3, <1>6
<1>. QED  BY <1>6, <1>7 DEF q, r

\* The place that rmdir and unlink take for the last entry is its place.
LEMMA LastSlotIs ==
  ASSUME NEW p, NEW t, NEW k, Leaves(p, t, k), NEW n, n = image.num_dir_entry[p],
         NEW bs, bs = BlocksOf(image, p)
  PROVE  LastSlot(p) = Slot(bs, n)
<1>. DEFINE L == Len(bs)
            r == n % D
<1>1. Sound(image) /\ p \in Inodes /\ Agrees(image, p)
  BY DEF Leaves
<1>2. /\ n \in Nat /\ L \in Nat /\ D \in Nat /\ D > 1
      /\ n % D # 0 => n \div D + 1 = L
      /\ n % D = 0 => D * L = n
  BY <1>1, ParentCounts
<1>3. n > 0 /\ L > 0 /\ image.extent_num[p] > 0
  <2>1. LeavesFrom(p, t, k, n, EntriesOf(image, p), bs)
    BY LeavesView
  <2>. QED  BY <2>1 DEF LeavesFrom
<1>4. Seen!find_last_block(p) = bs[L]
  BY <1>1, <1>3, FindLastBlock
<1>. DEFINE b == IF r = 0 THEN D - 1 ELSE r - 1
<1>5. LastSlot(p) = <<bs[L], b>>
  BY <1>4 DEF LastSlot, D
<1>. HIDE DEF L
<1>6. r \in 0 .. D - 1 /\ n = D * (n \div D) + r /\ n \div D \in Nat
  <2>. HIDE DEF r
  <2>0. D > 0
    BY <1>2
  <2>1. n \div D \in Nat /\ n % D \in Nat /\ n = D * (n \div D) + (n % D)
    BY <1>2, <2>0, DivMod
  <2>2. n % D \in 0 .. D - 1
    BY <1>2
  <2>. QED  BY <2>1, <2>2 DEF r
<1>7. n - 1 = D * (L - 1) + b /\ b \in 0 .. D - 1 /\ L - 1 \in Nat
  <2>1. CASE r = 0
    <3>1. D * (L - 1) = D * L - D
      BY <1>2, <1>3
    <3>2. D * L = n
      BY <1>2, <2>1
    <3>. HIDE DEF r
    <3>. QED  BY <1>2, <1>3, <2>1, <3>1, <3>2
  <2>2. CASE r # 0
    <3>1. L - 1 = n \div D
      BY <1>2, <1>6, <2>2
    <3>2. D * (L - 1) = D * (n \div D)
      BY <3>1
    <3>. HIDE DEF r
    <3>. QED  BY <1>2, <1>3, <1>6, <2>2, <3>2
  <2>. QED  BY <2>1, <2>2
<1>. HIDE DEF b
<1>8. (n - 1) \div D = L - 1 /\ (n - 1) % D = b
  <2>. DEFINE a == L - 1
              m == n - 1
  <2>1. D > 0 /\ a \in Nat /\ m = D * a + b
    BY <1>2, <1>7
  <2>. HIDE DEF a, m
  <2>2. m \div D = a /\ m % D = b
    BY <1>2, <1>7, <2>1, DivModUnique
  <2>. QED  BY <2>2 DEF a, m
<1>9. (n - 1) \div D + 1 = L
  BY <1>2, <1>8
<1>. QED  BY <1>5, <1>8, <1>9 DEF Slot

\* The M stores of T put the last entry of p in the place of the k-th.
Moves(p, k, T, M) ==
    LET n == image.num_dir_entry[p]
    IN  /\ M \in 0 .. 1 /\ Long(T, M)
        /\ M = 0 <=> k = n
        /\ M = 1 => \A S : At(S, 0, T) =>
              Sets(S[1], "dentry", Slot(BlocksOf(image, p), k), EntriesOf(image, p)[n])

\* The last entry is stored in the place of t's, if that is another one.
LEMMA MoveList ==
  ASSUME NEW p, NEW t, NEW k, Leaves(p, t, k)
  PROVE  \E M : Moves(p, k, MoveLast(p, t), M)
<1>. DEFINE n  == image.num_dir_entry[p]
            bs == BlocksOf(image, p)
            es == EntriesOf(image, p)
            First(j) == /\ image.dentry[Slot(bs, j)].ino = t
                        /\ \A l \in 1 .. j - 1 : image.dentry[Slot(bs, l)].ino # t
<1>1. LeavesFrom(p, t, k, n, es, bs)
  BY LeavesView
<1>2. /\ n \in Nat /\ k \in 1 .. n /\ es \in Seq(Entry) /\ Len(es) = n /\ D \in Nat /\ D > 1
      /\ \A l \in 1 .. n : es[l] = image.dentry[Slot(bs, l)] /\ Slot(bs, l) \in Blocks \X Slots
  BY <1>1 DEF LeavesFrom
<1>3. es[k].ino = t
  BY DEF Leaves
<1>4. \A l \in 1 .. n : es[l].ino = t => l = k
  <2>1. ListsApart(image) /\ p \in Inodes
    BY SoundView DEF Leaves
  <2>2. \A l \in 1 .. n : Lists(image, p, l)
    BY <1>2 DEF Lists
  <2>. QED  BY <1>2, <1>3, <2>1, <2>2 DEF ListsApart
<1>5. LastSlot(p) = Slot(bs, n) /\ image.dentry[LastSlot(p)] = es[n]
  <2>1. LastSlot(p) = Slot(bs, n)
    BY LastSlotIs
  <2>2. n \in 1 .. n
    BY <1>2
  <2>. HIDE DEF n, bs, es
  <2>. QED  BY <1>2, <2>1, <2>2
<1>6. (CHOOSE j \in 1 .. D * Len(bs) : First(j)) = k
  <2>1. /\ k \in 1 .. D * Len(bs) /\ D * Len(bs) \in Nat
        /\ \A l \in 1 .. n : l \in 1 .. D * Len(bs)
    BY <1>1, <1>2 DEF LeavesFrom
  <2>2. First(k)
    <3>1. image.dentry[Slot(bs, k)].ino = t
      BY <1>2, <1>3
    <3>2. ASSUME NEW l \in 1 .. k - 1 PROVE image.dentry[Slot(bs, l)].ino # t
      <4>1. l \in 1 .. n /\ l # k
        BY <1>2
      <4>. HIDE DEF n, es, bs
      <4>. QED  BY <1>2, <1>4, <4>1
    <3>. QED  BY <3>1, <3>2
  <2>3. ASSUME NEW j \in 1 .. D * Len(bs), First(j) PROVE j = k
    <3>1. CASE j < k
      <4>1. j \in 1 .. k - 1
        BY <1>2, <2>1, <3>1
      <4>. QED  BY <2>2, <2>3, <4>1
    <3>2. CASE j > k
      <4>1. k \in 1 .. j - 1
        BY <1>2, <2>1, <3>2
      <4>. QED  BY <2>2, <2>3, <4>1
    <3>. QED  BY <1>2, <2>1, <3>1, <3>2
  <2>. HIDE DEF First
  <2>. QED  BY <2>1, <2>2, <2>3
<1>7. CASE k = n
  <2>1. image.dentry[LastSlot(p)].ino = t
    BY <1>3, <1>5, <1>7
  <2>2. MoveLast(p, t) = <<>>
    BY <2>1 DEF MoveLast
  <2>3. Long(<<>>, 0)
    <3>. DEFINE S == <<>>
    <3>1. IsSeq(S) /\ Len(S) = 0
      BY SeqOfFew
    <3>. HIDE DEF S
    <3>2. Long(S, 0)
      BY <3>1 DEF Long, WellTyped
    <3>. QED  BY <3>2 DEF S
  <2>4. Long(MoveLast(p, t), 0)
    BY <2>2, <2>3
  <2>5. Moves(p, k, MoveLast(p, t), 0)
    BY <1>7, <2>4 DEF Moves
  <2>. QED  BY <2>5
<1>8. CASE k # n
  <2>. DEFINE s == [dentry |-> <<Slot(bs, k), es[n]>>]
  <2>1. n \in 1 .. n
    BY <1>2
  <2>2. image.dentry[LastSlot(p)].ino # t
    <3>1. es[n].ino # t
      BY <1>4, <1>8, <2>1
    <3>. QED  BY <1>5, <3>1
  <2>3. MoveLast(p, t) = <<s>>
    <3>1. MoveLast(p, t) =
             << [dentry |-> <<Slot(bs, CHOOSE j \in 1 .. D * Len(bs) : First(j)),
                              image.dentry[LastSlot(p)]>>] >>
      BY <2>2 DEF MoveLast, Slot, D
    <3>. HIDE DEF First
    <3>. QED  BY <1>5, <1>6, <3>1
  <2>4. Sets(s, "dentry", Slot(bs, k), es[n])
    BY DEF Sets
  <2>. HIDE DEF s
  <2>5. Typed(s)
    <3>1. "dentry" \in Fields /\ FieldRange["dentry"] = Entry
      BY FieldNames DEF FieldRange
    <3>2. es[n] \in Entry
      <4>. HIDE DEF n, es
      <4>. QED  BY <1>2, <2>1
    <3>3. es[n] \in FieldRange["dentry"]
      BY <3>1, <3>2
    <3>. HIDE DEF n, es, bs
    <3>. QED  BY <2>4, <3>1, <3>3, SetsTyped
  <2>6. Long(<<s>>, 1) /\ \A S, o : At(S, o, <<s>>) => S[o + 1] = s
    BY <2>5, SetsOne
  <2>7. \A S : At(S, 0, MoveLast(p, t)) => Sets(S[1], "dentry", Slot(bs, k), es[n])
    <3>1. \A S : At(S, 0, <<s>>) => S[0 + 1] = s
      BY <2>6
    <3>. HIDE DEF n, es, bs
    <3>. QED  BY <2>3, <2>4, <3>1
  <2>8. Long(MoveLast(p, t), 1)
    BY <2>3, <2>6
  <2>9. Moves(p, k, MoveLast(p, t), 1)
    BY <1>8, <2>7, <2>8 DEF Moves
  <2>. QED  BY <2>9
<1>. QED  BY <1>7, <1>8

\* All the stores of a removal.
LEMMA RemovalStores ==
  ASSUME NEW p, NEW t, NEW k, Leaves(p, t, k), NEW m
  PROVE  Removed(MoveLast(p, t) \o GiveInode(t) \o DropLast(p, m))
<1>. DEFINE X == MoveLast(p, t)
            Y == GiveInode(t)
            Z == DropLast(p, m)
            V == X \o Y
            S == V \o Z
            bs == BlocksOf(image, p)
            n  == image.num_dir_entry[p]
<1>1. Sound(image) /\ t \in Inodes
  <2>1. LeavesFrom(p, t, k, n, EntriesOf(image, p), bs)
    BY LeavesView
  <2>. QED  BY <2>1 DEF Leaves, LeavesFrom
<1>2. PICK M : Moves(p, k, X, M)
  BY MoveList
<1>3. M \in 0 .. 1 /\ Long(X, M)
  BY <1>2 DEF Moves
<1>4. /\ Long(Y, 2)
      /\ \A L, o : Len(L) \in Nat /\ At(L, o, Y) =>
            /\ Sets(L[o + 1], "inodeBit", t, FALSE)
            /\ Sets(L[o + 2], "available", "inodes", AvailableInodes + 1)
  BY <1>1, InodeList
<1>5. Drops(Z, p)
  BY DropsLast
<1>6. WellTyped(Z) /\ Len(Z) \in Nat
  BY <1>5 DEF Drops
<1>7. PICK d \in Nat : \E g \in 0 .. 2 : \A L, o :
          Len(L) \in Nat /\ At(L, o, Z) /\ o + Len(Z) = Len(L) => TailShape(L, o, p, o + d, g)
  BY <1>5 DEF Drops
<1>8. PICK g \in 0 .. 2 : \A L, o :
          Len(L) \in Nat /\ At(L, o, Z) /\ o + Len(Z) = Len(L) => TailShape(L, o, p, o + d, g)
  BY <1>7
<1>. DEFINE z == Len(Z)
<1>. HIDE DEF X, Y, Z
<1>9. Long(Z, z)
  BY <1>6 DEF Long
<1>10. Long(V, M + 2)
  BY <1>3, <1>4, LongJoin
<1>. HIDE DEF V
<1>11. Long(S, M + 2 + z)
  BY <1>9, <1>10, LongJoin
<1>12. WellTyped(S) /\ Len(S) = M + 2 + z /\ Len(S) \in Nat
  BY <1>11 DEF Long
<1>13. At(S, 0, S)
  BY <1>12, WellWhole
<1>14. At(S, 0, V) /\ At(S, M + 2, Z)
  <2>1. At(S, 0, V) /\ At(S, 0 + (M + 2), Z)
    BY <1>9, <1>10, <1>13, LongAt
  <2>2. 0 + (M + 2) = M + 2
    BY <1>3
  <2>. QED  BY <2>1, <2>2
<1>15. At(S, 0, X) /\ At(S, M, Y)
  <2>1. At(S, 0, X) /\ At(S, 0 + M, Y)
    BY <1>3, <1>4, <1>14, LongAt DEF V
  <2>2. 0 + M = M
    BY <1>3
  <2>. QED  BY <2>1, <2>2
<1>. HIDE DEF S
<1>. DEFINE o == M + 2
            c == o + d
<1>16. TailShape(S, o, p, c, g)
  <2>1. o + Len(Z) = Len(S)
    BY <1>12
  <2>. HIDE DEF z
  <2>. QED  BY <1>8, <1>12, <1>14, <2>1
<1>17. /\ Sets(S[M + 1], "inodeBit", t, FALSE)
       /\ Sets(S[M + 2], "available", "inodes", AvailableInodes + 1)
  BY <1>4, <1>12, <1>15
<1>18. /\ M = 0 <=> k = n
       /\ M = 1 => Sets(S[1], "dentry", Slot(bs, k), EntriesOf(image, p)[n])
  BY <1>2, <1>15 DEF Moves
<1>19. o \in Nat /\ c \in Nat /\ o + 1 = M + 3 /\ o + 2 = M + 4 /\ o + 3 = M + 5 /\ o + 4 = M + 6
       /\ o + 2 * g = M + 2 + 2 * g /\ o + 2 * g + 1 = M + 2 + 2 * g + 1
  BY <1>3
<1>. HIDE DEF o, c
<1>20. Shape(S, p, t, k, M, c, g)
  BY <1>3, <1>12, <1>16, <1>17, <1>18, <1>19 DEF Shape, TailShape
<1>21. Removed(S)
  BY <1>20, ShapeRemoves
<1>. QED  BY <1>21 DEF S, V, X, Y, Z

\* In a directory whose counts agree a lookup finds nothing, or a listed entry.
LEMMA LookupView ==
  ASSUME Sound(image), NEW p \in Inodes, Agrees(image, p), NEW nm,
         LookupIn(image, p, nm) # NotThere
  PROVE  \E k : Lists(image, p, k) /\ EntriesOf(image, p)[k].ino = LookupIn(image, p, nm)
<1>. DEFINE es == EntriesOf(image, p)
            n  == image.num_dir_entry[p]
            T  == {j \in DOMAIN es : es[j].name = nm}
            k  == CHOOSE j \in T : \A l \in T : j <= l
            a  == p # ROOT_INODE /\ image.size[p] = 0
            b  == (p = ROOT_INODE \/ image.size[p] # 0) /\ T # {}
            z  == p # ROOT_INODE /\ Len(es) < Max({n, 1})
<1>1. LookupIn(image, p, nm) =
        CASE a -> NotThere [] b -> es[k].ino [] OTHER -> IF z THEN p ELSE NotThere
  BY DEF LookupIn
<1>2. /\ n \in Nat /\ Len(es) = n /\ image.size[p] = n /\ es \in Seq(Entry)
      /\ DOMAIN es = 1 .. n
  <2>1. es \in Seq(Entry) /\ Len(es) = n /\ n \in Nat
    BY ParentCounts, SoundView
  <2>2. DOMAIN es = 1 .. Len(es)
    <3>. HIDE DEF es
    <3>. QED  BY <2>1
  <2>. QED  BY <2>1, <2>2 DEF Agrees
<1>3. ~a /\ ~b => ~z
  <2>. SUFFICES ASSUME ~a, z PROVE FALSE
    OBVIOUS
  <2>1. n # 0
    BY <1>2
  <2>2. Max({n, 1}) = n
    <3>1. Max({n, 1}) = IF n >= 1 THEN n ELSE 1
      BY <1>2, MaxOfTwo
    <3>. HIDE DEF n
    <3>. QED  BY <1>2, <2>1, <3>1
  <2>. QED  BY <1>2, <2>2
<1>4. ~a /\ b /\ LookupIn(image, p, nm) = es[k].ino
  <2>1. a \in BOOLEAN /\ b \in BOOLEAN /\ z \in BOOLEAN
    OBVIOUS
  <2>2. a => ~b
    OBVIOUS
  <2>. HIDE DEF a, b, k, es, z
  <2>. QED  BY <1>1, <1>3, <2>1, <2>2
<1>. HIDE DEF a, z
<1>5. k \in 1 .. Len(es)
  <2>1. T # {} /\ T \in SUBSET Nat
    <3>. HIDE DEF es, n
    <3>. QED  BY <1>2, <1>4
  <2>2. \E j \in T : \A l \in T : j <= l
    <3>. HIDE DEF T
    <3>. QED  BY <2>1, LeastOf
  <2>3. k \in T
    <3>. HIDE DEF T
    <3>. QED  BY <2>2
  <2>. HIDE DEF k, es, n
  <2>. QED  BY <1>2, <2>3
<1>. HIDE DEF k
<1>. QED  BY <1>4, <1>5 DEF Lists

\* A callback that removes an entry: its stores, and what they do.
RemovesBegun ==
    \E stores, s, r : Begin("removing", stores, s, r) /\ (stores = <<>> \/ Removed(stores))

\* Every rmdir and unlink begins with no store, or with those of a removal.
LEMMA RemovalBegun ==
  ASSUME Sound(image), NEW p \in Inodes, NEW nm, NEW m, RemoveNamed(p, nm, m), ~astray'
  PROVE  RemovesBegun /\ work = "none"
<1>. DEFINE t == LookupIn(image, p, nm)
<1>1. BeginsIn(p) /\ t # NotThere
  BY DEF RemoveNamed
<1>2. image.inodeBit[p] /\ Agrees(image, p) /\ work = "none"
  BY <1>1, RunsIn
<1>3. CASE image.size[t] # 0
  <2>1. Begin("removing", <<>>, "mounted", "ENOTEMPTY")
    BY <1>3 DEF RemoveNamed
  <2>. QED  BY <1>2, <2>1 DEF RemovesBegun
<1>4. CASE image.size[t] = 0
  <2>1. Begin("removing", MoveLast(p, t) \o GiveInode(t) \o DropLast(p, m), "mounted", "ok")
    BY <1>4 DEF RemoveNamed, RemoveEntry
  <2>3. PICK k : Lists(image, p, k) /\ EntriesOf(image, p)[k].ino = t
    BY <1>1, <1>2, LookupView
  <2>4. Leaves(p, t, k)
    BY <1>2, <1>4, <2>3 DEF Leaves
  <2>. HIDE DEF t
  <2>5. Removed(MoveLast(p, t) \o GiveInode(t) \o DropLast(p, m))
    BY <2>4, RemovalStores
  <2>. QED  BY <1>2, <2>1, <2>5 DEF RemovesBegun
<1>. QED  BY <1>3, <1>4

-----------------------------------------------------------------------------
(* The inductive invariant. *)

Drifts(img, c) == InodeDrift(img) \in 0 .. c /\ BlockDrift(img) \in 0 .. c

\* readdir lists the old entries, then the new ones.
OldOrNew(A, L) == \A i \in 0 .. L - 1 : Listing(A[i + 1]) \in {Listing(A[i]), Listing(A[L])}

\* The images that an addition and a removal have yet to go through, n kills ago.
Adding(A, L, n) ==
    /\ \A i \in 0 .. L : Sound(A[i]) /\ Drifts(A[i], n + 1)
    /\ OldOrNew(A, L) /\ Drifts(A[L], n)
Removing(A, L, n) ==
    /\ \E p \in Inodes : \A i \in 0 .. L : Torn(A[i], p)
    /\ OldOrNew(A, L) /\ Sound(A[L]) /\ Drifts(A[L], n)

State(img, stores, last, kind, n) ==
    /\ IsImage(img) /\ WellTyped(stores) /\ n \in Nat
    /\ kind \in {"none", "adding", "removing", "cut"}
    /\ kind \in {"none", "cut"} <=> stores = <<>>
    /\ kind = "none" => Sound(img) /\ Drifts(img, n)
    /\ kind = "cut" => \E p \in Inodes : Torn(img, p)
    /\ kind = "adding" => \E A : /\ Traced(A, img, stores) /\ last = A[Len(stores)]
                                 /\ Adding(A, Len(stores), n)
    /\ kind = "removing" => \E A : /\ Traced(A, img, stores) /\ last = A[Len(stores)]
                                   /\ Removing(A, Len(stores), n)

Orderly ==
    /\ State(image, pending, finished, work, kills)
    /\ numOfDataBlocks \in Int
    /\ work # "cut" => numOfDataBlocks <= NumBlocks

\* This is so until a callback begins where a kill left damage.
IInv == ~astray => Orderly

\* The formatted image is sound.
LEMMA EmptySound == Sound(EmptyImage) /\ Drifts(EmptyImage, 0)
<1>. DEFINE img == EmptyImage
<1>1. /\ 0 \in Blocks /\ 0 \in Inodes /\ 0 \in 0 .. MaxExtents /\ NumBlocks \in Int
      /\ NumInodes \in Int /\ ROOT_INODE = 0
  BY DimensionsAssumption DEF Blocks, Inodes, ROOT_INODE
<1>2. DOMAIN img = Fields
  BY FieldNames DEF EmptyImage
<1>3. IsImage(img)
  <2>1. img["inodeBit"] \in [Inodes -> BOOLEAN]
    BY <1>1 DEF EmptyImage
  <2>2. img["dataBit"] \in [Blocks -> BOOLEAN]
    BY <1>1 DEF EmptyImage
  <2>3. img["available"] \in [{"inodes", "blocks"} -> Int]
    <3>1. [inodes |-> NumInodes - 1, blocks |-> NumBlocks] \in [{"inodes", "blocks"} -> Int]
      BY <1>1
    <3>. QED  BY <3>1 DEF EmptyImage
  <2>4. img["mode"] \in [Inodes -> {"none", "dir", "reg"}]
    BY <1>1 DEF EmptyImage
  <2>5. img["links"] \in [Inodes -> Int]
    BY <1>1 DEF EmptyImage
  <2>6. img["size"] \in [Inodes -> Nat]
    BY <1>1 DEF EmptyImage
  <2>7. img["num_dir_entry"] \in [Inodes -> Nat]
    BY <1>1 DEF EmptyImage
  <2>8. img["extent_num"] \in [Inodes -> 0 .. MaxExtents]
    BY <1>1 DEF EmptyImage
  <2>9. img["indirect_pt"] \in [Inodes -> Blocks \cup {NoBlock}]
    BY <1>1 DEF EmptyImage
  <2>10. img["start"] \in [Blocks \X Extents -> Blocks]
    BY <1>1 DEF EmptyImage, Extents
  <2>11. img["count"] \in [Blocks \X Extents -> Nat]
    BY <1>1 DEF EmptyImage, Extents
  <2>12. img["dentry"] \in [Blocks \X Slots -> Entry]
    <3>1. [name |-> "", ino |-> 0] \in Entry
      BY <1>1 DEF Entry
    <3>2. img["dentry"] = [x \in Blocks \X Slots |-> [name |-> "", ino |-> 0]]
      BY DEF EmptyImage, Slots, D
    <3>. QED  BY <3>1, <3>2
  <2>. HIDE DEF img
  <2>. QED
    BY <1>2, <2>1, <2>2, <2>3, <2>4, <2>5, <2>6, <2>7, <2>8, <2>9, <2>10, <2>11, <2>12, FieldNames DEF IsImage, FieldDomain, FieldRange
<1>13. /\ img["available"]["inodes"] = NumInodes - 1 /\ img["available"]["blocks"] = NumBlocks
       /\ img.available["inodes"] = NumInodes - 1 /\ img.available["blocks"] = NumBlocks
  BY DEF EmptyImage
<1>14. \A i \in Inodes : img.extent_num[i] = 0 /\ img.num_dir_entry[i] = 0
  BY DEF EmptyImage
<1>15. InodeBits(img) = {0} /\ DataBits(img) = {}
  <2>1. \A i \in Inodes : img.inodeBit[i] <=> i = 0
    BY <1>1 DEF EmptyImage
  <2>2. \A b \in Blocks : ~img.dataBit[b]
    BY DEF EmptyImage
  <2>. HIDE DEF img
  <2>. QED  BY <1>1, <2>1, <2>2 DEF InodeBits, DataBits
<1>. HIDE DEF img
<1>4. \A i \in Inodes : img.extent_num[i] = 0
  BY <1>14
<1>5. Held(img)
  BY <1>4 DEF Held
<1>6. \A i \in Inodes : BlocksOf(img, i) = <<>>
  BY <1>3, <1>4, <1>5, BlocksView
<1>7. \A i \in Inodes : EntriesOf(img, i) = <<>>
  <2>. SUFFICES ASSUME NEW i \in Inodes PROVE EntriesOf(img, i) = <<>>
    OBVIOUS
  <2>1. UsesInto(img, i, Blocks)
    BY <1>4 DEF UsesInto, Uses
  <2>2. EntriesOf(img, i) \in Seq(Entry)
    BY <1>3, <1>5, <2>1, ViewOf
  <2>3. Len(EntriesOf(img, i)) = 0
    <3>1. BlocksOf(img, i) = <<>> /\ BlocksOf(img, i) \in Seq(Blocks)
      BY <1>3, <1>5, <1>6, <2>1, ViewOf
    <3>2. img.num_dir_entry[i] = 0
      BY <1>14
    <3>. DEFINE es == EntriesOf(img, i)
                bs == BlocksOf(img, i)
                q  == img.num_dir_entry[i]
    <3>3. Len(es) = IF q <= D * Len(bs) THEN (IF bs = <<>> THEN 0 ELSE q) ELSE D * Len(bs)
      BY <1>3, <3>1, EntriesView
    <3>4. Len(bs) = 0
      BY <3>1
    <3>5. D \in Nat
      BY DimensionsAssumption DEF D
    <3>. HIDE DEF es, bs, q
    <3>6. D * Len(bs) = 0
      BY <3>4, <3>5
    <3>. QED  BY <3>1, <3>3, <3>6 DEF es, bs
  <2>. QED  BY <2>2, <2>3, EmptySeq
<1>8. \A i \in Inodes : \A k : ~Uses(img, i, k) /\ ~Lists(img, i, k)
  <2>1. \A k : k \notin 1 .. 0
    OBVIOUS
  <2>2. Len(<<>>) = 0
    BY SeqOfFew
  <2>. QED  BY <1>4, <1>7, <2>1, <2>2 DEF Uses, Lists
<1>9. UsedBlocks(img) = {}
  BY <1>8 DEF UsedBlocks
<1>10. Room(img)
  BY <1>1, <1>9, <1>13, FS_EmptySet DEF Room
<1>11. Sound(img)
  <2>1. UsesApart(img) /\ \A i \in Inodes : UsesInto(img, i, DataBits(img))
    BY <1>8 DEF UsesApart, UsesInto
  <2>2. ListsApart(img) /\ \A i \in Inodes : ListsInto(img, i, InodeBits(img))
    BY <1>8 DEF ListsApart, ListsInto
  <2>. QED  BY <1>3, <1>5, <1>10, <2>1, <2>2, SoundIff
<1>12. Drifts(img, 0)
  <2>1. InodeBits(img) = {0} /\ DataBits(img) = {}
    BY <1>15
  <2>2. Cardinality({0}) = 1 /\ Cardinality({}) = 0
    BY FS_Singleton, FS_EmptySet
  <2>3. img.available["inodes"] = NumInodes - 1 /\ img.available["blocks"] = NumBlocks
    BY <1>13
  <2>4. InodeDrift(img) = 0 /\ BlockDrift(img) = 0
    BY <1>1, <2>1, <2>2, <2>3 DEF InodeDrift, BlockDrift
  <2>. QED  BY <2>4 DEF Drifts
<1>. QED  BY <1>11, <1>12 DEF img

-----------------------------------------------------------------------------
(* Every step keeps the invariant. *)

\* The trace of the stores a callback begins with.
LEMMA BeginTrace ==
  ASSUME NEW img, IsImage(img), NEW stores, WellTyped(stores)
  PROVE  \E A : Traced(A, img, stores) /\ Apply(img, stores) = A[Len(stores)]
<1>1. Len(stores) \in Nat /\ \A j \in 1 .. Len(stores) : Typed(stores[j])
  BY WellWhole DEF WellTyped
<1>2. PICK A : IsTrace(A, img, stores) /\ Apply(img, stores) = A[Len(stores)]
  BY <1>1, ApplyIsTraced
<1>3. \A k \in 0 .. Len(stores) : IsImage(A[k])
  BY <1>1, <1>2, TraceIsImages
<1>. QED  BY <1>1, <1>2, <1>3 DEF Traced

\* A trace starts with the image it is of.
LEMMA TracedStart ==
  ASSUME NEW A, NEW img, NEW stores, Traced(A, img, stores)
  PROVE  A[0] = img /\ Len(stores) \in Nat
BY TraceSteps DEF Traced

\* What the stores of an addition make of a sound image.
LEMMA AddedState ==
  ASSUME Sound(image), NEW n \in Nat, Drifts(image, n), NEW stores, Added(stores), stores # <<>>
  PROVE  State(image, stores, Apply(image, stores), "adding", n)
<1>1. WellTyped(stores) /\ IsImage(image)
  BY SoundView DEF Added
<1>2. PICK A : Traced(A, image, stores) /\ Apply(image, stores) = A[Len(stores)]
  BY <1>1, BeginTrace
<1>. DEFINE L == Len(stores)
<1>3. Steady(A, 0, L) /\ A[0] = image /\ L \in Nat
  BY <1>2, TracedStart DEF Added
<1>. HIDE DEF L
<1>4. \A i \in 0 .. L : Sound(A[i])
  BY <1>3 DEF Steady
<1>5. /\ \A i \in 0 .. L : /\ InodeDrift(A[i]) - InodeDrift(image) \in 0 .. 1
                           /\ BlockDrift(A[i]) - BlockDrift(image) \in 0 .. 1
                           /\ InodeDrift(A[i]) \in Int /\ BlockDrift(A[i]) \in Int
      /\ InodeDrift(A[L]) = InodeDrift(image) /\ BlockDrift(A[L]) = BlockDrift(image)
  <2>1. Neutral(A, 0, L)
    BY <1>3 DEF Steady
  <2>2. \A i \in 0 .. L : IsImage(A[i])
    BY <1>4, SoundView
  <2>. QED  BY <1>3, <2>1, <2>2, DriftInt DEF Neutral, Even
<1>6. InodeDrift(image) \in 0 .. n /\ BlockDrift(image) \in 0 .. n
  BY DEF Drifts
<1>7. \A i \in 0 .. L : Drifts(A[i], n + 1)
  <2>. SUFFICES ASSUME NEW i \in 0 .. L PROVE Drifts(A[i], n + 1)
    OBVIOUS
  <2>. DEFINE u == InodeDrift(A[i])
              v == BlockDrift(A[i])
  <2>1. u - InodeDrift(image) \in 0 .. 1 /\ v - BlockDrift(image) \in 0 .. 1 /\ u \in Int /\ v \in Int
    BY <1>5
  <2>. HIDE DEF u, v
  <2>2. u \in 0 .. n + 1 /\ v \in 0 .. n + 1
    BY <1>6, <2>1
  <2>. QED  BY <2>2 DEF u, v, Drifts
<1>8. Drifts(A[L], n)
  BY <1>5, <1>6 DEF Drifts
<1>9. OldOrNew(A, L)
  <2>. SUFFICES ASSUME NEW i \in 0 .. L - 1
                PROVE  Listing(A[i + 1]) = Listing(A[i]) \/ Listing(A[i + 1]) = Listing(A[L])
    BY DEF OldOrNew
  <2>. DEFINE h == i + 1
  <2>1. h \in 0 .. L /\ i \in 0 .. L /\ i < L /\ (h < L \/ h = L)
    BY <1>3
  <2>. HIDE DEF h
  <2>2. CASE h < L
    <3>1. SameListing(A[h]) /\ SameListing(A[i])
      BY <1>3, <2>1, <2>2 DEF Steady
    <3>2. \A x \in Inodes : ToSet(EntriesOf(A[h], x)) = ToSet(EntriesOf(A[i], x))
      BY <3>1 DEF SameListing
    <3>3. Listing(A[h]) = Listing(A[i])
      BY <3>2, ListingIs
    <3>. QED  BY <3>3 DEF h
  <2>3. CASE h = L
    BY <2>3 DEF h
  <2>. QED  BY <2>1, <2>2, <2>3
<1>10. Adding(A, L, n)
  BY <1>4, <1>7, <1>8, <1>9 DEF Adding
<1>. QED  BY <1>1, <1>2, <1>10 DEF State, L

\* What the stores of a removal make of one.
LEMMA RemovedState ==
  ASSUME Sound(image), NEW n \in Nat, Drifts(image, n), NEW stores, Removed(stores), stores # <<>>
  PROVE  State(image, stores, Apply(image, stores), "removing", n)
<1>1. WellTyped(stores) /\ IsImage(image)
  BY SoundView DEF Removed
<1>2. PICK A : Traced(A, image, stores) /\ Apply(image, stores) = A[Len(stores)]
  BY <1>1, BeginTrace
<1>. DEFINE L == Len(stores)
<1>3. Gone(A, L) /\ A[0] = image
  BY <1>2, TracedStart DEF Removed
<1>. HIDE DEF L
<1>4. OldOrNew(A, L) /\ Sound(A[L]) /\ \E p \in Inodes : \A i \in 0 .. L : Torn(A[i], p)
  BY <1>3 DEF Gone, OldOrNew
<1>5. Drifts(A[L], n)
  BY <1>3 DEF Gone, Even, Drifts
<1>6. Removing(A, L, n)
  BY <1>4, <1>5 DEF Removing
<1>. QED  BY <1>1, <1>2, <1>6 DEF State, L

\* The next store.
LEMMA StoreState ==
  ASSUME NEW img, NEW stores, NEW last, NEW kind, NEW n,
         State(img, stores, last, kind, n), stores # <<>>
  PROVE  State(Made(img, Head(stores)), Tail(stores), last,
               IF Len(stores) = 1 THEN "none" ELSE kind, n)
<1>. DEFINE L == Len(stores)
            U == Tail(stores)
            j == Made(img, Head(stores))
<1>1. PICK S : stores \in Seq(S)
  BY DEF State, WellTyped, IsSeq
<1>2. kind \in {"adding", "removing"} /\ n \in Nat /\ WellTyped(stores) /\ L \in Nat /\ L > 0
  <2>1. L \in Nat /\ L > 0
    BY <1>1, EmptySeq, LenProperties
  <2>. QED  BY <2>1 DEF State
<1>3. PICK A : /\ Traced(A, img, stores) /\ last = A[L]
               /\ kind = "adding" => Adding(A, L, n)
               /\ kind = "removing" => Removing(A, L, n)
  BY <1>2 DEF State
<1>. DEFINE B == [k \in 0 .. Len(U) |-> A[k + 1]]
<1>4. U \in Seq(S) /\ Len(U) = L - 1 /\ \A k \in 1 .. L - 1 : U[k] = stores[k + 1]
  BY <1>1, HeadTailProperties
<1>5. IsTrace(B, j, U)
  BY <1>1, <1>3, TraceTail DEF Traced
<1>6. \A k \in 0 .. L - 1 : B[k] = A[k + 1] /\ k + 1 \in 0 .. L
  BY <1>2, <1>4
<1>7. B[L - 1] = last /\ A[1] = j
  <2>1. L - 1 \in 0 .. L - 1 /\ L - 1 + 1 = L
    BY <1>2
  <2>2. A[1] = Made(A[0], stores[1]) /\ A[0] = img
    <3>1. A[0] = img /\ \A k \in 1 .. L : A[k] = Made(A[k - 1], stores[k])
      BY <1>2, <1>3, TraceSteps DEF Traced
    <3>2. 1 \in 1 .. L /\ 1 - 1 = 0
      BY <1>2
    <3>. HIDE DEF L
    <3>. QED  BY <3>1, <3>2
  <2>3. Head(stores) = stores[1]
    BY <1>1, HeadTailProperties
  <2>. HIDE DEF L, B
  <2>. QED  BY <1>3, <1>6, <2>1, <2>2, <2>3
<1>. HIDE DEF L, U, j, B
<1>8. \A k \in 0 .. L : IsImage(A[k])
  BY <1>3 DEF Traced, L
<1>9. Traced(B, j, U) /\ last = B[Len(U)]
  <2>1. \A k \in 0 .. L - 1 : IsImage(B[k])
    BY <1>6, <1>8
  <2>. QED  BY <1>2, <1>4, <1>5, <1>7, <2>1 DEF Traced
<1>10. IsImage(j) /\ WellTyped(U)
  <2>1. 1 \in 0 .. L
    BY <1>2
  <2>2. \A k \in 1 .. L - 1 : Typed(U[k])
    <3>1. \A k \in 1 .. L - 1 : k + 1 \in 1 .. L
      BY <1>2
    <3>2. \A k \in 1 .. L : Typed(stores[k])
      BY <1>2 DEF WellTyped, L
    <3>. QED  BY <1>4, <3>1, <3>2
  <2>. QED  BY <1>4, <1>7, <1>8, <2>1, <2>2 DEF WellTyped, IsSeq
<1>11. OldOrNew(A, L) => OldOrNew(B, L - 1)
  <2>. SUFFICES ASSUME OldOrNew(A, L), NEW i \in 0 .. L - 1 - 1
                PROVE  Listing(B[i + 1]) \in {Listing(B[i]), Listing(B[L - 1])}
    BY DEF OldOrNew
  <2>. DEFINE h == i + 1
  <2>1. /\ h \in 0 .. L - 1 /\ i \in 0 .. L - 1 /\ L - 1 \in 0 .. L - 1 /\ L - 1 + 1 = L
    BY <1>2
  <2>2. B[h] = A[h + 1] /\ B[i] = A[h] /\ B[L - 1] = A[L]
    BY <1>6, <2>1
  <2>. HIDE DEF h
  <2>3. Listing(A[h + 1]) \in {Listing(A[h]), Listing(A[L])}
    BY <2>1 DEF OldOrNew
  <2>. QED  BY <2>2, <2>3 DEF h
<1>12. kind = "adding" => Adding(B, L - 1, n)
  <2>. SUFFICES ASSUME kind = "adding" PROVE Adding(B, L - 1, n)
    OBVIOUS
  <2>1. Adding(A, L, n)
    BY <1>3
  <2>2. \A i \in 0 .. L - 1 : Sound(B[i]) /\ Drifts(B[i], n + 1)
    BY <1>6, <2>1 DEF Adding
  <2>3. B[L - 1] = A[L]
    BY <1>3, <1>7 DEF L
  <2>. QED  BY <1>11, <2>1, <2>2, <2>3 DEF Adding
<1>13. kind = "removing" => Removing(B, L - 1, n)
  <2>. SUFFICES ASSUME kind = "removing" PROVE Removing(B, L - 1, n)
    OBVIOUS
  <2>1. Removing(A, L, n)
    BY <1>3
  <2>2. PICK p \in Inodes : \A i \in 0 .. L : Torn(A[i], p)
    BY <2>1 DEF Removing
  <2>3. \A i \in 0 .. L - 1 : Torn(B[i], p)
    BY <1>6, <2>2
  <2>4. B[L - 1] = A[L]
    BY <1>3, <1>7 DEF L
  <2>. QED  BY <1>11, <2>1, <2>3, <2>4 DEF Removing
<1>14. CASE L = 1
  <2>1. U = <<>>
    <3>1. Len(U) = 0
      BY <1>4, <1>14
    <3>. QED  BY <1>4, <3>1, EmptySeq
  <2>2. j = A[L]
    BY <1>7, <1>14
  <2>3. Sound(A[L]) /\ Drifts(A[L], n)
    <3>1. L \in 0 .. L
      BY <1>2
    <3>. QED  BY <1>2, <1>3, <3>1 DEF Adding, Removing
  <2>4. State(j, U, last, "none", n)
    BY <1>2, <1>10, <2>1, <2>2, <2>3 DEF State
  <2>. QED  BY <1>14, <2>4 DEF L, U, j
<1>15. CASE L # 1
  <2>1. U # <<>>
    <3>1. Len(U) # 0
      BY <1>2, <1>4, <1>15
    <3>. QED  BY <1>4, <3>1, EmptySeq
  <2>2. State(j, U, last, kind, n)
    BY <1>2, <1>4, <1>9, <1>10, <1>12, <1>13, <2>1 DEF State
  <2>. QED  BY <1>15, <2>2 DEF L, U, j
<1>. QED  BY <1>14, <1>15

\* What a kill leaves.
LEMMA KillState ==
  ASSUME NEW img, NEW stores, NEW last, NEW kind, NEW n,
         State(img, stores, last, kind, n), stores # <<>>
  PROVE  State(img, <<>>, img, IF kind = "removing" THEN "cut" ELSE "none", n + 1)
<1>. DEFINE N == <<>>
<1>1. WellTyped(N)
  <2>1. IsSeq(N) /\ Len(N) = 0
    BY SeqOfFew
  <2>. HIDE DEF N
  <2>. QED  BY <2>1 DEF WellTyped
<1>2. kind \in {"adding", "removing"} /\ n + 1 \in Nat /\ IsImage(img)
  BY DEF State
<1>3. CASE kind = "adding"
  <2>1. PICK A : Traced(A, img, stores) /\ Adding(A, Len(stores), n)
    BY <1>3 DEF State
  <2>2. A[0] = img /\ Len(stores) \in Nat
    BY <2>1, TracedStart
  <2>3. 0 \in 0 .. Len(stores)
    BY <2>2
  <2>4. Sound(img) /\ Drifts(img, n + 1)
    BY <2>1, <2>2, <2>3 DEF Adding
  <2>. QED  BY <1>1, <1>2, <1>3, <2>4 DEF State
<1>4. CASE kind = "removing"
  <2>1. PICK A : Traced(A, img, stores) /\ Removing(A, Len(stores), n)
    BY <1>4 DEF State
  <2>2. A[0] = img /\ Len(stores) \in Nat
    BY <2>1, TracedStart
  <2>3. 0 \in 0 .. Len(stores)
    BY <2>2
  <2>4. \E p \in Inodes : Torn(img, p)
    BY <2>1, <2>2, <2>3 DEF Removing
  <2>. QED  BY <1>1, <1>2, <1>4, <2>4 DEF State
<1>. QED  BY <1>2, <1>3, <1>4

\* The driver starts on a formatted image.
LEMMA InitState == Init => IInv
<1>. SUFFICES ASSUME Init PROVE IInv
  OBVIOUS
<1>1. Sound(EmptyImage) /\ Drifts(EmptyImage, 0)
  BY EmptySound
<1>2. IsImage(EmptyImage)
  BY <1>1, SoundView
<1>3. WellTyped(<<>>)
  <2>1. Added(<<>>)
    BY AddedNothing, <1>1 DEF Init
  <2>. QED  BY <2>1 DEF Added
<1>. DEFINE z == EmptyImage
            N == <<>>
<1>. HIDE DEF z, N
<1>4. image = z /\ pending = N /\ work = "none" /\ kills = 0 /\ numOfDataBlocks = NumBlocks
  BY DEF Init, z, N
<1>5. State(image, pending, finished, work, kills)
  BY <1>1, <1>2, <1>3, <1>4 DEF State, z, N
<1>. QED  BY <1>4, <1>5, DimensionsAssumption DEF IInv, Orderly

\* An addition begins.
LEMMA AddKeeps ==
  ASSUME IInv, NEW p \in Inodes, NEW nm \in Names, NEW m \in {"dir", "reg"}, AddEntry(p, nm, m)
  PROVE  IInv'
<1>. SUFFICES ASSUME ~astray' PROVE Orderly'
  BY DEF IInv
<1>1. work = "none" /\ Orderly
  BY RunsIn DEF AddEntry, IInv
<1>2. /\ Sound(image) /\ kills \in Nat /\ Drifts(image, kills) /\ IsImage(image)
      /\ numOfDataBlocks \in Int /\ numOfDataBlocks <= NumBlocks /\ pending = <<>>
  BY <1>1 DEF Orderly, State
<1>3. AddsBegun
  BY <1>2, AdditionBegun
<1>4. PICK stores, s, r : Begin("adding", stores, s, r) /\ Added(stores)
  BY <1>3 DEF AddsBegun
<1>5. /\ pending' = stores /\ finished' = Apply(image, stores) /\ image' = image
      /\ work' = IF stores = <<>> THEN work ELSE "adding"
      /\ kills' = kills /\ numOfDataBlocks' = numOfDataBlocks
  BY <1>4 DEF Begin
<1>6. CASE stores = <<>>
  <2>1. WellTyped(stores)
    BY <1>4 DEF Added
  <2>2. State(image, stores, finished', "none", kills)
    BY <1>2, <1>6, <2>1 DEF State
  <2>3. State(image', pending', finished', work', kills')
    BY <1>1, <1>5, <1>6, <2>2
  <2>. QED  BY <1>2, <1>5, <2>3 DEF Orderly
<1>7. CASE stores # <<>>
  <2>1. State(image, stores, Apply(image, stores), "adding", kills)
    BY <1>2, <1>4, <1>7, AddedState
  <2>2. State(image', pending', finished', work', kills')
    BY <1>5, <1>7, <2>1
  <2>. QED  BY <1>2, <1>5, <2>2 DEF Orderly
<1>. QED  BY <1>6, <1>7

\* A removal begins.
LEMMA RemoveKeeps ==
  ASSUME IInv, NEW p \in Inodes, NEW nm \in Names, NEW m, RemoveNamed(p, nm, m)
  PROVE  IInv'
<1>. SUFFICES ASSUME ~astray' PROVE Orderly'
  BY DEF IInv
<1>1. work = "none" /\ Orderly
  BY RunsIn DEF RemoveNamed, IInv
<1>2. /\ Sound(image) /\ kills \in Nat /\ Drifts(image, kills) /\ IsImage(image)
      /\ numOfDataBlocks \in Int /\ numOfDataBlocks <= NumBlocks
      /\ pending = <<>> /\ WellTyped(pending)
  BY <1>1 DEF Orderly, State
<1>3. RemovesBegun
  BY <1>2, RemovalBegun
<1>4. PICK stores, s, r :
         Begin("removing", stores, s, r) /\ (stores = <<>> \/ Removed(stores))
  BY <1>3 DEF RemovesBegun
<1>5. /\ pending' = stores /\ finished' = Apply(image, stores) /\ image' = image
      /\ work' = IF stores = <<>> THEN work ELSE "removing"
      /\ kills' = kills /\ numOfDataBlocks' = numOfDataBlocks
  BY <1>4 DEF Begin
<1>6. CASE stores = <<>>
  <2>1. State(image, stores, finished', "none", kills)
    BY <1>2, <1>6 DEF State
  <2>2. State(image', pending', finished', work', kills')
    BY <1>1, <1>5, <1>6, <2>1
  <2>. QED  BY <1>2, <1>5, <2>2 DEF Orderly
<1>7. CASE stores # <<>>
  <2>1. State(image, stores, Apply(image, stores), "removing", kills)
    BY <1>2, <1>4, <1>7, RemovedState
  <2>2. State(image', pending', finished', work', kills')
    BY <1>5, <1>7, <2>1
  <2>. QED  BY <1>2, <1>5, <2>2 DEF Orderly
<1>. QED  BY <1>6, <1>7

\* A store is made.
LEMMA StoreKeeps ==
  ASSUME IInv, Store
  PROVE  IInv'
<1>. SUFFICES ASSUME Orderly, Store PROVE Orderly'
  BY DEF IInv, Store
<1>1. /\ pending # <<>> /\ image' = Made(image, Head(pending)) /\ pending' = Tail(pending)
      /\ work' = IF Len(pending) = 1 THEN "none" ELSE work
      /\ finished' = finished /\ kills' = kills /\ numOfDataBlocks' = numOfDataBlocks
  BY DEF Store, driverVars
<1>2. State(image, pending, finished, work, kills)
  BY DEF Orderly
<1>3. State(image', pending', finished', work', kills')
  BY <1>1, <1>2, StoreState
<1>4. work # "cut" /\ numOfDataBlocks \in Int /\ numOfDataBlocks <= NumBlocks
  BY <1>1, <1>2 DEF State, Orderly
<1>. QED  BY <1>1, <1>3, <1>4 DEF Orderly

\* The driver is killed.
LEMMA KillKeeps ==
  ASSUME IInv, Kill
  PROVE  IInv'
<1>. SUFFICES ASSUME Orderly, Kill PROVE Orderly'
  BY DEF IInv, Kill
<1>1. /\ pending # <<>> /\ image' = image /\ pending' = <<>> /\ finished' = image
      /\ work' = IF work = "removing" THEN "cut" ELSE "none"
      /\ kills' = kills + 1 /\ numOfDataBlocks' = numOfDataBlocks
  BY DEF Kill
<1>2. State(image, pending, finished, work, kills)
  BY DEF Orderly
<1>3. State(image, <<>>, image, IF work = "removing" THEN "cut" ELSE "none", kills + 1)
  BY <1>1, <1>2, KillState
<1>4. State(image', pending', finished', work', kills')
  BY <1>1, <1>3
<1>5. work # "cut" /\ numOfDataBlocks \in Int /\ numOfDataBlocks <= NumBlocks
  BY <1>1, <1>2 DEF State, Orderly
<1>. QED  BY <1>1, <1>4, <1>5 DEF Orderly

\* The image is mounted, and its counter of free blocks read.
LEMMA MountKeeps ==
  ASSUME IInv, Mount
  PROVE  IInv'
<1>. SUFFICES ASSUME Orderly, Mount PROVE Orderly'
  BY DEF IInv, Mount
<1>1. /\ image' = image /\ pending' = pending /\ finished' = finished /\ work' = work
      /\ kills' = kills /\ numOfDataBlocks' = AvailableBlocks
  BY DEF Mount
<1>2. State(image, pending, finished, work, kills) /\ pending = <<>> /\ IsImage(image)
  BY DEF Orderly, State, Mount
<1>3. State(image', pending', finished', work', kills')
  BY <1>1, <1>2
<1>4. AvailableBlocks = image.available["blocks"]
  BY DEF AvailableBlocks
<1>5. image.available["blocks"] \in Int
  BY <1>2, DriftInt
<1>6. work # "cut" => AvailableBlocks <= NumBlocks
  <2>. SUFFICES ASSUME work # "cut" PROVE AvailableBlocks <= NumBlocks
    OBVIOUS
  <2>1. Sound(image)
    BY <1>2 DEF State
  <2>2. Room(image)
    BY <2>1, SoundView
  <2>3. Cardinality(UsedBlocks(image)) \in Nat
    BY UsedBlocksFinite
  <2>. QED  BY <1>4, <1>5, <2>2, <2>3, DimensionsAssumption DEF Room
<1>. QED  BY <1>1, <1>3, <1>4, <1>5, <1>6 DEF Orderly

\* Until a callback begins where a kill left damage, the stores to come lead to a
\* sound image, over images that are sound or, in a removal, torn at one end.
THEOREM StoresInvariant == Spec => []IInv
<1>1. IInv /\ [Next]_vars => IInv'
  <2>. SUFFICES ASSUME IInv, [Next]_vars PROVE IInv'
    OBVIOUS
  <2>1. ASSUME NEW p \in Inodes, NEW nm \in Names, Mkdir(p, nm) PROVE IInv'
    BY <2>1, AddKeeps DEF Mkdir
  <2>2. ASSUME NEW p \in Inodes, NEW nm \in Names, Create(p, nm) PROVE IInv'
    BY <2>2, AddKeeps DEF Create
  <2>3. ASSUME NEW p \in Inodes, NEW nm \in Names, Rmdir(p, nm) PROVE IInv'
    BY <2>3, RemoveKeeps DEF Rmdir
  <2>4. ASSUME NEW p \in Inodes, NEW nm \in Names, Unlink(p, nm) PROVE IInv'
    BY <2>4, RemoveKeeps DEF Unlink
  <2>5. CASE Callback
    <3>1. PICK p \in Directories(image), nm \in Names :
             Mkdir(p, nm) \/ Create(p, nm) \/ Rmdir(p, nm) \/ Unlink(p, nm)
      BY <2>5 DEF Callback
    <3>2. p \in Inodes
      BY DEF Directories, Reached
    <3>. QED  BY <2>1, <2>2, <2>3, <2>4, <3>1, <3>2
  <2>6. CASE UNCHANGED vars
    BY <2>6 DEF IInv, Orderly, vars, driverVars
  <2>. QED
    BY <2>5, <2>6, StoreKeeps, KillKeeps, MountKeeps DEF Next
<1>. QED  BY <1>1, InitState, PTL DEF Spec

\* At every store of an addition, and after a kill there, each entry names an
\* allocated inode of its own and each block has one owner and its bit: until a
\* callback begins in the directory that the kill left damaged.
THEOREM AdditionsLeakAtMost == Spec => []AdditionsOnlyLeak
<1>1. IInv => AdditionsOnlyLeak
  <2>. SUFFICES ASSUME Orderly, work \notin {"removing", "cut"} PROVE Sound(image)
    BY DEF IInv, AdditionsOnlyLeak, Sound
  <2>1. CASE work = "none"
    BY <2>1 DEF Orderly, State
  <2>2. CASE work = "adding"
    <3>1. PICK A : Traced(A, image, pending) /\ Adding(A, Len(pending), kills)
      BY <2>2 DEF Orderly, State
    <3>2. A[0] = image /\ Len(pending) \in Nat
      BY <3>1, TracedStart
    <3>3. 0 \in 0 .. Len(pending)
      BY <3>2
    <3>. QED  BY <3>1, <3>2, <3>3 DEF Adding
  <2>. QED  BY <2>1, <2>2 DEF Orderly, State
<1>. QED  BY <1>1, StoresInvariant, PTL

\* While no removal is under way or was cut short, and until a callback begins in a
\* damaged directory, the superblock counts no fewer inodes and blocks than are
\* clear, and one more at most for the addition under way and for each cut short.
THEOREM CountersDriftAtMost == Spec => []CountersDrift
<1>1. IInv => CountersDrift
  <2>. SUFFICES ASSUME Orderly, ~astray, work \notin {"removing", "cut"} PROVE CountersDrift
    BY DEF IInv, CountersDrift
  <2>1. State(image, pending, finished, work, kills) /\ kills \in Nat
    BY DEF Orderly, State
  <2>. DEFINE cut == kills + (IF pending = <<>> THEN 0 ELSE 1)
  <2>2. Drifts(image, cut)
    <3>1. CASE work = "none"
      <4>1. cut = kills
        BY <2>1, <3>1 DEF State
      <4>2. Drifts(image, kills)
        BY <2>1, <3>1 DEF State
      <4>. QED  BY <4>1, <4>2
    <3>2. CASE work = "adding"
      <4>1. cut = kills + 1
        BY <2>1, <3>2 DEF State
      <4>2. PICK A : Traced(A, image, pending) /\ Adding(A, Len(pending), kills)
        BY <2>1, <3>2 DEF State
      <4>3. A[0] = image /\ Len(pending) \in Nat
        BY <4>2, TracedStart
      <4>4. 0 \in 0 .. Len(pending)
        BY <4>3
      <4>5. Drifts(image, kills + 1)
        BY <4>2, <4>3, <4>4 DEF Adding
      <4>. QED  BY <4>1, <4>5
    <3>. QED  BY <2>1, <3>1, <3>2 DEF State
  <2>. HIDE DEF cut
  <2>3. CountersDrift <=> Drifts(image, cut)
    BY DEF CountersDrift, Drifts, InodeDrift, BlockDrift, AvailableInodes, AvailableBlocks, cut
  <2>. QED  BY <2>2, <2>3
<1>. QED  BY <1>1, StoresInvariant, PTL

\* The image of a removal under way, and the one a kill there leaves to the next
\* mount, is torn at the end of one directory at most.
THEOREM RemovalsTearOneEnd == Spec => []RemovalsTearTheEnd
<1>1. IInv => RemovalsTearTheEnd
  <2>. SUFFICES ASSUME Orderly, work \in {"removing", "cut"}
                PROVE  \E p \in Inodes : Torn(image, p)
    BY DEF IInv, RemovalsTearTheEnd, Torn, Kept
  <2>1. State(image, pending, finished, work, kills)
    BY DEF Orderly
  <2>2. CASE work = "cut"
    BY <2>1, <2>2 DEF State
  <2>3. CASE work = "removing"
    <3>1. PICK A : Traced(A, image, pending) /\ Removing(A, Len(pending), kills)
      BY <2>1, <2>3 DEF State
    <3>2. A[0] = image /\ Len(pending) \in Nat
      BY <3>1, TracedStart
    <3>3. 0 \in 0 .. Len(pending)
      BY <3>2
    <3>. QED  BY <3>1, <3>2, <3>3 DEF Removing
  <2>. QED  BY <2>2, <2>3
<1>. QED  BY <1>1, StoresInvariant, PTL

\* One store makes the change of a callback visible to readdir, all of it, until a
\* callback begins where a kill left damage.
THEOREM ListingsAreOldOrNew == Spec => SeenOldOrNew
<1>1. IInv /\ [Next]_vars =>
        [pending # <<>> /\ ~astray => Listing(image') \in {Listing(image), Listing(finished)}]_vars
  <2>. SUFFICES ASSUME IInv, Next, pending # <<>>, ~astray
                PROVE  Listing(image') \in {Listing(image), Listing(finished)}
    OBVIOUS
  <2>1. CASE image' = image
    BY <2>1
  <2>2. CASE Store
    <3>1. State(image, pending, finished, work, kills) /\ image' = Made(image, Head(pending))
      BY <2>2 DEF IInv, Orderly, Store
    <3>2. work \in {"adding", "removing"}
      BY <3>1 DEF State
    <3>3. PICK A : /\ Traced(A, image, pending) /\ finished = A[Len(pending)]
                   /\ OldOrNew(A, Len(pending))
      BY <3>1, <3>2 DEF State, Adding, Removing
    <3>. DEFINE L == Len(pending)
    <3>4. A[0] = image /\ L \in Nat /\ L > 0
      <4>1. PICK S : pending \in Seq(S)
        BY <3>1 DEF State, WellTyped, IsSeq
      <4>2. L > 0
        BY <4>1, EmptySeq, LenProperties
      <4>. QED  BY <3>3, <4>2, TracedStart
    <3>5. A[1] = image'
      <4>1. A[0] = image /\ \A k \in 1 .. L : A[k] = Made(A[k - 1], pending[k])
        BY <3>3, <3>4, TraceSteps DEF Traced
      <4>2. 1 \in 1 .. L /\ 1 - 1 = 0
        BY <3>4
      <4>3. Head(pending) = pending[1]
        BY DEF Head
      <4>. HIDE DEF L
      <4>. QED  BY <3>1, <4>1, <4>2, <4>3
    <3>6. 0 \in 0 .. L - 1 /\ 0 + 1 = 1
      BY <3>4
    <3>7. Listing(A[0 + 1]) \in {Listing(A[0]), Listing(A[L])}
      <4>. HIDE DEF L
      <4>. QED  BY <3>3, <3>6 DEF OldOrNew, L
    <3>8. Listing(A[1]) \in {Listing(A[0]), Listing(A[L])}
      BY <3>6, <3>7
    <3>. QED  BY <3>3, <3>4, <3>5, <3>8
  <2>3. Store \/ image' = image
    BY DEF Next, Callback, Kill, Mount
  <2>. QED  BY <2>1, <2>2, <2>3
<1>. QED  BY <1>1, StoresInvariant, PTL DEF Spec, SeenOldOrNew

=============================================================================
