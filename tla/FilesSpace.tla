------------------------------ MODULE FilesSpace ------------------------------
(***************************************************************************)
(* Proofs about Files, for every value of the constants: until somebody    *)
(* makes a file of 2^32 bytes, the extents of each file hold what its size *)
(* needs, however it grows, shrinks and fails to grow; a failure loses no  *)
(* bytes; and the counter of free blocks promises none that is in use.     *)
(***************************************************************************)
EXTENDS Files, NamespaceTree

-----------------------------------------------------------------------------
(* Sums of block counts. *)

\* An extent of a file may start outside the image, where the driver overran it.
FileExtent == [start : Int, count : Nat]

\* c has the sum of f over each subset of X.
Splits(c, f, X) ==
    /\ c[{}] = 0
    /\ \A s \in SUBSET X : c[s] \in Nat
    /\ \A s \in SUBSET X : \A k \in s : c[s] = f[k] + c[s \ {k}]

\* Where no value is larger, no sum is: a least set with a larger one would have an
\* element to take out.
LEMMA SumsGrow ==
  ASSUME NEW X, IsFiniteSet(X), NEW f, NEW g, NEW c, NEW d,
         Splits(c, f, X), Splits(d, g, X),
         \A k \in X : f[k] \in Nat /\ g[k] \in Nat /\ f[k] <= g[k]
  PROVE  c[X] <= d[X]
<1>. DEFINE Bad == {n \in Nat : \E s \in SUBSET X : Cardinality(s) = n /\ ~(c[s] <= d[s])}
<1>1. \A s \in SUBSET X : IsFiniteSet(s) /\ Cardinality(s) \in Nat
  BY FS_Subset, FS_CardinalityType
<1>2. Bad = {}
  <2>. SUFFICES ASSUME Bad # {} PROVE FALSE
    OBVIOUS
  <2>1. PICK n \in Bad : \A j \in Bad : n <= j
    <3>1. Bad \in SUBSET Nat /\ Bad # {}
      OBVIOUS
    <3>. HIDE DEF Bad
    <3>. QED  BY <3>1, LeastElement
  <2>2. PICK s \in SUBSET X : Cardinality(s) = n /\ ~(c[s] <= d[s])
    BY <2>1
  <2>3. s # {}
    <3>1. c[{}] = 0 /\ d[{}] = 0
      BY DEF Splits
    <3>2. c[{}] <= d[{}]
      BY <3>1
    <3>. QED  BY <2>2, <3>2
  <2>4. PICK k \in s : TRUE
    BY <2>3
  <2>5. s \ {k} \in SUBSET X /\ Cardinality(s \ {k}) = n - 1 /\ n - 1 \in Nat
    <3>1. IsFiniteSet(s) /\ Cardinality(s \ {k}) \in Nat
      BY <1>1
    <3>. QED  BY <2>2, <2>4, <3>1, FS_RemoveElement
  <2>6. c[s \ {k}] <= d[s \ {k}]
    BY <2>1, <2>5
  <2>7. /\ c[s] = f[k] + c[s \ {k}] /\ d[s] = g[k] + d[s \ {k}]
        /\ c[s \ {k}] \in Nat /\ d[s \ {k}] \in Nat
    BY <2>4, <2>5 DEF Splits
  <2>8. f[k] \in Nat /\ g[k] \in Nat /\ f[k] <= g[k]
    BY <2>4
  <2>. QED  BY <2>2, <2>6, <2>7, <2>8
<1>3. Cardinality(X) \in Nat /\ Cardinality(X) \notin Bad
  BY <1>1, <1>2
<1>. QED  BY <1>3

\* Sums over a smaller set.
LEMMA SumsBelow ==
  ASSUME NEW X, NEW Y, Y \subseteq X, NEW f, NEW c, Splits(c, f, X)
  PROVE  Splits(c, f, Y)
BY DEF Splits

\* Extents are finitely many, and each has a count.
LEMMA FileExtentsFinite ==
  ASSUME NEW es \in Seq(FileExtent)
  PROVE  /\ Len(es) \in Nat /\ DOMAIN es = 1 .. Len(es) /\ IsFiniteSet(DOMAIN es)
         /\ \A k \in DOMAIN es : es[k] \in FileExtent /\ es[k].count \in Nat
<1>1. Len(es) \in Nat /\ DOMAIN es = 1 .. Len(es)
  BY LenProperties
<1>2. IsFiniteSet(1 .. Len(es))
  BY <1>1, FS_Interval
<1>3. \A k \in DOMAIN es : es[k] \in FileExtent
  BY <1>1, ElementOfSeq
<1>. QED  BY <1>1, <1>2, <1>3 DEF FileExtent

\* The blocks of extents are counted by a function with the sums over all subsets.
LEMMA FileBlocksSplit ==
  ASSUME NEW es \in Seq(FileExtent)
  PROVE  \E f, c : /\ f = [k \in DOMAIN es |-> es[k].count]
                   /\ Splits(c, f, DOMAIN es) /\ BlockSum(es) = c[DOMAIN es]
<1>. DEFINE X == DOMAIN es
            f == [k \in X |-> es[k].count]
<1>1. IsFiniteSet(DOMAIN es) /\ \A k \in DOMAIN es : es[k].count \in Nat
  BY FileExtentsFinite
<1>. HIDE DEF f
<1>2. \A k \in X : f[k] = es[k].count
  BY DEF f
<1>3. PICK c : /\ BlockSum(es) = c[X]
               /\ c[{}] = 0
               /\ \A s \in SUBSET X : c[s] \in Nat
               /\ \A s \in SUBSET X : \A k \in s : c[s] = es[k].count + c[s \ {k}]
  <2>1. \E c : /\ BlockSum(es) = c[DOMAIN es]
               /\ c[{}] = 0
               /\ \A s \in SUBSET DOMAIN es : c[s] \in Nat
               /\ \A s \in SUBSET DOMAIN es : \A k \in s : c[s] = es[k].count + c[s \ {k}]
    BY <1>1, BlocksSplit, ZenonT(40)
  <2>. QED  BY <2>1
<1>. HIDE DEF X
<1>4. Splits(c, f, X)
  BY <1>2, <1>3 DEF Splits
<1>5. f = [k \in DOMAIN es |-> es[k].count]
  BY DEF f, X
<1>6. Splits(c, f, DOMAIN es) /\ BlockSum(es) = c[DOMAIN es]
  BY <1>3, <1>4 DEF X
<1>. HIDE DEF f
<1>. QED  BY <1>5, <1>6

\* One more extent adds its count.
LEMMA BlocksAppended ==
  ASSUME NEW es \in Seq(FileExtent), NEW e \in FileExtent
  PROVE  /\ BlockSum(es) \in Nat
         /\ Append(es, e) \in Seq(FileExtent)
         /\ BlockSum(Append(es, e)) = BlockSum(es) + e.count
<1>. DEFINE q == Append(es, e)
            n == Len(es)
            X == DOMAIN es
            Y == DOMAIN q
<1>1. /\ q \in Seq(FileExtent) /\ Len(q) = n + 1
      /\ \A i \in 1 .. n : q[i] = es[i]
      /\ q[n + 1] = e
  BY AppendProperties
<1>. HIDE DEF q
<1>2. n \in Nat /\ X = 1 .. n /\ IsFiniteSet(X) /\ \A k \in X : es[k].count \in Nat
  BY FileExtentsFinite
<1>3. Y = 1 .. n + 1 /\ \A k \in Y : q[k].count \in Nat
  BY <1>1, FileExtentsFinite
<1>4. PICK f, c : /\ f = [k \in X |-> es[k].count]
                  /\ Splits(c, f, X) /\ BlockSum(es) = c[X]
  BY FileBlocksSplit
<1>5. PICK g, d : /\ g = [k \in Y |-> q[k].count]
                  /\ Splits(d, g, Y) /\ BlockSum(q) = d[Y]
  BY <1>1, FileBlocksSplit
<1>6. X \subseteq Y /\ n + 1 \in Y /\ Y \ {n + 1} = X
  BY <1>2, <1>3
<1>. HIDE DEF X, Y, n
<1>7. d[Y] = g[n + 1] + d[X] /\ g[n + 1] = e.count /\ d[X] \in Nat /\ c[X] \in Nat
  <2>1. Y \in SUBSET Y /\ X \in SUBSET Y /\ X \in SUBSET X
    BY <1>6
  <2>2. c[X] \in Nat
    BY <1>4, <2>1 DEF Splits
  <2>3. d[X] \in Nat /\ d[Y] = g[n + 1] + d[Y \ {n + 1}]
    BY <1>5, <1>6, <2>1 DEF Splits
  <2>4. g[n + 1] = q[n + 1].count
    BY <1>5, <1>6
  <2>. QED  BY <1>1, <1>6, <2>2, <2>3, <2>4
<1>8. ASSUME NEW k \in X PROVE f[k] = g[k] /\ f[k] \in Nat /\ g[k] \in Nat
  <2>1. f[k] = es[k].count /\ es[k].count \in Nat
    BY <1>2, <1>4
  <2>2. k \in Y /\ k \in 1 .. n
    BY <1>2, <1>6
  <2>3. g[k] = q[k].count /\ q[k] = es[k]
    BY <1>1, <1>5, <2>2
  <2>. QED  BY <2>1, <2>3
<1>9. Splits(c, f, X) /\ Splits(d, g, X) /\ IsFiniteSet(X)
  BY <1>2, <1>4, <1>5, <1>6, SumsBelow
<1>10. \A k \in X : /\ f[k] \in Nat /\ g[k] \in Nat /\ f[k] <= g[k]
                    /\ g[k] \in Nat /\ f[k] \in Nat /\ g[k] <= f[k]
  BY <1>8
<1>11. c[X] <= d[X]
  BY <1>9, <1>10, SumsGrow
<1>12. d[X] <= c[X]
  BY <1>9, <1>10, SumsGrow
<1>13. e.count \in Nat
  BY DEF FileExtent
<1>14. BlockSum(es) = c[X] /\ BlockSum(q) = d[Y]
  BY <1>4, <1>5
<1>15. BlockSum(q) = BlockSum(es) + e.count /\ BlockSum(es) \in Nat
  BY <1>7, <1>11, <1>12, <1>13, <1>14
<1>. QED  BY <1>1, <1>15 DEF q

\* No extents have no blocks.
LEMMA NoBlocks == BlockSum(<<>>) = 0
<1>1. \A es \in Seq(FileExtent) : Len(es) = 0 => BlockSum(es) = 0
  <2>. SUFFICES ASSUME NEW es \in Seq(FileExtent), Len(es) = 0 PROVE BlockSum(es) = 0
    OBVIOUS
  <2>1. DOMAIN es = {}
    BY FileExtentsFinite
  <2>2. PICK f, c : Splits(c, f, DOMAIN es) /\ BlockSum(es) = c[DOMAIN es]
    BY FileBlocksSplit
  <2>. QED  BY <2>1, <2>2 DEF Splits
<1>. QED  BY <1>1, EmptySeq

\* The first extents of a file, one more at a time.
LEMMA FirstExtents ==
  ASSUME NEW es \in Seq(FileExtent), NEW k \in 1 .. Len(es)
  PROVE  /\ SubSeq(es, 1, k - 1) \in Seq(FileExtent) /\ Len(SubSeq(es, 1, k - 1)) = k - 1
         /\ es[k] \in FileExtent
         /\ SubSeq(es, 1, k) = Append(SubSeq(es, 1, k - 1), es[k])
         /\ BlockSum(SubSeq(es, 1, k)) = BlockSum(SubSeq(es, 1, k - 1)) + es[k].count
         /\ BlockSum(SubSeq(es, 1, k - 1)) \in Nat
<1>. DEFINE r == SubSeq(es, 1, k - 1)
<1>1. Len(es) \in Nat /\ k \in Nat /\ 1 \in 1 .. Len(es) /\ k \in 1 .. Len(es) /\ k \in Int
  BY LenProperties
<1>2. \A i \in 1 .. k - 1 : es[i] \in FileExtent
  BY <1>1, ElementOfSeq
<1>3. r \in Seq(FileExtent) /\ Len(r) = k - 1
  <2>1. /\ r \in Seq(FileExtent)
        /\ Len(r) = IF 1 <= k - 1 THEN k - 1 - 1 + 1 ELSE 0
    BY <1>1, <1>2, SubSeqProperties
  <2>. QED  BY <1>1, <2>1
<1>4. es[k] \in FileExtent
  BY ElementOfSeq
<1>5. SubSeq(es, 1, k) = r \o <<es[k]>>
  BY <1>1, SubSeqRecursiveSecond
<1>6. Append(r, es[k]) = r \o <<es[k]>>
  BY <1>3, <1>4, AppendIsConcat
<1>. HIDE DEF r
<1>7. BlockSum(r) \in Nat /\ BlockSum(Append(r, es[k])) = BlockSum(r) + es[k].count
  BY <1>3, <1>4, BlocksAppended
<1>. QED  BY <1>3, <1>4, <1>5, <1>6, <1>7 DEF r

\* The k-th extent of a file becomes its last and gets m blocks.
LEMMA LastExtentResized ==
  ASSUME NEW es \in Seq(FileExtent), NEW k \in 1 .. Len(es), NEW m \in Nat
  PROVE  LET q == [SubSeq(es, 1, k) EXCEPT ![k].count = m]
         IN  /\ q \in Seq(FileExtent) /\ q # <<>>
             /\ BlockSum(q) = BlockSum(SubSeq(es, 1, k - 1)) + m
<1>. DEFINE r == SubSeq(es, 1, k - 1)
            p == SubSeq(es, 1, k)
            e == [es[k] EXCEPT !.count = m]
            q == [p EXCEPT ![k].count = m]
<1>1. /\ r \in Seq(FileExtent) /\ Len(r) = k - 1 /\ es[k] \in FileExtent
      /\ p = Append(r, es[k]) /\ k \in Nat
  BY FirstExtents, LenProperties
<1>2. e \in FileExtent /\ e.count = m
  BY <1>1 DEF FileExtent
<1>. HIDE DEF r, p
<1>3. /\ p \in Seq(FileExtent) /\ Len(p) = k
      /\ \A i \in 1 .. k - 1 : p[i] = r[i]
      /\ p[k] = es[k] /\ DOMAIN p = 1 .. k
  BY <1>1, AppendProperties, LenProperties
<1>4. q = [p EXCEPT ![k] = e]
  BY <1>3
<1>. HIDE DEF e, q
<1>5. /\ q \in Seq(FileExtent) /\ Len(q) = k
      /\ \A i \in 1 .. k : q[i] = IF i = k THEN e ELSE p[i]
  <2>1. k \in 1 .. Len(p)
    BY <1>3
  <2>2. /\ [p EXCEPT ![k] = e] \in Seq(FileExtent)
        /\ Len([p EXCEPT ![k] = e]) = Len(p)
        /\ \A j \in 1 .. Len(p) : [p EXCEPT ![k] = e][j] = IF j = k THEN e ELSE p[j]
    BY <1>2, <1>3, <2>1, ExceptSeq
  <2>. QED  BY <1>3, <1>4, <2>2
<1>6. /\ Append(r, e) \in Seq(FileExtent) /\ Len(Append(r, e)) = k
      /\ \A i \in 1 .. k - 1 : Append(r, e)[i] = r[i]
      /\ Append(r, e)[k] = e /\ Append(r, e) # <<>>
  BY <1>1, <1>2, AppendProperties
<1>7. q = Append(r, e)
  <2>1. \A i \in 1 .. k : q[i] = Append(r, e)[i]
    BY <1>1, <1>3, <1>5, <1>6
  <2>. QED  BY <1>5, <1>6, <2>1, SeqEqual
<1>8. BlockSum(q) = BlockSum(r) + m
  BY <1>1, <1>2, <1>7, BlocksAppended
<1>. QED  BY <1>5, <1>6, <1>7, <1>8 DEF q, p, r

-----------------------------------------------------------------------------
(* Sizes in blocks. *)

\* n bytes fill c blocks, which hold them and would not with one less.
LEMMA BlocksHold ==
  ASSUME NEW n \in Nat
  PROVE  \E c \in Nat : /\ BlocksToHold(n) = c
                        /\ n <= c * BlockSize /\ c * BlockSize < n + BlockSize
<1>. DEFINE b == BlockSize
            q == (n + b - 1) \div b
            r == (n + b - 1) % b
<1>1. b \in Nat /\ b > 0
  BY BlockSizeAssumption
<1>2. BlocksToHold(n) = q
  BY DEF BlocksToHold
<1>. HIDE DEF b
<1>3. q \in Int /\ r \in 0 .. b - 1 /\ n + b - 1 = b * q + r
  BY <1>1
<1>. HIDE DEF q, r
<1>4. q >= 0
  <2>. SUFFICES ASSUME q <= -1 PROVE FALSE
    BY <1>3
  <2>1. b * q <= b * (-1)
    BY <1>1, <1>3
  <2>. QED  BY <1>1, <1>3, <2>1
<1>5. n <= q * b /\ q * b < n + b
  BY <1>1, <1>3
<1>6. q \in Nat
  BY <1>3, <1>4
<1>. QED  BY <1>2, <1>5, <1>6 DEF b

\* c blocks that hold less are fewer.
LEMMA FewerBlocks ==
  ASSUME NEW c \in Nat, NEW d \in Nat, c * BlockSize < d * BlockSize + BlockSize
  PROVE  c <= d
<1>. DEFINE b == BlockSize
<1>1. b \in Nat /\ b > 0 /\ c * b < d * b + b
  BY BlockSizeAssumption
<1>. HIDE DEF b
<1>. SUFFICES ASSUME d + 1 <= c PROVE FALSE
  OBVIOUS
<1>2. (d + 1) * b <= c * b /\ (d + 1) * b = d * b + b
  BY <1>1
<1>3. (d + 1) * b \in Nat /\ c * b \in Nat /\ d * b \in Nat
  BY <1>1
<1>. QED  BY <1>1, <1>2, <1>3

\* More bytes fill no fewer blocks.
LEMMA MoreBytesMoreBlocks ==
  ASSUME NEW m \in Nat, NEW n \in Nat, m <= n
  PROVE  BlocksToHold(m) <= BlocksToHold(n)
<1>1. PICK c \in Nat : BlocksToHold(m) = c /\ c * BlockSize < m + BlockSize
  BY BlocksHold, Zenon
<1>2. PICK d \in Nat : BlocksToHold(n) = d /\ n <= d * BlockSize
  BY BlocksHold, Zenon
<1>. DEFINE x == c * BlockSize
            y == d * BlockSize
<1>3. x \in Nat /\ y \in Nat /\ BlockSize \in Nat /\ x < m + BlockSize /\ n <= y
  BY <1>1, <1>2, BlockSizeAssumption
<1>. HIDE DEF x, y
<1>4. x < y + BlockSize
  BY <1>3
<1>. QED  BY <1>1, <1>2, <1>4, FewerBlocks DEF x, y

\* Whole blocks hold what they hold.
LEMMA WholeBlocks ==
  ASSUME NEW c \in Nat
  PROVE  BlocksToHold(c * BlockSize) = c /\ (c * BlockSize) % BlockSize = 0
<1>1. BlockSize \in Nat /\ BlockSize > 0
  BY BlockSizeAssumption
<1>2. (c * BlockSize + BlockSize - 1) \div BlockSize = c /\ (c * BlockSize) % BlockSize = 0
  BY <1>1
<1>. QED  BY <1>2 DEF BlocksToHold

\* Only no bytes fill no blocks.
LEMMA NoBytesNoBlocks ==
  ASSUME NEW n \in Nat
  PROVE  BlocksToHold(n) \in Nat /\ (BlocksToHold(n) = 0 <=> n = 0)
<1>1. PICK c \in Nat : BlocksToHold(n) = c /\ n <= c * BlockSize
  BY BlocksHold, Zenon
<1>2. c = 0 => n = 0
  BY <1>1, BlockSizeAssumption
<1>3. BlocksToHold(0 * BlockSize) = 0
  BY WholeBlocks
<1>4. 0 * BlockSize = 0
  BY BlockSizeAssumption
<1>. QED  BY <1>1, <1>2, <1>3, <1>4

\* Bytes that c blocks hold, and one block less would not, fill c blocks.
LEMMA BlocksThatHold ==
  ASSUME NEW n \in Nat, NEW c \in Nat, n <= c * BlockSize, c * BlockSize < n + BlockSize
  PROVE  BlocksToHold(n) = c
<1>1. PICK d \in Nat : BlocksToHold(n) = d /\ n <= d * BlockSize /\ d * BlockSize < n + BlockSize
  BY BlocksHold, Zenon
<1>. DEFINE x == c * BlockSize
            y == d * BlockSize
<1>2. /\ x \in Nat /\ y \in Nat /\ BlockSize \in Nat
      /\ n <= x /\ x < n + BlockSize /\ n <= y /\ y < n + BlockSize
  BY <1>1, BlockSizeAssumption
<1>. HIDE DEF x, y
<1>3. x < y + BlockSize /\ y < x + BlockSize
  BY <1>2
<1>4. c <= d /\ d <= c
  BY <1>1, <1>3, FewerBlocks DEF x, y
<1>. QED  BY <1>1, <1>4

\* Bytes fill no more blocks than they are.
LEMMA NoMoreBlocksThanBytes == ASSUME NEW n \in Nat PROVE BlocksToHold(n) <= n
<1>1. PICK c \in Nat : BlocksToHold(n) = c /\ c * BlockSize < n + BlockSize
  BY BlocksHold, Zenon
<1>. DEFINE b == BlockSize
            x == n * b
<1>2. b \in Nat /\ b > 0 /\ x \in Nat /\ n <= x
  BY BlockSizeAssumption
<1>3. c * b < x + b
  BY <1>1, <1>2
<1>. HIDE DEF b
<1>4. c <= n
  BY <1>3, FewerBlocks DEF b, x
<1>. QED  BY <1>1, <1>4

\* Below 2^32 bytes, the count that truncate computes is the number of blocks they fill.
LEMMA CountIsBlocksToHold ==
  ASSUME NEW n \in Nat, n < WordSize
  PROVE  /\ new_file_block_count(n) = BlocksToHold(n)
         /\ BlocksToHold(n) \in Nat /\ BlocksToHold(n) < WordSize
<1>. DEFINE b == BlockSize
            q == n \div b
            r == n % b
            c == q + IF r = 0 THEN 0 ELSE 1
<1>1. b \in Nat /\ b > 0 /\ WordSize \in Nat
  BY BlockSizeAssumption, WordSizeAssumption
<1>2. n % WordSize = n
  <2>. DEFINE w == WordSize
              k == n \div w
              m == n % w
  <2>1. w \in Nat /\ w > 0 /\ n < w
    BY <1>1
  <2>. HIDE DEF w
  <2>2. k \in Int /\ m \in 0 .. w - 1 /\ n = w * k + m
    BY <2>1
  <2>. HIDE DEF k, m
  <2>3. k = 0
    <3>1. k >= 1 => w * k >= w
      BY <2>1, <2>2
    <3>2. k <= -1 => w * k <= -w
      BY <2>1, <2>2
    <3>. DEFINE x == w * k
    <3>3. x \in Int /\ n = x + m /\ (k >= 1 => x >= w) /\ (k <= -1 => x <= -w)
      BY <2>1, <2>2, <3>1, <3>2
    <3>. HIDE DEF x
    <3>. QED  BY <2>1, <2>2, <3>3
  <2>4. w * k = 0
    BY <2>1, <2>3
  <2>5. m = n
    BY <2>1, <2>2, <2>4
  <2>. QED  BY <2>5 DEF m, w
<1>3. new_file_block_count(n) = c
  BY <1>2 DEF new_file_block_count
<1>. HIDE DEF b
<1>4. q \in Int /\ r \in 0 .. b - 1 /\ n = b * q + r
  BY <1>1
<1>. HIDE DEF q, r
<1>5. q >= 0
  <2>. SUFFICES ASSUME q <= -1 PROVE FALSE
    BY <1>4
  <2>1. b * q <= b * (-1)
    BY <1>1, <1>4
  <2>. QED  BY <1>1, <1>4, <2>1
<1>6. c \in Nat /\ n <= c * b /\ c * b < n + b
  <2>1. CASE r = 0
    <3>1. c = q /\ q * b = b * q
      BY <1>1, <1>4, <2>1
    <3>. QED  BY <1>1, <1>4, <1>5, <2>1, <3>1
  <2>2. CASE r # 0
    <3>1. c = q + 1 /\ (q + 1) * b = b * q + b
      BY <1>1, <1>4, <2>2
    <3>. QED  BY <1>1, <1>4, <1>5, <2>2, <3>1
  <2>. QED  BY <2>1, <2>2
<1>. HIDE DEF c
<1>7. BlocksToHold(n) = c
  BY <1>6, BlocksThatHold DEF b
<1>8. c <= n
  BY <1>7, NoMoreBlocksThanBytes
<1>9. c < WordSize
  BY <1>1, <1>6, <1>8
<1>. QED  BY <1>3, <1>6, <1>7, <1>9

-----------------------------------------------------------------------------
(* Growth. *)

\* What growing_a_block_for_file works on: a file whose extents hold what its size needs.
Sound(s) ==
    /\ s = [bits |-> s.bits, free |-> s.free, size |-> s.size,
            indirect |-> s.indirect, extents |-> s.extents, outcome |-> s.outcome]
    /\ s.free \in Nat /\ s.size \in Nat
    /\ s.extents \in Seq(FileExtent)
    /\ BlockSum(s.extents) = BlocksToHold(s.size)

\* The blocks in use for a file with the extents es, its indirect block included.
UseOf(es) == IF es = <<>> THEN 0 ELSE 1 + BlockSum(es)

\* t is s after up to n growths: what the counter went down by covers what the file
\* gained, and a file that gained something ends with a block.
Grown(s, t, n) ==
    /\ Sound(t)
    /\ t.free + UseOf(t.extents) <= s.free + UseOf(s.extents)
    /\ t.size = s.size \/ (t.size > s.size /\ t.size % BlockSize = 0)
    /\ t.outcome = "ok" => BlockSum(t.extents) = BlockSum(s.extents) + n
    /\ t.outcome # "scribbled"

\* A search returns a number, whether it is one of a block or not.
LEMMA SearchIsInt == ASSUME numOfDataBlocks \in Nat, NEW bits PROVE Search(bits) \in Int
BY SearchFindsClear DEF Search, NotFound

\* One block more makes the size one of whole blocks, and larger than it was.
LEMMA OneBlockMore ==
  ASSUME NEW n \in Nat
  PROVE  LET m == (BlocksToHold(n) + 1) * BlockSize
         IN  /\ m \in Nat /\ BlocksToHold(m) = BlocksToHold(n) + 1
             /\ m > n /\ m % BlockSize = 0
<1>1. PICK c \in Nat : BlocksToHold(n) = c /\ n <= c * BlockSize
  BY BlocksHold, Zenon
<1>. DEFINE x == c * BlockSize
            y == (c + 1) * BlockSize
<1>2. /\ BlockSize \in Nat /\ BlockSize > 0 /\ x \in Nat /\ y = x + BlockSize
      /\ n <= x /\ c + 1 \in Nat
  BY <1>1, BlockSizeAssumption
<1>3. BlocksToHold(y) = c + 1 /\ y % BlockSize = 0
  BY <1>2, WholeBlocks
<1>. HIDE DEF x, y
<1>4. y \in Nat /\ y > n
  BY <1>2
<1>. QED  BY <1>1, <1>3, <1>4 DEF y

\* The first block of a file: two blocks leave the counter, its indirect block with it.
LEMMA GrowEmptyGrows ==
  ASSUME numOfDataBlocks \in Nat, NEW s, Sound(s), s.outcome = "ok", s.free > 1, s.size = 0
  PROVE  Grown(s, GrowEmpty(s), 1)
<1>. DEFINE ib == Search(s.bits)
            db == Search(set_bitmap(s.bits, ib))
            bits == set_bitmap(set_bitmap(s.bits, ib), ib)
            es == <<[start |-> db, count |-> 1]>>
<1>1. db \in Int
  BY SearchIsInt
<1>2. BlockSum(s.extents) = 0
  <2>1. BlocksToHold(0) = 0
    BY NoBytesNoBlocks
  <2>. QED  BY <2>1 DEF Sound
<1>3. es \in Seq(FileExtent) /\ BlockSum(es) = 1 /\ es # <<>>
  <2>. DEFINE e == [start |-> db, count |-> 1]
  <2>1. e \in FileExtent /\ e.count = 1
    BY <1>1 DEF FileExtent
  <2>. HIDE DEF e
  <2>2. <<>> \in Seq(FileExtent) /\ Append(<<>>, e) = <<e>>
    OBVIOUS
  <2>3. <<e>> \in Seq(FileExtent) /\ BlockSum(<<e>>) = 0 + 1 /\ <<e>> # <<>>
    BY <2>1, <2>2, NoBlocks, BlocksAppended
  <2>. QED  BY <2>3 DEF e
<1>4. BlockSize \in Nat /\ BlockSize > 0 /\ BlockSize % BlockSize = 0 /\ BlocksToHold(BlockSize) = 1
  <2>1. BlockSize \in Nat /\ BlockSize > 0
    BY BlockSizeAssumption
  <2>2. BlocksToHold(1 * BlockSize) = 1
    BY WholeBlocks
  <2>3. 1 * BlockSize = BlockSize /\ BlockSize % BlockSize = 0
    BY <2>1
  <2>. QED  BY <2>1, <2>2, <2>3
<1>5. UseOf(s.extents) >= 0 /\ UseOf(s.extents) \in Int
  BY <1>2 DEF UseOf
<1>6. CASE ib = NotFound
  <2>1. GrowEmpty(s) = [s EXCEPT !.outcome = "killed"]
    BY <1>6 DEF GrowEmpty
  <2>2. /\ GrowEmpty(s) = [bits |-> s.bits, free |-> s.free, size |-> s.size,
              indirect |-> s.indirect, extents |-> s.extents, outcome |-> "killed"]
    BY <2>1 DEF Sound
  <2>. QED  BY <1>5, <2>2 DEF Sound, Grown
<1>7. CASE ib # NotFound
  <2>. DEFINE o == IF db = NotFound THEN "killed" ELSE "ok"
  <2>1. GrowEmpty(s) = [bits |-> bits, free |-> s.free - 2, size |-> BlockSize,
              indirect |-> ib, extents |-> es, outcome |-> o]
    BY <1>7 DEF GrowEmpty
  <2>3. o # "scribbled"
    OBVIOUS
  <2>. HIDE DEF o, bits, ib, es
  <2>2. UseOf(es) = 2
    BY <1>3 DEF UseOf
  <2>. QED  BY <1>2, <1>3, <1>4, <1>5, <2>1, <2>2, <2>3 DEF Sound, Grown
<1>. QED  BY <1>6, <1>7

\* A growth that fails before anything is stored.
LEMMA NothingGrows ==
  ASSUME NEW s, Sound(s), NEW o, o \notin {"ok", "scribbled"}
  PROVE  Grown(s, [s EXCEPT !.outcome = o], 1)
<1>. DEFINE t == [s EXCEPT !.outcome = o]
<1>1. /\ t = [bits |-> s.bits, free |-> s.free, size |-> s.size,
              indirect |-> s.indirect, extents |-> s.extents, outcome |-> o]
  BY DEF Sound
<1>. HIDE DEF t
<1>2. /\ t.free = s.free /\ t.size = s.size /\ t.extents = s.extents /\ t.outcome = o
      /\ t = [bits |-> t.bits, free |-> t.free, size |-> t.size,
              indirect |-> t.indirect, extents |-> t.extents, outcome |-> t.outcome]
  BY <1>1
<1>3. s.free + UseOf(s.extents) \in Int
  <2>1. BlocksToHold(s.size) \in Nat
    BY NoBytesNoBlocks DEF Sound
  <2>. QED  BY <2>1 DEF Sound, UseOf
<1>4. Sound(t)
  BY <1>2 DEF Sound
<1>5. t.free + UseOf(t.extents) <= s.free + UseOf(s.extents)
  BY <1>2, <1>3
<1>6. t.outcome # "ok" /\ t.outcome # "scribbled" /\ t.size = s.size
  BY <1>2
<1>. QED  BY <1>4, <1>5, <1>6 DEF t, Grown

\* Extents that sum to one block more, for a file that had some.
LEMMA OneMoreGrows ==
  ASSUME NEW s, Sound(s), s.free > 0, s.size # 0,
         NEW es \in Seq(FileExtent), es # <<>>, BlockSum(es) = BlockSum(s.extents) + 1,
         NEW bits, NEW o, o # "scribbled"
  PROVE  Grown(s, [bits |-> bits, free |-> s.free - 1, size |-> (Blocks(s) + 1) * BlockSize,
                   indirect |-> s.indirect, extents |-> es, outcome |-> o], 1)
<1>. DEFINE c == BlockSum(s.extents)
            m == (c + 1) * BlockSize
            t == [bits |-> bits, free |-> s.free - 1, size |-> m,
                  indirect |-> s.indirect, extents |-> es, outcome |-> o]
<1>1. c = BlocksToHold(s.size) /\ s.size \in Nat /\ s.free \in Nat
  BY DEF Sound
<1>2. m \in Nat /\ BlocksToHold(m) = c + 1 /\ m > s.size /\ m % BlockSize = 0
  BY <1>1, OneBlockMore
<1>3. c \in Nat /\ c # 0
  BY <1>1, NoBytesNoBlocks
<1>4. s.extents # <<>>
  BY <1>3, NoBlocks
<1>5. UseOf(s.extents) = 1 + c /\ UseOf(es) = 2 + c
  BY <1>3, <1>4 DEF UseOf
<1>6. Blocks(s) = c
  BY DEF Blocks, BlockSum
<1>. HIDE DEF c, m
<1>7. /\ t.free = s.free - 1 /\ t.size = m /\ t.extents = es /\ t.outcome = o
      /\ t = [bits |-> t.bits, free |-> t.free, size |-> t.size,
              indirect |-> t.indirect, extents |-> t.extents, outcome |-> t.outcome]
  OBVIOUS
<1>8. BlockSum(es) = c + 1
  BY DEF c
<1>. HIDE DEF t
<1>9. Sound(t)
  BY <1>1, <1>2, <1>7, <1>8 DEF Sound
<1>10. t.free + UseOf(t.extents) <= s.free + UseOf(s.extents)
  BY <1>1, <1>3, <1>5, <1>7
<1>11. /\ t.size > s.size /\ t.size % BlockSize = 0 /\ t.outcome # "scribbled"
       /\ BlockSum(t.extents) = BlockSum(s.extents) + 1
  BY <1>2, <1>7
<1>12. Grown(s, t, 1)
  BY <1>9, <1>10, <1>11 DEF Grown
<1>. QED  BY <1>6, <1>12 DEF t, m

\* The last extent takes the block after it.
LEMMA GrowLastExtentGrows ==
  ASSUME NEW s, Sound(s), s.free > 0, s.size # 0
  PROVE  Grown(s, GrowLastExtent(s), 1)
<1>. DEFINE es == s.extents
            l == Len(es)
            longer == [es EXCEPT ![l].count = @ + 1]
            b == LastBlock(s) + 1
            o == IF b < NumBlocks THEN "ok" ELSE "outside"
<1>1. /\ es \in Seq(FileExtent) /\ s.size \in Nat /\ BlockSum(es) = BlocksToHold(s.size)
      /\ l \in Nat /\ DOMAIN es = 1 .. l
  BY FileExtentsFinite DEF Sound
<1>2. BlocksToHold(s.size) \in Nat /\ BlocksToHold(s.size) # 0
  BY <1>1, NoBytesNoBlocks
<1>3. es # <<>>
  BY <1>1, <1>2, NoBlocks
<1>4. l \in 1 .. l /\ l \in DOMAIN es
  BY <1>1, <1>3, EmptySeq
<1>5. es[l].count \in Nat
  BY <1>1, <1>4, FileExtentsFinite
<1>6. SubSeq(es, 1, l) = es
  BY <1>1, SubSeqFull
<1>. DEFINE m == es[l].count + 1
<1>7. m \in Nat
  BY <1>5
<1>8. /\ [SubSeq(es, 1, l) EXCEPT ![l].count = m] \in Seq(FileExtent)
      /\ [SubSeq(es, 1, l) EXCEPT ![l].count = m] # <<>>
      /\ BlockSum([SubSeq(es, 1, l) EXCEPT ![l].count = m])
            = BlockSum(SubSeq(es, 1, l - 1)) + m
  <2>. HIDE DEF es, l, m
  <2>. QED  BY <1>1, <1>4, <1>7, LastExtentResized DEF l
<1>9. /\ BlockSum(SubSeq(es, 1, l)) = BlockSum(SubSeq(es, 1, l - 1)) + es[l].count
      /\ BlockSum(SubSeq(es, 1, l - 1)) \in Nat
  <2>. HIDE DEF es
  <2>. QED  BY <1>1, <1>4, FirstExtents
<1>10. longer = [SubSeq(es, 1, l) EXCEPT ![l].count = m]
  BY <1>6
<1>11. /\ longer \in Seq(FileExtent) /\ longer # <<>>
       /\ BlockSum(longer) = BlockSum(SubSeq(es, 1, l - 1)) + m
  <2>. HIDE DEF longer, es, m, l
  <2>. QED  BY <1>8, <1>10
<1>12. BlockSum(longer) = BlockSum(es) + 1
  <2>. DEFINE x == BlockSum(SubSeq(es, 1, l - 1))
  <2>1. BlockSum(es) = x + es[l].count /\ x \in Nat
    BY <1>6, <1>9
  <2>2. BlockSum(longer) = x + (es[l].count + 1)
    BY <1>11
  <2>. HIDE DEF longer, es, l, x
  <2>. QED  BY <1>5, <2>1, <2>2
<1>13. GrowLastExtent(s) =
          [bits |-> set_bitmap(s.bits, b), free |-> s.free - 1,
           size |-> (Blocks(s) + 1) * BlockSize,
           indirect |-> s.indirect, extents |-> longer, outcome |-> o]
  <2>1. s = [bits |-> s.bits, free |-> s.free, size |-> s.size,
             indirect |-> s.indirect, extents |-> s.extents, outcome |-> s.outcome]
    BY DEF Sound
  <2>2. GrowLastExtent(s) =
           [s EXCEPT !.bits = set_bitmap(s.bits, b), !.free = s.free - 1,
                     !.size = (Blocks(s) + 1) * BlockSize,
                     !.extents = longer, !.outcome = o]
    BY DEF GrowLastExtent
  <2>. HIDE DEF longer, b, o
  <2>. QED  BY <2>1, <2>2
<1>14. o # "scribbled"
  OBVIOUS
<1>. HIDE DEF longer, b, o
<1>. QED  BY <1>11, <1>12, <1>13, <1>14, OneMoreGrows

\* The first free block starts an extent.
LEMMA GrowNewExtentGrows ==
  ASSUME numOfDataBlocks \in Nat, NEW s, Sound(s), s.free > 0, s.size # 0, s.outcome = "ok"
  PROVE  Grown(s, GrowNewExtent(s), 1)
<1>. DEFINE b == Search(s.bits)
            e == [start |-> b, count |-> 1]
            more == Append(s.extents, e)
<1>1. s.extents \in Seq(FileExtent) /\ b \in Int
  BY SearchIsInt DEF Sound
<1>. HIDE DEF b
<1>2. e \in FileExtent /\ e.count = 1
  BY <1>1 DEF FileExtent
<1>. HIDE DEF e
<1>3. more \in Seq(FileExtent) /\ BlockSum(more) = BlockSum(s.extents) + 1 /\ more # <<>>
  BY <1>1, <1>2, BlocksAppended, AppendProperties
<1>. HIDE DEF more
<1>4. CASE GrowNewExtent(s) = [s EXCEPT !.outcome = "ENOSPC"]
  BY <1>4, NothingGrows
<1>5. CASE GrowNewExtent(s) = [s EXCEPT !.outcome = "killed"]
  BY <1>5, NothingGrows
<1>6. CASE GrowNewExtent(s) =
             [bits |-> set_bitmap(s.bits, b), free |-> s.free - 1,
              size |-> (Blocks(s) + 1) * BlockSize,
              indirect |-> s.indirect, extents |-> more, outcome |-> s.outcome]
  BY <1>3, <1>6, OneMoreGrows
<1>7. \/ GrowNewExtent(s) = [s EXCEPT !.outcome = "ENOSPC"]
      \/ GrowNewExtent(s) = [s EXCEPT !.outcome = "killed"]
      \/ GrowNewExtent(s) =
             [bits |-> set_bitmap(s.bits, b), free |-> s.free - 1,
              size |-> (Blocks(s) + 1) * BlockSize,
              indirect |-> s.indirect, extents |-> more, outcome |-> s.outcome]
  <2>1. s = [bits |-> s.bits, free |-> s.free, size |-> s.size,
             indirect |-> s.indirect, extents |-> s.extents, outcome |-> s.outcome]
    BY DEF Sound
  <2>. QED  BY <2>1 DEF GrowNewExtent, b, e, more
<1>. QED  BY <1>4, <1>5, <1>6, <1>7

\* A file's extents hold its size, and it has some if it has a size.
LEMMA SizeIsHeld ==
  ASSUME NEW s, Sound(s)
  PROVE  (s.size # 0 => s.extents # <<>>) /\ ~(s.size > Blocks(s) * BlockSize)
<1>1. /\ s.size \in Nat /\ s.extents \in Seq(FileExtent)
      /\ BlockSum(s.extents) = BlocksToHold(s.size)
  BY DEF Sound
<1>2. PICK c \in Nat : BlocksToHold(s.size) = c /\ s.size <= c * BlockSize
  BY <1>1, BlocksHold, Zenon
<1>3. s.size # 0 => BlocksToHold(s.size) # 0
  BY <1>1, NoBytesNoBlocks
<1>4. s.size # 0 => s.extents # <<>>
  BY <1>1, <1>3, NoBlocks
<1>5. Blocks(s) = c
  BY <1>1, <1>2 DEF Blocks, BlockSum
<1>. DEFINE x == c * BlockSize
<1>6. x \in Nat /\ s.size <= x
  BY <1>2, BlockSizeAssumption
<1>. HIDE DEF x
<1>7. ~(s.size > x)
  BY <1>1, <1>6
<1>. QED  BY <1>4, <1>5, <1>7 DEF x

\* One growth, whichever way it goes.
LEMMA OneGrowth ==
  ASSUME numOfDataBlocks \in Nat, NEW s, Sound(s), s.outcome = "ok"
  PROVE  Grown(s, growing_a_block_for_file(s), 1)
<1>1. s.free \in Nat /\ s.size \in Nat
  BY DEF Sound
<1>. DEFINE t == growing_a_block_for_file(s)
            over == s.size > Blocks(s) * BlockSize
            set == is_bit_set(LastBlock(s) + 1, s.bits)
<1>2. (s.size # 0 => s.extents # <<>>) /\ ~over
  BY SizeIsHeld
<1>3. t = CASE s.free = 0 -> [s EXCEPT !.outcome = "ENOSPC"]
            [] s.free = 1 /\ s.size = 0 -> [s EXCEPT !.outcome = "ENOSPC"]
            [] s.free > 1 /\ s.size = 0 -> GrowEmpty(s)
            [] s.free > 0 /\ s.size # 0 /\ s.extents = <<>> -> [s EXCEPT !.outcome = "outside"]
            [] s.free > 0 /\ s.extents # <<>> /\ over
                 /\ s.size % BlockSize # 0 -> [s EXCEPT !.outcome = "overrun"]
            [] OTHER -> IF set THEN GrowNewExtent(s) ELSE GrowLastExtent(s)
  BY DEF growing_a_block_for_file
<1>. HIDE DEF t, over, set
<1>4. \/ t = [s EXCEPT !.outcome = "ENOSPC"]
      \/ s.free > 1 /\ s.size = 0 /\ t = GrowEmpty(s)
      \/ s.free > 0 /\ s.size # 0 /\ t = GrowLastExtent(s)
      \/ s.free > 0 /\ s.size # 0 /\ t = GrowNewExtent(s)
  <2>1. CASE s.free = 0
    <3>1. t = [s EXCEPT !.outcome = "ENOSPC"]
      BY <1>3, <2>1
    <3>. QED  BY <3>1
  <2>2. CASE s.free = 1 /\ s.size = 0
    <3>1. t = [s EXCEPT !.outcome = "ENOSPC"]
      BY <1>2, <1>3, <2>2
    <3>. QED  BY <3>1
  <2>3. CASE s.free > 1 /\ s.size = 0
    <3>1. t = GrowEmpty(s)
      BY <1>2, <1>3, <2>3
    <3>. QED  BY <2>3, <3>1
  <2>4. CASE s.free > 0 /\ s.size # 0
    <3>1. t = IF set THEN GrowNewExtent(s) ELSE GrowLastExtent(s)
      BY <1>2, <1>3, <2>4
    <3>. QED  BY <2>4, <3>1
  <2>. QED  BY <1>1, <2>1, <2>2, <2>3, <2>4
<1>5. Grown(s, t, 1)
  BY <1>4, NothingGrows, GrowEmptyGrows, GrowLastExtentGrows, GrowNewExtentGrows
<1>. QED  BY <1>5 DEF t

\* What n growths in a row leave is made of what n - 1 left.
GrowStep(s, g, k) ==
    IF k = 0 THEN s
    ELSE IF g[k - 1].outcome # "ok" THEN g[k - 1]
    ELSE growing_a_block_for_file(g[k - 1])

\* g is what Grow computes, up to n calls.
Grows(s, g, n) == g = [k \in 0 .. n |-> GrowStep(s, g, k)]

\* It exists: there is no least number of calls without one.
LEMMA GrowthsExist ==
  ASSUME NEW s
  PROVE  \A n \in Nat : \E g : Grows(s, g, n)
<1>. DEFINE Bad == {n \in Nat : ~\E g : Grows(s, g, n)}
<1>. SUFFICES ASSUME Bad # {} PROVE FALSE
  OBVIOUS
<1>1. PICK n \in Bad : \A j \in Bad : n <= j
  BY LeastElement
<1>2. n # 0
  <2>. DEFINE h == [k \in 0 .. 0 |-> s]
  <2>1. \A k \in 0 .. 0 : GrowStep(s, h, k) = s
    BY DEF GrowStep
  <2>2. h = [k \in 0 .. 0 |-> GrowStep(s, h, k)]
    BY <2>1
  <2>3. Grows(s, h, 0)
    BY <2>2 DEF Grows
  <2>. QED  BY <1>1, <2>3
<1>3. n - 1 \in Nat /\ n - 1 \notin Bad
  BY <1>1, <1>2
<1>4. PICK g : Grows(s, g, n - 1)
  BY <1>3
<1>. DEFINE h == [k \in 0 .. n |-> GrowStep(s, g, k)]
<1>5. \A k \in 0 .. n - 1 : g[k] = GrowStep(s, g, k)
  BY <1>4 DEF Grows
<1>6. ASSUME NEW k \in 0 .. n
      PROVE  GrowStep(s, h, k) = GrowStep(s, g, k)
  <2>1. CASE k = 0
    BY <2>1 DEF GrowStep
  <2>2. CASE k > 0
    <3>1. k - 1 \in 0 .. n - 1 /\ k - 1 \in 0 .. n
      BY <1>1, <2>2
    <3>2. h[k - 1] = g[k - 1]
      BY <1>5, <3>1
    <3>. HIDE DEF h
    <3>. QED  BY <2>2, <3>2 DEF GrowStep
  <2>. QED  BY <1>1, <2>1, <2>2
<1>7. h = [k \in 0 .. n |-> GrowStep(s, h, k)]
  BY <1>6
<1>8. Grows(s, h, n)
  BY <1>7 DEF Grows
<1>. QED  BY <1>1, <1>8

\* Grow takes the last value of that function.
LEMMA GrowIsGrowth ==
  ASSUME NEW s, NEW n \in Nat
  PROVE  \E g : Grows(s, g, n) /\ Grow(s, n) = g[n]
<1>. DEFINE Step(g) == [k \in 0 .. n |->
                          IF k = 0 THEN s
                          ELSE LET t == g[k - 1]
                               IN  IF t.outcome # "ok" THEN t
                                   ELSE growing_a_block_for_file(t)]
            grown == CHOOSE g : g = Step(g)
<1>1. Grow(s, n) = grown[n]
  BY DEF Grow
<1>2. \A g : g = Step(g) <=> Grows(s, g, n)
  BY DEF Grows, GrowStep
<1>. HIDE DEF Step
<1>3. \E g : g = Step(g)
  BY <1>2, GrowthsExist
<1>4. grown = Step(grown)
  BY <1>3
<1>. HIDE DEF grown
<1>. QED  BY <1>1, <1>2, <1>4

\* The growths of a growth are growths.
LEMMA GrownOnce ==
  ASSUME NEW s, Sound(s), NEW t, NEW u, NEW n \in Nat,
         Grown(s, t, n), t.outcome = "ok", Grown(t, u, 1)
  PROVE  Grown(s, u, n + 1)
<1>1. /\ Sound(t) /\ Sound(u)
      /\ t.free + UseOf(t.extents) <= s.free + UseOf(s.extents)
      /\ u.free + UseOf(u.extents) <= t.free + UseOf(t.extents)
      /\ t.size = s.size \/ (t.size > s.size /\ t.size % BlockSize = 0)
      /\ u.size = t.size \/ (u.size > t.size /\ u.size % BlockSize = 0)
      /\ BlockSum(t.extents) = BlockSum(s.extents) + n
      /\ u.outcome = "ok" => BlockSum(u.extents) = BlockSum(t.extents) + 1
      /\ u.outcome # "scribbled"
  BY DEF Grown
<1>2. ASSUME NEW r, Sound(r)
      PROVE  /\ r.free \in Nat /\ r.size \in Nat /\ BlockSum(r.extents) \in Nat
             /\ UseOf(r.extents) \in Nat
  <2>1. BlockSum(r.extents) \in Nat
    BY <1>2, NoBytesNoBlocks DEF Sound
  <2>. QED  BY <1>2, <2>1 DEF Sound, UseOf
<1>3. u.free + UseOf(u.extents) <= s.free + UseOf(s.extents)
  BY <1>1, <1>2
<1>4. u.size = s.size \/ (u.size > s.size /\ u.size % BlockSize = 0)
  <2>1. s.size \in Nat /\ t.size \in Nat /\ u.size \in Nat
    BY <1>1, <1>2
  <2>. QED  BY <1>1, <2>1
<1>5. u.outcome = "ok" => BlockSum(u.extents) = BlockSum(s.extents) + (n + 1)
  BY <1>1, <1>2
<1>. QED  BY <1>1, <1>3, <1>4, <1>5 DEF Grown

\* Any number of growths, stopped by the first that fails.
LEMMA GrowGrows ==
  ASSUME numOfDataBlocks \in Nat, NEW s, Sound(s), s.outcome = "ok", NEW n \in Nat
  PROVE  Grown(s, Grow(s, n), n)
<1>1. PICK g : Grows(s, g, n) /\ Grow(s, n) = g[n]
  BY GrowIsGrowth
<1>. DEFINE Bad == {k \in 0 .. n : ~Grown(s, g[k], k)}
<1>2. \A k \in 0 .. n : g[k] = GrowStep(s, g, k)
  BY <1>1 DEF Grows
<1>3. Bad = {}
  <2>. SUFFICES ASSUME Bad # {} PROVE FALSE
    OBVIOUS
  <2>1. PICK k \in Bad : \A j \in Bad : k <= j
    <3>1. Bad \in SUBSET Nat
      OBVIOUS
    <3>. HIDE DEF Bad
    <3>. QED  BY <3>1, LeastElement
  <2>2. k # 0
    <3>1. g[0] = s
      BY <1>2 DEF GrowStep
    <3>2. Grown(s, s, 0)
      <4>1. BlockSum(s.extents) \in Nat
        BY NoBytesNoBlocks DEF Sound
      <4>. QED  BY <4>1 DEF Sound, Grown, UseOf
    <3>. QED  BY <2>1, <3>1, <3>2
  <2>3. k - 1 \in 0 .. n /\ k - 1 \in Nat /\ k - 1 \notin Bad /\ k \in 0 .. n
    BY <2>1, <2>2
  <2>. DEFINE t == g[k - 1]
  <2>4. Grown(s, t, k - 1) /\ Sound(t)
    BY <2>3 DEF Grown
  <2>5. g[k] = IF t.outcome # "ok" THEN t ELSE growing_a_block_for_file(t)
    BY <1>2, <2>2, <2>3 DEF GrowStep
  <2>. HIDE DEF t
  <2>6. Grown(s, g[k], k)
    <3>1. CASE t.outcome = "ok"
      <4>1. Grown(t, growing_a_block_for_file(t), 1)
        BY <2>4, <3>1, OneGrowth
      <4>2. Grown(s, g[k], (k - 1) + 1)
        BY <2>3, <2>4, <2>5, <3>1, <4>1, GrownOnce
      <4>. QED  BY <2>3, <4>2
    <3>2. CASE t.outcome # "ok"
      BY <2>4, <2>5, <3>2 DEF Grown
    <3>. QED  BY <3>1, <3>2
  <2>. QED  BY <2>1, <2>6
<1>. QED  BY <1>1, <1>3

-----------------------------------------------------------------------------
(* Shrinking. *)

\* Some extent is the first in which the kept blocks end.
LEMMA TargetExtent ==
  ASSUME NEW es \in Seq(FileExtent), es # <<>>, NEW kept \in Nat, kept <= BlockSum(es),
         NEW upto, \A k \in 0 .. Len(es) : upto[k] = BlockSum(SubSeq(es, 1, k))
  PROVE  /\ \E i \in DOMAIN es : upto[i] >= kept /\ \A j \in 1 .. i - 1 : upto[j] < kept
         /\ \A i \in DOMAIN es :
               (upto[i] >= kept /\ \A j \in 1 .. i - 1 : upto[j] < kept) =>
                  /\ i \in 1 .. Len(es)
                  /\ upto[i - 1] \in Nat /\ upto[i - 1] <= kept
<1>. DEFINE l == Len(es)
            Ends == {i \in 1 .. l : upto[i] >= kept}
<1>1. l \in Nat /\ DOMAIN es = 1 .. l /\ l # 0
  BY FileExtentsFinite, EmptySeq
<1>. HIDE DEF l
<1>2. upto[l] = BlockSum(es) /\ BlockSum(es) \in Nat
  <2>1. SubSeq(es, 1, l) = es
    BY SubSeqFull DEF l
  <2>2. l \in 1 .. Len(es)
    BY <1>1 DEF l
  <2>3. BlockSum(SubSeq(es, 1, l)) =
           BlockSum(SubSeq(es, 1, l - 1)) + es[l].count
        /\ BlockSum(SubSeq(es, 1, l - 1)) \in Nat
    BY <2>2, FirstExtents
  <2>4. es[l].count \in Nat
    BY <1>1, FileExtentsFinite
  <2>5. BlockSum(es) \in Nat
    <3>. DEFINE x == BlockSum(SubSeq(es, 1, l - 1))
    <3>1. x \in Nat /\ BlockSum(es) = x + es[l].count
      BY <2>1, <2>3
    <3>. HIDE DEF x
    <3>. QED  BY <2>4, <3>1
  <2>6. l \in 0 .. Len(es)
    BY <1>1 DEF l
  <2>7. upto[l] = BlockSum(SubSeq(es, 1, l))
    BY <2>6
  <2>. QED  BY <2>1, <2>5, <2>7
<1>3. \A i \in 1 .. l : upto[i - 1] \in Nat
  <2>. SUFFICES ASSUME NEW i \in 1 .. l PROVE upto[i - 1] \in Nat
    OBVIOUS
  <2>1. BlockSum(SubSeq(es, 1, i - 1)) \in Nat
    BY FirstExtents DEF l
  <2>2. i - 1 \in 0 .. Len(es)
    BY <1>1 DEF l
  <2>. QED  BY <2>1, <2>2
<1>4. upto[0] = 0
  <2>1. 1 \in 1 .. Len(es)
    BY <1>1 DEF l
  <2>2. SubSeq(es, 1, 1 - 1) \in Seq(FileExtent) /\ Len(SubSeq(es, 1, 1 - 1)) = 1 - 1
    BY <2>1, FirstExtents
  <2>3. SubSeq(es, 1, 0) = <<>>
    BY <2>2, EmptySeq
  <2>4. 0 \in 0 .. Len(es)
    BY <1>1 DEF l
  <2>5. upto[0] = BlockSum(SubSeq(es, 1, 0))
    BY <2>4
  <2>. QED  BY <2>3, <2>5, NoBlocks
<1>5. \A i \in 2 .. l : i - 1 \in 1 .. l /\ (i - 1) \in 1 .. i - 1
  BY <1>1
<1>6. \E i \in 1 .. l : upto[i] >= kept /\ \A j \in 1 .. i - 1 : upto[j] < kept
  <2>1. l \in Ends
    BY <1>1, <1>2
  <2>2. PICK i \in Ends : \A j \in Ends : i <= j
    <3>1. Ends \in SUBSET Nat /\ Ends # {}
      BY <1>1, <2>1
    <3>. HIDE DEF Ends
    <3>. QED  BY <3>1, LeastElement
  <2>3. ASSUME NEW j \in 1 .. i - 1
        PROVE  upto[j] < kept
    <3>1. j \in 1 .. l /\ j + 1 \in 1 .. l /\ ~(i <= j) /\ (j + 1) - 1 = j
      BY <1>1, <2>2, <2>3
    <3>2. j \notin Ends /\ upto[j] \in Nat
      BY <1>3, <2>2, <3>1
    <3>. QED  BY <3>1, <3>2
  <2>. QED  BY <2>2, <2>3
<1>7. ASSUME NEW i \in 1 .. l, \A j \in 1 .. i - 1 : upto[j] < kept
      PROVE  upto[i - 1] <= kept
  <2>1. CASE i = 1
    BY <1>4, <2>1
  <2>2. CASE i > 1
    <3>1. i - 1 \in 1 .. i - 1
      BY <1>1, <2>2
    <3>. QED  BY <1>3, <1>7, <3>1
  <2>. QED  BY <1>1, <2>1, <2>2
<1>. QED  BY <1>1, <1>3, <1>6, <1>7 DEF l

\* What truncate leaves of a file it shrinks holds what the new size needs, and the
\* blocks that leave the file join the counter.
LEMMA ShrinkKeepsSound ==
  ASSUME NEW s, Sound(s), NEW size \in Nat, size < s.size
  PROVE  \E t : /\ t = [ShrunkenState(s, BlocksToHold(size)) EXCEPT !.size = size]
                /\ Sound(t) /\ t.size = size
                /\ t.free + UseOf(t.extents) <= s.free + UseOf(s.extents)
                /\ t.outcome \in {"ok", "scribbled"}
<1>. DEFINE es == s.extents
            kept == BlocksToHold(size)
            upto == [k \in 0 .. Len(es) |-> BlockSum(SubSeq(es, 1, k))]
            First(i) == upto[i] >= kept /\ \A j \in 1 .. i - 1 : upto[j] < kept
            blocks(k) == Blocks([s EXCEPT !.extents = SubSeq(@, 1, k)])
            k == CHOOSE i \in DOMAIN es :
                    blocks(i) >= kept /\ \A j \in 1 .. i - 1 : blocks(j) < kept
            pos == kept - blocks(k - 1)
            shorter == EndedAt(s, k, pos)
            bits == s.bits \ {s.extents[k].start + i - 1 : i \in pos .. s.extents[k].count - 1}
            o == ScribbledAfter(s, k)
            t == [ShrunkenState(s, kept) EXCEPT !.size = size]
<1>1. /\ s = [bits |-> s.bits, free |-> s.free, size |-> s.size,
              indirect |-> s.indirect, extents |-> s.extents, outcome |-> s.outcome]
      /\ s.free \in Nat /\ s.size \in Nat /\ es \in Seq(FileExtent)
      /\ BlockSum(es) = BlocksToHold(s.size)
  BY DEF Sound
<1>2. /\ kept \in Nat /\ BlockSum(es) \in Nat /\ BlockSum(es) # 0 /\ kept <= BlockSum(es)
  BY <1>1, NoBytesNoBlocks, MoreBytesMoreBlocks
<1>3. es # <<>> /\ Len(es) \in Nat /\ DOMAIN es = 1 .. Len(es)
  BY <1>1, <1>2, NoBlocks, FileExtentsFinite
<1>4. t = [bits |-> bits, free |-> s.free + Blocks(s) - kept, size |-> size,
           indirect |-> s.indirect, extents |-> shorter, outcome |-> o]
  <2>1. ShrunkenState(s, kept) =
           [s EXCEPT !.bits = bits, !.free = s.free + Blocks(s) - kept,
                     !.extents = shorter, !.outcome = o]
    BY DEF ShrunkenState
  <2>. DEFINE r == [bits |-> bits, free |-> s.free + Blocks(s) - kept, size |-> s.size,
                    indirect |-> s.indirect, extents |-> shorter, outcome |-> o]
  <2>2. ShrunkenState(s, kept) = r
    <3>. HIDE DEF bits, shorter, o, kept
    <3>. QED  BY <1>1, <2>1
  <2>. HIDE DEF bits, shorter, o, kept
  <2>. QED  BY <2>2
<1>5. Blocks(s) = BlockSum(es) /\ \A i : blocks(i) = BlockSum(SubSeq(es, 1, i))
  <2>1. \A i : [s EXCEPT !.extents = SubSeq(@, 1, i)].extents = SubSeq(es, 1, i)
    BY <1>1
  <2>2. \A r : Blocks(r) = BlockSum(r.extents)
    BY DEF Blocks, BlockSum
  <2>. QED  BY <2>1, <2>2
<1>6. \A i \in 0 .. Len(es) : blocks(i) = upto[i]
  BY <1>5
<1>. HIDE DEF blocks, upto, es, kept, t
<1>7. \A i \in DOMAIN es :
         (blocks(i) >= kept /\ \A j \in 1 .. i - 1 : blocks(j) < kept) <=> First(i)
  <2>. SUFFICES ASSUME NEW i \in DOMAIN es
                PROVE  (blocks(i) >= kept /\ \A j \in 1 .. i - 1 : blocks(j) < kept)
                          <=> First(i)
    OBVIOUS
  <2>1. blocks(i) = upto[i] /\ \A j \in 1 .. i - 1 : blocks(j) = upto[j]
    BY <1>3, <1>6
  <2>. QED  BY <2>1
<1>8. /\ \E i \in DOMAIN es : First(i)
      /\ \A i \in DOMAIN es :
            First(i) => i \in 1 .. Len(es) /\ upto[i - 1] \in Nat /\ upto[i - 1] <= kept
  <2>1. \A i \in 0 .. Len(es) : upto[i] = BlockSum(SubSeq(es, 1, i))
    BY DEF upto
  <2>. QED  BY <1>1, <1>2, <1>3, <2>1, TargetExtent
<1>9. k \in DOMAIN es /\ First(k)
  <2>. HIDE DEF First
  <2>1. \E i \in DOMAIN es :
           blocks(i) >= kept /\ \A j \in 1 .. i - 1 : blocks(j) < kept
    BY <1>7, <1>8
  <2>2. k \in DOMAIN es /\ (blocks(k) >= kept /\ \A j \in 1 .. k - 1 : blocks(j) < kept)
    BY <2>1
  <2>. QED  BY <1>7, <2>2
<1>. HIDE DEF k, First, bits, o
<1>10. k \in 1 .. Len(es) /\ upto[k - 1] \in Nat /\ upto[k - 1] <= kept
  BY <1>8, <1>9
<1>11. /\ blocks(k - 1) = upto[k - 1] /\ blocks(k - 1) = BlockSum(SubSeq(es, 1, k - 1))
  <2>1. k - 1 \in 0 .. Len(es)
    BY <1>3, <1>10
  <2>. QED  BY <1>5, <1>6, <2>1
<1>12. pos \in Nat /\ kept = blocks(k - 1) + pos
  BY <1>2, <1>10, <1>11
<1>. HIDE DEF pos
<1>13. shorter \in Seq(FileExtent) /\ shorter # <<>> /\ BlockSum(shorter) = kept
  <2>. DEFINE q == [SubSeq(es, 1, k) EXCEPT ![k].count = pos]
  <2>1. /\ q \in Seq(FileExtent) /\ q # <<>>
        /\ BlockSum(q) = BlockSum(SubSeq(es, 1, k - 1)) + pos
    BY <1>1, <1>10, <1>12, LastExtentResized
  <2>2. shorter = q
    BY DEF EndedAt, es, shorter
  <2>. HIDE DEF q, shorter
  <2>. QED  BY <1>11, <1>12, <2>1, <2>2
<1>. HIDE DEF shorter
<1>14. /\ t.free = s.free + BlockSum(es) - kept /\ t.size = size /\ t.extents = shorter
       /\ t.outcome = o
       /\ t = [bits |-> t.bits, free |-> t.free, size |-> t.size,
               indirect |-> t.indirect, extents |-> t.extents, outcome |-> t.outcome]
  BY <1>4, <1>5
<1>15. UseOf(t.extents) = 1 + kept /\ UseOf(s.extents) = 1 + BlockSum(es)
  BY <1>3, <1>13, <1>14 DEF UseOf, es
<1>16. t.free \in Nat /\ t.free + UseOf(t.extents) <= s.free + UseOf(s.extents)
  BY <1>1, <1>2, <1>14, <1>15
<1>17. Sound(t)
  BY <1>13, <1>14, <1>16 DEF Sound, kept
<1>18. t.outcome \in {"ok", "scribbled"}
  BY <1>14 DEF o, ScribbledAfter
<1>. QED  BY <1>14, <1>16, <1>17, <1>18 DEF t, kept

-----------------------------------------------------------------------------
(* The blocks of directories. *)

\* The extents of a directory are extents of a file.
LEMMA ExtentsAreFileExtents == Seq(Extent) \subseteq Seq(FileExtent)
<1>. SUFFICES ASSUME NEW es \in Seq(Extent) PROVE es \in Seq(FileExtent)
  OBVIOUS
<1>1. Len(es) \in Nat /\ DOMAIN es = 1 .. Len(es) /\ es = [k \in 1 .. Len(es) |-> es[k]]
  BY LenProperties
<1>2. \A k \in 1 .. Len(es) : es[k] \in FileExtent
  BY ExtentAt DEF Extent, FileExtent
<1>. QED  BY <1>1, <1>2

\* Blocks that begin before the last entry are no more than blocks that hold it.
LEMMA BlocksBelow ==
  ASSUME NEW c \in Nat, NEW d \in Nat, NEW n \in Nat, c * D - D < n, n <= d * D
  PROVE  c <= d
<1>1. D \in Nat /\ D > 1
  BY DentriesAssumption DEF D
<1>. HIDE DEF D
<1>. SUFFICES ASSUME d + 1 <= c PROVE FALSE
  OBVIOUS
<1>2. (d + 1) * D <= c * D /\ (d + 1) * D = d * D + D
  BY <1>1
<1>3. c * D \in Nat /\ d * D \in Nat
  BY <1>1
<1>. QED  BY <1>1, <1>2, <1>3

\* Extents that fit n entries have as many blocks as these fill.
LEMMA FitsCounted ==
  ASSUME NEW es \in Seq(Extent), NEW n \in Nat, Fits(es, n)
  PROVE  /\ \E c \in Nat : BlockSum(es) = c /\ c * D - D < n /\ n <= c * D
         /\ es \in Seq(FileExtent) /\ (n = 0 <=> es = <<>>)
<1>. DEFINE l == Len(es)
<1>1. PICK f \in [0 .. l -> Nat] :
        /\ f[0] = 0
        /\ \A k \in 1 .. l : es[k].count > 0 /\ f[k] = f[k - 1] + es[k].count
        /\ f[l] * D - D < n /\ n <= f[l] * D
  BY DEF Fits
<1>2. l \in Nat /\ DOMAIN es = 1 .. l /\ \A k \in 1 .. l : es[k].count \in Nat
  BY LenProperties, ExtentAt
<1>3. BlockSum(es) = f[l]
  BY <1>1, <1>2, BlocksCountedInOrder
<1>4. f[l] \in Nat
  BY <1>2
<1>. QED  BY <1>1, <1>3, <1>4, FitsNonempty, ExtentsAreFileExtents

\* What one entry more does to the blocks in use.
LEMMA UseOfOneMore ==
  ASSUME NEW es \in Seq(Extent), NEW r \in Seq(Extent), NEW n \in Nat,
         Fits(es, n), Fits(r, n + 1)
  PROVE  /\ UseOf(es) \in Nat /\ UseOf(r) \in Nat
         /\ UseOf(r) = UseOf(es) + (IF n = 0 THEN 2
                                    ELSE IF n % DentriesPerBlock = 0 THEN 1 ELSE 0)
         /\ n % DentriesPerBlock = 0 <=> (n + 1) % DentriesPerBlock = 1
<1>1. D \in Nat /\ D > 1 /\ D = DentriesPerBlock
  BY DentriesAssumption DEF D
<1>2. PICK c \in Nat : BlockSum(es) = c /\ c * D - D < n /\ n <= c * D
  BY FitsCounted
<1>3. n + 1 \in Nat /\ n + 1 # 0
  OBVIOUS
<1>4. PICK d \in Nat : BlockSum(r) = d /\ d * D - D < n + 1 /\ n + 1 <= d * D
  BY <1>3, FitsCounted
<1>5. r # <<>> /\ (n = 0 <=> es = <<>>)
  BY <1>3, FitsCounted
<1>6. n % D = 0 <=> n = c * D
  BY <1>2, LastBlockEntries
<1>7. (n + 1) % D = 1 <=> n + 1 = d * D - D + 1
  BY <1>3, <1>4, LastBlockEntries
<1>. DEFINE x == c * D
            y == d * D
            z == (c + 1) * D
<1>8. x \in Nat /\ y \in Nat /\ z = x + D
  BY <1>1
<1>. HIDE DEF D
<1>9. n = x => d = c + 1
  <2>. SUFFICES ASSUME n = x PROVE d = c + 1
    OBVIOUS
  <2>1. c + 1 \in Nat /\ y - D < n + 1 /\ n + 1 <= y /\ z - D < n + 1 /\ n + 1 <= z
    <3>. HIDE DEF x, y, z
    <3>. QED  BY <1>1, <1>4, <1>8 DEF x, y
  <2>. QED  BY <1>3, <2>1, BlocksBelow
<1>10. n # x => d = c
  <2>. SUFFICES ASSUME n # x PROVE d = c
    OBVIOUS
  <2>1. y - D < n + 1 /\ n + 1 <= y /\ x - D < n + 1 /\ n + 1 <= x
    <3>1. x - D < n /\ n <= x /\ y - D < n + 1 /\ n + 1 <= y
      BY <1>2, <1>4
    <3>. HIDE DEF x, y, z
    <3>. QED  BY <1>1, <1>8, <3>1
  <2>. QED  BY <1>3, <2>1, BlocksBelow
<1>11. n = x <=> n = y - D
  <2>1. d = c + 1 => y = z
    OBVIOUS
  <2>2. d = c => y = x
    OBVIOUS
  <2>3. x - D < n
    BY <1>2
  <2>. HIDE DEF x, y, z
  <2>. QED  BY <1>1, <1>8, <1>9, <1>10, <2>1, <2>2, <2>3
<1>12. n % D = 0 <=> (n + 1) % D = 1
  <2>1. n % D = 0 <=> n = x
    BY <1>6
  <2>2. (n + 1) % D = 1 <=> n + 1 = y - D + 1
    BY <1>7
  <2>. HIDE DEF x, y, z
  <2>3. n + 1 = y - D + 1 <=> n = y - D
    BY <1>1, <1>8
  <2>. QED  BY <1>11, <2>1, <2>2, <2>3
<1>13. d = IF n % D = 0 THEN c + 1 ELSE c
  <2>. HIDE DEF x
  <2>. QED  BY <1>6, <1>9, <1>10 DEF x
<1>14. n = 0 => c = 0 /\ n % D = 0
  <2>1. n = 0 => n <= 0 * D
    BY <1>1
  <2>2. n = 0 => c <= 0
    BY <1>2, <2>1, BlocksBelow
  <2>3. n = 0 => n % D = 0
    BY <1>1
  <2>. QED  BY <2>2, <2>3
<1>15. UseOf(r) = 1 + d
  BY <1>4, <1>5 DEF UseOf
<1>16. UseOf(es) = IF n = 0 THEN 0 ELSE 1 + c
  BY <1>2, <1>5 DEF UseOf
<1>17. UseOf(es) \in Nat /\ UseOf(r) \in Nat
  BY <1>15, <1>16
<1>18. UseOf(r) = UseOf(es) + (IF n = 0 THEN 2 ELSE IF n % D = 0 THEN 1 ELSE 0)
  BY <1>13, <1>14, <1>15, <1>16
<1>. QED  BY <1>1, <1>12, <1>17, <1>18

-----------------------------------------------------------------------------
(* The inductive invariant. *)

\* What table entry e and extents es say of one inode with n entries.
SoundInode(e, es, n) ==
    /\ e \in Inode /\ es \in Seq(FileExtent)
    /\ e.mode = "dir" => es \in Seq(Extent) /\ Fits(es, n)
    /\ e.mode = "reg" => BlockSum(es) = BlocksToHold(e.size)
    /\ e.mode # "dir" => n = 0

\* The blocks in use for each inode, where those in S have a name and extents es.
Uses(S, es) == [i \in Inodes |-> IF i \in S THEN UseOf(es[i]) ELSE 0]

\* The counter and the blocks in use fit the image together.
UseCovered ==
    \E c : /\ Splits(c, Uses(LinkedInodes, extents), Inodes)
           /\ availableBlocks + c[Inodes] <= NumBlocks

FilesTypes ==
    /\ availableBlocks \in Nat /\ numOfDataBlocks \in Nat
    /\ DOMAIN itable = Inodes /\ DOMAIN extents = Inodes
    /\ itable[ROOT_INODE].mode = "dir"

InodesSound == \A i \in Inodes : SoundInode(itable[i], extents[i], Len(entries[i]))

FilesInv == InodeInv /\ FilesTypes /\ InodesSound /\ UseCovered

\* A function of two inodes together, which may be one.
Both(u, p, t) == IF p = t THEN u[p] ELSE u[p] + u[t]

\* A step that is about inodes p and t: they are sound after it, it keeps the others,
\* and takes from the counter what the two gain.
Changed(p, t) ==
    /\ availableBlocks' \in Nat /\ numOfDataBlocks' \in Nat
    /\ DOMAIN itable' = Inodes /\ DOMAIN extents' = Inodes
    /\ itable'[ROOT_INODE].mode = itable[ROOT_INODE].mode
    /\ \A i \in {p, t} : SoundInode(itable'[i], extents'[i], Len(entries'[i]))
    /\ \A i \in Inodes \ {p, t} :
          /\ itable'[i] = itable[i] /\ extents'[i] = extents[i]
          /\ entries'[i] = entries[i] /\ (Linked(i)' => Linked(i))
    /\ availableBlocks' + Both(Uses(LinkedInodes', extents'), p, t)
          <= availableBlocks + Both(Uses(LinkedInodes, extents), p, t)

\* Sums after a change of two values.
LEMMA SumsChanged ==
  ASSUME NEW X, IsFiniteSet(X), NEW u, NEW v, NEW c, NEW d,
         Splits(c, u, X), Splits(d, v, X),
         \A k \in X : u[k] \in Nat /\ v[k] \in Nat,
         NEW p \in X, NEW t \in X, \A k \in X \ {p, t} : v[k] <= u[k],
         NEW a \in Nat, NEW b \in Nat, a + Both(v, p, t) <= b + Both(u, p, t)
  PROVE  a + d[X] <= b + c[X]
<1>. DEFINE Y == X \ {p, t}
            Z == X \ {p}
<1>1. /\ Splits(c, u, Y) /\ Splits(d, v, Y) /\ IsFiniteSet(Y)
      /\ \A k \in Y : v[k] \in Nat /\ u[k] \in Nat /\ v[k] <= u[k]
  BY SumsBelow, FS_Subset
<1>2. d[Y] <= c[Y]
  <2>. HIDE DEF Y
  <2>. QED  BY <1>1, SumsGrow
<1>3. c[X] = u[p] + c[Z] /\ d[X] = v[p] + d[Z]
  BY DEF Splits
<1>4. p # t => c[Z] = u[t] + c[Y] /\ d[Z] = v[t] + d[Y]
  <2>. SUFFICES ASSUME p # t PROVE c[Z] = u[t] + c[Y] /\ d[Z] = v[t] + d[Y]
    OBVIOUS
  <2>1. Z \in SUBSET X /\ t \in Z /\ Z \ {t} = Y
    OBVIOUS
  <2>. HIDE DEF Y, Z
  <2>. QED  BY <2>1 DEF Splits
<1>5. p = t => Z = Y
  OBVIOUS
<1>6. c[Y] \in Nat /\ d[Y] \in Nat /\ u[p] \in Nat /\ u[t] \in Nat /\ v[p] \in Nat /\ v[t] \in Nat
  BY DEF Splits
<1>. HIDE DEF Y, Z
<1>7. CASE p = t
  <2>1. a + v[p] <= b + u[p]
    BY <1>7 DEF Both
  <2>. QED  BY <1>2, <1>3, <1>5, <1>6, <1>7, <2>1
<1>8. CASE p # t
  <2>1. a + (v[p] + v[t]) <= b + (u[p] + u[t])
    BY <1>8 DEF Both
  <2>2. c[X] = u[p] + (u[t] + c[Y]) /\ d[X] = v[p] + (v[t] + d[Y])
    BY <1>3, <1>4, <1>8
  <2>. QED  BY <1>2, <1>6, <2>1, <2>2
<1>. QED  BY <1>7, <1>8

\* Uses are numbers, and so have sums.
LEMMA UsesAreNumbers ==
  ASSUME NEW es, \A i \in Inodes : es[i] \in Seq(FileExtent), NEW S
  PROVE  /\ \A i \in Inodes : UseOf(es[i]) \in Nat
         /\ \A i \in Inodes : Uses(S, es)[i] = IF i \in S THEN UseOf(es[i]) ELSE 0
         /\ \A i \in Inodes : Uses(S, es)[i] \in Nat
         /\ \E c : Splits(c, Uses(S, es), Inodes)
<1>1. ASSUME NEW i \in Inodes
      PROVE  UseOf(es[i]) \in Nat
  <2>. DEFINE s == BlockSum(es[i])
  <2>1. \E f, c : Splits(c, f, DOMAIN es[i]) /\ s = c[DOMAIN es[i]]
    BY FileBlocksSplit
  <2>2. s \in Nat
    BY <2>1 DEF Splits
  <2>. HIDE DEF s
  <2>. QED  BY <2>2 DEF UseOf, s
<1>. DEFINE u == Uses(S, es)
<1>2. \A i \in Inodes : u[i] = IF i \in S THEN UseOf(es[i]) ELSE 0
  BY DEF Uses
<1>3. u \in [Inodes -> Nat] /\ DOMAIN u = Inodes
  BY <1>1 DEF Uses
<1>4. IsFiniteSet(Inodes)
  BY InodesFinite
<1>. HIDE DEF u
<1>5. PICK c : Counts(u, c)
  BY <1>3, <1>4, CountsExist
<1>6. Splits(c, u, Inodes)
  BY <1>3, <1>4, <1>5, CountsSplit DEF Splits
<1>. QED  BY <1>1, <1>2, <1>3, <1>6 DEF u

\* Such a step keeps the invariant.
LEMMA ChangedKeepsFilesInv ==
  ASSUME FilesInv, InodeInv', NEW p \in Inodes, NEW t \in Inodes, Changed(p, t)
  PROVE  FilesInv'
<1>1. FilesTypes'
  BY DEF FilesInv, FilesTypes, Changed
<1>2. InodesSound'
  <2>. SUFFICES ASSUME NEW i \in Inodes
                PROVE  SoundInode(itable'[i], extents'[i], Len(entries'[i]))
    BY DEF InodesSound
  <2>1. CASE i \in {p, t}
    BY <2>1 DEF Changed
  <2>2. CASE i \notin {p, t}
    <3>1. itable'[i] = itable[i] /\ extents'[i] = extents[i] /\ entries'[i] = entries[i]
      BY <2>2 DEF Changed
    <3>. QED  BY <3>1 DEF FilesInv, InodesSound
  <2>. QED  BY <2>1, <2>2
<1>3. UseCovered'
  <2>. DEFINE u == Uses(LinkedInodes, extents)
              v == Uses(LinkedInodes', extents')
  <2>1. PICK c : Splits(c, u, Inodes) /\ availableBlocks + c[Inodes] <= NumBlocks
    BY DEF FilesInv, UseCovered
  <2>2. \A i \in Inodes : extents[i] \in Seq(FileExtent) /\ extents'[i] \in Seq(FileExtent)
    BY <1>2 DEF FilesInv, InodesSound, SoundInode
  <2>3. /\ \A i \in Inodes : u[i] = IF i \in LinkedInodes THEN UseOf(extents[i]) ELSE 0
        /\ \A i \in Inodes : u[i] \in Nat
        /\ \A i \in Inodes : UseOf(extents[i]) \in Nat
    BY <2>2, UsesAreNumbers
  <2>4. /\ \A i \in Inodes : v[i] = IF i \in LinkedInodes' THEN UseOf(extents'[i]) ELSE 0
        /\ \A i \in Inodes : v[i] \in Nat
        /\ \E d : Splits(d, v, Inodes)
    BY <2>2, UsesAreNumbers
  <2>5. PICK d : Splits(d, v, Inodes)
    BY <2>4
  <2>6. ASSUME NEW i \in Inodes \ {p, t}
        PROVE  v[i] <= u[i]
    <3>1. extents'[i] = extents[i] /\ (Linked(i)' => Linked(i))
      BY DEF Changed
    <3>2. i \in LinkedInodes' => i \in LinkedInodes
      BY <3>1 DEF LinkedInodes
    <3>. QED  BY <2>3, <2>4, <3>1, <3>2
  <2>7. /\ availableBlocks' + Both(v, p, t) <= availableBlocks + Both(u, p, t)
        /\ availableBlocks' \in Nat /\ availableBlocks \in Nat
    BY DEF Changed, FilesInv, FilesTypes
  <2>8. IsFiniteSet(Inodes)
    BY InodesFinite
  <2>9. c[Inodes] \in Nat /\ d[Inodes] \in Nat
    BY <2>1, <2>5 DEF Splits
  <2>. HIDE DEF u, v
  <2>10. availableBlocks' + d[Inodes] <= availableBlocks + c[Inodes]
    BY <2>1, <2>3, <2>4, <2>5, <2>6, <2>7, <2>8, SumsChanged
  <2>11. availableBlocks' + d[Inodes] <= NumBlocks
    BY <2>1, <2>7, <2>9, <2>10, NumBlocksAssumption
  <2>. QED  BY <2>5, <2>11 DEF UseCovered, v
<1>. QED  BY <1>1, <1>2, <1>3 DEF FilesInv

-----------------------------------------------------------------------------
(* Directory callbacks. *)

\* What the invariant says of a linked directory, of the root and of a free inode.
LEMMA DirectorySound ==
  ASSUME FilesInv
  PROVE  /\ ROOT_INODE \in Inodes /\ ROOT_INODE \in inodeBitmap
         /\ \A p \in Inodes : IsDirectory(p) =>
               /\ extents[p] \in Seq(Extent) /\ Fits(extents[p], Len(entries[p]))
               /\ p \in inodeBitmap /\ p \in LinkedInodes
         /\ \A i \in Inodes : i \notin inodeBitmap => i \notin LinkedInodes
         /\ \A i \in Inodes : /\ entries[i] \in Seq(Dentry) /\ Len(entries[i]) \in Nat
                              /\ DOMAIN entries[i] = 1 .. Len(entries[i])
                              /\ entries[i] = <<>> <=> Len(entries[i]) = 0
                              /\ itable[i].mode # "dir" => entries[i] = <<>>
                              /\ itable[i] \in Inode /\ extents[i] \in Seq(FileExtent)
<1>1. ROOT_INODE \in Inodes /\ ROOT_INODE \in inodeBitmap
  BY NumInodesAssumption
     DEF FilesInv, InodeInv, LinkedAllocated, Linked, Inodes, ROOT_INODE
<1>2. \A i \in Inodes : SoundInode(itable[i], extents[i], Len(entries[i]))
  BY DEF FilesInv, InodesSound
<1>3. \A p \in Inodes : IsDirectory(p) =>
         /\ extents[p] \in Seq(Extent) /\ Fits(extents[p], Len(entries[p]))
         /\ p \in inodeBitmap /\ p \in LinkedInodes
  BY <1>2 DEF SoundInode, IsDirectory, FilesInv, InodeInv, LinkedAllocated, LinkedInodes
<1>4. \A i \in Inodes : i \notin inodeBitmap => i \notin LinkedInodes
  BY DEF FilesInv, InodeInv, LinkedAllocated, LinkedInodes
<1>5. ASSUME NEW i \in Inodes
      PROVE  /\ entries[i] \in Seq(Dentry) /\ Len(entries[i]) \in Nat
             /\ DOMAIN entries[i] = 1 .. Len(entries[i])
             /\ entries[i] = <<>> <=> Len(entries[i]) = 0
  <2>1. entries[i] \in Seq(Dentry)
    BY DEF FilesInv, InodeInv, InodeTypes
  <2>. QED  BY <2>1, LenProperties, EmptySeq
<1>. QED  BY <1>1, <1>2, <1>3, <1>4, <1>5 DEF SoundInode

\* An inode without blocks, entries and bytes is sound, whatever its mode.
LEMMA EmptyInodeSound ==
  ASSUME NEW e \in Inode, e.size = 0
  PROVE  SoundInode(e, <<>>, 0) /\ UseOf(<<>>) = 0
<1>1. BlocksToHold(0) = 0
  BY NoBytesNoBlocks
<1>2. <<>> \in Seq(FileExtent) /\ <<>> \in Seq(Extent) /\ Fits(<<>>, 0)
  BY FitsSmall, EmptySeq
<1>. QED  BY <1>1, <1>2, NoBlocks DEF SoundInode, UseOf

\* A new inode is entered in p, which now has the extents es.
LEMMA EnterChanges ==
  ASSUME FilesInv, availableInodes > 0,
         NEW p \in Inodes, IsDirectory(p), NEW nm \in Names, NEW m \in {"dir", "reg"},
         EnterIn(p, nm, m),
         NEW es \in Seq(Extent), Fits(es, Len(entries[p]) + 1),
         extents' = [extents EXCEPT ![NewInode] = <<>>, ![p] = es],
         availableBlocks' \in Nat, numOfDataBlocks' = numOfDataBlocks,
         availableBlocks' + UseOf(es) <= availableBlocks + UseOf(extents[p])
  PROVE  NewInode \in Inodes /\ Changed(p, NewInode)
<1>. DEFINE new == NewInode
<1>1. new \in Inodes /\ new \notin inodeBitmap
  BY NewInodeIsFree DEF FilesInv
<1>2. /\ p # new /\ new # ROOT_INODE /\ p \in LinkedInodes /\ new \notin LinkedInodes
      /\ ROOT_INODE \in Inodes
  BY <1>1, DirectorySound
<1>. HIDE DEF new
<1>3. /\ DOMAIN itable = Inodes /\ DOMAIN extents = Inodes /\ DOMAIN entries = Inodes
      /\ availableBlocks \in Nat /\ numOfDataBlocks \in Nat
  BY DEF FilesInv, FilesTypes, InodeInv, InodeTypes
<1>4. /\ itable' = [itable EXCEPT ![new] = FreshInode(m),
                                  ![p].links = IF m = "dir" THEN @ + 1 ELSE @]
      /\ entries' = [entries EXCEPT ![new] = <<>>,
                                    ![p] = Append(@, [name |-> nm, ino |-> new])]
      /\ extents' = [extents EXCEPT ![new] = <<>>, ![p] = es]
  BY DEF EnterIn, new
<1>5. /\ itable'[p] = [itable[p] EXCEPT !.links = IF m = "dir" THEN @ + 1 ELSE @]
      /\ itable'[new] = FreshInode(m) /\ DOMAIN itable' = Inodes
      /\ \A i \in Inodes \ {p, new} : itable'[i] = itable[i]
  BY <1>1, <1>2, <1>3, <1>4
<1>6. /\ entries'[p] = Append(entries[p], [name |-> nm, ino |-> new])
      /\ entries'[new] = <<>>
      /\ \A i \in Inodes \ {p, new} : entries'[i] = entries[i]
  BY <1>1, <1>2, <1>3, <1>4
<1>7. /\ extents'[p] = es /\ extents'[new] = <<>> /\ DOMAIN extents' = Inodes
      /\ \A i \in Inodes \ {p, new} : extents'[i] = extents[i]
  BY <1>1, <1>2, <1>3, <1>4
<1>8. itable'[p] \in Inode /\ itable'[p].mode = "dir"
  <2>1. itable[p] \in Inode /\ itable[p].mode = "dir"
    BY DirectorySound DEF IsDirectory
  <2>. QED  BY <1>5, <2>1 DEF Inode
<1>. DEFINE n == Len(entries[p])
            e == [name |-> nm, ino |-> new]
<1>9. /\ Len(entries'[p]) = n + 1 /\ Len(entries'[new]) = 0 /\ n \in Nat
      /\ \A k \in DOMAIN entries'[p] : entries'[p][k] = e \/ (k \in DOMAIN entries[p] /\ entries'[p][k] = entries[p][k])
  <2>1. entries[p] \in Seq(Dentry) /\ n \in Nat /\ DOMAIN entries[p] = 1 .. n
    BY DirectorySound
  <2>2. e \in Dentry
    BY <1>1 DEF Dentry
  <2>3. /\ Append(entries[p], e) \in Seq(Dentry) /\ Len(Append(entries[p], e)) = n + 1
        /\ \A k \in 1 .. n : Append(entries[p], e)[k] = entries[p][k]
        /\ Append(entries[p], e)[n + 1] = e
        /\ DOMAIN Append(entries[p], e) = 1 .. n + 1
    <3>. HIDE DEF e
    <3>. QED  BY <2>1, <2>2, AppendProperties, LenProperties
  <2>4. Len(<<>>) = 0
    OBVIOUS
  <2>5. \A k \in 1 .. n + 1 : k \in 1 .. n \/ k = n + 1
    BY <2>1
  <2>. HIDE DEF e, n
  <2>. QED  BY <1>6, <2>1, <2>3, <2>4, <2>5 DEF e
<1>10. SoundInode(itable'[p], extents'[p], Len(entries'[p]))
  BY <1>7, <1>8, <1>9, ExtentsAreFileExtents DEF SoundInode
<1>11. SoundInode(itable'[new], extents'[new], Len(entries'[new]))
  <2>1. FreshInode(m) \in Inode /\ FreshInode(m).size = 0
    BY DEF FreshInode, Inode, Modes
  <2>. QED  BY <1>5, <1>7, <1>9, <2>1, EmptyInodeSound
<1>12. ASSUME NEW i \in Inodes \ {p, new}, Linked(i)'
       PROVE  Linked(i)
  <2>1. CASE i = ROOT_INODE
    BY <2>1 DEF Linked
  <2>2. CASE i # ROOT_INODE
    <3>. PICK d \in Inodes : \E k \in DOMAIN entries'[d] : entries'[d][k].ino = i
      BY <1>12, <2>2 DEF Linked
    <3>1. PICK k \in DOMAIN entries'[d] : entries'[d][k].ino = i
      OBVIOUS
    <3>2. d # new
      <4>1. DOMAIN entries'[new] = {}
        BY <1>6
      <4>. QED  BY <3>1, <4>1
    <3>3. k \in DOMAIN entries[d] /\ entries'[d][k] = entries[d][k]
      <4>1. e.ino = new
        OBVIOUS
      <4>. HIDE DEF e
      <4>. QED  BY <1>6, <1>9, <3>1, <3>2, <4>1
    <3>. QED  BY <3>1, <3>3 DEF Linked
  <2>. QED  BY <2>1, <2>2
<1>13. itable'[ROOT_INODE].mode = itable[ROOT_INODE].mode
  <2>1. CASE ROOT_INODE = p
    BY <1>8, <2>1 DEF IsDirectory
  <2>2. CASE ROOT_INODE # p
    BY <1>2, <1>5, <2>2
  <2>. QED  BY <2>1, <2>2
<1>14. availableBlocks' + Both(Uses(LinkedInodes', extents'), p, new)
          <= availableBlocks + Both(Uses(LinkedInodes, extents), p, new)
  <2>. DEFINE u == Uses(LinkedInodes, extents)
              v == Uses(LinkedInodes', extents')
  <2>1. u[p] = UseOf(extents[p]) /\ u[new] = 0 /\ UseOf(extents[p]) \in Nat
    <3>1. \A i \in Inodes : extents[i] \in Seq(FileExtent)
      BY DirectorySound
    <3>. QED  BY <1>1, <1>2, <3>1, UsesAreNumbers
  <2>2. v[p] <= UseOf(es) /\ v[new] = 0 /\ v[p] \in Nat /\ UseOf(es) \in Nat
    <3>1. \A i \in Inodes : extents'[i] \in Seq(FileExtent)
      BY <1>7, <1>10, <1>11, DirectorySound DEF SoundInode
    <3>2. UseOf(<<>>) = 0
      BY DEF UseOf
    <3>3. /\ \A i \in Inodes : v[i] = IF i \in LinkedInodes' THEN UseOf(extents'[i]) ELSE 0
          /\ \A i \in Inodes : UseOf(extents'[i]) \in Nat
      <4>. DEFINE xs == extents'
      <4>1. \A i \in Inodes : xs[i] \in Seq(FileExtent)
        BY <3>1
      <4>. HIDE DEF xs
      <4>2. \A S : /\ \A i \in Inodes : UseOf(xs[i]) \in Nat
                   /\ \A i \in Inodes :
                         Uses(S, xs)[i] = IF i \in S THEN UseOf(xs[i]) ELSE 0
        BY <4>1, UsesAreNumbers
      <4>. QED  BY <4>2 DEF xs
    <3>. HIDE DEF v
    <3>. QED  BY <1>1, <1>7, <3>2, <3>3
  <2>. HIDE DEF u, v
  <2>. QED  BY <1>2, <1>3, <2>1, <2>2 DEF Both, u, v
<1>. HIDE DEF e, n
<1>15. Changed(p, new)
  BY <1>3, <1>5, <1>6, <1>7, <1>10, <1>11, <1>12, <1>13, <1>14 DEF Changed
<1>. QED  BY <1>1, <1>15 DEF new

\* A new inode is left with nothing in it.
LEMMA AbandonChanges ==
  ASSUME FilesInv, availableInodes > 0, NEW m \in {"dir", "reg"}, AbandonInode(m),
         availableBlocks' \in Nat, numOfDataBlocks' = numOfDataBlocks,
         availableBlocks' <= availableBlocks
  PROVE  NewInode \in Inodes /\ NewInode \notin LinkedInodes /\ Changed(NewInode, NewInode)
<1>. DEFINE new == NewInode
<1>1. new \in Inodes /\ new \notin inodeBitmap
  BY NewInodeIsFree DEF FilesInv
<1>2. new # ROOT_INODE /\ new \notin LinkedInodes /\ ROOT_INODE \in Inodes
  BY <1>1, DirectorySound
<1>. HIDE DEF new
<1>3. /\ DOMAIN itable = Inodes /\ DOMAIN extents = Inodes /\ DOMAIN entries = Inodes
      /\ availableBlocks \in Nat /\ numOfDataBlocks \in Nat
  BY DEF FilesInv, FilesTypes, InodeInv, InodeTypes
<1>4. /\ itable' = [itable EXCEPT ![new] = FreshInode(m)]
      /\ entries' = [entries EXCEPT ![new] = <<>>]
      /\ extents' = [extents EXCEPT ![new] = <<>>]
  BY DEF AbandonInode, new
<1>5. /\ itable'[new] = FreshInode(m) /\ entries'[new] = <<>> /\ extents'[new] = <<>>
      /\ DOMAIN itable' = Inodes /\ DOMAIN extents' = Inodes
      /\ \A i \in Inodes \ {new} : /\ itable'[i] = itable[i] /\ entries'[i] = entries[i]
                                   /\ extents'[i] = extents[i]
  BY <1>1, <1>3, <1>4
<1>6. SoundInode(itable'[new], extents'[new], Len(entries'[new]))
  <2>1. FreshInode(m) \in Inode /\ FreshInode(m).size = 0 /\ Len(<<>>) = 0
    BY DEF FreshInode, Inode, Modes
  <2>. QED  BY <1>5, <2>1, EmptyInodeSound
<1>7. ASSUME NEW i \in Inodes \ {new}, Linked(i)'
      PROVE  Linked(i)
  <2>1. CASE i = ROOT_INODE
    BY <2>1 DEF Linked
  <2>2. CASE i # ROOT_INODE
    <3>. PICK d \in Inodes : \E k \in DOMAIN entries'[d] : entries'[d][k].ino = i
      BY <1>7, <2>2 DEF Linked
    <3>1. PICK k \in DOMAIN entries'[d] : entries'[d][k].ino = i
      OBVIOUS
    <3>2. DOMAIN entries'[new] = {}
      BY <1>5
    <3>. QED  BY <1>5, <3>1, <3>2 DEF Linked
  <2>. QED  BY <2>1, <2>2
<1>8. availableBlocks' + Both(Uses(LinkedInodes', extents'), new, new)
         <= availableBlocks + Both(Uses(LinkedInodes, extents), new, new)
  <2>. DEFINE u == Uses(LinkedInodes, extents)
              v == Uses(LinkedInodes', extents')
  <2>1. u[new] = 0
    BY <1>1, <1>2 DEF Uses
  <2>2. v[new] = 0
    BY <1>1, <1>5 DEF Uses, UseOf
  <2>. HIDE DEF u, v
  <2>3. Both(u, new, new) = 0 /\ Both(v, new, new) = 0
    BY <2>1, <2>2 DEF Both
  <2>4. availableBlocks' + Both(v, new, new) <= availableBlocks + Both(u, new, new)
    <3>. DEFINE a == availableBlocks'
                b == availableBlocks
    <3>1. a \in Nat /\ b \in Nat /\ a <= b
      BY <1>3
    <3>. HIDE DEF a, b
    <3>2. a + 0 <= b + 0
      BY <3>1
    <3>. QED  BY <2>3, <3>2 DEF a, b
  <2>. QED  BY <2>4 DEF u, v
<1>9. Changed(new, new)
  BY <1>2, <1>3, <1>5, <1>6, <1>7, <1>8 DEF Changed
<1>. QED  BY <1>1, <1>2, <1>9 DEF new

\* An addition that takes the blocks B, as many as one entry more needs, and succeeds.
LEMMA TakenAndEntered ==
  ASSUME FilesInv, availableInodes > 0,
         NEW p \in Inodes, IsDirectory(p), NEW nm \in Names, NEW m \in {"dir", "reg"},
         EnterIn(p, nm, m),
         NEW es \in Seq(Extent), Fits(es, Len(entries[p]) + 1),
         extents' = [extents EXCEPT ![NewInode] = <<>>, ![p] = es],
         numOfDataBlocks' = numOfDataBlocks,
         NEW B, NEW k \in Nat, Cardinality(B) = k, k <= availableBlocks, TakeBlocks(B),
         k = IF Len(entries[p]) = 0 THEN 2
             ELSE IF Len(entries[p]) % DentriesPerBlock = 0 THEN 1 ELSE 0
  PROVE  NewInode \in Inodes /\ Changed(p, NewInode)
<1>. DEFINE old == UseOf(extents[p])
            new == UseOf(es)
<1>1. availableBlocks \in Nat /\ availableBlocks' = availableBlocks - k
  BY DEF FilesInv, FilesTypes, TakeBlocks
<1>2. /\ extents[p] \in Seq(Extent) /\ Len(entries[p]) \in Nat
      /\ Fits(extents[p], Len(entries[p]))
  BY DirectorySound
<1>3. old \in Nat /\ new \in Nat /\ new = old + k
  BY <1>2, UseOfOneMore
<1>. HIDE DEF old, new
<1>4. availableBlocks' \in Nat /\ availableBlocks' + new <= availableBlocks + old
  BY <1>1, <1>3
<1>. QED  BY <1>4, EnterChanges DEF old, new

\* An addition that takes the blocks B, enough or not, and leaves the new inode empty.
LEMMA TakenAndAbandoned ==
  ASSUME FilesInv, availableInodes > 0, NEW m \in {"dir", "reg"}, AbandonInode(m),
         numOfDataBlocks' = numOfDataBlocks,
         NEW B, NEW k \in Nat, Cardinality(B) = k, k <= availableBlocks, TakeBlocks(B)
  PROVE  NewInode \in Inodes /\ NewInode \notin LinkedInodes /\ Changed(NewInode, NewInode)
<1>1. availableBlocks \in Nat /\ availableBlocks' = availableBlocks - k
  BY DEF FilesInv, FilesTypes, TakeBlocks
<1>2. availableBlocks' \in Nat /\ availableBlocks' <= availableBlocks
  BY <1>1
<1>. QED  BY <1>2, AbandonChanges

\* An addition changes the parent and the new inode, or the new inode only, or nothing.
LEMMA AddEntryChanges ==
  ASSUME FilesInv, NEW p \in Inodes, NEW nm \in Names, NEW m \in {"dir", "reg"},
         AddEntry(p, nm, m)
  PROVE  \/ UNCHANGED <<allocVars, fileVars, numOfDataBlocks>>
         \/ ret' = "ok" /\ NewInode \in Inodes /\ Changed(p, NewInode)
         \/ NewInode \in Inodes /\ NewInode \notin LinkedInodes /\ Changed(NewInode, NewInode)
<1>. DEFINE n  == Len(entries[p])
            es == extents[p]
            Enrolled == ret' = "ok" /\ NewInode \in Inodes /\ Changed(p, NewInode)
            Left == NewInode \in Inodes /\ NewInode \notin LinkedInodes
                       /\ Changed(NewInode, NewInode)
<1>1. IsDirectory(p) /\ numOfDataBlocks' = numOfDataBlocks
  BY DEF AddEntry
<1>2. /\ n \in Nat /\ es \in Seq(Extent) /\ Fits(es, n) /\ (entries[p] = <<>> <=> n = 0)
  BY <1>1, DirectorySound
<1>3. availableBlocks \in Nat /\ numOfDataBlocks \in Nat /\ DOMAIN extents = Inodes
  BY DEF FilesInv, FilesTypes
<1>4. ASSUME availableInodes > 0, FailNoSpace(m) \/ Die(m),
             NEW B, NEW k \in Nat, Cardinality(B) = k, k <= availableBlocks, TakeBlocks(B)
      PROVE  Left
  BY <1>1, <1>4, TakenAndAbandoned DEF FailNoSpace, Die
<1>5. ASSUME availableInodes > 0, Succeed \/ Overrun, EnterIn(p, nm, m),
             NEW r \in Seq(Extent), Fits(r, n + 1),
             extents' = [extents EXCEPT ![NewInode] = <<>>, ![p] = r],
             NEW B, NEW k \in Nat, Cardinality(B) = k, k <= availableBlocks, TakeBlocks(B),
             k = IF n = 0 THEN 2 ELSE IF n % DentriesPerBlock = 0 THEN 1 ELSE 0
      PROVE  Enrolled
  BY <1>1, <1>5, TakenAndEntered DEF Succeed, Overrun
<1>6. availableInodes > 0 => NewInode # p /\ NewInode \in Inodes
  BY <1>1, NewInodeIsFree, DirectorySound DEF FilesInv
<1>7. ASSUME availableInodes > 0, availableBlocks > 0, AddToEmptyParent(p, nm, m)
      PROVE  Enrolled \/ Left
  <2>. DEFINE ib == get_first_available_position(numOfDataBlocks, dataBitmap)
              db == get_first_available_position(numOfDataBlocks, set_bitmap(dataBitmap, ib))
  <2>1. db # NotFound => db \in Nat /\ db # ib
    BY <1>3, FoundBlock DEF set_bitmap
  <2>. HIDE DEF ib, db
  <2>2. CASE TakeBlocks({}) /\ (FailNoSpace(m) \/ Die(m))
    <3>1. 0 \in Nat /\ 0 <= availableBlocks /\ Cardinality({}) = 0
      BY <1>3, SmallCardinalities
    <3>. HIDE DEF Left
    <3>. QED  BY <1>4, <1>7, <2>2, <3>1
  <2>3. CASE TakeBlocks({ib}) /\ (FailNoSpace(m) \/ Die(m))
    <3>1. 1 \in Nat /\ 1 <= availableBlocks
      BY <1>3, <1>7
    <3>2. Cardinality({ib}) = 1
      BY SmallCardinalities
    <3>. HIDE DEF Left
    <3>. QED  BY <1>4, <1>7, <2>3, <3>1, <3>2
  <2>4. CASE /\ db # NotFound
             /\ availableBlocks - 1 > 0
             /\ TakeBlocks({ib, db})
             /\ extents' = [extents EXCEPT ![NewInode] = <<>>,
                                           ![p] = <<[start |-> db, count |-> 1]>>]
             /\ EnterIn(p, nm, m)
             /\ Succeed
             /\ entries[p] = <<>>
    <3>. DEFINE first == <<[start |-> db, count |-> 1]>>
    <3>1. /\ 2 \in Nat /\ 2 <= availableBlocks
          /\ Cardinality({ib, db}) = 2
      <4>1. 2 \in Nat /\ 2 <= availableBlocks
        BY <1>3, <2>4
      <4>2. Cardinality({ib, db}) = 2
        BY <2>1, <2>4, SmallCardinalities
      <4>. QED  BY <4>1, <4>2
    <3>2. n = 0 /\ n + 1 = 1 /\ first \in Seq(Extent) /\ Fits(first, 1)
      BY <1>2, <2>1, <2>4, FitsSmall
    <3>. HIDE DEF first, Enrolled, n
    <3>3. extents' = [extents EXCEPT ![NewInode] = <<>>, ![p] = first]
      BY <2>4 DEF first
    <3>4. Fits(first, n + 1) /\ EnterIn(p, nm, m) /\ TakeBlocks({ib, db})
          /\ (Succeed \/ Overrun)
      BY <2>4, <3>2
    <3>5. 2 = IF n = 0 THEN 2 ELSE IF n % DentriesPerBlock = 0 THEN 1 ELSE 0
      BY <3>2
    <3>. QED  BY <1>5, <1>7, <3>1, <3>2, <3>3, <3>4, <3>5
  <2>. HIDE DEF Enrolled, Left
  <2>. QED  BY <1>7, <2>2, <2>3, <2>4 DEF AddToEmptyParent, ib, db
<1>8. ASSUME availableInodes > 0, AddToLastBlock(p, nm, m)
      PROVE  Enrolled
  <2>1. n % DentriesPerBlock # 0 /\ Fits(es, n + 1)
    BY <1>2, <1>8, FitsSameBlocks DEF AddToLastBlock, D
  <2>2. extents' = [extents EXCEPT ![NewInode] = <<>>, ![p] = es]
    BY <1>3, <1>6, <1>8 DEF AddToLastBlock
  <2>3. EnterIn(p, nm, m) /\ TakeBlocks({}) /\ Succeed
    BY <1>8 DEF AddToLastBlock
  <2>4. n # 0
    <3>1. 0 % DentriesPerBlock = 0
      BY DentriesAssumption
    <3>. HIDE DEF n
    <3>. QED  BY <2>1, <3>1
  <2>5. 0 \in Nat /\ 0 <= availableBlocks /\ Cardinality({}) = 0
    BY <1>3, SmallCardinalities
  <2>. HIDE DEF Enrolled, n, es
  <2>6. 0 = IF n = 0 THEN 2 ELSE IF n % DentriesPerBlock = 0 THEN 1 ELSE 0
    BY <2>1, <2>4
  <2>7. es \in Seq(Extent)
    BY <1>2
  <2>. QED  BY <1>5, <1>8, <2>1, <2>2, <2>3, <2>5, <2>6, <2>7
<1>9. ASSUME availableInodes > 0, availableBlocks > 0, AddToNextBlock(p, nm, m)
      PROVE  Enrolled \/ Left
  <2>. DEFINE b == find_last_block(p) + 1
              longer == [es EXCEPT ![Len(es)].count = @ + 1]
  <2>1. n > 0 /\ n % DentriesPerBlock = 0 /\ es # <<>>
    BY <1>2, <1>9, FitsNonempty DEF AddToNextBlock
  <2>. HIDE DEF b
  <2>2. TakeBlocks({b})
    BY <1>9 DEF AddToNextBlock, b
  <2>3. 1 \in Nat /\ 1 <= availableBlocks
    BY <1>3, <1>9
  <2>6. Cardinality({b}) = 1
    BY SmallCardinalities
  <2>4. CASE Die(m)
    <3>. HIDE DEF Left
    <3>. QED  BY <1>4, <1>9, <2>2, <2>3, <2>4, <2>6
  <2>5. CASE /\ extents' = [extents EXCEPT ![NewInode] = <<>>,
                                           ![p][Len(extents[p])].count = @ + 1]
             /\ EnterIn(p, nm, m)
             /\ Succeed \/ Overrun
    <3>1. longer \in Seq(Extent) /\ Fits(longer, n + 1)
      <4>1. n % D = 0 /\ 0 \in Nat
        BY <2>1 DEF D
      <4>. HIDE DEF n, es
      <4>. QED  BY <1>2, <2>1, <4>1, FitsOneMore
    <3>2. extents' = [extents EXCEPT ![NewInode] = <<>>, ![p] = longer]
      BY <1>3, <1>6, <1>9, <2>5
    <3>. HIDE DEF Enrolled, n, longer
    <3>3. 1 = IF n = 0 THEN 2 ELSE IF n % DentriesPerBlock = 0 THEN 1 ELSE 0
      BY <2>1
    <3>4. EnterIn(p, nm, m) /\ (Succeed \/ Overrun)
      BY <2>5
    <3>. QED  BY <1>5, <1>9, <2>2, <2>3, <2>6, <3>1, <3>2, <3>3, <3>4
  <2>. HIDE DEF Enrolled, Left
  <2>. QED  BY <1>9, <2>4, <2>5 DEF AddToNextBlock
<1>10. ASSUME availableInodes > 0, availableBlocks > 0, AddToNewExtent(p, nm, m)
       PROVE  Enrolled \/ Left
  <2>. DEFINE b == get_first_available_position(numOfDataBlocks, dataBitmap)
              more == Append(es, [start |-> b, count |-> 1])
  <2>1. b # NotFound => b \in Nat
    BY <1>3, FoundBlock
  <2>. HIDE DEF b
  <2>2. n > 0 /\ n % DentriesPerBlock = 0
    BY <1>2, <1>10 DEF AddToNewExtent
  <2>3. CASE TakeBlocks({}) /\ (FailNoSpace(m) \/ Die(m))
    <3>1. 0 \in Nat /\ 0 <= availableBlocks /\ Cardinality({}) = 0
      BY <1>3, SmallCardinalities
    <3>. HIDE DEF Left
    <3>. QED  BY <1>4, <1>10, <2>3, <3>1
  <2>4. CASE /\ b # NotFound
             /\ TakeBlocks({b})
             /\ extents' = [extents EXCEPT ![NewInode] = <<>>,
                                           ![p] = Append(@, [start |-> b, count |-> 1])]
             /\ EnterIn(p, nm, m)
             /\ Succeed \/ Overrun
    <3>1. more \in Seq(Extent) /\ Fits(more, n + 1)
      <4>1. n % D = 0 /\ b \in Nat
        BY <2>1, <2>2, <2>4 DEF D
      <4>. HIDE DEF n, es
      <4>. QED  BY <1>2, <4>1, FitsOneMore
    <3>2. extents' = [extents EXCEPT ![NewInode] = <<>>, ![p] = more]
      BY <1>3, <1>6, <1>10, <2>4
    <3>3. 1 \in Nat /\ 1 <= availableBlocks
      BY <1>3, <1>10
    <3>6. Cardinality({b}) = 1
      BY SmallCardinalities
    <3>. HIDE DEF Enrolled, n, more
    <3>4. 1 = IF n = 0 THEN 2 ELSE IF n % DentriesPerBlock = 0 THEN 1 ELSE 0
      BY <2>2
    <3>5. EnterIn(p, nm, m) /\ (Succeed \/ Overrun) /\ TakeBlocks({b})
      BY <2>4
    <3>. QED  BY <1>5, <1>10, <3>1, <3>2, <3>3, <3>4, <3>5, <3>6
  <2>. HIDE DEF Enrolled, Left
  <2>. QED  BY <1>10, <2>3, <2>4 DEF AddToNewExtent, b
<1>. HIDE DEF Enrolled, Left
<1>11. CASE UNCHANGED <<allocVars, fileVars>>
  BY <1>1, <1>11
<1>12. CASE /\ availableInodes > 0 /\ availableBlocks > 0
            /\ \/ AddToEmptyParent(p, nm, m) \/ AddToLastBlock(p, nm, m)
               \/ AddToNextBlock(p, nm, m) \/ AddToNewExtent(p, nm, m)
  BY <1>7, <1>8, <1>9, <1>10, <1>12 DEF Enrolled, Left
<1>. QED  BY <1>11, <1>12 DEF AddEntry

\* A removal changes the parent and the inode removed, whose blocks in use are at least
\* those it counts free.
LEMMA RemoveChanges ==
  ASSUME FilesInv, NEW p \in Inodes, NEW nm \in Names, IsDirectory(p), HasEntry(p, nm),
         NEW freed, NEW count \in Nat, NEW lost \in {0, 1},
         entries[Lookup(p, nm)] = <<>>, count <= UseOf(extents[Lookup(p, nm)]),
         RemoveEntry(p, Lookup(p, nm), freed, count, lost)
  PROVE  Lookup(p, nm) \in Inodes /\ Changed(p, Lookup(p, nm))
<1>. DEFINE t == Lookup(p, nm)
            n == Len(entries[p])
            kept == ExtentsKept(p)
<1>1. /\ entries[p] \in Seq(Dentry) /\ n \in Nat /\ DOMAIN entries[p] = 1 .. n
      /\ p \in LinkedInodes /\ ROOT_INODE \in Inodes
      /\ extents[p] \in Seq(Extent) /\ Fits(extents[p], n)
      /\ itable[p] \in Inode /\ itable[p].mode = "dir"
  BY DirectorySound DEF IsDirectory
<1>2. PICK j \in DOMAIN entries[p] : entries[p][j].ino = t
  BY <1>1, LookupFinds
<1>3. entries[p][j] \in Dentry /\ entries[p] # <<>> /\ n > 0
  BY <1>1, <1>2, LenProperties, ElementOfSeq, EmptySeq
<1>4. /\ t \in Inodes /\ t # p /\ t # ROOT_INODE /\ t \in LinkedInodes
      /\ entries[t] = <<>> /\ count <= UseOf(extents[t])
  <2>1. t \in Inodes
    BY <1>2, <1>3 DEF Dentry
  <2>2. t # ROOT_INODE
    BY <1>2 DEF FilesInv, InodeInv, RootUnlisted
  <2>3. Linked(t)
    BY <1>2 DEF Linked
  <2>4. t # p
    BY <1>3
  <2>. QED  BY <2>1, <2>2, <2>3, <2>4 DEF LinkedInodes
<1>5. /\ entries' = [entries EXCEPT ![p] = WithoutEntry(@, t)]
      /\ extents' = [extents EXCEPT ![t] = <<>>, ![p] = kept]
      /\ itable' = [itable EXCEPT
                      ![t] = [mode |-> "none", links |-> 0, size |-> 0],
                      ![p].links = IF Len(entries[p]) = 1 THEN 2 ELSE @ - lost]
      /\ availableBlocks' = availableBlocks + count + CountGivenBack(p)
      /\ numOfDataBlocks' = numOfDataBlocks
  BY DEF RemoveEntry, t
<1>. HIDE DEF t, kept
<1>6. /\ DOMAIN itable = Inodes /\ DOMAIN extents = Inodes /\ DOMAIN entries = Inodes
      /\ availableBlocks \in Nat /\ numOfDataBlocks \in Nat
  BY DEF FilesInv, FilesTypes, InodeInv, InodeTypes
<1>7. /\ Len(entries'[p]) = n - 1
      /\ \A k \in DOMAIN entries'[p] :
            /\ entries'[p][k].ino # t
            /\ \E l \in DOMAIN entries[p] : entries'[p][k] = entries[p][l]
  <2>1. \A i, l \in DOMAIN entries[p] : entries[p][i].ino = entries[p][l].ino => i = l
    BY DEF FilesInv, InodeInv, ListedOnce
  <2>. DEFINE es == entries[p]
              r == WithoutEntry(es, t)
  <2>2. /\ r \in Seq(Dentry) /\ Len(r) = Len(es) - 1
        /\ \A k \in DOMAIN r : r[k] = es[IF k = j THEN Len(es) ELSE k]
    <3>1. es \in Seq(Dentry) /\ j \in DOMAIN es /\ es[j].ino = t
          /\ \A i, l \in DOMAIN es : es[i].ino = es[l].ino => i = l
      BY <1>1, <1>2, <2>1
    <3>. HIDE DEF es
    <3>. QED  BY <3>1, RemovalKeepsTheRest
  <2>3. entries'[p] = r
    BY <1>5, <1>6
  <2>4. Len(es) = n /\ DOMAIN es = 1 .. n /\ n \in Nat /\ n > 0 /\ j \in 1 .. n
    BY <1>1, <1>2, <1>3
  <2>. HIDE DEF r, n
  <2>5. DOMAIN r = 1 .. n - 1
    BY <2>2, <2>4, LenProperties
  <2>6. ASSUME NEW k \in DOMAIN r
        PROVE  /\ r[k].ino # t
               /\ \E l \in DOMAIN es : r[k] = es[l]
    <3>. DEFINE l == IF k = j THEN n ELSE k
    <3>1. l \in 1 .. n /\ l # j
      <4>1. k \in 1 .. n - 1
        BY <2>5
      <4>. QED  BY <2>4, <4>1
    <3>2. r[k] = es[l]
      BY <2>2, <2>4
    <3>3. es[l].ino # t
      BY <1>2, <2>1, <2>4, <3>1
    <3>. HIDE DEF l
    <3>. QED  BY <2>4, <3>1, <3>2, <3>3
  <2>. QED  BY <2>2, <2>3, <2>4, <2>6
<1>8. /\ \A i \in Inodes \ {p} : entries'[i] = entries[i]
      /\ extents'[p] = kept /\ extents'[t] = <<>> /\ DOMAIN extents' = Inodes
      /\ \A i \in Inodes \ {p, t} : extents'[i] = extents[i] /\ itable'[i] = itable[i]
      /\ itable'[p] = [itable[p] EXCEPT !.links = IF Len(entries[p]) = 1 THEN 2 ELSE @ - lost]
      /\ itable'[t] = [mode |-> "none", links |-> 0, size |-> 0] /\ DOMAIN itable' = Inodes
  BY <1>4, <1>5, <1>6
<1>9. kept \in Seq(Extent) /\ Fits(kept, n - 1)
  BY <1>1, <1>3, ExtentsKeptFit DEF kept
<1>10. itable'[p] \in Inode /\ itable'[p].mode = "dir"
  BY <1>1, <1>8 DEF Inode
<1>11. SoundInode(itable'[p], extents'[p], Len(entries'[p]))
  BY <1>7, <1>8, <1>9, <1>10, ExtentsAreFileExtents DEF SoundInode
<1>12. SoundInode(itable'[t], extents'[t], Len(entries'[t]))
  <2>1. itable'[t] \in Inode /\ itable'[t].size = 0
    BY <1>8 DEF Inode, Modes
  <2>2. Len(entries'[t]) = 0
    BY <1>4, <1>8
  <2>. QED  BY <1>8, <2>1, <2>2, EmptyInodeSound
<1>13. ASSUME NEW i \in Inodes, Linked(i)'
       PROVE  Linked(i) /\ i # t
  <2>1. CASE i = ROOT_INODE
    BY <1>4, <2>1 DEF Linked
  <2>2. CASE i # ROOT_INODE
    <3>. PICK d \in Inodes : \E k \in DOMAIN entries'[d] : entries'[d][k].ino = i
      BY <1>13, <2>2 DEF Linked
    <3>1. PICK k \in DOMAIN entries'[d] : entries'[d][k].ino = i
      OBVIOUS
    <3>2. CASE d = p
      <4>1. i # t
        BY <1>7, <3>1, <3>2
      <4>2. PICK l \in DOMAIN entries[p] : entries'[p][k] = entries[p][l]
        BY <1>7, <3>1, <3>2
      <4>. QED  BY <3>1, <3>2, <4>1, <4>2 DEF Linked
    <3>3. CASE d # p
      <4>1. k \in DOMAIN entries[d] /\ entries[d][k].ino = i
        BY <1>8, <3>1, <3>3
      <4>2. i # t
        BY <1>2, <3>3, <4>1 DEF FilesInv, InodeInv, ListedOnce
      <4>. QED  BY <4>1, <4>2 DEF Linked
    <3>. QED  BY <3>2, <3>3
  <2>. QED  BY <2>1, <2>2
<1>14. itable'[ROOT_INODE].mode = itable[ROOT_INODE].mode
  BY <1>1, <1>4, <1>8, <1>10
<1>15. UseOf(extents[p]) = UseOf(kept) + CountGivenBack(p)
       /\ UseOf(kept) \in Nat /\ CountGivenBack(p) \in Nat
  <2>1. n - 1 \in Nat /\ (n - 1) + 1 = n
    BY <1>1, <1>3
  <2>. DEFINE m == n - 1
              old == UseOf(extents[p])
              new == UseOf(kept)
  <2>. HIDE DEF m, old, new
  <2>2. /\ m \in Nat /\ m + 1 = n /\ Fits(kept, m) /\ Fits(extents[p], m + 1)
    BY <1>1, <1>9, <2>1 DEF m
  <2>3. /\ new \in Nat
        /\ old = new + (IF m = 0 THEN 2 ELSE IF m % DentriesPerBlock = 0 THEN 1 ELSE 0)
        /\ m % DentriesPerBlock = 0 <=> (m + 1) % DentriesPerBlock = 1
    BY <1>1, <1>9, <2>2, UseOfOneMore DEF old, new
  <2>4. CountGivenBack(p) = IF n = 1 THEN 2 ELSE IF n % DentriesPerBlock = 1 THEN 1 ELSE 0
    BY DEF CountGivenBack
  <2>5. CountGivenBack(p) = IF m = 0 THEN 2 ELSE IF m % DentriesPerBlock = 0 THEN 1 ELSE 0
    <3>1. n \in Nat
      BY <1>1
    <3>. HIDE DEF n
    <3>3. n = 1 <=> m = 0
      BY <2>2, <3>1
    <3>2. n % DentriesPerBlock = 1 <=> m % DentriesPerBlock = 0
      BY <2>2, <2>3
    <3>. QED  BY <2>4, <3>2, <3>3
  <2>. QED  BY <2>3, <2>5 DEF old, new
<1>16. availableBlocks' \in Nat
  BY <1>5, <1>6, <1>15
<1>17. availableBlocks' + Both(Uses(LinkedInodes', extents'), p, t)
          <= availableBlocks + Both(Uses(LinkedInodes, extents), p, t)
  <2>. DEFINE u == Uses(LinkedInodes, extents)
              v == Uses(LinkedInodes', extents')
              ut == UseOf(extents[t])
              a == availableBlocks
              b == availableBlocks'
              x == UseOf(kept)
              g == CountGivenBack(p)
  <2>1. u[p] = x + g /\ u[t] = ut /\ ut \in Nat
    <3>1. \A i \in Inodes : extents[i] \in Seq(FileExtent)
      BY DirectorySound
    <3>2. UseOf(extents[p]) = x + g
      BY <1>15
    <3>. HIDE DEF x, g
    <3>. QED  BY <1>1, <1>4, <3>1, <3>2, UsesAreNumbers
  <2>2. v[t] = 0 /\ v[p] \in Nat /\ v[p] <= x
    <3>1. t \notin LinkedInodes'
      BY <1>13 DEF LinkedInodes
    <3>2. v[t] = 0
      BY <1>4, <3>1 DEF Uses
    <3>3. v[p] = IF p \in LinkedInodes' THEN UseOf(extents'[p]) ELSE 0
      BY DEF Uses
    <3>4. v[p] = x \/ v[p] = 0
      BY <1>8, <3>3
    <3>5. x \in Nat
      BY <1>15
    <3>. HIDE DEF v, x
    <3>. QED  BY <3>2, <3>4, <3>5
  <2>3. b = a + count + g /\ a \in Nat /\ b \in Nat /\ g \in Nat /\ x \in Nat /\ count <= ut
    BY <1>4, <1>5, <1>6, <1>15, <1>16
  <2>. HIDE DEF u, v, ut, a, b, x, g
  <2>4. Both(u, p, t) = x + g + ut /\ Both(v, p, t) = v[p]
    BY <1>4, <2>1, <2>2, <2>3 DEF Both
  <2>5. b + v[p] <= a + (x + g + ut)
    BY <2>1, <2>2, <2>3
  <2>. QED  BY <2>4, <2>5 DEF u, v, a, b
<1>. HIDE DEF n
<1>18. Changed(p, t)
  BY <1>6, <1>5, <1>8, <1>11, <1>12, <1>13, <1>14, <1>16, <1>17 DEF Changed
<1>. QED  BY <1>4, <1>18 DEF t

-----------------------------------------------------------------------------
(* truncate and write. *)

\* Stored for file f with that size, t leaves it with the extents its size needs, took
\* from the counter what f gained, and if space ran out, kept the size or added whole
\* blocks to it.
Storable(f, t, size) ==
    LET z == IF RetAfter(t.outcome) = "ok" THEN size ELSE t.size
    IN  /\ t.free \in Nat /\ z \in Nat /\ t.extents \in Seq(FileExtent)
        /\ BlockSum(t.extents) = BlocksToHold(z)
        /\ t.free + UseOf(t.extents) <= availableBlocks + UseOf(extents[f])
        /\ t.outcome = "ENOSPC" =>
              z = itable[f].size \/ (z > itable[f].size /\ z % BlockSize = 0)

\* What the callbacks read of a file is sound.
LEMMA FileStateSound ==
  ASSUME FilesInv, NEW f \in Inodes, IsFile(f)
  PROVE  /\ Sound(FileState(f)) /\ FileState(f).outcome = "ok"
         /\ FileState(f).size = itable[f].size /\ itable[f].size \in Nat
         /\ FileState(f).free = availableBlocks
         /\ FileState(f).extents = extents[f]
         /\ get_num_blks_of_file(f) = BlocksToHold(itable[f].size)
         /\ BlockSum(extents[f]) = BlocksToHold(itable[f].size)
<1>1. SoundInode(itable[f], extents[f], Len(entries[f])) /\ itable[f].mode = "reg"
  BY DEF FilesInv, InodesSound, IsFile
<1>2. /\ itable[f].size \in Nat /\ extents[f] \in Seq(FileExtent)
      /\ BlockSum(extents[f]) = BlocksToHold(itable[f].size)
  BY <1>1 DEF SoundInode, Inode
<1>3. availableBlocks \in Nat
  BY DEF FilesInv, FilesTypes
<1>. QED  BY <1>2, <1>3, BlocksAreSummed DEF FileState, Sound

\* A step that stores such a t changes f only, and no directory.
LEMMA StoreChanges ==
  ASSUME FilesInv, NEW f \in Inodes, IsFile(f), NEW t, NEW size,
         Store(f, t, size), Storable(f, t, size)
  PROVE  /\ InodeInv' /\ Changed(f, f)
         /\ ret' = "ENOSPC" =>
               \/ itable'[f].size = itable[f].size
               \/ itable'[f].size > itable[f].size /\ itable'[f].size % BlockSize = 0
<1>. DEFINE z == IF RetAfter(t.outcome) = "ok" THEN size ELSE t.size
<1>1. /\ availableBlocks' = t.free
      /\ itable' = [itable EXCEPT ![f].size = z]
      /\ extents' = [extents EXCEPT ![f] = t.extents]
      /\ ret' = "ENOSPC" => t.outcome = "ENOSPC"
      /\ inodeBitmap' = inodeBitmap /\ availableInodes' = availableInodes
      /\ entries' = entries /\ numOfDataBlocks' = numOfDataBlocks
  <2>1. RetAfter(t.outcome) = "ENOSPC" => t.outcome = "ENOSPC"
    BY DEF RetAfter
  <2>. QED  BY <2>1 DEF Store
<1>2. /\ t.free \in Nat /\ z \in Nat /\ t.extents \in Seq(FileExtent)
      /\ BlockSum(t.extents) = BlocksToHold(z)
      /\ t.free + UseOf(t.extents) <= availableBlocks + UseOf(extents[f])
      /\ t.outcome = "ENOSPC" =>
            z = itable[f].size \/ (z > itable[f].size /\ z % BlockSize = 0)
  BY DEF Storable
<1>. HIDE DEF z
<1>3. InodeInv'
  BY <1>1 DEF FilesInv, InodeInv, InodeTypes, InodesCounted, ListedOnce, LinkedAllocated,
              RootUnlisted, Linked
<1>4. /\ DOMAIN itable = Inodes /\ DOMAIN extents = Inodes /\ numOfDataBlocks \in Nat
      /\ itable[ROOT_INODE].mode = "dir" /\ f \in LinkedInodes
      /\ itable[f].mode = "reg" /\ itable[f] \in Inode /\ Len(entries[f]) = 0
  BY DirectorySound DEF FilesInv, FilesTypes, IsFile, LinkedInodes
<1>5. /\ DOMAIN itable' = Inodes /\ DOMAIN extents' = Inodes
      /\ itable'[f] = [itable[f] EXCEPT !.size = z] /\ extents'[f] = t.extents
      /\ \A i \in Inodes \ {f} : itable'[i] = itable[i] /\ extents'[i] = extents[i]
  BY <1>1, <1>4
<1>6. itable'[f] \in Inode /\ itable'[f].size = z /\ itable'[f].mode = "reg"
  BY <1>2, <1>4, <1>5 DEF Inode
<1>7. SoundInode(itable'[f], extents'[f], Len(entries'[f]))
  BY <1>1, <1>2, <1>4, <1>5, <1>6 DEF SoundInode
<1>8. \A i : Linked(i)' <=> Linked(i)
  BY <1>1 DEF Linked
<1>9. itable'[ROOT_INODE].mode = itable[ROOT_INODE].mode
  <2>1. ROOT_INODE \in Inodes /\ ROOT_INODE # f
    BY <1>4, DirectorySound
  <2>. QED  BY <1>5, <2>1
<1>10. availableBlocks' + Both(Uses(LinkedInodes', extents'), f, f)
          <= availableBlocks + Both(Uses(LinkedInodes, extents), f, f)
  <2>. DEFINE u == Uses(LinkedInodes, extents)
              v == Uses(LinkedInodes', extents')
  <2>1. u[f] = UseOf(extents[f])
    BY <1>4 DEF Uses
  <2>2. f \in LinkedInodes'
    BY <1>4, <1>8 DEF LinkedInodes
  <2>3. v[f] = UseOf(t.extents)
    BY <1>5, <2>2 DEF Uses
  <2>. HIDE DEF u, v
  <2>4. Both(u, f, f) = UseOf(extents[f]) /\ Both(v, f, f) = UseOf(t.extents)
    BY <2>1, <2>3 DEF Both
  <2>. QED  BY <1>1, <1>2, <2>4 DEF u, v
<1>11. Changed(f, f)
  BY <1>1, <1>2, <1>4, <1>5, <1>7, <1>8, <1>9, <1>10 DEF Changed
<1>. QED  BY <1>1, <1>2, <1>3, <1>6, <1>11

\* Growth to the blocks a size needs can be stored with that size.
LEMMA GrowthStorable ==
  ASSUME FilesInv, NEW f \in Inodes, IsFile(f), NEW n \in Nat, NEW size \in Nat,
         Grow(FileState(f), n).outcome = "ok" =>
            BlocksToHold(size) = get_num_blks_of_file(f) + n
  PROVE  Storable(f, Grow(FileState(f), n), size)
<1>. DEFINE s == FileState(f)
            t == Grow(s, n)
<1>1. /\ Sound(s) /\ s.outcome = "ok" /\ s.size = itable[f].size
      /\ s.free = availableBlocks /\ s.extents = extents[f]
      /\ get_num_blks_of_file(f) = BlockSum(extents[f])
  BY FileStateSound
<1>2. numOfDataBlocks \in Nat
  BY DEF FilesInv, FilesTypes
<1>. HIDE DEF s
<1>3. Grown(s, t, n)
  BY <1>1, <1>2, GrowGrows
<1>. HIDE DEF t
<1>4. /\ Sound(t)
      /\ t.free + UseOf(t.extents) <= s.free + UseOf(s.extents)
      /\ t.size = s.size \/ (t.size > s.size /\ t.size % BlockSize = 0)
      /\ t.outcome = "ok" => BlockSum(t.extents) = BlockSum(s.extents) + n
  BY <1>3 DEF Grown
<1>5. /\ t.free \in Nat /\ t.size \in Nat /\ t.extents \in Seq(FileExtent)
      /\ BlockSum(t.extents) = BlocksToHold(t.size)
  BY <1>4 DEF Sound
<1>6. t.outcome = "ok" => BlockSum(t.extents) = BlocksToHold(size)
  BY <1>1, <1>4 DEF s, t
<1>8. RetAfter(t.outcome) = "ok" => t.outcome = "ok"
  <2>1. t.outcome # "scribbled"
    BY <1>3 DEF Grown
  <2>. QED  BY <2>1 DEF RetAfter
<1>7. Storable(f, t, size)
  BY <1>1, <1>4, <1>5, <1>6, <1>8 DEF Storable
<1>. QED  BY <1>7 DEF s, t

\* truncate and write leave everything, or store something storable.
LEMMA FileCallbackStores ==
  ASSUME FilesInv, SizesFit', NEW f \in Inodes,
         \/ \E size \in Nat : Truncate(f, size)
         \/ \E offset \in Nat, n \in Nat : Write(f, offset, n)
  PROVE  /\ IsFile(f)
         /\ \/ UNCHANGED <<allocVars, fileVars, numOfDataBlocks>>
            \/ \E t, z : Store(f, t, z) /\ Storable(f, t, z)
<1>. DEFINE s == FileState(f)
            old == itable[f].size
            blocks == get_num_blks_of_file(f)
<1>1. IsFile(f)
  BY DEF Truncate, Write
<1>2. /\ Sound(s) /\ s.outcome = "ok" /\ s.size = old /\ old \in Nat
      /\ s.free = availableBlocks /\ s.extents = extents[f]
      /\ blocks = BlocksToHold(old) /\ BlockSum(extents[f]) = BlocksToHold(old)
  BY <1>1, FileStateSound
<1>. HIDE DEF s, blocks
<1>3. ASSUME NEW z \in Nat, BlocksToHold(z) = blocks
      PROVE  Storable(f, s, z)
  <2>1. /\ s.free \in Nat /\ s.extents \in Seq(FileExtent)
        /\ s.free + UseOf(s.extents) \in Int
    <3>1. BlocksToHold(old) \in Nat
      BY <1>2, NoBytesNoBlocks
    <3>2. UseOf(s.extents) \in Nat
      BY <1>2, <3>1 DEF UseOf
    <3>. QED  BY <1>2, <3>2 DEF Sound
  <2>2. s.free + UseOf(s.extents) <= availableBlocks + UseOf(extents[f])
    <3>. DEFINE x == s.free + UseOf(s.extents)
    <3>1. x = availableBlocks + UseOf(extents[f]) /\ x \in Int
      BY <1>2, <2>1
    <3>. HIDE DEF x
    <3>2. x <= x
      BY <3>1
    <3>. QED  BY <3>1, <3>2 DEF x
  <2>. QED  BY <1>2, <1>3, <2>1, <2>2 DEF Storable
<1>4. ASSUME NEW n \in Nat, NEW z \in Nat,
             Grow(s, n).outcome = "ok" => BlocksToHold(z) = blocks + n
      PROVE  Storable(f, Grow(s, n), z)
  BY <1>1, <1>4, GrowthStorable DEF s, blocks
<1>5. blocks \in Nat
  BY <1>2, NoBytesNoBlocks
<1>6. ASSUME NEW t, NEW z \in Nat, Store(f, t, z), RetAfter(t.outcome) = "ok"
      PROVE  z < WordSize
  <2>1. itable' = [itable EXCEPT ![f].size = z]
    BY <1>6 DEF Store
  <2>2. DOMAIN itable = Inodes /\ DOMAIN itable[f] = {"mode", "links", "size"}
    <3>1. SoundInode(itable[f], extents[f], Len(entries[f]))
      BY DEF FilesInv, InodesSound
    <3>. QED  BY <3>1 DEF FilesInv, FilesTypes, SoundInode, Inode
  <2>3. itable'[f].size = z
    BY <2>1, <2>2
  <2>. QED  BY <2>3 DEF SizesFit
<1>7. ASSUME NEW size \in Nat, TruncateExtend(f, size)
      PROVE  \E t, z : Store(f, t, z) /\ Storable(f, t, z)
  <2>. DEFINE n == (new_file_block_count(size) - blocks) % WordSize
  <2>1. Store(f, Grow(s, n), size)
    BY <1>7 DEF TruncateExtend, s, blocks
  <2>2. n \in Nat
    <3>1. new_file_block_count(size) \in Int
      BY BlockSizeAssumption, WordSizeAssumption DEF new_file_block_count
    <3>2. WordSize \in Nat /\ WordSize > 0
      BY BlockSizeAssumption, NumBlocksAssumption, WordSizeAssumption
    <3>. DEFINE d == new_file_block_count(size) - blocks
    <3>3. d \in Int
      BY <1>5, <3>1
    <3>. HIDE DEF d
    <3>4. d % WordSize \in Nat
      BY <3>2, <3>3
    <3>. QED  BY <3>4 DEF d
  <2>3. Grow(s, n).outcome = "ok" => BlocksToHold(size) = blocks + n
    <3>. SUFFICES ASSUME Grow(s, n).outcome = "ok" PROVE BlocksToHold(size) = blocks + n
      OBVIOUS
    <3>1. size < WordSize
      <4>1. RetAfter(Grow(s, n).outcome) = "ok"
        BY DEF RetAfter
      <4>. HIDE DEF n
      <4>. QED  BY <1>6, <2>1, <4>1
    <3>. DEFINE c == BlocksToHold(size)
    <3>2. new_file_block_count(size) = c /\ c \in Nat /\ c < WordSize /\ blocks <= c
      <4>1. old <= size
        BY <1>2, <1>7 DEF TruncateExtend
      <4>. QED  BY <1>2, <3>1, <4>1, CountIsBlocksToHold, MoreBytesMoreBlocks
    <3>3. n = (c - blocks) % WordSize
      BY <3>2
    <3>. DEFINE d == c - blocks
    <3>4. d \in Nat /\ d < WordSize /\ WordSize \in Nat /\ c = blocks + d
      BY <1>5, <3>2, WordSizeAssumption
    <3>5. n = d % WordSize
      BY <3>3
    <3>. HIDE DEF c, d, n
    <3>6. n = d
      BY <3>4, <3>5
    <3>. QED  BY <3>4, <3>6 DEF c
  <2>. HIDE DEF n
  <2>4. Storable(f, Grow(s, n), size)
    BY <1>4, <2>2, <2>3
  <2>. QED  BY <2>1, <2>4
<1>8. ASSUME NEW size \in Nat, TruncateShrink(f, size)
      PROVE  \E t, z : Store(f, t, z) /\ Storable(f, t, z)
  <2>. DEFINE kept == new_file_block_count(size)
  <2>1. size < s.size /\ size < old
    BY <1>2, <1>8 DEF TruncateShrink
  <2>2. s.size # 0 /\ s.extents # <<>>
    <3>1. s.size # 0
      BY <1>2, <2>1
    <3>. QED  BY <1>2, <3>1, SizeIsHeld
  <2>3. \/ kept <= Blocks(s) /\ Store(f, [ShrunkenState(s, kept) EXCEPT !.size = size], size)
        \/ kept > Blocks(s) /\ Store(f, [CutToFirst(s) EXCEPT !.size = size], size)
    BY <1>8, <2>2 DEF TruncateShrink, s
  <2>4. Blocks(s) = BlocksToHold(old) /\ BlocksToHold(old) \in Nat
    BY <1>2, NoBytesNoBlocks DEF Blocks, BlockSum
  <2>5. size < WordSize
    <3>1. CASE Store(f, [ShrunkenState(s, kept) EXCEPT !.size = size], size)
      <4>1. [ShrunkenState(s, kept) EXCEPT !.size = size].outcome \in {"ok", "scribbled"}
        BY DEF ShrunkenState, ScribbledAfter
      <4>. QED  BY <1>6, <3>1, <4>1 DEF RetAfter
    <3>2. CASE Store(f, [CutToFirst(s) EXCEPT !.size = size], size)
      <4>1. [CutToFirst(s) EXCEPT !.size = size].outcome \in {"ok", "scribbled"}
        BY DEF CutToFirst, ScribbledAfter
      <4>. QED  BY <1>6, <3>2, <4>1 DEF RetAfter
    <3>. QED  BY <2>3, <3>1, <3>2
  <2>6. kept = BlocksToHold(size) /\ BlocksToHold(size) <= BlocksToHold(old)
        /\ BlocksToHold(size) \in Nat
    BY <1>2, <2>1, <2>5, CountIsBlocksToHold, MoreBytesMoreBlocks
  <2>7. Store(f, [ShrunkenState(s, kept) EXCEPT !.size = size], size)
    BY <2>3, <2>4, <2>6
  <2>8. PICK t : /\ t = [ShrunkenState(s, BlocksToHold(size)) EXCEPT !.size = size]
                 /\ Sound(t) /\ t.size = size
                 /\ t.free + UseOf(t.extents) <= s.free + UseOf(s.extents)
                 /\ t.outcome \in {"ok", "scribbled"}
    BY <1>2, <2>1, ShrinkKeepsSound
  <2>9. Store(f, t, size)
    BY <2>6, <2>7, <2>8
  <2>10. Storable(f, t, size)
    BY <1>2, <2>8 DEF Storable, Sound
  <2>. QED  BY <2>9, <2>10
<1>9. ASSUME NEW size \in Nat, Truncate(f, size)
      PROVE  \/ UNCHANGED <<allocVars, fileVars, numOfDataBlocks>>
             \/ \E t, z : Store(f, t, z) /\ Storable(f, t, z)
  BY <1>7, <1>8, <1>9 DEF Truncate
<1>10. ASSUME NEW offset \in Nat, NEW n \in Nat, Write(f, offset, n)
      PROVE  \E t, z : Store(f, t, z) /\ Storable(f, t, z)
  <2>. DEFINE size == offset + n
              b == BlockSize
              held == b * Blocks(s)
  <2>1. size \in Nat /\ b \in Nat /\ b > 0
    BY BlockSizeAssumption
  <2>2. Blocks(s) = blocks
    BY <1>2 DEF Blocks, BlockSum
  <2>3. held = blocks * b /\ held \in Nat
    BY <1>5, <2>1, <2>2
  <2>4. n > 0 /\ offset \div b = (size - 1) \div b /\ offset \div b <= blocks + 1
    BY <1>2, <1>10 DEF Write, s
  <2>5. \/ size <= old /\ offset < held /\ Store(f, s, old)
        \/ size <= old /\ offset >= held
        \/ size > old /\ size <= held /\ Store(f, s, size)
        \/ size > held /\ size <= held + b /\ Store(f, Grow(s, 1), size)
        \/ size > held + b /\ Store(f, Grow(s, 2), size)
    BY <1>2, <1>10 DEF Write, s
  <2>6. old <= held
    BY <1>2, <1>5, <2>3, BlocksHold
  <2>7. size <= held + b + b
    <3>. DEFINE q == (size - 1) \div b
                r == (size - 1) % b
    <3>1. q \in Int /\ r \in 0 .. b - 1 /\ size - 1 = b * q + r /\ q <= blocks + 1
      <4>1. size - 1 \in Int /\ q <= blocks + 1
        BY <2>1, <2>4
      <4>. HIDE DEF b, size
      <4>. QED  BY <2>1, <4>1
    <3>. HIDE DEF q, r
    <3>2. b * q <= b * (blocks + 1)
      <4>. HIDE DEF b, size
      <4>. QED  BY <1>5, <2>1, <3>1
    <3>3. b * (blocks + 1) = held + b
      <4>. HIDE DEF b, size, held
      <4>. QED  BY <1>5, <2>1, <2>3
    <3>. HIDE DEF b, size, held
    <3>. DEFINE x == b * q
                y == b * (blocks + 1)
    <3>4. x \in Int /\ y \in Int /\ x <= y /\ size - 1 = x + r /\ y = held + b
      BY <1>5, <2>1, <3>1, <3>2, <3>3
    <3>. HIDE DEF x, y
    <3>. QED  BY <2>1, <2>3, <3>1, <3>4
  <2>8. ASSUME NEW k \in Nat, size <= held + k, held + k < size + b,
               NEW c \in Nat, c * b = held + k
        PROVE  BlocksToHold(size) = c
    <3>1. size <= c * b /\ c * b < size + b
      BY <2>8
    <3>. HIDE DEF size, held
    <3>. QED  BY <2>1, <2>8, <3>1, BlocksThatHold DEF b
  <2>. HIDE DEF size, held, b
  <2>9. CASE size <= old /\ offset < held /\ Store(f, s, old)
    BY <1>2, <1>3, <2>9
  <2>10. CASE size <= old /\ offset >= held
    BY <1>2, <2>1, <2>3, <2>4, <2>6, <2>10 DEF size
  <2>11. CASE size > old /\ size <= held /\ Store(f, s, size)
    <3>1. BlocksToHold(size) = blocks
      <4>1. blocks <= BlocksToHold(size)
        BY <1>2, <2>1, <2>11, MoreBytesMoreBlocks
      <4>2. BlocksToHold(size) <= BlocksToHold(held)
        BY <2>1, <2>3, <2>11, MoreBytesMoreBlocks
      <4>3. BlocksToHold(held) = blocks
        BY <1>5, <2>3, WholeBlocks DEF b
      <4>4. BlocksToHold(size) \in Nat
        BY <2>1, NoBytesNoBlocks
      <4>. QED  BY <1>5, <4>1, <4>2, <4>3, <4>4
    <3>. QED  BY <1>3, <2>1, <2>11, <3>1
  <2>12. CASE size > held /\ size <= held + b /\ Store(f, Grow(s, 1), size)
    <3>1. blocks + 1 \in Nat /\ (blocks + 1) * b = held + b /\ held + b < size + b
      BY <1>5, <2>1, <2>3, <2>12
    <3>2. BlocksToHold(size) = blocks + 1
      BY <2>1, <2>8, <2>12, <3>1
    <3>. QED  BY <1>4, <2>1, <2>12, <3>2
  <2>13. CASE size > held + b /\ Store(f, Grow(s, 2), size)
    <3>1. /\ blocks + 2 \in Nat /\ (blocks + 2) * b = held + (b + b) /\ b + b \in Nat
          /\ held + (b + b) < size + b /\ size <= held + (b + b)
      BY <1>5, <2>1, <2>3, <2>7, <2>13
    <3>2. BlocksToHold(size) = blocks + 2
      BY <2>8, <3>1
    <3>. QED  BY <1>4, <2>1, <2>13, <3>2
  <2>. QED  BY <2>5, <2>9, <2>10, <2>11, <2>12, <2>13
<1>. QED  BY <1>1, <1>9, <1>10

-----------------------------------------------------------------------------
(* The specification. *)

\* The directory callbacks, those that run out of space included.
LEMMA CallbackChanges ==
  ASSUME FilesInv, Callback
  PROVE  \/ UNCHANGED <<allocVars, fileVars, numOfDataBlocks>>
         \/ ret' = "ok" /\ \E p, t \in Inodes : Changed(p, t)
         \/ \E t \in Inodes \ LinkedInodes : Changed(t, t)
<1>. DEFINE Done == \/ UNCHANGED <<allocVars, fileVars, numOfDataBlocks>>
                    \/ ret' = "ok" /\ \E p, t \in Inodes : Changed(p, t)
                    \/ \E t \in Inodes \ LinkedInodes : Changed(t, t)
<1>1. ASSUME NEW p \in Inodes, NEW nm \in Names, Mkdir(p, nm) \/ Create(p, nm)
      PROVE  Done
  <2>1. PICK m \in {"dir", "reg"} : AddEntry(p, nm, m)
    BY <1>1 DEF Mkdir, Create
  <2>. QED  BY <2>1, AddEntryChanges
<1>2. ASSUME NEW p \in Inodes, NEW nm \in Names, IsDirectory(p), HasEntry(p, nm)
      PROVE  Lookup(p, nm) \in Inodes
  <2>1. entries[p] \in Seq(Dentry)
    BY DirectorySound
  <2>2. PICK j \in DOMAIN entries[p] : entries[p][j].ino = Lookup(p, nm)
    BY <1>2, <2>1, LookupFinds
  <2>3. entries[p][j] \in Dentry
    BY <2>1, <2>2, LenProperties, ElementOfSeq
  <2>. QED  BY <2>2, <2>3 DEF Dentry
<1>3. ASSUME NEW p \in Inodes, NEW nm \in Names, Rmdir(p, nm)
      PROVE  Done
  <2>. DEFINE t == Lookup(p, nm)
  <2>1. /\ IsDirectory(p) /\ HasEntry(p, nm)
        /\ \/ UNCHANGED <<allocVars, fileVars, numOfDataBlocks>>
           \/ entries[t] = <<>> /\ RemoveEntry(p, t, {}, 0, 1)
    BY <1>3 DEF Rmdir
  <2>2. CASE entries[t] = <<>> /\ RemoveEntry(p, t, {}, 0, 1)
    <3>1. t \in Inodes /\ extents[t] \in Seq(FileExtent)
      BY <1>2, <2>1, DirectorySound
    <3>2. UseOf(extents[t]) \in Nat
      <4>. DEFINE x == BlockSum(extents[t])
      <4>1. x \in Nat
        BY <3>1, FileBlocksSplit DEF Splits
      <4>. HIDE DEF x
      <4>. QED  BY <4>1 DEF UseOf, x
    <3>. DEFINE y == UseOf(extents[t])
    <3>. HIDE DEF y
    <3>3. 0 \in Nat /\ 0 <= y /\ 1 \in {0, 1}
      BY <3>2 DEF y
    <3>4. Changed(p, t) /\ ret' = "ok"
      BY <2>1, <2>2, <3>3, RemoveChanges DEF RemoveEntry, y
    <3>. QED  BY <3>1, <3>4
  <2>. QED  BY <2>1, <2>2
<1>4. ASSUME NEW p \in Inodes, NEW nm \in Names, Unlink(p, nm)
      PROVE  Done
  <2>. DEFINE t == Lookup(p, nm)
  <2>1. /\ IsDirectory(p) /\ HasEntry(p, nm) /\ itable[t].mode = "reg"
        /\ \/ itable[t].size = 0 /\ RemoveEntry(p, t, {}, 0, 0)
           \/ /\ itable[t].size # 0
              /\ RemoveEntry(p, t, OwnedBlocks(t), get_num_blks_of_file(t) + 1, 0)
    BY <1>4 DEF Unlink
  <2>2. t \in Inodes
    BY <1>2, <2>1
  <2>. HIDE DEF t
  <2>3. /\ entries[t] = <<>> /\ extents[t] \in Seq(FileExtent)
        /\ BlockSum(extents[t]) = BlocksToHold(itable[t].size) /\ itable[t].size \in Nat
        /\ get_num_blks_of_file(t) = BlockSum(extents[t])
    <3>1. SoundInode(itable[t], extents[t], Len(entries[t]))
      BY <2>2 DEF FilesInv, InodesSound
    <3>. QED  BY <2>1, <2>2, <3>1, DirectorySound, BlocksAreSummed DEF SoundInode, Inode
  <2>. DEFINE c == BlockSum(extents[t])
              y == UseOf(extents[t])
  <2>4. c \in Nat /\ (c = 0 <=> itable[t].size = 0)
    BY <2>3, NoBytesNoBlocks
  <2>5. y = (IF extents[t] = <<>> THEN 0 ELSE 1 + c) /\ (extents[t] = <<>> => c = 0)
    BY NoBlocks DEF UseOf
  <2>. HIDE DEF c, y
  <2>6. y \in Nat /\ (itable[t].size # 0 => c + 1 <= y)
    BY <2>4, <2>5
  <2>7. PICK count \in Nat : count <= y /\ \E freed : RemoveEntry(p, t, freed, count, 0)
    <3>1. CASE itable[t].size = 0
      <4>1. 0 \in Nat /\ 0 <= y
        BY <2>6
      <4>. QED  BY <2>1, <3>1, <4>1
    <3>2. CASE itable[t].size # 0
      <4>1. c + 1 \in Nat /\ c + 1 <= y /\ get_num_blks_of_file(t) = c
        BY <2>3, <2>4, <2>6, <3>2 DEF c
      <4>. QED  BY <2>1, <3>2, <4>1
    <3>. QED  BY <3>1, <3>2
  <2>8. 0 \in {0, 1}
    OBVIOUS
  <2>. PICK freed : RemoveEntry(p, t, freed, count, 0)
    BY <2>7
  <2>9. Changed(p, t) /\ ret' = "ok"
    BY <2>1, <2>3, <2>7, <2>8, RemoveChanges DEF RemoveEntry, y, t
  <2>. QED  BY <2>2, <2>9
<1>. QED  BY <1>1, <1>3, <1>4 DEF Callback

\* Every step keeps the invariant, and one that runs out of space the bytes of every file.
LEMMA FilesStep ==
  ASSUME FilesInv, [DriverNext /\ SizesFit']_vars
  PROVE  /\ FilesInv'
         /\ ret' = "ENOSPC" =>
               \A f \in LinkedInodes :
                  \/ itable'[f].size = itable[f].size
                  \/ itable'[f].size > itable[f].size /\ itable'[f].size % BlockSize = 0
<1>1. ASSUME UNCHANGED <<allocVars, fileVars>>, numOfDataBlocks' \in Nat
      PROVE  FilesInv'
  <2>1. InodeInv'
    BY <1>1 DEF FilesInv, InodeInv, InodeTypes, InodesCounted, ListedOnce, LinkedAllocated,
                RootUnlisted, Linked, allocVars, fileVars
  <2>2. FilesTypes' /\ InodesSound'
    BY <1>1 DEF FilesInv, FilesTypes, InodesSound, allocVars, fileVars
  <2>3. UseCovered'
    BY <1>1 DEF FilesInv, UseCovered, LinkedInodes, Linked, allocVars, fileVars
  <2>. QED  BY <2>1, <2>2, <2>3 DEF FilesInv
<1>2. availableBlocks \in Nat /\ numOfDataBlocks \in Nat
  BY DEF FilesInv, FilesTypes
<1>3. CASE UNCHANGED vars
  BY <1>1, <1>2, <1>3 DEF vars, allocVars, fileVars
<1>4. CASE Mount
  BY <1>1, <1>2, <1>4 DEF Mount
<1>5. CASE Callback
  <2>1. InodeInv'
    BY <1>5, NextKeepsInodeInv DEF FilesInv, Next
  <2>2. CASE UNCHANGED <<allocVars, fileVars, numOfDataBlocks>>
    BY <1>1, <1>2, <2>2 DEF fileVars
  <2>3. CASE ret' = "ok" /\ \E p, t \in Inodes : Changed(p, t)
    BY <2>1, <2>3, ChangedKeepsFilesInv
  <2>4. ASSUME NEW t \in Inodes \ LinkedInodes, Changed(t, t)
        PROVE  FilesInv' /\ \A f \in LinkedInodes : itable'[f] = itable[f]
    <3>1. FilesInv'
      BY <2>1, <2>4, ChangedKeepsFilesInv
    <3>2. LinkedInodes \subseteq Inodes \ {t, t}
      BY DEF LinkedInodes
    <3>3. \A f \in Inodes \ {t, t} : itable'[f] = itable[f]
      BY <2>4 DEF Changed
    <3>. QED  BY <3>1, <3>2, <3>3
  <2>. QED  BY <1>5, <2>2, <2>3, <2>4, CallbackChanges
<1>6. CASE (\E p \in Inodes, nm \in Names : UnlinkUnplaced(p, nm))
  BY <1>1, <1>2, <1>6 DEF UnlinkUnplaced, fileVars
<1>7. CASE /\ SizesFit'
           /\ \/ \E f \in Inodes, size \in 0 .. MaxFileSize : Truncate(f, size)
              \/ \E f \in Inodes, offset \in 0 .. MaxFileSize - 1, n \in 1 .. BlockSize :
                    offset + n <= MaxFileSize /\ Write(f, offset, n)
  <2>1. PICK f \in Inodes : \/ \E size \in Nat : Truncate(f, size)
                            \/ \E offset \in Nat, n \in Nat : Write(f, offset, n)
    BY <1>7, MaxFileSizeAssumption, BlockSizeAssumption
  <2>2. IsFile(f)
    BY <1>7, <2>1, FileCallbackStores
  <2>3. CASE UNCHANGED <<allocVars, fileVars, numOfDataBlocks>>
    BY <1>1, <1>2, <2>3 DEF fileVars
  <2>4. ASSUME NEW t, NEW z, Store(f, t, z), Storable(f, t, z)
        PROVE  /\ FilesInv'
               /\ ret' = "ENOSPC" =>
                     \A i \in LinkedInodes :
                        \/ itable'[i].size = itable[i].size
                        \/ /\ itable'[i].size > itable[i].size
                           /\ itable'[i].size % BlockSize = 0
    <3>1. /\ InodeInv' /\ Changed(f, f)
          /\ ret' = "ENOSPC" =>
                \/ itable'[f].size = itable[f].size
                \/ itable'[f].size > itable[f].size /\ itable'[f].size % BlockSize = 0
      BY <2>2, <2>4, StoreChanges
    <3>2. FilesInv'
      BY <3>1, ChangedKeepsFilesInv
    <3>3. \A i \in LinkedInodes : i # f => itable'[i] = itable[i]
      BY <3>1 DEF Changed, LinkedInodes
    <3>. QED  BY <3>1, <3>2, <3>3
  <2>. QED  BY <1>7, <2>1, <2>3, <2>4, FileCallbackStores
<1>. QED  BY <1>3, <1>4, <1>5, <1>6, <1>7 DEF DriverNext, FileCallback

\* Until there is a file of 2^32 bytes, every step is one with files below.
LEMMA SmallSteps ==
  ASSUME [FilesNext]_filesVars, ~oversized'
  PROVE  ~oversized /\ [DriverNext /\ SizesFit']_vars
<1>1. CASE UNCHANGED filesVars
  BY <1>1 DEF filesVars
<1>2. CASE FilesNext
  BY <1>2 DEF FilesNext
<1>. QED  BY <1>1, <1>2

\* A formatted image has no block in use and all of them free.
LEMMA InitFilesInv == Init => FilesInv
<1>. SUFFICES ASSUME Init PROVE FilesInv
  OBVIOUS
<1>1. InodeInv
  BY InitInodeInv
<1>2. ROOT_INODE \in Inodes
  BY NumInodesAssumption DEF Inodes, ROOT_INODE
<1>3. FilesTypes
  BY <1>2, NumBlocksAssumption DEF Init, Formatted, FilesTypes, FreshInode
<1>4. \A i \in Inodes : extents[i] = <<>> /\ entries[i] = <<>>
  BY DEF Init, Formatted
<1>5. InodesSound
  <2>. SUFFICES ASSUME NEW i \in Inodes
                PROVE  SoundInode(itable[i], extents[i], Len(entries[i]))
    BY DEF InodesSound
  <2>1. itable[i] \in Inode /\ itable[i].size = 0
    BY DEF Init, Formatted, Inode, Modes, FreshInode
  <2>. QED  BY <1>4, <2>1, EmptyInodeSound
<1>6. UseCovered
  <2>. DEFINE u == Uses(LinkedInodes, extents)
              z == [i \in Inodes |-> 0]
              c == [s \in SUBSET Inodes |-> 0]
  <2>1. \A i \in Inodes : u[i] = 0
    BY <1>4 DEF Uses, UseOf
  <2>2. /\ c[{}] = 0 /\ \A s \in SUBSET Inodes : c[s] = 0
    OBVIOUS
  <2>. HIDE DEF u, c
  <2>3. Splits(c, u, Inodes)
    <3>1. ASSUME NEW s \in SUBSET Inodes, NEW k \in s
          PROVE  c[s] = u[k] + c[s \ {k}]
      <4>1. c[s] = 0 /\ u[k] = 0 /\ c[s \ {k}] = 0
        BY <2>1, <2>2
      <4>. QED  BY <4>1
    <3>2. \A s \in SUBSET Inodes : c[s] \in Nat
      BY <2>2
    <3>. QED  BY <2>2, <3>1, <3>2 DEF Splits
  <2>4. availableBlocks = NumBlocks /\ c[Inodes] = 0
    BY <2>2 DEF Init, Formatted
  <2>5. availableBlocks + c[Inodes] <= NumBlocks
    BY <2>4, NumBlocksAssumption
  <2>. QED  BY <2>3, <2>5 DEF UseCovered, u
<1>. QED  BY <1>1, <1>3, <1>5, <1>6 DEF FilesInv

\* The inductive invariant of the specification with files, until one is made of
\* 2^32 bytes.
SmallFilesInv == ~oversized => FilesInv

THEOREM FilesInvariant == FilesSpec => []SmallFilesInv
<1>1. FilesInit => SmallFilesInv
  BY InitFilesInv DEF FilesInit, SmallFilesInv
<1>2. SmallFilesInv /\ [FilesNext]_filesVars => SmallFilesInv'
  <2>. SUFFICES ASSUME SmallFilesInv, [FilesNext]_filesVars, ~oversized'
                PROVE  FilesInv'
    BY DEF SmallFilesInv
  <2>1. ~oversized /\ [DriverNext /\ SizesFit']_vars
    BY SmallSteps
  <2>2. FilesInv
    BY <2>1 DEF SmallFilesInv
  <2>. QED  BY <2>1, <2>2, FilesStep
<1>. QED  BY <1>1, <1>2, PTL DEF FilesSpec

\* Until somebody makes a file of 4 GiB, the size of each file and the blocks of its
\* extents, which every callback counts anew, never drift apart: not by growth that
\* fails or dies half-way, not by shrinking to nothing and growing again.
THEOREM SizesMatchBlocks == FilesSpec => []FilesDense
<1>1. SmallFilesInv => FilesDense
  <2>. SUFFICES ASSUME SmallFilesInv, ~oversized, NEW i \in Inodes, IsFile(i)
                PROVE  BlocksToHold(itable[i].size) = get_num_blks_of_file(i)
    BY DEF FilesDense
  <2>1. FilesInv
    BY DEF SmallFilesInv
  <2>. QED  BY <2>1, FileStateSound
<1>. QED  BY <1>1, FilesInvariant, PTL

\* A truncate or write that runs out of space keeps the file's size, or leaves whole
\* blocks added to it, until there is a file of 4 GiB (the attempt to make the first may
\* be what fails); every other file keeps its size, and so does every file when it is
\* mkdir or create that runs out.
THEOREM FailureLosesNoBytes == FilesSpec => FailureKeepsBytes
<1>1. SmallFilesInv /\ [FilesNext]_filesVars =>
         [ret' = "ENOSPC" /\ ~oversized' =>
            \A f \in LinkedInodes :
                LET old == itable[f].size
                    new == itable'[f].size
                IN  new = old \/ (new > old /\ new % BlockSize = 0)]_filesVars
  <2>. SUFFICES ASSUME SmallFilesInv, [FilesNext]_filesVars, ret' = "ENOSPC", ~oversized',
                       NEW f \in LinkedInodes
                PROVE  \/ itable'[f].size = itable[f].size
                       \/ itable'[f].size > itable[f].size /\ itable'[f].size % BlockSize = 0
    OBVIOUS
  <2>1. ~oversized /\ [DriverNext /\ SizesFit']_vars
    BY SmallSteps
  <2>2. FilesInv
    BY <2>1 DEF SmallFilesInv
  <2>. QED  BY <2>1, <2>2, FilesStep
<1>. QED  BY <1>1, FilesInvariant, PTL DEF FilesSpec, FailureKeepsBytes

\* A sum over some is no more than one over all: a least set with a smaller sum would
\* have an element to take out.
LEMMA SumsAtLeast ==
  ASSUME NEW X, IsFiniteSet(X), NEW Y, Y \subseteq X, NEW f, NEW c, Splits(c, f, X),
         \A k \in X : f[k] \in Nat
  PROVE  c[Y] <= c[X]
<1>. DEFINE Over == {s \in SUBSET X : Y \subseteq s /\ ~(c[Y] <= c[s])}
            Bad == {Cardinality(s) : s \in Over}
<1>1. \A s \in SUBSET X : IsFiniteSet(s) /\ Cardinality(s) \in Nat /\ c[s] \in Nat
  BY FS_Subset, FS_CardinalityType DEF Splits
<1>2. Over = {}
  <2>. SUFFICES ASSUME Over # {} PROVE FALSE
    OBVIOUS
  <2>1. PICK n \in Bad : \A j \in Bad : n <= j
    <3>1. Bad \in SUBSET Nat /\ Bad # {}
      BY <1>1
    <3>. HIDE DEF Bad
    <3>. QED  BY <3>1, LeastElement
  <2>2. PICK s \in Over : Cardinality(s) = n
    BY <2>1
  <2>3. s \in SUBSET X /\ Y \subseteq s /\ ~(c[Y] <= c[s])
    BY <2>2
  <2>4. s # Y
    <3>1. c[Y] \in Nat
      BY <1>1
    <3>2. c[Y] <= c[Y]
      BY <3>1
    <3>. QED  BY <2>3, <3>2
  <2>5. PICK k \in s : k \notin Y
    BY <2>3, <2>4
  <2>. DEFINE r == s \ {k}
  <2>6. r \in SUBSET X /\ Y \subseteq r /\ Cardinality(r) = n - 1 /\ n \in Nat
    BY <1>1, <2>2, <2>3, <2>5, FS_RemoveElement
  <2>7. c[s] = f[k] + c[r] /\ f[k] \in Nat /\ k \in X
    BY <2>3, <2>5 DEF Splits
  <2>8. c[Y] \in Nat /\ c[s] \in Nat /\ c[r] \in Nat
    BY <1>1, <2>3, <2>6
  <2>. HIDE DEF r, Over
  <2>9. r \notin Over
    <3>1. r \in Over => Cardinality(r) \in Bad
      OBVIOUS
    <3>. HIDE DEF Bad
    <3>2. n - 1 \in Bad => FALSE
      BY <2>1, <2>6
    <3>. QED  BY <2>6, <3>1, <3>2
  <2>10. c[Y] <= c[r]
    BY <2>6, <2>9 DEF Over
  <2>. QED  BY <2>3, <2>7, <2>8, <2>10
<1>. QED  BY <1>2

\* The blocks in use, as the property sums them, are the uses of the invariant.
LEMMA UseCounted ==
  ASSUME FilesInv
  PROVE  \E f, d : /\ Splits(d, f, LinkedInodes)
                   /\ MapThenSumSet(BlocksInUse, LinkedInodes) = d[LinkedInodes]
                   /\ \A i \in LinkedInodes : f[i] = UseOf(extents[i])
<1>. DEFINE X == LinkedInodes
            f == [i \in X |-> BlocksInUse(i)]
            Step(c) == [s \in SUBSET X |->
                          IF s = {} THEN 0
                                    ELSE LET i == CHOOSE j \in s : TRUE
                                         IN  BlocksInUse(i) + c[s \ {i}]]
            d == CHOOSE c : c = Step(c)
<1>1. X \subseteq Inodes /\ IsFiniteSet(X)
  BY InodesFinite, FS_Subset DEF LinkedInodes
<1>2. \A i \in Inodes : extents[i] \in Seq(FileExtent)
  BY DirectorySound
<1>3. \A i \in Inodes : UseOf(extents[i]) \in Nat
  BY <1>2, UsesAreNumbers
<1>4. \A i \in Inodes : BlocksInUse(i) = UseOf(extents[i])
  BY BlocksAreSummed DEF BlocksInUse, UseOf
<1>5. /\ f \in [X -> Nat]
      /\ \A i \in X : f[i] = BlocksInUse(i) /\ f[i] = UseOf(extents[i])
  BY <1>1, <1>3, <1>4
<1>6. MapThenSumSet(BlocksInUse, LinkedInodes) = d[X]
  BY DEF MapThenSumSet, MapThenFoldSet
<1>7. \A c : c = Step(c) <=> Counts(f, c)
  <2>1. ASSUME NEW s \in SUBSET X, s # {}
        PROVE  BlocksInUse(Chosen(s)) = f[Chosen(s)]
    BY <1>5, <2>1 DEF Chosen
  <2>2. DOMAIN f = X
    BY <1>5
  <2>. HIDE DEF f, X
  <2>. QED  BY <2>1, <2>2 DEF Counts, CountOf, Chosen
<1>. HIDE DEF Step, f
<1>8. Counts(f, d)
  <2>1. \E c : c = Step(c)
    BY <1>1, <1>5, <1>7, CountsExist
  <2>2. d = Step(d)
    BY <2>1
  <2>. HIDE DEF d
  <2>. QED  BY <1>7, <2>2
<1>. HIDE DEF d, X
<1>9. Splits(d, f, X)
  <2>1. DOMAIN f = X
    BY <1>5
  <2>. QED  BY <1>1, <1>5, <1>8, <2>1, CountsSplit DEF Splits
<1>. QED  BY <1>5, <1>6, <1>9 DEF X

\* Whatever callbacks fail and however files grow and shrink, until somebody makes one
\* of 4 GiB the blocks that the counter says are free and the blocks in use fit the
\* image together: the driver never promises a block that it does not have.
THEOREM CounterIsCovered == FilesSpec => []CounterCoversUse
<1>1. SmallFilesInv => CounterCoversUse
  <2>. SUFFICES ASSUME FilesInv
                PROVE  availableBlocks + MapThenSumSet(BlocksInUse, LinkedInodes) <= NumBlocks
    BY DEF SmallFilesInv, CounterCoversUse
  <2>. DEFINE X == LinkedInodes
              u == Uses(LinkedInodes, extents)
              m == MapThenSumSet(BlocksInUse, LinkedInodes)
  <2>1. PICK c : Splits(c, u, Inodes) /\ availableBlocks + c[Inodes] <= NumBlocks
    BY DEF FilesInv, UseCovered
  <2>2. PICK f, d : /\ Splits(d, f, X) /\ m = d[X]
                    /\ \A i \in X : f[i] = UseOf(extents[i])
    BY UseCounted
  <2>3. X \subseteq Inodes /\ IsFiniteSet(X) /\ IsFiniteSet(Inodes)
    BY InodesFinite, FS_Subset DEF LinkedInodes
  <2>4. \A i \in Inodes : extents[i] \in Seq(FileExtent)
    BY DirectorySound
  <2>5. /\ \A i \in Inodes : u[i] \in Nat
        /\ \A i \in X : u[i] = UseOf(extents[i])
    BY <2>3, <2>4, UsesAreNumbers
  <2>. HIDE DEF u, X, m
  <2>6. \A i \in X : f[i] \in Nat /\ u[i] \in Nat /\ f[i] = u[i]
    BY <2>2, <2>3, <2>5
  <2>7. \A i \in X : f[i] \in Nat /\ u[i] \in Nat /\ f[i] <= u[i]
    BY <2>6
  <2>8. Splits(c, u, X)
    BY <2>1, <2>3, SumsBelow
  <2>9. d[X] <= c[X]
    BY <2>2, <2>3, <2>7, <2>8, SumsGrow
  <2>10. c[X] <= c[Inodes]
    BY <2>1, <2>3, <2>5, SumsAtLeast
  <2>11. d[X] \in Nat /\ c[X] \in Nat /\ c[Inodes] \in Nat /\ availableBlocks \in Nat
    BY <2>1, <2>2, <2>3 DEF Splits, FilesInv, FilesTypes
  <2>12. availableBlocks + m <= NumBlocks
    BY <2>1, <2>2, <2>9, <2>10, <2>11, NumBlocksAssumption
  <2>. QED  BY <2>12 DEF m
<1>. QED  BY <1>1, FilesInvariant, PTL

=============================================================================
