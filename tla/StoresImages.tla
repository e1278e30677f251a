---------------------------- MODULE StoresImages ----------------------------
(***************************************************************************)
(* Proofs about the images that single stores make, for every value of     *)
(* the constants: what an image shows of an inode, when nothing in it is   *)
(* used twice (Sound), which stores leave what it shows (Calm), which of   *)
(* them show a block or an entry more, and what they do to the counters.   *)
(***************************************************************************)
EXTENDS Stores, FiniteSetTheorems, SequenceTheorems, WellFoundedInduction, TLAPS

-----------------------------------------------------------------------------
(* The images a sequence of stores goes through. *)

\* A nonempty set of naturals has a least element.
LEMMA LeastOf ==
  ASSUME NEW T \in SUBSET Nat, T # {}
  PROVE  \E m \in T : \A k \in T : m <= k
<1>1. PICK m \in T : \A k \in T : <<k, m>> \notin OpToRel(<, Nat)
  BY NatLessThanWellFounded, WFMin
<1>2. \A k \in T : ~(k < m)
  BY <1>1 DEF OpToRel
<1>. QED  BY <1>2

\* A[k] is the image after the first k of the stores.
IsTrace(A, img, stores) ==
    A = [k \in 0 .. Len(stores) |-> IF k = 0 THEN img ELSE Made(A[k - 1], stores[k])]

Steps(A, img, stores, n) ==
    A = [k \in 0 .. n |-> IF k = 0 THEN img ELSE Made(A[k - 1], stores[k])]

\* Every sequence of stores has a trace, which ends in the image Apply names.
LEMMA StepsExist == \A img, stores : \A n \in Nat : \E A : Steps(A, img, stores, n)
<1>. SUFFICES ASSUME NEW img, NEW stores
              PROVE  \A n \in Nat : \E A : Steps(A, img, stores, n)
  OBVIOUS
<1>. DEFINE Bad == {n \in Nat : ~\E A : Steps(A, img, stores, n)}
<1>. SUFFICES ASSUME Bad # {} PROVE FALSE
  OBVIOUS
<1>1. PICK n \in Bad : \A j \in Bad : n <= j
  BY LeastOf
<1>2. n # 0
  <2>. DEFINE s == [k \in 0 .. 0 |-> img]
  <2>1. s = [k \in 0 .. 0 |-> IF k = 0 THEN img ELSE Made(s[k - 1], stores[k])]
    OBVIOUS
  <2>2. Steps(s, img, stores, 0)
    BY <2>1 DEF Steps
  <2>. QED  BY <1>1, <2>2
<1>3. n - 1 \in Nat /\ n - 1 \notin Bad
  BY <1>1, <1>2
<1>4. PICK A : Steps(A, img, stores, n - 1)
  BY <1>3
<1>. DEFINE Step(f, k) == IF k = 0 THEN img ELSE Made(f[k - 1], stores[k])
            B == [k \in 0 .. n |-> IF k = n THEN Made(A[n - 1], stores[n]) ELSE A[k]]
<1>5. \A k \in 0 .. n - 1 : A[k] = Step(A, k)
  BY <1>4 DEF Steps
<1>6. \A k \in 0 .. n : B[k] = Step(B, k)
  <2>. SUFFICES ASSUME NEW k \in 0 .. n PROVE B[k] = Step(B, k)
    OBVIOUS
  <2>1. CASE k = n
    BY <1>2, <1>3, <2>1
  <2>2. CASE k # n
    <3>1. k \in 0 .. n - 1 /\ (k # 0 => k - 1 \in 0 .. n - 1 /\ k - 1 # n)
      BY <1>3, <2>2
    <3>2. B[k] = A[k] /\ (k # 0 => k - 1 \in 0 .. n /\ B[k - 1] = A[k - 1])
      BY <1>3, <2>2, <3>1
    <3>. HIDE DEF B
    <3>. QED  BY <1>5, <3>1, <3>2
  <2>. QED  BY <2>1, <2>2
<1>7. Steps(B, img, stores, n)
  <2>1. B = [k \in 0 .. n |-> B[k]]
    OBVIOUS
  <2>2. [k \in 0 .. n |-> B[k]] = [k \in 0 .. n |-> Step(B, k)]
    <3>. HIDE DEF B, Step
    <3>. QED  BY <1>6
  <2>. HIDE DEF B
  <2>. QED  BY <2>1, <2>2 DEF Steps
<1>. QED  BY <1>1, <1>7

\* Apply names the last image of a trace.
LEMMA ApplyIsTraced ==
  ASSUME NEW img, NEW stores, Len(stores) \in Nat
  PROVE  \E A : IsTrace(A, img, stores) /\ Apply(img, stores) = A[Len(stores)]
<1>. DEFINE n == Len(stores)
            Step(f) == [k \in 0 .. n |-> IF k = 0 THEN img ELSE Made(f[k - 1], stores[k])]
            after == CHOOSE f : f = Step(f)
<1>1. PICK A : Steps(A, img, stores, n)
  BY StepsExist
<1>2. A = Step(A)
  BY <1>1 DEF Steps
<1>3. after = Step(after)
  <2>. HIDE DEF Step
  <2>. QED  BY <1>2
<1>4. IsTrace(after, img, stores)
  <2>. HIDE DEF after
  <2>. QED  BY <1>3 DEF IsTrace
<1>5. Apply(img, stores) = after[n]
  BY DEF Apply
<1>. QED  BY <1>4, <1>5

\* A trace, store by store, and what is left of it after the first store.
LEMMA TraceSteps ==
  ASSUME NEW A, NEW img, NEW stores, IsTrace(A, img, stores), Len(stores) \in Nat
  PROVE  /\ A[0] = img
         /\ \A k \in 1 .. Len(stores) : A[k] = Made(A[k - 1], stores[k])
BY DEF IsTrace

\* What is left of a trace after the first store is a trace.
LEMMA TraceTail ==
  ASSUME NEW A, NEW img, NEW S, NEW stores \in Seq(S), IsTrace(A, img, stores), stores # <<>>
  PROVE  IsTrace([k \in 0 .. Len(Tail(stores)) |-> A[k + 1]],
                 Made(img, Head(stores)), Tail(stores))
<1>. DEFINE n == Len(stores)
            t == Tail(stores)
            B == [k \in 0 .. n - 1 |-> A[k + 1]]
<1>1. /\ n \in Nat /\ n > 0 /\ Len(t) = n - 1
      /\ \A k \in 1 .. n - 1 : t[k] = stores[k + 1]
      /\ Head(stores) = stores[1]
  BY HeadTailProperties, LenProperties, EmptySeq
<1>2. \A k \in 0 .. n - 1 : B[k] = IF k = 0 THEN Made(img, stores[1]) ELSE Made(B[k - 1], t[k])
  <2>. SUFFICES ASSUME NEW k \in 0 .. n - 1
                PROVE  B[k] = IF k = 0 THEN Made(img, stores[1]) ELSE Made(B[k - 1], t[k])
    OBVIOUS
  <2>1. B[k] = A[k + 1] /\ k + 1 \in 1 .. n /\ A[k + 1] = Made(A[k], stores[k + 1])
    <3>1. k + 1 \in 1 .. n /\ (k + 1) - 1 = k
      BY <1>1
    <3>. QED  BY <1>1, <3>1, TraceSteps
  <2>2. CASE k = 0
    BY <1>1, <2>1, <2>2, TraceSteps
  <2>3. CASE k # 0
    <3>1. k \in 1 .. n - 1 /\ k - 1 \in 0 .. n - 1 /\ (k - 1) + 1 = k
      BY <1>1, <2>3
    <3>2. B[k - 1] = A[k] /\ t[k] = stores[k + 1]
      BY <1>1, <3>1
    <3>. QED  BY <2>1, <2>3, <3>2
  <2>. QED  BY <2>2, <2>3
<1>3. B = [k \in 0 .. n - 1 |-> B[k]]
  OBVIOUS
<1>4. B = [k \in 0 .. n - 1 |-> IF k = 0 THEN Made(img, stores[1]) ELSE Made(B[k - 1], t[k])]
  <2>1. [k \in 0 .. n - 1 |-> B[k]] =
        [k \in 0 .. n - 1 |-> IF k = 0 THEN Made(img, stores[1]) ELSE Made(B[k - 1], t[k])]
    <3>. HIDE DEF B, t
    <3>. QED  BY <1>2
  <2>. HIDE DEF B, t
  <2>. QED  BY <1>3, <2>1
<1>. HIDE DEF B, t
<1>5. IsTrace(B, Made(img, Head(stores)), t)
  BY <1>1, <1>4 DEF IsTrace
<1>. QED  BY <1>1, <1>5 DEF B, t

\* f[i] is the concatenation of the first i of the sequences X, e of them at most.
IsFlat(f, X, e) == f = [i \in 1 .. e |-> IF i = 1 THEN X[i] ELSE f[i - 1] \o X[i]]

\* The concatenations exist, however many sequences there are.
LEMMA FlatExists == \A X : \A e \in Nat : \E f : IsFlat(f, X, e)
<1>. SUFFICES ASSUME NEW X
              PROVE  \A e \in Nat : \E f : IsFlat(f, X, e)
  OBVIOUS
<1>. DEFINE Bad == {e \in Nat : ~\E f : IsFlat(f, X, e)}
<1>. SUFFICES ASSUME Bad # {} PROVE FALSE
  OBVIOUS
<1>1. PICK e \in Bad : \A j \in Bad : e <= j
  BY LeastOf
<1>2. e # 0
  <2>. DEFINE s == [i \in 1 .. 0 |-> X[i]]
  <2>1. s = [i \in 1 .. 0 |-> IF i = 1 THEN X[i] ELSE s[i - 1] \o X[i]]
    OBVIOUS
  <2>2. IsFlat(s, X, 0)
    BY <2>1 DEF IsFlat
  <2>. QED  BY <1>1, <2>2
<1>3. e - 1 \in Nat /\ e - 1 \notin Bad
  BY <1>1, <1>2
<1>4. PICK f : IsFlat(f, X, e - 1)
  BY <1>3
<1>. DEFINE Step(h, i) == IF i = 1 THEN X[i] ELSE h[i - 1] \o X[i]
            g == [i \in 1 .. e |-> IF i = e THEN Step(f, i) ELSE f[i]]
<1>5. \A i \in 1 .. e - 1 : f[i] = Step(f, i)
  BY <1>4 DEF IsFlat
<1>6. \A i \in 1 .. e : g[i] = Step(g, i)
  <2>. SUFFICES ASSUME NEW i \in 1 .. e PROVE g[i] = Step(g, i)
    OBVIOUS
  <2>1. i # 1 => i - 1 \in 1 .. e /\ i - 1 # e
    BY <1>3
  <2>2. i # 1 => g[i - 1] = f[i - 1]
    BY <2>1
  <2>3. CASE i = e
    <3>1. g[i] = Step(f, i)
      BY <2>3
    <3>. HIDE DEF g
    <3>. QED  BY <2>2, <3>1
  <2>4. CASE i # e
    <3>1. g[i] = f[i] /\ i \in 1 .. e - 1
      BY <1>3, <2>4
    <3>. HIDE DEF g
    <3>. QED  BY <1>5, <2>2, <3>1
  <2>. QED  BY <2>3, <2>4
<1>7. IsFlat(g, X, e)
  <2>1. g = [i \in 1 .. e |-> g[i]]
    OBVIOUS
  <2>2. [i \in 1 .. e |-> g[i]] = [i \in 1 .. e |-> Step(g, i)]
    <3>. HIDE DEF g, Step
    <3>. QED  BY <1>6
  <2>. HIDE DEF g
  <2>. QED  BY <2>1, <2>2 DEF IsFlat
<1>. QED  BY <1>1, <1>7

\* Those of fewer sequences are the first of those of more.
LEMMA FlatUnique ==
  ASSUME NEW X, NEW e \in Nat, NEW c \in Nat, c <= e,
         NEW f, IsFlat(f, X, c), NEW g, IsFlat(g, X, e)
  PROVE  \A i \in 1 .. c : f[i] = g[i]
<1>. DEFINE Bad == {i \in 1 .. c : f[i] # g[i]}
<1>. SUFFICES ASSUME Bad # {} PROVE FALSE
  OBVIOUS
<1>1. Bad \in SUBSET Nat
  OBVIOUS
<1>2. PICK i \in Bad : \A j \in Bad : i <= j
  <2>. HIDE DEF Bad
  <2>. QED  BY <1>1, LeastOf
<1>. HIDE DEF Bad
<1>3. /\ f[i] = IF i = 1 THEN X[i] ELSE f[i - 1] \o X[i]
      /\ g[i] = IF i = 1 THEN X[i] ELSE g[i - 1] \o X[i]
  <2>1. i \in 1 .. c /\ i \in 1 .. e
    BY <1>2 DEF Bad
  <2>. QED  BY <2>1 DEF IsFlat
<1>4. i # 1 => i - 1 \in 1 .. c /\ i - 1 \notin Bad
  BY <1>1, <1>2 DEF Bad
<1>. QED  BY <1>2, <1>3, <1>4 DEF Bad

Flat(X, e) == FlattenSeq([k \in 1 .. e |-> X[k]])

\* FlattenSeq of one sequence more.
LEMMA FlattenGrows ==
  ASSUME NEW X, NEW e \in Nat
  PROVE  /\ Flat(X, 0) = <<>>
         /\ e = 0 => Flat(X, e + 1) = X[1]
         /\ e # 0 => Flat(X, e + 1) = Flat(X, e) \o X[e + 1]
<1>. DEFINE S(n) == [k \in 1 .. n |-> X[k]]
            Step(f, n) == [i \in 1 .. Len(S(n)) |-> IF i = 1 THEN S(n)[i] ELSE f[i - 1] \o S(n)[i]]
            flat(n) == CHOOSE f : f = Step(f, n)
<1>1. Flat(X, 0) = <<>>
  <2>1. S(0) = <<>> /\ Len(S(0)) = 0
    OBVIOUS
  <2>. QED  BY <2>1 DEF FlattenSeq, Flat
<1>2. ASSUME NEW n \in Nat, n > 0
      PROVE  Flat(X, n) = flat(n)[n] /\ IsFlat(flat(n), X, n)
  <2>1. Len(S(n)) = n
    BY <1>2
  <2>2. Flat(X, n) = flat(n)[n]
    BY <1>2, <2>1 DEF FlattenSeq, Flat
  <2>3. \A f : Step(f, n) = [i \in 1 .. n |-> IF i = 1 THEN X[i] ELSE f[i - 1] \o X[i]]
    <3>1. \A i \in 1 .. n : S(n)[i] = X[i]
      OBVIOUS
    <3>. HIDE DEF S
    <3>. QED  BY <2>1, <3>1
  <2>4. PICK f : IsFlat(f, X, n)
    BY FlatExists
  <2>5. f = Step(f, n)
    <3>. HIDE DEF Step
    <3>. QED  BY <2>3, <2>4 DEF IsFlat
  <2>6. flat(n) = Step(flat(n), n)
    <3>. HIDE DEF Step
    <3>. QED  BY <2>5
  <2>7. IsFlat(flat(n), X, n)
    <3>. HIDE DEF Step, flat
    <3>. QED  BY <2>3, <2>6 DEF IsFlat
  <2>. QED  BY <2>2, <2>7
<1>. HIDE DEF S, Step, flat
<1>3. ASSUME e = 0
      PROVE  Flat(X, e + 1) = X[1]
  <2>1. Flat(X, 1) = flat(1)[1] /\ IsFlat(flat(1), X, 1)
    BY <1>2
  <2>2. flat(1)[1] = X[1]
    <3>. QED  BY <2>1 DEF IsFlat
  <2>3. e + 1 = 1
    BY <1>3
  <2>. QED  BY <2>1, <2>2, <2>3
<1>4. ASSUME e # 0
      PROVE  Flat(X, e + 1) = Flat(X, e) \o X[e + 1]
  <2>1. /\ Flat(X, e + 1) = flat(e + 1)[e + 1] /\ IsFlat(flat(e + 1), X, e + 1)
        /\ Flat(X, e) = flat(e)[e] /\ IsFlat(flat(e), X, e)
    BY <1>2, <1>4
  <2>2. flat(e + 1)[e + 1] = flat(e + 1)[e] \o X[e + 1]
    <3>1. e + 1 \in 1 .. e + 1 /\ e + 1 # 1 /\ (e + 1) - 1 = e
      BY <1>4
    <3>. QED  BY <2>1, <3>1 DEF IsFlat
  <2>3. flat(e + 1)[e] = flat(e)[e]
    <3>1. e \in 1 .. e /\ e + 1 \in Nat /\ e <= e + 1
      BY <1>4
    <3>. QED  BY <2>1, <3>1, FlatUnique
  <2>. QED  BY <2>1, <2>2, <2>3
<1>. QED  BY <1>1, <1>3, <1>4

-----------------------------------------------------------------------------
(* The blocks of an inode. *)

\* The blocks of extent k of the indirect block ib, and of its first e extents.
SpanOf(img, ib, k) ==
    [j \in 1 .. img.count[<<ib, k - 1>>] |-> img.start[<<ib, k - 1>>] + j - 1]

FirstBlocks(img, ib, e) == FlattenSeq([k \in 1 .. e |-> SpanOf(img, ib, k)])

\* The extents below e of ib are numbers.
Numbers(img, ib, e) ==
    \A k \in 1 .. e : img.start[<<ib, k - 1>>] \in Int /\ img.count[<<ib, k - 1>>] \in Nat

\* The blocks of an inode are those of all its extents.
LEMMA BlocksAreFirstBlocks ==
  ASSUME NEW img, NEW d
  PROVE  BlocksOf(img, d) = FirstBlocks(img, img.indirect_pt[d], img.extent_num[d])
BY DEF BlocksOf, FirstBlocks, SpanOf

\* The blocks of one extent, as many as it counts.
LEMMA SpanIsSeq ==
  ASSUME NEW img, NEW ib, NEW k \in Nat,
         img.start[<<ib, k - 1>>] \in Int, img.count[<<ib, k - 1>>] \in Nat
  PROVE  /\ SpanOf(img, ib, k) \in Seq(Int)
         /\ Len(SpanOf(img, ib, k)) = img.count[<<ib, k - 1>>]
<1>. DEFINE c == img.count[<<ib, k - 1>>]
            a == img.start[<<ib, k - 1>>]
<1>1. c \in Nat /\ a \in Int
  OBVIOUS
<1>2. SpanOf(img, ib, k) = [j \in 1 .. c |-> a + j - 1]
  BY DEF SpanOf
<1>. HIDE DEF c, a
<1>3. \A j \in 1 .. c : a + j - 1 \in Int
  BY <1>1
<1>. DEFINE s == [j \in 1 .. c |-> a + j - 1]
<1>4. s \in Seq(Int) /\ Len(s) = c
  <2>1. s \in [1 .. c -> Int] /\ DOMAIN s = 1 .. c
    BY <1>3
  <2>. HIDE DEF s
  <2>. QED  BY <1>1, <2>1
<1>. QED  BY <1>2, <1>4 DEF c

\* The blocks of one extent more.
LEMMA BlocksGrow ==
  ASSUME NEW img, NEW ib, NEW e \in Nat, Numbers(img, ib, e + 1)
  PROVE  /\ FirstBlocks(img, ib, 0) = <<>>
         /\ FirstBlocks(img, ib, e) \in Seq(Int)
         /\ FirstBlocks(img, ib, e + 1) = FirstBlocks(img, ib, e) \o SpanOf(img, ib, e + 1)
<1>. DEFINE F(n) == FirstBlocks(img, ib, n)
            X == [k \in 1 .. e + 1 |-> SpanOf(img, ib, k)]
<1>1. \A n \in 0 .. e + 1 : F(n) = Flat(X, n)
  <2>. SUFFICES ASSUME NEW n \in 0 .. e + 1
                PROVE  F(n) = Flat(X, n)
    OBVIOUS
  <2>1. [k \in 1 .. n |-> X[k]] = [k \in 1 .. n |-> SpanOf(img, ib, k)]
    OBVIOUS
  <2>. QED  BY <2>1 DEF FirstBlocks, Flat
<1>2. \A k \in 1 .. e + 1 : X[k] \in Seq(Int)
  <2>. SUFFICES ASSUME NEW k \in 1 .. e + 1 PROVE SpanOf(img, ib, k) \in Seq(Int)
    OBVIOUS
  <2>1. k \in Nat /\ img.start[<<ib, k - 1>>] \in Int /\ img.count[<<ib, k - 1>>] \in Nat
    BY DEF Numbers
  <2>. QED  BY <2>1, SpanIsSeq
<1>3. X[e + 1] = SpanOf(img, ib, e + 1)
  OBVIOUS
<1>. HIDE DEF F, X
<1>4. F(0) = <<>>
  BY <1>1, FlattenGrows
<1>5. ASSUME NEW n \in 0 .. e
      PROVE  /\ n = 0 => F(n + 1) = X[1]
             /\ n # 0 => F(n + 1) = F(n) \o X[n + 1]
  <2>1. n \in Nat /\ n \in 0 .. e + 1 /\ n + 1 \in 0 .. e + 1
    OBVIOUS
  <2>. QED  BY <1>1, <2>1, FlattenGrows
<1>6. \A n \in 0 .. e : F(n) \in Seq(Int)
  <2>. DEFINE Bad == {n \in 0 .. e : F(n) \notin Seq(Int)}
  <2>. SUFFICES ASSUME Bad # {} PROVE FALSE
    OBVIOUS
  <2>1. Bad \in SUBSET Nat
    OBVIOUS
  <2>2. PICK n \in Bad : \A j \in Bad : n <= j
    <3>. HIDE DEF Bad
    <3>. QED  BY <2>1, LeastOf
  <2>3. n # 0
    <3>. SUFFICES ASSUME n = 0 PROVE FALSE
      OBVIOUS
    <3>1. F(n) = <<>>
      BY <1>4
    <3>2. F(n) \in Seq(Int)
      BY <3>1, EmptySeq
    <3>. QED  BY <2>2, <3>2
  <2>4. n - 1 \in 0 .. e /\ n - 1 \notin Bad /\ n \in 1 .. e + 1 /\ (n - 1) + 1 = n
    BY <2>2, <2>3
  <2>5. /\ n - 1 = 0 => F(n) = X[1]
        /\ n - 1 # 0 => F(n) = F(n - 1) \o X[n]
    BY <1>5, <2>4
  <2>6. CASE n - 1 = 0
    BY <1>2, <2>2, <2>4, <2>5, <2>6
  <2>7. CASE n - 1 # 0
    <3>1. F(n - 1) \in Seq(Int) /\ X[n] \in Seq(Int)
      BY <1>2, <2>4
    <3>. QED  BY <2>2, <2>5, <2>7, <3>1, ConcatProperties
  <2>. QED  BY <2>6, <2>7
<1>7. F(e + 1) = F(e) \o X[e + 1]
  <2>1. CASE e = 0
    <3>1. X[1] \in Seq(Int)
      BY <1>2
    <3>2. <<>> \o X[1] = X[1]
      BY <3>1, ConcatEmptySeq
    <3>3. F(e) = <<>> /\ F(e + 1) = X[1] /\ X[e + 1] = X[1]
      BY <1>4, <1>5, <2>1
    <3>. QED  BY <3>2, <3>3
  <2>2. CASE e # 0
    BY <1>5, <2>2
  <2>. QED  BY <2>1, <2>2
<1>. QED  BY <1>3, <1>4, <1>6, <1>7 DEF F

-----------------------------------------------------------------------------
(* The fields of an image and their types. *)

D == DentriesPerBlock

Extents == 0 .. MaxExtents - 1
Slots   == 0 .. D - 1
Entry   == [name : Names \cup {""}, ino : Inodes]

FieldDomain ==
    [inodeBit |-> Inodes, dataBit |-> Blocks, available |-> {"inodes", "blocks"},
     mode |-> Inodes, links |-> Inodes, size |-> Inodes, num_dir_entry |-> Inodes,
     extent_num |-> Inodes, indirect_pt |-> Inodes,
     start |-> Blocks \X Extents, count |-> Blocks \X Extents, dentry |-> Blocks \X Slots]

FieldRange ==
    [inodeBit |-> BOOLEAN, dataBit |-> BOOLEAN, available |-> Int,
     mode |-> {"none", "dir", "reg"}, links |-> Int, size |-> Nat, num_dir_entry |-> Nat,
     extent_num |-> 0 .. MaxExtents, indirect_pt |-> Blocks \cup {NoBlock},
     start |-> Blocks, count |-> Nat, dentry |-> Entry]

Fields == DOMAIN FieldRange

IsImage(img) ==
    DOMAIN img = Fields /\ \A f \in Fields : img[f] \in [FieldDomain[f] -> FieldRange[f]]

Typed(s) == DOMAIN s \subseteq Fields /\ \A f \in DOMAIN s : s[f][2] \in FieldRange[f]

\* The fields by name.
LEMMA FieldNames ==
  Fields = {"inodeBit", "dataBit", "available", "mode", "links", "size", "num_dir_entry",
            "extent_num", "indirect_pt", "start", "count", "dentry"}
BY DEF Fields, FieldRange

\* The type of each field of an image.
LEMMA ImageTypes ==
  ASSUME NEW img, IsImage(img)
  PROVE  /\ img.inodeBit \in [Inodes -> BOOLEAN] /\ img.dataBit \in [Blocks -> BOOLEAN]
         /\ img.available \in [{"inodes", "blocks"} -> Int]
         /\ img.mode \in [Inodes -> {"none", "dir", "reg"}] /\ img.links \in [Inodes -> Int]
         /\ img.size \in [Inodes -> Nat] /\ img.num_dir_entry \in [Inodes -> Nat]
         /\ img.extent_num \in [Inodes -> 0 .. MaxExtents]
         /\ img.indirect_pt \in [Inodes -> Blocks \cup {NoBlock}]
         /\ img.start \in [Blocks \X Extents -> Blocks]
         /\ img.count \in [Blocks \X Extents -> Nat]
         /\ img.dentry \in [Blocks \X Slots -> Entry]
BY FieldNames DEF IsImage, FieldDomain, FieldRange

\* What a store leaves in each field.
LEMMA MadeField ==
  ASSUME NEW img, IsImage(img), NEW s, NEW f \in Fields
  PROVE  /\ DOMAIN Made(img, s) = Fields
         /\ f \in DOMAIN s => Made(img, s)[f] = [img[f] EXCEPT ![s[f][1]] = s[f][2]]
         /\ f \notin DOMAIN s => Made(img, s)[f] = img[f]
BY DEF Made, IsImage

\* A well-typed store makes an image of an image.
LEMMA MadeIsImage ==
  ASSUME NEW img, IsImage(img), NEW s, Typed(s)
  PROVE  IsImage(Made(img, s))
<1>1. DOMAIN Made(img, s) = Fields
  BY DEF Made, IsImage
<1>2. ASSUME NEW f \in Fields
      PROVE  Made(img, s)[f] \in [FieldDomain[f] -> FieldRange[f]]
  <2>. DEFINE R == FieldRange[f]
              S == FieldDomain[f]
  <2>1. img[f] \in [S -> R]
    BY DEF IsImage
  <2>2. CASE f \in DOMAIN s
    <3>1. s[f][2] \in R /\ Made(img, s)[f] = [img[f] EXCEPT ![s[f][1]] = s[f][2]]
      BY <2>2, MadeField DEF Typed
    <3>. HIDE DEF R, S
    <3>2. [img[f] EXCEPT ![s[f][1]] = s[f][2]] \in [S -> R]
      BY <2>1, <3>1
    <3>. QED  BY <3>1, <3>2 DEF R, S
  <2>3. CASE f \notin DOMAIN s
    <3>1. Made(img, s)[f] = img[f]
      <4>. HIDE DEF R, S
      <4>. QED  BY <2>3 DEF Made, IsImage
    <3>. QED  BY <2>1, <3>1
  <2>. QED  BY <2>2, <2>3
<1>. QED  BY <1>1, <1>2 DEF IsImage

\* s stores something into field f at x.
Writes(s, f, x) == f \in DOMAIN s /\ s[f][1] = x

\* What a store leaves at x.
LEMMA MadeAt ==
  ASSUME NEW img, IsImage(img), NEW s, NEW f \in Fields, NEW x \in FieldDomain[f]
  PROVE  /\ Writes(s, f, x) => Made(img, s)[f][x] = s[f][2]
         /\ ~Writes(s, f, x) => Made(img, s)[f][x] = img[f][x]
<1>1. img[f] \in [FieldDomain[f] -> FieldRange[f]]
  BY DEF IsImage
<1>. DEFINE g == img[f]
            h == Made(img, s)[f]
            S == FieldDomain[f]
<1>2. DOMAIN g = S /\ x \in S
  BY <1>1
<1>3. /\ f \in DOMAIN s => h = [g EXCEPT ![s[f][1]] = s[f][2]]
      /\ f \notin DOMAIN s => h = g
  BY MadeField
<1>. HIDE DEF g, h, S
<1>4. /\ Writes(s, f, x) => h[x] = s[f][2]
      /\ ~Writes(s, f, x) => h[x] = g[x]
  BY <1>2, <1>3 DEF Writes
<1>. QED  BY <1>4 DEF g, h

\* A trace of well-typed stores goes through images only, and a place keeps what it
\* holds until a store writes it.
LEMMA TraceIsImages ==
  ASSUME NEW A, NEW img, NEW stores, IsTrace(A, img, stores), Len(stores) \in Nat,
         IsImage(img), \A j \in 1 .. Len(stores) : Typed(stores[j])
  PROVE  \A k \in 0 .. Len(stores) : IsImage(A[k])
<1>. DEFINE Bad == {k \in 0 .. Len(stores) : ~IsImage(A[k])}
<1>. SUFFICES ASSUME Bad # {} PROVE FALSE
  OBVIOUS
<1>1. Bad \in SUBSET Nat
  OBVIOUS
<1>2. PICK k \in Bad : \A j \in Bad : k <= j
  <2>. HIDE DEF Bad
  <2>. QED  BY <1>1, LeastOf
<1>3. k # 0
  BY <1>2, TraceSteps
<1>4. k - 1 \in 0 .. Len(stores) /\ k - 1 \notin Bad /\ k \in 1 .. Len(stores)
  BY <1>2, <1>3
<1>5. A[k] = Made(A[k - 1], stores[k])
  BY <1>4, TraceSteps
<1>. QED  BY <1>2, <1>4, <1>5, MadeIsImage

\* A place keeps what it holds over stores that write elsewhere.
LEMMA PlaceKept ==
  ASSUME NEW A, NEW img, NEW stores, IsTrace(A, img, stores), Len(stores) \in Nat,
         \A k \in 0 .. Len(stores) : IsImage(A[k]),
         NEW f \in Fields, NEW x \in FieldDomain[f],
         NEW c \in 0 .. Len(stores), NEW e \in c .. Len(stores),
         \A j \in c + 1 .. e : ~Writes(stores[j], f, x)
  PROVE  A[e][f][x] = A[c][f][x]
<1>. DEFINE Bad == {k \in c .. e : A[k][f][x] # A[c][f][x]}
<1>. SUFFICES ASSUME Bad # {} PROVE FALSE
  BY DEF Bad
<1>1. Bad \in SUBSET Nat
  OBVIOUS
<1>2. PICK k \in Bad : \A j \in Bad : k <= j
  <2>. HIDE DEF Bad
  <2>. QED  BY <1>1, LeastOf
<1>3. k # c
  BY <1>2
<1>4. /\ k - 1 \in c .. e /\ k - 1 \notin Bad /\ k \in 1 .. Len(stores) /\ k \in c + 1 .. e
      /\ k - 1 \in 0 .. Len(stores)
  BY <1>2, <1>3
<1>5. A[k] = Made(A[k - 1], stores[k])
  BY <1>4, TraceSteps
<1>6. A[k][f][x] = A[k - 1][f][x]
  BY <1>4, <1>5, MadeAt
<1>. QED  BY <1>2, <1>4, <1>6

\* A place holds what the last store into it put there.
LEMMA PlaceWritten ==
  ASSUME NEW A, NEW img, NEW stores, IsTrace(A, img, stores), Len(stores) \in Nat,
         \A k \in 0 .. Len(stores) : IsImage(A[k]),
         NEW f \in Fields, NEW x \in FieldDomain[f],
         NEW c \in 1 .. Len(stores), Writes(stores[c], f, x),
         NEW e \in c .. Len(stores),
         \A j \in c + 1 .. e : ~Writes(stores[j], f, x)
  PROVE  A[e][f][x] = stores[c][f][2]
<1>1. c - 1 \in 0 .. Len(stores) /\ c \in 0 .. Len(stores)
  OBVIOUS
<1>2. A[c] = Made(A[c - 1], stores[c])
  BY TraceSteps
<1>3. A[c][f][x] = stores[c][f][2]
  BY <1>1, <1>2, MadeAt
<1>. QED  BY <1>1, <1>3, PlaceKept

-----------------------------------------------------------------------------
(* The blocks and the entries an image shows. *)

\* An inode with extents is allocated, counts entries, and none of its extents is empty.
Held(img) ==
    \A d \in Inodes : img.extent_num[d] > 0 =>
        /\ img.inodeBit[d] /\ img.size[d] > 0 /\ img.num_dir_entry[d] > 0
        /\ img.indirect_pt[d] \in Blocks
        /\ \A k \in 0 .. img.extent_num[d] - 1 : img.count[<<img.indirect_pt[d], k>>] > 0

\* The extents of an image are numbers.
LEMMA ExtentNumbers ==
  ASSUME NEW img, IsImage(img), NEW ib \in Blocks, NEW e \in 0 .. MaxExtents
  PROVE  Numbers(img, ib, e)
<1>1. \A k \in 1 .. e : <<ib, k - 1>> \in Blocks \X Extents
  BY DimensionsAssumption DEF Extents
<1>2. Blocks \subseteq Int
  BY DEF Blocks
<1>. QED  BY <1>1, <1>2, ImageTypes DEF Numbers

\* The sequence L is F with the c blocks from a on after it.
GrowsBy(F, L, a, c) ==
    /\ F \in Seq(Int) /\ L \in Seq(Int) /\ c \in Nat /\ a \in Blocks
    /\ Len(L) = Len(F) + c
    /\ \A k \in 1 .. Len(F) : L[k] = F[k]
    /\ \A k \in 1 .. c : L[Len(F) + k] = a + k - 1

\* What the last of e extents adds to the blocks of those before it.
LEMMA LastExtent ==
  ASSUME NEW img, IsImage(img), NEW ib \in Blocks, NEW e \in 1 .. MaxExtents
  PROVE  GrowsBy(FirstBlocks(img, ib, e - 1), FirstBlocks(img, ib, e),
                 img.start[<<ib, e - 1>>], img.count[<<ib, e - 1>>])
<1>. DEFINE c == img.count[<<ib, e - 1>>]
            a == img.start[<<ib, e - 1>>]
            F == FirstBlocks(img, ib, e - 1)
            L == FirstBlocks(img, ib, e)
            P == SpanOf(img, ib, e)
<1>1. e - 1 \in Nat /\ (e - 1) + 1 = e /\ e \in Nat
  BY DimensionsAssumption
<1>2. Numbers(img, ib, e) /\ <<ib, e - 1>> \in Blocks \X Extents
  <2>1. e \in 0 .. MaxExtents /\ e - 1 \in Extents
    BY DimensionsAssumption DEF Extents
  <2>. QED  BY <2>1, ExtentNumbers
<1>3. F \in Seq(Int) /\ L = F \o P
  <2>1. Numbers(img, ib, (e - 1) + 1)
    BY <1>1, <1>2
  <2>2. F \in Seq(Int) /\ FirstBlocks(img, ib, (e - 1) + 1) = F \o SpanOf(img, ib, (e - 1) + 1)
    BY <1>1, <2>1, BlocksGrow
  <2>. QED  BY <1>1, <2>2
<1>4. c \in Nat /\ a \in Blocks /\ a \in Int
  BY <1>2, ImageTypes DEF Blocks
<1>5. P \in Seq(Int) /\ Len(P) = c
  BY <1>1, <1>4, SpanIsSeq
<1>6. \A k \in 1 .. c : P[k] = a + k - 1
  BY <1>4 DEF SpanOf
<1>. HIDE DEF P, F, L, c, a
<1>7. L \in Seq(Int) /\ Len(L) = Len(F) + c
  BY <1>3, <1>5, ConcatProperties
<1>8. Len(F) \in Nat
  BY <1>3, LenProperties
<1>9. ASSUME NEW k \in 1 .. Len(F)
      PROVE  L[k] = F[k]
  BY <1>3, <1>4, <1>5, <1>8, ConcatProperties
<1>10. ASSUME NEW k \in 1 .. c
       PROVE  L[Len(F) + k] = a + k - 1
  <2>1. Len(F) + k \in 1 .. Len(F) + Len(P) /\ ~(Len(F) + k <= Len(F)) /\ Len(F) + k - Len(F) = k
    BY <1>4, <1>5, <1>8
  <2>2. L[Len(F) + k] = P[k]
    BY <1>3, <1>5, <2>1, ConcatProperties
  <2>. QED  BY <1>6, <2>2
<1>11. GrowsBy(F, L, a, c)
  BY <1>3, <1>4, <1>7, <1>9, <1>10 DEF GrowsBy
<1>. QED  BY <1>11 DEF c, a, F, L

\* An inode has blocks exactly when it has extents.
LEMMA BlocksView ==
  ASSUME NEW img, IsImage(img), Held(img), NEW d \in Inodes
  PROVE  /\ BlocksOf(img, d) \in Seq(Int)
         /\ img.extent_num[d] = 0 => BlocksOf(img, d) = <<>> /\ Len(BlocksOf(img, d)) = 0
         /\ img.extent_num[d] > 0 =>
              LET ib == img.indirect_pt[d]
                  e  == img.extent_num[d]
                  bs == BlocksOf(img, d)
              IN  /\ Len(bs) > 0
                  /\ bs[Len(bs)] = img.start[<<ib, e - 1>>] + img.count[<<ib, e - 1>>] - 1
<1>. DEFINE ib == img.indirect_pt[d]
            e  == img.extent_num[d]
            bs == BlocksOf(img, d)
<1>1. e \in 0 .. MaxExtents /\ e \in Nat
  BY ImageTypes, DimensionsAssumption
<1>2. bs = FirstBlocks(img, ib, e)
  BY BlocksAreFirstBlocks
<1>. HIDE DEF bs
<1>3. CASE e = 0
  <2>1. [k \in 1 .. 0 |-> SpanOf(img, ib, k)] = <<>>
    OBVIOUS
  <2>2. FirstBlocks(img, ib, 0) = <<>>
    BY <2>1 DEF FirstBlocks, FlattenSeq
  <2>3. bs = <<>>
    BY <1>2, <1>3, <2>2
  <2>4. bs \in Seq(Int) /\ Len(bs) = 0
    BY <2>3, EmptySeq
  <2>. QED  BY <1>3, <2>3, <2>4 DEF bs
<1>4. CASE e > 0
  <2>. DEFINE c == img.count[<<ib, e - 1>>]
              a == img.start[<<ib, e - 1>>]
              F == FirstBlocks(img, ib, e - 1)
  <2>1. ib \in Blocks /\ c > 0 /\ e \in 1 .. MaxExtents
    <3>1. e - 1 \in 0 .. e - 1
      BY <1>1, <1>4
    <3>. QED  BY <1>1, <1>4, <3>1 DEF Held
  <2>2. /\ F \in Seq(Int) /\ bs \in Seq(Int) /\ c \in Nat /\ a \in Blocks
        /\ Len(bs) = Len(F) + c
        /\ \A k \in 1 .. c : bs[Len(F) + k] = a + k - 1
    <3>1. GrowsBy(F, FirstBlocks(img, ib, e), a, c)
      <4>. HIDE DEF ib, e
      <4>. QED  BY <2>1, LastExtent
    <3>. QED  BY <1>2, <3>1 DEF GrowsBy
  <2>3. Len(F) \in Nat
    BY <2>2, LenProperties
  <2>. HIDE DEF c, a, F, ib, e
  <2>4. Len(bs) > 0 /\ bs[Len(bs)] = a + c - 1
    BY <2>1, <2>2, <2>3
  <2>. QED  BY <1>4, <2>2, <2>4 DEF bs, c, a, ib, e
<1>. QED  BY <1>1, <1>3, <1>4

\* Where the k-th entry of a directory with the blocks bs is.
Slot(bs, k) == <<bs[(k - 1) \div D + 1], (k - 1) % D>>

\* The entries that n blocks hold have a block and a place in it.
LEMMA SlotOfEntry ==
  ASSUME NEW n \in Nat, NEW k \in 1 .. D * n
  PROVE  (k - 1) \div D + 1 \in 1 .. n /\ (k - 1) % D \in Slots
<1>1. D \in Nat /\ D > 1
  BY DimensionsAssumption DEF D
<1>. DEFINE q == (k - 1) \div D
            r == (k - 1) % D
<1>. HIDE DEF D
<1>2. q \in Nat /\ r \in 0 .. D - 1 /\ k - 1 = D * q + r
  <2>1. D * n \in Nat /\ k - 1 \in Nat
    BY <1>1
  <2>. QED  BY <1>1, <2>1
<1>. HIDE DEF q, r
<1>3. q < n
  <2>. SUFFICES ASSUME q >= n PROVE FALSE
    BY <1>2
  <2>1. D * q >= D * n
    BY <1>1, <1>2
  <2>2. D * q \in Nat /\ D * n \in Nat
    BY <1>1, <1>2
  <2>. QED  BY <1>2, <2>1, <2>2
<1>. QED  BY <1>2, <1>3 DEF q, r, Slots

\* The larger of two numbers.
LEMMA MaxOfTwo == \A a, b \in Int : Max({a, b}) = IF a >= b THEN a ELSE b
<1>. SUFFICES ASSUME NEW a \in Int, NEW b \in Int
              PROVE  Max({a, b}) = IF a >= b THEN a ELSE b
  OBVIOUS
<1>. DEFINE m == IF a >= b THEN a ELSE b
            S == {a, b}
<1>1. m \in S /\ \A y \in S : m >= y
  OBVIOUS
<1>2. \A x \in S : (\A y \in S : x >= y) => x = m
  OBVIOUS
<1>. HIDE DEF m, S
<1>3. Max(S) = m
  BY <1>1, <1>2 DEF Max
<1>. QED  BY <1>3 DEF S, m

\* The smaller of two numbers.
LEMMA MinOfTwo == \A a, b \in Int : Min({a, b}) = IF a <= b THEN a ELSE b
<1>. SUFFICES ASSUME NEW a \in Int, NEW b \in Int
              PROVE  Min({a, b}) = IF a <= b THEN a ELSE b
  OBVIOUS
<1>. DEFINE m == IF a <= b THEN a ELSE b
            S == {a, b}
<1>1. m \in S /\ \A y \in S : m <= y
  OBVIOUS
<1>2. \A x \in S : (\A y \in S : x <= y) => x = m
  OBVIOUS
<1>. HIDE DEF m, S
<1>3. Min(S) = m
  BY <1>1, <1>2 DEF Min
<1>. QED  BY <1>3 DEF S, m

\* The entries a lookup sees: as many as are counted and have room in the blocks.
LEMMA EntriesView ==
  ASSUME NEW img, IsImage(img), NEW d \in Inodes, BlocksOf(img, d) \in Seq(Blocks),
         BlocksOf(img, d) # <<>> => img.num_dir_entry[d] > 0
  PROVE  LET bs == BlocksOf(img, d)
             es == EntriesOf(img, d)
             n  == img.num_dir_entry[d]
         IN  /\ es \in Seq(Entry)
             /\ Len(es) = IF n <= D * Len(bs) THEN (IF bs = <<>> THEN 0 ELSE n)
                                              ELSE D * Len(bs)
             /\ \A k \in 1 .. Len(es) : es[k] = img.dentry[Slot(bs, k)]
             /\ \A k \in 1 .. Len(es) : Slot(bs, k) \in Blocks \X Slots
<1>. DEFINE bs == BlocksOf(img, d)
            n  == img.num_dir_entry[d]
            m  == Min({Max({n, 1}), D * Len(bs)})
            f  == [k \in 1 .. m |-> img.dentry[Slot(bs, k)]]
<1>1. D \in Nat /\ D > 1
  BY DimensionsAssumption DEF D
<1>2. n \in Nat
  BY ImageTypes
<1>3. Len(bs) \in Nat /\ bs \in [1 .. Len(bs) -> Blocks]
  BY LenProperties
<1>4. EntriesOf(img, d) = SubSeq(f, 1, m)
  BY DEF EntriesOf, Slot, D
<1>. HIDE DEF bs, n
<1>. DEFINE room == D * Len(bs)
<1>5. room \in Nat /\ (bs = <<>> => room = 0) /\ (bs # <<>> => room > 0)
  <2>1. bs = <<>> => Len(bs) = 0
    OBVIOUS
  <2>2. bs # <<>> => Len(bs) > 0
    BY EmptySeq DEF bs
  <2>. QED  BY <1>1, <1>3, <2>1, <2>2
<1>. HIDE DEF room
<1>6. m \in Nat /\ m <= room /\ m = IF n <= room THEN (IF bs = <<>> THEN 0 ELSE n) ELSE room
  <2>1. Max({n, 1}) = IF n >= 1 THEN n ELSE 1
    BY <1>2, MaxOfTwo
  <2>2. Max({n, 1}) \in Nat
    BY <1>2, <2>1
  <2>3. m = IF Max({n, 1}) <= room THEN Max({n, 1}) ELSE room
    <3>. DEFINE x == Max({n, 1})
    <3>1. m = Min({x, room})
      BY DEF room
    <3>. HIDE DEF x, m
    <3>2. x \in Int /\ room \in Int
      BY <1>5, <2>2 DEF x
    <3>3. m = IF x <= room THEN x ELSE room
      BY <3>1, <3>2, MinOfTwo
    <3>. QED  BY <3>3 DEF x
  <2>4. bs # <<>> => n >= 1
    BY <1>2 DEF bs, n
  <2>. HIDE DEF m
  <2>. QED  BY <1>2, <1>5, <2>1, <2>2, <2>3, <2>4
<1>. HIDE DEF m
<1>7. ASSUME NEW k \in 1 .. m
      PROVE  Slot(bs, k) \in Blocks \X Slots
  <2>1. k \in 1 .. D * Len(bs)
    <3>1. k \in 1 .. room
      BY <1>5, <1>6
    <3>. QED  BY <3>1 DEF room
  <2>2. (k - 1) \div D + 1 \in 1 .. Len(bs) /\ (k - 1) % D \in Slots
    BY <1>3, <2>1, SlotOfEntry
  <2>. QED  BY <1>3, <2>2 DEF Slot
<1>8. \A k \in 1 .. m : img.dentry[Slot(bs, k)] \in Entry
  BY <1>7, ImageTypes
<1>9. f \in Seq(Entry) /\ Len(f) = m
  BY <1>6, <1>8
<1>10. EntriesOf(img, d) = f
  <2>. HIDE DEF f
  <2>. QED  BY <1>4, <1>9, SubSeqFull
<1>11. \A k \in 1 .. m : f[k] = img.dentry[Slot(bs, k)]
  OBVIOUS
<1>. HIDE DEF f
<1>. QED  BY <1>6, <1>7, <1>9, <1>10, <1>11 DEF bs, n, room

-----------------------------------------------------------------------------
(* The blocks in use and the inodes listed, one by one. *)

\* The k-th block of i, its indirect block being the block 0.
BlockAt(img, i, k) == IF k = 0 THEN img.indirect_pt[i] ELSE BlocksOf(img, i)[k]

Uses(img, i, k) == img.extent_num[i] > 0 /\ k \in 0 .. Len(BlocksOf(img, i))

\* Used, inode by inode and block by block.
LEMMA UsedView ==
  ASSUME NEW img, IsImage(img), Held(img)
  PROVE  /\ \A i \in Inodes : \A k : Uses(img, i, k) => <<i, k + 1, BlockAt(img, i, k)>> \in Used(img)
         /\ \A x \in Used(img) : \E i \in Inodes : \E k \in 0 .. Len(BlocksOf(img, i)) :
               Uses(img, i, k) /\ x = <<i, k + 1, BlockAt(img, i, k)>>
<1>. DEFINE bs(i) == <<img.indirect_pt[i]>> \o BlocksOf(img, i)
            U(i) == {<<i, k, bs(i)[k]>> : k \in DOMAIN bs(i)}
<1>1. Used(img) = UNION {U(i) : i \in {j \in Inodes : img.extent_num[j] > 0}}
  BY DEF Used
<1>2. ASSUME NEW i \in Inodes, img.extent_num[i] > 0
      PROVE  /\ DOMAIN bs(i) = 1 .. Len(BlocksOf(img, i)) + 1
             /\ \A k \in 0 .. Len(BlocksOf(img, i)) : bs(i)[k + 1] = BlockAt(img, i, k)
  <2>. DEFINE h == <<img.indirect_pt[i]>>
              t == BlocksOf(img, i)
  <2>1. t \in Seq(Int)
    BY BlocksView
  <2>2. img.indirect_pt[i] \in Int
    BY <1>2 DEF Held, Blocks
  <2>3. h \in Seq(Int) /\ Len(h) = 1 /\ h[1] = img.indirect_pt[i]
    BY <2>2
  <2>. HIDE DEF h, t
  <2>4. /\ h \o t \in Seq(Int) /\ Len(h \o t) = 1 + Len(t) /\ Len(t) \in Nat
        /\ \A k \in 1 .. 1 + Len(t) : (h \o t)[k] = IF k <= 1 THEN h[k] ELSE t[k - 1]
    <3>1. Len(t) \in Nat
      BY <2>1, LenProperties
    <3>2. h \o t \in Seq(Int) /\ Len(h \o t) = Len(h) + Len(t)
      BY <2>1, <2>3, ConcatProperties
    <3>3. \A k \in 1 .. Len(h) + Len(t) :
             (h \o t)[k] = IF k <= Len(h) THEN h[k] ELSE t[k - Len(h)]
      BY <2>1, <2>3, ConcatProperties
    <3>. QED  BY <2>3, <3>1, <3>2, <3>3
  <2>5. DOMAIN (h \o t) = 1 .. Len(t) + 1
    BY <2>4, LenProperties
  <2>6. ASSUME NEW k \in 0 .. Len(t)
        PROVE  (h \o t)[k + 1] = IF k = 0 THEN h[1] ELSE t[k]
    <3>1. k + 1 \in 1 .. 1 + Len(t) /\ (k + 1) - 1 = k
      BY <2>4
    <3>2. CASE k = 0
      BY <2>4, <3>1, <3>2
    <3>3. CASE k # 0
      <4>1. ~(k + 1 <= 1)
        BY <2>4, <3>3
      <4>. QED  BY <2>4, <3>1, <3>3, <4>1
    <3>. QED  BY <3>2, <3>3
  <2>7. bs(i) = h \o t
    BY DEF h, t
  <2>. QED  BY <2>3, <2>5, <2>6, <2>7 DEF BlockAt, t
<1>. HIDE DEF bs
<1>3. ASSUME NEW i \in Inodes, NEW k, Uses(img, i, k)
      PROVE  <<i, k + 1, BlockAt(img, i, k)>> \in Used(img)
  <2>1. Len(BlocksOf(img, i)) \in Nat
    BY BlocksView, LenProperties
  <2>2. k + 1 \in DOMAIN bs(i) /\ bs(i)[k + 1] = BlockAt(img, i, k) /\ img.extent_num[i] > 0
    BY <1>2, <1>3, <2>1 DEF Uses
  <2>3. <<i, k + 1, BlockAt(img, i, k)>> \in U(i)
    BY <2>2
  <2>. HIDE DEF U
  <2>. QED  BY <1>1, <2>2, <2>3
<1>4. ASSUME NEW x \in Used(img)
      PROVE  \E i \in Inodes : \E k \in 0 .. Len(BlocksOf(img, i)) :
               Uses(img, i, k) /\ x = <<i, k + 1, BlockAt(img, i, k)>>
  <2>1. PICK i \in Inodes : img.extent_num[i] > 0 /\ x \in U(i)
    <3>. HIDE DEF U
    <3>. QED  BY <1>1
  <2>2. PICK k \in DOMAIN bs(i) : x = <<i, k, bs(i)[k]>>
    BY <2>1
  <2>3. Len(BlocksOf(img, i)) \in Nat
    BY BlocksView, LenProperties
  <2>4. k - 1 \in 0 .. Len(BlocksOf(img, i)) /\ (k - 1) + 1 = k
    BY <1>2, <2>1, <2>2, <2>3
  <2>5. bs(i)[k] = BlockAt(img, i, k - 1)
    BY <1>2, <2>1, <2>4
  <2>6. Uses(img, i, k - 1)
    BY <2>1, <2>4 DEF Uses
  <2>7. x = <<i, (k - 1) + 1, BlockAt(img, i, k - 1)>>
    BY <2>2, <2>4, <2>5
  <2>. QED  BY <2>4, <2>6, <2>7
<1>. QED  BY <1>3, <1>4

\* No block is used twice, said of inodes and their blocks.
LEMMA UsedOnce ==
  ASSUME NEW img, IsImage(img), Held(img)
  PROVE  /\ Once(Used(img)) <=>
              \A i, j \in Inodes : \A k, l :
                 Uses(img, i, k) /\ Uses(img, j, l) /\ BlockAt(img, i, k) = BlockAt(img, j, l)
                    => i = j /\ k = l
         /\ \A T : Within(Used(img), T) <=>
              \A i \in Inodes : \A k : Uses(img, i, k) => BlockAt(img, i, k) \in T
<1>0. \A i \in Inodes : \A k : Uses(img, i, k) => k \in Int
  BY DEF Uses
<1>1. ASSUME Once(Used(img)), NEW i \in Inodes, NEW j \in Inodes, NEW k, NEW l,
             Uses(img, i, k), Uses(img, j, l), BlockAt(img, i, k) = BlockAt(img, j, l)
      PROVE  i = j /\ k = l
  <2>. DEFINE x == <<i, k + 1, BlockAt(img, i, k)>>
              y == <<j, l + 1, BlockAt(img, j, l)>>
  <2>1. x \in Used(img) /\ y \in Used(img)
    BY <1>1, UsedView
  <2>2. x[3] = y[3]
    BY <1>1
  <2>3. x = y
    <3>. HIDE DEF x, y
    <3>. QED  BY <1>1, <2>1, <2>2 DEF Once
  <2>4. i = j /\ k + 1 = l + 1
    BY <2>3
  <2>. QED  BY <1>0, <1>1, <2>4
<1>2. ASSUME \A i, j \in Inodes : \A k, l :
                 Uses(img, i, k) /\ Uses(img, j, l) /\ BlockAt(img, i, k) = BlockAt(img, j, l)
                    => i = j /\ k = l,
             NEW x \in Used(img), NEW y \in Used(img), x[3] = y[3]
      PROVE  x = y
  <2>1a. PICK i \in Inodes : \E k \in 0 .. Len(BlocksOf(img, i)) :
                Uses(img, i, k) /\ x = <<i, k + 1, BlockAt(img, i, k)>>
    BY UsedView
  <2>1. PICK k \in 0 .. Len(BlocksOf(img, i)) :
                Uses(img, i, k) /\ x = <<i, k + 1, BlockAt(img, i, k)>>
    BY <2>1a
  <2>2a. PICK j \in Inodes : \E l \in 0 .. Len(BlocksOf(img, j)) :
                Uses(img, j, l) /\ y = <<j, l + 1, BlockAt(img, j, l)>>
    BY UsedView
  <2>2. PICK l \in 0 .. Len(BlocksOf(img, j)) :
                Uses(img, j, l) /\ y = <<j, l + 1, BlockAt(img, j, l)>>
    BY <2>2a
  <2>3. BlockAt(img, i, k) = BlockAt(img, j, l)
    BY <1>2, <2>1, <2>2
  <2>4. i = j /\ k = l
    BY <1>2, <2>1, <2>2, <2>3
  <2>. QED  BY <2>1, <2>2, <2>4
<1>3. ASSUME NEW T, Within(Used(img), T), NEW i \in Inodes, NEW k, Uses(img, i, k)
      PROVE  BlockAt(img, i, k) \in T
  <2>. DEFINE x == <<i, k + 1, BlockAt(img, i, k)>>
  <2>1. x \in Used(img) /\ x[3] = BlockAt(img, i, k)
    BY <1>3, UsedView
  <2>. HIDE DEF x
  <2>. QED  BY <1>3, <2>1 DEF Within
<1>4. ASSUME NEW T, \A i \in Inodes : \A k : Uses(img, i, k) => BlockAt(img, i, k) \in T,
             NEW x \in Used(img)
      PROVE  x[3] \in T
  <2>1a. PICK i \in Inodes : \E k \in 0 .. Len(BlocksOf(img, i)) :
                Uses(img, i, k) /\ x = <<i, k + 1, BlockAt(img, i, k)>>
    BY UsedView
  <2>1. PICK k \in 0 .. Len(BlocksOf(img, i)) :
                Uses(img, i, k) /\ x = <<i, k + 1, BlockAt(img, i, k)>>
    BY <2>1a
  <2>. QED  BY <1>4, <2>1
<1>5. Once(Used(img)) <=> \A x, y \in Used(img) : x[3] = y[3] => x = y
  BY DEF Once
<1>6. \A T : Within(Used(img), T) <=> \A x \in Used(img) : x[3] \in T
  BY DEF Within
<1>. QED  BY <1>1, <1>2, <1>3, <1>4, <1>5, <1>6

\* d has a k-th entry.
Lists(img, d, k) == k \in 1 .. Len(EntriesOf(img, d))

\* Listed, directory by directory and entry by entry.
LEMMA ListedView ==
  ASSUME NEW img, \A d \in Inodes : EntriesOf(img, d) \in Seq(Entry)
  PROVE  /\ \A d \in Inodes : \A k : Lists(img, d, k) => <<d, k, EntriesOf(img, d)[k].ino>> \in Listed(img)
         /\ \A x \in Listed(img) : \E d \in Inodes : \E k \in 1 .. Len(EntriesOf(img, d)) :
               Lists(img, d, k) /\ x = <<d, k, EntriesOf(img, d)[k].ino>>
<1>. DEFINE L(d) == {<<d, k, EntriesOf(img, d)[k].ino>> : k \in DOMAIN EntriesOf(img, d)}
<1>1. Listed(img) = UNION {L(d) : d \in Inodes}
  BY DEF Listed
<1>2. \A d \in Inodes : DOMAIN EntriesOf(img, d) = 1 .. Len(EntriesOf(img, d))
  BY LenProperties
<1>3. ASSUME NEW d \in Inodes, NEW k, Lists(img, d, k)
      PROVE  <<d, k, EntriesOf(img, d)[k].ino>> \in Listed(img)
  <2>1. <<d, k, EntriesOf(img, d)[k].ino>> \in L(d)
    BY <1>2, <1>3 DEF Lists
  <2>. HIDE DEF L
  <2>. QED  BY <1>1, <2>1
<1>4. ASSUME NEW x \in Listed(img)
      PROVE  \E d \in Inodes : \E k \in 1 .. Len(EntriesOf(img, d)) :
               Lists(img, d, k) /\ x = <<d, k, EntriesOf(img, d)[k].ino>>
  <2>1. PICK d \in Inodes : x \in L(d)
    <3>. HIDE DEF L
    <3>. QED  BY <1>1
  <2>2. PICK k \in DOMAIN EntriesOf(img, d) : x = <<d, k, EntriesOf(img, d)[k].ino>>
    BY <2>1
  <2>. QED  BY <1>2, <2>2 DEF Lists
<1>. QED  BY <1>3, <1>4

\* No inode is listed twice, said of directories and their entries.
LEMMA ListedOnce ==
  ASSUME NEW img, \A d \in Inodes : EntriesOf(img, d) \in Seq(Entry)
  PROVE  /\ Once(Listed(img)) <=>
              \A d, e \in Inodes : \A k, l :
                 Lists(img, d, k) /\ Lists(img, e, l)
                 /\ EntriesOf(img, d)[k].ino = EntriesOf(img, e)[l].ino => d = e /\ k = l
         /\ \A T : Within(Listed(img), T) <=>
              \A d \in Inodes : \A k : Lists(img, d, k) => EntriesOf(img, d)[k].ino \in T
<1>1. ASSUME Once(Listed(img)), NEW d \in Inodes, NEW e \in Inodes, NEW k, NEW l,
             Lists(img, d, k), Lists(img, e, l),
             EntriesOf(img, d)[k].ino = EntriesOf(img, e)[l].ino
      PROVE  d = e /\ k = l
  <2>. DEFINE x == <<d, k, EntriesOf(img, d)[k].ino>>
              y == <<e, l, EntriesOf(img, e)[l].ino>>
  <2>1. x \in Listed(img) /\ y \in Listed(img)
    BY <1>1, ListedView
  <2>2. x[3] = y[3]
    BY <1>1
  <2>3. x = y
    <3>. HIDE DEF x, y
    <3>. QED  BY <1>1, <2>1, <2>2 DEF Once
  <2>. QED  BY <2>3
<1>2. ASSUME \A d, e \in Inodes : \A k, l :
                 Lists(img, d, k) /\ Lists(img, e, l)
                 /\ EntriesOf(img, d)[k].ino = EntriesOf(img, e)[l].ino => d = e /\ k = l,
             NEW x \in Listed(img), NEW y \in Listed(img), x[3] = y[3]
      PROVE  x = y
  <2>1a. PICK d \in Inodes : \E k \in 1 .. Len(EntriesOf(img, d)) :
                Lists(img, d, k) /\ x = <<d, k, EntriesOf(img, d)[k].ino>>
    BY ListedView
  <2>1. PICK k \in 1 .. Len(EntriesOf(img, d)) :
                Lists(img, d, k) /\ x = <<d, k, EntriesOf(img, d)[k].ino>>
    BY <2>1a
  <2>2a. PICK e \in Inodes : \E l \in 1 .. Len(EntriesOf(img, e)) :
                Lists(img, e, l) /\ y = <<e, l, EntriesOf(img, e)[l].ino>>
    BY ListedView
  <2>2. PICK l \in 1 .. Len(EntriesOf(img, e)) :
                Lists(img, e, l) /\ y = <<e, l, EntriesOf(img, e)[l].ino>>
    BY <2>2a
  <2>3. EntriesOf(img, d)[k].ino = EntriesOf(img, e)[l].ino
    BY <1>2, <2>1, <2>2
  <2>4. d = e /\ k = l
    BY <1>2, <2>1, <2>2, <2>3
  <2>. QED  BY <2>1, <2>2, <2>4
<1>3. ASSUME NEW T, Within(Listed(img), T), NEW d \in Inodes, NEW k, Lists(img, d, k)
      PROVE  EntriesOf(img, d)[k].ino \in T
  <2>. DEFINE x == <<d, k, EntriesOf(img, d)[k].ino>>
  <2>1. x \in Listed(img) /\ x[3] = EntriesOf(img, d)[k].ino
    BY <1>3, ListedView
  <2>. HIDE DEF x
  <2>. QED  BY <1>3, <2>1 DEF Within
<1>4. ASSUME NEW T, \A d \in Inodes : \A k : Lists(img, d, k) => EntriesOf(img, d)[k].ino \in T,
             NEW x \in Listed(img)
      PROVE  x[3] \in T
  <2>1a. PICK d \in Inodes : \E k \in 1 .. Len(EntriesOf(img, d)) :
                Lists(img, d, k) /\ x = <<d, k, EntriesOf(img, d)[k].ino>>
    BY ListedView
  <2>1. PICK k \in 1 .. Len(EntriesOf(img, d)) :
                Lists(img, d, k) /\ x = <<d, k, EntriesOf(img, d)[k].ino>>
    BY <2>1a
  <2>. QED  BY <1>4, <2>1
<1>5. Once(Listed(img)) <=> \A x, y \in Listed(img) : x[3] = y[3] => x = y
  BY DEF Once
<1>6. \A T : Within(Listed(img), T) <=> \A x \in Listed(img) : x[3] \in T
  BY DEF Within
<1>. QED  BY <1>1, <1>2, <1>3, <1>4, <1>5, <1>6

-----------------------------------------------------------------------------
(* The images in which nothing is used twice. *)

UsesInto(img, i, T)  == \A k : Uses(img, i, k) => BlockAt(img, i, k) \in T
ListsInto(img, d, T) == \A k : Lists(img, d, k) => EntriesOf(img, d)[k].ino \in T

UsesApart(img) ==
    \A i, j \in Inodes : \A k, l :
       Uses(img, i, k) /\ Uses(img, j, l) /\ BlockAt(img, i, k) = BlockAt(img, j, l)
          => i = j /\ k = l

ListsApart(img) ==
    \A d, e \in Inodes : \A k, l :
       Lists(img, d, k) /\ Lists(img, e, l)
       /\ EntriesOf(img, d)[k].ino = EntriesOf(img, e)[l].ino => d = e /\ k = l

UsedBlocks(img) ==
    {b \in Blocks : \E i \in Inodes : \E k \in 0 .. Len(BlocksOf(img, i)) :
                       Uses(img, i, k) /\ BlockAt(img, i, k) = b}

\* The blocks in use and those the superblock counts as free do not exceed the image.
Room(img) == img.available["blocks"] + Cardinality(UsedBlocks(img)) <= NumBlocks

Sound(img) ==
    /\ IsImage(img) /\ Held(img)
    /\ Once(Used(img)) /\ Within(Used(img), DataBits(img))
    /\ Once(Listed(img)) /\ Within(Listed(img), InodeBits(img))
    /\ Room(img)

\* An inode whose blocks are all blocks of the image has the entries those hold.
LEMMA ViewOf ==
  ASSUME NEW img, IsImage(img), Held(img), NEW d \in Inodes, UsesInto(img, d, Blocks)
  PROVE  /\ BlocksOf(img, d) \in Seq(Blocks)
         /\ BlocksOf(img, d) # <<>> <=> img.extent_num[d] > 0
         /\ BlocksOf(img, d) # <<>> => img.num_dir_entry[d] > 0
         /\ EntriesOf(img, d) \in Seq(Entry)
<1>1. BlocksOf(img, d) \in Seq(Int)
  BY BlocksView
<1>2. BlocksOf(img, d) \in Seq(Blocks) /\ (BlocksOf(img, d) # <<>> <=> img.extent_num[d] > 0)
  <2>1. CASE img.extent_num[d] > 0
    <3>. DEFINE bs == BlocksOf(img, d)
    <3>1. bs \in Seq(Int) /\ Len(bs) \in Nat /\ Len(bs) > 0
      BY <2>1, BlocksView, LenProperties
    <3>2. \A k \in 1 .. Len(bs) : bs[k] \in Blocks
      <4>. SUFFICES ASSUME NEW k \in 1 .. Len(bs) PROVE bs[k] \in Blocks
        OBVIOUS
      <4>1. k \in 0 .. Len(bs) /\ k # 0
        BY <3>1
      <4>2. Uses(img, d, k) /\ BlockAt(img, d, k) = bs[k]
        BY <2>1, <4>1 DEF Uses, BlockAt
      <4>. QED  BY <4>2 DEF UsesInto
    <3>. HIDE DEF bs
    <3>3. bs \in Seq(Blocks) /\ bs # <<>>
      <4>1. bs = [k \in 1 .. Len(bs) |-> bs[k]]
        BY <3>1, LenProperties
      <4>2. bs # <<>>
        BY <3>1, EmptySeq
      <4>. QED  BY <3>1, <3>2, <4>1, <4>2, IsASeq
    <3>. QED  BY <2>1, <3>3 DEF bs
  <2>2. CASE ~(img.extent_num[d] > 0)
    <3>1. img.extent_num[d] = 0
      BY <2>2, ImageTypes, DimensionsAssumption
    <3>2. BlocksOf(img, d) = <<>>
      BY <3>1, BlocksView
    <3>. QED  BY <2>2, <3>2, EmptySeq
  <2>. QED  BY <2>1, <2>2
<1>3. BlocksOf(img, d) # <<>> => img.num_dir_entry[d] > 0
  BY <1>2 DEF Held
<1>4. EntriesOf(img, d) \in Seq(Entry)
  BY <1>2, <1>3, EntriesView
<1>. QED  BY <1>2, <1>3, <1>4

\* Soundness, inode by inode.
LEMMA SoundIff ==
  ASSUME NEW img, IsImage(img), Held(img)
  PROVE  Sound(img) <=>
           /\ UsesApart(img) /\ \A i \in Inodes : UsesInto(img, i, DataBits(img))
           /\ ListsApart(img) /\ \A d \in Inodes : ListsInto(img, d, InodeBits(img))
           /\ Room(img)
<1>1. Once(Used(img)) <=> UsesApart(img)
  BY UsedOnce DEF UsesApart
<1>2. Within(Used(img), DataBits(img)) <=> \A i \in Inodes : UsesInto(img, i, DataBits(img))
  BY UsedOnce DEF UsesInto
<1>3. DataBits(img) \subseteq Blocks
  BY DEF DataBits
<1>4. ASSUME \A i \in Inodes : UsesInto(img, i, DataBits(img))
      PROVE  /\ Once(Listed(img)) <=> ListsApart(img)
             /\ Within(Listed(img), InodeBits(img))
                  <=> \A d \in Inodes : ListsInto(img, d, InodeBits(img))
  <2>1. \A d \in Inodes : UsesInto(img, d, Blocks)
    BY <1>3, <1>4 DEF UsesInto
  <2>2. \A d \in Inodes : EntriesOf(img, d) \in Seq(Entry)
    BY <2>1, ViewOf
  <2>3. Once(Listed(img)) <=> ListsApart(img)
    BY <2>2, ListedOnce DEF ListsApart
  <2>4. Within(Listed(img), InodeBits(img)) <=> \A d \in Inodes : ListsInto(img, d, InodeBits(img))
    BY <2>2, ListedOnce DEF ListsInto
  <2>. QED  BY <2>3, <2>4
<1>. QED  BY <1>1, <1>2, <1>4 DEF Sound

\* What a sound image has.
LEMMA SoundView ==
  ASSUME NEW img, Sound(img)
  PROVE  /\ IsImage(img) /\ Held(img) /\ UsesApart(img) /\ ListsApart(img) /\ Room(img)
         /\ \A i \in Inodes : /\ UsesInto(img, i, DataBits(img)) /\ UsesInto(img, i, Blocks)
                              /\ ListsInto(img, i, InodeBits(img))
                              /\ BlocksOf(img, i) \in Seq(Blocks)
                              /\ BlocksOf(img, i) # <<>> <=> img.extent_num[i] > 0
                              /\ BlocksOf(img, i) # <<>> => img.num_dir_entry[i] > 0
                              /\ EntriesOf(img, i) \in Seq(Entry)
<1>1. IsImage(img) /\ Held(img)
  BY DEF Sound
<1>2. /\ UsesApart(img) /\ \A i \in Inodes : UsesInto(img, i, DataBits(img))
      /\ ListsApart(img) /\ \A d \in Inodes : ListsInto(img, d, InodeBits(img))
      /\ Room(img)
  BY <1>1, SoundIff
<1>3. \A i \in Inodes : UsesInto(img, i, Blocks)
  BY <1>2 DEF UsesInto, DataBits
<1>. QED  BY <1>1, <1>2, <1>3, ViewOf

-----------------------------------------------------------------------------
(* What an image keeps of another one. *)

\* j shows the same blocks and entries of x as i does.
SameView(i, j, x) ==
    /\ BlocksOf(j, x) = BlocksOf(i, x) /\ EntriesOf(j, x) = EntriesOf(i, x)
    /\ j.extent_num[x] > 0 <=> i.extent_num[x] > 0
    /\ i.extent_num[x] > 0 => j.indirect_pt[x] = i.indirect_pt[x]

KeepsExtents(i, j, x) ==
    /\ j.extent_num[x] = i.extent_num[x]
    /\ i.extent_num[x] > 0 =>
         /\ j.indirect_pt[x] = i.indirect_pt[x]
         /\ \A k \in 0 .. i.extent_num[x] - 1 :
               /\ j.start[<<i.indirect_pt[x], k>>] = i.start[<<i.indirect_pt[x], k>>]
               /\ j.count[<<i.indirect_pt[x], k>>] = i.count[<<i.indirect_pt[x], k>>]

\* The entries of x that i shows are in j where they were.
KeepsEntries(i, j, x) ==
    \A k : Lists(i, x, k) =>
       j.dentry[Slot(BlocksOf(i, x), k)] = i.dentry[Slot(BlocksOf(i, x), k)]

Keeps(i, j, x) ==
    /\ KeepsExtents(i, j, x) /\ KeepsEntries(i, j, x)
    /\ i.extent_num[x] > 0 => j.num_dir_entry[x] = i.num_dir_entry[x]

\* The same extents are the same blocks.
LEMMA KeptBlocks ==
  ASSUME NEW i, IsImage(i), NEW j, IsImage(j), NEW x \in Inodes, KeepsExtents(i, j, x)
  PROVE  BlocksOf(j, x) = BlocksOf(i, x)
<1>. DEFINE e  == i.extent_num[x]
            ib == i.indirect_pt[x]
<1>1. e \in Nat
  BY ImageTypes, DimensionsAssumption
<1>2. CASE e = 0
  <2>1. [k \in 1 .. 0 |-> SpanOf(i, ib, k)] = <<>> /\ [k \in 1 .. 0 |-> SpanOf(j, j.indirect_pt[x], k)] = <<>>
    OBVIOUS
  <2>2. FirstBlocks(i, ib, 0) = FirstBlocks(j, j.indirect_pt[x], 0)
    BY <2>1 DEF FirstBlocks
  <2>3. j.extent_num[x] = 0 /\ i.extent_num[x] = 0
    BY <1>2 DEF KeepsExtents
  <2>. QED  BY <2>2, <2>3, BlocksAreFirstBlocks
<1>3. CASE e # 0
  <2>1. /\ j.extent_num[x] = e /\ j.indirect_pt[x] = ib
        /\ \A k \in 0 .. e - 1 : /\ j.start[<<ib, k>>] = i.start[<<ib, k>>]
                                 /\ j.count[<<ib, k>>] = i.count[<<ib, k>>]
    BY <1>1, <1>3 DEF KeepsExtents
  <2>. HIDE DEF e, ib
  <2>2. \A k \in 1 .. e : SpanOf(j, ib, k) = SpanOf(i, ib, k)
    <3>. SUFFICES ASSUME NEW k \in 1 .. e PROVE SpanOf(j, ib, k) = SpanOf(i, ib, k)
      OBVIOUS
    <3>1. k - 1 \in 0 .. e - 1
      BY <1>1
    <3>. QED  BY <2>1, <3>1 DEF SpanOf
  <2>3. [k \in 1 .. e |-> SpanOf(j, ib, k)] = [k \in 1 .. e |-> SpanOf(i, ib, k)]
    BY <2>2
  <2>4. FirstBlocks(j, ib, e) = FirstBlocks(i, ib, e)
    BY <2>3 DEF FirstBlocks
  <2>. QED  BY <2>1, <2>4, BlocksAreFirstBlocks DEF e, ib
<1>. QED  BY <1>2, <1>3

\* As many entries at the same slots are the same entries.
LEMMA SameEntries ==
  ASSUME NEW i, IsImage(i), Held(i), NEW j, IsImage(j), NEW x \in Inodes,
         UsesInto(i, x, Blocks), BlocksOf(j, x) = BlocksOf(i, x),
         KeepsEntries(i, j, x),
         i.extent_num[x] > 0 => j.num_dir_entry[x] = i.num_dir_entry[x]
  PROVE  EntriesOf(j, x) = EntriesOf(i, x)
<1>. DEFINE bs == BlocksOf(i, x)
            es == EntriesOf(i, x)
            fs == EntriesOf(j, x)
            n  == i.num_dir_entry[x]
<1>1. /\ bs \in Seq(Blocks)
      /\ bs # <<>> => i.num_dir_entry[x] > 0
      /\ bs # <<>> <=> i.extent_num[x] > 0
  BY ViewOf
<1>2. bs # <<>> => j.num_dir_entry[x] = n /\ j.num_dir_entry[x] > 0
  BY <1>1
<1>3. /\ es \in Seq(Entry)
      /\ Len(es) = IF n <= D * Len(bs) THEN (IF bs = <<>> THEN 0 ELSE n) ELSE D * Len(bs)
      /\ \A k \in 1 .. Len(es) : es[k] = i.dentry[Slot(bs, k)]
  BY <1>1, EntriesView
<1>4. /\ fs \in Seq(Entry)
      /\ Len(fs) = IF j.num_dir_entry[x] <= D * Len(bs)
                     THEN (IF bs = <<>> THEN 0 ELSE j.num_dir_entry[x]) ELSE D * Len(bs)
      /\ \A k \in 1 .. Len(fs) : fs[k] = j.dentry[Slot(bs, k)]
  BY <1>1, <1>2, EntriesView
<1>5. \A k \in 1 .. Len(es) : j.dentry[Slot(bs, k)] = i.dentry[Slot(bs, k)]
  BY DEF KeepsEntries, Lists
<1>6. D * Len(bs) \in Nat /\ n \in Nat /\ j.num_dir_entry[x] \in Nat /\ (bs = <<>> => D * Len(bs) = 0)
  <2>1. D \in Nat /\ Len(bs) \in Nat
    BY <1>1, LenProperties, DimensionsAssumption DEF D
  <2>2. bs = <<>> => Len(bs) = 0
    OBVIOUS
  <2>3. n \in Nat /\ j.num_dir_entry[x] \in Nat
    BY ImageTypes
  <2>. HIDE DEF bs, n
  <2>. QED  BY <2>1, <2>2, <2>3
<1>. HIDE DEF bs, es, fs, n
<1>7. Len(fs) = Len(es)
  <2>1. CASE bs = <<>>
    BY <1>3, <1>4, <1>6, <2>1
  <2>2. CASE bs # <<>>
    BY <1>2, <1>3, <1>4, <2>2
  <2>. QED  BY <2>1, <2>2
<1>8. \A k \in 1 .. Len(es) : fs[k] = es[k]
  BY <1>3, <1>4, <1>5, <1>7
<1>9. es = fs
  BY <1>3, <1>4, <1>7, <1>8, SeqEqual
<1>. QED  BY <1>9 DEF es, fs

\* What keeps extents, entries and their count shows the same.
LEMMA KeptView ==
  ASSUME NEW i, IsImage(i), Held(i), NEW j, IsImage(j), NEW x \in Inodes,
         UsesInto(i, x, Blocks), Keeps(i, j, x)
  PROVE  SameView(i, j, x)
<1>1. KeepsExtents(i, j, x) /\ KeepsEntries(i, j, x)
      /\ (i.extent_num[x] > 0 => j.num_dir_entry[x] = i.num_dir_entry[x])
  BY DEF Keeps
<1>2. BlocksOf(j, x) = BlocksOf(i, x)
  BY <1>1, KeptBlocks
<1>3. EntriesOf(j, x) = EntriesOf(i, x)
  BY <1>1, <1>2, SameEntries
<1>. QED  BY <1>1, <1>2, <1>3 DEF SameView, KeepsExtents

\* What x uses and lists depends on its view only.
LEMMA ViewUses ==
  ASSUME NEW i, NEW j, NEW x, SameView(i, j, x)
  PROVE  /\ \A k : Uses(j, x, k) <=> Uses(i, x, k)
         /\ \A k : Uses(i, x, k) => BlockAt(j, x, k) = BlockAt(i, x, k)
         /\ \A k : Lists(j, x, k) <=> Lists(i, x, k)
BY DEF SameView, Uses, Lists, BlockAt

\* The uses of p in j, and its entries, are its own.
OwnUses(i, j, p) ==
    /\ UsesInto(j, p, DataBits(j))
    /\ \A k, l : Uses(j, p, k) /\ Uses(j, p, l) /\ BlockAt(j, p, k) = BlockAt(j, p, l) => k = l
    /\ \A x \in Inodes \ {p} : \A k, l :
          Uses(j, p, k) /\ Uses(i, x, l) => BlockAt(j, p, k) # BlockAt(i, x, l)

OwnEntries(i, j, p) ==
    /\ ListsInto(j, p, InodeBits(j))
    /\ \A k, l : Lists(j, p, k) /\ Lists(j, p, l)
                 /\ EntriesOf(j, p)[k].ino = EntriesOf(j, p)[l].ino => k = l
    /\ \A x \in Inodes \ {p} : \A k, l :
          Lists(j, p, k) /\ Lists(i, x, l) => EntriesOf(j, p)[k].ino # EntriesOf(i, x)[l].ino

\* A sound image stays sound when one directory changes and uses nothing of another's.
LEMMA SoundStep ==
  ASSUME NEW i, Sound(i), NEW j, IsImage(j), Held(j), Room(j), NEW p \in Inodes,
         \A x \in Inodes \ {p} : /\ SameView(i, j, x)
                                 /\ UsesInto(i, x, DataBits(j)) /\ ListsInto(i, x, InodeBits(j)),
         OwnUses(i, j, p), OwnEntries(i, j, p)
  PROVE  Sound(j)
<1>1. UsesApart(i) /\ ListsApart(i)
  BY SoundView
<1>2. \A x \in Inodes \ {p} :
        /\ \A k : Uses(j, x, k) <=> Uses(i, x, k)
        /\ \A k : Uses(i, x, k) => BlockAt(j, x, k) = BlockAt(i, x, k)
        /\ \A k : Lists(j, x, k) <=> Lists(i, x, k)
        /\ EntriesOf(j, x) = EntriesOf(i, x)
  BY ViewUses DEF SameView
<1>3. UsesApart(j)
  <2>. SUFFICES ASSUME NEW x \in Inodes, NEW y \in Inodes, NEW k, NEW l,
                       Uses(j, x, k), Uses(j, y, l), BlockAt(j, x, k) = BlockAt(j, y, l)
                PROVE  x = y /\ k = l
    BY DEF UsesApart
  <2>1. CASE x = p /\ y = p
    BY <2>1 DEF OwnUses
  <2>2. CASE x = p /\ y # p
    BY <1>2, <2>2 DEF OwnUses
  <2>3. CASE x # p /\ y = p
    BY <1>2, <2>3 DEF OwnUses
  <2>4. CASE x # p /\ y # p
    BY <1>1, <1>2, <2>4 DEF UsesApart
  <2>. QED  BY <2>1, <2>2, <2>3, <2>4
<1>4. ListsApart(j)
  <2>. SUFFICES ASSUME NEW x \in Inodes, NEW y \in Inodes, NEW k, NEW l,
                       Lists(j, x, k), Lists(j, y, l),
                       EntriesOf(j, x)[k].ino = EntriesOf(j, y)[l].ino
                PROVE  x = y /\ k = l
    BY DEF ListsApart
  <2>1. CASE x = p /\ y = p
    BY <2>1 DEF OwnEntries
  <2>2. CASE x = p /\ y # p
    BY <1>2, <2>2 DEF OwnEntries
  <2>3. CASE x # p /\ y = p
    BY <1>2, <2>3 DEF OwnEntries
  <2>4. CASE x # p /\ y # p
    BY <1>1, <1>2, <2>4 DEF ListsApart
  <2>. QED  BY <2>1, <2>2, <2>3, <2>4
<1>5. \A x \in Inodes : UsesInto(j, x, DataBits(j))
  BY <1>2 DEF UsesInto, OwnUses
<1>6. \A x \in Inodes : ListsInto(j, x, InodeBits(j))
  BY <1>2 DEF ListsInto, OwnEntries
<1>. QED  BY <1>3, <1>4, <1>5, <1>6, SoundIff

\* The blocks in use can be counted.
LEMMA UsedBlocksFinite ==
  ASSUME NEW img
  PROVE  IsFiniteSet(UsedBlocks(img)) /\ Cardinality(UsedBlocks(img)) \in Nat
<1>1. IsFiniteSet(Blocks)
  BY DimensionsAssumption, FS_Interval DEF Blocks
<1>2. UsedBlocks(img) \subseteq Blocks
  BY DEF UsedBlocks
<1>3. IsFiniteSet(UsedBlocks(img))
  BY <1>1, <1>2, FS_Subset
<1>. QED  BY <1>3, FS_CardinalityType

\* They are the same where every inode shows the same.
LEMMA UsedBlocksSame ==
  ASSUME NEW i, NEW j, \A x \in Inodes : SameView(i, j, x)
  PROVE  UsedBlocks(j) = UsedBlocks(i)
<1>1. \A x \in Inodes : /\ \A k : Uses(j, x, k) <=> Uses(i, x, k)
                        /\ \A k : Uses(i, x, k) => BlockAt(j, x, k) = BlockAt(i, x, k)
                        /\ BlocksOf(j, x) = BlocksOf(i, x)
  BY ViewUses DEF SameView
<1>. QED  BY <1>1 DEF UsedBlocks

\* The same view of every inode, and no bit lost.
LEMMA SoundSame ==
  ASSUME NEW i, Sound(i), NEW j, IsImage(j), Held(j),
         \A x \in Inodes : SameView(i, j, x),
         DataBits(i) \subseteq DataBits(j), InodeBits(i) \subseteq InodeBits(j),
         j.available["blocks"] <= i.available["blocks"]
  PROVE  Sound(j)
<1>1. UsesApart(i) /\ ListsApart(i) /\ Room(i) /\ IsImage(i)
      /\ \A x \in Inodes : UsesInto(i, x, DataBits(i)) /\ ListsInto(i, x, InodeBits(i))
  BY SoundView
<1>2. \A x \in Inodes :
        /\ \A k : Uses(j, x, k) <=> Uses(i, x, k)
        /\ \A k : Uses(i, x, k) => BlockAt(j, x, k) = BlockAt(i, x, k)
        /\ \A k : Lists(j, x, k) <=> Lists(i, x, k)
        /\ EntriesOf(j, x) = EntriesOf(i, x)
  BY ViewUses DEF SameView
<1>3. UsesApart(j)
  BY <1>1, <1>2 DEF UsesApart
<1>4. ListsApart(j)
  BY <1>1, <1>2 DEF ListsApart
<1>5. \A x \in Inodes : UsesInto(j, x, DataBits(j))
  BY <1>1, <1>2 DEF UsesInto
<1>6. \A x \in Inodes : ListsInto(j, x, InodeBits(j))
  BY <1>1, <1>2 DEF ListsInto
<1>7. Room(j)
  <2>1. UsedBlocks(j) = UsedBlocks(i)
    BY UsedBlocksSame
  <2>2. i.available["blocks"] \in Int /\ j.available["blocks"] \in Int
    BY <1>1, ImageTypes
  <2>. QED  BY <1>1, <2>1, <2>2, UsedBlocksFinite, DimensionsAssumption DEF Room
<1>. QED  BY <1>3, <1>4, <1>5, <1>6, <1>7, SoundIff

-----------------------------------------------------------------------------
(* A stretch of a trace. *)

\* A is the trace of stores from img, all of it images.
Traced(A, img, stores) ==
    /\ IsTrace(A, img, stores) /\ Len(stores) \in Nat
    /\ \A k \in 0 .. Len(stores) : IsImage(A[k])

\* A place stays in a set when every store into it does.
LEMMA PlaceWithin ==
  ASSUME NEW A, NEW img, NEW stores, Traced(A, img, stores),
         NEW f \in Fields, NEW x \in FieldDomain[f], NEW T,
         NEW c \in 0 .. Len(stores), NEW e \in c .. Len(stores), A[c][f][x] \in T,
         \A j \in c + 1 .. e : Writes(stores[j], f, x) => stores[j][f][2] \in T
  PROVE  \A k \in c .. e : A[k][f][x] \in T
<1>. DEFINE Bad == {k \in c .. e : A[k][f][x] \notin T}
<1>. SUFFICES ASSUME Bad # {} PROVE FALSE
  BY DEF Bad
<1>1. Bad \in SUBSET Nat
  OBVIOUS
<1>2. PICK k \in Bad : \A j \in Bad : k <= j
  <2>. HIDE DEF Bad
  <2>. QED  BY <1>1, LeastOf
<1>3. k # c
  BY <1>2
<1>. USE DEF Traced
<1>4. /\ k - 1 \in c .. e /\ k - 1 \notin Bad /\ k \in 1 .. Len(stores) /\ k \in c + 1 .. e
      /\ k - 1 \in 0 .. Len(stores)
  BY <1>2, <1>3
<1>5. A[k] = Made(A[k - 1], stores[k])
  BY <1>4, TraceSteps
<1>6. A[k - 1][f][x] \in T
  BY <1>4
<1>7. A[k][f][x] \in T
  BY <1>4, <1>5, <1>6, MadeAt
<1>. QED  BY <1>2, <1>7

\* s leaves what img shows of x.
QuietFor(img, s, x) ==
    /\ Writes(s, "extent_num", x) => s["extent_num"][2] = img.extent_num[x]
    /\ img.extent_num[x] > 0 =>
         /\ ~Writes(s, "indirect_pt", x) /\ ~Writes(s, "num_dir_entry", x)
         /\ \A k \in 0 .. img.extent_num[x] - 1 :
               /\ ~Writes(s, "start", <<img.indirect_pt[x], k>>)
               /\ ~Writes(s, "count", <<img.indirect_pt[x], k>>)
    /\ \A k : Lists(img, x, k) => ~Writes(s, "dentry", Slot(BlocksOf(img, x), k))

\* An image keeps what an earlier one shows of x over stores that leave it.
LEMMA KeepsRun ==
  ASSUME NEW A, NEW img, NEW stores, Traced(A, img, stores),
         NEW c \in 0 .. Len(stores), NEW e \in c .. Len(stores), Held(A[c]),
         NEW x \in Inodes, UsesInto(A[c], x, Blocks),
         \A j \in c + 1 .. e : QuietFor(A[c], stores[j], x)
  PROVE  \A k \in c .. e : Keeps(A[c], A[k], x)
<1>. DEFINE B == A[c]
<1>1. IsImage(B)
  BY DEF Traced
<1>2. ASSUME NEW f \in Fields, NEW y \in FieldDomain[f],
             \A j \in c + 1 .. e : Writes(stores[j], f, y) => stores[j][f][2] = B[f][y]
      PROVE  \A k \in c .. e : A[k][f][y] = B[f][y]
  <2>. DEFINE T == {B[f][y]}
  <2>1. A[c][f][y] \in T /\ \A j \in c + 1 .. e : Writes(stores[j], f, y) => stores[j][f][2] \in T
    BY <1>2
  <2>2. \A k \in c .. e : A[k][f][y] \in T
    <3>. HIDE DEF T
    <3>. QED  BY <2>1, PlaceWithin
  <2>. QED  BY <2>2
<1>. HIDE DEF B
<1>3. /\ x \in FieldDomain["extent_num"] /\ x \in FieldDomain["indirect_pt"]
      /\ x \in FieldDomain["num_dir_entry"]
      /\ FieldDomain["start"] = Blocks \X Extents /\ FieldDomain["count"] = Blocks \X Extents
      /\ FieldDomain["dentry"] = Blocks \X Slots
      /\ {"extent_num", "indirect_pt", "num_dir_entry", "start", "count", "dentry"} \subseteq Fields
  BY FieldNames DEF FieldDomain
<1>4. ASSUME NEW j \in c + 1 .. e
      PROVE  QuietFor(B, stores[j], x)
  BY DEF B
<1>5. ASSUME NEW k \in c .. e
      PROVE  A[k].extent_num[x] = B.extent_num[x]
  <2>. DEFINE f == "extent_num"
  <2>1. \A j \in c + 1 .. e : Writes(stores[j], f, x) => stores[j][f][2] = B[f][x]
    BY <1>4 DEF QuietFor
  <2>2. f \in Fields /\ x \in FieldDomain[f]
    BY <1>3
  <2>3. A[k][f][x] = B[f][x]
    <3>. HIDE DEF f
    <3>. QED  BY <1>2, <2>1, <2>2
  <2>. QED  BY <2>3
<1>6. ASSUME NEW k \in c .. e, B.extent_num[x] > 0
      PROVE  /\ A[k].indirect_pt[x] = B.indirect_pt[x]
             /\ A[k].num_dir_entry[x] = B.num_dir_entry[x]
  <2>1. ASSUME NEW f \in {"indirect_pt", "num_dir_entry"}
        PROVE  A[k][f][x] = B[f][x]
    <3>1. \A j \in c + 1 .. e : ~Writes(stores[j], f, x)
      BY <1>4, <1>6 DEF QuietFor
    <3>2. f \in Fields /\ x \in FieldDomain[f]
      BY <1>3
    <3>. QED  BY <1>2, <3>1, <3>2
  <2>. QED  BY <2>1
<1>7. ASSUME NEW k \in c .. e, B.extent_num[x] > 0, NEW n \in 0 .. B.extent_num[x] - 1
      PROVE  LET y == <<B.indirect_pt[x], n>>
             IN  A[k].start[y] = B.start[y] /\ A[k].count[y] = B.count[y]
  <2>. DEFINE y == <<B.indirect_pt[x], n>>
  <2>1. y \in Blocks \X Extents
    <3>1. B.indirect_pt[x] \in Blocks
      BY <1>7 DEF Held, B
    <3>2. n \in Extents
      BY <1>1, ImageTypes, DimensionsAssumption DEF Extents
    <3>. QED  BY <3>1, <3>2
  <2>2. ASSUME NEW f \in {"start", "count"}
        PROVE  A[k][f][y] = B[f][y]
    <3>1. \A j \in c + 1 .. e : ~Writes(stores[j], f, y)
      BY <1>4, <1>7 DEF QuietFor
    <3>2. f \in Fields /\ y \in FieldDomain[f]
      BY <1>3, <2>1
    <3>. HIDE DEF y
    <3>. QED  BY <1>2, <3>1, <3>2
  <2>. HIDE DEF y
  <2>3. A[k].start[y] = B.start[y] /\ A[k].count[y] = B.count[y]
    BY <2>2
  <2>. QED  BY <2>3 DEF y
<1>8. ASSUME NEW k \in c .. e, NEW n, Lists(B, x, n)
      PROVE  A[k].dentry[Slot(BlocksOf(B, x), n)] = B.dentry[Slot(BlocksOf(B, x), n)]
  <2>. DEFINE y == Slot(BlocksOf(B, x), n)
  <2>1. y \in Blocks \X Slots
    <3>1. BlocksOf(B, x) \in Seq(Blocks) /\ (BlocksOf(B, x) # <<>> => B.num_dir_entry[x] > 0)
      BY <1>1, ViewOf DEF B
    <3>2. \A m \in 1 .. Len(EntriesOf(B, x)) : Slot(BlocksOf(B, x), m) \in Blocks \X Slots
      BY <1>1, <3>1, EntriesView
    <3>. QED  BY <1>8, <3>2 DEF Lists
  <2>. DEFINE f == "dentry"
  <2>2. \A j \in c + 1 .. e : ~Writes(stores[j], f, y)
    BY <1>4, <1>8 DEF QuietFor
  <2>3. f \in Fields /\ y \in FieldDomain[f]
    BY <1>3, <2>1
  <2>4. A[k][f][y] = B[f][y]
    <3>. HIDE DEF f, y
    <3>. QED  BY <1>2, <2>2, <2>3
  <2>. QED  BY <2>4
<1>9. ASSUME NEW k \in c .. e
      PROVE  Keeps(B, A[k], x)
  BY <1>5, <1>6, <1>7, <1>8 DEF Keeps, KeepsExtents, KeepsEntries
<1>. QED  BY <1>9 DEF B

\* A store that changes nothing that img shows, and takes no bit away.
Calm(img, s) ==
    /\ \A x \in Inodes : QuietFor(img, s, x)
    /\ \A x \in Inodes : Writes(s, "inodeBit", x) => s["inodeBit"][2] = TRUE
    /\ \A b \in Blocks : Writes(s, "dataBit", b) => s["dataBit"][2] = TRUE
    /\ Writes(s, "available", "blocks") => s["available"][2] <= img.available["blocks"]
    /\ \A x \in Inodes : img.extent_num[x] > 0 /\ Writes(s, "size", x) => s["size"][2] > 0

\* Inodes that keep their extents are still held.
LEMMA HeldKept ==
  ASSUME NEW i, IsImage(i), Held(i), NEW j, IsImage(j),
         \A x \in Inodes : /\ KeepsExtents(i, j, x)
                           /\ i.extent_num[x] > 0 => /\ j.inodeBit[x] /\ j.size[x] > 0
                                                     /\ j.num_dir_entry[x] > 0
  PROVE  Held(j)
<1>. SUFFICES ASSUME NEW x \in Inodes, j.extent_num[x] > 0
              PROVE  /\ j.inodeBit[x] /\ j.size[x] > 0 /\ j.num_dir_entry[x] > 0
                     /\ j.indirect_pt[x] \in Blocks
                     /\ \A k \in 0 .. j.extent_num[x] - 1 : j.count[<<j.indirect_pt[x], k>>] > 0
  BY DEF Held
<1>1. /\ i.extent_num[x] > 0 /\ j.extent_num[x] = i.extent_num[x]
      /\ j.indirect_pt[x] = i.indirect_pt[x]
      /\ \A k \in 0 .. i.extent_num[x] - 1 :
            j.count[<<i.indirect_pt[x], k>>] = i.count[<<i.indirect_pt[x], k>>]
  BY DEF KeepsExtents
<1>2. /\ i.indirect_pt[x] \in Blocks
      /\ \A k \in 0 .. i.extent_num[x] - 1 : i.count[<<i.indirect_pt[x], k>>] > 0
  BY <1>1 DEF Held
<1>. QED  BY <1>1, <1>2

\* Calm stores keep an image sound and what it shows.
LEMMA CalmRun ==
  ASSUME NEW A, NEW img, NEW stores, Traced(A, img, stores),
         NEW c \in 0 .. Len(stores), NEW e \in c .. Len(stores), Sound(A[c]),
         \A j \in c + 1 .. e : Calm(A[c], stores[j])
  PROVE  \A k \in c .. e :
           /\ Sound(A[k])
           /\ \A x \in Inodes : Keeps(A[c], A[k], x) /\ SameView(A[c], A[k], x)
           /\ InodeBits(A[c]) \subseteq InodeBits(A[k]) /\ DataBits(A[c]) \subseteq DataBits(A[k])
<1>. DEFINE B == A[c]
<1>1. /\ IsImage(B) /\ Held(B)
      /\ \A x \in Inodes : UsesInto(B, x, Blocks)
  BY SoundView
<1>2. \A k \in c .. e : IsImage(A[k])
  BY DEF Traced
<1>3. \A x \in Inodes : \A k \in c .. e : Keeps(B, A[k], x)
  <2>. SUFFICES ASSUME NEW x \in Inodes PROVE \A k \in c .. e : Keeps(A[c], A[k], x)
    OBVIOUS
  <2>1. \A j \in c + 1 .. e : QuietFor(A[c], stores[j], x)
    BY DEF Calm
  <2>2. Held(A[c]) /\ UsesInto(A[c], x, Blocks)
    BY <1>1
  <2>. HIDE DEF B
  <2>. QED  BY <2>1, <2>2, KeepsRun
<1>4. ASSUME NEW j \in c + 1 .. e
      PROVE  Calm(B, stores[j])
  OBVIOUS
<1>. HIDE DEF B
<1>5. /\ Inodes = FieldDomain["inodeBit"] /\ Blocks = FieldDomain["dataBit"]
      /\ "blocks" \in FieldDomain["available"] /\ Inodes = FieldDomain["size"]
      /\ {"inodeBit", "dataBit", "available", "size"} \subseteq Fields
  BY FieldNames DEF FieldDomain
<1>6. ASSUME NEW f \in {"inodeBit", "dataBit"}, NEW x \in FieldDomain[f], B[f][x] = TRUE
      PROVE  \A k \in c .. e : A[k][f][x] = TRUE
  <2>. DEFINE T == {TRUE}
  <2>1. \A j \in c + 1 .. e : Writes(stores[j], f, x) => stores[j][f][2] \in T
    BY <1>4, <1>5 DEF Calm
  <2>2. A[c][f][x] \in T /\ f \in Fields
    BY <1>5, <1>6 DEF B
  <2>3. \A k \in c .. e : A[k][f][x] \in T
    <3>. HIDE DEF T
    <3>. QED  BY <2>1, <2>2, PlaceWithin
  <2>. QED  BY <2>3
<1>7. \A k \in c .. e : InodeBits(B) \subseteq InodeBits(A[k]) /\ DataBits(B) \subseteq DataBits(A[k])
  <2>1. \A x \in Inodes : B.inodeBit[x] => \A k \in c .. e : A[k].inodeBit[x]
    <3>. SUFFICES ASSUME NEW x \in Inodes, B.inodeBit[x] PROVE \A k \in c .. e : A[k].inodeBit[x]
      OBVIOUS
    <3>1. B["inodeBit"][x] = TRUE
      BY <1>1, ImageTypes
    <3>. QED  BY <1>5, <1>6, <3>1
  <2>2. \A x \in Blocks : B.dataBit[x] => \A k \in c .. e : A[k].dataBit[x]
    <3>. SUFFICES ASSUME NEW x \in Blocks, B.dataBit[x] PROVE \A k \in c .. e : A[k].dataBit[x]
      OBVIOUS
    <3>1. B["dataBit"][x] = TRUE
      BY <1>1, ImageTypes
    <3>. QED  BY <1>5, <1>6, <3>1
  <2>. QED  BY <2>1, <2>2 DEF InodeBits, DataBits
<1>8. \A k \in c .. e : A[k].available["blocks"] <= B.available["blocks"]
  <2>. DEFINE a == B.available["blocks"]
              T == {y \in Int : y <= a}
              f == "available"
              x == "blocks"
  <2>0. a \in Int
    BY <1>1, ImageTypes
  <2>1. \A j \in c + 1 .. e : Writes(stores[j], f, x) => stores[j][f][2] <= a
    BY <1>4 DEF Calm
  <2>2. \A k \in c .. e : A[k][f][x] \in Int
    BY <1>2, ImageTypes
  <2>3. \A k \in c .. e : A[k][f][x] <= a
    <3>. DEFINE U == {y : y \in {z \in Int : z <= a}}
    <3>. SUFFICES ASSUME NEW k \in c .. e PROVE A[k][f][x] <= a
      OBVIOUS
    <3>1. \A j \in c + 1 .. k : ~(Writes(stores[j], f, x) /\ ~(stores[j][f][2] <= a))
      BY <2>1
    <3>. DEFINE P == {v \in {A[j][f][x] : j \in c .. e} \cup {stores[j][f][2] : j \in c + 1 .. e} : v <= a}
    <3>2. A[c][f][x] \in P
      <4>1. A[c][f][x] <= a
        BY <2>0 DEF B
      <4>. QED  BY <4>1
    <3>3. \A j \in c + 1 .. e : Writes(stores[j], f, x) => stores[j][f][2] \in P
      BY <2>1
    <3>4. f \in Fields /\ x \in FieldDomain[f]
      BY <1>5
    <3>5. A[k][f][x] \in P
      <4>. HIDE DEF P, f, x
      <4>. QED  BY <3>2, <3>3, <3>4, PlaceWithin
    <3>. QED  BY <3>5
  <2>. QED  BY <2>3
<1>9. ASSUME NEW x \in Inodes, B.extent_num[x] > 0
      PROVE  \A k \in c .. e : A[k].size[x] > 0
  <2>. DEFINE f == "size"
              P == {v \in {A[j][f][x] : j \in c .. e} \cup {stores[j][f][2] : j \in c + 1 .. e} : v > 0}
  <2>1. A[c][f][x] \in P
    BY <1>1, <1>9 DEF Held, B
  <2>2. \A j \in c + 1 .. e : Writes(stores[j], f, x) => stores[j][f][2] \in P
    BY <1>4, <1>9 DEF Calm
  <2>3. f \in Fields /\ x \in FieldDomain[f]
    BY <1>5
  <2>4. \A k \in c .. e : A[k][f][x] \in P
    <3>. HIDE DEF P, f
    <3>. QED  BY <2>1, <2>2, <2>3, PlaceWithin
  <2>. QED  BY <2>4
<1>10. ASSUME NEW k \in c .. e
       PROVE  Held(A[k])
  <2>1. \A x \in Inodes : B.extent_num[x] > 0 =>
           A[k].inodeBit[x] /\ A[k].size[x] > 0 /\ A[k].num_dir_entry[x] > 0
    <3>. SUFFICES ASSUME NEW x \in Inodes, B.extent_num[x] > 0
                  PROVE  A[k].inodeBit[x] /\ A[k].size[x] > 0 /\ A[k].num_dir_entry[x] > 0
      OBVIOUS
    <3>1. B.inodeBit[x] /\ B.num_dir_entry[x] > 0
      BY <1>1 DEF Held
    <3>2. A[k].inodeBit[x]
      BY <1>7, <3>1 DEF InodeBits
    <3>3. A[k].num_dir_entry[x] > 0
      BY <1>3, <3>1 DEF Keeps
    <3>. QED  BY <1>9, <3>2, <3>3
  <2>2. \A x \in Inodes : KeepsExtents(B, A[k], x)
    BY <1>3 DEF Keeps
  <2>. QED  BY <1>1, <1>2, <2>1, <2>2, HeldKept
<1>11. ASSUME NEW k \in c .. e
       PROVE  Sound(A[k]) /\ \A x \in Inodes : SameView(B, A[k], x)
  <2>1. \A x \in Inodes : SameView(B, A[k], x)
    BY <1>1, <1>2, <1>3, KeptView
  <2>2. Sound(B)
    BY DEF B
  <2>. QED  BY <1>2, <1>7, <1>8, <1>10, <2>1, <2>2, SoundSame
<1>. QED  BY <1>3, <1>7, <1>11 DEF B

-----------------------------------------------------------------------------
(* The stores that show a block or an entry more. *)

\* A number is its quotient and its remainder.
LEMMA DivMod ==
  ASSUME NEW d \in Nat, d > 0, NEW k \in Nat
  PROVE  k \div d \in Nat /\ k % d \in Nat /\ k = d * (k \div d) + (k % d)
<1>1. k \div d \in Nat /\ k % d \in Nat
  OBVIOUS
<1>2. k = d * (k \div d) + (k % d)
  OBVIOUS
<1>. QED  BY <1>1, <1>2

\* Two slots of blocks in use are the same slot of the same directory only.
LEMMA SlotOnce ==
  ASSUME NEW img, Sound(img), NEW d \in Inodes, NEW e \in Inodes,
         NEW k \in 1 .. D * Len(BlocksOf(img, d)), NEW l \in 1 .. D * Len(BlocksOf(img, e)),
         Slot(BlocksOf(img, d), k) = Slot(BlocksOf(img, e), l)
  PROVE  d = e /\ k = l
<1>. DEFINE n == Len(BlocksOf(img, d))
            m == Len(BlocksOf(img, e))
            a == (k - 1) \div D + 1
            b == (l - 1) \div D + 1
<1>1. n \in Nat /\ m \in Nat /\ D \in Nat /\ D > 1
  BY SoundView, LenProperties, DimensionsAssumption DEF D
<1>2. a \in 1 .. n /\ b \in 1 .. m
  <2>1. \A y \in Nat : \A z \in 1 .. D * y : (z - 1) \div D + 1 \in 1 .. y
    BY SlotOfEntry
  <2>2. k \in 1 .. D * n /\ l \in 1 .. D * m
    OBVIOUS
  <2>. HIDE DEF n, m
  <2>. QED  BY <1>1, <2>1, <2>2
<1>3. BlocksOf(img, d)[a] = BlocksOf(img, e)[b] /\ (k - 1) % D = (l - 1) % D
  BY DEF Slot
<1>4. Uses(img, d, a) /\ Uses(img, e, b)
  <2>1. img.extent_num[d] > 0 /\ img.extent_num[e] > 0
    <3>1. BlocksOf(img, d) # <<>> /\ BlocksOf(img, e) # <<>>
      BY <1>1, <1>2, EmptySeq
    <3>. QED  BY <3>1, SoundView
  <2>. HIDE DEF a, b
  <2>. QED  BY <1>1, <1>2, <2>1 DEF Uses
<1>5. BlockAt(img, d, a) = BlockAt(img, e, b)
  <2>1. a # 0 /\ b # 0
    <3>. HIDE DEF a, b, n, m
    <3>. QED  BY <1>1, <1>2
  <2>. QED  BY <1>3, <2>1 DEF BlockAt
<1>6. d = e /\ a = b
  <2>1. UsesApart(img)
    BY SoundView
  <2>. HIDE DEF a, b
  <2>. QED  BY <1>4, <1>5, <2>1 DEF UsesApart
<1>7. k = l
  <2>1. k \in Nat /\ l \in Nat /\ k >= 1 /\ l >= 1
    <3>1. D * n \in Nat /\ D * m \in Nat
      <4>. HIDE DEF n, m
      <4>. QED  BY <1>1
    <3>. QED  BY <3>1
  <2>0. k - 1 \in Nat /\ l - 1 \in Nat
    BY <2>1
  <2>2. /\ k - 1 = D * ((k - 1) \div D) + ((k - 1) % D)
        /\ (k - 1) \div D \in Nat /\ (k - 1) % D \in Nat
    <3>. DEFINE x == k - 1
    <3>1. x = D * (x \div D) + (x % D) /\ x \div D \in Nat /\ x % D \in Nat
      <4>. HIDE DEF x
      <4>. QED  BY <1>1, <2>0, DivMod DEF x
    <3>. QED  BY <3>1
  <2>3. /\ l - 1 = D * ((l - 1) \div D) + ((l - 1) % D)
        /\ (l - 1) \div D \in Nat
    <3>. DEFINE x == l - 1
    <3>1. x = D * (x \div D) + (x % D) /\ x \div D \in Nat
      <4>. HIDE DEF x
      <4>. QED  BY <1>1, <2>0, DivMod DEF x
    <3>. QED  BY <3>1
  <2>4. (k - 1) \div D = (l - 1) \div D
    <3>. DEFINE x == (k - 1) \div D
                y == (l - 1) \div D
    <3>1. x + 1 = y + 1 /\ x \in Nat /\ y \in Nat
      BY <1>6, <2>2, <2>3
    <3>. HIDE DEF x, y
    <3>2. x = y
      BY <3>1
    <3>. QED  BY <3>2 DEF x, y
  <2>. DEFINE q == (k - 1) \div D
              r == (k - 1) % D
  <2>5. k - 1 = D * q + r
    BY <2>2
  <2>6. l - 1 = D * q + r
    BY <1>3, <2>3, <2>4
  <2>. HIDE DEF q, r
  <2>7. k - 1 = l - 1
    BY <2>5, <2>6
  <2>. QED  BY <2>1, <2>7
<1>. QED  BY <1>6, <1>7

\* The fields a store does not name are as they were.
LEMMA MadeOther ==
  ASSUME NEW i, IsImage(i), NEW s, NEW f \in Fields, f \notin DOMAIN s
  PROVE  Made(i, s)[f] = i[f]
BY DEF Made, IsImage

\* The same extents have the same blocks, the first e of them too.
LEMMA SameFirst ==
  ASSUME NEW i, NEW j, NEW ib, NEW e \in Nat,
         \A k \in 0 .. e - 1 : j.start[<<ib, k>>] = i.start[<<ib, k>>]
                               /\ j.count[<<ib, k>>] = i.count[<<ib, k>>]
  PROVE  FirstBlocks(j, ib, e) = FirstBlocks(i, ib, e)
<1>1. \A k \in 1 .. e : SpanOf(j, ib, k) = SpanOf(i, ib, k)
  <2>. SUFFICES ASSUME NEW k \in 1 .. e PROVE SpanOf(j, ib, k) = SpanOf(i, ib, k)
    OBVIOUS
  <2>1. k - 1 \in 0 .. e - 1
    OBVIOUS
  <2>. QED  BY <2>1 DEF SpanOf
<1>2. [k \in 1 .. e |-> SpanOf(j, ib, k)] = [k \in 1 .. e |-> SpanOf(i, ib, k)]
  BY <1>1
<1>. QED  BY <1>2 DEF FirstBlocks

\* The last extent counts a block more: the one after the last.
LEMMA LastExtentGrows ==
  ASSUME NEW i, IsImage(i), NEW j, IsImage(j), NEW ib \in Blocks, NEW e \in 1 .. MaxExtents,
         \A k \in 0 .. e - 2 : j.start[<<ib, k>>] = i.start[<<ib, k>>]
                               /\ j.count[<<ib, k>>] = i.count[<<ib, k>>],
         j.start[<<ib, e - 1>>] = i.start[<<ib, e - 1>>],
         j.count[<<ib, e - 1>>] = i.count[<<ib, e - 1>>] + 1
  PROVE  FirstBlocks(j, ib, e) =
           Append(FirstBlocks(i, ib, e), i.start[<<ib, e - 1>>] + i.count[<<ib, e - 1>>])
<1>. DEFINE c == i.count[<<ib, e - 1>>]
            a == i.start[<<ib, e - 1>>]
            F == FirstBlocks(i, ib, e - 1)
            L == FirstBlocks(i, ib, e)
            M == FirstBlocks(j, ib, e)
<1>1. e \in Nat /\ e - 1 \in Nat /\ (e - 1) - 1 = e - 2
  BY DimensionsAssumption
<1>2. FirstBlocks(j, ib, e - 1) = F
  BY <1>1, SameFirst
<1>3. /\ F \in Seq(Int) /\ L \in Seq(Int) /\ c \in Nat /\ a \in Blocks
      /\ Len(L) = Len(F) + c
      /\ \A k \in 1 .. Len(F) : L[k] = F[k]
      /\ \A k \in 1 .. c : L[Len(F) + k] = a + k - 1
  <2>1. GrowsBy(F, L, a, c)
    BY LastExtent
  <2>. HIDE DEF c, a, F, L
  <2>. QED  BY <2>1 DEF GrowsBy
<1>4. /\ M \in Seq(Int)
      /\ Len(M) = Len(F) + (c + 1)
      /\ \A k \in 1 .. Len(F) : M[k] = F[k]
      /\ \A k \in 1 .. c + 1 : M[Len(F) + k] = a + k - 1
  <2>1. j.count[<<ib, e - 1>>] = c + 1 /\ j.start[<<ib, e - 1>>] = a
    OBVIOUS
  <2>2. GrowsBy(F, M, a, c + 1)
    <3>1. GrowsBy(FirstBlocks(j, ib, e - 1), M, j.start[<<ib, e - 1>>], j.count[<<ib, e - 1>>])
      BY LastExtent
    <3>. HIDE DEF c, a, F, M
    <3>. QED  BY <1>2, <2>1, <3>1
  <2>. HIDE DEF c, a, F, M
  <2>. QED  BY <2>2 DEF GrowsBy
<1>5. Len(F) \in Nat /\ Len(L) \in Nat /\ a \in Int
  BY <1>3, LenProperties DEF Blocks
<1>. HIDE DEF c, a, F, L, M
<1>. DEFINE N == Append(L, a + c)
<1>6. N \in Seq(Int) /\ Len(N) = Len(L) + 1 /\ N[Len(L) + 1] = a + c
      /\ \A k \in 1 .. Len(L) : N[k] = L[k]
  BY <1>3, <1>5, AppendProperties
<1>. HIDE DEF N
<1>7. Len(M) = Len(N)
  BY <1>3, <1>4, <1>5, <1>6
<1>8. ASSUME NEW k \in 1 .. Len(N)
      PROVE  M[k] = N[k]
  <2>1. CASE k <= Len(F)
    <3>1. k \in 1 .. Len(F) /\ k \in 1 .. Len(L)
      BY <1>3, <1>5, <1>6, <2>1
    <3>. QED  BY <1>3, <1>4, <1>6, <3>1
  <2>2. CASE k > Len(F)
    <3>. DEFINE h == k - Len(F)
    <3>1. h \in 1 .. c + 1 /\ k = Len(F) + h
      BY <1>3, <1>5, <1>6, <2>2
    <3>. HIDE DEF h
    <3>2. M[k] = a + h - 1
      BY <1>4, <3>1
    <3>3. CASE h <= c
      <4>1. h \in 1 .. c /\ k \in 1 .. Len(L)
        BY <1>3, <1>5, <3>1, <3>3
      <4>. QED  BY <1>3, <1>6, <3>1, <3>2, <4>1
    <3>4. CASE h = c + 1
      <4>1. k = Len(L) + 1 /\ a + h - 1 = a + c
        BY <1>3, <1>5, <3>1, <3>4
      <4>. QED  BY <1>6, <3>2, <4>1
    <3>. QED  BY <1>3, <3>1, <3>3, <3>4
  <2>. QED  BY <1>5, <1>6, <2>1, <2>2
<1>9. M = N
  BY <1>4, <1>6, <1>7, <1>8, SeqEqual
<1>. QED  BY <1>9 DEF M, N, L, a, c

\* An extent of one block is added.
LEMMA ExtentOfOne ==
  ASSUME NEW i, IsImage(i), NEW j, IsImage(j), NEW ib \in Blocks, NEW e \in 0 .. MaxExtents - 1,
         \A k \in 0 .. e - 1 : j.start[<<ib, k>>] = i.start[<<ib, k>>]
                               /\ j.count[<<ib, k>>] = i.count[<<ib, k>>],
         j.count[<<ib, e>>] = 1
  PROVE  FirstBlocks(j, ib, e + 1) = Append(FirstBlocks(i, ib, e), j.start[<<ib, e>>])
<1>. DEFINE a == j.start[<<ib, e>>]
            F == FirstBlocks(i, ib, e)
            M == FirstBlocks(j, ib, e + 1)
<1>1. e \in Nat /\ e + 1 \in 1 .. MaxExtents /\ (e + 1) - 1 = e
  BY DimensionsAssumption
<1>2. FirstBlocks(j, ib, e) = F
  BY <1>1, SameFirst
<1>3. /\ F \in Seq(Int) /\ M \in Seq(Int) /\ a \in Blocks
      /\ Len(M) = Len(F) + 1
      /\ \A k \in 1 .. Len(F) : M[k] = F[k]
      /\ \A k \in 1 .. 1 : M[Len(F) + k] = a + k - 1
  <2>. DEFINE g == e + 1
  <2>1. g \in 1 .. MaxExtents /\ g - 1 = e
    BY <1>1
  <2>2. j.count[<<ib, g - 1>>] = 1 /\ j.start[<<ib, g - 1>>] = a /\ FirstBlocks(j, ib, g - 1) = F
    BY <1>2, <2>1
  <2>3. M = FirstBlocks(j, ib, g)
    OBVIOUS
  <2>4. GrowsBy(F, M, a, 1)
    <3>1. GrowsBy(FirstBlocks(j, ib, g - 1), FirstBlocks(j, ib, g),
                  j.start[<<ib, g - 1>>], j.count[<<ib, g - 1>>])
      <4>. HIDE DEF g
      <4>. QED  BY <2>1, LastExtent
    <3>. HIDE DEF g, a, F, M
    <3>. QED  BY <2>2, <2>3, <3>1
  <2>. HIDE DEF g, a, F, M
  <2>. QED  BY <2>4 DEF GrowsBy
<1>4. Len(F) \in Nat /\ a \in Int
  BY <1>3, LenProperties DEF Blocks
<1>. HIDE DEF a, F, M
<1>. DEFINE N == Append(F, a)
<1>5. N \in Seq(Int) /\ Len(N) = Len(F) + 1 /\ N[Len(F) + 1] = a
      /\ \A k \in 1 .. Len(F) : N[k] = F[k]
  BY <1>3, <1>4, AppendProperties
<1>. HIDE DEF N
<1>6. M[Len(F) + 1] = a
  <2>1. M[Len(F) + 1] = a + 1 - 1
    BY <1>3
  <2>. QED  BY <1>4, <2>1
<1>7. \A k \in 1 .. Len(N) : M[k] = N[k]
  <2>. SUFFICES ASSUME NEW k \in 1 .. Len(N) PROVE M[k] = N[k]
    OBVIOUS
  <2>1. k \in 1 .. Len(F) \/ k = Len(F) + 1
    BY <1>4, <1>5
  <2>. QED  BY <1>3, <1>5, <1>6, <2>1
<1>8. M = N
  BY <1>3, <1>5, <1>7, SeqEqual
<1>. QED  BY <1>8 DEF M, N, F, a

\* What a block more leaves of the slots before it.
LEMMA SlotGrows ==
  ASSUME NEW bs \in Seq(Blocks), NEW b \in Blocks, NEW k \in 1 .. D * Len(bs)
  PROVE  /\ Slot(Append(bs, b), k) = Slot(bs, k)
         /\ k \in 1 .. D * Len(Append(bs, b))
<1>. DEFINE n == Len(bs)
            a == (k - 1) \div D + 1
<1>1. n \in Nat /\ D \in Nat /\ D > 1
  BY LenProperties, DimensionsAssumption DEF D
<1>2. a \in 1 .. n
  <2>. HIDE DEF n
  <2>1. k \in 1 .. D * n
    BY DEF n
  <2>. QED  BY <1>1, <2>1, SlotOfEntry
<1>3. Append(bs, b)[a] = bs[a] /\ Len(Append(bs, b)) = n + 1
  <2>. HIDE DEF a
  <2>. QED  BY <1>2, AppendProperties
<1>4. k \in 1 .. D * (n + 1)
  <2>1. D * (n + 1) = D * n + D /\ D * n \in Nat
    <3>. HIDE DEF n
    <3>. QED  BY <1>1
  <2>. QED  BY <1>1, <2>1
<1>. HIDE DEF n
<1>. QED  BY <1>3, <1>4 DEF Slot

\* es are the entries that n of them counted show in the blocks bs.
ShownBy(es, bs, n, dentry) ==
    /\ bs \in Seq(Blocks) /\ Len(bs) \in Nat /\ Len(bs) > 0 /\ bs # <<>>
    /\ es \in Seq(Entry) /\ Len(es) \in Nat /\ n \in Nat /\ D * Len(bs) \in Nat
    /\ n <= D * Len(bs) => Len(es) = n
    /\ n > D * Len(bs) => Len(es) = D * Len(bs)
    /\ \A k \in 1 .. Len(es) : /\ es[k] = dentry[Slot(bs, k)]
                               /\ Slot(bs, k) \in Blocks \X Slots
                               /\ k \in 1 .. D * Len(bs)

\* A directory with blocks shows the entries those hold.
LEMMA EntriesAre ==
  ASSUME NEW img, IsImage(img), Held(img), NEW d \in Inodes, UsesInto(img, d, Blocks),
         img.extent_num[d] > 0
  PROVE  ShownBy(EntriesOf(img, d), BlocksOf(img, d), img.num_dir_entry[d], img.dentry)
<1>. DEFINE bs == BlocksOf(img, d)
            es == EntriesOf(img, d)
            n  == img.num_dir_entry[d]
            room == D * Len(bs)
<1>1. bs \in Seq(Blocks) /\ bs # <<>> /\ n > 0 /\ Len(bs) \in Nat /\ Len(bs) > 0
  <2>1. bs \in Seq(Blocks) /\ bs # <<>> /\ n > 0
    BY ViewOf
  <2>. QED  BY <2>1, LenProperties, EmptySeq
<1>2. n \in Nat /\ room \in Nat
  <2>1. D \in Nat
    BY DimensionsAssumption DEF D
  <2>. HIDE DEF bs
  <2>. QED  BY <1>1, <2>1, ImageTypes
<1>3. /\ es \in Seq(Entry)
      /\ Len(es) = IF n <= D * Len(bs) THEN (IF bs = <<>> THEN 0 ELSE n) ELSE D * Len(bs)
      /\ \A k \in 1 .. Len(es) : es[k] = img.dentry[Slot(bs, k)]
      /\ \A k \in 1 .. Len(es) : Slot(bs, k) \in Blocks \X Slots
  BY <1>1, EntriesView
<1>4. Len(es) \in Nat
  BY <1>3, LenProperties
<1>. HIDE DEF n, es
<1>5. (n <= room => Len(es) = n) /\ (n > room => Len(es) = room)
  <2>1. room = D * Len(bs)
    OBVIOUS
  <2>. HIDE DEF room, bs
  <2>. QED  BY <1>1, <1>2, <1>3, <2>1
<1>. HIDE DEF room
<1>6. \A k \in 1 .. Len(es) : k \in 1 .. room
  BY <1>2, <1>4, <1>5
<1>. QED  BY <1>1, <1>2, <1>3, <1>4, <1>5, <1>6 DEF n, es, room, ShownBy

\* The blocks in use are those of each inode.
LEMMA UsedBlocksOf ==
  ASSUME NEW img
  PROVE  /\ \A x \in Inodes : \A k : Uses(img, x, k) /\ BlockAt(img, x, k) \in Blocks
                                        => BlockAt(img, x, k) \in UsedBlocks(img)
         /\ \A b \in UsedBlocks(img) : \E x \in Inodes : \E k : Uses(img, x, k) /\ BlockAt(img, x, k) = b
BY DEF UsedBlocks, Uses

\* A directory in a sound image gets one block more.
LEMMA GrewByOne ==
  ASSUME NEW i, Sound(i), NEW j, IsImage(j), Held(j), NEW p \in Inodes,
         i.extent_num[p] > 0, j.extent_num[p] > 0, j.indirect_pt[p] = i.indirect_pt[p],
         NEW b \in Blocks, BlocksOf(j, p) = Append(BlocksOf(i, p), b),
         b \in DataBits(j), b \notin UsedBlocks(i),
         DataBits(i) \subseteq DataBits(j), InodeBits(i) \subseteq InodeBits(j),
         \A x \in Inodes \ {p} : SameView(i, j, x),
         KeepsEntries(i, j, p), j.num_dir_entry[p] = i.num_dir_entry[p],
         i.num_dir_entry[p] <= D * Len(BlocksOf(i, p)),
         j.available["blocks"] + Cardinality(UsedBlocks(i)) < NumBlocks
  PROVE  Sound(j) /\ EntriesOf(j, p) = EntriesOf(i, p)
<1>. DEFINE bs == BlocksOf(i, p)
            cs == BlocksOf(j, p)
            n  == Len(bs)
<1>1. /\ IsImage(i) /\ Held(i) /\ UsesApart(i) /\ ListsApart(i) /\ Room(i)
      /\ \A x \in Inodes : UsesInto(i, x, DataBits(i)) /\ UsesInto(i, x, Blocks)
                           /\ ListsInto(i, x, InodeBits(i))
  BY SoundView
<1>2. bs \in Seq(Blocks) /\ n \in Nat /\ n > 0
  BY <1>1, ViewOf, LenProperties, EmptySeq
<1>3. /\ cs \in Seq(Blocks) /\ Len(cs) = n + 1 /\ cs[n + 1] = b
      /\ \A k \in 1 .. n : cs[k] = bs[k]
  <2>. HIDE DEF bs
  <2>1. cs = Append(bs, b)
    BY DEF bs
  <2>. HIDE DEF cs
  <2>. QED  BY <1>2, <2>1, AppendProperties
<1>4. \A k : Uses(j, p, k) =>
         /\ Uses(i, p, k) \/ k = n + 1
         /\ Uses(i, p, k) => BlockAt(j, p, k) = BlockAt(i, p, k)
         /\ k = n + 1 => BlockAt(j, p, k) = b
  <2>. SUFFICES ASSUME NEW k, Uses(j, p, k)
                PROVE  /\ Uses(i, p, k) \/ k = n + 1
                       /\ Uses(i, p, k) => BlockAt(j, p, k) = BlockAt(i, p, k)
                       /\ k = n + 1 => BlockAt(j, p, k) = b
    OBVIOUS
  <2>1. k \in 0 .. n + 1
    BY <1>3 DEF Uses
  <2>2. Uses(i, p, k) \/ k = n + 1
    BY <1>2, <2>1 DEF Uses
  <2>3. ASSUME Uses(i, p, k)
        PROVE  BlockAt(j, p, k) = BlockAt(i, p, k)
    <3>1. k = 0 \/ k \in 1 .. n
      BY <1>2, <2>1, <2>3 DEF Uses
    <3>. QED  BY <1>3, <3>1 DEF BlockAt
  <2>4. ASSUME k = n + 1
        PROVE  BlockAt(j, p, k) = b
    BY <1>2, <1>3, <2>4 DEF BlockAt
  <2>. QED  BY <2>2, <2>3, <2>4
<1>5. \A x \in Inodes : \A k : Uses(i, x, k) => BlockAt(i, x, k) # b
  BY <1>1, UsedBlocksOf DEF UsesInto
<1>6. UsesInto(j, p, Blocks)
  BY <1>1, <1>4 DEF UsesInto
<1>7. EntriesOf(j, p) = EntriesOf(i, p)
  <2>. DEFINE m == i.num_dir_entry[p]
              es == EntriesOf(i, p)
              fs == EntriesOf(j, p)
  <2>1. ShownBy(es, bs, m, i.dentry) /\ ShownBy(fs, cs, m, j.dentry)
    <3>1. ShownBy(EntriesOf(j, p), cs, j.num_dir_entry[p], j.dentry)
      BY <1>6, EntriesAre
    <3>2. ShownBy(es, bs, m, i.dentry)
      BY <1>1, EntriesAre
    <3>. QED  BY <3>1, <3>2
  <2>2. es \in Seq(Entry) /\ Len(es) = m
    <3>1. m <= D * n
      OBVIOUS
    <3>. HIDE DEF m, es
    <3>. QED  BY <2>1, <3>1 DEF ShownBy
  <2>4. m <= D * Len(cs)
    <3>1. D \in Nat /\ D * (n + 1) = D * n + D /\ D * n \in Nat
      <4>1. D \in Nat
        BY DimensionsAssumption DEF D
      <4>. HIDE DEF n
      <4>. QED  BY <1>2, <4>1
    <3>2. m <= D * n /\ m \in Nat
      BY <1>1, ImageTypes
    <3>. HIDE DEF n, m, cs
    <3>. QED  BY <1>3, <3>1, <3>2
  <2>5. \A k \in 1 .. m : fs[k] = es[k]
    <3>. SUFFICES ASSUME NEW k \in 1 .. m PROVE fs[k] = es[k]
      OBVIOUS
    <3>1. k \in 1 .. Len(es) /\ k \in 1 .. Len(fs)
      <4>. HIDE DEF m, es, fs, bs, cs
      <4>. QED  BY <2>1, <2>2, <2>4 DEF ShownBy
    <3>2. k \in 1 .. D * n /\ es[k] = i.dentry[Slot(bs, k)]
      <4>. HIDE DEF m, es, fs, bs, cs
      <4>. QED  BY <2>1, <3>1 DEF ShownBy
    <3>3. Slot(cs, k) = Slot(bs, k)
      BY <1>2, <3>2, SlotGrows
    <3>4. fs[k] = j.dentry[Slot(bs, k)]
      <4>. HIDE DEF m, es, fs, bs, cs
      <4>. QED  BY <2>1, <3>1, <3>3 DEF ShownBy
    <3>5. j.dentry[Slot(bs, k)] = i.dentry[Slot(bs, k)]
      BY <3>1 DEF KeepsEntries, Lists
    <3>. QED  BY <3>2, <3>4, <3>5
  <2>6. es = fs
    <3>. HIDE DEF m, es, fs, bs, cs
    <3>. QED  BY <2>1, <2>2, <2>4, <2>5, SeqEqual DEF ShownBy
  <2>. QED  BY <2>6 DEF es, fs
<1>8. OwnUses(i, j, p)
  <2>1. UsesInto(j, p, DataBits(j))
    BY <1>1, <1>4 DEF UsesInto
  <2>2. \A k, l : Uses(j, p, k) /\ Uses(j, p, l) /\ BlockAt(j, p, k) = BlockAt(j, p, l) => k = l
    BY <1>1, <1>4, <1>5 DEF UsesApart
  <2>3. \A x \in Inodes \ {p} : \A k, l :
           Uses(j, p, k) /\ Uses(i, x, l) => BlockAt(j, p, k) # BlockAt(i, x, l)
    BY <1>1, <1>4, <1>5 DEF UsesApart
  <2>. QED  BY <2>1, <2>2, <2>3 DEF OwnUses
<1>9. OwnEntries(i, j, p)
  BY <1>1, <1>7 DEF OwnEntries, ListsApart, ListsInto, Lists
<1>10. Room(j)
  <2>1. UsedBlocks(j) \subseteq UsedBlocks(i) \cup {b}
    <3>. SUFFICES ASSUME NEW y \in UsedBlocks(j), y # b PROVE y \in UsedBlocks(i)
      OBVIOUS
    <3>1. PICK x \in Inodes : \E k : Uses(j, x, k) /\ BlockAt(j, x, k) = y
      BY UsedBlocksOf
    <3>2. PICK k : Uses(j, x, k) /\ BlockAt(j, x, k) = y
      BY <3>1
    <3>3. Uses(i, x, k) /\ BlockAt(i, x, k) = y
      <4>1. CASE x = p
        BY <1>4, <3>2, <4>1
      <4>2. CASE x # p
        <5>1. SameView(i, j, x)
          BY <4>2
        <5>. QED  BY <3>2, <5>1, ViewUses
      <4>. QED  BY <4>1, <4>2
    <3>. QED  BY <1>1, <3>3, UsedBlocksOf DEF UsesInto
  <2>. DEFINE u == Cardinality(UsedBlocks(i))
              v == Cardinality(UsedBlocks(j))
              w == Cardinality(UsedBlocks(i) \cup {b})
  <2>2. u \in Nat /\ v \in Nat
    BY UsedBlocksFinite
  <2>3. IsFiniteSet(UsedBlocks(i) \cup {b}) /\ w = u + 1
    BY UsedBlocksFinite, FS_AddElement
  <2>4. v <= w
    BY <2>1, <2>3, FS_Subset
  <2>5. j.available["blocks"] + u < NumBlocks /\ j.available["blocks"] \in Int /\ NumBlocks \in Int
    BY ImageTypes, DimensionsAssumption
  <2>. HIDE DEF u, v, w
  <2>6. j.available["blocks"] + v <= NumBlocks
    BY <2>2, <2>3, <2>4, <2>5
  <2>. QED  BY <2>6 DEF Room, v
<1>11. \A x \in Inodes \ {p} : /\ SameView(i, j, x)
                               /\ UsesInto(i, x, DataBits(j)) /\ ListsInto(i, x, InodeBits(j))
  BY <1>1 DEF UsesInto, ListsInto
<1>. QED  BY <1>7, <1>8, <1>9, <1>10, <1>11, SoundStep

\* The entry at an inode nobody lists, below the entries of p.
Unlisted(i, t) == \A d \in Inodes : \A k : Lists(i, d, k) => EntriesOf(i, d)[k].ino # t

\* A directory in a sound image counts one entry more.
LEMMA ShowEntry ==
  ASSUME NEW i, Sound(i), NEW j, IsImage(j), Held(j), NEW p \in Inodes,
         i.extent_num[p] > 0, KeepsExtents(i, j, p), KeepsEntries(i, j, p),
         i.num_dir_entry[p] < D * Len(BlocksOf(i, p)),
         j.num_dir_entry[p] = i.num_dir_entry[p] + 1,
         NEW e, e = j.dentry[Slot(BlocksOf(i, p), i.num_dir_entry[p] + 1)],
         e.ino \in InodeBits(j), Unlisted(i, e.ino),
         DataBits(i) \subseteq DataBits(j), InodeBits(i) \subseteq InodeBits(j),
         \A x \in Inodes \ {p} : SameView(i, j, x),
         j.available["blocks"] <= i.available["blocks"]
  PROVE  Sound(j) /\ EntriesOf(j, p) = Append(EntriesOf(i, p), e)
<1>. DEFINE bs == BlocksOf(i, p)
            n  == i.num_dir_entry[p]
            es == EntriesOf(i, p)
            fs == EntriesOf(j, p)
<1>1. /\ IsImage(i) /\ Held(i) /\ UsesApart(i) /\ ListsApart(i) /\ Room(i)
      /\ \A x \in Inodes : UsesInto(i, x, DataBits(i)) /\ UsesInto(i, x, Blocks)
                           /\ ListsInto(i, x, InodeBits(i))
  BY SoundView
<1>2. BlocksOf(j, p) = bs
  BY <1>1, KeptBlocks
<1>3. \A k : (Uses(j, p, k) <=> Uses(i, p, k)) /\ (Uses(i, p, k) => BlockAt(j, p, k) = BlockAt(i, p, k))
  BY <1>2 DEF Uses, BlockAt, KeepsExtents
<1>4. UsesInto(j, p, Blocks) /\ j.extent_num[p] > 0
  BY <1>1, <1>3 DEF UsesInto, KeepsExtents
<1>5. ShownBy(es, bs, n, i.dentry) /\ ShownBy(fs, bs, n + 1, j.dentry)
  <2>1. ShownBy(fs, BlocksOf(j, p), j.num_dir_entry[p], j.dentry)
    BY <1>4, EntriesAre
  <2>2. ShownBy(es, bs, n, i.dentry)
    BY <1>1, EntriesAre
  <2>. QED  BY <1>2, <2>1, <2>2
<1>6. n < D * Len(bs) /\ e = j.dentry[Slot(bs, n + 1)]
  OBVIOUS
<1>7. \A k \in 1 .. Len(es) : j.dentry[Slot(bs, k)] = i.dentry[Slot(bs, k)]
  BY DEF KeepsEntries, Lists
<1>8. n \in Nat /\ es \in Seq(Entry) /\ fs \in Seq(Entry) /\ Len(es) = n /\ Len(fs) = n + 1
  <2>. HIDE DEF n, es, fs, bs
  <2>1. n \in Nat /\ D * Len(bs) \in Nat
    BY <1>5 DEF ShownBy
  <2>2. n <= D * Len(bs) /\ n + 1 <= D * Len(bs)
    BY <1>6, <2>1
  <2>. QED  BY <1>5, <2>1, <2>2 DEF ShownBy
<1>9. fs[n + 1] = e /\ \A k \in 1 .. n : fs[k] = es[k]
  <2>. HIDE DEF n, es, fs, bs
  <2>1. fs[n + 1] = e
    BY <1>5, <1>6, <1>8 DEF ShownBy
  <2>2. ASSUME NEW k \in 1 .. n
        PROVE  fs[k] = es[k]
    <3>1. k \in 1 .. Len(es) /\ k \in 1 .. Len(fs)
      BY <1>8
    <3>. QED  BY <1>5, <1>7, <3>1 DEF ShownBy
  <2>. QED  BY <2>1, <2>2
<1>10. e \in Entry
  BY <1>8, <1>9
<1>11. fs = Append(es, e)
  <2>. DEFINE gs == Append(es, e)
  <2>1. gs \in Seq(Entry) /\ Len(gs) = n + 1 /\ gs[n + 1] = e /\ \A k \in 1 .. n : gs[k] = es[k]
    <3>. HIDE DEF n, es, fs, bs
    <3>. QED  BY <1>8, <1>10, AppendProperties
  <2>2. \A k \in 1 .. n + 1 : fs[k] = gs[k]
    <3>. HIDE DEF n, es, fs, bs, gs
    <3>. SUFFICES ASSUME NEW k \in 1 .. n + 1 PROVE fs[k] = gs[k]
      OBVIOUS
    <3>1. k \in 1 .. n \/ k = n + 1
      BY <1>8
    <3>. QED  BY <1>9, <2>1, <3>1
  <2>. HIDE DEF n, es, fs, bs, gs
  <2>3. fs = gs
    BY <1>8, <2>1, <2>2, SeqEqual
  <2>. QED  BY <2>3 DEF gs
<1>12. \A k : Lists(j, p, k) => /\ Lists(i, p, k) \/ k = n + 1
                                /\ Lists(i, p, k) => fs[k] = es[k]
                                /\ k = n + 1 => fs[k] = e
  <2>. SUFFICES ASSUME NEW k, Lists(j, p, k)
                PROVE  /\ Lists(i, p, k) \/ k = n + 1
                       /\ Lists(i, p, k) => fs[k] = es[k]
                       /\ k = n + 1 => fs[k] = e
    OBVIOUS
  <2>1. k \in 1 .. n + 1 /\ (Lists(i, p, k) <=> k \in 1 .. n)
    <3>1. k \in 1 .. Len(fs) /\ (Lists(i, p, k) <=> k \in 1 .. Len(es))
      BY DEF Lists
    <3>. HIDE DEF n, es, fs
    <3>. QED  BY <1>8, <3>1
  <2>. HIDE DEF n, es, fs
  <2>2. k \in 1 .. n \/ k = n + 1
    BY <1>8, <2>1
  <2>. QED  BY <1>9, <2>1, <2>2
<1>13. OwnUses(i, j, p)
  BY <1>1, <1>3 DEF OwnUses, UsesInto, UsesApart
<1>14. OwnEntries(i, j, p)
  <2>1. ListsInto(j, p, InodeBits(j))
    BY <1>1, <1>12 DEF ListsInto
  <2>2. \A k, l : Lists(j, p, k) /\ Lists(j, p, l) /\ fs[k].ino = fs[l].ino => k = l
    <3>. SUFFICES ASSUME NEW k, NEW l, Lists(j, p, k), Lists(j, p, l), fs[k].ino = fs[l].ino
                  PROVE  k = l
      OBVIOUS
    <3>1. CASE Lists(i, p, k) /\ Lists(i, p, l)
      BY <1>1, <1>12, <3>1 DEF ListsApart
    <3>2. CASE Lists(i, p, k) /\ l = n + 1
      BY <1>12, <3>2 DEF Unlisted
    <3>3. CASE k = n + 1 /\ Lists(i, p, l)
      BY <1>12, <3>3 DEF Unlisted
    <3>. QED  BY <1>12, <3>1, <3>2, <3>3
  <2>3. \A x \in Inodes \ {p} : \A k, l :
           Lists(j, p, k) /\ Lists(i, x, l) => fs[k].ino # EntriesOf(i, x)[l].ino
    <3>. SUFFICES ASSUME NEW x \in Inodes \ {p}, NEW k, NEW l, Lists(j, p, k), Lists(i, x, l),
                         fs[k].ino = EntriesOf(i, x)[l].ino
                  PROVE  FALSE
      OBVIOUS
    <3>1. CASE Lists(i, p, k)
      BY <1>1, <1>12, <3>1 DEF ListsApart
    <3>2. CASE k = n + 1
      BY <1>12, <3>2 DEF Unlisted
    <3>. QED  BY <1>12, <3>1, <3>2
  <2>. QED  BY <2>1, <2>2, <2>3 DEF OwnEntries
<1>15. Room(j)
  <2>1. UsedBlocks(j) = UsedBlocks(i)
    <3>1. \A x \in Inodes : /\ \A k : Uses(j, x, k) <=> Uses(i, x, k)
                            /\ \A k : Uses(i, x, k) => BlockAt(j, x, k) = BlockAt(i, x, k)
                            /\ BlocksOf(j, x) = BlocksOf(i, x)
      BY <1>2, <1>3, ViewUses DEF SameView
    <3>. QED  BY <3>1 DEF UsedBlocks
  <2>2. i.available["blocks"] \in Int /\ j.available["blocks"] \in Int
    BY <1>1, ImageTypes
  <2>. QED  BY <1>1, <2>1, <2>2, UsedBlocksFinite, DimensionsAssumption DEF Room
<1>16. \A x \in Inodes \ {p} : /\ SameView(i, j, x)
                               /\ UsesInto(i, x, DataBits(j)) /\ ListsInto(i, x, InodeBits(j))
  BY <1>1 DEF UsesInto, ListsInto
<1>. QED  BY <1>11, <1>13, <1>14, <1>15, <1>16, SoundStep

\* An inode without extents shows nothing.
LEMMA NothingShown ==
  ASSUME NEW i, Sound(i), NEW p \in Inodes, i.extent_num[p] = 0
  PROVE  /\ BlocksOf(i, p) = <<>> /\ EntriesOf(i, p) = <<>>
         /\ \A k : ~Uses(i, p, k) /\ ~Lists(i, p, k)
<1>1. IsImage(i) /\ Held(i) /\ UsesInto(i, p, Blocks)
  BY SoundView
<1>2. BlocksOf(i, p) = <<>>
  BY <1>1, BlocksView
<1>3. EntriesOf(i, p) \in Seq(Entry) /\ Len(EntriesOf(i, p)) = 0
  <2>. DEFINE es == EntriesOf(i, p)
              n  == i.num_dir_entry[p]
  <2>1. Len(BlocksOf(i, p)) = 0 /\ D \in Nat
    BY <1>2, DimensionsAssumption DEF D
  <2>2. /\ es \in Seq(Entry)
        /\ Len(es) = IF n <= D * Len(BlocksOf(i, p)) THEN (IF BlocksOf(i, p) = <<>> THEN 0 ELSE n)
                                                     ELSE D * Len(BlocksOf(i, p))
    <3>1. BlocksOf(i, p) \in Seq(Blocks) /\ (BlocksOf(i, p) # <<>> => n > 0)
      BY <1>1, ViewOf
    <3>. QED  BY <1>1, <3>1, EntriesView
  <2>. HIDE DEF es, n
  <2>3. D * Len(BlocksOf(i, p)) = 0
    BY <2>1
  <2>. QED  BY <1>2, <2>2, <2>3 DEF es
<1>4. EntriesOf(i, p) = <<>>
  BY <1>3, EmptySeq
<1>. QED  BY <1>2, <1>3, <1>4 DEF Uses, Lists

\* A directory without blocks gets an extent of one block, with an entry counted.
LEMMA FirstExtent ==
  ASSUME NEW i, Sound(i), NEW j, IsImage(j), Held(j), NEW p \in Inodes,
         i.extent_num[p] = 0, j.extent_num[p] > 0,
         NEW ib \in Blocks, NEW db \in Blocks, ib # db, j.indirect_pt[p] = ib,
         BlocksOf(j, p) = <<db>>, {ib, db} \subseteq DataBits(j) \ UsedBlocks(i),
         j.num_dir_entry[p] = 1,
         NEW e, e = j.dentry[<<db, 0>>], e.ino \in InodeBits(j), Unlisted(i, e.ino),
         DataBits(i) \subseteq DataBits(j), InodeBits(i) \subseteq InodeBits(j),
         \A x \in Inodes \ {p} : SameView(i, j, x),
         j.available["blocks"] + Cardinality(UsedBlocks(i)) + 2 <= NumBlocks
  PROVE  Sound(j) /\ EntriesOf(j, p) = <<e>>
<1>. DEFINE cs == BlocksOf(j, p)
            fs == EntriesOf(j, p)
<1>1. /\ IsImage(i) /\ Held(i) /\ UsesApart(i) /\ ListsApart(i) /\ Room(i)
      /\ \A x \in Inodes : UsesInto(i, x, DataBits(i)) /\ UsesInto(i, x, Blocks)
                           /\ ListsInto(i, x, InodeBits(i))
  BY SoundView
<1>2. \A k : ~Uses(i, p, k) /\ ~Lists(i, p, k)
  BY NothingShown
<1>3. Len(cs) = 1 /\ cs[1] = db /\ cs = <<db>>
  OBVIOUS
<1>4. \A k : Uses(j, p, k) => (k = 0 /\ BlockAt(j, p, k) = ib) \/ (k = 1 /\ BlockAt(j, p, k) = db)
  <2>. SUFFICES ASSUME NEW k, Uses(j, p, k)
                PROVE  (k = 0 /\ BlockAt(j, p, k) = ib) \/ (k = 1 /\ BlockAt(j, p, k) = db)
    OBVIOUS
  <2>1. k \in 0 .. 1
    BY <1>3 DEF Uses
  <2>2. k = 0 \/ k = 1
    BY <2>1
  <2>. QED  BY <1>3, <2>2 DEF BlockAt
<1>5. UsesInto(j, p, Blocks)
  BY <1>4 DEF UsesInto
<1>6. ShownBy(fs, cs, 1, j.dentry)
  <2>1. ShownBy(fs, cs, j.num_dir_entry[p], j.dentry)
    BY <1>5, EntriesAre
  <2>. QED  BY <2>1
<1>7. fs \in Seq(Entry) /\ Len(fs) = 1 /\ fs[1] = j.dentry[Slot(cs, 1)]
  <2>1. 1 <= D * Len(cs)
    BY <1>3, DimensionsAssumption DEF D
  <2>. HIDE DEF cs, fs
  <2>2. fs \in Seq(Entry) /\ Len(fs) = 1
    BY <1>6, <2>1 DEF ShownBy
  <2>3. 1 \in 1 .. Len(fs)
    BY <2>2
  <2>4. \A k \in 1 .. Len(fs) : fs[k] = j.dentry[Slot(cs, k)]
    BY <1>6 DEF ShownBy
  <2>. QED  BY <2>2, <2>3, <2>4
<1>8. Slot(cs, 1) = <<db, 0>>
  <2>1. (1 - 1) \div D = 0 /\ (1 - 1) % D = 0
    BY DimensionsAssumption DEF D
  <2>. HIDE DEF cs
  <2>. QED  BY <1>3, <2>1 DEF Slot
<1>9. fs[1] = e /\ e \in Entry
  <2>1. fs[1] = e
    BY <1>7, <1>8
  <2>2. fs[1] \in Entry
    <3>. HIDE DEF fs
    <3>. QED  BY <1>7, ElementOfSeq
  <2>. QED  BY <2>1, <2>2
<1>10. fs = <<e>>
  <2>. HIDE DEF fs
  <2>1. <<e>> \in Seq(Entry) /\ Len(<<e>>) = 1 /\ <<e>>[1] = e
    BY <1>9
  <2>2. \A k \in 1 .. Len(fs) : fs[k] = <<e>>[k]
    BY <1>7, <1>9, <2>1
  <2>. QED  BY <1>7, <2>1, <2>2, SeqEqual
<1>11. \A k : Lists(j, p, k) => k = 1 /\ fs[k] = e
  BY <1>7, <1>9 DEF Lists
<1>12. \A x \in Inodes : \A k : Uses(i, x, k) => BlockAt(i, x, k) # ib /\ BlockAt(i, x, k) # db
  BY <1>1, UsedBlocksOf DEF UsesInto
<1>13. OwnUses(i, j, p)
  BY <1>4, <1>12 DEF OwnUses, UsesInto
<1>14. OwnEntries(i, j, p)
  BY <1>11 DEF OwnEntries, ListsInto, Unlisted
<1>15. Room(j)
  <2>1. UsedBlocks(j) \subseteq (UsedBlocks(i) \cup {ib}) \cup {db}
    <3>. SUFFICES ASSUME NEW y \in UsedBlocks(j), y # ib, y # db PROVE y \in UsedBlocks(i)
      OBVIOUS
    <3>1. PICK x \in Inodes : \E k : Uses(j, x, k) /\ BlockAt(j, x, k) = y
      BY UsedBlocksOf
    <3>2. PICK k : Uses(j, x, k) /\ BlockAt(j, x, k) = y
      BY <3>1
    <3>3. x # p
      BY <1>4, <3>2
    <3>4. Uses(i, x, k) /\ BlockAt(i, x, k) = y
      <4>1. SameView(i, j, x)
        BY <3>3
      <4>. QED  BY <3>2, <4>1, ViewUses
    <3>. QED  BY <1>1, <3>4, UsedBlocksOf DEF UsesInto
  <2>. DEFINE U == UsedBlocks(i)
              V == U \cup {ib}
              W == V \cup {db}
              u == Cardinality(U)
              v == Cardinality(UsedBlocks(j))
              w == Cardinality(W)
  <2>2. u \in Nat /\ v \in Nat
    BY UsedBlocksFinite
  <2>3. IsFiniteSet(V) /\ Cardinality(V) = u + 1
    BY UsedBlocksFinite, FS_AddElement
  <2>4. IsFiniteSet(W) /\ w = Cardinality(V) + 1
    BY <2>3, FS_AddElement
  <2>5. v <= w
    BY <2>1, <2>4, FS_Subset
  <2>6. j.available["blocks"] + u + 2 <= NumBlocks /\ j.available["blocks"] \in Int /\ NumBlocks \in Int
    BY ImageTypes, DimensionsAssumption
  <2>. HIDE DEF u, v, w, V
  <2>7. j.available["blocks"] + v <= NumBlocks
    BY <2>2, <2>3, <2>4, <2>5, <2>6
  <2>. QED  BY <2>7 DEF Room, v
<1>16. \A x \in Inodes \ {p} : /\ SameView(i, j, x)
                               /\ UsesInto(i, x, DataBits(j)) /\ ListsInto(i, x, InodeBits(j))
  BY <1>1 DEF UsesInto, ListsInto
<1>. QED  BY <1>10, <1>13, <1>14, <1>15, <1>16, SoundStep

-----------------------------------------------------------------------------
(* A directory whose counts agree, and what a callback finds free. *)

\* A search that does not fail returns a clear position below n.
LEMMA FoundClear ==
  ASSUME NEW n \in Int, NEW bitmap, get_first_available_position(n, bitmap) # NotFound
  PROVE  LET i == get_first_available_position(n, bitmap)
         IN  i \in 0 .. n - 1 /\ i \notin bitmap
<1>. DEFINE clear == {i \in 0 .. n - 1 : i \notin bitmap}
<1>1. clear # {}
  BY DEF get_first_available_position, is_bit_set
<1>2. PICK m \in clear : \A k \in clear : m <= k
  <2>1. clear \in SUBSET Nat
    OBVIOUS
  <2>. HIDE DEF clear
  <2>. QED  BY <1>1, <2>1, LeastOf
<1>3. IsFirstAvailable(m, n, bitmap)
  BY <1>2 DEF IsFirstAvailable, is_bit_set
<1>. DEFINE i == CHOOSE j \in 0 .. n - 1 : IsFirstAvailable(j, n, bitmap)
<1>4. i \in 0 .. n - 1 /\ IsFirstAvailable(i, n, bitmap)
  BY <1>2, <1>3
<1>5. get_first_available_position(n, bitmap) = i
  BY <1>1 DEF get_first_available_position, is_bit_set
<1>. QED  BY <1>4, <1>5 DEF IsFirstAvailable, is_bit_set

\* c blocks of d entries each are what n entries take.
Fills(n, d, c) ==
    /\ c \in Nat /\ n <= d * c
    /\ n = 0 => c = 0
    /\ n > 0 => c > 0
    /\ n % d # 0 => n \div d + 1 = c /\ n < d * c
    /\ n % d = 0 => d * c = n
    /\ n % d = 1 => d * (c - 1) = n - 1
    /\ n % d \in 0 .. d - 1

\* As many blocks as the code rounds up to are what n entries fill.
LEMMA BlocksOfEntries ==
  ASSUME NEW n \in Nat, NEW d \in Nat, d > 1
  PROVE  Fills(n, d, (n + d - 1) \div d)
<1>. DEFINE q == n \div d
            r == n % d
            m == n + d - 1
            c == m \div d
            s == m % d
<1>1. q \in Nat /\ r \in 0 .. d - 1 /\ n = d * q + r
  OBVIOUS
<1>2. m \in Nat /\ c \in Nat /\ s \in 0 .. d - 1 /\ m = d * c + s
  <2>1. m \in Nat
    OBVIOUS
  <2>. HIDE DEF m
  <2>. QED  BY <2>1
<1>3. m = n + d - 1
  OBVIOUS
<1>. HIDE DEF q, r, m, c, s
<1>4. d * q \in Nat /\ d * c \in Nat
  BY <1>1, <1>2
<1>5. CASE r = 0
  <2>1. c = q
    <3>1. d * c + s = d * q + (d - 1)
      BY <1>1, <1>2, <1>3, <1>5
    <3>2. ~(c < q)
      <4>. SUFFICES ASSUME c < q PROVE FALSE
        OBVIOUS
      <4>1. c + 1 <= q
        BY <1>1, <1>2
      <4>2. d * (c + 1) <= d * q /\ d * (c + 1) = d * c + d
        BY <1>1, <1>2, <4>1
      <4>. QED  BY <1>1, <1>2, <1>4, <3>1, <4>2
    <3>3. ~(c > q)
      <4>. SUFFICES ASSUME c > q PROVE FALSE
        OBVIOUS
      <4>1. q + 1 <= c
        BY <1>1, <1>2
      <4>2. d * (q + 1) <= d * c /\ d * (q + 1) = d * q + d
        BY <1>1, <1>2, <4>1
      <4>. QED  BY <1>1, <1>2, <1>4, <3>1, <4>2
    <3>. QED  BY <1>1, <1>2, <3>2, <3>3
  <2>2. d * c = n
    BY <1>1, <1>4, <1>5, <2>1
  <2>3. n = 0 => c = 0
    <3>. SUFFICES ASSUME n = 0, c # 0 PROVE FALSE
      OBVIOUS
    <3>1. d * c >= d
      BY <1>2
    <3>. QED  BY <2>2, <3>1
  <2>4. n > 0 => c > 0
    <3>. SUFFICES ASSUME n > 0, c = 0 PROVE FALSE
      BY <1>2
    <3>1. d * c = 0
      OBVIOUS
    <3>. QED  BY <2>2, <3>1
  <2>. QED  BY <1>1, <1>2, <1>4, <1>5, <2>2, <2>3, <2>4 DEF r, c, m, Fills
<1>6. CASE r # 0
  <2>1. c = q + 1
    <3>1. d * c + s = d * q + d + (r - 1) /\ r - 1 \in 0 .. d - 2
      BY <1>1, <1>2, <1>3, <1>4, <1>6
    <3>2. ~(c <= q)
      <4>. SUFFICES ASSUME c <= q PROVE FALSE
        OBVIOUS
      <4>1. d * c <= d * q
        BY <1>1, <1>2
      <4>. QED  BY <1>1, <1>2, <1>4, <3>1, <4>1
    <3>3. ~(c > q + 1)
      <4>. SUFFICES ASSUME c > q + 1 PROVE FALSE
        OBVIOUS
      <4>1. q + 2 <= c
        BY <1>1, <1>2
      <4>2. d * (q + 2) <= d * c /\ d * (q + 2) = d * q + d + d
        BY <1>1, <1>2, <4>1
      <4>. QED  BY <1>1, <1>2, <1>4, <3>1, <4>2
    <3>. QED  BY <1>1, <1>2, <3>2, <3>3
  <2>2. d * c = d * q + d /\ d * (c - 1) = d * q
    BY <1>1, <1>2, <2>1
  <2>3. n > 0 /\ c > 0 /\ n < d * c
    BY <1>1, <1>4, <1>6, <2>1, <2>2
  <2>4. r = 1 => d * (c - 1) = n - 1
    BY <1>1, <1>4, <2>2
  <2>. QED  BY <1>1, <1>2, <1>4, <1>6, <2>1, <2>3, <2>4 DEF q, r, c, m, Fills
<1>. QED  BY <1>5, <1>6

\* find_last_block returns the last of the blocks.
LEMMA LastBlockFound ==
  ASSUME NEW img, IsImage(img), Held(img), NEW p \in Inodes, img.extent_num[p] > 0
  PROVE  Last(ExtentsOf(img)[p]).start + Last(ExtentsOf(img)[p]).count - 1 =
            BlocksOf(img, p)[Len(BlocksOf(img, p))]
<1>. DEFINE n  == img.extent_num[p]
            ib == img.indirect_pt[p]
            f  == [k \in 1 .. n |-> [start |-> img.start[<<ib, k - 1>>],
                                     count |-> img.count[<<ib, k - 1>>]]]
<1>1. n \in Nat /\ n > 0
  BY ImageTypes, DimensionsAssumption
<1>2. ExtentsOf(img)[p] = SubSeq(f, 1, n)
  BY DEF ExtentsOf
<1>3. SubSeq(f, 1, n) = f /\ Len(f) = n
  <2>. DEFINE S == {f[k] : k \in 1 .. n}
  <2>1. f \in [1 .. n -> S]
    OBVIOUS
  <2>2. f \in Seq(S) /\ Len(f) = n
    <3>. HIDE DEF n, f, S
    <3>1. f \in Seq(S) /\ DOMAIN f = 1 .. n
      BY <1>1, <2>1, SeqDef
    <3>. QED  BY <1>1, <3>1, LenProperties
  <2>. HIDE DEF f, S
  <2>. QED  BY <2>2, SubSeqFull
<1>4. f[n] = [start |-> img.start[<<ib, n - 1>>], count |-> img.count[<<ib, n - 1>>]]
  <2>1. n \in 1 .. n
    BY <1>1
  <2>. HIDE DEF n, ib
  <2>. QED  BY <2>1
<1>5. Last(ExtentsOf(img)[p]) = f[n]
  <2>. HIDE DEF f
  <2>. QED  BY <1>2, <1>3 DEF Last
<1>6. BlocksOf(img, p)[Len(BlocksOf(img, p))] =
         img.start[<<ib, n - 1>>] + img.count[<<ib, n - 1>>] - 1
  BY BlocksView
<1>. HIDE DEF f, n, ib
<1>. QED  BY <1>4, <1>5, <1>6

\* So does the operator of Namespace, in the image as it is.
LEMMA FindLastBlock ==
  ASSUME Sound(image), NEW p \in Inodes, image.extent_num[p] > 0
  PROVE  Seen!find_last_block(p) = BlocksOf(image, p)[Len(BlocksOf(image, p))]
<1>1. IsImage(image) /\ Held(image)
  BY SoundView
<1>. QED  BY <1>1, LastBlockFound DEF Seen!find_last_block, Seen!Last, Last

\* The counts of p agree: its blocks hold its entries and no more blocks than that.
Agrees(img, p) ==
    /\ img.size[p] = img.num_dir_entry[p]
    /\ Len(BlocksOf(img, p)) = (img.num_dir_entry[p] + D - 1) \div D

\* What follows for the blocks and entries of a directory whose counts agree.
LEMMA ParentCounts ==
  ASSUME NEW img, Sound(img), NEW p \in Inodes, Agrees(img, p)
  PROVE  LET n  == img.num_dir_entry[p]
             bs == BlocksOf(img, p)
         IN  /\ n \in Nat /\ Len(bs) \in Nat /\ n <= D * Len(bs) /\ D \in Nat /\ D > 1
             /\ n = 0 <=> img.extent_num[p] = 0
             /\ n > 0 <=> img.extent_num[p] > 0
             /\ n % D # 0 => n \div D + 1 = Len(bs) /\ n < D * Len(bs)
             /\ n % D = 0 => D * Len(bs) = n
             /\ n % D = 1 => D * (Len(bs) - 1) = n - 1
             /\ n % D \in Slots
             /\ Len(EntriesOf(img, p)) = n
<1>. DEFINE n  == img.num_dir_entry[p]
            bs == BlocksOf(img, p)
            es == EntriesOf(img, p)
            e  == img.extent_num[p]
<1>1. IsImage(img) /\ Held(img) /\ UsesInto(img, p, Blocks) /\ (bs # <<>> <=> e > 0)
      /\ bs \in Seq(Blocks)
  BY SoundView
<1>2. n \in Nat /\ D \in Nat /\ D > 1 /\ Len(bs) = (n + D - 1) \div D /\ e \in Nat
  BY <1>1, ImageTypes, DimensionsAssumption DEF Agrees, D
<1>3. /\ Len(bs) \in Nat /\ n <= D * Len(bs)
      /\ n = 0 => Len(bs) = 0
      /\ n > 0 => Len(bs) > 0
      /\ n % D # 0 => n \div D + 1 = Len(bs) /\ n < D * Len(bs)
      /\ n % D = 0 => D * Len(bs) = n
      /\ n % D = 1 => D * (Len(bs) - 1) = n - 1
      /\ n % D \in Slots
  <2>1. Fills(n, D, Len(bs))
    <3>. HIDE DEF n, bs
    <3>. QED  BY <1>2, BlocksOfEntries
  <2>. HIDE DEF n, bs
  <2>. QED  BY <2>1 DEF Fills, Slots
<1>4. bs # <<>> <=> Len(bs) > 0
  <2>. HIDE DEF bs
  <2>. QED  BY <1>1, <1>3, EmptySeq
<1>5. (n = 0 <=> e = 0) /\ (n > 0 <=> e > 0)
  <2>. HIDE DEF n, bs, e
  <2>. QED  BY <1>1, <1>2, <1>3, <1>4
<1>6. Len(es) = n
  <2>1. CASE e = 0
    <3>1. es = <<>> /\ n = 0
      BY <1>5, <2>1, NothingShown
    <3>. QED  BY <3>1
  <2>2. CASE e > 0
    <3>1. ShownBy(es, bs, n, img.dentry)
      BY <1>1, <2>2, EntriesAre
    <3>. HIDE DEF n, bs, es
    <3>. QED  BY <1>3, <3>1 DEF ShownBy
  <2>. QED  BY <1>2, <2>1, <2>2
<1>. HIDE DEF n, bs, es, e
<1>. QED  BY <1>2, <1>3, <1>5, <1>6 DEF n, bs, es, e

\* The inode a search finds is clear, holds nothing and is not listed.
LEMMA NewInodeFree ==
  ASSUME Sound(image), NewInode # NotFound
  PROVE  /\ NewInode \in Inodes /\ NewInode \notin InodeBits(image)
         /\ image.extent_num[NewInode] = 0 /\ Unlisted(image, NewInode)
<1>1. NumInodes \in Int
  BY DimensionsAssumption
<1>2. NewInode \in Inodes /\ NewInode \notin InodeBits(image)
  BY <1>1, FoundClear DEF NewInode, Inodes
<1>3. IsImage(image) /\ Held(image) /\ \A d \in Inodes : ListsInto(image, d, InodeBits(image))
  BY SoundView
<1>4. image.extent_num[NewInode] = 0
  <2>1. image.extent_num[NewInode] \in Nat
    BY <1>2, <1>3, ImageTypes, DimensionsAssumption
  <2>2. ~(image.extent_num[NewInode] > 0)
    BY <1>2, <1>3 DEF Held, InodeBits
  <2>. QED  BY <2>1, <2>2
<1>5. Unlisted(image, NewInode)
  BY <1>2, <1>3 DEF Unlisted, ListsInto
<1>. QED  BY <1>2, <1>4, <1>5

\* The block a search finds is clear, and in the image.
LEMMA BlockFree ==
  ASSUME NEW taken, numOfDataBlocks \in Int, numOfDataBlocks <= NumBlocks,
         SearchBlock(taken) # NotFound
  PROVE  SearchBlock(taken) \in Blocks /\ SearchBlock(taken) \notin DataBits(image) \cup taken
<1>1. SearchBlock(taken) \in 0 .. numOfDataBlocks - 1
      /\ SearchBlock(taken) \notin DataBits(image) \cup taken
  BY FoundClear DEF SearchBlock
<1>. QED  BY <1>1, DimensionsAssumption DEF Blocks

\* Clear blocks are not in use.
LEMMA ClearIsUnused ==
  ASSUME NEW img, Sound(img), NEW b, b \notin DataBits(img)
  PROVE  b \notin UsedBlocks(img)
<1>1. \A i \in Inodes : UsesInto(img, i, DataBits(img))
  BY SoundView
<1>. QED  BY <1>1, UsedBlocksOf DEF UsesInto

-----------------------------------------------------------------------------
(* Lists of stores. *)

IsSeq(s) == \E S : s \in Seq(S)

\* Tuples are sequences.
LEMMA SeqOfFew ==
  /\ IsSeq(<<>>) /\ Len(<<>>) = 0
  /\ \A a : IsSeq(<<a>>) /\ Len(<<a>>) = 1 /\ <<a>>[1] = a
  /\ \A a, b : IsSeq(<<a, b>>) /\ Len(<<a, b>>) = 2 /\ <<a, b>>[1] = a /\ <<a, b>>[2] = b
  /\ \A a, b, c : /\ IsSeq(<<a, b, c>>) /\ Len(<<a, b, c>>) = 3
                  /\ <<a, b, c>>[1] = a /\ <<a, b, c>>[2] = b /\ <<a, b, c>>[3] = c
  /\ \A a, b, c, d : /\ IsSeq(<<a, b, c, d>>) /\ Len(<<a, b, c, d>>) = 4
                     /\ <<a, b, c, d>>[1] = a /\ <<a, b, c, d>>[2] = b
                     /\ <<a, b, c, d>>[3] = c /\ <<a, b, c, d>>[4] = d
<1>1. IsSeq(<<>>)
  <2>1. <<>> \in Seq({})
    OBVIOUS
  <2>. QED  BY <2>1 DEF IsSeq
<1>2. ASSUME NEW a PROVE IsSeq(<<a>>)
  <2>1. <<a>> \in Seq({a})
    OBVIOUS
  <2>. QED  BY <2>1 DEF IsSeq
<1>3. ASSUME NEW a, NEW b PROVE IsSeq(<<a, b>>)
  <2>1. <<a, b>> \in Seq({a, b})
    OBVIOUS
  <2>. QED  BY <2>1 DEF IsSeq
<1>4. ASSUME NEW a, NEW b, NEW c PROVE IsSeq(<<a, b, c>>)
  <2>1. <<a, b, c>> \in Seq({a, b, c})
    OBVIOUS
  <2>. QED  BY <2>1 DEF IsSeq
<1>5. ASSUME NEW a, NEW b, NEW c, NEW d PROVE IsSeq(<<a, b, c, d>>)
  <2>1. <<a, b, c, d>> \in Seq({a, b, c, d})
    OBVIOUS
  <2>. QED  BY <2>1 DEF IsSeq
<1>. QED  BY <1>1, <1>2, <1>3, <1>4, <1>5

\* Where the parts of a concatenation are.
LEMMA SeqConcat ==
  ASSUME NEW a, NEW b, IsSeq(a), IsSeq(b)
  PROVE  /\ IsSeq(a \o b) /\ Len(a) \in Nat /\ Len(b) \in Nat /\ Len(a \o b) = Len(a) + Len(b)
         /\ \A k \in 1 .. Len(a) : (a \o b)[k] = a[k]
         /\ \A k \in 1 .. Len(b) : (a \o b)[Len(a) + k] = b[k]
<1>1. PICK S : a \in Seq(S)
  BY DEF IsSeq
<1>2. PICK T : b \in Seq(T)
  BY DEF IsSeq
<1>3. a \in Seq(S \cup T) /\ b \in Seq(S \cup T)
  <2>1. S \subseteq S \cup T /\ T \subseteq S \cup T
    OBVIOUS
  <2>. QED  BY <1>1, <1>2, <2>1, SeqMonotonic
<1>4. Len(a) \in Nat /\ Len(b) \in Nat
  BY <1>3, LenProperties
<1>5. a \o b \in Seq(S \cup T) /\ Len(a \o b) = Len(a) + Len(b)
  BY <1>3, ConcatProperties
<1>6. \A k \in 1 .. Len(a) + Len(b) :
         (a \o b)[k] = IF k <= Len(a) THEN a[k] ELSE b[k - Len(a)]
  BY <1>3, ConcatProperties
<1>7. \A k \in 1 .. Len(a) : (a \o b)[k] = a[k]
  BY <1>4, <1>6
<1>8. \A k \in 1 .. Len(b) : (a \o b)[Len(a) + k] = b[k]
  <2>. SUFFICES ASSUME NEW k \in 1 .. Len(b) PROVE (a \o b)[Len(a) + k] = b[k]
    OBVIOUS
  <2>1. Len(a) + k \in 1 .. Len(a) + Len(b) /\ ~(Len(a) + k <= Len(a)) /\ Len(a) + k - Len(a) = k
    BY <1>4
  <2>. QED  BY <1>6, <2>1
<1>9. IsSeq(a \o b)
  BY <1>5 DEF IsSeq
<1>. QED  BY <1>4, <1>5, <1>7, <1>8, <1>9

\* The list s follows the first c stores.
At(stores, c, s) ==
    /\ IsSeq(s) /\ c \in Nat /\ c + Len(s) <= Len(stores)
    /\ \A k \in 1 .. Len(s) : stores[c + k] = s[k]

\* All of the stores follow none of them.
LEMMA AtAll ==
  ASSUME NEW stores, IsSeq(stores)
  PROVE  At(stores, 0, stores) /\ Len(stores) \in Nat
<1>1. Len(stores) \in Nat
  BY LenProperties DEF IsSeq
<1>. QED  BY <1>1 DEF At

\* Lists that were joined follow one another.
LEMMA AtConcat ==
  ASSUME NEW stores, NEW c, NEW a, NEW b, IsSeq(a), IsSeq(b), At(stores, c, a \o b)
  PROVE  At(stores, c, a) /\ At(stores, c + Len(a), b)
<1>. DEFINE s == a \o b
<1>1. /\ Len(a) \in Nat /\ Len(b) \in Nat /\ Len(s) = Len(a) + Len(b)
      /\ \A k \in 1 .. Len(a) : s[k] = a[k]
      /\ \A k \in 1 .. Len(b) : s[Len(a) + k] = b[k]
  BY SeqConcat
<1>2. c \in Nat /\ c + Len(s) <= Len(stores) /\ \A k \in 1 .. Len(s) : stores[c + k] = s[k]
  BY DEF At
<1>3. Len(stores) \in Int \/ Len(stores) \notin Int
  OBVIOUS
<1>. HIDE DEF s
<1>4. \A k \in 1 .. Len(a) : stores[c + k] = a[k]
  BY <1>1, <1>2
<1>5. \A k \in 1 .. Len(b) : stores[c + Len(a) + k] = b[k]
  <2>. SUFFICES ASSUME NEW k \in 1 .. Len(b) PROVE stores[c + Len(a) + k] = b[k]
    OBVIOUS
  <2>1. Len(a) + k \in 1 .. Len(s) /\ c + (Len(a) + k) = c + Len(a) + k
    BY <1>1, <1>2
  <2>. QED  BY <1>1, <1>2, <2>1
<1>. QED  BY <1>1, <1>2, <1>4, <1>5 DEF At

-----------------------------------------------------------------------------
(* The stores of an addition, one by one. *)

\* What the pieces of an addition have in common: s is well typed and calm in img.
CalmTyped(img, s) == Typed(s) /\ Calm(img, s)

\* Slots of visible entries, and extents of inodes, of img.
Visible(img, y) == \E x \in Inodes : \E k : Lists(img, x, k) /\ y = Slot(BlocksOf(img, x), k)
Extended(img, y) ==
    \E x \in Inodes : img.extent_num[x] > 0
                      /\ \E k \in 0 .. img.extent_num[x] - 1 : y = <<img.indirect_pt[x], k>>

\* The stores that take an inode.
LEMMA TakeInodeCalm ==
  ASSUME NEW img, NewInode \in Inodes, img.extent_num[NewInode] = 0,
         NEW m \in {"dir", "reg"}, AvailableInodes \in Int, NEW k \in 1 .. 3
  PROVE  CalmTyped(img, TakeInode(m)[k]) /\ IsSeq(TakeInode(m)) /\ Len(TakeInode(m)) = 3
<1>. DEFINE a == [inodeBit |-> <<NewInode, TRUE>>]
            b == [available |-> <<"inodes", AvailableInodes - 1>>]
            c == [mode |-> <<NewInode, m>>, links |-> <<NewInode, IF m = "dir" THEN 2 ELSE 1>>,
                  size |-> <<NewInode, 0>>, extent_num |-> <<NewInode, 0>>,
                  num_dir_entry |-> <<NewInode, 0>>]
<1>1. TakeInode(m) = <<a, b, c>>
  BY DEF TakeInode
<1>2. CalmTyped(img, a)
  <2>1. Typed(a)
    <3>1. DOMAIN a = {"inodeBit"}
      OBVIOUS
    <3>2. a["inodeBit"][2] \in BOOLEAN
      OBVIOUS
    <3>3. FieldRange["inodeBit"] = BOOLEAN
      BY DEF FieldRange
    <3>. HIDE DEF a
    <3>4. \A f \in DOMAIN a : f = "inodeBit"
      BY <3>1
    <3>5. \A f \in DOMAIN a : a[f][2] \in FieldRange[f]
      BY <3>2, <3>3, <3>4
    <3>6. DOMAIN a \subseteq Fields
      BY <3>1, FieldNames
    <3>. QED  BY <3>5, <3>6 DEF Typed
  <2>2. Calm(img, a)
    BY DEF Calm, QuietFor, Writes
  <2>. QED  BY <2>1, <2>2 DEF CalmTyped
<1>3. CalmTyped(img, b)
  <2>1. Typed(b)
    BY FieldNames DEF Typed, FieldRange
  <2>2. Calm(img, b)
    BY DEF Calm, QuietFor, Writes
  <2>. QED  BY <2>1, <2>2 DEF CalmTyped
<1>4. CalmTyped(img, c)
  <2>1. Typed(c)
    BY FieldNames, DimensionsAssumption DEF Typed, FieldRange
  <2>2. Calm(img, c)
    BY DEF Calm, QuietFor, Writes
  <2>. QED  BY <2>1, <2>2 DEF CalmTyped
<1>. HIDE DEF a, b, c
<1>5. <<a, b, c>>[1] = a /\ <<a, b, c>>[2] = b /\ <<a, b, c>>[3] = c
  OBVIOUS
<1>6. k = 1 \/ k = 2 \/ k = 3
  OBVIOUS
<1>7. CalmTyped(img, TakeInode(m)[k])
  BY <1>1, <1>2, <1>3, <1>4, <1>5, <1>6
<1>. QED  BY <1>1, <1>7, SeqOfFew

\* The stores that take a block.
LEMMA TakeBlockCalm ==
  ASSUME NEW img, NEW b, NEW n \in Int, AvailableBlocks \in Int,
         AvailableBlocks - n <= img.available["blocks"], NEW k \in 1 .. 2
  PROVE  CalmTyped(img, TakeBlock(b, n)[k]) /\ IsSeq(TakeBlock(b, n)) /\ Len(TakeBlock(b, n)) = 2
<1>. DEFINE x == [dataBit |-> <<b, TRUE>>]
            y == [available |-> <<"blocks", AvailableBlocks - n>>]
<1>1. TakeBlock(b, n) = <<x, y>>
  BY DEF TakeBlock
<1>2. CalmTyped(img, x)
  <2>1. Typed(x)
    <3>1. DOMAIN x = {"dataBit"}
      OBVIOUS
    <3>2. x["dataBit"][2] \in BOOLEAN
      OBVIOUS
    <3>3. FieldRange["dataBit"] = BOOLEAN
      BY DEF FieldRange
    <3>. HIDE DEF x
    <3>4. \A f \in DOMAIN x : f = "dataBit"
      BY <3>1
    <3>5. \A f \in DOMAIN x : x[f][2] \in FieldRange[f]
      BY <3>2, <3>3, <3>4
    <3>6. DOMAIN x \subseteq Fields
      BY <3>1, FieldNames
    <3>. QED  BY <3>5, <3>6 DEF Typed
  <2>2. Calm(img, x)
    BY DEF Calm, QuietFor, Writes
  <2>. QED  BY <2>1, <2>2 DEF CalmTyped
<1>3. CalmTyped(img, y)
  <2>1. Typed(y)
    BY FieldNames DEF Typed, FieldRange
  <2>2. Calm(img, y)
    BY DEF Calm, QuietFor, Writes
  <2>. QED  BY <2>1, <2>2 DEF CalmTyped
<1>. HIDE DEF x, y
<1>4. <<x, y>>[1] = x /\ <<x, y>>[2] = y
  OBVIOUS
<1>5. k = 1 \/ k = 2
  OBVIOUS
<1>6. CalmTyped(img, TakeBlock(b, n)[k])
  BY <1>1, <1>2, <1>3, <1>4, <1>5
<1>. QED  BY <1>1, <1>6, SeqOfFew

\* The store of the address of an indirect block.
LEMMA IndirectCalm ==
  ASSUME NEW img, NEW p \in Inodes, img.extent_num[p] = 0, NEW ib \in Blocks
  PROVE  CalmTyped(img, [indirect_pt |-> <<p, ib>>])
BY FieldNames DEF CalmTyped, Typed, Calm, QuietFor, Writes, FieldRange

\* The stores of an extent that nobody has yet.
LEMMA PutExtentCalm ==
  ASSUME NEW img, NEW ib, NEW e, NEW b \in Blocks, ~Extended(img, <<ib, e>>), NEW k \in 1 .. 2
  PROVE  CalmTyped(img, PutExtent(ib, e, b)[k]) /\ IsSeq(PutExtent(ib, e, b))
         /\ Len(PutExtent(ib, e, b)) = 2
<1>. DEFINE x == [start |-> <<<<ib, e>>, b>>]
            y == [count |-> <<<<ib, e>>, 1>>]
<1>1. PutExtent(ib, e, b) = <<x, y>>
  BY DEF PutExtent
<1>2. CalmTyped(img, x)
  BY FieldNames DEF CalmTyped, Typed, Calm, QuietFor, Writes, FieldRange, Extended
<1>3. CalmTyped(img, y)
  BY FieldNames DEF CalmTyped, Typed, Calm, QuietFor, Writes, FieldRange, Extended
<1>. HIDE DEF x, y
<1>4. <<x, y>>[1] = x /\ <<x, y>>[2] = y
  OBVIOUS
<1>5. k = 1 \/ k = 2
  OBVIOUS
<1>6. CalmTyped(img, PutExtent(ib, e, b)[k])
  BY <1>1, <1>2, <1>3, <1>4, <1>5
<1>. QED  BY <1>1, <1>6, SeqOfFew

\* The store of an entry that nobody sees yet.
LEMMA PutEntryCalm ==
  ASSUME NEW img, NEW b, NEW slot, NEW nm \in Names, NewInode \in Inodes,
         ~Visible(img, <<b, slot>>)
  PROVE  CalmTyped(img, PutEntry(b, slot, nm))
<1>. DEFINE s == PutEntry(b, slot, nm)
<1>1. Typed(s)
  <2>1. DOMAIN s = {"dentry"} /\ s["dentry"][2] = [name |-> nm, ino |-> NewInode]
    BY DEF PutEntry
  <2>2. [name |-> nm, ino |-> NewInode] \in Entry
    BY DEF Entry
  <2>3. FieldRange["dentry"] = Entry
    BY DEF FieldRange
  <2>. HIDE DEF s
  <2>. QED  BY <2>1, <2>2, <2>3, FieldNames DEF Typed
<1>2. Calm(img, s)
  <2>1. s = [dentry |-> <<<<b, slot>>, [name |-> nm, ino |-> NewInode]>>]
    BY DEF PutEntry
  <2>2. DOMAIN s = {"dentry"} /\ s["dentry"][1] = <<b, slot>>
    BY <2>1
  <2>. HIDE DEF s
  <2>. QED  BY <2>2 DEF Calm, QuietFor, Writes, Visible
<1>. QED  BY <1>1, <1>2 DEF CalmTyped

\* The store of a size.
LEMMA AddSizeCalm ==
  ASSUME NEW img, NEW p \in Inodes, image.size[p] \in Nat
  PROVE  CalmTyped(img, AddSize(p, 1))
BY FieldNames DEF CalmTyped, Typed, Calm, QuietFor, Writes, FieldRange, AddSize

\* The store of a count of links.
LEMMA AddLinksCalm ==
  ASSUME NEW img, NEW p \in Inodes, NEW n \in Int, image.links[p] \in Int
  PROVE  CalmTyped(img, AddLinks(p, n))
BY FieldNames DEF CalmTyped, Typed, Calm, QuietFor, Writes, FieldRange, AddLinks

\* The store of a count of entries, in a directory without extents.
LEMMA AddCountCalm ==
  ASSUME NEW img, NEW p \in Inodes, img.extent_num[p] = 0, image.num_dir_entry[p] \in Nat
  PROVE  CalmTyped(img, AddCount(p, 1))
BY FieldNames DEF CalmTyped, Typed, Calm, QuietFor, Writes, FieldRange, AddCount

-----------------------------------------------------------------------------
(* Stretches of calm stores. *)

CalmOn(img, stores, c, e) == \A j \in c + 1 .. e : CalmTyped(img, stores[j])

\* Two calm stretches in a row are one.
LEMMA CalmJoin ==
  ASSUME NEW img, NEW stores, NEW c \in Nat, NEW e \in Nat, NEW f \in Nat,
         CalmOn(img, stores, c, e), CalmOn(img, stores, e, f)
  PROVE  CalmOn(img, stores, c, f)
<1>1. \A j \in c + 1 .. f : j \in c + 1 .. e \/ j \in e + 1 .. f
  OBVIOUS
<1>. QED  BY <1>1 DEF CalmOn

\* A list of calm stores is a calm stretch.
LEMMA CalmAt ==
  ASSUME NEW img, NEW stores, NEW c, NEW s, At(stores, c, s),
         \A k \in 1 .. Len(s) : CalmTyped(img, s[k])
  PROVE  c \in Nat /\ c + Len(s) \in Nat /\ CalmOn(img, stores, c, c + Len(s))
<1>1. Len(s) \in Nat
  BY LenProperties DEF At, IsSeq
<1>2. c \in Nat /\ \A k \in 1 .. Len(s) : stores[c + k] = s[k]
  BY DEF At
<1>3. ASSUME NEW j \in c + 1 .. c + Len(s)
      PROVE  CalmTyped(img, stores[j])
  <2>1. j - c \in 1 .. Len(s) /\ c + (j - c) = j
    BY <1>1, <1>2
  <2>. QED  BY <1>2, <2>1
<1>. QED  BY <1>1, <1>2, <1>3 DEF CalmOn

\* So is a single one.
LEMMA CalmSingle ==
  ASSUME NEW img, NEW stores, NEW c, NEW s, At(stores, c, <<s>>), CalmTyped(img, s)
  PROVE  c \in Nat /\ c + 1 \in Nat /\ CalmOn(img, stores, c, c + 1)
<1>1. Len(<<s>>) = 1 /\ \A k \in 1 .. 1 : <<s>>[k] = s
  OBVIOUS
<1>2. \A k \in 1 .. Len(<<s>>) : CalmTyped(img, <<s>>[k])
  BY <1>1
<1>3. c \in Nat /\ c + Len(<<s>>) \in Nat /\ CalmOn(img, stores, c, c + Len(<<s>>))
  BY <1>2, CalmAt
<1>. QED  BY <1>1, <1>3

-----------------------------------------------------------------------------
(* What stores do to whole fields. *)

\* One store of a trace.
LEMMA TraceStep ==
  ASSUME NEW A, NEW img, NEW stores, Traced(A, img, stores), NEW k \in 1 .. Len(stores)
  PROVE  k - 1 \in 0 .. Len(stores) /\ A[k] = Made(A[k - 1], stores[k])
<1>1. Len(stores) \in Nat /\ IsTrace(A, img, stores)
  BY DEF Traced
<1>. QED  BY <1>1, TraceSteps

\* j is i with the fields s names stored into.
Stored(i, j, s) ==
    /\ \A f \in Fields : f \notin DOMAIN s => j[f] = i[f]
    /\ \A f \in Fields : f \in DOMAIN s => j[f] = [i[f] EXCEPT ![s[f][1]] = s[f][2]]

\* What Made does to whole fields.
LEMMA MadeStored ==
  ASSUME NEW i, IsImage(i), NEW s
  PROVE  Stored(i, Made(i, s), s)
<1>1. DOMAIN i = Fields
  BY DEF IsImage
<1>2. \A f \in Fields : Made(i, s)[f] = IF f \in DOMAIN s THEN [i[f] EXCEPT ![s[f][1]] = s[f][2]]
                                                          ELSE i[f]
  BY <1>1 DEF Made
<1>. QED  BY <1>2 DEF Stored

\* The fields after one store of a trace.
LEMMA FieldStep ==
  ASSUME NEW A, NEW img, NEW stores, Traced(A, img, stores),
         NEW c \in Nat, c + 1 \in 1 .. Len(stores)
  PROVE  Stored(A[c], A[c + 1], stores[c + 1])
<1>1. \A n \in 0 .. Len(stores) : IsImage(A[n])
  BY DEF Traced
<1>2. c + 1 - 1 = c /\ c + 1 - 1 \in 0 .. Len(stores) /\ A[c + 1] = Made(A[c + 1 - 1], stores[c + 1])
  BY TraceStep
<1>3. A[c + 1] = Made(A[c], stores[c + 1]) /\ IsImage(A[c])
  BY <1>1, <1>2
<1>. QED  BY <1>3, MadeStored

\* Stores that do not name a field leave it.
LEMMA FieldKept ==
  ASSUME NEW A, NEW img, NEW stores, Traced(A, img, stores), NEW f \in Fields,
         NEW c \in 0 .. Len(stores), NEW e \in c .. Len(stores),
         \A j \in c + 1 .. e : f \notin DOMAIN stores[j]
  PROVE  \A k \in c .. e : A[k][f] = A[c][f]
<1>1. Len(stores) \in Nat /\ IsTrace(A, img, stores) /\ \A n \in 0 .. Len(stores) : IsImage(A[n])
  BY DEF Traced
<1>. SUFFICES ASSUME NEW k \in c .. e PROVE A[k][f] = A[c][f]
  OBVIOUS
<1>2. k \in c .. Len(stores) /\ k \in 0 .. Len(stores)
  BY <1>1
<1>3. \A x \in FieldDomain[f] : A[k][f][x] = A[c][f][x]
  <2>. SUFFICES ASSUME NEW x \in FieldDomain[f] PROVE A[k][f][x] = A[c][f][x]
    OBVIOUS
  <2>1. \A j \in c + 1 .. k : ~Writes(stores[j], f, x)
    <3>. SUFFICES ASSUME NEW j \in c + 1 .. k PROVE ~Writes(stores[j], f, x)
      OBVIOUS
    <3>1. j \in c + 1 .. e
      BY <1>1
    <3>. QED  BY <3>1 DEF Writes
  <2>. QED  BY <1>1, <1>2, <2>1, PlaceKept, SMTT(60)
<1>4. A[k][f] \in [FieldDomain[f] -> FieldRange[f]] /\ A[c][f] \in [FieldDomain[f] -> FieldRange[f]]
  BY <1>1, <1>2 DEF IsImage
<1>. QED  BY <1>3, <1>4

\* A place after a list of stores that write nothing but v there, from a store that does.
LEMMA PlaceFrom ==
  ASSUME NEW A, NEW img, NEW stores, Traced(A, img, stores),
         NEW f \in Fields, NEW x \in FieldDomain[f], NEW v,
         NEW c \in 1 .. Len(stores), Writes(stores[c], f, x), stores[c][f][2] = v,
         NEW e \in c .. Len(stores),
         \A j \in c + 1 .. e : Writes(stores[j], f, x) => stores[j][f][2] = v
  PROVE  \A k \in c .. e : A[k][f][x] = v
<1>1. Len(stores) \in Nat /\ \A n \in 0 .. Len(stores) : IsImage(A[n])
  BY DEF Traced
<1>2. A[c] = Made(A[c - 1], stores[c]) /\ c - 1 \in 0 .. Len(stores)
  BY TraceStep
<1>3. A[c][f][x] = v
  BY <1>1, <1>2, MadeAt
<1>4. c \in 0 .. Len(stores)
  BY <1>1
<1>5. \A k \in c .. e : A[k][f][x] \in {v}
  <2>1. A[c][f][x] \in {v}
    BY <1>3
  <2>2. \A j \in c + 1 .. e : Writes(stores[j], f, x) => stores[j][f][2] \in {v}
    OBVIOUS
  <2>. QED  BY <1>4, <2>1, <2>2, PlaceWithin
<1>. QED  BY <1>5

-----------------------------------------------------------------------------
(* The counters and the bits. *)

InodeDrift(img) == img.available["inodes"] + Cardinality(InodeBits(img)) - NumInodes
BlockDrift(img) == img.available["blocks"] + Cardinality(DataBits(img)) - NumBlocks

\* From c to e both drifts come back, and are one more in between at most.
Even(A, c, e) ==
    /\ InodeDrift(A[e]) = InodeDrift(A[c]) /\ BlockDrift(A[e]) = BlockDrift(A[c])
Neutral(A, c, e) ==
    /\ Even(A, c, e)
    /\ \A k \in c .. e : /\ InodeDrift(A[k]) - InodeDrift(A[c]) \in 0 .. 1
                         /\ BlockDrift(A[k]) - BlockDrift(A[c]) \in 0 .. 1

\* Bits and counters are numbers, and so are the drifts.
LEMMA DriftInt ==
  ASSUME NEW img, IsImage(img)
  PROVE  /\ IsFiniteSet(InodeBits(img)) /\ IsFiniteSet(DataBits(img))
         /\ Cardinality(InodeBits(img)) \in Nat /\ Cardinality(DataBits(img)) \in Nat
         /\ img.available["inodes"] \in Int /\ img.available["blocks"] \in Int
         /\ InodeDrift(img) \in Int /\ BlockDrift(img) \in Int
         /\ NumInodes \in Int /\ NumBlocks \in Int
<1>1. NumInodes \in Int /\ NumBlocks \in Int
  BY DimensionsAssumption
<1>2. IsFiniteSet(Inodes) /\ IsFiniteSet(Blocks)
  <2>1. 0 \in Int /\ NumInodes - 1 \in Int /\ NumBlocks - 1 \in Int
    BY <1>1
  <2>. QED  BY <2>1, FS_Interval DEF Inodes, Blocks
<1>3. IsFiniteSet(InodeBits(img)) /\ IsFiniteSet(DataBits(img))
  <2>1. InodeBits(img) \subseteq Inodes /\ DataBits(img) \subseteq Blocks
    BY DEF InodeBits, DataBits
  <2>. QED  BY <1>2, <2>1, FS_Subset
<1>4. Cardinality(InodeBits(img)) \in Nat /\ Cardinality(DataBits(img)) \in Nat
  BY <1>3, FS_CardinalityType
<1>5. img.available["inodes"] \in Int /\ img.available["blocks"] \in Int
  BY ImageTypes
<1>. QED  BY <1>1, <1>3, <1>4, <1>5 DEF InodeDrift, BlockDrift

\* Drifts that come back twice come back.
LEMMA EvenJoin ==
  ASSUME NEW A, NEW c, NEW e, NEW g, Even(A, c, e), Even(A, e, g)
  PROVE  Even(A, c, g)
BY DEF Even

\* Two neutral stretches in a row are one.
LEMMA NeutralJoin ==
  ASSUME NEW A, NEW c \in Nat, NEW e \in Nat, NEW g \in Nat,
         \A k \in c .. g : IsImage(A[k]), c <= e, e <= g,
         Neutral(A, c, e), Neutral(A, e, g)
  PROVE  Neutral(A, c, g)
<1>1. Even(A, c, g)
  BY EvenJoin DEF Neutral
<1>2. ASSUME NEW k \in c .. g
      PROVE  /\ InodeDrift(A[k]) - InodeDrift(A[c]) \in 0 .. 1
             /\ BlockDrift(A[k]) - BlockDrift(A[c]) \in 0 .. 1
  <2>1. CASE k \in c .. e
    BY <2>1 DEF Neutral
  <2>2. CASE k \in e .. g
    BY <2>2 DEF Neutral, Even
  <2>. QED  BY <2>1, <2>2
<1>. QED  BY <1>1, <1>2 DEF Neutral

\* The fields the drifts are about.
Counted == {"inodeBit", "dataBit", "available"}

\* The drifts depend on bits and counters alone.
LEMMA SameDrift ==
  ASSUME NEW i, NEW j, \A f \in Counted : j[f] = i[f]
  PROVE  InodeDrift(j) = InodeDrift(i) /\ BlockDrift(j) = BlockDrift(i)
<1>1. j.inodeBit = i.inodeBit /\ j.dataBit = i.dataBit /\ j.available = i.available
  BY DEF Counted
<1>2. InodeBits(j) = InodeBits(i) /\ DataBits(j) = DataBits(i)
  BY <1>1 DEF InodeBits, DataBits
<1>. QED  BY <1>1, <1>2 DEF InodeDrift, BlockDrift

\* Stores of other fields are neutral.
LEMMA OtherNeutral ==
  ASSUME NEW A, NEW img, NEW stores, Traced(A, img, stores),
         NEW c \in 0 .. Len(stores), NEW e \in c .. Len(stores),
         \A j \in c + 1 .. e : DOMAIN stores[j] \cap Counted = {}
  PROVE  Neutral(A, c, e) /\ \A f \in Counted : A[e][f] = A[c][f]
<1>1. Len(stores) \in Nat /\ \A n \in 0 .. Len(stores) : IsImage(A[n])
  BY DEF Traced
<1>2. \A f \in Counted : f \in Fields
  BY FieldNames DEF Counted
<1>3. ASSUME NEW f \in Counted PROVE \A k \in c .. e : A[k][f] = A[c][f]
  <2>1. \A j \in c + 1 .. e : f \notin DOMAIN stores[j]
    OBVIOUS
  <2>. QED  BY <1>2, <2>1, FieldKept
<1>4. ASSUME NEW k \in c .. e
      PROVE  InodeDrift(A[k]) = InodeDrift(A[c]) /\ BlockDrift(A[k]) = BlockDrift(A[c])
  BY <1>3, SameDrift
<1>5. InodeDrift(A[c]) \in Int /\ BlockDrift(A[c]) \in Int
  BY <1>1, DriftInt
<1>6. e \in c .. e
  BY <1>1
<1>7. \A f \in Counted : A[e][f] = A[c][f]
  BY <1>3, <1>6
<1>. QED  BY <1>4, <1>5, <1>6, <1>7 DEF Neutral, Even

\* A bit set, or cleared.
LEMMA BitSet ==
  ASSUME NEW S, IsFiniteSet(S), NEW f \in [S -> BOOLEAN], NEW x \in S, NEW g, NEW v \in BOOLEAN,
         g = [f EXCEPT ![x] = v]
  PROVE  LET F == {y \in S : f[y]}
             G == {y \in S : g[y]}
         IN  /\ v /\ ~f[x] => Cardinality(G) = Cardinality(F) + 1
             /\ ~v /\ f[x] => Cardinality(G) = Cardinality(F) - 1
<1>. DEFINE F == {y \in S : f[y]}
            G == {y \in S : g[y]}
<1>1. IsFiniteSet(F) /\ IsFiniteSet(G) /\ Cardinality(F) \in Nat /\ Cardinality(G) \in Nat
  <2>1. F \subseteq S /\ G \subseteq S
    OBVIOUS
  <2>2. IsFiniteSet(F) /\ IsFiniteSet(G)
    BY <2>1, FS_Subset
  <2>. QED  BY <2>2, FS_CardinalityType
<1>2. CASE v /\ ~f[x]
  <2>1. G = F \cup {x} /\ x \notin F
    BY <1>2
  <2>2. Cardinality(G) = Cardinality(F) + 1
    BY <1>1, <2>1, FS_AddElement
  <2>. QED  BY <1>2, <2>2
<1>3. CASE ~v /\ f[x]
  <2>1. F = G \cup {x} /\ x \notin G
    BY <1>3
  <2>2. Cardinality(F) = Cardinality(G) + 1
    BY <1>1, <2>1, FS_AddElement
  <2>. QED  BY <1>1, <1>3, <2>2
<1>. QED  BY <1>2, <1>3

-----------------------------------------------------------------------------
(* A bit and its counter. *)

\* From i over h to j: first the bit at x becomes v, then the counter becomes a.
Paired(i, h, j, bit, other, x, v, key, a) ==
    /\ h[bit] = [i[bit] EXCEPT ![x] = v] /\ h["available"] = i["available"] /\ h[other] = i[other]
    /\ j[bit] = h[bit] /\ j["available"] = [i["available"] EXCEPT ![key] = a] /\ j[other] = i[other]

\* Two stores of a trace that are such a pair.
LEMMA PairMade ==
  ASSUME NEW A, NEW img, NEW stores, Traced(A, img, stores),
         NEW c \in Nat, c + 2 <= Len(stores),
         NEW bit, NEW other, {bit, other} = {"inodeBit", "dataBit"}, bit # other,
         NEW x, NEW v, NEW key, NEW a,
         DOMAIN stores[c + 1] = {bit}, stores[c + 1][bit] = <<x, v>>,
         DOMAIN stores[c + 2] = {"available"}, stores[c + 2]["available"] = <<key, a>>
  PROVE  Paired(A[c], A[c + 1], A[c + 2], bit, other, x, v, key, a)
<1>1. Len(stores) \in Nat
  BY DEF Traced
<1>2. c + 1 \in 1 .. Len(stores) /\ c + 1 - 1 = c /\ c + 2 \in 1 .. Len(stores) /\ c + 2 - 1 = c + 1
  BY <1>1
<1>3. /\ bit \in Fields /\ other \in Fields /\ "available" \in Fields
      /\ bit # "available" /\ other # "available"
  BY FieldNames
<1>4. Stored(A[c], A[c + 1], stores[c + 1])
  BY <1>2, FieldStep
<1>5. Stored(A[c + 1], A[c + 2], stores[c + 2])
  <2>. DEFINE d == c + 1
  <2>1. d \in Nat /\ d + 1 \in 1 .. Len(stores) /\ d + 1 = c + 2
    BY <1>2
  <2>. HIDE DEF d
  <2>2. Stored(A[d], A[d + 1], stores[d + 1])
    BY <2>1, FieldStep
  <2>. QED  BY <2>1, <2>2 DEF d
<1>6. stores[c + 1][bit][1] = x /\ stores[c + 1][bit][2] = v
  OBVIOUS
<1>7. stores[c + 2]["available"][1] = key /\ stores[c + 2]["available"][2] = a
  OBVIOUS
<1>8. /\ A[c + 1][bit] = [A[c][bit] EXCEPT ![x] = v]
      /\ A[c + 1]["available"] = A[c]["available"] /\ A[c + 1][other] = A[c][other]
  BY <1>3, <1>4, <1>6 DEF Stored
<1>9. /\ A[c + 2][bit] = A[c + 1][bit] /\ A[c + 2][other] = A[c + 1][other]
      /\ A[c + 2]["available"] = [A[c + 1]["available"] EXCEPT ![key] = a]
  BY <1>3, <1>5, <1>7 DEF Stored
<1>. QED  BY <1>8, <1>9 DEF Paired

\* An inode is taken, and counted one too few for one store, or given back.
InodeMoved(i, h, j, x, v, a) ==
    /\ j.dataBit = i.dataBit /\ j.available["blocks"] = i.available["blocks"]
    /\ j.available["inodes"] = a /\ j.inodeBit = [i.inodeBit EXCEPT ![x] = v]
    /\ BlockDrift(h) = BlockDrift(i) /\ BlockDrift(j) = BlockDrift(i)
    /\ v = TRUE /\ ~i.inodeBit[x] /\ a = i.available["inodes"] - 1
         => InodeDrift(h) = InodeDrift(i) + 1 /\ InodeDrift(j) = InodeDrift(i)
    /\ v = FALSE /\ i.inodeBit[x] /\ a = i.available["inodes"] + 1 => InodeDrift(j) = InodeDrift(i)

\* What such a pair does for an inode.
LEMMA InodePair ==
  ASSUME NEW i, IsImage(i), NEW h, IsImage(h), NEW j, IsImage(j),
         NEW x \in Inodes, NEW v \in BOOLEAN, NEW a \in Int,
         Paired(i, h, j, "inodeBit", "dataBit", x, v, "inodes", a)
  PROVE  InodeMoved(i, h, j, x, v, a)
<1>1. /\ h.inodeBit = [i.inodeBit EXCEPT ![x] = v] /\ h.available = i.available
      /\ h.dataBit = i.dataBit
      /\ j.inodeBit = h.inodeBit /\ j.available = [i.available EXCEPT !["inodes"] = a]
      /\ j.dataBit = i.dataBit
  BY DEF Paired
<1>2. i.available \in [{"inodes", "blocks"} -> Int] /\ i.inodeBit \in [Inodes -> BOOLEAN]
  BY ImageTypes
<1>3. j.available["blocks"] = i.available["blocks"] /\ j.available["inodes"] = a
  BY <1>1, <1>2
<1>4. DataBits(h) = DataBits(i) /\ DataBits(j) = DataBits(i) /\ InodeBits(j) = InodeBits(h)
  BY <1>1 DEF DataBits, InodeBits
<1>5. BlockDrift(h) = BlockDrift(i) /\ BlockDrift(j) = BlockDrift(i)
  BY <1>1, <1>3, <1>4 DEF BlockDrift
<1>6. /\ Cardinality(InodeBits(i)) \in Nat /\ Cardinality(InodeBits(h)) \in Nat
      /\ i.available["inodes"] \in Int /\ NumInodes \in Int
  BY DriftInt
<1>7. IsFiniteSet(Inodes)
  <2>1. 0 \in Int /\ NumInodes - 1 \in Int
    BY <1>6
  <2>. QED  BY <2>1, FS_Interval DEF Inodes
<1>8. /\ v /\ ~i.inodeBit[x] => Cardinality(InodeBits(h)) = Cardinality(InodeBits(i)) + 1
      /\ ~v /\ i.inodeBit[x] => Cardinality(InodeBits(h)) = Cardinality(InodeBits(i)) - 1
  BY <1>1, <1>2, <1>7, BitSet DEF InodeBits
<1>9. h.available["inodes"] = i.available["inodes"]
  BY <1>1
<1>10. ASSUME v = TRUE, ~i.inodeBit[x], a = i.available["inodes"] - 1
       PROVE  InodeDrift(h) = InodeDrift(i) + 1 /\ InodeDrift(j) = InodeDrift(i)
  BY <1>3, <1>4, <1>6, <1>8, <1>9, <1>10 DEF InodeDrift
<1>11. ASSUME v = FALSE, i.inodeBit[x], a = i.available["inodes"] + 1
       PROVE  InodeDrift(j) = InodeDrift(i)
  BY <1>3, <1>4, <1>6, <1>8, <1>11 DEF InodeDrift
<1>12. j.inodeBit = [i.inodeBit EXCEPT ![x] = v] /\ j.dataBit = i.dataBit
  BY <1>1
<1>. QED  BY <1>3, <1>5, <1>10, <1>11, <1>12 DEF InodeMoved

\* The same of a block.
BlockMoved(i, h, j, x, v, a) ==
    /\ j.inodeBit = i.inodeBit /\ j.available["inodes"] = i.available["inodes"]
    /\ j.available["blocks"] = a /\ j.dataBit = [i.dataBit EXCEPT ![x] = v]
    /\ InodeDrift(h) = InodeDrift(i) /\ InodeDrift(j) = InodeDrift(i)
    /\ v = TRUE /\ ~i.dataBit[x] /\ a = i.available["blocks"] - 1
         => BlockDrift(h) = BlockDrift(i) + 1 /\ BlockDrift(j) = BlockDrift(i)
    /\ v = FALSE /\ i.dataBit[x] /\ a = i.available["blocks"] + 1 => BlockDrift(j) = BlockDrift(i)

\* What it does for a block.
LEMMA BlockPair ==
  ASSUME NEW i, IsImage(i), NEW h, IsImage(h), NEW j, IsImage(j),
         NEW x \in Blocks, NEW v \in BOOLEAN, NEW a \in Int,
         Paired(i, h, j, "dataBit", "inodeBit", x, v, "blocks", a)
  PROVE  BlockMoved(i, h, j, x, v, a)
<1>1. /\ h.dataBit = [i.dataBit EXCEPT ![x] = v] /\ h.available = i.available
      /\ h.inodeBit = i.inodeBit
      /\ j.dataBit = h.dataBit /\ j.available = [i.available EXCEPT !["blocks"] = a]
      /\ j.inodeBit = i.inodeBit
  BY DEF Paired
<1>2. i.available \in [{"inodes", "blocks"} -> Int] /\ i.dataBit \in [Blocks -> BOOLEAN]
  BY ImageTypes
<1>3. j.available["inodes"] = i.available["inodes"] /\ j.available["blocks"] = a
  BY <1>1, <1>2
<1>4. InodeBits(h) = InodeBits(i) /\ InodeBits(j) = InodeBits(i) /\ DataBits(j) = DataBits(h)
  BY <1>1 DEF DataBits, InodeBits
<1>5. InodeDrift(h) = InodeDrift(i) /\ InodeDrift(j) = InodeDrift(i)
  BY <1>1, <1>3, <1>4 DEF InodeDrift
<1>6. /\ Cardinality(DataBits(i)) \in Nat /\ Cardinality(DataBits(h)) \in Nat
      /\ i.available["blocks"] \in Int /\ NumBlocks \in Int
  BY DriftInt
<1>7. IsFiniteSet(Blocks)
  <2>1. 0 \in Int /\ NumBlocks - 1 \in Int
    BY <1>6
  <2>. QED  BY <2>1, FS_Interval DEF Blocks
<1>8. /\ v /\ ~i.dataBit[x] => Cardinality(DataBits(h)) = Cardinality(DataBits(i)) + 1
      /\ ~v /\ i.dataBit[x] => Cardinality(DataBits(h)) = Cardinality(DataBits(i)) - 1
  BY <1>1, <1>2, <1>7, BitSet DEF DataBits
<1>9. h.available["blocks"] = i.available["blocks"]
  BY <1>1
<1>10. ASSUME v = TRUE, ~i.dataBit[x], a = i.available["blocks"] - 1
       PROVE  BlockDrift(h) = BlockDrift(i) + 1 /\ BlockDrift(j) = BlockDrift(i)
  BY <1>3, <1>4, <1>6, <1>8, <1>9, <1>10 DEF BlockDrift
<1>11. ASSUME v = FALSE, i.dataBit[x], a = i.available["blocks"] + 1
       PROVE  BlockDrift(j) = BlockDrift(i)
  BY <1>3, <1>4, <1>6, <1>8, <1>11 DEF BlockDrift
<1>12. j.dataBit = [i.dataBit EXCEPT ![x] = v] /\ j.inodeBit = i.inodeBit
  BY <1>1
<1>. QED  BY <1>3, <1>5, <1>10, <1>11, <1>12 DEF BlockMoved

=============================================================================
