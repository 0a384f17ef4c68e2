--------------------------- MODULE SanitizerProofs ---------------------------
(***************************************************************************)
(* Proofs about Sanitizer and the blobs it works on, for any number of     *)
(* blobs and blocks and tables of any size.  The invariant counts what     *)
(* holds a blob, and says whose each block is: one live blob's, and every  *)
(* other that shows it is below that one in a chain of parents.  So a blob *)
(* that may be written shares its bytes with nobody.                       *)
(***************************************************************************)
EXTENDS Sanitizer, FiniteSetTheorems, WellFoundedInduction, TLAPS

(* The heap, as constants: B the blobs, K the blocks, H what holds a blob   *)
(* other than its sub-blobs.                                                *)
BlobType == [refs : Nat, data : Block \cup {None}, mode : Modes, fixed : BOOLEAN,
             destroy : {"none", "client", "free", "parent"}, parent : Blob \cup {None}]
BlockType == {"none", "client", "heap"}

Kids(B, b) == {x \in Blob : B[x].refs > 0 /\ B[x].parent = b}
Owns(B, b, k) == B[b].data = k /\ B[b].destroy \in {"client", "free"}

Counted(B, H) == \A b \in Blob : B[b].refs = H[b] + Cardinality(Kids(B, b))

\* A live blob owns its block or shows that of an immutable parent.
Fits(B, K, b) ==
  /\ B[b].refs = 0 => B[b] = Gone
  /\ B[b].refs > 0 =>
       /\ B[b].data \in Block /\ K[B[b].data] # "none"
       /\ \/ B[b].destroy \in {"client", "free"} /\ B[b].parent = None
          \/ /\ B[b].destroy = "parent" /\ B[b].parent \in Blob /\ B[b].mode = "readonly"
             /\ B[B[b].parent].fixed /\ B[B[b].parent].data = B[b].data

Owned(B, K) ==
  /\ \A k \in Block : K[k] # "none" => \E b \in Blob : Owns(B, b, k)
  /\ \A k \in Block : \A b, c \in Blob : Owns(B, b, k) /\ Owns(B, c, k) => b = c

\* Parents go back to a blob without one: no set of blobs is closed under them.
Grounded(B) == \A S \in SUBSET Blob : (\A x \in S : B[x].parent \in S) => S = {}

Sound(B, K, H) ==
  /\ B \in [Blob -> BlobType] /\ K \in [Block -> BlockType] /\ H \in [Blob -> Nat]
  /\ Counted(B, H) /\ (\A b \in Blob : Fits(B, K, b)) /\ Owned(B, K) /\ Grounded(B)

HeldBy(h, f, t) == [b \in Blob |-> h[b] + (IF f = b THEN 1 ELSE 0) + (IF t = b THEN 2 ELSE 0)]
Claims == HeldBy(held, file, table)

SanInv ==
  /\ TypeOK /\ Sound(blob, block, Claims)
  /\ at = "idle" <=> table = None
  /\ type = "file" => file = None
  /\ writable => table # None /\ blob[table].mode = "writable" /\ ~blob[table].fixed
  /\ AcceptedIsSane
-----------------------------------------------------------------------------
(* What holds in a sound heap.                                              *)

LEMMA SoundTypes ==
  ASSUME NEW B, NEW K, NEW H, Sound(B, K, H)
  PROVE  /\ B \in [Blob -> BlobType] /\ K \in [Block -> BlockType] /\ H \in [Blob -> Nat]
         /\ \A x \in Blob : B[x] \in BlobType /\ B[x].refs \in Nat /\ H[x] \in Nat
         /\ \A x \in Blob : B[x].mode = "readonly" \/ B[x].destroy # "parent"
<1>1. B \in [Blob -> BlobType] /\ K \in [Block -> BlockType] /\ H \in [Blob -> Nat]
  BY DEF Sound
<1>2. \A x \in Blob : B[x] \in BlobType /\ H[x] \in Nat
  BY <1>1
<1>3. \A x \in Blob : B[x].refs \in Nat
  BY <1>2 DEF BlobType
<1>4. ASSUME NEW x \in Blob PROVE B[x].mode = "readonly" \/ B[x].destroy # "parent"
  <2>1. Fits(B, K, x)
    BY DEF Sound
  <2>2. B[x].refs = 0 \/ B[x].refs > 0
    BY <1>3
  <2> QED BY <2>1, <2>2 DEF Fits, Gone
<1> QED BY <1>1, <1>2, <1>3, <1>4

LEMMA KidsFinite ==
  ASSUME NEW B, NEW b
  PROVE  /\ IsFiniteSet(Kids(B, b)) /\ Cardinality(Kids(B, b)) \in Nat
         /\ Cardinality(Kids(B, b)) = 0 <=> Kids(B, b) = {}
<1>1. Kids(B, b) \in SUBSET Blob
  BY DEF Kids
<1>2. IsFiniteSet(Kids(B, b))
  BY <1>1, HBBlobAssumption, FS_Subset
<1> QED BY <1>2, FS_CardinalityType, FS_EmptySet

\* What has a live sub-blob, or is held, is live.
LEMMA HeldIsLive ==
  ASSUME NEW B, NEW K, NEW H, Sound(B, K, H), NEW b \in Blob
  PROVE  /\ H[b] \in Nat /\ B[b].refs \in Nat
         /\ H[b] > 0 => B[b].refs > 0
         /\ Kids(B, b) # {} => B[b].refs > H[b]
         /\ B[b].refs = 0 => H[b] = 0 /\ Kids(B, b) = {}
<1>1. B[b].refs = H[b] + Cardinality(Kids(B, b)) /\ H[b] \in Nat
  BY DEF Sound, Counted
<1>2. PICK n \in Nat : n = Cardinality(Kids(B, b)) /\ (n = 0 <=> Kids(B, b) = {})
  BY KidsFinite
<1> QED BY <1>1, <1>2

LEMMA ParentIsLive ==
  ASSUME NEW B, NEW K, NEW H, Sound(B, K, H), NEW b \in Blob, B[b].refs > 0, B[b].parent # None
  PROVE  B[b].parent \in Blob /\ B[B[b].parent].refs > H[B[b].parent]
<1>1. B[b].parent \in Blob
  BY DEF Sound, Fits
<1>2. b \in Kids(B, B[b].parent)
  BY DEF Kids
<1> QED BY <1>1, <1>2, HeldIsLive

\* The owner of a block shares it only with blobs below it; so, if it is not
\* immutable, with nobody.
LEMMA OwnerAlone ==
  ASSUME NEW B, NEW K, NEW H, Sound(B, K, H), NEW b \in Blob, B[b].refs > 0,
         B[b].destroy # "parent", ~B[b].fixed
  PROVE  \A x \in Blob : B[x].refs > 0 /\ B[x].data = B[b].data => x = b
<1> DEFINE S == {x \in Blob : B[x].refs > 0 /\ B[x].data = B[b].data /\ x # b}
<1>1. Owns(B, b, B[b].data) /\ B[b].data \in Block
  BY DEF Sound, Fits, Owns
<1>2. ASSUME NEW x \in S PROVE B[x].parent \in S
  <2>1. x \in Blob /\ B[x].refs > 0 /\ B[x].data = B[b].data /\ x # b
    OBVIOUS
  <2>2. ~Owns(B, x, B[b].data)
    BY <1>1, <2>1 DEF Sound, Owned
  <2>3. /\ B[x].destroy = "parent" /\ B[x].parent \in Blob
        /\ B[B[x].parent].fixed /\ B[B[x].parent].data = B[x].data
    BY <2>1, <2>2 DEF Sound, Fits, Owns
  <2>4. B[B[x].parent].refs > 0
    BY <2>1, <2>3, ParentIsLive, HeldIsLive, HBBlobAssumption
  <2> QED BY <2>1, <2>3, <2>4
<1>3. S = {}
  <2>1. S \in SUBSET Blob
    OBVIOUS
  <2> HIDE DEF S
  <2> QED BY <1>2, <2>1 DEF Sound, Grounded
<1> QED BY <1>3

-----------------------------------------------------------------------------
(* Changes that leave the blobs and what they show where they are.          *)

LEMMA SoundKept ==
  ASSUME NEW B, NEW K, NEW H, Sound(B, K, H),
         NEW B2 \in [Blob -> BlobType], NEW H2 \in [Blob -> Nat],
         \A x \in Blob :
           /\ B2[x].parent = B[x].parent /\ B2[x].data = B[x].data /\ B2[x].destroy = B[x].destroy
           /\ B2[x].refs > 0 <=> B[x].refs > 0
           /\ B2[x].refs - H2[x] = B[x].refs - H[x]
           /\ B[x].refs = 0 => B2[x] = B[x]
           /\ B[x].fixed => B2[x].fixed
           /\ B2[x].mode = "readonly" \/ B[x].destroy # "parent"
  PROVE  Sound(B2, K, H2)
<1> USE DEF Sound
<1>1. \A x \in Blob : Kids(B2, x) = Kids(B, x)
  BY DEF Kids
<1>2. Counted(B2, H2)
  <2> SUFFICES ASSUME NEW x \in Blob PROVE B2[x].refs = H2[x] + Cardinality(Kids(B2, x))
    BY DEF Counted
  <2>1. PICK n \in Nat : n = Cardinality(Kids(B, x))
    BY KidsFinite
  <2>2. B[x].refs = H[x] + n /\ B2[x].refs - H2[x] = B[x].refs - H[x]
    BY <2>1 DEF Counted
  <2>3. B[x].refs \in Nat /\ B2[x].refs \in Nat /\ H[x] \in Nat /\ H2[x] \in Nat
    BY DEF BlobType
  <2> QED BY <1>1, <2>1, <2>2, <2>3
<1>3. ASSUME NEW x \in Blob PROVE Fits(B2, K, x)
  <2>1. Fits(B, K, x)
    OBVIOUS
  <2>2. B[x].refs \in Nat /\ B2[x].refs \in Nat
    BY DEF BlobType
  <2>3. CASE B2[x].refs = 0
    BY <2>1, <2>2, <2>3 DEF Fits
  <2>4. CASE B2[x].refs > 0
    <3>1. B[x].refs > 0
      BY <2>4
    <3>2. CASE B[x].destroy \in {"client", "free"} /\ B[x].parent = None
      BY <2>1, <2>4, <3>1, <3>2 DEF Fits
    <3>3. CASE /\ B[x].destroy = "parent" /\ B[x].parent \in Blob
               /\ B[B[x].parent].fixed /\ B[B[x].parent].data = B[x].data
      BY <2>1, <2>4, <3>1, <3>3 DEF Fits
    <3> QED BY <2>1, <3>1, <3>2, <3>3 DEF Fits
  <2> QED BY <2>2, <2>3, <2>4
<1>4. Owned(B2, K)
  <2>1. \A x \in Blob : \A k : Owns(B2, x, k) <=> Owns(B, x, k)
    BY DEF Owns
  <2> QED BY <2>1 DEF Owned
<1>5. Grounded(B2)
  <2> SUFFICES ASSUME NEW S \in SUBSET Blob, \A x \in S : B2[x].parent \in S PROVE S = {}
    BY DEF Grounded
  <2>1. \A x \in S : B[x].parent \in S
    OBVIOUS
  <2> QED BY <2>1 DEF Grounded
<1> QED BY <1>2, <1>3, <1>4, <1>5

\* n more owners take a reference each
LEMMA SoundReferenced ==
  ASSUME NEW B, NEW K, NEW H, Sound(B, K, H), NEW b \in Blob, B[b].refs > 0, NEW n \in Nat
  PROVE  Sound([B EXCEPT ![b].refs = @ + n], K, [H EXCEPT ![b] = @ + n])
<1>1. /\ B \in [Blob -> BlobType] /\ H \in [Blob -> Nat]
      /\ B[b] \in BlobType /\ B[b].refs \in Nat /\ H[b] \in Nat
  BY SoundTypes
<1>2. PICK f \in BlobType : f = [B[b] EXCEPT !.refs = @ + n]
  <2>1. PICK r \in BlobType : r = B[b]
    BY <1>1
  <2>2. [r EXCEPT !.refs = @ + n] \in BlobType
    BY DEF BlobType
  <2> QED BY <2>1, <2>2
<1>3. PICK B2 \in [Blob -> BlobType] : B2 = [B EXCEPT ![b] = f]
  BY <1>1
<1>4. PICK H2 \in [Blob -> Nat] : H2 = [H EXCEPT ![b] = @ + n]
  <2>1. H \in [Blob -> Nat]
    BY <1>1
  <2>2. [H EXCEPT ![b] = @ + n] \in [Blob -> Nat]
    BY <2>1
  <2> QED BY <2>2
<1>5. /\ \A x \in Blob \ {b} : B2[x] = B[x] /\ H2[x] = H[x]
      /\ B2[b] = f /\ H2[b] = H[b] + n
  BY <1>1, <1>3, <1>4
<1>6. /\ f.parent = B[b].parent /\ f.data = B[b].data /\ f.destroy = B[b].destroy
      /\ f.refs = B[b].refs + n /\ f.fixed = B[b].fixed /\ f.mode = B[b].mode
  BY <1>1, <1>2 DEF BlobType
<1>7. \A x \in Blob : B[x].refs \in Nat /\ H[x] \in Nat /\ (B[x].mode = "readonly" \/ B[x].destroy # "parent")
  BY SoundTypes
<1>8. ASSUME NEW x \in Blob
      PROVE  /\ B2[x].parent = B[x].parent /\ B2[x].data = B[x].data /\ B2[x].destroy = B[x].destroy
             /\ B2[x].refs > 0 <=> B[x].refs > 0
             /\ B2[x].refs - H2[x] = B[x].refs - H[x]
             /\ B[x].refs = 0 => B2[x] = B[x]
             /\ B[x].fixed => B2[x].fixed
             /\ B2[x].mode = "readonly" \/ B[x].destroy # "parent"
  <2>1. CASE x = b
    BY <1>1, <1>5, <1>6, <1>7, <2>1
  <2>2. CASE x # b
    BY <1>5, <1>7, <2>2
  <2> QED BY <2>1, <2>2
<1>9. Sound(B2, K, H2)
  BY <1>8, SoundKept
<1> QED BY <1>2, <1>3, <1>4, <1>9

\* A blob becomes immutable, or changes its mode
LEMMA SoundSet ==
  ASSUME NEW B, NEW K, NEW H, Sound(B, K, H), NEW b \in Blob, B[b].refs > 0, NEW f \in BlobType,
         f.parent = B[b].parent, f.data = B[b].data, f.destroy = B[b].destroy,
         f.refs = B[b].refs, B[b].fixed => f.fixed,
         f.mode = "readonly" \/ B[b].destroy # "parent"
  PROVE  Sound([B EXCEPT ![b] = f], K, H)
<1>1. B \in [Blob -> BlobType] /\ H \in [Blob -> Nat]
  BY DEF Sound
<1>2. PICK B2 \in [Blob -> BlobType] : B2 = [B EXCEPT ![b] = f]
  BY <1>1
<1>3. B2[b] = f /\ \A x \in Blob \ {b} : B2[x] = B[x]
  BY <1>1, <1>2
<1>4. \A x \in Blob : B[x].refs \in Nat /\ H[x] \in Nat /\ (B[x].mode = "readonly" \/ B[x].destroy # "parent")
  BY SoundTypes
<1>5. Sound(B2, K, H)
  BY <1>1, <1>3, <1>4, SoundKept
<1> QED BY <1>2, <1>5

\* hb_blob_create: a blob over a block nobody had
LEMMA SoundCreated ==
  ASSUME NEW B, NEW K, NEW H, Sound(B, K, H), NEW b \in Blob, B[b].refs = 0,
         NEW k \in Block, K[k] = "none", NEW f \in BlobType, NEW owner \in {"client", "heap"},
         f.refs = 1, f.data = k, f.destroy \in {"client", "free"}, f.parent = None
  PROVE  Sound([B EXCEPT ![b] = f], [K EXCEPT ![k] = owner], [H EXCEPT ![b] = 1])
<1>1. /\ B \in [Blob -> BlobType] /\ K \in [Block -> BlockType] /\ H \in [Blob -> Nat]
      /\ \A x \in Blob : B[x].refs \in Nat /\ H[x] \in Nat
  BY SoundTypes
<1>2. PICK B2 \in [Blob -> BlobType] : B2 = [B EXCEPT ![b] = f]
  BY <1>1
<1>3. PICK H2 \in [Blob -> Nat] : H2 = [H EXCEPT ![b] = 1]
  BY <1>1
<1>4. PICK K2 \in [Block -> BlockType] : K2 = [K EXCEPT ![k] = owner]
  BY <1>1 DEF BlockType
<1>5. /\ \A x \in Blob \ {b} : B2[x] = B[x] /\ H2[x] = H[x]
      /\ B2[b] = f /\ H2[b] = 1
      /\ \A x \in Block \ {k} : K2[x] = K[x]
      /\ K2[k] # "none"
  BY <1>1, <1>2, <1>3, <1>4
<1>6. None \notin Blob /\ None \notin Block
  BY HBBlobAssumption
<1>7. ASSUME NEW x \in Blob PROVE Kids(B2, x) = Kids(B, x)
  <2>1. x # None
    BY <1>6
  <2> QED BY <1>5, <2>1 DEF Kids
<1>8. Counted(B2, H2)
  <2> SUFFICES ASSUME NEW x \in Blob PROVE B2[x].refs = H2[x] + Cardinality(Kids(B2, x))
    BY DEF Counted
  <2>1. CASE x = b
    <3>1. Kids(B, b) = {} /\ Cardinality({}) = 0
      BY HeldIsLive, FS_EmptySet
    <3> QED BY <1>5, <1>7, <2>1, <3>1
  <2>2. CASE x # b
    BY <1>5, <1>7, <2>2 DEF Sound, Counted
  <2> QED BY <2>1, <2>2
<1>9. ASSUME NEW x \in Blob PROVE Fits(B2, K2, x)
  <2>1. CASE x = b
    BY <1>5, <2>1 DEF Fits
  <2>2. CASE x # b
    <3>1. Fits(B, K, x) /\ B2[x] = B[x]
      BY <1>5, <2>2 DEF Sound
    <3>2. B[x].refs > 0 => K2[B[x].data] # "none"
      BY <1>5, <3>1 DEF Fits
    <3>3. B[x].refs > 0 /\ B[x].parent # None => B[x].parent # b
      BY ParentIsLive, HeldIsLive
    <3>4. B[x].refs > 0 /\ B[x].parent \in Blob => B2[B[x].parent] = B[B[x].parent]
      BY <1>5, <1>6, <3>3
    <3> QED BY <3>1, <3>2, <3>4 DEF Fits
  <2> QED BY <2>1, <2>2
<1>10. Owned(B2, K2)
  <2>1. \A x \in Blob : B[x].data = k => B[x].destroy \notin {"client", "free"}
    <3> SUFFICES ASSUME NEW x \in Blob, B[x].data = k, B[x].destroy \in {"client", "free"} PROVE FALSE
      OBVIOUS
    <3>1. Fits(B, K, x) /\ B[x].refs \in Nat
      BY <1>1 DEF Sound
    <3> QED BY <3>1 DEF Fits, Gone
  <2>2. \A x \in Blob, j \in Block : Owns(B2, x, j) <=> (x = b /\ j = k) \/ (j # k /\ Owns(B, x, j))
    <3> TAKE x \in Blob, j \in Block
    <3>1. CASE x = b
      <4>1. ~Owns(B, b, j)
        <5>1. Fits(B, K, b)
          BY DEF Sound
        <5> QED BY <5>1 DEF Fits, Gone, Owns
      <4> QED BY <1>5, <3>1, <4>1 DEF Owns
    <3>2. CASE x # b
      BY <1>5, <2>1, <3>2 DEF Owns
    <3> QED BY <3>1, <3>2
  <2>3. Owned(B, K)
    BY DEF Sound
  <2> QED BY <1>5, <2>2, <2>3 DEF Owned
<1>11. Grounded(B2)
  <2> SUFFICES ASSUME NEW S \in SUBSET Blob, \A x \in S : B2[x].parent \in S PROVE S = {}
    BY DEF Grounded
  <2>1. b \notin S
    BY <1>5, <1>6
  <2>2. \A x \in S : B[x].parent \in S
    BY <1>5, <2>1
  <2> QED BY <2>2 DEF Sound, Grounded
<1>12. Sound(B2, K2, H2)
  BY <1>8, <1>9, <1>10, <1>11 DEF Sound
<1> QED BY <1>2, <1>3, <1>4, <1>12

\* hb_blob_create_sub_blob: b shows the bytes of p and holds a reference to it
LEMMA SoundSub ==
  ASSUME NEW B, NEW K, NEW H, Sound(B, K, H), NEW b \in Blob, B[b].refs = 0,
         NEW p \in Blob, B[p].refs > 0, NEW g \in BlobType, NEW f \in BlobType, NEW n \in Nat, n > 0,
         g.fixed, g.refs = B[p].refs + 1, g.data = B[p].data, g.mode = B[p].mode,
         g.destroy = B[p].destroy, g.parent = B[p].parent,
         f.refs = n, f.data = B[p].data, f.mode = "readonly", f.destroy = "parent", f.parent = p
  PROVE  Sound([B EXCEPT ![p] = g, ![b] = f], K, [H EXCEPT ![b] = n])
<1>1. /\ B \in [Blob -> BlobType] /\ K \in [Block -> BlockType] /\ H \in [Blob -> Nat]
      /\ \A x \in Blob : B[x].refs \in Nat /\ H[x] \in Nat
      /\ \A x \in Blob : B[x].mode = "readonly" \/ B[x].destroy # "parent"
  BY SoundTypes
<1>2. PICK B2 \in [Blob -> BlobType] : B2 = [B EXCEPT ![p] = g, ![b] = f]
  BY <1>1
<1>3. PICK H2 \in [Blob -> Nat] : H2 = [H EXCEPT ![b] = n]
  BY <1>1
<1>4. p # b
  OBVIOUS
<1>5. /\ \A x \in Blob \ {b, p} : B2[x] = B[x]
      /\ \A x \in Blob \ {b} : H2[x] = H[x]
      /\ B2[b] = f /\ B2[p] = g /\ H2[b] = n
  BY <1>1, <1>2, <1>3, <1>4
<1>6. /\ \A x \in Blob \ {p} : Kids(B2, x) = Kids(B, x)
      /\ Kids(B2, p) = Kids(B, p) \cup {b} /\ b \notin Kids(B, p)
  BY <1>1, <1>4, <1>5 DEF Kids
<1>7. Counted(B2, H2)
  <2> SUFFICES ASSUME NEW x \in Blob PROVE B2[x].refs = H2[x] + Cardinality(Kids(B2, x))
    BY DEF Counted
  <2>1. CASE x = b
    <3>1. Kids(B, b) = {} /\ Cardinality({}) = 0
      BY HeldIsLive, FS_EmptySet
    <3> QED BY <1>4, <1>5, <1>6, <2>1, <3>1
  <2>2. CASE x = p
    <3>1. PICK N : N = Kids(B, p)
      OBVIOUS
    <3>2. IsFiniteSet(N) /\ Cardinality(N) \in Nat
      BY <3>1, KidsFinite
    <3>3. Cardinality(N \cup {b}) = Cardinality(N) + 1
      BY <1>6, <3>1, <3>2, FS_AddElement
    <3>4. B[p].refs = H[p] + Cardinality(N)
      BY <3>1 DEF Sound, Counted
    <3>5. PICK c \in Nat : c = Cardinality(N)
      BY <3>2
    <3>6. Cardinality(Kids(B2, p)) = c + 1
      BY <1>6, <3>1, <3>3, <3>5
    <3>7. B2[p].refs = (H[p] + c) + 1 /\ H2[p] = H[p] /\ H[p] \in Nat
      BY <1>1, <1>4, <1>5, <3>4, <3>5
    <3> QED BY <2>2, <3>5, <3>6, <3>7
  <2>3. CASE x \notin {b, p}
    BY <1>5, <1>6, <2>3 DEF Sound, Counted
  <2> QED BY <2>1, <2>2, <2>3
<1>8. ASSUME NEW x \in Blob PROVE Fits(B2, K, x)
  <2>1. Fits(B, K, p)
    BY DEF Sound
  <2>2. CASE x = b
    <3>1. B[p].data \in Block /\ K[B[p].data] # "none"
      BY <2>1 DEF Fits
    <3> QED BY <1>4, <1>5, <2>2, <3>1 DEF Fits
  <2>3. CASE x # b
    <3>1. Fits(B, K, x)
      BY DEF Sound
    <3>2. B[x].refs > 0 /\ B[x].parent # None => B[x].parent # b
      BY ParentIsLive, HeldIsLive
    <3>3. /\ B2[x].data = B[x].data /\ B2[x].destroy = B[x].destroy
          /\ B2[x].parent = B[x].parent /\ B2[x].mode = B[x].mode
          /\ B2[x].refs > 0 <=> B[x].refs > 0
          /\ B2[x].refs = 0 => B2[x] = B[x]
      BY <1>1, <1>5, <2>3
    <3>4. B[x].refs > 0 /\ B[x].parent \in Blob =>
            /\ B2[B[x].parent].data = B[B[x].parent].data
            /\ B[B[x].parent].fixed => B2[B[x].parent].fixed
      BY <1>5, <3>2, HBBlobAssumption
    <3>5. CASE B[x].refs = 0
      BY <3>1, <3>3, <3>5 DEF Fits
    <3>6. CASE B[x].refs > 0
      <4>1. B2[x].refs > 0 /\ B[x].data \in Block /\ K[B[x].data] # "none"
        BY <3>1, <3>3, <3>6 DEF Fits
      <4>2. CASE B[x].destroy \in {"client", "free"} /\ B[x].parent = None
        BY <3>3, <4>1, <4>2 DEF Fits
      <4>3. CASE /\ B[x].destroy = "parent" /\ B[x].parent \in Blob /\ B[x].mode = "readonly"
                 /\ B[B[x].parent].fixed /\ B[B[x].parent].data = B[x].data
        BY <3>3, <3>4, <3>6, <4>1, <4>3 DEF Fits
      <4> QED BY <3>1, <3>6, <4>2, <4>3 DEF Fits
    <3> QED BY <1>1, <3>5, <3>6
  <2> QED BY <2>2, <2>3
<1>9. Owned(B2, K)
  <2>1. Fits(B, K, b)
    BY DEF Sound
  <2>2. ~\E j : Owns(B, b, j)
    BY <2>1 DEF Fits, Gone, Owns
  <2>3. \A x \in Blob : \A j : Owns(B2, x, j) <=> Owns(B, x, j)
    BY <1>4, <1>5, <2>2 DEF Owns
  <2> QED BY <2>3 DEF Owned, Sound
<1>10. Grounded(B2)
  <2> SUFFICES ASSUME NEW S \in SUBSET Blob, \A x \in S : B2[x].parent \in S PROVE S = {}
    BY DEF Grounded
  <2>1. ASSUME NEW x \in S \ {b} PROVE B[x].parent \in S \ {b}
    <3>1. B[x].parent \in S
      BY <1>5
    <3>2. B[x].refs = 0 => B[x].parent = None
      BY DEF Sound, Fits, Gone
    <3>3. B[x].parent # None
      BY <3>1, HBBlobAssumption
    <3>4. B[x].parent # b
      BY <1>1, <3>2, <3>3, ParentIsLive, HeldIsLive
    <3> QED BY <3>1, <3>4
  <2>2. S \ {b} = {}
    <3>1. PICK T \in SUBSET Blob : T = S \ {b}
      OBVIOUS
    <3> QED BY <2>1, <3>1 DEF Sound, Grounded
  <2>3. b \in S => p \in S
    BY <1>5
  <2> QED BY <1>4, <2>2, <2>3
<1>11. Sound(B2, K, H2)
  BY <1>1, <1>7, <1>8, <1>9, <1>10 DEF Sound
<1> QED BY <1>2, <1>3, <1>11
-----------------------------------------------------------------------------
(* A dropped reference.  The blobs that lose one are a path along parents:  *)
(* each but the first loses that of exactly one blob that dies.             *)

LEMMA LosingLeast ==
  ASSUME NEW h, \A x \in Blob : h.blob[x].parent \in Blob \cup {None}, NEW b \in Blob
  PROVE  /\ b \in Losing(h, b) /\ Losing(h, b) \subseteq Blob
         /\ PassesOn(h, Losing(h, b))
         /\ \A xs \in SUBSET Blob : b \in xs /\ PassesOn(h, xs) => Losing(h, b) \subseteq xs
<1>1. PassesOn(h, Blob)
  BY DEF PassesOn
<1>2. b \in Losing(h, b) /\ Losing(h, b) \subseteq Blob
  BY DEF Losing
<1>3. \A xs \in SUBSET Blob : b \in xs /\ PassesOn(h, xs) => Losing(h, b) \subseteq xs
  BY DEF Losing
<1>4. ASSUME NEW x \in Losing(h, b), ~(h.blob[x].refs > 1), h.blob[x].parent # None
      PROVE  h.blob[x].parent \in Losing(h, b)
  <2>1. x \in Blob /\ h.blob[x].parent \in Blob
    BY <1>2, <1>4
  <2>2. ASSUME NEW xs \in SUBSET Blob, b \in xs, PassesOn(h, xs) PROVE h.blob[x].parent \in xs
    <3>1. x \in xs
      BY <1>3, <2>2
    <3> QED BY <1>4, <2>2, <3>1 DEF PassesOn
  <2> QED BY <2>1, <2>2 DEF Losing
<1>5. PassesOn(h, Losing(h, b))
  BY <1>4 DEF PassesOn
<1> QED BY <1>2, <1>3, <1>5

LEMMA LosingNext ==
  ASSUME NEW h, \A x \in Blob : h.blob[x].parent \in Blob \cup {None}, NEW b \in Blob
  PROVE  /\ h.blob[b].refs > 1 \/ h.blob[b].parent = None => Losing(h, b) = {b}
         /\ h.blob[b].parent # None => Losing(h, b) \subseteq {b} \cup Losing(h, h.blob[b].parent)
<1>1. ASSUME h.blob[b].refs > 1 \/ h.blob[b].parent = None PROVE Losing(h, b) = {b}
  <2>1. PassesOn(h, {b})
    BY <1>1 DEF PassesOn
  <2> QED BY <2>1, LosingLeast
<1>2. ASSUME h.blob[b].parent # None
      PROVE  Losing(h, b) \subseteq {b} \cup Losing(h, h.blob[b].parent)
  <2>1. PICK p \in Blob : p = h.blob[b].parent
    BY <1>2
  <2>2. p \in Losing(h, p) /\ PassesOn(h, Losing(h, p)) /\ Losing(h, p) \subseteq Blob
    BY LosingLeast
  <2>3. PassesOn(h, {b} \cup Losing(h, p))
    BY <2>1, <2>2 DEF PassesOn
  <2>4. {b} \cup Losing(h, p) \in SUBSET Blob
    BY <2>2
  <2>5. Losing(h, b) \subseteq {b} \cup Losing(h, p)
    BY <2>3, <2>4, LosingLeast
  <2> QED BY <2>1, <2>5
<1> QED BY <1>1, <1>2

LEMMA LosingPath ==
  ASSUME NEW B, NEW K, NEW H, Sound(B, K, H), NEW h, h.blob = B, NEW b \in Blob, H[b] > 0
  PROVE  /\ \A x \in Losing(h, b) : x \in Blob /\ B[x].refs > 0
         /\ \A x \in Losing(h, b) \ {b} :
              \E y \in Losing(h, b) : B[y].refs = 1 /\ B[y].parent = x
         /\ \A x, y \in Losing(h, b) :
              B[x].refs = 1 /\ B[y].refs = 1 /\ B[x].parent = B[y].parent /\ B[x].parent # None
                => x = y
         /\ \A y \in Losing(h, b) : B[y].refs = 1 => B[y].parent # b
<1> DEFINE L == Losing(h, b)
<1>0. /\ \A x \in Blob : B[x].refs \in Nat /\ H[x] \in Nat
      /\ \A x \in Blob : B[x].parent \in Blob \cup {None}
  <2>1. \A x \in Blob : B[x] \in BlobType /\ B[x].refs \in Nat /\ H[x] \in Nat
    BY SoundTypes
  <2> QED BY <2>1 DEF BlobType
<1>1. /\ b \in L /\ L \subseteq Blob /\ PassesOn(h, L)
      /\ \A xs \in SUBSET Blob : b \in xs /\ PassesOn(h, xs) => L \subseteq xs
  BY <1>0, LosingLeast
<1>2. \A x \in Blob : B[x].refs > 0 /\ B[x].parent # None => B[B[x].parent].refs > H[B[x].parent]
  BY ParentIsLive
<1>3. \A x \in L : B[x].refs > 0
  <2> DEFINE S == {x \in L : B[x].refs > 0}
  <2>1. b \in S
    BY <1>1, HeldIsLive
  <2>2. ASSUME NEW x \in S
        PROVE  h.blob[x].refs > 1 \/ h.blob[x].parent = None \/ h.blob[x].parent \in S
    <3>1. h.blob[x].refs > 1 \/ h.blob[x].parent = None \/ h.blob[x].parent \in L
      BY <1>1 DEF PassesOn
    <3>2. B[x].parent # None => B[B[x].parent].refs > 0
      BY <1>0, <1>1, <1>2
    <3> QED BY <3>1, <3>2
  <2>3. PassesOn(h, S)
    BY <2>2 DEF PassesOn
  <2>4. S \in SUBSET Blob
    BY <1>1
  <2>5. L \subseteq S
    BY <1>1, <2>1, <2>3, <2>4
  <2> QED BY <2>5
<1>4. ASSUME NEW x \in L \ {b}
      PROVE  \E y \in L : B[y].refs = 1 /\ B[y].parent = x
  <2> SUFFICES ASSUME \A y \in L : ~(B[y].refs = 1 /\ B[y].parent = x) PROVE FALSE
    OBVIOUS
  <2> DEFINE S == L \ {x}
  <2>1. ASSUME NEW y \in S
        PROVE  h.blob[y].refs > 1 \/ h.blob[y].parent = None \/ h.blob[y].parent \in S
    <3>1. B[y].refs > 1 \/ B[y].parent = None \/ B[y].parent \in L
      BY <1>1 DEF PassesOn
    <3>2. B[y].refs > 1 \/ B[y].refs = 1
      BY <1>0, <1>1, <1>3
    <3> QED BY <3>1, <3>2
  <2>2. PassesOn(h, S) /\ S \in SUBSET Blob /\ b \in S
    BY <1>1, <2>1 DEF PassesOn
  <2> QED BY <1>1, <2>2
<1>5. ASSUME NEW y \in L, B[y].refs = 1, B[y].parent = b PROVE FALSE
  <2>1. B[b].refs > 1
    BY <1>0, <1>1, <1>2, <1>5, HBBlobAssumption
  <2>2. L = {b}
    BY <1>0, <2>1, LosingNext
  <2> QED BY <1>5, <2>1, <2>2
<1>6. ASSUME NEW x \in L, NEW y \in L, B[x].refs = 1, B[y].refs = 1,
             B[x].parent = B[y].parent, B[x].parent # None, x # y
      PROVE  FALSE
  <2>1. PICK p \in Blob : p = B[x].parent /\ p = B[y].parent
    BY <1>0, <1>1, <1>6
  <2>2. B[p].refs > 1
    <3>1. {x, y} \subseteq Kids(B, p)
      BY <1>1, <1>6, <2>1 DEF Kids
    <3>2. PICK N : N = Kids(B, p)
      OBVIOUS
    <3>3. IsFiniteSet(N) /\ Cardinality(N) \in Nat
      BY <3>2, KidsFinite
    <3>4. PICK M : M = N \ {x}
      OBVIOUS
    <3>5. IsFiniteSet(M) /\ Cardinality(M) = Cardinality(N) - 1
      BY <1>6, <3>1, <3>2, <3>3, <3>4, FS_RemoveElement
    <3>6. Cardinality(M) \in Nat /\ Cardinality(M) # 0
      BY <1>6, <3>1, <3>2, <3>4, <3>5, FS_EmptySet, FS_CardinalityType
    <3>7. B[p].refs = H[p] + Cardinality(N)
      BY <3>2 DEF Sound, Counted
    <3> QED BY <1>0, <3>3, <3>5, <3>6, <3>7
  <2>3. Losing(h, p) = {p}
    BY <1>0, <2>2, LosingNext
  <2>4. Losing(h, x) \subseteq {x, p} /\ Losing(h, y) \subseteq {y, p}
    BY <1>0, <1>1, <1>6, <2>1, <2>3, LosingNext
  <2>5. x # p /\ y # p
    BY <1>6, <2>2
  <2> DEFINE S == {z \in Blob : x \in Losing(h, z) /\ y \in Losing(h, z)}
  <2>6. ASSUME NEW z \in S
        PROVE  h.blob[z].refs > 1 \/ h.blob[z].parent = None \/ h.blob[z].parent \in S
    <3>1. z # x /\ z # y
      BY <1>6, <2>4, <2>5
    <3>2. CASE h.blob[z].parent # None
      <4>1. h.blob[z].parent \in Blob /\ Losing(h, z) \subseteq {z} \cup Losing(h, h.blob[z].parent)
        BY <1>0, <3>2, LosingNext
      <4> QED BY <3>1, <4>1
    <3> QED BY <3>2
  <2>7. PassesOn(h, S)
    BY <2>6 DEF PassesOn
  <2>8. b \in S /\ S \in SUBSET Blob
    BY <1>6
  <2>9. x \in S
    BY <1>1, <1>6, <2>7, <2>8
  <2> QED BY <1>6, <2>4, <2>5, <2>9
<1> QED BY <1>1, <1>3, <1>4, <1>5, <1>6

\* The heap D shows of the blobs xs that live in it, and of the blocks js that
\* are still there, what B and K do.
Spares(D, B, K, xs, js) ==
  /\ \A x \in xs : D.blob[x].refs > 0 =>
       D.blob[x].data = B[x].data /\ D.blob[x].mode = B[x].mode /\ D.blob[x].fixed = B[x].fixed
  /\ \A j \in js : D.block[j] \in {"none", K[j]}

LEMMA SoundDropped ==
  ASSUME NEW B, NEW K, NEW H, Sound(B, K, H), NEW h, h.blob = B, h.block = K,
         NEW b \in Blob, H[b] > 0
  PROVE  /\ Sound(Dropped(h, b).blob, Dropped(h, b).block, [H EXCEPT ![b] = @ - 1])
         /\ Spares(Dropped(h, b), B, K, Blob, Block)
<1> DEFINE L == Losing(h, b)
           Y == {y \in L : B[y].refs = 1}
           D == Dropped(h, b)
<1>0. /\ B \in [Blob -> BlobType] /\ K \in [Block -> BlockType] /\ H \in [Blob -> Nat]
      /\ \A x \in Blob : B[x] \in BlobType /\ B[x].refs \in Nat /\ H[x] \in Nat
      /\ \A x \in Blob : B[x].parent \in Blob \cup {None}
  <2>1. /\ B \in [Blob -> BlobType] /\ K \in [Block -> BlockType] /\ H \in [Blob -> Nat]
        /\ \A x \in Blob : B[x] \in BlobType /\ B[x].refs \in Nat /\ H[x] \in Nat
    BY SoundTypes
  <2> QED BY <2>1 DEF BlobType
<1>1. /\ b \in L /\ L \subseteq Blob
      /\ \A x \in L : B[x].refs > 1 \/ B[x].parent = None \/ B[x].parent \in L
  <2>1. /\ b \in L /\ L \subseteq Blob /\ PassesOn(h, L)
    BY <1>0, LosingLeast
  <2> QED BY <2>1 DEF PassesOn
<1>2. /\ \A x \in L : B[x].refs > 0
      /\ \A x \in L \ {b} : \E y \in Y : B[y].parent = x
      /\ \A x, y \in Y : B[x].parent = B[y].parent /\ B[x].parent # None => x = y
      /\ \A y \in Y : B[y].parent # b
  BY LosingPath
<1>3. /\ D.blob = [x \in Blob |-> IF x \notin L THEN B[x]
                                 ELSE IF B[x].refs = 1 THEN Gone
                                 ELSE [B[x] EXCEPT !.refs = @ - 1]]
      /\ D.block = [k \in Block |-> IF \E x \in Y : B[x].data = k /\ B[x].destroy \in {"client", "free"}
                                    THEN "none" ELSE K[k]]
  BY DEF Dropped, BytesGivenBack
<1>4. PICK B2 : B2 = D.blob
  OBVIOUS
<1>5. PICK K2 \in [Block -> BlockType] : K2 = D.block
  <2>1. D.block \in [Block -> BlockType]
    BY <1>0, <1>3 DEF BlockType
  <2> QED BY <2>1
<1>6. PICK H2 \in [Blob -> Nat] : H2 = [H EXCEPT ![b] = @ - 1]
  <2>1. H[b] - 1 \in Nat
    BY <1>0
  <2>2. [H EXCEPT ![b] = @ - 1] \in [Blob -> Nat]
    BY <1>0, <2>1
  <2> QED BY <2>2
<1>7. \A x \in Blob : H2[x] = IF x = b THEN H[x] - 1 ELSE H[x]
  BY <1>0, <1>6
<1>8. \A k \in Block : K2[k] = IF \E x \in Y : Owns(B, x, k) THEN "none" ELSE K[k]
  BY <1>3, <1>5 DEF Owns
<1>9. ASSUME NEW x \in Blob
      PROVE  /\ x \notin L => B2[x] = B[x]
             /\ x \in Y => B2[x] = Gone
  BY <1>3, <1>4
<1>10. ASSUME NEW x \in L \ Y PROVE B2[x] = [B[x] EXCEPT !.refs = @ - 1]
  BY <1>1, <1>3, <1>4
<1>11. ASSUME NEW x \in Blob \ Y
       PROVE  /\ B2[x] \in BlobType
              /\ B2[x].refs = IF x \in L THEN B[x].refs - 1 ELSE B[x].refs
              /\ B2[x].refs > 0 <=> B[x].refs > 0
              /\ B2[x].data = B[x].data /\ B2[x].mode = B[x].mode /\ B2[x].fixed = B[x].fixed
              /\ B2[x].destroy = B[x].destroy /\ B2[x].parent = B[x].parent
  <2>1. CASE x \notin L
    BY <1>0, <1>9, <2>1
  <2>2. CASE x \in L
    <3>1. PICK r \in BlobType : r = B[x]
      BY <1>0
    <3>2. r.refs \in Nat /\ r.refs > 1
      BY <1>0, <1>2, <2>2, <3>1
    <3>3. r.refs - 1 \in Nat /\ r.refs - 1 > 0
      BY <3>2
    <3>4. B2[x] = [r EXCEPT !.refs = @ - 1]
      BY <1>10, <2>2, <3>1
    <3>5. /\ B2[x] \in BlobType /\ B2[x].refs = r.refs - 1
          /\ B2[x].data = r.data /\ B2[x].mode = r.mode /\ B2[x].fixed = r.fixed
          /\ B2[x].destroy = r.destroy /\ B2[x].parent = r.parent
      BY <3>3, <3>4 DEF BlobType
    <3> QED BY <2>2, <3>1, <3>2, <3>3, <3>5
  <2> QED BY <2>1, <2>2
<1>12. /\ Gone \in BlobType /\ Gone.refs = 0 /\ Gone.parent = None /\ Gone.destroy = "none"
  BY DEF Gone, BlobType, Modes
<1>13. B2 \in [Blob -> BlobType]
  <2>1. \A x \in Blob : B2[x] \in BlobType
    BY <1>9, <1>11, <1>12
  <2>2. B2 = [x \in Blob |-> B2[x]]
    BY <1>3, <1>4
  <2> QED BY <2>1, <2>2
<1>14. \A x \in Blob : B2[x].refs = IF x \in L THEN B[x].refs - 1 ELSE B[x].refs
  <2>1. \A x \in Y : x \in Blob /\ B2[x].refs = 0 /\ B[x].refs = 1 /\ x \in L
    BY <1>1, <1>9, <1>12
  <2> QED BY <1>11, <2>1
<1> HIDE DEF L, Y, D
<1>15. \A x \in Blob : Kids(B2, x) = {y \in Kids(B, x) : y \notin Y}
  <2>1. ASSUME NEW x \in Blob, NEW y \in Y PROVE y \notin Kids(B2, x)
    <3>1. B2[y].refs = 0
      BY <1>1, <1>9, <1>12 DEF Y
    <3> QED BY <3>1 DEF Kids
  <2>2. ASSUME NEW x \in Blob, NEW y \in Blob \ Y PROVE y \in Kids(B2, x) <=> y \in Kids(B, x)
    BY <1>11 DEF Kids
  <2> QED BY <2>1, <2>2 DEF Kids
<1>16. Counted(B2, H2)
  <2> SUFFICES ASSUME NEW x \in Blob PROVE B2[x].refs = H2[x] + Cardinality(Kids(B2, x))
    BY DEF Counted
  <2>1. PICK N : N = Kids(B, x)
    OBVIOUS
  <2>2. IsFiniteSet(N) /\ Cardinality(N) \in Nat /\ B[x].refs = H[x] + Cardinality(N)
    BY <2>1, KidsFinite DEF Sound, Counted
  <2>3. PICK c \in Nat : c = Cardinality(N)
    BY <2>2
  <2>4. CASE x = b
    <3>1. Kids(B2, x) = N
      BY <1>2, <1>15, <2>1, <2>4 DEF Kids
    <3> QED BY <1>0, <1>1, <1>7, <1>14, <2>2, <2>3, <2>4, <3>1
  <2>5. CASE x \in L /\ x # b
    <3>1. PICK y \in Y : B[y].parent = x
      BY <1>2, <2>5
    <3>2. y \in N
      BY <1>1, <1>2, <2>1, <3>1 DEF Kids, Y
    <3>3. Kids(B2, x) = N \ {y}
      <4>1. \A z \in N : z \in Y <=> z = y
        BY <1>2, <2>1, <3>1, HBBlobAssumption DEF Kids
      <4> QED BY <1>15, <2>1, <4>1
    <3>4. Cardinality(N \ {y}) = c - 1
      BY <2>2, <2>3, <3>2, FS_RemoveElement
    <3> QED BY <1>0, <1>7, <1>14, <2>2, <2>3, <2>5, <3>3, <3>4
  <2>6. CASE x \notin L
    <3>1. \A y \in Y : B[y].parent # x
      BY <1>0, <1>1, <2>6, HBBlobAssumption DEF Y
    <3>2. Kids(B2, x) = N
      BY <1>15, <2>1, <3>1 DEF Kids
    <3> QED BY <1>1, <1>7, <1>14, <2>2, <2>6, <3>2
  <2> QED BY <2>4, <2>5, <2>6
<1>17. ASSUME NEW x \in Blob \ Y, B[x].refs > 0, B[x].parent # None
       PROVE  B[x].parent \in Blob \ Y
  <2>1. B[x].parent \in Blob
    BY <1>0, <1>17
  <2>2. PICK p \in Blob : p = B[x].parent
    BY <2>1
  <2>3. x \in Kids(B2, p)
    BY <1>11, <1>17, <2>2 DEF Kids
  <2>4. PICK c \in Nat : c = Cardinality(Kids(B2, p)) /\ c # 0
    BY <2>3, KidsFinite
  <2>5. B2[p].refs = H2[p] + c /\ H2[p] \in Nat
    BY <1>16, <2>4 DEF Counted
  <2>6. B2[p].refs # 0
    BY <2>4, <2>5
  <2>7. p \notin Y
    BY <1>9, <1>12, <2>6
  <2> QED BY <2>2, <2>7
<1>18. ASSUME NEW x \in Blob \ Y, B[x].refs > 0 PROVE K2[B[x].data] # "none"
  <2>1. PICK k \in Block : k = B[x].data /\ K[k] # "none"
    BY <1>18 DEF Sound, Fits
  <2> SUFFICES ASSUME NEW y \in Y, Owns(B, y, k) PROVE FALSE
    BY <1>8, <2>1
  <2> DEFINE S == {z \in Blob \ Y : B[z].refs > 0 /\ B[z].data = k}
  <2>2. ASSUME NEW z \in S PROVE B[z].parent \in S
    <3>1. ~Owns(B, z, k)
      BY <1>1 DEF Sound, Owned, Y
    <3>2. /\ B[z].destroy = "parent" /\ B[z].parent \in Blob /\ B[B[z].parent].data = k
      BY <3>1 DEF Sound, Fits, Owns
    <3>3. B[z].parent \in Blob \ Y /\ B[B[z].parent].refs > 0
      BY <1>0, <1>17, <3>2, ParentIsLive, HBBlobAssumption
    <3> QED BY <3>2, <3>3
  <2>3. S = {}
    <3>1. S \in SUBSET Blob
      OBVIOUS
    <3> HIDE DEF S
    <3> QED BY <2>2, <3>1 DEF Sound, Grounded
  <2> QED BY <1>18, <2>1, <2>3
<1>19. ASSUME NEW x \in Blob PROVE Fits(B2, K2, x)
  <2>1. CASE x \in Y
    BY <1>9, <1>12, <2>1 DEF Fits
  <2>2. CASE x \notin Y
    <3>1. Fits(B, K, x) /\ x \in Blob \ Y
      BY <2>2 DEF Sound
    <3>2. CASE B[x].refs = 0
      <4>1. x \notin L
        BY <1>2, <3>2
      <4> QED BY <1>9, <3>1, <3>2, <4>1 DEF Fits
    <3>3. CASE B[x].refs > 0
      <4>1. B2[x].refs > 0 /\ B2[x].data \in Block /\ K2[B2[x].data] # "none"
        BY <1>11, <1>18, <3>1, <3>3 DEF Fits
      <4>2. CASE B[x].destroy \in {"client", "free"} /\ B[x].parent = None
        BY <1>11, <3>1, <4>1, <4>2 DEF Fits
      <4>3. CASE /\ B[x].destroy = "parent" /\ B[x].parent \in Blob /\ B[x].mode = "readonly"
                 /\ B[B[x].parent].fixed /\ B[B[x].parent].data = B[x].data
        <5>1. B[x].parent \in Blob \ Y
          BY <1>17, <3>1, <3>3, <4>3, HBBlobAssumption
        <5>2. B2[B[x].parent].fixed /\ B2[B[x].parent].data = B[x].data
          BY <1>11, <4>3, <5>1
        <5> QED BY <1>11, <3>1, <4>1, <4>3, <5>2 DEF Fits
      <4> QED BY <3>1, <3>3, <4>2, <4>3 DEF Fits
    <3> QED BY <1>0, <3>2, <3>3
  <2> QED BY <2>1, <2>2
<1>20. Owned(B2, K2)
  <2>1. ASSUME NEW x \in Blob, NEW k PROVE Owns(B2, x, k) <=> x \notin Y /\ Owns(B, x, k)
    <3>1. CASE x \in Y
      BY <1>9, <1>12, <3>1 DEF Owns
    <3>2. CASE x \notin Y
      BY <1>11, <3>2 DEF Owns
    <3> QED BY <3>1, <3>2
  <2>2. ASSUME NEW k \in Block, K2[k] # "none" PROVE \E x \in Blob : Owns(B2, x, k)
    <3>1. K[k] # "none" /\ \A x \in Y : ~Owns(B, x, k)
      BY <1>8, <2>2
    <3>2. PICK x \in Blob : Owns(B, x, k)
      BY <3>1 DEF Sound, Owned
    <3> QED BY <2>1, <3>1, <3>2
  <2> QED BY <2>1, <2>2 DEF Sound, Owned
<1>21. Grounded(B2)
  <2> SUFFICES ASSUME NEW S \in SUBSET Blob, \A x \in S : B2[x].parent \in S PROVE S = {}
    BY DEF Grounded
  <2>1. \A x \in S : x \notin Y
    BY <1>9, <1>12, HBBlobAssumption
  <2>2. \A x \in S : B[x].parent \in S
    BY <1>11, <2>1
  <2> QED BY <2>2 DEF Sound, Grounded
<1>22. Sound(B2, K2, H2)
  BY <1>13, <1>16, <1>19, <1>20, <1>21 DEF Sound
<1>23. \A x \in Blob : B2[x].refs > 0 =>
         B2[x].data = B[x].data /\ B2[x].mode = B[x].mode /\ B2[x].fixed = B[x].fixed
  BY <1>9, <1>11, <1>12
<1>24. \A k \in Block : D.block[k] \in {"none", K[k]}
  BY <1>3
<1>25. Spares(D, B, K, Blob, Block)
  BY <1>4, <1>23, <1>24 DEF Spares
<1> QED BY <1>4, <1>5, <1>6, <1>22, <1>25 DEF D
-----------------------------------------------------------------------------
(* A blob that may be written gets a copy of its bytes.                     *)

\* The copy belongs to the blob, which shows its parent no longer but has not
\* dropped it yet.
Moves(B, K, H, b, k, f, B2, K2, H2) ==
  /\ b \in Blob /\ B[b].refs > 0 /\ ~B[b].fixed /\ k \in Block /\ K[k] = "none"
  /\ f \in BlobType /\ f.refs = B[b].refs /\ f.data = k /\ f.destroy = "free" /\ f.parent = None
  /\ B2 \in [Blob -> BlobType] /\ B2 = [B EXCEPT ![b] = f]
  /\ K2 \in [Block -> BlockType]
  /\ \A j \in Block : K2[j] = IF j = k THEN "heap" ELSE IF Owns(B, b, j) THEN "none" ELSE K[j]
  /\ H2 \in [Blob -> Nat]
  /\ \A x \in Blob : H2[x] = IF x = B[b].parent THEN H[x] + 1 ELSE H[x]

LEMMA SoundMoved ==
  ASSUME NEW B, NEW K, NEW H, Sound(B, K, H), NEW b, NEW k, NEW f, NEW B2, NEW K2, NEW H2,
         Moves(B, K, H, b, k, f, B2, K2, H2)
  PROVE  Sound(B2, K2, H2)
<1> USE DEF Moves
<1>1. /\ B \in [Blob -> BlobType] /\ K \in [Block -> BlockType] /\ H \in [Blob -> Nat]
      /\ \A x \in Blob : B[x].refs \in Nat /\ H[x] \in Nat
  BY SoundTypes
<1>2. B2[b] = f /\ \A x \in Blob \ {b} : B2[x] = B[x]
  BY <1>1
<1>3. None \notin Blob /\ None \notin Block
  BY HBBlobAssumption
<1>4. ASSUME NEW x \in Blob, B[x].refs > 0 PROVE B[x].parent # b
  <2>1. Fits(B, K, x)
    BY DEF Sound
  <2> QED BY <1>3, <1>4, <2>1 DEF Fits
<1>5. ASSUME NEW x \in Blob
      PROVE  Kids(B2, x) = IF x = B[b].parent THEN Kids(B, x) \ {b} ELSE Kids(B, x)
  <2>1. b \notin Kids(B2, x)
    BY <1>2, <1>3 DEF Kids
  <2>2. b \in Kids(B, x) <=> x = B[b].parent
    BY DEF Kids
  <2>3. \A y \in Blob \ {b} : y \in Kids(B2, x) <=> y \in Kids(B, x)
    BY <1>2 DEF Kids
  <2> QED BY <2>1, <2>2, <2>3 DEF Kids
<1>6. Counted(B2, H2)
  <2> SUFFICES ASSUME NEW x \in Blob PROVE B2[x].refs = H2[x] + Cardinality(Kids(B2, x))
    BY DEF Counted
  <2>1. B2[x].refs = B[x].refs
    BY <1>2
  <2>2. PICK N : N = Kids(B, x)
    OBVIOUS
  <2>3. IsFiniteSet(N) /\ Cardinality(N) \in Nat /\ B[x].refs = H[x] + Cardinality(N)
    BY <2>2, KidsFinite DEF Sound, Counted
  <2>4. PICK c \in Nat : c = Cardinality(N)
    BY <2>3
  <2>5. CASE x = B[b].parent
    <3>1. b \in N
      BY <2>2, <2>5 DEF Kids
    <3>2. Cardinality(N \ {b}) = c - 1
      BY <2>3, <2>4, <3>1, FS_RemoveElement
    <3>3. B2[x].refs = H[x] + c /\ H2[x] = H[x] + 1 /\ H[x] \in Nat
      BY <1>1, <2>1, <2>3, <2>4, <2>5
    <3>4. Cardinality(Kids(B2, x)) = c - 1
      BY <1>5, <2>2, <2>5, <3>2
    <3> QED BY <3>3, <3>4
  <2>6. CASE x # B[b].parent
    BY <1>5, <2>1, <2>2, <2>3, <2>6
  <2> QED BY <2>5, <2>6
<1>7. ASSUME NEW x \in Blob PROVE Fits(B2, K2, x)
  <2>1. CASE x = b
    BY <1>2, <2>1 DEF Fits
  <2>2. CASE x # b
    <3>1. Fits(B, K, x) /\ B2[x] = B[x]
      BY <1>2, <2>2 DEF Sound
    <3>2. CASE B[x].refs = 0
      BY <3>1, <3>2 DEF Fits
    <3>3. CASE B[x].refs > 0
      <4>1. B[x].data \in Block /\ K[B[x].data] # "none"
        BY <3>1, <3>3 DEF Fits
      <4>2. ~Owns(B, b, B[x].data)
        BY <2>2, <3>3, OwnerAlone DEF Owns
      <4>3. K2[B[x].data] # "none"
        BY <4>1, <4>2
      <4>4. B[x].parent \in Blob => B2[B[x].parent] = B[B[x].parent]
        BY <1>2, <1>4, <3>3
      <4> QED BY <3>1, <3>3, <4>1, <4>3, <4>4 DEF Fits
    <3> QED BY <1>1, <3>2, <3>3
  <2> QED BY <2>1, <2>2
<1>8. Owned(B2, K2)
  <2>1. ASSUME NEW x \in Blob, Owns(B, x, k) PROVE FALSE
    <3>1. Fits(B, K, x)
      BY DEF Sound
    <3> QED BY <1>1, <2>1, <3>1 DEF Fits, Gone, Owns
  <2>2. \A j : Owns(B2, b, j) <=> j = k
    BY <1>2 DEF Owns
  <2>3. \A x \in Blob \ {b} : \A j : Owns(B2, x, j) <=> Owns(B, x, j)
    BY <1>2 DEF Owns
  <2>4. Owned(B, K)
    BY DEF Sound
  <2>5. ASSUME NEW j \in Block, K2[j] # "none" PROVE \E x \in Blob : Owns(B2, x, j)
    <3>1. CASE j = k
      BY <2>2, <3>1
    <3>2. CASE j # k
      <4>1. K[j] # "none" /\ ~Owns(B, b, j)
        BY <2>5, <3>2
      <4> QED BY <2>3, <2>4, <4>1 DEF Owned
    <3> QED BY <3>1, <3>2
  <2>6. ASSUME NEW j \in Block, NEW x \in Blob, NEW y \in Blob, Owns(B2, x, j), Owns(B2, y, j)
        PROVE  x = y
    <3>1. CASE j = k
      BY <2>1, <2>2, <2>3, <2>6, <3>1
    <3>2. CASE j # k
      <4>1. x # b /\ y # b /\ Owns(B, x, j) /\ Owns(B, y, j)
        BY <2>2, <2>3, <2>6, <3>2
      <4> QED BY <2>4, <4>1 DEF Owned
    <3> QED BY <3>1, <3>2
  <2> QED BY <2>5, <2>6 DEF Owned
<1>9. Grounded(B2)
  <2> SUFFICES ASSUME NEW S \in SUBSET Blob, \A x \in S : B2[x].parent \in S PROVE S = {}
    BY DEF Grounded
  <2>1. b \notin S
    BY <1>2, <1>3
  <2>2. \A x \in S : B[x].parent \in S
    BY <1>2, <2>1
  <2> QED BY <2>2 DEF Sound, Grounded
<1> QED BY <1>6, <1>7, <1>8, <1>9 DEF Sound

\* A frame of a blob whose user data is destroyed, then of one that owns a copy.
LEMMA CopyFrames ==
  ASSUME NEW r \in BlobType, NEW k \in Block
  PROVE  \E d, f \in BlobType :
           /\ d = [r EXCEPT !.destroy = "none", !.parent = None]
           /\ f = [d EXCEPT !.mode = "writable", !.data = k, !.destroy = "free"]
           /\ f.refs = r.refs /\ f.data = k /\ f.destroy = "free" /\ f.parent = None
           /\ f.mode = "writable" /\ f.fixed = r.fixed
           /\ d.refs = r.refs /\ d.parent = None
<1>1. [r EXCEPT !.destroy = "none", !.parent = None] \in BlobType
  BY DEF BlobType
<1>2. PICK d \in BlobType : d = [r EXCEPT !.destroy = "none", !.parent = None]
  BY <1>1
<1>3. [d EXCEPT !.mode = "writable", !.data = k, !.destroy = "free"] \in BlobType
  BY DEF BlobType, Modes
<1>4. PICK f \in BlobType : f = [d EXCEPT !.mode = "writable", !.data = k, !.destroy = "free"]
  BY <1>3
<1>5. d.refs = r.refs /\ d.parent = None /\ d.fixed = r.fixed
  BY <1>2 DEF BlobType
<1>6. /\ f.refs = d.refs /\ f.data = k /\ f.destroy = "free" /\ f.parent = d.parent
      /\ f.mode = "writable" /\ f.fixed = d.fixed
  BY <1>4 DEF BlobType
<1> QED BY <1>2, <1>4, <1>5, <1>6

LEMMA SoundCopied ==
  ASSUME NEW B, NEW K, NEW H, Sound(B, K, H), NEW h, h = [blob |-> B, block |-> K],
         NEW b \in Blob, B[b].refs > 0, ~B[b].fixed, NEW k \in Block, K[k] = "none"
  PROVE  /\ Sound(CopyTo(h, b, k).blob, CopyTo(h, b, k).block, H)
         /\ CopyTo(h, b, k).blob[b].mode = "writable" /\ ~CopyTo(h, b, k).blob[b].fixed
         /\ CopyTo(h, b, k).blob[b].data = k
         /\ Spares(CopyTo(h, b, k), B, K, Blob \ {b}, Block \ {k})
<1>1. /\ B \in [Blob -> BlobType] /\ K \in [Block -> BlockType] /\ H \in [Blob -> Nat]
      /\ \A x \in Blob : B[x] \in BlobType /\ B[x].refs \in Nat /\ H[x] \in Nat
  BY SoundTypes
<1>2. None \notin Blob /\ None \notin Block
  BY HBBlobAssumption
<1>3. h.blob = B /\ h.block = K
  OBVIOUS
<1>4. PICK d, f \in BlobType :
        /\ d = [B[b] EXCEPT !.destroy = "none", !.parent = None]
        /\ f = [d EXCEPT !.mode = "writable", !.data = k, !.destroy = "free"]
        /\ f.refs = B[b].refs /\ f.data = k /\ f.destroy = "free" /\ f.parent = None
        /\ f.mode = "writable" /\ f.fixed = B[b].fixed
        /\ d.refs = B[b].refs /\ d.parent = None
  <2>1. PICK r \in BlobType : r = B[b]
    BY <1>1
  <2>2. PICK d, f \in BlobType :
          /\ d = [r EXCEPT !.destroy = "none", !.parent = None]
          /\ f = [d EXCEPT !.mode = "writable", !.data = k, !.destroy = "free"]
          /\ f.refs = r.refs /\ f.data = k /\ f.destroy = "free" /\ f.parent = None
          /\ f.mode = "writable" /\ f.fixed = r.fixed
          /\ d.refs = r.refs /\ d.parent = None
    BY CopyFrames
  <2> QED BY <2>1, <2>2, Zenon
<1>5. ~f.fixed
  BY <1>4
<1>6. PICK B2 \in [Blob -> BlobType] : B2 = [B EXCEPT ![b] = f]
  BY <1>1
<1>7. PICK K2 \in [Block -> BlockType] :
        \A j \in Block : K2[j] = IF j = k THEN "heap" ELSE IF Owns(B, b, j) THEN "none" ELSE K[j]
  <2> DEFINE g == [j \in Block |-> IF j = k THEN "heap" ELSE IF Owns(B, b, j) THEN "none" ELSE K[j]]
  <2>1. g \in [Block -> BlockType]
    BY <1>1 DEF BlockType
  <2> QED BY <2>1
<1>8. PICK H2 \in [Blob -> Nat] :
        \A x \in Blob : H2[x] = IF x = B[b].parent THEN H[x] + 1 ELSE H[x]
  <2> DEFINE g == [x \in Blob |-> IF x = B[b].parent THEN H[x] + 1 ELSE H[x]]
  <2>1. g \in [Blob -> Nat]
    BY <1>1
  <2> QED BY <2>1
<1>9. Sound(B2, K2, H2)
  <2>1. Moves(B, K, H, b, k, f, B2, K2, H2)
    BY <1>4, <1>6, <1>7, <1>8 DEF Moves
  <2> QED BY <2>1, SoundMoved
<1>10. B2[b] = f /\ \A x \in Blob \ {b} : B2[x] = B[x]
  BY <1>1, <1>6
<1>11. PICK Bf \in [Blob -> BlobType] : Bf = [B EXCEPT ![b] = d]
  BY <1>1
<1>12. Bf[b] = d /\ \A x \in Blob \ {b} : Bf[x] = B[x]
  BY <1>1, <1>11
<1>13. [B EXCEPT ![b].destroy = "none", ![b].parent = None] = Bf
  BY <1>1, <1>4, <1>11
<1>14. PICK Kf \in [Block -> BlockType] :
         /\ Kf = BytesGivenBack(h, {b})
         /\ \A j \in Block : Kf[j] = IF Owns(B, b, j) THEN "none" ELSE K[j]
  <2>1. BytesGivenBack(h, {b}) = [j \in Block |-> IF Owns(B, b, j) THEN "none" ELSE K[j]]
    BY <1>3 DEF BytesGivenBack, Owns
  <2>2. BytesGivenBack(h, {b}) \in [Block -> BlockType]
    BY <1>1, <2>1 DEF BlockType
  <2> QED BY <2>1, <2>2
<1>15. PICK forgotten : forgotten = [blob |-> Bf, block |-> Kf]
  OBVIOUS
<1>16. UserDataDestroyed(h, b) =
         IF B[b].parent = None THEN forgotten ELSE Dropped(forgotten, B[b].parent)
  BY <1>3, <1>13, <1>14, <1>15 DEF UserDataDestroyed
<1>17. ASSUME NEW X \in [Blob -> BlobType], NEW Z \in [Block -> BlockType], X[b] = d,
              UserDataDestroyed(h, b) = [blob |-> X, block |-> Z]
       PROVE  CopyTo(h, b, k) = [blob |-> [X EXCEPT ![b] = f], block |-> [Z EXCEPT ![k] = "heap"]]
  <2>1. [X[b] EXCEPT !.mode = "writable", !.data = k, !.destroy = "free"] = f
    BY <1>4, <1>17
  <2>2. CopyTo(h, b, k) =
          [blob |-> [X EXCEPT ![b] = [X[b] EXCEPT !.mode = "writable", !.data = k, !.destroy = "free"]],
           block |-> [Z EXCEPT ![k] = "heap"]]
    <3>1. PICK left : left = UserDataDestroyed(h, b) /\ left.blob = X /\ left.block = Z
      BY <1>17
    <3> QED BY <3>1 DEF CopyTo
  <2> QED BY <2>1, <2>2
<1>18. PICK C : C = CopyTo(h, b, k)
  OBVIOUS
<1>19. \A j \in Block : K2[j] = IF j = k THEN "heap" ELSE Kf[j]
  BY <1>7, <1>14
<1>20. CASE B[b].parent = None
  <2>1. C = [blob |-> [Bf EXCEPT ![b] = f], block |-> [Kf EXCEPT ![k] = "heap"]]
    BY <1>12, <1>15, <1>16, <1>17, <1>18, <1>20
  <2>2. [Bf EXCEPT ![b] = f] = B2
    BY <1>6, <1>11
  <2>3. [Kf EXCEPT ![k] = "heap"] = K2
    BY <1>19
  <2>4. H2 = H
    <3>1. \A x \in Blob : H2[x] = H[x]
      BY <1>2, <1>8, <1>20
    <3> QED BY <1>1, <3>1
  <2>5. C.blob = B2 /\ C.block = K2
    BY <2>1, <2>2, <2>3
  <2>6. \A j \in Block \ {k} : K2[j] \in {"none", K[j]}
    BY <1>7
  <2>7. Spares(C, B, K, Blob \ {b}, Block \ {k})
    BY <1>10, <2>5, <2>6 DEF Spares
  <2> QED BY <1>4, <1>5, <1>9, <1>10, <1>18, <2>4, <2>5, <2>7
<1>21. CASE B[b].parent # None
  <2>1. PICK p \in Blob : p = B[b].parent
    BY <1>21 DEF Sound, Fits
  <2>2. Fits(B, K, b)
    BY DEF Sound
  <2>3. p # b
    BY <2>1, <2>2, <1>21 DEF Fits
  <2>4. PICK h1 : h1 = [blob |-> B2, block |-> K2]
    OBVIOUS
  <2>5. h1.blob = B2 /\ h1.block = K2 /\ forgotten.blob = Bf /\ forgotten.block = Kf
    BY <1>15, <2>4
  <2>6. H2[p] > 0
    BY <1>1, <1>8, <2>1
  <2>7. PICK D : D = Dropped(h1, p)
    OBVIOUS
  <2>8. PICK H3 : H3 = [H2 EXCEPT ![p] = @ - 1]
    OBVIOUS
  <2>9. Sound(D.blob, D.block, H3)
    BY <1>9, <2>5, <2>6, <2>7, <2>8, SoundDropped
  <2>10. H3 = H
    <3>1. \A x \in Blob : H3[x] = IF x = p THEN H2[x] - 1 ELSE H2[x]
      BY <2>8
    <3>2. \A x \in Blob : H3[x] = H[x]
      BY <1>1, <1>8, <2>1, <3>1
    <3>3. H3 = [x \in Blob |-> H3[x]]
      BY <2>8
    <3> QED BY <1>1, <3>2, <3>3
  <2>11. PICK L \in SUBSET Blob : L = Losing(h1, p)
    BY DEF Losing
  <2>12. L = Losing(forgotten, p)
    <3>0. d.refs = f.refs /\ d.parent = f.parent
      BY <1>4
    <3>1. ASSUME NEW x \in Blob PROVE Bf[x].refs = B2[x].refs /\ Bf[x].parent = B2[x].parent
      <4>1. CASE x = b
        BY <1>10, <1>12, <3>0, <4>1
      <4>2. CASE x # b
        BY <1>10, <1>12, <4>2
      <4> QED BY <4>1, <4>2
    <3>2. ASSUME NEW xs \in SUBSET Blob PROVE PassesOn(h1, xs) <=> PassesOn(forgotten, xs)
      <4>1. \A x \in xs : Bf[x].refs = B2[x].refs /\ Bf[x].parent = B2[x].parent
        BY <3>1
      <4> QED BY <2>5, <4>1 DEF PassesOn
    <3> QED BY <2>11, <3>2 DEF Losing
  <2>13. b \notin L
    <3> SUFFICES ASSUME b \in L PROVE FALSE
      OBVIOUS
    <3>1. PICK y \in L : y \in Blob /\ B2[y].refs > 0 /\ B2[y].parent = b
      BY <1>9, <2>3, <2>5, <2>6, <2>11, LosingPath
    <3>2. Fits(B2, K2, y)
      BY <1>9, <3>1 DEF Sound
    <3>3. B2[b].fixed
      BY <1>2, <3>1, <3>2 DEF Fits
    <3> QED BY <1>5, <1>10, <3>3
  <2> DEFINE Y(A) == {x \in L : A[x].refs = 1}
             Left(A) == [x \in Blob |-> IF x \notin L THEN A[x]
                                        ELSE IF A[x].refs = 1 THEN Gone
                                        ELSE [A[x] EXCEPT !.refs = @ - 1]]
             Kept(A, G) == [j \in Block |->
                 IF \E x \in Y(A) : A[x].data = j /\ A[x].destroy \in {"client", "free"}
                 THEN "none" ELSE G[j]]
  <2>14. D.blob = Left(B2) /\ D.block = Kept(B2, K2)
    BY <2>5, <2>7, <2>11 DEF Dropped, BytesGivenBack
  <2>15. Dropped(forgotten, p) = [blob |-> Left(Bf), block |-> Kept(Bf, Kf)]
    BY <2>5, <2>12 DEF Dropped, BytesGivenBack
  <2>16. \A x \in L : B2[x] = B[x] /\ Bf[x] = B[x]
    BY <1>10, <1>12, <2>13
  <2>17. \A x \in Blob \ {b} : Left(Bf)[x] = Left(B2)[x]
    BY <1>10, <1>12
  <2>18. Left(Bf)[b] = d /\ Left(B2)[b] = f
    BY <1>10, <1>12, <2>13
  <2>19. D.blob \in [Blob -> BlobType] /\ D.block \in [Block -> BlockType]
    BY <2>9 DEF Sound
  <2>20. PICK A \in [Blob -> BlobType] : A = Left(Bf)
    <3>1. PICK A : A = Left(Bf)
      OBVIOUS
    <3>2. \A x \in Blob \ {b} : A[x] = D.blob[x]
      BY <2>14, <2>17, <3>1
    <3>3. A[b] \in BlobType
      BY <2>18, <3>1
    <3>4. \A x \in Blob : A[x] \in BlobType
      BY <2>19, <3>2, <3>3
    <3>5. A = [x \in Blob |-> A[x]]
      BY <3>1
    <3>6. A \in [Blob -> BlobType]
      BY <3>4, <3>5
    <3> QED BY <3>1, <3>6
  <2>21. PICK G : G = Kept(Bf, Kf)
    OBVIOUS
  <2>22. G \in [Block -> BlockType]
    BY <2>21 DEF BlockType
  <2> HIDE DEF Left
  <2>23. C = [blob |-> [A EXCEPT ![b] = f], block |-> [G EXCEPT ![k] = "heap"]]
    <3>1. A[b] = d
      BY <2>18, <2>20
    <3>2. UserDataDestroyed(h, b) = [blob |-> A, block |-> G]
      BY <1>16, <1>21, <2>1, <2>15, <2>20, <2>21
    <3> HIDE DEF Kept
    <3> QED BY <1>17, <1>18, <2>22, <3>1, <3>2
  <2>24. [A EXCEPT ![b] = f] = D.blob
    <3>1. \A x \in Blob : [A EXCEPT ![b] = f][x] = D.blob[x]
      BY <2>14, <2>17, <2>18, <2>20
    <3> HIDE DEF Kept
    <3> QED BY <2>19, <3>1
  <2>25. [G EXCEPT ![k] = "heap"] = D.block
    <3>1. Y(Bf) = Y(B2)
      BY <2>16
    <3>2. ASSUME NEW x \in L, B2[x].data = k, B2[x].destroy \in {"client", "free"} PROVE FALSE
      <4>1. x \in Blob /\ x # b /\ Fits(B, K, x) /\ B[x] = B2[x] /\ B[x].refs \in Nat
        BY <1>1, <2>13, <2>16 DEF Sound
      <4> QED BY <3>2, <4>1 DEF Fits, Gone
    <3>3. \A j \in Block : [G EXCEPT ![k] = "heap"][j] = D.block[j]
      <4> TAKE j \in Block
      <4>1. CASE j = k
        <5>1. D.block[k] = K2[k]
          BY <2>14, <3>2
        <5> QED BY <1>19, <2>22, <4>1, <5>1
      <4>2. CASE j # k
        BY <1>19, <2>14, <2>16, <2>21, <2>22, <3>1, <4>2
      <4> QED BY <4>1, <4>2
    <3> HIDE DEF Kept, Y
    <3> QED BY <2>19, <2>22, <3>3
  <2> HIDE DEF Kept, Y
  <2>26. C.blob = D.blob /\ C.block = D.block
    BY <2>23, <2>24, <2>25
  <2>27. D.blob[b] = f
    BY <2>14, <2>18
  <2>28. /\ \A x \in Blob : D.blob[x].refs > 0 =>
              D.blob[x].data = B2[x].data /\ D.blob[x].mode = B2[x].mode /\ D.blob[x].fixed = B2[x].fixed
         /\ \A j \in Block : D.block[j] \in {"none", K2[j]}
    <3>1. Spares(D, B2, K2, Blob, Block)
      BY <1>9, <2>5, <2>6, <2>7, SoundDropped
    <3> QED BY <3>1 DEF Spares
  <2>29. \A j \in Block \ {k} : D.block[j] \in {"none", K[j]}
    BY <1>7, <2>28
  <2>30. Sound(C.blob, C.block, H)
    BY <2>9, <2>10, <2>26
  <2>31. \A x \in Blob \ {b} : C.blob[x].refs > 0 =>
           C.blob[x].data = B[x].data /\ C.blob[x].mode = B[x].mode /\ C.blob[x].fixed = B[x].fixed
    BY <1>10, <2>26, <2>28
  <2>32. C.blob[b].mode = "writable" /\ ~C.blob[b].fixed /\ C.blob[b].data = k
    BY <1>4, <1>5, <2>26, <2>27
  <2>33. \A j \in Block \ {k} : C.block[j] \in {"none", K[j]}
    BY <2>26, <2>29
  <2>34. Spares(C, B, K, Blob \ {b}, Block \ {k})
    BY <2>31, <2>33 DEF Spares
  <2> QED BY <1>18, <2>30, <2>32, <2>34
<1> QED BY <1>20, <1>21
-----------------------------------------------------------------------------
(* What the steps do to the heap.  No step changes what an immutable blob    *)
(* shows, and no step of a client what the checked one shows.                *)

Watched == {x \in Blob : blob[x].fixed \/ x = table}
Untouched(x) ==
  /\ blob'[x].data = blob[x].data /\ blob'[x].mode = blob[x].mode /\ blob'[x].fixed = blob[x].fixed
  /\ bytes'[blob[x].data] = bytes[blob[x].data]
Steady == \A x \in Watched : Live(x) /\ blob'[x].refs > 0 => Untouched(x)

Good ==
  /\ Sound(blob', block', Claims') /\ bytes' \in [Block -> Values] /\ held' \in [Blob -> Nat]
  /\ Steady

LEMMA ClaimsType ==
  ASSUME NEW h \in [Blob -> Nat], NEW f \in Blob \cup {None}, NEW t \in Blob \cup {None}
  PROVE  /\ HeldBy(h, f, t) \in [Blob -> Nat]
         /\ \A b \in Blob :
              /\ HeldBy(h, f, t)[b] = h[b] + (IF f = b THEN 1 ELSE 0) + (IF t = b THEN 2 ELSE 0)
              /\ h[b] > 0 \/ f = b \/ t = b => HeldBy(h, f, t)[b] > 0
              /\ t = b => HeldBy(h, f, t)[b] > 1
BY DEF HeldBy

\* Clients take or drop references to b.
LEMMA ClaimsHeld ==
  ASSUME NEW h, NEW f, NEW t, NEW h2, NEW b \in Blob, \A x \in Blob \ {b} : h2[x] = h[x]
  PROVE  HeldBy(h2, f, t) = [HeldBy(h, f, t) EXCEPT ![b] = HeldBy(h2, f, t)[b]]
<1>1. PICK G, G2 : G = HeldBy(h, f, t) /\ G2 = HeldBy(h2, f, t)
  OBVIOUS
<1>2. \A x \in Blob : G2[x] = [G EXCEPT ![b] = G2[b]][x]
  <2> TAKE x \in Blob
  <2>1. CASE x = b
    BY <1>1, <2>1 DEF HeldBy
  <2>2. CASE x # b
    BY <1>1, <2>2 DEF HeldBy
  <2> QED BY <2>1, <2>2
<1>3. G2 = [G EXCEPT ![b] = G2[b]]
  BY <1>1, <1>2 DEF HeldBy
<1> QED BY <1>1, <1>3

LEMMA InvTypes ==
  ASSUME SanInv
  PROVE  /\ blob \in [Blob -> BlobType] /\ block \in [Block -> BlockType]
         /\ bytes \in [Block -> Values] /\ held \in [Blob -> Nat]
         /\ file \in Blob \cup {None} /\ table \in Blob \cup {None}
         /\ Claims \in [Blob -> Nat] /\ Sound(blob, block, Claims)
         /\ \A b \in Blob : blob[b] \in BlobType /\ blob[b].refs \in Nat /\ blob[b].fixed \in BOOLEAN
         /\ \A b \in Blob : held[b] > 0 \/ file = b \/ table = b =>
              Claims[b] > 0 /\ Live(b) /\ blob[b].data \in Block
         /\ \A b \in Blob : blob[b].refs = 0 => Claims[b] = 0
         /\ Lost \in Values
<1>1. /\ blob \in [Blob -> BlobType] /\ block \in [Block -> BlockType]
      /\ bytes \in [Block -> Values] /\ held \in [Blob -> Nat]
      /\ file \in Blob \cup {None} /\ table \in Blob \cup {None}
      /\ Sound(blob, block, Claims)
  BY DEF SanInv, TypeOK, BlobType, BlockType
<1>2. Claims \in [Blob -> Nat]
  BY <1>1, ClaimsType DEF Claims
<1>3. \A b \in Blob : blob[b] \in BlobType
  BY <1>1
<1>4. \A b \in Blob : blob[b].refs \in Nat /\ blob[b].fixed \in BOOLEAN
  BY <1>3 DEF BlobType
<1>5. ASSUME NEW b \in Blob, held[b] > 0 \/ file = b \/ table = b
      PROVE  Claims[b] > 0 /\ Live(b) /\ blob[b].data \in Block
  <2>1. Claims[b] > 0
    BY <1>1, <1>5, ClaimsType DEF Claims
  <2>2. blob[b].refs > 0
    BY <1>1, <2>1, HeldIsLive
  <2>3. Fits(blob, block, b)
    BY <1>1 DEF Sound
  <2> QED BY <2>1, <2>2, <2>3 DEF Fits, Live
<1>6. \A b \in Blob : blob[b].refs = 0 => Claims[b] = 0
  BY <1>1, HeldIsLive
<1>7. Lost \in Values
  BY SanitizerAssumption DEF Lost
<1> QED BY <1>1, <1>2, <1>3, <1>4, <1>5, <1>6, <1>7

LEMMA ClaimsChange ==
  ASSUME SanInv, NEW b \in Blob, held' \in [Blob -> Nat], \A x \in Blob \ {b} : held'[x] = held[x],
         UNCHANGED <<file, sanVars>>
  PROVE  Claims' = [Claims EXCEPT ![b] = Claims[b] - held[b] + held'[b]]
<1>1. held \in [Blob -> Nat]
  BY InvTypes
<1>2. /\ HeldBy(held, file, table)[b] = held[b] + (IF file = b THEN 1 ELSE 0) + (IF table = b THEN 2 ELSE 0)
      /\ HeldBy(held', file, table)[b] = held'[b] + (IF file = b THEN 1 ELSE 0) + (IF table = b THEN 2 ELSE 0)
  BY DEF HeldBy
<1>3. HeldBy(held', file, table)[b] = HeldBy(held, file, table)[b] - held[b] + held'[b]
  BY <1>1, <1>2
<1>4. HeldBy(held', file, table) = [HeldBy(held, file, table) EXCEPT ![b] = HeldBy(held', file, table)[b]]
  BY ClaimsHeld
<1> QED BY <1>3, <1>4 DEF Claims, sanVars

LEMMA CreateStep ==
  ASSUME SanInv, NEW owner \in {"client", "heap"}, NEW modes \in SUBSET Modes,
         CreateOver(owner, modes), UNCHANGED <<file, sanVars>>
  PROVE  Good
<1>1. PICK b \in FreeBlobs, k \in FreeBlocks, c \in Content, mode \in modes :
        /\ MayHold
        /\ blob' = [blob EXCEPT ![b] = New(k, mode, IF owner = "heap" THEN "free" ELSE "client", None)]
        /\ block' = [block EXCEPT ![k] = owner]
        /\ bytes' = [bytes EXCEPT ![k] = c]
        /\ held' = [held EXCEPT ![b] = 1]
  BY DEF CreateOver
<1>2. b \in Blob /\ blob[b].refs = 0 /\ k \in Block /\ block[k] = "none"
  BY DEF FreeBlobs, FreeBlocks
<1>3. PICK f \in BlobType :
        /\ f = New(k, mode, IF owner = "heap" THEN "free" ELSE "client", None)
        /\ f.refs = 1 /\ f.data = k /\ f.destroy \in {"client", "free"} /\ f.parent = None
  <2>1. New(k, mode, IF owner = "heap" THEN "free" ELSE "client", None) \in BlobType
    BY <1>2 DEF New, BlobType
  <2> QED BY <2>1 DEF New
<1>4. blob' = [blob EXCEPT ![b] = f]
  BY <1>1, <1>3
<1>5. Claims' = [Claims EXCEPT ![b] = 1]
  <2>1. Claims[b] = 0 /\ held[b] = 0 /\ held \in [Blob -> Nat]
    BY <1>2, InvTypes DEF Live
  <2>2. held' \in [Blob -> Nat] /\ held'[b] = 1 /\ \A x \in Blob \ {b} : held'[x] = held[x]
    BY <1>1, <1>2, <2>1
  <2>3. Claims[b] - held[b] + held'[b] = 1
    BY <2>1, <2>2
  <2> QED BY <1>2, <2>2, <2>3, ClaimsChange
<1>6. Sound(blob', block', Claims')
  <2>1. Sound([blob EXCEPT ![b] = f], [block EXCEPT ![k] = owner], [Claims EXCEPT ![b] = 1])
    BY <1>2, <1>3, InvTypes, SoundCreated
  <2> QED BY <1>1, <1>4, <1>5, <2>1
<1>7. bytes' \in [Block -> Values] /\ held' \in [Blob -> Nat]
  BY <1>1, InvTypes, SanitizerAssumption
<1>8. ASSUME NEW x \in Blob, Live(x) PROVE Untouched(x)
  <2>1. x # b
    BY <1>2, <1>8 DEF Live
  <2>2. blob[x].data # k
    BY <1>2, <1>8, InvTypes DEF Live, Sound, Fits
  <2> QED BY <1>1, <1>4, <2>1, <2>2, InvTypes DEF Untouched
<1> QED BY <1>6, <1>7, <1>8 DEF Good, Steady, Watched

LEMMA DuplicateStep ==
  ASSUME SanInv, NEW c \in Values, DuplicateOf(c), UNCHANGED <<file, sanVars>>
  PROVE  Good
<1>1. PICK b \in FreeBlobs, k \in FreeBlocks :
        /\ MayHold
        /\ blob' = [blob EXCEPT ![b] = New(k, "writable", "free", None)]
        /\ block' = [block EXCEPT ![k] = "heap"]
        /\ bytes' = [bytes EXCEPT ![k] = c]
        /\ held' = [held EXCEPT ![b] = 1]
  BY DEF DuplicateOf
<1>2. b \in Blob /\ blob[b].refs = 0 /\ k \in Block /\ block[k] = "none"
  BY DEF FreeBlobs, FreeBlocks
<1>3. PICK f \in BlobType :
        /\ f = New(k, "writable", "free", None)
        /\ f.refs = 1 /\ f.data = k /\ f.destroy \in {"client", "free"} /\ f.parent = None
  <2>1. New(k, "writable", "free", None) \in BlobType
    BY <1>2 DEF New, BlobType, Modes
  <2> QED BY <2>1 DEF New
<1>4. blob' = [blob EXCEPT ![b] = f]
  BY <1>1, <1>3
<1>5. Claims' = [Claims EXCEPT ![b] = 1]
  <2>1. Claims[b] = 0 /\ held[b] = 0 /\ held \in [Blob -> Nat]
    BY <1>2, InvTypes DEF Live
  <2>2. held' \in [Blob -> Nat] /\ held'[b] = 1 /\ \A x \in Blob \ {b} : held'[x] = held[x]
    BY <1>1, <1>2, <2>1
  <2>3. Claims[b] - held[b] + held'[b] = 1
    BY <2>1, <2>2
  <2> QED BY <1>2, <2>2, <2>3, ClaimsChange
<1>6. Sound(blob', block', Claims')
  <2>1. Sound([blob EXCEPT ![b] = f], [block EXCEPT ![k] = "heap"], [Claims EXCEPT ![b] = 1])
    BY <1>2, <1>3, InvTypes, SoundCreated
  <2> QED BY <1>1, <1>4, <1>5, <2>1
<1>7. bytes' \in [Block -> Values] /\ held' \in [Blob -> Nat]
  BY <1>1, InvTypes
<1>8. ASSUME NEW x \in Blob, Live(x) PROVE Untouched(x)
  <2>1. x # b
    BY <1>2, <1>8 DEF Live
  <2>2. blob[x].data # k
    BY <1>2, <1>8, InvTypes DEF Live, Sound, Fits
  <2> QED BY <1>1, <1>4, <2>1, <2>2, InvTypes DEF Untouched
<1> QED BY <1>6, <1>7, <1>8 DEF Good, Steady, Watched

LEMMA ReferenceStep ==
  ASSUME SanInv, NEW b \in Blob, Reference(b), UNCHANGED <<file, sanVars>>
  PROVE  Good
<1>1. /\ held[b] > 0 /\ blob' = [blob EXCEPT ![b].refs = @ + 1]
      /\ held' = [held EXCEPT ![b] = @ + 1] /\ block' = block /\ bytes' = bytes
  BY DEF Reference
<1>2. Claims[b] \in Nat /\ held[b] \in Nat /\ held \in [Blob -> Nat] /\ Live(b)
  BY <1>1, InvTypes
<1>3. held' \in [Blob -> Nat] /\ held'[b] = held[b] + 1 /\ \A x \in Blob \ {b} : held'[x] = held[x]
  BY <1>1, <1>2
<1>4. Claims' = [Claims EXCEPT ![b] = @ + 1]
  <2>1. Claims[b] - held[b] + held'[b] = Claims[b] + 1
    BY <1>2, <1>3
  <2>2. Claims' = [Claims EXCEPT ![b] = Claims[b] - held[b] + held'[b]]
    BY <1>3, ClaimsChange
  <2> QED BY <2>1, <2>2
<1>5. Sound(blob', block', Claims')
  <2>1. Sound([blob EXCEPT ![b].refs = @ + 1], block, [Claims EXCEPT ![b] = @ + 1])
    BY <1>2, InvTypes, SoundReferenced DEF Live
  <2> QED BY <1>1, <1>4, <2>1
<1>6. bytes' \in [Block -> Values]
  BY <1>1, InvTypes
<1>7. ASSUME NEW x \in Blob PROVE Untouched(x)
  <2>1. PICK r \in BlobType : r = blob[b]
    BY InvTypes
  <2>2. blob' = [blob EXCEPT ![b] = [r EXCEPT !.refs = @ + 1]] /\ blob \in [Blob -> BlobType]
    BY <1>1, <2>1, InvTypes
  <2>3. CASE x = b
    BY <1>1, <2>1, <2>2, <2>3 DEF Untouched, BlobType
  <2>4. CASE x # b
    BY <1>1, <2>2, <2>4 DEF Untouched
  <2> QED BY <2>3, <2>4
<1> QED BY <1>3, <1>5, <1>6, <1>7 DEF Good, Steady, Watched

LEMMA MakeImmutableStep ==
  ASSUME SanInv, NEW b \in Blob, b # table \/ blob[b].fixed, MakeImmutable(b),
         UNCHANGED <<file, sanVars>>
  PROVE  Good
<1>1. /\ held[b] > 0 /\ ~blob[b].fixed /\ blob' = [blob EXCEPT ![b].fixed = TRUE]
      /\ block' = block /\ bytes' = bytes /\ held' = held
  BY DEF MakeImmutable
<1>2. PICK f \in BlobType :
        /\ f = [blob[b] EXCEPT !.fixed = TRUE]
        /\ f.parent = blob[b].parent /\ f.data = blob[b].data /\ f.destroy = blob[b].destroy
        /\ f.refs = blob[b].refs /\ f.fixed /\ f.mode = blob[b].mode
  <2>1. PICK r \in BlobType : r = blob[b]
    BY InvTypes
  <2>2. [r EXCEPT !.fixed = TRUE] \in BlobType
    BY DEF BlobType
  <2>3. PICK f \in BlobType : f = [r EXCEPT !.fixed = TRUE]
    BY <2>2
  <2>4. /\ f.parent = r.parent /\ f.data = r.data /\ f.destroy = r.destroy
        /\ f.refs = r.refs /\ f.fixed /\ f.mode = r.mode
    BY <2>3 DEF BlobType
  <2> QED BY <2>1, <2>3, <2>4, Zenon
<1>3. blob' = [blob EXCEPT ![b] = f]
  BY <1>1, <1>2
<1>4. Sound(blob', block', Claims')
  <2>1. f.mode = "readonly" \/ blob[b].destroy # "parent"
    BY <1>2, InvTypes, SoundTypes
  <2>2. Sound([blob EXCEPT ![b] = f], block, Claims)
    BY <1>1, <1>2, <2>1, InvTypes, SoundSet DEF Live
  <2> QED BY <1>1, <1>3, <2>2 DEF Claims, sanVars
<1>5. ASSUME NEW x \in Blob, x # b PROVE Untouched(x)
  BY <1>1, <1>3, <1>5, InvTypes DEF Untouched
<1>6. bytes' \in [Block -> Values] /\ held' \in [Blob -> Nat]
  BY <1>1, InvTypes
<1>7. b \notin Watched
  BY <1>1 DEF Watched
<1> QED BY <1>4, <1>5, <1>6, <1>7 DEF Good, Steady, Watched

\* What hb_blob_create_sub_blob does to the parent
LEMMA ParentFrame ==
  ASSUME NEW r \in BlobType
  PROVE  \E q, g \in BlobType :
           /\ q = [r EXCEPT !.fixed = TRUE] /\ g = [q EXCEPT !.refs = @ + 1]
           /\ g.fixed /\ g.refs = r.refs + 1 /\ g.data = r.data /\ g.mode = r.mode
           /\ g.destroy = r.destroy /\ g.parent = r.parent
<1>1. PICK q \in BlobType : q = [r EXCEPT !.fixed = TRUE]
  <2>1. [r EXCEPT !.fixed = TRUE] \in BlobType
    BY DEF BlobType
  <2> QED BY <2>1
<1>2. PICK g \in BlobType : g = [q EXCEPT !.refs = @ + 1]
  <2>1. q.refs \in Nat
    BY DEF BlobType
  <2>2. [q EXCEPT !.refs = @ + 1] \in BlobType
    BY <2>1 DEF BlobType
  <2> QED BY <2>2
<1>3. /\ g.fixed /\ g.refs = r.refs + 1 /\ g.data = r.data /\ g.mode = r.mode
      /\ g.destroy = r.destroy /\ g.parent = r.parent
  <2>1. /\ q.fixed /\ q.refs = r.refs /\ q.data = r.data /\ q.mode = r.mode
        /\ q.destroy = r.destroy /\ q.parent = r.parent
    BY <1>1 DEF BlobType
  <2> QED BY <1>2, <2>1 DEF BlobType
<1> QED BY <1>1, <1>2, <1>3

LEMMA SubBlobStep ==
  ASSUME SanInv, NEW b \in Blob, b # table \/ blob[b].fixed, CreateSubBlob(b),
         UNCHANGED <<file, sanVars>>
  PROVE  Good
<1>1. PICK s \in FreeBlobs \cup {None} :
        SubBlobOf(b, s) /\ held' = IF s = None THEN held ELSE [held EXCEPT ![s] = 1]
  BY DEF CreateSubBlob
<1>2. held[b] > 0 /\ Live(b) /\ block' = block /\ bytes' = bytes /\ bytes' \in [Block -> Values]
  BY <1>1, InvTypes DEF CreateSubBlob, SubBlobOf
<1>3. b \in Watched => blob[b].fixed
  BY DEF Watched
<1>4. CASE s = None
  <2>1. PICK f \in BlobType :
          /\ f = [blob[b] EXCEPT !.fixed = TRUE]
          /\ f.parent = blob[b].parent /\ f.data = blob[b].data /\ f.destroy = blob[b].destroy
          /\ f.refs = blob[b].refs /\ f.fixed /\ f.mode = blob[b].mode
    <3>1. PICK r \in BlobType : r = blob[b]
      BY InvTypes
    <3>2. [r EXCEPT !.fixed = TRUE] \in BlobType
      BY DEF BlobType
    <3>3. PICK f \in BlobType : f = [r EXCEPT !.fixed = TRUE]
      BY <3>2
    <3>4. /\ f.parent = r.parent /\ f.data = r.data /\ f.destroy = r.destroy
          /\ f.refs = r.refs /\ f.fixed /\ f.mode = r.mode
      BY <3>3 DEF BlobType
    <3> QED BY <3>1, <3>3, <3>4, Zenon
  <2>2. blob' = [blob EXCEPT ![b] = f] /\ held' = held
    BY <1>1, <1>4, <2>1 DEF SubBlobOf
  <2>3. Sound(blob', block', Claims')
    <3>1. f.mode = "readonly" \/ blob[b].destroy # "parent"
      BY <2>1, InvTypes, SoundTypes
    <3>2. Sound([blob EXCEPT ![b] = f], block, Claims)
      BY <1>2, <2>1, <3>1, InvTypes, SoundSet DEF Live
    <3> QED BY <1>2, <2>2, <3>2 DEF Claims, sanVars
  <2>4. ASSUME NEW x \in Watched PROVE Untouched(x)
    <3>1. CASE x = b
      <4>1. f.fixed = blob[b].fixed
        BY <1>3, <2>1, <3>1, InvTypes
      <4> QED BY <1>2, <2>1, <2>2, <3>1, <4>1, InvTypes DEF Untouched
    <3>2. CASE x # b
      BY <1>2, <2>2, <3>2, InvTypes DEF Untouched, Watched
    <3> QED BY <3>1, <3>2
  <2> QED BY <1>2, <2>2, <2>3, <2>4, InvTypes DEF Good, Steady
<1>5. CASE s # None
  <2>1. s \in Blob /\ blob[s].refs = 0 /\ s # b
    BY <1>1, <1>2, <1>5 DEF FreeBlobs, Live
  <2>2. PICK f \in BlobType :
          /\ f = New(blob[b].data, "readonly", "parent", b)
          /\ f.refs = 1 /\ f.data = blob[b].data /\ f.mode = "readonly" /\ f.destroy = "parent" /\ f.parent = b
    <3>1. blob[b].data \in Block
      BY <1>2, InvTypes
    <3>2. New(blob[b].data, "readonly", "parent", b) \in BlobType
      BY <3>1 DEF New, BlobType, Modes
    <3> QED BY <3>2 DEF New
  <2>3. PICK g \in BlobType :
          /\ blob' = [blob EXCEPT ![b] = g, ![s] = f]
          /\ g.fixed /\ g.refs = blob[b].refs + 1 /\ g.data = blob[b].data /\ g.mode = blob[b].mode
          /\ g.destroy = blob[b].destroy /\ g.parent = blob[b].parent
    <3>1. PICK r \in BlobType : r = blob[b]
      BY InvTypes
    <3>2. PICK q, g \in BlobType :
            /\ q = [r EXCEPT !.fixed = TRUE] /\ g = [q EXCEPT !.refs = @ + 1]
            /\ g.fixed /\ g.refs = r.refs + 1 /\ g.data = r.data /\ g.mode = r.mode
            /\ g.destroy = r.destroy /\ g.parent = r.parent
      BY ParentFrame
    <3>3. blob' = [blob EXCEPT ![b].fixed = TRUE, ![b].refs = @ + 1, ![s] = f]
      BY <1>1, <1>5, <2>2 DEF SubBlobOf
    <3>4. blob' = [blob EXCEPT ![b] = g, ![s] = f]
      BY <2>1, <3>1, <3>2, <3>3, InvTypes
    <3> QED BY <3>1, <3>2, <3>4, Zenon
  <2>4. blob' = [blob EXCEPT ![b] = g, ![s] = f] /\ held' = [held EXCEPT ![s] = 1]
    BY <1>1, <1>5, <2>3
  <2>5. held' \in [Blob -> Nat] /\ Claims' = [Claims EXCEPT ![s] = 1]
    <3>1. Claims[s] = 0 /\ held[s] = 0 /\ held \in [Blob -> Nat]
      BY <2>1, InvTypes DEF Live
    <3>2. held' \in [Blob -> Nat] /\ held'[s] = 1 /\ \A x \in Blob \ {s} : held'[x] = held[x]
      BY <2>1, <2>4, <3>1
    <3>3. Claims[s] - held[s] + held'[s] = 1
      BY <3>1, <3>2
    <3> QED BY <2>1, <3>2, <3>3, ClaimsChange
  <2>6. Sound(blob', block', Claims')
    <3>1. Sound([blob EXCEPT ![b] = g, ![s] = f], block, [Claims EXCEPT ![s] = 1])
      <4>1. Sound(blob, block, Claims) /\ blob[b].refs > 0 /\ 1 \in Nat /\ 1 > 0
        BY <1>2, InvTypes DEF Live
      <4> QED BY <2>1, <2>2, <2>3, <4>1, SoundSub, Zenon
    <3> QED BY <1>2, <2>4, <2>5, <3>1
  <2>7. ASSUME NEW x \in Watched, Live(x) PROVE Untouched(x)
    <3>1. x # s /\ x \in Blob
      BY <2>1, <2>7 DEF Live, Watched
    <3>2. CASE x = b
      <4>1. blob'[b] = g
        BY <2>1, <2>4, InvTypes
      <4>2. g.fixed = blob[b].fixed
        BY <1>3, <2>3, <2>7, <3>2, InvTypes DEF BlobType
      <4> QED BY <1>2, <2>3, <3>2, <4>1, <4>2 DEF Untouched
    <3>3. CASE x # b
      BY <1>2, <2>4, <3>1, <3>3, InvTypes DEF Untouched
    <3> QED BY <3>2, <3>3
  <2> QED BY <1>2, <2>5, <2>6, <2>7 DEF Good, Steady
<1> QED BY <1>4, <1>5

\* A heap that becomes the state leaves the bytes that are still shown.
LEMMA HeapSteady ==
  ASSUME SanInv, NEW D, BecomesHeap(D), NEW H, Sound(blob', block', H),
         NEW xs \in SUBSET Blob, Spares(D, blob, block, xs, Block)
  PROVE  /\ bytes' \in [Block -> Values]
         /\ \A x \in xs : Live(x) /\ blob'[x].refs > 0 => Untouched(x)
<1>1. /\ blob' = D.blob /\ block' = D.block
      /\ bytes' = [k \in Block |-> IF D.block[k] = "none" THEN Lost ELSE bytes[k]]
  BY DEF BecomesHeap
<1>2. bytes' \in [Block -> Values]
  BY <1>1, InvTypes
<1>3. ASSUME NEW x \in xs, blob'[x].refs > 0 PROVE Untouched(x)
  <2>1. blob'[x].data = blob[x].data /\ blob'[x].mode = blob[x].mode /\ blob'[x].fixed = blob[x].fixed
    BY <1>1, <1>3 DEF Spares
  <2>2. Fits(blob', block', x)
    BY DEF Sound
  <2>3. blob'[x].data \in Block /\ block'[blob'[x].data] # "none"
    BY <1>3, <2>2 DEF Fits
  <2>4. bytes'[blob'[x].data] = bytes[blob'[x].data]
    BY <1>1, <2>3
  <2> QED BY <2>1, <2>4 DEF Untouched
<1> QED BY <1>2, <1>3

LEMMA ClaimsAre ==
  ASSUME SanInv
  PROVE  /\ \A x \in Blob :
              Claims[x] = held[x] + (IF file = x THEN 1 ELSE 0) + (IF table = x THEN 2 ELSE 0)
         /\ \A x \in Blob :
              Claims'[x] = held'[x] + (IF file' = x THEN 1 ELSE 0) + (IF table' = x THEN 2 ELSE 0)
         /\ \A x \in Blob : Claims[x] \in Nat /\ held[x] \in Nat
<1>1. \A x \in Blob : Claims[x] \in Nat /\ held[x] \in Nat
  BY InvTypes
<1> QED BY <1>1 DEF Claims, HeldBy

LEMMA ClaimsAt ==
  ASSUME NEW b \in Blob, NEW n, Claims'[b] = n, \A x \in Blob \ {b} : Claims'[x] = Claims[x]
  PROVE  Claims' = [Claims EXCEPT ![b] = n]
<1>1. PICK G, G2 : G = Claims /\ G2 = Claims'
  OBVIOUS
<1>2. G = [x \in Blob |-> G[x]] /\ G2 = [x \in Blob |-> G2[x]]
  BY <1>1 DEF Claims, HeldBy
<1>3. \A x \in Blob : G2[x] = [G EXCEPT ![b] = n][x]
  BY <1>1, <1>2
<1>4. G2 = [G EXCEPT ![b] = n]
  BY <1>2, <1>3
<1> QED BY <1>1, <1>4

\* Somebody drops a reference to b.
LEMMA DropStep ==
  ASSUME SanInv, NEW b \in Blob, BecomesHeap(Dropped(Heap, b)), Claims[b] > 0,
         Claims' = [Claims EXCEPT ![b] = @ - 1]
  PROVE  /\ Sound(blob', block', Claims') /\ bytes' \in [Block -> Values]
         /\ \A x \in Blob : Live(x) /\ blob'[x].refs > 0 => Untouched(x)
<1>1. PICK h, D : h = Heap /\ D = Dropped(h, b)
  OBVIOUS
<1>2. h.blob = blob /\ h.block = block
  BY <1>1 DEF Heap
<1>3. blob' = D.blob /\ block' = D.block /\ BecomesHeap(D)
  BY <1>1 DEF BecomesHeap
<1>4. Sound(blob, block, Claims)
  BY InvTypes
<1>5. Sound(D.blob, D.block, [Claims EXCEPT ![b] = @ - 1])
  BY <1>1, <1>2, <1>4, SoundDropped
<1>6. Spares(D, blob, block, Blob, Block)
  BY <1>1, <1>2, <1>4, SoundDropped
<1>7. PICK H : H = Claims'
  OBVIOUS
<1>8. Sound(blob', block', H)
  BY <1>3, <1>5, <1>7
<1>9. /\ bytes' \in [Block -> Values]
      /\ \A x \in Blob : Live(x) /\ blob'[x].refs > 0 => Untouched(x)
  BY <1>3, <1>6, <1>8, HeapSteady
<1> QED BY <1>7, <1>8, <1>9

LEMMA DestroyStep ==
  ASSUME SanInv, NEW b \in Blob, Destroy(b), UNCHANGED <<file, sanVars>>
  PROVE  Good
<1>1. held[b] > 0 /\ BecomesHeap(Dropped(Heap, b)) /\ held' = [held EXCEPT ![b] = @ - 1]
  BY DEF Destroy
<1>2. /\ Claims[b] \in Nat /\ Claims[b] > 0 /\ held[b] \in Nat /\ held \in [Blob -> Nat]
  BY <1>1, InvTypes
<1>3. held' \in [Blob -> Nat] /\ held'[b] = held[b] - 1 /\ \A x \in Blob \ {b} : held'[x] = held[x]
  <2>1. held[b] - 1 \in Nat
    BY <1>1, <1>2
  <2> QED BY <1>1, <1>2, <2>1
<1>4. Claims' = [Claims EXCEPT ![b] = @ - 1]
  <2>1. Claims[b] - held[b] + held'[b] = Claims[b] - 1
    BY <1>2, <1>3
  <2>2. Claims' = [Claims EXCEPT ![b] = Claims[b] - held[b] + held'[b]]
    BY <1>3, ClaimsChange
  <2> QED BY <2>1, <2>2
<1>5. /\ Sound(blob', block', Claims') /\ bytes' \in [Block -> Values]
      /\ \A x \in Blob : Live(x) /\ blob'[x].refs > 0 => Untouched(x)
  BY <1>1, <1>2, <1>4, DropStep
<1> QED BY <1>3, <1>5 DEF Good, Steady, Watched

\* The mode of a blob changes.
LEMMA ModeSet ==
  ASSUME SanInv, NEW b \in Blob, Live(b), NEW m \in Modes,
         m = "readonly" \/ blob[b].destroy # "parent"
  PROVE  \E B \in [Blob -> BlobType] :
           /\ [Heap EXCEPT !.blob[b].mode = m] = [blob |-> B, block |-> block]
           /\ Sound(B, block, Claims)
           /\ \A x \in Blob \ {b} : B[x] = blob[x]
           /\ B[b].refs = blob[b].refs /\ B[b].data = blob[b].data /\ B[b].fixed = blob[b].fixed
           /\ B[b].mode = m
<1>1. PICK r \in BlobType : r = blob[b]
  BY InvTypes
<1>2. PICK f \in BlobType : f = [r EXCEPT !.mode = m]
  <2>1. [r EXCEPT !.mode = m] \in BlobType
    BY DEF BlobType
  <2> QED BY <2>1
<1>3. /\ f.parent = r.parent /\ f.data = r.data /\ f.destroy = r.destroy
      /\ f.refs = r.refs /\ f.fixed = r.fixed /\ f.mode = m
  BY <1>2 DEF BlobType
<1>4. PICK B \in [Blob -> BlobType] : B = [blob EXCEPT ![b] = f]
  BY InvTypes
<1>5. Sound(B, block, Claims)
  <2>1. f.mode = "readonly" \/ blob[b].destroy # "parent"
    BY <1>3
  <2>2. Sound([blob EXCEPT ![b] = f], block, Claims)
    BY <1>1, <1>3, <2>1, InvTypes, SoundSet DEF Live
  <2> QED BY <1>4, <2>2
<1>6. B[b] = f /\ \A x \in Blob \ {b} : B[x] = blob[x]
  BY <1>4, InvTypes
<1>7. [Heap EXCEPT !.blob[b].mode = m] = [blob |-> B, block |-> block]
  BY <1>1, <1>2, <1>4 DEF Heap
<1> QED BY <1>1, <1>3, <1>5, <1>6, <1>7

LEMMA WritableStep ==
  ASSUME SanInv, NEW b \in Blob, Live(b), NEW ok \in BOOLEAN, MakeWritable(b, ok), Claims' = Claims
  PROVE  /\ Sound(blob', block', Claims') /\ bytes' \in [Block -> Values]
         /\ \A x \in Blob : (x # b \/ blob[b].fixed) /\ Live(x) /\ blob'[x].refs > 0 => Untouched(x)
         /\ ok => blob'[b].mode = "writable" /\ ~blob'[b].fixed
<1> USE InvTypes
<1>1. CASE /\ blob[b].fixed \/ blob[b].mode = "writable"
           /\ ok = ~blob[b].fixed
           /\ UNCHANGED <<blob, block, bytes>>
  BY <1>1, Zenon DEF Untouched
<1>2. CASE /\ ~blob[b].fixed /\ blob[b].mode = "may_make_writable" /\ ok
           /\ BecomesHeap(MadeInPlace(b))
  <2>1. blob[b].destroy # "parent"
    BY <1>2, SoundTypes
  <2>2. PICK B \in [Blob -> BlobType] :
          /\ MadeInPlace(b) = [blob |-> B, block |-> block]
          /\ Sound(B, block, Claims)
          /\ \A x \in Blob \ {b} : B[x] = blob[x]
          /\ B[b].fixed = blob[b].fixed /\ B[b].mode = "writable"
    BY <2>1, ModeSet DEF MadeInPlace, Modes
  <2>3. PICK D : D = MadeInPlace(b)
    OBVIOUS
  <2>4. BecomesHeap(D) /\ D.blob = B /\ D.block = block
    BY <1>2, <2>2, <2>3
  <2>5. blob' = B /\ block' = block
    BY <2>4 DEF BecomesHeap
  <2>6. Sound(blob', block', Claims)
    BY <2>2, <2>5
  <2>7. Spares(D, blob, block, Blob \ {b}, Block)
    BY <2>2, <2>4 DEF Spares
  <2>8. Blob \ {b} \in SUBSET Blob
    OBVIOUS
  <2>9. /\ bytes' \in [Block -> Values]
        /\ \A x \in Blob \ {b} : Live(x) /\ blob'[x].refs > 0 => Untouched(x)
    BY <2>4, <2>6, <2>7, <2>8, HeapSteady
  <2> QED BY <1>2, <2>2, <2>5, <2>6, <2>9
<1>3. ASSUME ~blob[b].fixed
      PROVE  \E B \in [Blob -> BlobType] :
               /\ NotInPlace(b) = [blob |-> B, block |-> block]
               /\ Sound(B, block, Claims)
               /\ \A x \in Blob \ {b} : B[x] = blob[x]
               /\ B[b].refs > 0 /\ ~B[b].fixed
  <2>1. CASE blob[b].mode = "may_make_writable"
    <3>1. PICK B \in [Blob -> BlobType] :
            /\ [Heap EXCEPT !.blob[b].mode = "readonly"] = [blob |-> B, block |-> block]
            /\ Sound(B, block, Claims)
            /\ \A x \in Blob \ {b} : B[x] = blob[x]
            /\ B[b].refs = blob[b].refs /\ B[b].fixed = blob[b].fixed
      BY ModeSet DEF Modes
    <3> QED BY <1>3, <2>1, <3>1 DEF NotInPlace, Live
  <2>2. CASE blob[b].mode # "may_make_writable"
    BY <1>3, <2>2 DEF NotInPlace, Heap, Live
  <2> QED BY <2>1, <2>2
<1>4. CASE /\ ~blob[b].fixed /\ blob[b].mode # "writable" /\ ok
           /\ Copies(NotInPlace(b), b)
  <2>1. PICK B \in [Blob -> BlobType] :
          /\ NotInPlace(b) = [blob |-> B, block |-> block]
          /\ Sound(B, block, Claims)
          /\ \A x \in Blob \ {b} : B[x] = blob[x]
          /\ B[b].refs > 0 /\ ~B[b].fixed
    BY <1>3, <1>4
  <2>2. PICK h : h = [blob |-> B, block |-> block]
    OBVIOUS
  <2>3. PICK k \in FreeBlocks :
          LET h2 == CopyTo(h, b, k)
          IN /\ blob' = h2.blob /\ block' = h2.block
             /\ bytes' = [x \in Block |-> IF x = k THEN bytes[blob[b].data]
                                          ELSE IF h2.block[x] = "none" THEN Lost ELSE bytes[x]]
    BY <1>4, <2>1, <2>2 DEF Copies
  <2>4. k \in Block /\ block[k] = "none" /\ blob[b].data \in Block
    BY DEF FreeBlocks, Sound, Fits, Live
  <2>5. PICK D : D = CopyTo(h, b, k)
    OBVIOUS
  <2>6. /\ blob' = D.blob /\ block' = D.block
        /\ bytes' = [x \in Block |-> IF x = k THEN bytes[blob[b].data]
                                     ELSE IF D.block[x] = "none" THEN Lost ELSE bytes[x]]
    BY <2>3, <2>5
  <2>7. /\ Sound(D.blob, D.block, Claims)
        /\ D.blob[b].mode = "writable" /\ ~D.blob[b].fixed
        /\ Spares(D, B, block, Blob \ {b}, Block \ {k})
    <3>1. /\ Sound(CopyTo(h, b, k).blob, CopyTo(h, b, k).block, Claims)
          /\ CopyTo(h, b, k).blob[b].mode = "writable" /\ ~CopyTo(h, b, k).blob[b].fixed
          /\ Spares(CopyTo(h, b, k), B, block, Blob \ {b}, Block \ {k})
      <4> HIDE InvTypes
      <4>1. B[b].refs > 0 /\ ~B[b].fixed /\ k \in Block /\ block[k] = "none" /\ Sound(B, block, Claims)
        BY <2>1, <2>4
      <4> QED BY <2>2, <4>1, SoundCopied
    <3> QED BY <2>5, <3>1
  <2>8. ASSUME NEW x \in Blob \ {b}, Live(x), blob'[x].refs > 0 PROVE Untouched(x)
    <3>1. blob'[x].data = blob[x].data /\ blob'[x].mode = blob[x].mode /\ blob'[x].fixed = blob[x].fixed
      BY <2>1, <2>6, <2>7, <2>8 DEF Spares
    <3>2. Fits(blob, block, x) /\ Fits(blob', block', x)
      BY <2>6, <2>7 DEF Sound
    <3>3. /\ blob[x].data \in Block /\ blob[x].data # k
          /\ blob'[x].data \in Block /\ block'[blob'[x].data] # "none"
      BY <2>4, <2>8, <3>2 DEF Fits, Live
    <3>4. bytes'[blob[x].data] = bytes[blob[x].data]
      BY <2>6, <3>1, <3>3
    <3> QED BY <3>1, <3>4 DEF Untouched
  <2>9. bytes' \in [Block -> Values]
    BY <2>4, <2>6
  <2> QED BY <1>4, <2>6, <2>7, <2>8, <2>9
<1>5. CASE /\ ~blob[b].fixed /\ blob[b].mode # "writable" /\ ~ok
           /\ BecomesHeap(NotInPlace(b))
  <2>1. PICK B \in [Blob -> BlobType] :
          /\ NotInPlace(b) = [blob |-> B, block |-> block]
          /\ Sound(B, block, Claims)
          /\ \A x \in Blob \ {b} : B[x] = blob[x]
    BY <1>3, <1>5
  <2>2. PICK D : D = NotInPlace(b)
    OBVIOUS
  <2>3. BecomesHeap(D) /\ D.blob = B /\ D.block = block
    BY <1>5, <2>1, <2>2
  <2>4. blob' = B /\ block' = block
    BY <2>3 DEF BecomesHeap
  <2>5. Sound(blob', block', Claims)
    BY <2>1, <2>4
  <2>6. Spares(D, blob, block, Blob \ {b}, Block)
    BY <2>1, <2>3 DEF Spares
  <2>7. Blob \ {b} \in SUBSET Blob
    OBVIOUS
  <2>8. /\ bytes' \in [Block -> Values]
        /\ \A x \in Blob \ {b} : Live(x) /\ blob'[x].refs > 0 => Untouched(x)
    BY <2>3, <2>5, <2>6, <2>7, HeapSteady
  <2> QED BY <1>5, <2>5, <2>8
<1> QED BY <1>1, <1>2, <1>4, <1>5, Zenon DEF MakeWritable

LEMMA GetDataWritableStep ==
  ASSUME SanInv, NEW b \in Blob, b # table \/ blob[b].fixed, GetDataWritable(b),
         UNCHANGED <<file, sanVars>>
  PROVE  Good
<1>1. PICK ok \in BOOLEAN : MakeWritable(b, ok)
  BY DEF GetDataWritable
<1>2. held[b] > 0 /\ held' = held
  BY DEF GetDataWritable
<1>3. Live(b) /\ held' \in [Blob -> Nat]
  BY <1>2, InvTypes
<1>4. Claims' = Claims
  BY <1>2 DEF Claims, sanVars
<1>5. /\ Sound(blob', block', Claims') /\ bytes' \in [Block -> Values]
      /\ \A x \in Blob : (x # b \/ blob[b].fixed) /\ Live(x) /\ blob'[x].refs > 0 => Untouched(x)
  BY <1>1, <1>3, <1>4, WritableStep
<1>6. Steady
  BY <1>5 DEF Steady, Watched
<1> QED BY <1>3, <1>5, <1>6 DEF Good

LEMMA ClientWritesStep ==
  ASSUME SanInv, NEW b \in Blob, b # table \/ blob[b].fixed, ClientWrites(b),
         UNCHANGED <<file, sanVars>>
  PROVE  Good
<1>1. PICK c \in Content : bytes' = [bytes EXCEPT ![blob[b].data] = c]
  BY DEF ClientWrites
<1>2. /\ held[b] > 0 /\ blob[b].mode = "writable" /\ ~blob[b].fixed
      /\ blob' = blob /\ block' = block /\ held' = held
  BY DEF ClientWrites
<1>3. Live(b) /\ Sound(blob, block, Claims) /\ blob[b].destroy # "parent"
  BY <1>2, InvTypes, SoundTypes
<1>4. \A x \in Blob : blob[x].refs > 0 /\ blob[x].data = blob[b].data => x = b
  BY <1>2, <1>3, OwnerAlone DEF Live
<1>5. Sound(blob', block', Claims')
  BY <1>2, <1>3 DEF Claims, sanVars
<1>6. ASSUME NEW x \in Watched, Live(x) PROVE Untouched(x)
  <2>1. x # b /\ x \in Blob
    BY <1>2 DEF Watched
  <2>2. blob[x].data # blob[b].data
    BY <1>4, <1>6, <2>1 DEF Live
  <2> QED BY <1>1, <1>2, <2>2, InvTypes DEF Untouched
<1>7. bytes' \in [Block -> Values] /\ held' \in [Blob -> Nat]
  BY <1>1, <1>2, InvTypes, SanitizerAssumption
<1> QED BY <1>5, <1>6, <1>7 DEF Good, Steady

-----------------------------------------------------------------------------
(* A round of a check.                                                      *)

LEMMA LeastNat ==
  ASSUME NEW T, T \subseteq Nat, T # {}
  PROVE  \E x \in T : \A y \in T : x <= y
<1> DEFINE R == {p \in Nat \X Nat : p[1] < p[2]}
<1>1. IsWellFoundedOn(R, Nat)
  BY NatLessThanWellFounded DEF OpToRel
<1>2. PICK x \in T : \A y \in T : <<y, x>> \notin R
  <2> HIDE DEF R
  <2> QED BY <1>1, WFMin
<1>3. \A y \in T : ~(y < x)
  BY <1>2
<1> QED BY <1>3

Results == [sane : BOOLEAN, ops : Nat, edits : Nat, value : Values]
Start(left) == [sane |-> TRUE, ops |-> left, edits |-> 0, value |-> Value]

\* f has the results after each check of the round
Rounds(f, left, m) ==
  f = [k \in 0 .. m |-> IF k = 0 THEN Start(left) ELSE SanitizeOffset(f[k - 1], Checked[k])]

LEMMA CheckedOffsets ==
  ASSUME SanInv
  PROVE  /\ Len(Checked) \in Nat /\ \A k \in 1 .. Len(Checked) : Checked[k] \in Offset
         /\ ToSet(Checked) = {Checked[k] : k \in 1 .. Len(Checked)}
<1>1. NumOffsets \in Nat /\ NumFile \in Nat /\ NumFile <= NumOffsets
  BY SanitizerAssumption
<1>2. CASE type = "file"
  <2>1. Checked = [k \in 1 .. NumFile |-> k]
    BY <1>2 DEF Checked
  <2>2. Checked \in Seq(Offset) /\ Len(Checked) = NumFile
    BY <1>1, <2>1 DEF Offset
  <2> QED BY <1>1, <2>1, <2>2 DEF Offset, ToSet
<1>3. CASE type # "file"
  <2>1. PICK n \in Nat : n = NumOffsets - NumFile
    BY <1>1
  <2>2. Checked = [k \in 1 .. n |-> NumFile + k]
    BY <1>3, <2>1 DEF Checked
  <2>3. \A k \in 1 .. n : NumFile + k \in Offset
    BY <1>1, <2>1 DEF Offset
  <2>4. Checked \in Seq(Offset) /\ Len(Checked) = n
    BY <2>2, <2>3
  <2> QED BY <2>2, <2>3, <2>4 DEF ToSet
<1> QED BY <1>2, <1>3

\* A check asks for an edit or finds nothing bad, and changes the bytes only
\* when it may.
LEMMA OffsetSanitized ==
  ASSUME NEW r \in Results, NEW o \in Offset
  PROVE  /\ SanitizeOffset(r, o) \in Results
         /\ ~writable => SanitizeOffset(r, o).value = r.value
         /\ SanitizeOffset(r, o).sane /\ SanitizeOffset(r, o).edits = 0 =>
              /\ r.sane /\ r.edits = 0 /\ SanitizeOffset(r, o).value = r.value
              /\ r.value[o] # "bad"
<1> DEFINE s == SanitizeOffset(r, o)
<1>1. /\ r.sane \in BOOLEAN /\ r.ops \in Nat /\ r.edits \in Nat /\ r.value \in Values
      /\ r.value[o] \in {"null", "good", "bad"} /\ MaxEdits \in Nat
  BY SanitizerAssumption DEF Results, Values
<1>2. CASE ~r.sane
  BY <1>2 DEF SanitizeOffset
<1>3. CASE r.sane /\ r.ops = 0
  <2>1. s = [r EXCEPT !.sane = FALSE]
    BY <1>3 DEF SanitizeOffset
  <2>2. s \in Results /\ ~s.sane /\ s.value = r.value
    BY <2>1 DEF Results
  <2> QED BY <2>2
<1>4. CASE r.sane /\ r.ops # 0 /\ r.value[o] = "null"
  <2>1. s = [r EXCEPT !.ops = @ - 1] /\ r.ops - 1 \in Nat
    BY <1>1, <1>4 DEF SanitizeOffset
  <2>2. s \in Results /\ s.sane = r.sane /\ s.value = r.value /\ s.edits = r.edits
    BY <2>1 DEF Results
  <2> QED BY <1>4, <2>2
<1>5. CASE r.sane /\ r.ops > 1 /\ r.value[o] = "good"
  <2>1. s = [r EXCEPT !.ops = @ - 2] /\ r.ops - 2 \in Nat
    BY <1>1, <1>5 DEF SanitizeOffset
  <2>2. s \in Results /\ s.sane = r.sane /\ s.value = r.value /\ s.edits = r.edits
    BY <2>1 DEF Results
  <2> QED BY <1>5, <2>2
<1>6. CASE r.sane /\ r.ops # 0 /\ r.value[o] # "null" /\ ~(r.ops > 1 /\ r.value[o] = "good")
  <2> DEFINE t == [r EXCEPT !.edits = IF @ < MaxEdits THEN @ + 1 ELSE @]
             q == [t EXCEPT !.ops = IF @ > 1 THEN @ - 2 ELSE 0]
  <2>1. t \in Results /\ t.edits = (IF r.edits < MaxEdits THEN r.edits + 1 ELSE r.edits)
        /\ t.ops = r.ops /\ t.value = r.value
    BY <1>1 DEF Results
  <2>2. s = IF MayEdit(r) THEN [q EXCEPT !.value = SetToNull(@, o)] ELSE [q EXCEPT !.sane = FALSE]
    BY <1>6 DEF SanitizeOffset, Requested
  <2>3. q \in Results /\ q.edits = t.edits /\ q.value = t.value
    <3>1. (IF t.ops > 1 THEN t.ops - 2 ELSE 0) \in Nat
      BY <1>1, <2>1
    <3> HIDE DEF t
    <3> QED BY <2>1, <3>1 DEF Results
  <2> HIDE DEF q, t
  <2>4. CASE MayEdit(r)
    <3>1. s = [q EXCEPT !.value = SetToNull(@, o)]
      BY <2>2, <2>4
    <3>2. SetToNull(q.value, o) \in Values
      BY <1>1, <2>1, <2>3 DEF SetToNull, Values
    <3>3. s \in Results /\ s.edits = q.edits
      BY <2>3, <3>1, <3>2 DEF Results
    <3>4. q.edits # 0 /\ writable
      BY <1>1, <2>1, <2>3, <2>4 DEF MayEdit
    <3> QED BY <3>3, <3>4
  <2>5. CASE ~MayEdit(r)
    <3>1. s = [q EXCEPT !.sane = FALSE]
      BY <2>2, <2>5
    <3>2. s \in Results /\ ~s.sane /\ s.value = q.value
      BY <2>3, <3>1 DEF Results
    <3> QED BY <2>1, <2>3, <3>2
  <2> QED BY <2>4, <2>5
<1> HIDE DEF s
<1> QED BY <1>1, <1>2, <1>3, <1>4, <1>5, <1>6

\* The recursion that runs through the checks has a solution.
LEMMA RoundsExist ==
  ASSUME SanInv, NEW left, NEW n \in Nat
  PROVE  \E f : Rounds(f, left, n)
<1> SUFFICES ASSUME ~\E f : Rounds(f, left, n) PROVE FALSE
  OBVIOUS
<1> DEFINE Bad == {m \in Nat : ~\E f : Rounds(f, left, m)}
<1>1. PICK m \in Nat : m \in Bad /\ \A x \in Bad : m <= x
  <2>1. Bad \subseteq Nat /\ Bad # {}
    OBVIOUS
  <2> HIDE DEF Bad
  <2> QED BY <2>1, LeastNat
<1>2. CASE m = 0
  <2> DEFINE f == [k \in 0 .. 0 |-> Start(left)]
  <2>1. f = [k \in 0 .. 0 |-> IF k = 0 THEN Start(left) ELSE SanitizeOffset(f[k - 1], Checked[k])]
    OBVIOUS
  <2>2. Rounds(f, left, 0)
    BY <2>1 DEF Rounds
  <2> QED BY <1>1, <1>2, <2>2
<1>3. CASE m # 0
  <2>1. m - 1 \in Nat /\ m - 1 \notin Bad
    BY <1>1, <1>3
  <2>2. PICK f : Rounds(f, left, m - 1)
    BY <2>1
  <2> DEFINE g == [k \in 0 .. m |-> IF k = m THEN SanitizeOffset(f[m - 1], Checked[m]) ELSE f[k]]
             Next1(h, k) == IF k = 0 THEN Start(left) ELSE SanitizeOffset(h[k - 1], Checked[k])
  <2>3. ASSUME NEW k \in 0 .. m PROVE g[k] = Next1(g, k)
    <3>1. CASE k = m
      <4>1. g[m - 1] = f[m - 1]
        BY <1>3, <2>1
      <4> QED BY <1>3, <3>1, <4>1
    <3>2. CASE k # m
      <4>1. k \in 0 .. (m - 1)
        BY <3>2
      <4>2. f[k] = Next1(f, k)
        BY <2>2, <4>1 DEF Rounds
      <4>3. k # 0 => g[k - 1] = f[k - 1]
        BY <3>2
      <4> QED BY <3>2, <4>2, <4>3
    <3> QED BY <3>1, <3>2
  <2>4. g = [k \in 0 .. m |-> Next1(g, k)]
    <3> HIDE DEF Next1
    <3> QED BY <2>3
  <2>5. Rounds(g, left, m)
    BY <2>4 DEF Rounds
  <2> QED BY <1>1, <2>5
<1> QED BY <1>2, <1>3

\* A round that is content and asked for no edit left the bytes as they were,
\* with nothing bad in what it checked.
Honest(r, os) ==
  /\ r \in Results /\ (~writable => r.value = Value)
  /\ r.sane /\ r.edits = 0 => r.value = Value /\ \A o \in os : Value[o] # "bad"

LEMMA SanitizedHonest ==
  ASSUME SanInv, Value \in Values, NEW left \in Nat
  PROVE  Honest(Sanitized(left), ToSet(Checked))
<1> DEFINE n == Len(Checked)
           Before(k) == {Checked[j] : j \in 1 .. k}
<1>0. /\ n \in Nat /\ \A k \in 1 .. n : Checked[k] \in Offset
      /\ ToSet(Checked) = Before(n)
  BY CheckedOffsets
<1>1. PICK f : Rounds(f, left, n) /\ Sanitized(left) = f[n]
  <2> DEFINE g == CHOOSE g : Rounds(g, left, n)
  <2>1. Rounds(g, left, n)
    BY <1>0, RoundsExist
  <2>2. Sanitized(left) = g[n]
    BY DEF Sanitized, Rounds, Start
  <2> QED BY <2>1, <2>2
<1>2. \A k \in 0 .. n : f[k] = IF k = 0 THEN Start(left) ELSE SanitizeOffset(f[k - 1], Checked[k])
  BY <1>1 DEF Rounds
<1>3. ASSUME NEW k \in 0 .. n, ~Honest(f[k], Before(k)) PROVE FALSE
  <2> DEFINE Bad == {m \in Nat : m <= n /\ ~Honest(f[m], Before(m))}
  <2>1. PICK m \in Nat : m \in Bad /\ \A x \in Bad : m <= x
    <3>1. Bad \subseteq Nat /\ k \in Bad
      BY <1>0, <1>3
    <3> HIDE DEF Bad
    <3> QED BY <3>1, LeastNat
  <2>2. m \in 0 .. n /\ ~Honest(f[m], Before(m))
    BY <1>0, <2>1
  <2>3. CASE m = 0
    <3>1. f[0] = Start(left)
      BY <1>2, <2>2, <2>3
    <3>2. Start(left) \in Results /\ Start(left).value = Value /\ Before(0) = {}
      BY DEF Start, Results
    <3> HIDE DEF Before
    <3> QED BY <2>2, <2>3, <3>1, <3>2 DEF Honest
  <2>4. CASE m # 0
    <3>1. m \in 1 .. n
      BY <1>0, <2>2, <2>4
    <3>2. PICK j \in Nat : j = m - 1 /\ m = j + 1 /\ j <= n /\ ~(m <= j)
      BY <1>0, <3>1
    <3>3. PICK r : r = f[j] /\ Honest(r, Before(j))
      <4>1. j \notin Bad
        <5> HIDE DEF Bad
        <5> QED BY <2>1, <3>2
      <4>2. Honest(f[j], Before(j))
        <5> HIDE DEF Before
        <5> QED BY <3>2, <4>1
      <4> QED BY <4>2
    <3>4. PICK o \in Offset : o = Checked[m]
      BY <1>0, <3>1
    <3>5. f[m] = SanitizeOffset(r, o)
      BY <1>2, <2>2, <2>4, <3>2, <3>3, <3>4
    <3>6. PICK s : s = SanitizeOffset(r, o)
      OBVIOUS
    <3>7. /\ s \in Results /\ (~writable => s.value = r.value)
          /\ s.sane /\ s.edits = 0 => r.sane /\ r.edits = 0 /\ s.value = r.value /\ r.value[o] # "bad"
      BY <3>3, <3>6, OffsetSanitized DEF Honest
    <3>8. \A x \in Before(m) : x \in Before(j) \/ x = o
      BY <3>2, <3>4
    <3> HIDE DEF Before
    <3>9. Honest(s, Before(m))
      BY <3>3, <3>7, <3>8 DEF Honest
    <3> QED BY <2>2, <3>5, <3>6, <3>9
  <2> QED BY <2>3, <2>4
<1>4. Honest(f[n], Before(n))
  <2>1. n \in 0 .. n
    BY <1>0
  <2> HIDE DEF Before, n
  <2> QED BY <1>3, <2>1
<1> QED BY <1>0, <1>1, <1>4

-----------------------------------------------------------------------------
(* The steps of a check.                                                    *)

Frozen == \A x \in Blob : blob[x].fixed /\ Live(x) /\ blob'[x].refs > 0 => Untouched(x)

LEMMA InvParts ==
  ASSUME SanInv
  PROVE  /\ at = "idle" <=> table = None
         /\ type = "file" => file = None
         /\ writable => table # None /\ blob[table].mode = "writable" /\ ~blob[table].fixed
         /\ type \in {"file", "table"} /\ ops \in Nat /\ edits \in Nat /\ writable \in BOOLEAN
         /\ at \in {"idle", "first", "second", "insane", "passed", "failed"}
         /\ at = "idle" => ~writable
BY DEF SanInv, TypeOK

LEMMA TypeNext ==
  ASSUME NEW H, Sound(blob', block', H), bytes' \in [Block -> Values], held' \in [Blob -> Nat],
         file' \in Blob \cup {None}, table' \in Blob \cup {None},
         type' \in {"file", "table"}, ops' \in Nat, edits' \in Nat, writable' \in BOOLEAN,
         at' \in {"idle", "first", "second", "insane", "passed", "failed"}
  PROVE  TypeOK'
BY DEF TypeOK, Sound, BlobType, BlockType

LEMMA RoundStep ==
  ASSUME SanInv, at # "idle", NEW left \in Nat, NEW r, r = Sanitized(left), Round(r),
         at' \in {"second", "insane", "passed", "failed"},
         at' = "passed" => r.sane /\ r.edits = 0
  PROVE  SanInv' /\ Frozen
<1> USE InvTypes, InvParts
<1>1. PICK b \in Blob : b = table
  OBVIOUS
<1>2. PICK d \in Block : d = blob[b].data
  BY <1>1
<1>3. Value = bytes[d] /\ Value \in Values
  BY <1>1, <1>2 DEF Value
<1>4. Honest(r, ToSet(Checked))
  BY <1>3, SanitizedHonest
<1>5. /\ bytes' = [bytes EXCEPT ![d] = r.value] /\ ops' = r.ops /\ edits' = r.edits
      /\ blob' = blob /\ block' = block /\ held' = held /\ file' = file
      /\ type' = type /\ table' = table /\ writable' = writable
  BY <1>1, <1>2 DEF Round
<1>6. r.value \in Values /\ r.ops \in Nat /\ r.edits \in Nat
  BY <1>4 DEF Honest, Results
<1>7. bytes' \in [Block -> Values]
  BY <1>5, <1>6
<1>8. Claims' = Claims
  BY <1>5 DEF Claims
<1>9. Sound(blob', block', Claims')
  BY <1>5, <1>8
<1>10. TypeOK'
  BY <1>5, <1>6, <1>7, <1>9, TypeNext
<1>11. AcceptedIsSane'
  <2> SUFFICES ASSUME at' = "passed", NEW o \in ToSet(Checked)' PROVE Value'[o] # "bad"
    BY DEF AcceptedIsSane
  <2>1. r.value = Value /\ \A x \in ToSet(Checked) : Value[x] # "bad"
    BY <1>4 DEF Honest
  <2>2. Checked' = Checked
    BY <1>5 DEF Checked
  <2>3. Value' = Value
    BY <1>1, <1>2, <1>3, <1>5, <2>1 DEF Value
  <2> QED BY <2>1, <2>2, <2>3
<1>12. Frozen
  <2> SUFFICES ASSUME NEW x \in Blob, blob[x].fixed, Live(x) PROVE Untouched(x)
    BY DEF Frozen
  <2>1. CASE writable
    <3>1. blob[b].mode = "writable" /\ ~blob[b].fixed /\ blob[b].refs > 0
      BY <1>1, <2>1 DEF Live
    <3>2. Sound(blob, block, Claims) /\ blob[b].destroy # "parent"
      BY <3>1, SoundTypes
    <3>3. \A y \in Blob : blob[y].refs > 0 /\ blob[y].data = blob[b].data => y = b
      BY <3>1, <3>2, OwnerAlone
    <3>4. blob[x].data # d
      BY <1>2, <3>1, <3>3 DEF Live
    <3>5. Fits(blob, block, x)
      BY DEF Sound
    <3>6. blob[x].data \in Block
      BY <3>5 DEF Fits, Live
    <3> QED BY <1>5, <3>4, <3>6 DEF Untouched
  <2>2. CASE ~writable
    <3>1. bytes' = bytes
      BY <1>3, <1>4, <1>5, <2>2 DEF Honest
    <3> QED BY <1>5, <3>1 DEF Untouched
  <2> QED BY <2>1, <2>2
<1>13. /\ at' = "idle" <=> table' = None
       /\ type' = "file" => file' = None
       /\ writable' => table' # None /\ blob'[table'].mode = "writable" /\ ~blob'[table'].fixed
  BY <1>1, <1>5
<1> QED BY <1>9, <1>10, <1>11, <1>12, <1>13 DEF SanInv

LEMMA FirstRoundStep == ASSUME SanInv, FirstRound PROVE SanInv' /\ Frozen
<1>1. PICK r : r = Sanitized(MaxOps)
  OBVIOUS
<1>2. /\ at = "first" /\ Round(r)
      /\ at' = IF ~r.sane THEN "insane" ELSE IF r.edits > 0 THEN "second" ELSE "passed"
  BY <1>1, Zenon DEF FirstRound
<1>3. Honest(r, ToSet(Checked))
  <2>1. Value \in Values
    BY <1>2, InvTypes, InvParts DEF Value
  <2> QED BY <1>1, <2>1, SanitizedHonest, SanitizerAssumption
<1>4. r.edits \in Nat
  BY <1>3 DEF Honest, Results
<1> QED BY <1>1, <1>2, <1>4, RoundStep, SanitizerAssumption

LEMMA SecondRoundStep == ASSUME SanInv, SecondRound PROVE SanInv' /\ Frozen
<1>1. PICK r : r = Sanitized(ops)
  OBVIOUS
<1>2. /\ at = "second" /\ Round(r)
      /\ at' = IF r.sane /\ r.edits = 0 THEN "passed" ELSE "failed"
  BY <1>1, Zenon DEF SecondRound
<1> QED BY <1>1, <1>2, RoundStep, InvParts

\* sanitize_blob is given a reference, and takes a second one.
LEMMA TwoReferences ==
  ASSUME SanInv, NEW b \in Blob, Live(b), table = None,
         blob' = [blob EXCEPT ![b].refs = @ + 2], Sanitize(b, type'), type' \in {"file", "table"},
         type' = "file" => file = None,
         UNCHANGED <<block, bytes, held, file>>
  PROVE  SanInv' /\ Frozen
<1> USE InvTypes, InvParts
<1>1. /\ table' = b /\ at' = "first" /\ ops' = ops /\ edits' = edits /\ writable' = writable
      /\ block' = block /\ bytes' = bytes /\ held' = held /\ file' = file
  BY DEF Sanitize
<1>2. table' # None
  BY <1>1, HBBlobAssumption
<1>3. Claims' = [Claims EXCEPT ![b] = @ + 2]
  <2>1. Claims'[b] = Claims[b] + 2
    BY <1>1, ClaimsAre, HBBlobAssumption
  <2>2. \A x \in Blob \ {b} : Claims'[x] = Claims[x]
    BY <1>1, ClaimsAre, HBBlobAssumption
  <2>3. PICK n : n = Claims[b] + 2
    OBVIOUS
  <2>4. Claims' = [Claims EXCEPT ![b] = n]
    BY <2>1, <2>2, <2>3, ClaimsAt
  <2> QED BY <2>3, <2>4
<1>4. Sound(blob', block', Claims')
  <2>1. Sound([blob EXCEPT ![b].refs = @ + 2], block, [Claims EXCEPT ![b] = @ + 2])
    BY SoundReferenced DEF Live
  <2> QED BY <1>1, <1>3, <2>1
<1>5. TypeOK'
  BY <1>1, <1>4, TypeNext
<1>6. Frozen
  <2> SUFFICES ASSUME NEW x \in Blob PROVE Untouched(x)
    BY DEF Frozen
  <2>1. PICK r \in BlobType : r = blob[b]
    OBVIOUS
  <2>2. blob' = [blob EXCEPT ![b] = [r EXCEPT !.refs = @ + 2]]
    BY <2>1
  <2>3. CASE x = b
    BY <1>1, <2>1, <2>2, <2>3 DEF Untouched, BlobType
  <2>4. CASE x # b
    BY <1>1, <2>2, <2>4 DEF Untouched
  <2> QED BY <2>3, <2>4
<1>7. AcceptedIsSane' /\ ~writable'
  BY <1>1 DEF AcceptedIsSane
<1> QED BY <1>1, <1>2, <1>4, <1>5, <1>6, <1>7 DEF SanInv

LEMMA FaceCreateStep == ASSUME SanInv, NEW b \in Blob, FaceCreate(b) PROVE SanInv' /\ Frozen
<1>1. /\ at = "idle" /\ file = None /\ held[b] > 0 /\ blob' = [blob EXCEPT ![b].refs = @ + 2]
      /\ Sanitize(b, "file") /\ UNCHANGED <<block, bytes, held, file>>
  BY DEF FaceCreate
<1>2. type' = "file" /\ Sanitize(b, type') /\ table = None /\ Live(b)
  BY <1>1, InvTypes, InvParts DEF Sanitize
<1> QED BY <1>1, <1>2, TwoReferences

LEMMA SanitizeSharedStep == ASSUME SanInv, NEW b \in Blob, SanitizeShared(b) PROVE SanInv' /\ Frozen
<1>1. /\ at = "idle" /\ held[b] > 0 /\ blob' = [blob EXCEPT ![b].refs = @ + 2]
      /\ Sanitize(b, "table") /\ UNCHANGED <<block, bytes, held, file>>
  BY DEF SanitizeShared
<1>2. type' = "table" /\ Sanitize(b, type') /\ table = None /\ Live(b)
  BY <1>1, InvTypes, InvParts DEF Sanitize
<1> QED BY <1>1, <1>2, TwoReferences

LEMMA ReferenceTableStep == ASSUME SanInv, ReferenceTable PROVE SanInv' /\ Frozen
<1> USE InvTypes, InvParts
<1>1. /\ at = "idle" /\ file # None /\ block' = block /\ bytes' = bytes /\ held' = held /\ file' = file
  BY DEF ReferenceTable
<1>2. PICK s \in FreeBlobs :
        /\ blob' = [blob EXCEPT ![file].fixed = TRUE, ![file].refs = @ + 1,
                                ![s] = [New(blob[file].data, "readonly", "parent", file)
                                          EXCEPT !.refs = 2]]
        /\ Sanitize(s, "table")
  BY DEF ReferenceTable
<1>3. PICK b \in Blob : b = file
  BY <1>1
<1>4. table = None /\ Live(b) /\ blob[b].data \in Block
  BY <1>1, <1>3
<1>5. s \in Blob /\ blob[s].refs = 0 /\ s # b
  BY <1>4 DEF FreeBlobs, Live
<1>6. PICK f \in BlobType :
        /\ f = [New(blob[b].data, "readonly", "parent", b) EXCEPT !.refs = 2]
        /\ f.refs = 2 /\ f.data = blob[b].data /\ f.mode = "readonly" /\ f.destroy = "parent" /\ f.parent = b
  <2>1. PICK e \in BlobType :
          /\ e = New(blob[b].data, "readonly", "parent", b)
          /\ e.data = blob[b].data /\ e.mode = "readonly" /\ e.destroy = "parent" /\ e.parent = b
    <3>1. New(blob[b].data, "readonly", "parent", b) \in BlobType
      BY <1>4 DEF New, BlobType, Modes
    <3> QED BY <3>1 DEF New
  <2>2. [e EXCEPT !.refs = 2] \in BlobType
    BY DEF BlobType
  <2>3. PICK f \in BlobType : f = [e EXCEPT !.refs = 2]
    BY <2>2
  <2>4. /\ f.refs = 2 /\ f.data = e.data /\ f.mode = e.mode /\ f.destroy = e.destroy
        /\ f.parent = e.parent
    BY <2>3 DEF BlobType
  <2> QED BY <2>1, <2>3, <2>4
<1>7. PICK g \in BlobType :
        /\ blob' = [blob EXCEPT ![b] = g, ![s] = f]
        /\ g.fixed /\ g.refs = blob[b].refs + 1 /\ g.data = blob[b].data /\ g.mode = blob[b].mode
        /\ g.destroy = blob[b].destroy /\ g.parent = blob[b].parent
  <2>1. PICK r \in BlobType : r = blob[b]
    OBVIOUS
  <2>2. PICK q, g \in BlobType :
          /\ q = [r EXCEPT !.fixed = TRUE] /\ g = [q EXCEPT !.refs = @ + 1]
          /\ g.fixed /\ g.refs = r.refs + 1 /\ g.data = r.data /\ g.mode = r.mode
          /\ g.destroy = r.destroy /\ g.parent = r.parent
    BY ParentFrame
  <2>3. blob' = [blob EXCEPT ![b].fixed = TRUE, ![b].refs = @ + 1, ![s] = f]
    BY <1>2, <1>3, <1>6
  <2>4. blob' = [blob EXCEPT ![b] = g, ![s] = f]
    <3>1. blob \in [Blob -> BlobType]
      OBVIOUS
    <3> HIDE InvTypes, InvParts
    <3> QED BY <1>5, <2>1, <2>2, <2>3, <3>1
  <2> QED BY <2>1, <2>2, <2>4, Zenon
<1>8. /\ table' = s /\ at' = "first" /\ type' = "table" /\ ops' = ops /\ edits' = edits
      /\ writable' = writable /\ table' # None
  BY <1>2, <1>5, HBBlobAssumption DEF Sanitize
<1>9. Claims' = [Claims EXCEPT ![s] = 2]
  <2>1. Claims[s] = 0
    BY <1>5
  <2>2. Claims'[s] = Claims[s] + 2
    BY <1>1, <1>4, <1>5, <1>8, ClaimsAre, HBBlobAssumption
  <2>3. \A x \in Blob \ {s} : Claims'[x] = Claims[x]
    BY <1>1, <1>4, <1>5, <1>8, ClaimsAre, HBBlobAssumption
  <2>4. Claims'[s] = 2
    BY <2>1, <2>2
  <2> QED BY <1>5, <2>3, <2>4, ClaimsAt
<1>10. Sound(blob', block', Claims')
  <2>1. Sound([blob EXCEPT ![b] = g, ![s] = f], block, [Claims EXCEPT ![s] = 2])
    <3> HIDE InvTypes, InvParts
    <3>1. Sound(blob, block, Claims) /\ blob[b].refs > 0 /\ 2 \in Nat /\ 2 > 0
      BY <1>4, InvTypes DEF Live
    <3> QED BY <1>5, <1>6, <1>7, <3>1, SoundSub, Zenon
  <2> QED BY <1>1, <1>7, <1>9, <2>1
<1>11. TypeOK'
  BY <1>1, <1>5, <1>8, <1>10, TypeNext
<1>12. Frozen
  <2> SUFFICES ASSUME NEW x \in Blob, blob[x].fixed, Live(x) PROVE Untouched(x)
    BY DEF Frozen
  <2>1. CASE x = b
    <3>1. blob'[b] = g /\ g.fixed = blob[b].fixed
      BY <1>5, <1>7, <2>1 DEF BlobType
    <3> QED BY <1>1, <1>7, <2>1, <3>1 DEF Untouched
  <2>2. CASE x # b
    <3>1. x # s
      BY <1>5 DEF Live
    <3>2. blob'[x] = blob[x]
      BY <1>5, <1>7, <2>2, <3>1
    <3> QED BY <1>1, <3>2 DEF Untouched
  <2> QED BY <2>1, <2>2
<1>13. AcceptedIsSane' /\ ~writable'
  BY <1>1, <1>8 DEF AcceptedIsSane
<1> QED BY <1>8, <1>10, <1>11, <1>12, <1>13 DEF SanInv

LEMMA MakeTableWritableStep == ASSUME SanInv, MakeTableWritable PROVE SanInv' /\ Frozen
<1> USE InvTypes, InvParts
<1>1. /\ at = "insane" /\ held' = held /\ file' = file /\ type' = type /\ table' = table
      /\ ops' = ops /\ edits' = edits
  BY DEF MakeTableWritable
<1>2. PICK b \in Blob : b = table
  BY <1>1
<1>3. Live(b) /\ Claims' = Claims
  BY <1>1, <1>2 DEF Claims
<1>4. /\ Sound(blob', block', Claims') /\ bytes' \in [Block -> Values]
      /\ \A x \in Blob : (x # b \/ blob[b].fixed) /\ Live(x) /\ blob'[x].refs > 0 => Untouched(x)
      /\ writable' \in BOOLEAN /\ at' \in {"first", "failed"}
      /\ writable' => blob'[b].mode = "writable" /\ ~blob'[b].fixed
  <2>1. CASE edits > 0 /\ ~writable
    <3>1. PICK ok \in BOOLEAN :
            /\ MakeWritable(table, ok)
            /\ writable' = ok /\ at' = IF ok THEN "first" ELSE "failed"
      BY <2>1, Zenon DEF MakeTableWritable
    <3>2. MakeWritable(b, ok)
      BY <1>2, <3>1
    <3>3. /\ Sound(blob', block', Claims') /\ bytes' \in [Block -> Values]
          /\ \A x \in Blob : (x # b \/ blob[b].fixed) /\ Live(x) /\ blob'[x].refs > 0 => Untouched(x)
          /\ ok => blob'[b].mode = "writable" /\ ~blob'[b].fixed
      <4> HIDE InvTypes, InvParts
      <4> QED BY <1>3, <3>2, WritableStep
    <3> QED BY <3>1, <3>3
  <2>2. CASE ~(edits > 0 /\ ~writable)
    <3>1. at' = "failed" /\ blob' = blob /\ block' = block /\ bytes' = bytes /\ writable' = writable
      BY <2>2 DEF MakeTableWritable
    <3>2. Sound(blob', block', Claims') /\ bytes' \in [Block -> Values]
      BY <1>3, <3>1
    <3>3. \A x \in Blob : Untouched(x)
      BY <3>1 DEF Untouched
    <3>4. writable' => blob'[b].mode = "writable" /\ ~blob'[b].fixed
      BY <1>2, <3>1
    <3> QED BY <3>1, <3>2, <3>3, <3>4
  <2> QED BY <2>1, <2>2
<1>5. TypeOK'
  BY <1>1, <1>4, TypeNext
<1>6. Frozen
  BY <1>4 DEF Frozen
<1>7. AcceptedIsSane'
  BY <1>4 DEF AcceptedIsSane
<1>8. /\ at' = "idle" <=> table' = None
      /\ type' = "file" => file' = None
      /\ writable' => table' # None /\ blob'[table'].mode = "writable" /\ ~blob'[table'].fixed
  BY <1>1, <1>2, <1>4, HBBlobAssumption
<1> QED BY <1>4, <1>5, <1>6, <1>7, <1>8 DEF SanInv

\* What a check leaves when it ends
LEMMA Tidied ==
  ASSUME SanInv, Tidy, Sound(blob', block', Claims'), bytes' \in [Block -> Values],
         held' \in [Blob -> Nat], file' \in Blob \cup {None}
  PROVE  SanInv'
<1>1. /\ type' = "table" /\ at' = "idle" /\ table' = None
      /\ ops' = 0 /\ edits' = 0 /\ writable' = FALSE
  BY DEF Tidy
<1>2. TypeOK'
  BY <1>1, TypeNext
<1>3. AcceptedIsSane'
  BY <1>1 DEF AcceptedIsSane
<1> QED BY <1>1, <1>2, <1>3 DEF SanInv

LEMMA AcceptStep == ASSUME SanInv, Accept PROVE SanInv' /\ Frozen
<1> USE InvTypes, InvParts
<1>1. /\ at = "passed" /\ BecomesHeap([Dropped(Heap, table) EXCEPT !.blob[table].fixed = TRUE]) /\ Tidy
      /\ IF type = "file" THEN file' = table /\ held' = held
         ELSE held' = [held EXCEPT ![table] = @ + 1] /\ file' = file
  BY DEF Accept
<1>2. PICK b \in Blob : b = table
  BY <1>1
<1>3. table' = None
  BY <1>1 DEF Tidy
<1>4. Claims[b] > 1 /\ Claims[b] \in Nat
  BY <1>2, ClaimsAre
<1>5. held' \in [Blob -> Nat] /\ file' \in Blob \cup {None}
  <2>1. CASE type = "file"
    BY <1>1, <2>1
  <2>2. CASE type # "file"
    <3>1. held[b] + 1 \in Nat
      OBVIOUS
    <3> QED BY <1>1, <1>2, <2>2, <3>1
  <2> QED BY <2>1, <2>2
<1>6. Claims' = [Claims EXCEPT ![b] = @ - 1]
  <2>1. Claims'[b] = Claims[b] - 1
    <3>1. CASE type = "file"
      BY <1>1, <1>2, <1>3, <3>1, ClaimsAre, HBBlobAssumption
    <3>2. CASE type # "file"
      <4>1. held'[b] = held[b] + 1 /\ file' = file
        BY <1>1, <1>2, <3>2
      <4> QED BY <1>2, <1>3, <4>1, ClaimsAre, HBBlobAssumption
    <3> QED BY <3>1, <3>2
  <2>2. \A x \in Blob \ {b} : Claims'[x] = Claims[x]
    <3>1. CASE type = "file"
      BY <1>1, <1>2, <1>3, <3>1, ClaimsAre, HBBlobAssumption
    <3>2. CASE type # "file"
      <4>1. (\A x \in Blob \ {b} : held'[x] = held[x]) /\ file' = file
        BY <1>1, <1>2, <3>2
      <4> QED BY <1>2, <1>3, <4>1, ClaimsAre, HBBlobAssumption
    <3> QED BY <3>1, <3>2
  <2>3. PICK n : n = Claims[b] - 1
    OBVIOUS
  <2>4. Claims' = [Claims EXCEPT ![b] = n]
    <3> HIDE InvTypes, InvParts
    <3> QED BY <2>1, <2>2, <2>3, ClaimsAt
  <2> QED BY <2>3, <2>4
<1>7. PICK h, D : h = Heap /\ D = Dropped(h, b) /\ h.blob = blob /\ h.block = block
  <2>1. PICK h, D : h = Heap /\ D = Dropped(h, b)
    OBVIOUS
  <2>2. h.blob = blob /\ h.block = block
    BY <2>1 DEF Heap
  <2> QED BY <2>1, <2>2, Zenon
<1>8. /\ Sound(D.blob, D.block, [Claims EXCEPT ![b] = @ - 1])
      /\ Spares(D, blob, block, Blob, Block)
  <2> HIDE InvTypes, InvParts
  <2>1. Sound(blob, block, Claims) /\ Claims[b] > 0
    BY <1>4, InvTypes
  <2>2. Sound(Dropped(h, b).blob, Dropped(h, b).block, [Claims EXCEPT ![b] = @ - 1])
    BY <1>7, <2>1, SoundDropped
  <2>3. Spares(Dropped(h, b), blob, block, Blob, Block)
    BY <1>7, <2>1, SoundDropped
  <2> QED BY <1>7, <2>2, <2>3
<1>9. PICK H : H = Claims' /\ Sound(D.blob, D.block, H)
  BY <1>6, <1>8
<1>10. PICK X \in [Blob -> BlobType], Z \in [Block -> BlockType] : X = D.blob /\ Z = D.block
  BY <1>9 DEF Sound
<1>11. H[b] > 0 /\ X[b].refs > 0
  <2>1. H[b] = Claims[b] - 1
    BY <1>6, <1>9
  <2>2. H[b] > 0
    BY <1>4, <2>1
  <2>3. Sound(X, Z, H)
    BY <1>9, <1>10
  <2> QED BY <2>2, <2>3, HeldIsLive
<1>12. PICK r, f \in BlobType :
         /\ r = X[b] /\ f = [r EXCEPT !.fixed = TRUE]
         /\ f.parent = r.parent /\ f.data = r.data /\ f.destroy = r.destroy
         /\ f.refs = r.refs /\ f.fixed /\ f.mode = r.mode
  <2>1. PICK r \in BlobType : r = X[b]
    OBVIOUS
  <2>2. [r EXCEPT !.fixed = TRUE] \in BlobType
    BY DEF BlobType
  <2>3. PICK f \in BlobType : f = [r EXCEPT !.fixed = TRUE]
    BY <2>2
  <2>4. /\ f.parent = r.parent /\ f.data = r.data /\ f.destroy = r.destroy
        /\ f.refs = r.refs /\ f.fixed /\ f.mode = r.mode
    BY <2>3 DEF BlobType
  <2> QED BY <2>1, <2>3, <2>4, Zenon
<1>13. PICK E : E = [D EXCEPT !.blob = [X EXCEPT ![b] = f]]
  OBVIOUS
<1>14. D = [blob |-> X, block |-> Z]
  BY <1>7, <1>10 DEF Dropped
<1>15. E.blob = [X EXCEPT ![b] = f] /\ E.block = Z
  BY <1>13, <1>14
<1>16. BecomesHeap(E)
  <2>1. [D EXCEPT !.blob[b].fixed = TRUE] = E
    BY <1>10, <1>12, <1>13, <1>14
  <2> QED BY <1>1, <1>2, <1>7, <2>1
<1>17. blob' = E.blob /\ block' = E.block
  BY <1>16 DEF BecomesHeap
<1>18. Sound(blob', block', H)
  <2>1. Sound(X, Z, H)
    BY <1>9, <1>10
  <2>2. f.mode = "readonly" \/ X[b].destroy # "parent"
    BY <1>12, <2>1, SoundTypes
  <2>3. Sound([X EXCEPT ![b] = f], Z, H)
    <3> HIDE InvTypes, InvParts
    <3> QED BY <1>11, <1>12, <2>1, <2>2, SoundSet
  <2> QED BY <1>15, <1>17, <2>3
<1>19. Spares(E, blob, block, {x \in Blob : blob[x].fixed}, Block)
  <2>1. ASSUME NEW x \in Blob, blob[x].fixed, E.blob[x].refs > 0
        PROVE  /\ E.blob[x].data = blob[x].data /\ E.blob[x].mode = blob[x].mode
               /\ E.blob[x].fixed = blob[x].fixed
    <3>1. CASE x = b
      <4>1. X[b].data = blob[b].data /\ X[b].mode = blob[b].mode /\ X[b].fixed = blob[b].fixed
        BY <1>8, <1>10, <1>11 DEF Spares
      <4>2. E.blob[b] = f
        BY <1>15
      <4>3. f.fixed = blob[b].fixed
        BY <1>12, <2>1, <3>1 DEF BlobType
      <4> QED BY <1>12, <3>1, <4>1, <4>2, <4>3
    <3>2. CASE x # b
      <4>1. E.blob[x] = X[x]
        BY <1>15, <3>2
      <4> QED BY <1>8, <1>10, <2>1, <4>1 DEF Spares
    <3> QED BY <3>1, <3>2
  <2>2. \A k \in Block : E.block[k] \in {"none", block[k]}
    BY <1>8, <1>10, <1>15 DEF Spares
  <2> QED BY <2>1, <2>2 DEF Spares
<1>20. PICK xs \in SUBSET Blob : xs = {x \in Blob : blob[x].fixed}
  OBVIOUS
<1>21. /\ bytes' \in [Block -> Values]
       /\ \A x \in xs : Live(x) /\ blob'[x].refs > 0 => Untouched(x)
  <2> HIDE InvTypes, InvParts
  <2> QED BY <1>16, <1>18, <1>19, <1>20, HeapSteady
<1>22. Frozen
  BY <1>20, <1>21 DEF Frozen
<1>23. SanInv'
  BY <1>1, <1>5, <1>9, <1>18, <1>21, Tidied
<1> QED BY <1>22, <1>23

LEMMA RejectStep == ASSUME SanInv, Reject PROVE SanInv' /\ Frozen
<1> USE InvTypes, InvParts
<1>1. /\ at = "failed" /\ BecomesHeap(Dropped(Dropped(Heap, table), table)) /\ Tidy
      /\ held' = held /\ file' = file
  BY DEF Reject
<1>2. PICK b \in Blob : b = table
  BY <1>1
<1>3. table' = None
  BY <1>1 DEF Tidy
<1>4. Claims[b] > 1 /\ Claims[b] \in Nat
  BY <1>2, ClaimsAre
<1>5. PICK H1 \in [Blob -> Nat] : H1 = [Claims EXCEPT ![b] = @ - 1]
  <2>1. Claims[b] - 1 \in Nat
    BY <1>4
  <2>2. [Claims EXCEPT ![b] = @ - 1] \in [Blob -> Nat]
    BY <2>1
  <2> QED BY <2>2
<1>6. Claims' = [H1 EXCEPT ![b] = @ - 1]
  <2>1. PICK n : n = Claims[b] - 2
    OBVIOUS
  <2>2. Claims'[b] = n
    BY <1>1, <1>2, <1>3, <2>1, ClaimsAre, HBBlobAssumption
  <2>3. \A x \in Blob \ {b} : Claims'[x] = Claims[x]
    BY <1>1, <1>2, <1>3, ClaimsAre, HBBlobAssumption
  <2>4. Claims' = [Claims EXCEPT ![b] = n]
    <3> HIDE InvTypes, InvParts
    <3> QED BY <2>2, <2>3, ClaimsAt
  <2>5. H1[b] - 1 = n
    BY <1>4, <1>5, <2>1
  <2>6. [H1 EXCEPT ![b] = n] = [Claims EXCEPT ![b] = n]
    BY <1>5
  <2> QED BY <2>4, <2>5, <2>6
<1>7. PICK h, D, E : h = Heap /\ D = Dropped(h, b) /\ E = Dropped(D, b)
  OBVIOUS
<1>8. h.blob = blob /\ h.block = block
  BY <1>7 DEF Heap
<1> HIDE InvTypes, InvParts
<1>9. Sound(D.blob, D.block, H1) /\ Spares(D, blob, block, Blob, Block)
  <2>1. Sound(blob, block, Claims) /\ Claims[b] > 0
    BY <1>4, InvTypes
  <2>2. Sound(Dropped(h, b).blob, Dropped(h, b).block, [Claims EXCEPT ![b] = @ - 1])
    BY <1>8, <2>1, SoundDropped
  <2>3. Spares(Dropped(h, b), blob, block, Blob, Block)
    BY <1>8, <2>1, SoundDropped
  <2> QED BY <1>5, <1>7, <2>2, <2>3
<1>10. PICK B1, K1 : B1 = D.blob /\ K1 = D.block
  OBVIOUS
<1>11. Sound(E.blob, E.block, [H1 EXCEPT ![b] = @ - 1]) /\ Spares(E, B1, K1, Blob, Block)
  <2>1. Sound(B1, K1, H1) /\ H1[b] > 0
    BY <1>4, <1>5, <1>9, <1>10, InvTypes
  <2>2. Sound(Dropped(D, b).blob, Dropped(D, b).block, [H1 EXCEPT ![b] = @ - 1])
    BY <1>10, <2>1, SoundDropped
  <2>3. Spares(Dropped(D, b), B1, K1, Blob, Block)
    BY <1>10, <2>1, SoundDropped
  <2> QED BY <1>7, <2>2, <2>3
<1>12. Spares(E, blob, block, Blob, Block)
  <2>0. Sound(B1, K1, H1) /\ H1[b] > 0
    BY <1>4, <1>5, <1>9, <1>10, InvTypes
  <2>1. ASSUME NEW x \in Blob, E.blob[x].refs > 0 PROVE B1[x].refs > 0
    <3>1. /\ B1 \in [Blob -> BlobType] /\ B1[x].refs \in Nat
      BY <1>9, <1>10, SoundTypes
    <3>2. B1[x].refs # 0
      <4> SUFFICES ASSUME B1[x].refs = 0 PROVE FALSE
        OBVIOUS
      <4>1. \A y \in Losing(D, b) : B1[y].refs > 0
        BY <1>10, <2>0, LosingPath
      <4>2. x \notin Losing(D, b)
        BY <4>1
      <4>3. E.blob[x] = B1[x]
        <5>1. E.blob = [y \in Blob |-> IF y \notin Losing(D, b) THEN D.blob[y]
                                      ELSE IF D.blob[y].refs = 1 THEN Gone
                                      ELSE [D.blob[y] EXCEPT !.refs = @ - 1]]
          BY <1>7 DEF Dropped
        <5> QED BY <1>10, <4>2, <5>1
      <4> QED BY <2>1, <4>3
    <3> QED BY <3>1, <3>2
  <2>2. ASSUME NEW x \in Blob, E.blob[x].refs > 0
        PROVE  /\ E.blob[x].data = blob[x].data /\ E.blob[x].mode = blob[x].mode
               /\ E.blob[x].fixed = blob[x].fixed
    <3>1. B1[x].refs > 0
      BY <2>1, <2>2
    <3> QED BY <1>9, <1>10, <1>11, <2>2, <3>1 DEF Spares
  <2>3. \A k \in Block : E.block[k] \in {"none", block[k]}
    BY <1>9, <1>10, <1>11 DEF Spares
  <2> QED BY <2>2, <2>3 DEF Spares
<1>13. BecomesHeap(E)
  BY <1>1, <1>2, <1>7
<1>14. blob' = E.blob /\ block' = E.block
  BY <1>13 DEF BecomesHeap
<1>15. PICK H : H = Claims' /\ Sound(blob', block', H)
  BY <1>6, <1>11, <1>14
<1>16. /\ bytes' \in [Block -> Values]
       /\ \A x \in Blob : Live(x) /\ blob'[x].refs > 0 => Untouched(x)
  BY <1>12, <1>13, <1>15, HeapSteady
<1>17. held' \in [Blob -> Nat] /\ file' \in Blob \cup {None}
  BY <1>1, InvTypes
<1>18. SanInv'
  BY <1>1, <1>15, <1>16, <1>17, Tidied
<1> QED BY <1>16, <1>18 DEF Frozen

\* A good step that leaves the check alone
LEMMA GoodKeeps ==
  ASSUME SanInv, Good, UNCHANGED sanVars, file' = file \/ file' = None
  PROVE  SanInv' /\ Frozen
<1>1. /\ type' = type /\ at' = at /\ table' = table
      /\ ops' = ops /\ edits' = edits /\ writable' = writable
  BY DEF sanVars
<1>2. /\ Sound(blob', block', Claims') /\ bytes' \in [Block -> Values] /\ held' \in [Blob -> Nat]
      /\ Steady
  BY DEF Good
<1>3. file' \in Blob \cup {None}
  BY InvTypes
<1>4. TypeOK'
  BY <1>1, <1>2, <1>3, InvTypes, InvParts, TypeNext
<1>5. ASSUME table # None PROVE table \in Blob /\ Untouched(table)
  <2>1. PICK b \in Blob : b = table /\ Live(b)
    BY <1>5, InvTypes
  <2>2. PICK H : H = Claims'
    OBVIOUS
  <2>3. H[b] > 0
    <3>1. H[b] = held'[b] + (IF file' = b THEN 1 ELSE 0) + (IF table' = b THEN 2 ELSE 0)
      BY <2>2, ClaimsAre
    <3> QED BY <1>1, <1>2, <2>1, <3>1
  <2>4. blob'[b].refs > 0
    BY <1>2, <2>2, <2>3, HeldIsLive
  <2> QED BY <1>2, <2>1, <2>4 DEF Steady, Watched
<1>6. writable' => table' # None /\ blob'[table'].mode = "writable" /\ ~blob'[table'].fixed
  BY <1>1, <1>5, InvParts DEF Untouched
<1>7. AcceptedIsSane'
  <2> SUFFICES ASSUME at' = "passed", NEW o \in ToSet(Checked)' PROVE Value'[o] # "bad"
    BY DEF AcceptedIsSane
  <2>1. table # None
    BY <1>1, InvParts
  <2>2. Checked' = Checked
    BY <1>1 DEF Checked
  <2>3. Value' = Value
    BY <1>1, <1>5, <2>1 DEF Value, Untouched
  <2>4. \A x \in ToSet(Checked) : Value[x] # "bad"
    BY <1>1 DEF SanInv, AcceptedIsSane
  <2> QED BY <2>2, <2>3, <2>4
<1>8. Frozen
  BY <1>2 DEF Frozen, Steady, Watched
<1>9. (at' = "idle" <=> table' = None) /\ (type' = "file" => file' = None)
  BY <1>1, InvParts
<1> QED BY <1>2, <1>4, <1>6, <1>7, <1>8, <1>9 DEF SanInv

LEMMA FaceDestroyStep == ASSUME SanInv, FaceDestroy PROVE SanInv' /\ Frozen
<1>1. /\ file # None /\ BecomesHeap(Dropped(Heap, file)) /\ file' = None /\ held' = held
      /\ type' = type /\ at' = at /\ table' = table
      /\ ops' = ops /\ edits' = edits /\ writable' = writable
  BY DEF FaceDestroy, sanVars
<1>2. PICK b \in Blob : b = file
  BY <1>1, InvTypes
<1>3. Claims[b] > 0 /\ Claims[b] \in Nat
  BY <1>2, InvTypes
<1>4. Claims' = [Claims EXCEPT ![b] = @ - 1]
  <2>1. PICK n : n = Claims[b] - 1
    OBVIOUS
  <2>2. Claims'[b] = n
    BY <1>1, <1>2, <2>1, ClaimsAre, HBBlobAssumption
  <2>3. \A x \in Blob \ {b} : Claims'[x] = Claims[x]
    BY <1>1, <1>2, ClaimsAre, HBBlobAssumption
  <2> QED BY <2>1, <2>2, <2>3, ClaimsAt
<1>5. /\ Sound(blob', block', Claims') /\ bytes' \in [Block -> Values]
      /\ \A x \in Blob : Live(x) /\ blob'[x].refs > 0 => Untouched(x)
  BY <1>1, <1>2, <1>3, <1>4, DropStep
<1>6. Good
  BY <1>1, <1>5, InvTypes DEF Good, Steady, Watched
<1> QED BY <1>1, <1>6, GoodKeeps DEF sanVars

LEMMA ClientStep ==
  ASSUME SanInv, Client, UNCHANGED <<file, sanVars>>
  PROVE  SanInv' /\ Frozen
<1>1. CASE Create
  BY <1>1, CreateStep, GoodKeeps DEF Create
<1>2. CASE CreateFromFile
  <2>1. {"may_make_writable"} \in SUBSET Modes /\ {"writable"} \in SUBSET Modes
    BY DEF Modes
  <2> QED BY <1>2, <2>1, CreateStep, GoodKeeps DEF CreateFromFile
<1>3. CASE CreateDuplicate
  BY <1>3, DuplicateStep, GoodKeeps, SanitizerAssumption DEF CreateDuplicate
<1>4. ASSUME NEW b \in Blob, Reference(b) PROVE SanInv' /\ Frozen
  BY <1>4, ReferenceStep, GoodKeeps
<1>5. ASSUME NEW b \in Blob, Destroy(b) PROVE SanInv' /\ Frozen
  BY <1>5, DestroyStep, GoodKeeps
<1>6. ASSUME NEW b \in Blob, CopyWritableOrFail(b) PROVE SanInv' /\ Frozen
  <2>1. held[b] > 0 /\ DuplicateOf(bytes[blob[b].data])
    BY <1>6 DEF CopyWritableOrFail
  <2>2. PICK c \in Values : c = bytes[blob[b].data]
    BY <2>1, InvTypes
  <2> QED BY <2>1, <2>2, DuplicateStep, GoodKeeps
<1>7. ASSUME NEW b \in Blob, b # table \/ blob[b].fixed,
             CreateSubBlob(b) \/ MakeImmutable(b) \/ GetDataWritable(b) \/ ClientWrites(b)
      PROVE  SanInv' /\ Frozen
  BY <1>7, SubBlobStep, MakeImmutableStep, GetDataWritableStep, ClientWritesStep, GoodKeeps
<1> QED BY <1>1, <1>2, <1>3, <1>4, <1>5, <1>6, <1>7 DEF Client

LEMMA InvNext == ASSUME SanInv, Next PROVE SanInv' /\ Frozen
<1>1. CASE Client /\ UNCHANGED <<file, sanVars>>
  BY <1>1, ClientStep
<1>2. CASE ReferenceTable
  BY <1>2, ReferenceTableStep
<1>3. CASE FaceDestroy
  BY <1>3, FaceDestroyStep
<1>4. CASE Checking
  BY <1>4, FirstRoundStep, SecondRoundStep, MakeTableWritableStep, AcceptStep, RejectStep DEF Checking
<1>5. ASSUME NEW b \in Blob, FaceCreate(b) \/ SanitizeShared(b) PROVE SanInv' /\ Frozen
  BY <1>5, FaceCreateStep, SanitizeSharedStep
<1> QED BY <1>1, <1>2, <1>3, <1>4, <1>5 DEF Next

LEMMA InvInit == Init => SanInv
<1> SUFFICES ASSUME Init PROVE SanInv
  OBVIOUS
<1> USE DEF Init, BlobInit, SanInit
<1>1. Gone \in BlobType
  BY DEF Gone, BlobType, Modes
<1>2. Lost \in Values
  BY SanitizerAssumption DEF Lost
<1>3. /\ blob \in [Blob -> BlobType] /\ block \in [Block -> BlockType]
      /\ bytes \in [Block -> Values] /\ held \in [Blob -> Nat]
  BY <1>1, <1>2 DEF BlockType
<1>4. TypeOK
  BY <1>3 DEF TypeOK, BlobType, BlockType
<1>5. PICK H \in [Blob -> Nat] : H = Claims /\ \A x \in Blob : H[x] = 0
  <2>1. Claims = [x \in Blob |-> 0]
    BY HBBlobAssumption DEF Claims, HeldBy
  <2> QED BY <2>1
<1>6. Gone.refs = 0 /\ Gone.data = None /\ Gone.destroy = "none" /\ Gone.parent = None
  BY DEF Gone
<1>7. Counted(blob, H)
  <2>1. ASSUME NEW x \in Blob PROVE Kids(blob, x) = {}
    BY <1>6 DEF Kids
  <2>2. Cardinality({}) = 0
    BY FS_EmptySet
  <2>3. \A x \in Blob : blob[x].refs = 0
    BY <1>6
  <2> SUFFICES ASSUME NEW x \in Blob PROVE blob[x].refs = H[x] + Cardinality(Kids(blob, x))
    BY DEF Counted
  <2>4. Cardinality(Kids(blob, x)) = 0
    BY <2>1, <2>2
  <2> QED BY <1>5, <2>3, <2>4
<1>8. \A x \in Blob : Fits(blob, block, x)
  BY <1>6 DEF Fits
<1>9. Owned(blob, block)
  BY <1>6 DEF Owned, Owns
<1>10. Grounded(blob)
  <2> SUFFICES ASSUME NEW S \in SUBSET Blob, \A x \in S : blob[x].parent \in S PROVE S = {}
    BY DEF Grounded
  <2>1. \A x \in S : blob[x].parent = None
    BY <1>6
  <2> QED BY <2>1, HBBlobAssumption
<1>11. Sound(blob, block, Claims)
  BY <1>3, <1>5, <1>7, <1>8, <1>9, <1>10 DEF Sound
<1> QED BY <1>4, <1>11 DEF SanInv, AcceptedIsSane

LEMMA InvStutters == ASSUME SanInv, UNCHANGED vars PROVE SanInv' /\ Frozen
<1>1. /\ blob' = blob /\ block' = block /\ bytes' = bytes /\ held' = held /\ file' = file
      /\ type' = type /\ at' = at /\ table' = table
      /\ ops' = ops /\ edits' = edits /\ writable' = writable
  BY DEF vars, blobVars, sanVars
<1>2. Claims' = Claims
  BY <1>1 DEF Claims
<1>3. Good
  BY <1>1, <1>2, InvTypes DEF Good, Steady, Untouched
<1> QED BY <1>1, <1>3, GoodKeeps DEF sanVars

-----------------------------------------------------------------------------
\* What the blobs and the checks rely on is never lost: every reference is
\* counted, every block has one owner, and what shows it is immutable or alone.
THEOREM SanitizerSafe == Spec => []SanInv
<1>1. SanInv /\ [Next]_vars => SanInv'
  BY InvNext, InvStutters
<1> QED BY <1>1, InvInit, PTL DEF Spec

\* The state keeps its types.
THEOREM SanitizerTypeOK == Spec => []TypeOK
<1>1. SanInv => TypeOK
  BY DEF SanInv
<1> QED BY <1>1, SanitizerSafe, PTL

\* A blob lives as long as a client, a sub-blob, a face or a check holds it, and
\* no longer.
THEOREM SanitizerReferences == Spec => []ReferencesAccountedFor
<1>1. SanInv => ReferencesAccountedFor
  <2> SUFFICES ASSUME SanInv, NEW b \in Blob PROVE blob[b].refs = Holders(b)
    BY DEF ReferencesAccountedFor
  <2>1. PICK n \in Nat : n = Cardinality(Kids(blob, b))
    BY KidsFinite
  <2>2. blob[b].refs = Claims[b] + n
    BY <2>1, InvTypes DEF Sound, Counted
  <2>3. Kids(blob, b) = {x \in Blob : Live(x) /\ blob[x].parent = b}
    BY DEF Kids, Live
  <2>4. Claims[b] = held[b] + (IF file = b THEN 1 ELSE 0) + (IF table = b THEN 2 ELSE 0)
    BY ClaimsAre
  <2>5. Holders(b) = held[b] + n + (IF file = b THEN 1 ELSE 0) + (IF table = b THEN 2 ELSE 0)
    BY <2>1, <2>3 DEF Holders
  <2>6. held[b] \in Nat
    BY InvTypes
  <2> QED BY <2>2, <2>4, <2>5, <2>6
<1> QED BY <1>1, SanitizerSafe, PTL

\* The bytes of every live blob are there, and each block has one blob that
\* gives it back.
THEOREM SanitizerBytesAlive == Spec => []BytesAlive
<1>1. SanInv => BytesAlive
  <2> SUFFICES ASSUME SanInv PROVE BytesAlive
    OBVIOUS
  <2>1. Sound(blob, block, Claims)
    BY InvTypes
  <2>2. ASSUME NEW b \in Blob, Live(b) PROVE block[blob[b].data] # "none"
    <3>1. Fits(blob, block, b)
      BY <2>1 DEF Sound
    <3> QED BY <2>2, <3>1 DEF Fits, Live
  <2>3. ASSUME NEW k \in Block, block[k] # "none"
        PROVE  Cardinality({b \in Blob : blob[b].data = k /\ blob[b].destroy \in {"client", "free"}}) = 1
    <3>1. PICK o \in Blob : Owns(blob, o, k)
      BY <2>1, <2>3 DEF Sound, Owned
    <3>2. \A b \in Blob : Owns(blob, b, k) => b = o
      BY <2>1, <3>1 DEF Sound, Owned
    <3>3. {b \in Blob : blob[b].data = k /\ blob[b].destroy \in {"client", "free"}} = {o}
      BY <3>1, <3>2 DEF Owns
    <3> QED BY <3>3, FS_Singleton
  <2> QED BY <2>2, <2>3 DEF BytesAlive
<1> QED BY <1>1, SanitizerSafe, PTL

\* What an immutable blob shows does not change: not by an edit of the sanitizer,
\* not through another blob over the same bytes.
THEOREM SanitizerFrozenBytes == Spec => FrozenBytes
<1>1. SanInv /\ [Next]_vars => Frozen
  BY InvNext, InvStutters
<1>2. SanInv /\ [Next]_vars =>
        [\A b \in Blob : Live(b) /\ blob[b].fixed /\ blob'[b].refs > 0 =>
           /\ blob'[b].data = blob[b].data /\ blob'[b].fixed
           /\ bytes'[blob[b].data] = bytes[blob[b].data]]_vars
  BY <1>1 DEF Frozen, Untouched
<1> QED BY <1>2, SanitizerSafe, PTL DEF Spec, FrozenBytes

\* An accepted table has no offset to a bad target.
THEOREM SanitizerAcceptedIsSane == Spec => []AcceptedIsSane
<1>1. SanInv => AcceptedIsSane
  BY DEF SanInv
<1> QED BY <1>1, SanitizerSafe, PTL
=============================================================================
