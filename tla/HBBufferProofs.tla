---------------------------- MODULE HBBufferProofs ----------------------------
(***************************************************************************)
(* Theorems about HBBuffer, for every capacity, growth progression, limit  *)
(* and set of clusters: types, the safety of the memory of the buffer,     *)
(* that the buffer implements the text with a cursor (TextCursor), and     *)
(* what stages keep of the clusters of that text.                          *)
(***************************************************************************)
EXTENDS HBBuffer, TLAPS, WellFoundedInduction, SequenceTheorems

\* The minimum hb_min computes over a range exists and is in the range.
LEMMA LeastExists ==
  ASSUME NEW S, S \subseteq Nat, S # {}
  PROVE  Least(S) \in S /\ \A y \in S : Least(S) <= y
<1> DEFINE R == {ss \in Nat \X Nat : ss[1] < ss[2]}
<1>1. IsWellFoundedOn(R, Nat)
  BY NatLessThanWellFounded DEF OpToRel
<1>2. \E x \in S : \A y \in S : <<y, x>> \notin R
  <2> HIDE DEF R
  <2> QED BY <1>1, WFMin
<1>3. \A x, y \in S : <<y, x>> \notin R => x <= y
  OBVIOUS
<1>4. \E x \in S : \A y \in S : x <= y
  BY <1>2, <1>3
<1> QED BY <1>4 DEF Least

-----------------------------------------------------------------------------
(* What the operators on blocks return.                                     *)

Block == [Cells -> Glyph]
Clusters == ClusterValues \cup {0}

\* b holds the codepoints of a, cell by cell.
SameCps(a, b) == b \in Block /\ \A c \in Cells : b[c].cp = a[c].cp

\* Writing clusters keeps the codepoints.
LEMMA SetClustersKeepsCps ==
  ASSUME NEW a \in Block, NEW start, NEW end, NEW k \in Clusters, NEW mask \in BOOLEAN
  PROVE  SameCps(a, SetClusters(a, start, end, k, mask))
<1> DEFINE b == SetClusters(a, start, end, k, mask)
<1>1. ASSUME NEW c \in Cells
      PROVE  WithCluster(a[c], k, mask) \in Glyph /\ WithCluster(a[c], k, mask).cp = a[c].cp
  <2>1. a[c] \in Glyph
    BY DEF Block
  <2> QED BY <2>1 DEF WithCluster, Glyph, Clusters
<1>2. b = [c \in Cells |-> IF start <= c /\ c < end THEN WithCluster(a[c], k, mask) ELSE a[c]]
  BY DEF SetClusters, Block
<1>3. \A c \in Cells : b[c] = WithCluster(a[c], k, mask) \/ b[c] = a[c]
  BY <1>2
<1>4. \A c \in Cells : b[c] \in Glyph /\ b[c].cp = a[c].cp
  BY <1>1, <1>3 DEF Block
<1> QED BY <1>2, <1>4 DEF SameCps, Block

\* Flagging keeps the codepoints.
LEMMA SetUnsafeKeepsCps ==
  ASSUME NEW a \in Block, NEW start, NEW end, NEW k
  PROVE  SameCps(a, SetUnsafe(a, start, end, k))
<1> DEFINE b == SetUnsafe(a, start, end, k)
<1>1. ASSUME NEW c \in Cells
      PROVE  [a[c] EXCEPT !.unsafe = TRUE] \in Glyph /\ [a[c] EXCEPT !.unsafe = TRUE].cp = a[c].cp
  BY DEF Block, Glyph
<1>2. b = [c \in Cells |-> IF start <= c /\ c < end /\ a[c].cluster # k
                           THEN [a[c] EXCEPT !.unsafe = TRUE] ELSE a[c]]
  BY DEF SetUnsafe, Block
<1>3. \A c \in Cells : b[c] = [a[c] EXCEPT !.unsafe = TRUE] \/ b[c] = a[c]
  BY <1>2
<1>4. \A c \in Cells : b[c] \in Glyph /\ b[c].cp = a[c].cp
  BY <1>1, <1>3 DEF Block
<1> QED BY <1>2, <1>4 DEF SameCps, Block

\* The least cluster of a nonempty range within a block is a cluster value.
LEMMA LeastClusterIsCluster ==
  ASSUME NEW a \in Block, NEW start \in Nat, NEW end \in Nat, start < end, end <= Capacity
  PROVE  LeastCluster(a, start, end) \in Clusters
<1>1. \A i \in start .. end - 1 : i \in Cells
  BY BufferAssumption DEF Cells
<1>2. ClustersOf(a, start, end) \subseteq Clusters
  BY <1>1 DEF ClustersOf, Block, Glyph, Clusters
<1>3. start \in start .. end - 1
  OBVIOUS
<1>4. ClustersOf(a, start, end) # {}
  BY <1>3 DEF ClustersOf
<1>5. Clusters \subseteq Nat
  BY BufferAssumption DEF Clusters
<1> QED BY <1>2, <1>4, <1>5, LeastExists DEF LeastCluster

-----------------------------------------------------------------------------
(* What merging and flagging do to the two blocks.                          *)

\* n holds the codepoints of m, and its output is in the same block.
SameGlyphs(m, n) ==
  n \in Mem /\ n.sep = m.sep /\ SameCps(m.info, n.info) /\ SameCps(m.pos, n.pos)

\* A step that leaves the blocks alone keeps their glyphs.
LEMMA SameGlyphsInMem ==
  ASSUME NEW m \in Mem
  PROVE  SameGlyphs(m, m)
BY DEF SameGlyphs, SameCps, Mem, Block

\* Two changes of clusters and flags after each other are one.
LEMMA SameGlyphsTrans ==
  ASSUME NEW l \in Mem, NEW m, NEW n, SameGlyphs(l, m), SameGlyphs(m, n)
  PROVE  SameGlyphs(l, n)
BY DEF SameGlyphs, SameCps

\* out_info points to a whole block.
LEMMA OutBlockIsBlock ==
  ASSUME NEW m \in Mem
  PROVE  OutBlock(m) \in Block
BY DEF OutBlock, Mem, Block

\* Rewriting clusters or flags of the output block keeps the glyphs.
LEMMA SameOut ==
  ASSUME NEW m \in Mem, NEW b, SameCps(OutBlock(m), b)
  PROVE  SameGlyphs(m, WithOut(m, b))
BY DEF SameGlyphs, SameCps, Mem, Block, OutBlock, WithOut

\* Rewriting clusters or flags of the info block keeps the glyphs.
LEMMA SameInfo ==
  ASSUME NEW m \in Mem, NEW b, SameCps(m.info, b)
  PROVE  SameGlyphs(m, [m EXCEPT !.info = b])
BY DEF SameGlyphs, SameCps, Mem, Block

\* unsafe_to_break_impl keeps the glyphs.
LEMMA UnsafeMemSame ==
  ASSUME NEW m \in Mem, NEW start, NEW end
  PROVE  SameGlyphs(m, UnsafeMem(m, start, end))
<1>1. m.info \in Block
  BY DEF Mem, Block
<1> QED BY <1>1, SetUnsafeKeepsCps, SameInfo DEF UnsafeMem

\* merge_clusters_impl keeps the glyphs, on both sides of the cursor.
LEMMA MergedRangeSame ==
  ASSUME NEW m \in Mem, NEW start \in Nat, NEW end \in Nat, start < end, end <= Capacity
  PROVE  SameGlyphs(m, MergedRange(m, start, end))
<1> DEFINE k == LeastCluster(m.info, start, end)
           e == RunEnd(m.info, end, len)
           s == IF idx < start THEN RunStart(m.info, m.info[start].cluster, start, idx) ELSE start
           o == IF idx = s THEN RunStart(OutBlock(m), m.info[s].cluster, outLen, 0) ELSE outLen
           n == WithOut(m, SetClusters(OutBlock(m), o, outLen, k, FALSE))
<1>1. k \in Clusters
  BY LeastClusterIsCluster DEF Mem, Block
<1>2. SameGlyphs(m, n)
  <2> HIDE DEF k, o
  <2>1. SameCps(OutBlock(m), SetClusters(OutBlock(m), o, outLen, k, FALSE))
    BY <1>1, SetClustersKeepsCps, OutBlockIsBlock
  <2> QED BY <2>1, SameOut
<1>3. SameGlyphs(n, [n EXCEPT !.info = SetClusters(@, s, e, k, FALSE)])
  <2> HIDE DEF k, e, s, n
  <2>1. n \in Mem /\ n.info \in Block
    BY <1>2 DEF SameGlyphs, Mem, Block
  <2>2. SameCps(n.info, SetClusters(n.info, s, e, k, FALSE))
    BY <1>1, <2>1, SetClustersKeepsCps
  <2> QED BY <2>1, <2>2, SameInfo
<1>4. SameGlyphs(m, [n EXCEPT !.info = SetClusters(@, s, e, k, FALSE)])
  <2> HIDE DEF n
  <2> QED BY <1>2, <1>3, SameGlyphsTrans
<1> QED BY <1>4 DEF MergedRange

\* merge_clusters changes clusters and flags only.
LEMMA MergedMemSame ==
  ASSUME NEW m \in Mem, NEW start \in Nat, NEW end \in Nat, end <= Capacity
  PROVE  SameGlyphs(m, MergedMem(m, start, end))
<1>1. CASE end - start < 2
  BY <1>1, SameGlyphsInMem DEF MergedMem
<1>2. CASE end - start >= 2
  <2>1. start < end
    BY <1>2
  <2> QED BY <1>2, <2>1, UnsafeMemSame, MergedRangeSame DEF MergedMem
<1> QED BY <1>1, <1>2

\* merge_out_clusters changes clusters and flags only.
LEMMA MergedOutMemSame ==
  ASSUME NEW m \in Mem, NEW start \in Nat, NEW end \in Nat, start < end, end <= Capacity
  PROVE  SameGlyphs(m, MergedOutMem(m, start, end))
<1> DEFINE out == OutBlock(m)
           k == LeastCluster(out, start, end)
           s == RunStart(out, out[start].cluster, start, 0)
           e == RunEnd(out, end, outLen)
           f == IF e = outLen /\ idx < len /\ m.info[idx].cluster = out[e - 1].cluster
                THEN RunEnd(m.info, idx + 1, len) ELSE idx
           n == [m EXCEPT !.info = SetClusters(@, idx, f, k, FALSE)]
<1>1. k \in Clusters
  BY LeastClusterIsCluster, OutBlockIsBlock
<1>2. SameGlyphs(m, n)
  <2> HIDE DEF k, f
  <2>1. m.info \in Block
    BY DEF Mem, Block
  <2>2. SameCps(m.info, SetClusters(m.info, idx, f, k, FALSE))
    BY <1>1, <2>1, SetClustersKeepsCps
  <2> QED BY <2>2, SameInfo
<1>3. SameGlyphs(n, WithOut(n, SetClusters(OutBlock(n), s, e, k, FALSE)))
  <2> HIDE DEF k, s, e, n
  <2>1. n \in Mem
    BY <1>2 DEF SameGlyphs
  <2>2. SameCps(OutBlock(n), SetClusters(OutBlock(n), s, e, k, FALSE))
    BY <1>1, <2>1, SetClustersKeepsCps, OutBlockIsBlock
  <2> QED BY <2>1, <2>2, SameOut
<1>4. SameGlyphs(m, WithOut(n, SetClusters(OutBlock(n), s, e, k, FALSE)))
  <2> HIDE DEF n
  <2> QED BY <1>2, <1>3, SameGlyphsTrans
<1> QED BY <1>4 DEF MergedOutMem

\* Where the walks over neighbours of the same cluster stop: within their limits,
\* and either at the limit or at a neighbour of another cluster.
EndsRun(a, end, limit, e) ==
  /\ e \in end .. limit
  /\ \A i \in end .. e - 1 : a[i].cluster = a[end - 1].cluster
  /\ e < limit => a[e].cluster # a[end - 1].cluster

StartsRun(a, k, end, limit, s) ==
  /\ s \in limit .. end
  /\ \A i \in s .. end - 1 : a[i].cluster = k
  /\ s > limit => a[s - 1].cluster # k

\* "Extend end" finds such an end.
LEMMA RunEndIs ==
  ASSUME NEW a, NEW end \in Nat, NEW limit \in Nat, end <= limit
  PROVE  EndsRun(a, end, limit, RunEnd(a, end, limit))
<1> DEFINE k == a[end - 1].cluster
           S == {e \in end .. limit : e = limit \/ a[e].cluster # k}
<1>1. S \subseteq Nat /\ limit \in S
  OBVIOUS
<1>2. PICK e \in S : \A x \in S : e <= x
  BY <1>1, LeastExists
<1>3. e \in end .. limit /\ (e < limit => a[e].cluster # k)
  BY <1>2
<1>4. ASSUME NEW i \in end .. e - 1, a[i].cluster # k
      PROVE  FALSE
  BY <1>2, <1>3, <1>4
<1>5. \E x \in end .. limit :
        (\A i \in end .. x - 1 : a[i].cluster = k) /\ (x < limit => a[x].cluster # k)
  BY <1>3, <1>4
<1> QED BY <1>5 DEF RunEnd, EndsRun

\* It stays within the limit.
LEMMA RunEndBounds ==
  ASSUME NEW a, NEW end \in Nat, NEW limit \in Nat, end <= limit
  PROVE  RunEnd(a, end, limit) \in end .. limit
BY RunEndIs DEF EndsRun

\* "Extend start" finds such a start.
LEMMA RunStartIs ==
  ASSUME NEW a, NEW k, NEW end \in Nat, NEW limit \in Nat, limit <= end
  PROVE  StartsRun(a, k, end, limit, RunStart(a, k, end, limit))
<1> DEFINE S == {d \in 0 .. end - limit : end - d = limit \/ a[end - d - 1].cluster # k}
<1>1. S \subseteq Nat /\ end - limit \in S
  OBVIOUS
<1>2. PICK d \in S : \A x \in S : d <= x
  BY <1>1, LeastExists
<1> DEFINE s == end - d
<1>3. s \in limit .. end /\ (s > limit => a[s - 1].cluster # k)
  BY <1>2
<1>4. ASSUME NEW i \in s .. end - 1, a[i].cluster # k
      PROVE  FALSE
  <2>1. end - 1 - i \in S
    <3>1. end - 1 - i \in 0 .. end - limit
      BY <1>3
    <3>2. end - (end - 1 - i) - 1 = i
      BY <1>3
    <3> QED BY <3>1, <3>2, <1>4
  <2>2. d <= end - 1 - i
    BY <2>1, <1>2
  <2>3. d \in Int /\ i \in Int /\ end - d <= i
    BY <1>1, <1>2
  <2> QED BY <2>2, <2>3
<1>5. \E x \in limit .. end :
        (\A i \in x .. end - 1 : a[i].cluster = k) /\ (x > limit => a[x - 1].cluster # k)
  BY <1>3, <1>4
<1> QED BY <1>5 DEF RunStart, StartsRun

\* It stays within the limit.
LEMMA RunStartBounds ==
  ASSUME NEW a, NEW k, NEW end \in Nat, NEW limit \in Nat, limit <= end
  PROVE  RunStart(a, k, end, limit) \in limit .. end
BY RunStartIs DEF StartsRun

\* delete_glyph changes clusters and flags only; the glyph stays behind the cursor.
LEMMA DeletedMemSame ==
  ASSUME BufferInv, idx < len
  PROVE  SameGlyphs(mem, DeletedMem)
<1> DEFINE g == mem.info[idx]
           out == OutBlock(mem)
           old == out[outLen - 1].cluster
           s == RunStart(out, old, outLen, 0)
<1>1. mem \in Mem /\ idx \in Nat /\ len \in Nat /\ allocated \in 0 .. Capacity /\ Capacity \in Nat
  BY BufferAssumption DEF BufferInv, TypeOK
<1>2. idx \in Cells /\ idx + 2 \in Nat /\ (idx + 1 < len => idx + 2 <= Capacity)
  BY <1>1 DEF BufferInv, WithinAllocation, Cells
<1>3. g.cluster \in Clusters /\ g.unsafe \in BOOLEAN
  BY <1>1, <1>2 DEF Mem, Glyph, Clusters
<1>4. SameGlyphs(mem, WithOut(mem, SetClusters(out, s, outLen, g.cluster, g.unsafe)))
  <2> HIDE DEF g, s
  <2>1. SameCps(out, SetClusters(out, s, outLen, g.cluster, g.unsafe))
    BY <1>1, <1>3, SetClustersKeepsCps, OutBlockIsBlock
  <2> QED BY <1>1, <2>1, SameOut
<1>5. idx + 1 < len => SameGlyphs(mem, MergedMem(mem, idx, idx + 2))
  BY <1>1, <1>2, MergedMemSame
<1>6. SameGlyphs(mem, mem)
  BY <1>1, SameGlyphsInMem
<1> QED BY <1>4, <1>5, <1>6 DEF DeletedMem

-----------------------------------------------------------------------------
(* Memory: what ensure and make_room_for grant.                             *)

\* A size enlarge can reach fits the largest block.
LEMMA SizesAreNat ==
  \A s \in AllocSizes : s \in Nat /\ s <= Capacity
<1>1. \A s \in AllocSizes : s \in 0 .. Capacity
  BY BufferAssumption
<1> QED BY <1>1, BufferAssumption

\* For a size within max_len, enlarge's loop ends at a size beyond it.
LEMMA GrownToIsSize ==
  ASSUME NEW size \in 0 .. MaxBufferLen
  PROVE  GrownTo(size) \in AllocSizes /\ size < GrownTo(size)
<1> DEFINE S == {s \in AllocSizes : size < s}
<1>1. S \subseteq Nat /\ S # {}
  <2>1. S \subseteq Nat
    BY SizesAreNat
  <2>2. \E s \in AllocSizes : size < s
    BY BufferAssumption
  <2> QED BY <2>1, <2>2
<1>2. PICK x \in S : \A y \in S : x <= y
  BY <1>1, LeastExists
<1>3. \E x1 \in AllocSizes : size < x1 /\ \A y \in AllocSizes : size < y => x1 <= y
  BY <1>2
<1> QED BY <1>3 DEF GrownTo

\* Whatever ensure answers, allocated is a size of the progression that never
\* shrinks, and a granted size is within it.
LEMMA EnsureGrants ==
  ASSUME BufferInv, NEW size \in Nat, NEW r \in Ensure(size)
  PROVE  /\ r.allocated \in AllocSizes /\ allocated <= r.allocated
         /\ r.successful \in BOOLEAN
         /\ r.ok => size <= r.allocated
<1>1. allocated \in AllocSizes /\ allocated \in Nat /\ MaxBufferLen \in Nat
  BY BufferAssumption, SizesAreNat DEF BufferInv, TypeOK
<1>2. r.successful \in BOOLEAN
  <2>1. successful \in BOOLEAN
    BY DEF BufferInv, TypeOK
  <2>2. \/ r = [ok |-> TRUE, allocated |-> allocated, successful |-> successful]
        \/ r = [ok |-> TRUE, allocated |-> GrownTo(size), successful |-> TRUE]
        \/ r = [ok |-> FALSE, allocated |-> allocated, successful |-> FALSE]
    BY DEF Ensure
  <2>3. CASE r = [ok |-> TRUE, allocated |-> allocated, successful |-> successful]
    BY <2>1, <2>3
  <2>4. CASE r = [ok |-> TRUE, allocated |-> GrownTo(size), successful |-> TRUE]
    BY <2>4
  <2>5. CASE r = [ok |-> FALSE, allocated |-> allocated, successful |-> FALSE]
    BY <2>5
  <2> QED BY <2>2, <2>3, <2>4, <2>5
<1>3. CASE size = 0 \/ size < allocated
  <2>1. r.allocated = allocated
    BY <1>3 DEF Ensure
  <2> QED BY <1>1, <1>2, <1>3, <2>1
<1>4. CASE ~(size = 0 \/ size < allocated) /\ successful /\ size <= MaxBufferLen
  <2>1. GrownTo(size) \in AllocSizes /\ size < GrownTo(size)
    BY <1>1, <1>4, GrownToIsSize
  <2>2. GrownTo(size) \in Nat /\ allocated <= GrownTo(size)
    <3>1. GrownTo(size) \in Nat
      BY <2>1, SizesAreNat
    <3>2. allocated <= size
      BY <1>1, <1>4
    <3> QED BY <1>1, <2>1, <3>1, <3>2
  <2>3. \/ r = [ok |-> TRUE, allocated |-> GrownTo(size), successful |-> TRUE]
        \/ r = [ok |-> FALSE, allocated |-> allocated, successful |-> FALSE]
    BY <1>4 DEF Ensure
  <2>4. r.allocated \in {GrownTo(size), allocated}
    BY <2>3
  <2>5. r.ok => r.allocated = GrownTo(size)
    BY <2>3
  <2> QED BY <1>1, <1>2, <2>1, <2>2, <2>4, <2>5
<1>5. CASE ~(size = 0 \/ size < allocated) /\ ~(successful /\ size <= MaxBufferLen)
  <2>1. r = [ok |-> FALSE, allocated |-> allocated, successful |-> FALSE]
    BY <1>5 DEF Ensure
  <2>2. ~r.ok
    BY <2>1
  <2>3. r.allocated = allocated
    BY <2>1
  <2> QED BY <1>1, <1>2, <2>2, <2>3
<1> QED BY <1>3, <1>4, <1>5

\* The early return of a method that got no room changes nothing but successful.
LEMMA RefusedKeepsInv ==
  ASSUME BufferInv, NEW size \in Nat, NEW r \in Ensure(size), Refused(r)
  PROVE  BufferInv'
<1>1. r.allocated \in AllocSizes /\ allocated <= r.allocated /\ r.successful \in BOOLEAN
  BY EnsureGrants
<1>2. allocated \in Nat /\ r.allocated \in Nat
  BY <1>1, SizesAreNat DEF BufferInv, TypeOK
<1> USE DEF Refused, Granted
<1>3. TypeOK'
  BY <1>1 DEF BufferInv, TypeOK
<1>4. WithinAllocation'
  BY <1>1, <1>2 DEF BufferInv, TypeOK, WithinAllocation
<1>5. InPlaceOutputBehindCursor' /\ InputWritten' /\ OutputWritten'
  BY DEF BufferInv, InPlaceOutputBehindCursor, InputWritten, OutputWritten, OutBlock
<1> QED BY <1>3, <1>4, <1>5 DEF BufferInv

\* memcpy of n cells: typed, and cell by cell what the definition says.
LEMMA CopyIsBlock ==
  ASSUME NEW dst \in Block, NEW src \in Block, NEW at \in Int, NEW from \in Nat, NEW n \in Nat,
         from + n <= Capacity
  PROVE  /\ Copy(dst, at, src, from, n) \in Block
         /\ \A c \in Cells : Copy(dst, at, src, from, n)[c] =
              IF at <= c /\ c < at + n THEN src[from + (c - at)] ELSE dst[c]
<1>1. Copy(dst, at, src, from, n) =
        [c \in Cells |-> IF at <= c /\ c < at + n THEN src[from + (c - at)] ELSE dst[c]]
  BY DEF Copy, Block
<1>2. ASSUME NEW c \in Cells, at <= c, c < at + n
      PROVE  src[from + (c - at)] \in Glyph
  <2>1. c \in Int /\ Capacity \in Nat
    BY BufferAssumption DEF Cells
  <2>2. from + (c - at) \in Cells
    BY <1>2, <2>1 DEF Cells
  <2> QED BY <2>2 DEF Block
<1> QED BY <1>1, <1>2 DEF Block

\* A zeroed glyph counts as written, a cell of a fresh block is only typed.
LEMMA ZeroGlyphIsGlyph ==
  ZeroGlyph \in Glyph /\ ZeroGlyph.cp # Uninit /\ JunkGlyph \in Glyph
BY TextAssumption DEF ZeroGlyph, JunkGlyph, Glyph

\* memset of n cells: typed, and cell by cell what the definition says.
LEMMA FillIsBlock ==
  ASSUME NEW dst \in Block, NEW at \in Int, NEW n \in Int
  PROVE  /\ Fill(dst, at, n, ZeroGlyph) \in Block
         /\ \A c \in Cells : Fill(dst, at, n, ZeroGlyph)[c] =
              IF at <= c /\ c < at + n THEN ZeroGlyph ELSE dst[c]
BY ZeroGlyphIsGlyph DEF Fill, Block

\* The state of the text in blocks m while the output is written: input and
\* output are written, and there is room for the output in front of the cursor.
Writable(m, numIn, numOut) ==
  /\ m \in Mem
  /\ \A c \in 0 .. len - 1 : m.info[c].cp # Uninit
  /\ \A c \in 0 .. outLen - 1 : OutBlock(m)[c].cp # Uninit
  /\ ~m.sep => outLen + numOut <= idx + numIn

\* Facts every step starts from.
LEMMA InvFacts ==
  ASSUME BufferInv
  PROVE  /\ mem \in Mem /\ mem.info \in Block /\ mem.pos \in Block /\ mem.sep \in BOOLEAN
         /\ idx \in Nat /\ len \in Nat /\ outLen \in Nat
         /\ allocated \in AllocSizes /\ allocated \in Nat /\ Capacity \in Nat
         /\ allocated <= Capacity /\ len <= allocated /\ outLen <= allocated /\ idx <= allocated
         /\ \A c \in 0 .. allocated - 1 : c \in Cells
         /\ level \in Levels
<1>1. level \in Levels /\ allocated \in AllocSizes /\ mem \in Mem /\ idx \in Nat /\ len \in Nat /\ outLen \in Nat
  BY DEF BufferInv, TypeOK
<1>2. allocated \in Nat /\ allocated <= Capacity /\ Capacity \in Nat
  BY <1>1, SizesAreNat, BufferAssumption
<1>3. len <= allocated /\ outLen <= allocated /\ idx <= allocated
  BY DEF BufferInv, WithinAllocation
<1>4. mem.info \in Block /\ mem.pos \in Block /\ mem.sep \in BOOLEAN
  BY <1>1 DEF Mem, Block
<1>5. \A c \in 0 .. allocated - 1 : c \in Cells
  BY <1>2 DEF Cells
<1> QED BY <1>1, <1>2, <1>3, <1>4, <1>5

\* make_room_for hands out blocks that hold the same text, in which numOut
\* glyphs can be written after numIn were consumed.
LEMMA RoomMadeWritable ==
  ASSUME BufferInv, haveOutput, NEW numIn \in Nat, NEW numOut \in Nat
  PROVE  /\ Writable(RoomMade(numIn, numOut), numIn, numOut)
         /\ RoomMade(numIn, numOut).info = mem.info
<1> USE InvFacts
<1>1. /\ \A c \in 0 .. len - 1 : mem.info[c].cp # Uninit
      /\ \A c \in 0 .. outLen - 1 : OutBlock(mem)[c].cp # Uninit
  BY DEF BufferInv, InputWritten, OutputWritten
<1>2. CASE ~mem.sep /\ outLen + numOut > idx + numIn
  <2> DEFINE b == Copy(mem.pos, 0, mem.info, 0, outLen)
             m == RoomMade(numIn, numOut)
  <2>1. b \in Block /\ \A c \in Cells : b[c] = IF c < outLen THEN mem.info[c] ELSE mem.pos[c]
    <3>1. \A c \in Cells : c \in Int /\ 0 <= c /\ 0 + (c - 0) = c /\ 0 + outLen = outLen
      BY DEF Cells
    <3>2. b = [c \in Cells |-> IF 0 <= c /\ c < 0 + outLen THEN mem.info[0 + (c - 0)]
                               ELSE mem.pos[c]]
      BY DEF Copy, Block
    <3>3. b = [c \in Cells |-> IF c < outLen THEN mem.info[c] ELSE mem.pos[c]]
      BY <3>1, <3>2
    <3> QED BY <3>3 DEF Block
  <2>2. m = [mem EXCEPT !.sep = TRUE, !.pos = b]
    BY <1>2 DEF RoomMade
  <2> HIDE DEF b
  <2>3. m \in Mem /\ m.info = mem.info /\ m.pos = b /\ m.sep = TRUE
    BY <2>1, <2>2 DEF Mem, Block
  <2>4. OutBlock(m) = b /\ OutBlock(mem) = mem.info
    BY <1>2, <2>3 DEF OutBlock
  <2>5. \A c \in 0 .. outLen - 1 : b[c] = mem.info[c]
    <3>1. \A c \in 0 .. outLen - 1 : c \in Cells /\ c - 0 = c /\ 0 + c = c
      OBVIOUS
    <3> QED BY <2>1, <3>1
  <2> QED BY <1>1, <2>3, <2>4, <2>5 DEF Writable
<1>3. CASE ~(~mem.sep /\ outLen + numOut > idx + numIn)
  <2>1. RoomMade(numIn, numOut) = mem
    BY <1>3 DEF RoomMade
  <2>2. ~mem.sep => outLen + numOut <= idx + numIn
    BY <1>3
  <2> QED BY <1>1, <2>1, <2>2 DEF Writable
<1> QED BY <1>2, <1>3

\* Writing glyphs at the end of the output keeps the invariant.
LEMMA EmitKeepsInv ==
  ASSUME BufferInv, haveOutput,
         NEW m, NEW numIn \in Nat, NEW gs \in Seq(Glyph),
         Writable(m, numIn, Len(gs)),
         \A k \in 1 .. Len(gs) : gs[k].cp # Uninit,
         idx + numIn <= len,
         Emit(m, numIn, gs),
         allocated' \in AllocSizes, allocated <= allocated', outLen + Len(gs) <= allocated',
         successful' \in BOOLEAN, hasUnsafe' \in BOOLEAN
  PROVE  BufferInv'
<1> DEFINE n == Len(gs)
           b == [c \in Cells |-> IF outLen <= c /\ c < outLen + n THEN gs[c - outLen + 1]
                                 ELSE OutBlock(m)[c]]
<1>1. m \in Mem /\ OutBlock(m) \in Block /\ m.info \in Block /\ m.sep \in BOOLEAN
  BY OutBlockIsBlock DEF Writable, Mem, Block
<1>2. n \in Nat
  OBVIOUS
<1>3. \A c \in Cells : c \in Int /\ 0 <= c
  BY BufferAssumption DEF Cells
<1>4. \A c \in Cells : outLen <= c /\ c < outLen + n => c - outLen + 1 \in 1 .. n
  BY <1>2, <1>3, InvFacts
<1>5. b \in Block
  <2>1. \A c \in Cells : outLen <= c /\ c < outLen + n => gs[c - outLen + 1] \in Glyph
    BY <1>4
  <2> QED BY <1>1, <2>1 DEF Block
<1>6. \A c \in Cells : outLen <= c /\ c < outLen + n => b[c].cp # Uninit
  BY <1>4
<1>7. \A c \in Cells : ~(outLen <= c /\ c < outLen + n) => b[c] = OutBlock(m)[c]
  OBVIOUS
<1>8. mem' = WithOut(m, b) /\ idx' = idx + numIn /\ outLen' = outLen + n
      /\ len' = len /\ haveOutput' = haveOutput /\ havePositions' = havePositions
      /\ level' = level
  BY DEF Emit, Emitted
<1> HIDE DEF b
<1>9. mem' \in Mem /\ mem'.sep = m.sep /\ OutBlock(mem') = b
      /\ mem'.info = IF m.sep THEN m.info ELSE b
  BY <1>1, <1>5, <1>8 DEF WithOut, OutBlock, Mem, Block
<1>10. allocated' \in Nat /\ allocated' <= Capacity
  BY SizesAreNat
<1>11. TypeOK'
  <2>1. havePositions \in BOOLEAN /\ haveOutput \in BOOLEAN
    BY DEF BufferInv, TypeOK
  <2> QED BY <1>2, <1>8, <1>9, <2>1, InvFacts DEF TypeOK
<1>12. WithinAllocation'
  BY <1>2, <1>8, <1>10, InvFacts DEF WithinAllocation
<1>13. InPlaceOutputBehindCursor'
  BY <1>2, <1>8, <1>9 DEF InPlaceOutputBehindCursor, Writable
<1>14. \A c \in 0 .. outLen + n - 1 : c \in Cells
  BY <1>2, <1>10, InvFacts DEF Cells
<1>15. OutputWritten'
  <2>1. \A c \in 0 .. outLen + n - 1 : b[c].cp # Uninit
    <3> SUFFICES ASSUME NEW c \in 0 .. outLen + n - 1
                 PROVE  b[c].cp # Uninit
      OBVIOUS
    <3>1. CASE outLen <= c
      BY <1>2, <1>6, <1>14, <3>1, InvFacts
    <3>2. CASE c < outLen
      <4>1. c \in 0 .. outLen - 1
        BY <3>2, <1>2, InvFacts
      <4> QED BY <1>7, <1>14, <3>2, <4>1, InvFacts DEF Writable
    <3> QED BY <3>1, <3>2, InvFacts
  <2>2. (OutBlock(mem))' = b
    BY <1>9 DEF OutBlock
  <2>3. \A c \in 0 .. outLen' - 1 : b[c].cp # Uninit
    BY <1>2, <1>8, <2>1, InvFacts
  <2>4. \A c \in 0 .. outLen' - 1 : (OutBlock(mem))'[c].cp # Uninit
    BY <2>2, <2>3
  <2> QED BY <2>4 DEF OutputWritten
<1>16. InputWritten'
  <2>1. \A c \in 0 .. len - 1 : c \in Cells
    BY InvFacts
  <2>2. CASE m.sep
    BY <1>8, <1>9, <2>2 DEF InputWritten, Writable
  <2>3. CASE ~m.sep
    <3>1. OutBlock(m) = m.info
      BY <2>3 DEF OutBlock
    <3>2. \A c \in 0 .. len - 1 : b[c].cp # Uninit
      BY <1>6, <1>7, <2>1, <3>1 DEF Writable
    <3> QED BY <1>8, <1>9, <2>3, <3>2 DEF InputWritten
  <2> QED BY <1>1, <2>2, <2>3
<1> QED BY <1>11, <1>12, <1>13, <1>15, <1>16 DEF BufferInv

-----------------------------------------------------------------------------
(* Clusters, break flags and the cursor: steps that keep every glyph.       *)

\* A step that keeps every glyph, and moves the cursor only ahead while it
\* edits, keeps the invariant.
LEMMA SameGlyphsKeepInv ==
  ASSUME BufferInv, SameGlyphs(mem, mem'),
         UNCHANGED <<len, outLen, allocated, haveOutput>>,
         idx' \in Nat, idx' <= allocated, haveOutput => idx <= idx' /\ idx' <= len,
         successful' \in BOOLEAN, havePositions' \in BOOLEAN, hasUnsafe' \in BOOLEAN, level' \in Levels
  PROVE  BufferInv'
<1> USE InvFacts
<1>1. mem' \in Mem /\ mem'.sep = mem.sep
      /\ SameCps(mem.info, mem'.info) /\ SameCps(mem.pos, mem'.pos)
  BY DEF SameGlyphs
<1>2. TypeOK'
  <2>1. haveOutput' \in BOOLEAN
    BY DEF BufferInv, TypeOK
  <2> QED BY <1>1, <2>1 DEF TypeOK
<1>3. WithinAllocation'
  BY DEF WithinAllocation
<1>4. InPlaceOutputBehindCursor'
  BY <1>1 DEF BufferInv, InPlaceOutputBehindCursor
<1>5. InputWritten'
  <2>1. \A c \in 0 .. len - 1 : mem'.info[c].cp # Uninit
    BY <1>1 DEF BufferInv, InputWritten, SameCps
  <2> QED BY <2>1 DEF InputWritten
<1>6. OutputWritten'
  <2>1. SameCps(OutBlock(mem), (OutBlock(mem))')
    BY <1>1 DEF OutBlock
  <2>2. \A c \in 0 .. outLen - 1 : c \in Cells
    OBVIOUS
  <2>3. haveOutput => \A c \in 0 .. outLen - 1 : (OutBlock(mem))'[c].cp # Uninit
    BY <2>1, <2>2 DEF BufferInv, OutputWritten, SameCps
  <2> QED BY <2>3 DEF OutputWritten
<1> QED BY <1>2, <1>3, <1>4, <1>5, <1>6 DEF BufferInv

\* skip_glyph.
LEMMA SkipGlyphKeepsInv == ASSUME BufferInv, SkipGlyph PROVE BufferInv'
<1>1. SameGlyphs(mem, mem')
  BY SameGlyphsInMem, InvFacts DEF SkipGlyph
<1>2. successful' \in BOOLEAN /\ havePositions' \in BOOLEAN /\ hasUnsafe' \in BOOLEAN /\ level' \in Levels
  BY DEF SkipGlyph, BufferInv, TypeOK
<1>3. idx' \in Nat /\ idx' <= allocated /\ idx <= idx' /\ idx' <= len
  BY InvFacts DEF SkipGlyph
<1> QED BY <1>1, <1>2, <1>3, SameGlyphsKeepInv DEF SkipGlyph

\* delete_glyph.
LEMMA DeleteGlyphKeepsInv == ASSUME BufferInv, DeleteGlyph PROVE BufferInv'
<1>1. SameGlyphs(mem, mem')
  BY DeletedMemSame DEF DeleteGlyph
<1>2. successful' \in BOOLEAN /\ havePositions' \in BOOLEAN
  BY DEF DeleteGlyph, BufferInv, TypeOK
<1>3. hasUnsafe' \in BOOLEAN /\ level' \in Levels
  BY InvFacts DEF DeleteGlyph
<1>4. idx' \in Nat /\ idx' <= allocated /\ idx <= idx' /\ idx' <= len
  BY InvFacts DEF DeleteGlyph
<1> QED BY <1>1, <1>2, <1>3, <1>4, SameGlyphsKeepInv DEF DeleteGlyph

\* merge_clusters.
LEMMA MergeClustersKeepsInv ==
  ASSUME BufferInv, NEW start \in Nat, NEW end \in Nat, MergeClusters(start, end)
  PROVE  BufferInv'
<1>1. SameGlyphs(mem, mem')
  BY MergedMemSame, InvFacts DEF MergeClusters
<1>2. successful' \in BOOLEAN /\ havePositions' \in BOOLEAN
  BY DEF MergeClusters, BufferInv, TypeOK
<1>3. hasUnsafe' \in BOOLEAN /\ level' \in Levels
  BY InvFacts DEF MergeClusters
<1>4. idx' \in Nat /\ idx' <= allocated /\ (haveOutput => idx <= idx' /\ idx' <= len)
  BY InvFacts DEF MergeClusters, BufferInv, WithinAllocation
<1> QED BY <1>1, <1>2, <1>3, <1>4, SameGlyphsKeepInv DEF MergeClusters

\* merge_out_clusters.
LEMMA MergeOutClustersKeepsInv ==
  ASSUME BufferInv, NEW start \in Nat, NEW end \in Nat, MergeOutClusters(start, end)
  PROVE  BufferInv'
<1>1. SameGlyphs(mem, mem')
  <2>1. SameGlyphs(mem, mem) /\ SameGlyphs(mem, MergedOutMem(mem, start, end))
    BY SameGlyphsInMem, MergedOutMemSame, InvFacts DEF MergeOutClusters
  <2> QED BY <2>1 DEF MergeOutClusters
<1>2. successful' \in BOOLEAN /\ havePositions' \in BOOLEAN /\ hasUnsafe' \in BOOLEAN /\ level' \in Levels
  BY DEF MergeOutClusters, BufferInv, TypeOK
<1>3. idx' \in Nat /\ idx' <= allocated /\ idx <= idx' /\ idx' <= len
  BY InvFacts DEF MergeOutClusters, BufferInv, WithinAllocation
<1> QED BY <1>1, <1>2, <1>3, SameGlyphsKeepInv DEF MergeOutClusters

\* unsafe_to_break.
LEMMA UnsafeToBreakKeepsInv ==
  ASSUME BufferInv, NEW start \in Nat, NEW end \in Nat, UnsafeToBreak(start, end)
  PROVE  BufferInv'
<1>1. SameGlyphs(mem, mem')
  BY UnsafeMemSame, InvFacts DEF UnsafeToBreak
<1>2. successful' \in BOOLEAN /\ havePositions' \in BOOLEAN
  BY DEF UnsafeToBreak, BufferInv, TypeOK
<1>3. hasUnsafe' \in BOOLEAN /\ level' \in Levels
  BY InvFacts DEF UnsafeToBreak
<1>4. idx' \in Nat /\ idx' <= allocated /\ (haveOutput => idx <= idx' /\ idx' <= len)
  BY InvFacts DEF UnsafeToBreak, BufferInv, WithinAllocation
<1> QED BY <1>1, <1>2, <1>3, <1>4, SameGlyphsKeepInv DEF UnsafeToBreak

\* unsafe_to_break_from_outbuffer.
LEMMA UnsafeFromOutbufferKeepsInv ==
  ASSUME BufferInv, NEW start \in Nat, NEW end \in Nat, UnsafeFromOutbuffer(start, end)
  PROVE  BufferInv'
<1> DEFINE out == OutBlock(mem)
           k == Least(ClustersOf(out, start, outLen) \cup ClustersOf(mem.info, idx, end))
           m == WithOut(mem, SetUnsafe(out, start, outLen, k))
<1>1. SameGlyphs(mem, m)
  <2> HIDE DEF k
  <2>1. SameCps(out, SetUnsafe(out, start, outLen, k))
    BY SetUnsafeKeepsCps, OutBlockIsBlock, InvFacts
  <2> QED BY <2>1, SameOut, InvFacts
<1>2. SameGlyphs(m, [m EXCEPT !.info = SetUnsafe(@, idx, end, k)])
  <2> HIDE DEF k, m
  <2>1. m \in Mem /\ m.info \in Block
    BY <1>1 DEF SameGlyphs, Mem, Block
  <2>2. SameCps(m.info, SetUnsafe(m.info, idx, end, k))
    BY <2>1, SetUnsafeKeepsCps
  <2> QED BY <2>1, <2>2, SameInfo
<1>3. SameGlyphs(mem, mem')
  <2>1. mem' = [m EXCEPT !.info = SetUnsafe(@, idx, end, k)]
    BY DEF UnsafeFromOutbuffer
  <2> HIDE DEF m, k
  <2> QED BY <1>1, <1>2, <2>1, SameGlyphsTrans, InvFacts
<1>4. successful' \in BOOLEAN /\ havePositions' \in BOOLEAN
  BY DEF UnsafeFromOutbuffer, BufferInv, TypeOK
<1>5. hasUnsafe' \in BOOLEAN /\ level' \in Levels
  BY InvFacts DEF UnsafeFromOutbuffer
<1>6. idx' \in Nat /\ idx' <= allocated /\ idx <= idx' /\ idx' <= len
  BY InvFacts DEF UnsafeFromOutbuffer, BufferInv, WithinAllocation
<1> QED BY <1>3, <1>4, <1>5, <1>6, SameGlyphsKeepInv DEF UnsafeFromOutbuffer

-----------------------------------------------------------------------------
(* Steps that write output.                                                 *)

\* A segment of a block is a sequence of glyphs, position by position.
LEMMA SegmentIsSeq ==
  ASSUME NEW a \in Block, NEW start \in Nat, NEW end \in Nat, start <= end, end <= Capacity
  PROVE  /\ Segment(a, start, end) \in Seq(Glyph)
         /\ Len(Segment(a, start, end)) = end - start
         /\ \A k \in 1 .. end - start :
              /\ start + k - 1 \in start .. end - 1
              /\ Segment(a, start, end)[k] = a[start + k - 1]
<1>1. \A k \in 1 .. end - start : start + k - 1 \in start .. end - 1 /\ start + k - 1 \in Cells
  BY BufferAssumption DEF Cells
<1>2. \A k \in 1 .. end - start : a[start + k - 1] \in Glyph
  BY <1>1 DEF Block
<1>3. end - start \in Nat
  OBVIOUS
<1>4. Segment(a, start, end) \in Seq(Glyph) /\ Len(Segment(a, start, end)) = end - start
  BY <1>2, <1>3 DEF Segment
<1>5. \A k \in 1 .. end - start : Segment(a, start, end)[k] = a[start + k - 1]
  BY DEF Segment
<1> QED BY <1>1, <1>4, <1>5

\* Merging clusters after make_room_for does not spoil the room it made.
LEMMA WritableSame ==
  ASSUME BufferInv, NEW m, NEW n, NEW numIn, NEW numOut,
         Writable(m, numIn, numOut), SameGlyphs(m, n)
  PROVE  Writable(n, numIn, numOut)
<1>1. n \in Mem /\ n.sep = m.sep /\ SameCps(m.info, n.info) /\ SameCps(m.pos, n.pos)
  BY DEF SameGlyphs
<1>2. SameCps(OutBlock(m), OutBlock(n))
  BY <1>1 DEF OutBlock
<1>3. (\A c \in 0 .. len - 1 : c \in Cells) /\ (\A c \in 0 .. outLen - 1 : c \in Cells)
  BY InvFacts
<1> QED BY <1>1, <1>2, <1>3 DEF Writable, SameCps

\* Room was granted for gs, and gs is written.
LEMMA GrantedEmitKeepsInv ==
  ASSUME BufferInv, haveOutput,
         NEW m, NEW numIn \in Nat, NEW gs \in Seq(Glyph),
         \A k \in 1 .. Len(gs) : gs[k].cp # Uninit,
         Writable(m, numIn, Len(gs)), idx + numIn <= len,
         NEW r \in Ensure(outLen + Len(gs)), r.ok, Granted(r),
         Emit(m, numIn, gs), hasUnsafe' \in BOOLEAN
  PROVE  BufferInv'
<1>1. outLen + Len(gs) \in Nat
  BY InvFacts
<1>2. /\ r.allocated \in AllocSizes /\ allocated <= r.allocated
      /\ r.successful \in BOOLEAN /\ outLen + Len(gs) <= r.allocated
  BY <1>1, EnsureGrants
<1>3. allocated' = r.allocated /\ successful' = r.successful
  BY DEF Granted
<1> QED BY <1>2, <1>3, EmitKeepsInv

\* The glyph at the cursor, with any codepoint, can be written.
LEMMA CurIsGlyph ==
  ASSUME BufferInv, idx < len
  PROVE  /\ mem.info[idx] \in Glyph /\ mem.info[idx].cp # Uninit
         /\ \A cp \in Codepoints : /\ [mem.info[idx] EXCEPT !.cp = cp] \in Glyph
                                   /\ [mem.info[idx] EXCEPT !.cp = cp].cp # Uninit
<1>1. idx \in 0 .. len - 1 /\ idx \in Cells
  BY InvFacts
<1>2. mem.info[idx] \in Glyph /\ mem.info[idx].cp # Uninit
  BY <1>1, InvFacts DEF Block, BufferInv, InputWritten
<1>3. \A g \in Glyph, cp \in Codepoints : /\ [g EXCEPT !.cp = cp] \in Glyph
                                          /\ [g EXCEPT !.cp = cp].cp # Uninit
  BY TextAssumption DEF Glyph
<1> QED BY <1>2, <1>3

\* A single written glyph is something an emitting step may write.
LEMMA OneGlyph ==
  ASSUME NEW g \in Glyph, g.cp # Uninit
  PROVE  <<g>> \in Seq(Glyph) /\ Len(<<g>>) = 1 /\ \A k \in 1 .. Len(<<g>>) : <<g>>[k].cp # Uninit
<1>1. Len(<<g>>) = 1 /\ <<g>>[1] = g /\ \A k \in 1 .. 1 : k = 1
  OBVIOUS
<1> QED BY <1>1

\* While output and cursor move in step, next_glyph needs no room.
LEMMA InStepWritable ==
  ASSUME BufferInv, haveOutput, InStep, NEW n \in Nat
  PROVE  Writable(mem, n, n)
BY InvFacts DEF BufferInv, InputWritten, OutputWritten, InStep, Writable

\* replace_glyph.
LEMMA ReplaceGlyphKeepsInv ==
  ASSUME BufferInv, NEW cp \in Codepoints, ReplaceGlyph(cp)
  PROVE  BufferInv'
<1> DEFINE gs == <<[mem.info[idx] EXCEPT !.cp = cp]>>
<1>1. haveOutput /\ idx < len /\ idx + 1 <= len /\ hasUnsafe' = hasUnsafe
  BY InvFacts DEF ReplaceGlyph
<1>2. gs \in Seq(Glyph) /\ Len(gs) = 1 /\ \A k \in 1 .. Len(gs) : gs[k].cp # Uninit
  BY <1>1, CurIsGlyph, OneGlyph
<1>3. hasUnsafe' \in BOOLEAN /\ successful \in BOOLEAN
  BY <1>1 DEF BufferInv, TypeOK
<1>4. CASE InStep
  <2>1. Emit(mem, 1, gs) /\ allocated' = allocated /\ successful' = successful
    BY <1>4 DEF ReplaceGlyph
  <2>2. outLen + Len(gs) <= allocated
    BY <1>1, <1>2, <1>4, InvFacts DEF InStep
  <2>3. Writable(mem, 1, Len(gs))
    BY <1>1, <1>2, <1>4, InStepWritable
  <2>4. allocated' \in AllocSizes /\ allocated <= allocated' /\ outLen + Len(gs) <= allocated'
    BY <2>1, <2>2, InvFacts
  <2>5. successful' \in BOOLEAN
    BY <1>3, <2>1
  <2> HIDE DEF gs
  <2> QED BY <1>1, <1>2, <1>3, <2>1, <2>3, <2>4, <2>5, EmitKeepsInv
<1>5. CASE ~InStep
  <2>1. PICK r \in Ensure(outLen + 1) : \/ Refused(r)
                                        \/ r.ok /\ Granted(r) /\ Emit(RoomMade(1, 1), 1, gs)
    BY <1>5 DEF ReplaceGlyph, WithRoom
  <2>2. CASE Refused(r)
    BY <2>2, RefusedKeepsInv, InvFacts
  <2>3. CASE r.ok /\ Granted(r) /\ Emit(RoomMade(1, 1), 1, gs)
    <3>1. Writable(RoomMade(1, 1), 1, Len(gs))
      BY <1>1, <1>2, RoomMadeWritable
    <3> HIDE DEF gs
    <3> QED BY <1>1, <1>2, <1>3, <2>3, <3>1, GrantedEmitKeepsInv
  <2> QED BY <2>1, <2>2, <2>3
<1> QED BY <1>4, <1>5

\* next_glyph and next_glyphs.
LEMMA NextGlyphsKeepsInv ==
  ASSUME BufferInv, NEW n \in Nat, NextGlyphs(n)
  PROVE  BufferInv'
<1> DEFINE gs == Segment(mem.info, idx, idx + n)
<1>1. n \in Nat /\ idx + n <= len /\ idx + n \in Nat /\ idx + n <= Capacity
  BY InvFacts DEF NextGlyphs
<1>2. gs \in Seq(Glyph) /\ Len(gs) = n /\ \A k \in 1 .. Len(gs) : gs[k].cp # Uninit
  <2>1. /\ gs \in Seq(Glyph) /\ Len(gs) = (idx + n) - idx
        /\ \A k \in 1 .. (idx + n) - idx : /\ idx + k - 1 \in idx .. (idx + n) - 1
                                           /\ gs[k] = mem.info[idx + k - 1]
    <3>1. mem.info \in Block /\ idx \in Nat /\ idx + n \in Nat /\ idx <= idx + n
      BY <1>1, InvFacts
    <3> QED BY <1>1, <3>1, SegmentIsSeq
  <2>2. (idx + n) - idx = n
    BY <1>1, InvFacts
  <2>3. \A c \in idx .. (idx + n) - 1 : mem.info[c].cp # Uninit
    BY <1>1, InvFacts DEF BufferInv, InputWritten
  <2> HIDE DEF gs
  <2> QED BY <2>1, <2>2, <2>3
<1>3. hasUnsafe' \in BOOLEAN /\ successful \in BOOLEAN /\ havePositions \in BOOLEAN
  BY DEF BufferInv, TypeOK, NextGlyphs
<1>4. CASE ~haveOutput
  <2>1. SameGlyphs(mem, mem')
    BY <1>4, SameGlyphsInMem, InvFacts DEF NextGlyphs
  <2>2. idx' = idx + n /\ UNCHANGED <<len, outLen, allocated, successful, haveOutput, havePositions, level>>
    BY <1>4 DEF NextGlyphs
  <2>3. idx' \in Nat /\ idx' <= allocated
    BY <1>1, <2>2, InvFacts
  <2> QED BY <1>3, <1>4, <2>1, <2>2, <2>3, InvFacts, SameGlyphsKeepInv
<1>5. CASE haveOutput /\ InStep
  <2>1. Emit(mem, n, gs) /\ allocated' = allocated /\ successful' = successful
    BY <1>5 DEF NextGlyphs
  <2>2. outLen + Len(gs) <= allocated
    <3> HIDE DEF gs
    <3> QED BY <1>1, <1>2, <1>5, InvFacts DEF InStep
  <2>3. Writable(mem, n, Len(gs))
    BY <1>1, <1>2, <1>5, InStepWritable
  <2>4. allocated' \in AllocSizes /\ allocated <= allocated' /\ outLen + Len(gs) <= allocated'
    BY <2>1, <2>2, InvFacts
  <2>5. successful' \in BOOLEAN
    BY <1>3, <2>1
  <2> HIDE DEF gs
  <2> QED BY <1>1, <1>2, <1>3, <1>5, <2>1, <2>3, <2>4, <2>5, EmitKeepsInv
<1>6. CASE haveOutput /\ ~InStep
  <2>1. PICK r \in Ensure(outLen + n) : \/ Refused(r)
                                        \/ r.ok /\ Granted(r) /\ Emit(RoomMade(n, n), n, gs)
    BY <1>6 DEF NextGlyphs, WithRoom
  <2>2. CASE Refused(r)
    BY <1>1, <2>2, RefusedKeepsInv, InvFacts
  <2>3. CASE r.ok /\ Granted(r) /\ Emit(RoomMade(n, n), n, gs)
    <3>1. Writable(RoomMade(n, n), n, Len(gs))
      BY <1>1, <1>2, <1>6, RoomMadeWritable
    <3> HIDE DEF gs
    <3> QED BY <1>1, <1>2, <1>3, <1>6, <2>3, <3>1, GrantedEmitKeepsInv
  <2> QED BY <2>1, <2>2, <2>3
<1> QED BY <1>4, <1>5, <1>6

\* replace_glyphs.
LEMMA ReplaceGlyphsKeepsInv ==
  ASSUME BufferInv, NEW numIn \in Nat, NEW cps \in Seq(Codepoints), ReplaceGlyphs(numIn, cps)
  PROVE  BufferInv'
<1> DEFINE m == MergedMem(RoomMade(numIn, Len(cps)), idx, idx + numIn)
           gs == [k \in 1 .. Len(cps) |-> [m.info[idx] EXCEPT !.cp = cps[k]]]
<1>1. haveOutput /\ idx < len /\ idx + numIn <= len /\ idx + numIn <= Capacity
      /\ idx + numIn \in Nat /\ Len(cps) \in Nat
  BY InvFacts DEF ReplaceGlyphs
<1>2. Writable(RoomMade(numIn, Len(cps)), numIn, Len(cps))
  BY <1>1, RoomMadeWritable
<1>3. Writable(m, numIn, Len(cps))
  <2>1. RoomMade(numIn, Len(cps)) \in Mem
    BY <1>2 DEF Writable
  <2>2. SameGlyphs(RoomMade(numIn, Len(cps)), m)
    BY <1>1, <2>1, MergedMemSame, InvFacts
  <2> HIDE DEF m
  <2> QED BY <1>2, <2>2, WritableSame
<1>4. gs \in Seq(Glyph) /\ Len(gs) = Len(cps) /\ \A k \in 1 .. Len(gs) : gs[k].cp # Uninit
  <2> HIDE DEF m
  <2>1. m.info[idx] \in Glyph
    <3>1. idx \in Cells
      BY <1>1, InvFacts
    <3> QED BY <1>3, <3>1 DEF Writable, Mem
  <2>2. \A k \in 1 .. Len(cps) : cps[k] \in Codepoints
    OBVIOUS
  <2>3. \A k \in 1 .. Len(cps) : /\ [m.info[idx] EXCEPT !.cp = cps[k]] \in Glyph
                                 /\ [m.info[idx] EXCEPT !.cp = cps[k]].cp # Uninit
    BY <2>1, <2>2, TextAssumption DEF Glyph
  <2>4. gs \in Seq(Glyph) /\ Len(gs) = Len(cps)
    BY <1>1, <2>3
  <2>5. \A k \in 1 .. Len(cps) : gs[k].cp # Uninit
    BY <2>3
  <2> QED BY <2>4, <2>5
<1>5. PICK r \in Ensure(outLen + Len(cps)) :
         \/ Refused(r)
         \/ r.ok /\ Granted(r) /\ Emit(m, numIn, gs)
                 /\ hasUnsafe' = (hasUnsafe \/ MergeFlags(mem, idx, idx + numIn))
  BY DEF ReplaceGlyphs, WithRoom
<1>6. CASE Refused(r)
  BY <1>1, <1>6, RefusedKeepsInv, InvFacts
<1>7. CASE r.ok /\ Granted(r) /\ Emit(m, numIn, gs)
           /\ hasUnsafe' = (hasUnsafe \/ MergeFlags(mem, idx, idx + numIn))
  <2>1. hasUnsafe' \in BOOLEAN
    BY <1>7
  <2> HIDE DEF m, gs
  <2>2. Writable(m, numIn, Len(gs)) /\ r \in Ensure(outLen + Len(gs))
    BY <1>3, <1>4
  <2> QED BY <1>1, <1>4, <1>7, <2>1, <2>2, GrantedEmitKeepsInv
<1> QED BY <1>5, <1>6, <1>7

\* copy_glyph and output_info.
LEMMA CopyGlyphKeepsInv ==
  ASSUME BufferInv, CopyGlyph
  PROVE  BufferInv'
<1> DEFINE gs == <<mem.info[idx]>>
<1>1. haveOutput /\ idx < len /\ idx + 0 <= len
  BY InvFacts DEF CopyGlyph
<1>2. gs \in Seq(Glyph) /\ Len(gs) = 1 /\ \A k \in 1 .. Len(gs) : gs[k].cp # Uninit
  BY <1>1, CurIsGlyph, OneGlyph
<1>3. hasUnsafe \in BOOLEAN
  BY DEF BufferInv, TypeOK
<1>4. PICK r \in Ensure(outLen + 1) :
         \/ Refused(r)
         \/ r.ok /\ Granted(r) /\ Emit(RoomMade(0, 1), 0, gs) /\ UNCHANGED <<hasUnsafe, level>>
  BY DEF CopyGlyph, WithRoom
<1>5. CASE Refused(r)
  BY <1>5, RefusedKeepsInv, InvFacts
<1>6. CASE r.ok /\ Granted(r) /\ Emit(RoomMade(0, 1), 0, gs) /\ UNCHANGED <<hasUnsafe, level>>
  <2>1. Writable(RoomMade(0, 1), 0, Len(gs))
    BY <1>1, <1>2, RoomMadeWritable
  <2>2. hasUnsafe' \in BOOLEAN
    BY <1>3, <1>6
  <2> HIDE DEF gs
  <2> QED BY <1>1, <1>2, <1>6, <2>1, <2>2, GrantedEmitKeepsInv
<1> QED BY <1>4, <1>5, <1>6

\* Room made and nothing written: the output may have moved, the text has not.
LEMMA RoomOnlyKeepsInv ==
  ASSUME BufferInv, haveOutput, NEW r \in Ensure(outLen + 1), r.ok, Granted(r),
         mem' = RoomMade(0, 1), UNCHANGED <<idx, len, outLen, haveOutput, havePositions, hasUnsafe, level>>
  PROVE  BufferInv'
<1>1. Writable(mem', 0, 1)
  BY RoomMadeWritable
<1>2. outLen + 1 \in Nat
  BY InvFacts
<1>3. allocated' \in AllocSizes /\ allocated <= allocated' /\ successful' \in BOOLEAN
  BY <1>2, EnsureGrants DEF Granted
<1>4. allocated' \in Nat
  BY <1>3, SizesAreNat
<1>5. TypeOK'
  BY <1>1, <1>3 DEF Writable, BufferInv, TypeOK
<1>6. WithinAllocation'
  BY <1>3, <1>4, InvFacts DEF BufferInv, WithinAllocation
<1>7. InPlaceOutputBehindCursor'
  <2>1. ~mem'.sep => outLen + 1 <= idx + 0
    BY <1>1 DEF Writable
  <2> QED BY <2>1, InvFacts DEF InPlaceOutputBehindCursor
<1>8. InputWritten'
  BY <1>1 DEF Writable, InputWritten
<1>9. OutputWritten'
  <2>1. \A c \in 0 .. outLen - 1 : OutBlock(mem')[c].cp # Uninit
    BY <1>1 DEF Writable
  <2> QED BY <2>1 DEF OutputWritten, OutBlock
<1> QED BY <1>5, <1>6, <1>7, <1>8, <1>9 DEF BufferInv

\* output_glyph.
LEMMA OutputGlyphKeepsInv ==
  ASSUME BufferInv, NEW cp \in Codepoints, OutputGlyph(cp)
  PROVE  BufferInv'
<1> DEFINE m == RoomMade(0, 1)
           g == IF idx < len THEN m.info[idx] ELSE OutBlock(m)[outLen - 1]
           gs == <<[g EXCEPT !.cp = cp]>>
<1>1. haveOutput /\ idx <= len /\ idx + 0 <= len
  BY InvFacts DEF OutputGlyph, BufferInv, WithinAllocation
<1>2. Writable(m, 0, 1)
  BY <1>1, RoomMadeWritable
<1>3. PICK r \in Ensure(outLen + 1) :
         \/ Refused(r)
         \/ /\ r.ok /\ Granted(r)
            /\ IF idx >= len /\ outLen = 0
               THEN mem' = m /\ UNCHANGED <<idx, len, outLen, haveOutput, havePositions>>
               ELSE Emit(m, 0, gs)
            /\ UNCHANGED <<hasUnsafe, level>>
  BY DEF OutputGlyph, WithRoom
<1>4. CASE Refused(r)
  BY <1>4, RefusedKeepsInv, InvFacts
<1>5. CASE r.ok /\ Granted(r) /\ idx >= len /\ outLen = 0
           /\ mem' = m /\ UNCHANGED <<idx, len, outLen, haveOutput, havePositions, hasUnsafe, level>>
  BY <1>1, <1>5, RoomOnlyKeepsInv
<1>6. CASE r.ok /\ Granted(r) /\ ~(idx >= len /\ outLen = 0)
           /\ Emit(m, 0, gs) /\ UNCHANGED <<hasUnsafe, level>>
  <2> HIDE DEF m
  <2>1. g \in Glyph
    <3>1. (idx < len => idx \in Cells) /\ (~(idx < len) => outLen - 1 \in Cells)
      BY <1>6, InvFacts
    <3>2. m \in Mem /\ m.info \in Block /\ OutBlock(m) \in Block
      BY <1>2, OutBlockIsBlock DEF Writable, Mem, Block
    <3> QED BY <3>1, <3>2 DEF Block
  <2>2. [g EXCEPT !.cp = cp] \in Glyph /\ [g EXCEPT !.cp = cp].cp # Uninit
    <3> HIDE DEF g
    <3> QED BY <2>1, TextAssumption DEF Glyph
  <2>3. gs \in Seq(Glyph) /\ Len(gs) = 1 /\ \A k \in 1 .. Len(gs) : gs[k].cp # Uninit
    <3> HIDE DEF g
    <3> QED BY <2>2, OneGlyph
  <2>4. hasUnsafe' \in BOOLEAN
    BY <1>6 DEF BufferInv, TypeOK
  <2> HIDE DEF gs
  <2>5. Writable(m, 0, Len(gs)) /\ r \in Ensure(outLen + Len(gs))
    BY <1>2, <2>3
  <2> QED BY <1>1, <1>6, <2>3, <2>4, <2>5, GrantedEmitKeepsInv
<1> QED BY <1>3, <1>4, <1>5, <1>6

\* move_to, forward.
LEMMA MoveForwardKeepsInv ==
  ASSUME BufferInv, haveOutput, NEW i \in Nat, outLen < i, i <= outLen + (len - idx), MoveForward(i)
  PROVE  BufferInv'
<1> DEFINE n == i - outLen
           gs == Segment(mem.info, idx, idx + i - outLen)
<1>1. n \in Nat /\ idx + n <= len /\ idx + n \in Nat /\ idx + n <= Capacity /\ idx + i - outLen = idx + n
  BY InvFacts
<1>2. gs \in Seq(Glyph) /\ Len(gs) = n /\ \A k \in 1 .. Len(gs) : gs[k].cp # Uninit
  <2>1. /\ gs \in Seq(Glyph) /\ Len(gs) = (idx + n) - idx
        /\ \A k \in 1 .. (idx + n) - idx : /\ idx + k - 1 \in idx .. (idx + n) - 1
                                           /\ gs[k] = mem.info[idx + k - 1]
    <3> DEFINE e == idx + n
    <3>1. mem.info \in Block /\ idx \in Nat /\ e \in Nat /\ idx <= e /\ e <= Capacity
      BY <1>1, InvFacts
    <3>2. gs = Segment(mem.info, idx, e)
      BY <1>1
    <3> HIDE DEF e, gs
    <3>3. /\ gs \in Seq(Glyph) /\ Len(gs) = e - idx
          /\ \A k \in 1 .. e - idx : /\ idx + k - 1 \in idx .. e - 1
                                     /\ gs[k] = mem.info[idx + k - 1]
      BY <3>1, <3>2, SegmentIsSeq
    <3> QED BY <3>3 DEF e
  <2>2. (idx + n) - idx = n
    BY <1>1, InvFacts
  <2>3. \A c \in idx .. (idx + n) - 1 : mem.info[c].cp # Uninit
    BY <1>1, InvFacts DEF BufferInv, InputWritten
  <2> HIDE DEF gs, n
  <2> QED BY <2>1, <2>2, <2>3
<1>3. hasUnsafe \in BOOLEAN
  BY DEF BufferInv, TypeOK
<1>4. PICK r \in Ensure(outLen + n) :
         \/ Refused(r)
         \/ r.ok /\ Granted(r) /\ Emit(RoomMade(n, n), n, gs) /\ UNCHANGED <<hasUnsafe, level>>
  BY DEF MoveForward, WithRoom
<1>5. CASE Refused(r)
  <2>1. outLen + n \in Nat
    BY <1>1, InvFacts
  <2> QED BY <1>5, <2>1, RefusedKeepsInv
<1>6. CASE r.ok /\ Granted(r) /\ Emit(RoomMade(n, n), n, gs) /\ UNCHANGED <<hasUnsafe, level>>
  <2> HIDE DEF gs, n
  <2>1. Writable(RoomMade(n, n), n, Len(gs)) /\ r \in Ensure(outLen + Len(gs))
    BY <1>1, <1>2, RoomMadeWritable
  <2>2. hasUnsafe' \in BOOLEAN
    BY <1>3, <1>6
  <2> QED BY <1>1, <1>2, <1>6, <2>1, <2>2, GrantedEmitKeepsInv
<1> QED BY <1>4, <1>5, <1>6

-----------------------------------------------------------------------------
(* Moving back, and the steps outside an edit.                              *)

\* The invariant after a step, part by part.
LEMMA InvFromParts ==
  ASSUME mem' \in Mem, idx' \in Nat, len' \in Nat, outLen' \in Nat,
         allocated' \in AllocSizes, successful' \in BOOLEAN,
         haveOutput' \in BOOLEAN, havePositions' \in BOOLEAN, hasUnsafe' \in BOOLEAN, level' \in Levels,
         len' <= allocated', outLen' <= allocated', idx' <= allocated',
         haveOutput' => idx' <= len',
         haveOutput' /\ ~mem'.sep => outLen' <= idx',
         \A c \in 0 .. len' - 1 : mem'.info[c].cp # Uninit,
         haveOutput' => \A c \in 0 .. outLen' - 1 : OutBlock(mem')[c].cp # Uninit
  PROVE  BufferInv'
<1>1. TypeOK'
  BY DEF TypeOK
<1>2. WithinAllocation'
  BY DEF WithinAllocation
<1>3. InPlaceOutputBehindCursor'
  BY DEF InPlaceOutputBehindCursor
<1>4. InputWritten'
  BY DEF InputWritten
<1>5. OutputWritten'
  <2>1. (OutBlock(mem))' = OutBlock(mem')
    BY DEF OutBlock
  <2> QED BY <2>1 DEF OutputWritten
<1> QED BY <1>1, <1>2, <1>3, <1>4, <1>5 DEF BufferInv

\* shift_forward leaves a block, with the unread glyphs count cells further on.
LEMMA ShiftedIsMem ==
  ASSUME BufferInv, haveOutput, NEW count \in Nat
  PROVE  /\ Shifted(count) \in Mem /\ Shifted(count).sep = mem.sep /\ Shifted(count).pos = mem.pos
         /\ \A c \in Cells : c < idx => Shifted(count).info[c] = mem.info[c]
         /\ \A c \in Cells : idx + count <= c /\ c < len + count =>
              Shifted(count).info[c] = mem.info[c - count]
<1> DEFINE up == Copy(mem.info, idx + count, mem.info, idx, len - idx)
           filled == Fill(up, len, idx + count - len, ZeroGlyph)
           b == IF idx + count > len THEN filled ELSE up
<1>1. idx \in Nat /\ len \in Nat /\ idx <= len /\ len - idx \in Nat /\ len <= Capacity
      /\ idx + count \in Nat /\ idx + (len - idx) = len /\ Capacity \in Nat
  BY InvFacts DEF BufferInv, WithinAllocation
<1>2. \A c \in Cells : c \in Nat
  BY <1>1 DEF Cells
<1>3. /\ up \in Block
      /\ \A c \in Cells : up[c] = IF idx + count <= c /\ c < idx + count + (len - idx)
                                  THEN mem.info[idx + (c - (idx + count))] ELSE mem.info[c]
  <2> DEFINE at == idx + count
             n == len - idx
             a == mem.info
             from == idx
  <2>1. a \in Block /\ at \in Int /\ from \in Nat /\ n \in Nat /\ from + n <= Capacity
    BY <1>1, InvFacts
  <2> HIDE DEF at, n, a, from
  <2>2. /\ Copy(a, at, a, from, n) \in Block
        /\ \A c \in Cells : Copy(a, at, a, from, n)[c] =
             IF at <= c /\ c < at + n THEN a[from + (c - at)] ELSE a[c]
    BY <2>1, CopyIsBlock
  <2> QED BY <2>2 DEF at, n, a, from
<1>4. /\ \A c \in Cells : c < idx => up[c] = mem.info[c]
      /\ \A c \in Cells : idx + count <= c /\ c < len + count => up[c] = mem.info[c - count]
  <2>1. \A c \in Cells : idx + (c - (idx + count)) = c - count
    BY <1>1, <1>2
  <2>2. idx + count + (len - idx) = len + count
    BY <1>1
  <2> HIDE DEF up
  <2> QED BY <1>1, <1>2, <1>3, <2>1, <2>2
<1> HIDE DEF up
<1>5. /\ filled \in Block
      /\ \A c \in Cells : filled[c] = IF len <= c /\ c < len + (idx + count - len)
                                      THEN ZeroGlyph ELSE up[c]
  <2>1. idx + count - len \in Int /\ len \in Int
    BY <1>1
  <2> QED BY <1>3, <2>1, FillIsBlock
<1> HIDE DEF filled
<1>6. \A c \in Cells : c < idx \/ idx + count <= c => filled[c] = up[c]
  BY <1>1, <1>2, <1>5
<1>7. /\ b \in Block
      /\ \A c \in Cells : c < idx => b[c] = mem.info[c]
      /\ \A c \in Cells : idx + count <= c /\ c < len + count => b[c] = mem.info[c - count]
  BY <1>3, <1>4, <1>5, <1>6
<1>8. Shifted(count) = [mem EXCEPT !.info = b]
  BY DEF Shifted, up, filled
<1> HIDE DEF b
<1> QED BY <1>7, <1>8, InvFacts DEF Mem, Block

\* The glyphs that go back from the output to the input are written there.
LEMMA RewoundIsMem ==
  ASSUME BufferInv, NEW m \in Mem, NEW at \in Nat, NEW count \in Nat, count <= outLen
  PROVE  /\ Rewound(m, at, count) \in Mem
         /\ Rewound(m, at, count).sep = m.sep /\ Rewound(m, at, count).pos = m.pos
         /\ \A c \in Cells : Rewound(m, at, count).info[c] =
              IF at <= c /\ c < at + count THEN OutBlock(m)[outLen - count + (c - at)]
              ELSE m.info[c]
<1> DEFINE b == Copy(m.info, at, OutBlock(m), outLen - count, count)
<1>1. m.info \in Block /\ OutBlock(m) \in Block
  BY OutBlockIsBlock DEF Mem, Block
<1>2. outLen - count \in Nat /\ outLen - count + count <= Capacity
  BY InvFacts
<1>3. b \in Block /\ \A c \in Cells : b[c] = IF at <= c /\ c < at + count
                        THEN OutBlock(m)[outLen - count + (c - at)] ELSE m.info[c]
  <2> DEFINE from == outLen - count
             src == OutBlock(m)
             dst == m.info
  <2>1. src \in Block /\ dst \in Block /\ at \in Int /\ from \in Nat /\ from + count <= Capacity
    BY <1>1, <1>2
  <2> HIDE DEF from, src, dst
  <2>2. /\ Copy(dst, at, src, from, count) \in Block
        /\ \A c \in Cells : Copy(dst, at, src, from, count)[c] =
             IF at <= c /\ c < at + count THEN src[from + (c - at)] ELSE dst[c]
    BY <2>1, CopyIsBlock
  <2> QED BY <2>2 DEF from, src, dst
<1>4. Rewound(m, at, count) = [m EXCEPT !.info = b]
  BY DEF Rewound
<1> HIDE DEF b
<1> QED BY <1>3, <1>4 DEF Mem, Block

\* move_to, backward.
LEMMA MoveBackKeepsInv ==
  ASSUME BufferInv, haveOutput, NEW i \in Nat, i < outLen, MoveBack(i)
  PROVE  BufferInv'
<1>0. PICK count \in Int : count = outLen - i
  BY InvFacts
<1>1. count \in Nat /\ count <= outLen /\ outLen - count = i /\ idx <= len /\ Capacity \in Nat
  BY <1>0, InvFacts DEF BufferInv, WithinAllocation
<1>2. \A c \in Cells : c \in Nat
  BY <1>1 DEF Cells
<1>3. \A c \in 0 .. outLen - 1 : OutBlock(mem)[c].cp # Uninit
  BY DEF BufferInv, OutputWritten
<1>4. \A c \in 0 .. len - 1 : mem.info[c].cp # Uninit
  BY DEF BufferInv, InputWritten
<1>5. successful \in BOOLEAN /\ haveOutput \in BOOLEAN /\ havePositions \in BOOLEAN /\ hasUnsafe \in BOOLEAN
  BY DEF BufferInv, TypeOK
<1>6. ~mem.sep => outLen <= idx
  BY DEF BufferInv, InPlaceOutputBehindCursor
<1>7. CASE idx < count
  <2>1. PICK r \in Ensure(len + count) :
           \/ Refused(r)
           \/ /\ r.ok /\ Granted(r)
              /\ mem' = Rewound(Shifted(count), idx, count)
              /\ len' = len + count /\ outLen' = i
              /\ UNCHANGED <<idx, haveOutput, havePositions, hasUnsafe, level>>
    BY <1>0, <1>7 DEF MoveBack
  <2>2. len + count \in Nat
    BY <1>1, InvFacts
  <2>3. CASE Refused(r)
    BY <2>2, <2>3, RefusedKeepsInv
  <2>4. CASE /\ r.ok /\ Granted(r)
             /\ mem' = Rewound(Shifted(count), idx, count)
             /\ len' = len + count /\ outLen' = i
             /\ UNCHANGED <<idx, haveOutput, havePositions, hasUnsafe, level>>
    <3>1. /\ allocated' \in AllocSizes /\ allocated <= allocated'
          /\ successful' \in BOOLEAN /\ len + count <= allocated'
      BY <2>2, <2>4, EnsureGrants DEF Granted
    <3>2. mem.sep
      BY <1>1, <1>6, <1>7, InvFacts
    <3> DEFINE m == Shifted(count)
    <3>3. /\ m \in Mem /\ m.sep = mem.sep /\ m.pos = mem.pos
          /\ \A c \in Cells : c < idx => m.info[c] = mem.info[c]
          /\ \A c \in Cells : idx + count <= c /\ c < len + count => m.info[c] = mem.info[c - count]
      BY <1>1, ShiftedIsMem
    <3> HIDE DEF m
    <3>4. /\ mem' \in Mem /\ mem'.sep = m.sep /\ mem'.pos = m.pos
          /\ \A c \in Cells : mem'.info[c] = IF idx <= c /\ c < idx + count
                                 THEN OutBlock(m)[outLen - count + (c - idx)] ELSE m.info[c]
      <4>1. mem' = Rewound(m, idx, count)
        BY <2>4 DEF m
      <4>2. m \in Mem /\ idx \in Nat /\ count \in Nat /\ count <= outLen
        BY <1>1, <3>3, InvFacts
      <4>3. /\ Rewound(m, idx, count) \in Mem
            /\ Rewound(m, idx, count).sep = m.sep /\ Rewound(m, idx, count).pos = m.pos
            /\ \A c \in Cells : Rewound(m, idx, count).info[c] =
                 IF idx <= c /\ c < idx + count THEN OutBlock(m)[outLen - count + (c - idx)]
                 ELSE m.info[c]
        BY <4>2, RewoundIsMem
      <4> QED BY <4>1, <4>3
    <3>5. OutBlock(m) = OutBlock(mem) /\ OutBlock(mem') = OutBlock(mem)
      BY <3>2, <3>3, <3>4 DEF OutBlock
    <3>6. allocated' \in Nat /\ allocated' <= Capacity
      BY <3>1, SizesAreNat
    <3>7. \A c \in 0 .. len + count - 1 : mem'.info[c].cp # Uninit
      <4> TAKE c \in 0 .. len + count - 1
      <4>1. c \in Cells /\ c \in Nat
        BY <1>1, <3>1, <3>6, InvFacts DEF Cells
      <4>2. CASE c < idx
        <5>1. c \in 0 .. len - 1 /\ ~(idx <= c)
          BY <1>1, <4>1, <4>2, InvFacts
        <5> QED BY <1>4, <3>3, <3>4, <4>1, <4>2, <5>1
      <4>3. CASE idx <= c /\ c < idx + count
        <5>1. outLen - count + (c - idx) \in 0 .. outLen - 1
          BY <1>1, <4>1, <4>3, InvFacts
        <5>2. mem'.info[c] = OutBlock(mem)[outLen - count + (c - idx)]
          BY <3>4, <3>5, <4>1, <4>3
        <5> QED BY <1>3, <5>1, <5>2
      <4>4. CASE idx + count <= c
        <5>1. c - count \in 0 .. len - 1 /\ c < len + count /\ ~(c < idx + count)
          BY <1>1, <4>1, <4>4, InvFacts
        <5>2. mem'.info[c] = mem.info[c - count]
          BY <3>3, <3>4, <4>1, <4>4, <5>1
        <5> QED BY <1>4, <5>1, <5>2
      <4> QED BY <1>1, <4>1, <4>2, <4>3, <4>4, InvFacts
    <3>8. \A c \in 0 .. i - 1 : OutBlock(mem')[c].cp # Uninit
      BY <1>3, <3>5, InvFacts
    <3>9. len' \in Nat /\ outLen' \in Nat /\ idx' \in Nat /\ len' <= allocated'
          /\ outLen' <= allocated' /\ idx' <= allocated' /\ idx' <= len'
      BY <1>1, <2>2, <2>4, <3>1, <3>6, InvFacts
    <3>10. mem'.sep
      BY <3>2, <3>3, <3>4
    <3>11. haveOutput' \in BOOLEAN /\ havePositions' \in BOOLEAN /\ hasUnsafe' \in BOOLEAN /\ level' \in Levels
      BY <1>5, <2>4, InvFacts
    <3>12. len' = len + count /\ outLen' = i
      BY <2>4
    <3>13. /\ \A c \in 0 .. len' - 1 : mem'.info[c].cp # Uninit
           /\ \A c \in 0 .. outLen' - 1 : OutBlock(mem')[c].cp # Uninit
      <4>1. 0 .. len' - 1 = 0 .. len + count - 1 /\ 0 .. outLen' - 1 = 0 .. i - 1
        BY <1>1, <3>9, <3>12, InvFacts
      <4> QED BY <3>7, <3>8, <4>1
    <3> QED BY <3>1, <3>4, <3>9, <3>10, <3>11, <3>13, InvFromParts
  <2> QED BY <2>1, <2>3, <2>4
<1>8. CASE ~(idx < count)
  <2>1. /\ mem' = Rewound(mem, idx - count, count)
        /\ idx' = idx - count /\ outLen' = i
        /\ UNCHANGED <<len, allocated, successful, haveOutput, havePositions, hasUnsafe, level>>
    BY <1>0, <1>8 DEF MoveBack
  <2>2. idx - count \in Nat /\ idx - count + count = idx
    BY <1>1, <1>8, InvFacts
  <2>3. /\ mem' \in Mem /\ mem'.sep = mem.sep /\ mem'.pos = mem.pos
        /\ \A c \in Cells : mem'.info[c] = IF idx - count <= c /\ c < idx - count + count
                               THEN OutBlock(mem)[outLen - count + (c - (idx - count))]
                               ELSE mem.info[c]
    <3> DEFINE at == idx - count
    <3>1. mem' = Rewound(mem, at, count)
      BY <2>1
    <3>2. mem \in Mem /\ at \in Nat /\ count \in Nat /\ count <= outLen
      BY <1>1, <2>2, InvFacts
    <3> HIDE DEF at
    <3>3. /\ Rewound(mem, at, count) \in Mem
          /\ Rewound(mem, at, count).sep = mem.sep /\ Rewound(mem, at, count).pos = mem.pos
          /\ \A c \in Cells : Rewound(mem, at, count).info[c] =
               IF at <= c /\ c < at + count THEN OutBlock(mem)[outLen - count + (c - at)]
               ELSE mem.info[c]
      BY <3>2, RewoundIsMem
    <3>4. /\ mem' \in Mem /\ mem'.sep = mem.sep /\ mem'.pos = mem.pos
          /\ \A c \in Cells : mem'.info[c] =
               IF at <= c /\ c < at + count THEN OutBlock(mem)[outLen - count + (c - at)]
               ELSE mem.info[c]
      BY <3>1, <3>3
    <3> QED BY <3>4 DEF at
  <2>4. ASSUME NEW c \in 0 .. len - 1
        PROVE  mem'.info[c].cp # Uninit
    <3>1. c \in Cells /\ c \in Nat
      BY InvFacts
    <3>2. CASE idx - count <= c /\ c < idx - count + count
      <4>1. outLen - count + (c - (idx - count)) \in 0 .. outLen - 1
        BY <1>1, <2>2, <3>1, <3>2, InvFacts
      <4> QED BY <1>3, <2>3, <3>1, <3>2, <4>1
    <3>3. CASE ~(idx - count <= c /\ c < idx - count + count)
      BY <1>4, <2>3, <3>1, <3>3
    <3> QED BY <3>2, <3>3
  <2>5. ASSUME NEW c \in 0 .. i - 1
        PROVE  OutBlock(mem')[c].cp # Uninit
    <3>1. c \in 0 .. outLen - 1 /\ c \in Cells /\ c \in Nat
      BY InvFacts
    <3>2. CASE mem.sep
      BY <1>3, <2>3, <3>1, <3>2 DEF OutBlock
    <3>3. CASE ~mem.sep
      <4>1. c < idx - count
        BY <1>1, <1>6, <2>2, <3>1, <3>3, InvFacts
      <4>2. ~(idx - count <= c)
        BY <2>2, <3>1, <4>1
      <4>3. mem'.info[c] = mem.info[c]
        BY <2>3, <3>1, <4>2
      <4> QED BY <1>3, <2>3, <3>1, <3>3, <4>3 DEF OutBlock
    <3> QED BY <3>2, <3>3
  <2>6. /\ len' \in Nat /\ outLen' \in Nat /\ idx' \in Nat /\ allocated' \in AllocSizes
        /\ len' <= allocated' /\ outLen' <= allocated' /\ idx' <= allocated' /\ idx' <= len'
    BY <1>1, <2>1, <2>2, InvFacts
  <2>7. ~mem'.sep => outLen' <= idx'
    BY <1>1, <1>6, <2>1, <2>3, InvFacts
  <2>8. successful' \in BOOLEAN /\ haveOutput' \in BOOLEAN /\ havePositions' \in BOOLEAN /\ hasUnsafe' \in BOOLEAN /\ level' \in Levels
    BY <1>5, <2>1, InvFacts
  <2>9. \A c \in 0 .. len' - 1 : mem'.info[c].cp # Uninit
    BY <2>1, <2>4
  <2>10. \A c \in 0 .. outLen' - 1 : OutBlock(mem')[c].cp # Uninit
    BY <2>1, <2>5
  <2> QED BY <2>3, <2>6, <2>7, <2>8, <2>9, <2>10, InvFromParts
<1> QED BY <1>7, <1>8

\* A step that changes nothing.
LEMMA UnchangedKeepsInv == ASSUME BufferInv, UNCHANGED vars PROVE BufferInv'
BY DEF BufferInv, TypeOK, WithinAllocation, InPlaceOutputBehindCursor, InputWritten,
       OutputWritten, OutBlock, vars

\* move_to.
LEMMA MoveToKeepsInv ==
  ASSUME BufferInv, NEW i \in Nat, MoveTo(i)
  PROVE  BufferInv'
<1>1. CASE ~haveOutput
  <2>1. idx' = i /\ i <= len
        /\ UNCHANGED <<mem, len, outLen, allocated, successful, haveOutput, havePositions, hasUnsafe, level>>
    BY <1>1 DEF MoveTo
  <2>2. SameGlyphs(mem, mem')
    BY <2>1, SameGlyphsInMem, InvFacts
  <2>3. idx' \in Nat /\ idx' <= allocated
    BY <2>1, InvFacts
  <2>4. successful' \in BOOLEAN /\ havePositions' \in BOOLEAN /\ hasUnsafe' \in BOOLEAN /\ level' \in Levels
    BY <2>1 DEF BufferInv, TypeOK
  <2> QED BY <1>1, <2>1, <2>2, <2>3, <2>4, SameGlyphsKeepInv
<1>2. CASE haveOutput /\ outLen < i
  <2>1. outLen < i /\ ~(outLen > i)
    BY <1>2, InvFacts
  <2>2. MoveForward(i)
    BY <1>2, <2>1 DEF MoveTo
  <2>3. i <= outLen + (len - idx)
    BY <1>2 DEF MoveTo
  <2> QED BY <1>2, <2>2, <2>3, MoveForwardKeepsInv
<1>3. CASE haveOutput /\ outLen > i
  <2>1. MoveBack(i)
    BY <1>3, InvFacts DEF MoveTo
  <2> QED BY <1>3, <2>1, MoveBackKeepsInv
<1>4. CASE haveOutput /\ outLen = i
  <2>1. UNCHANGED vars
    BY <1>4, InvFacts DEF MoveTo
  <2> QED BY <2>1, UnchangedKeepsInv
<1> QED BY <1>1, <1>2, <1>3, <1>4, InvFacts

\* Outside an edit only the input has to stay written and within the blocks.
LEMMA OutsideEditKeepsInv ==
  ASSUME BufferInv, NEW b \in Block, NEW q \in Block,
         mem' = [mem EXCEPT !.info = b, !.pos = q],
         UNCHANGED <<idx, outLen, haveOutput, havePositions, hasUnsafe, level>>, ~haveOutput,
         len' \in Nat, allocated' \in AllocSizes, allocated <= allocated', len' <= allocated',
         successful' \in BOOLEAN,
         \A c \in 0 .. len' - 1 : b[c].cp # Uninit
  PROVE  BufferInv'
<1>1. mem' \in Mem /\ mem'.info = b
  BY InvFacts DEF Mem, Block
<1>2. allocated' \in Nat
  BY SizesAreNat
<1>3. idx' \in Nat /\ outLen' \in Nat /\ idx' <= allocated' /\ outLen' <= allocated'
  BY <1>2, InvFacts
<1>4. haveOutput' \in BOOLEAN /\ havePositions' \in BOOLEAN /\ hasUnsafe' \in BOOLEAN /\ level' \in Levels
  BY DEF BufferInv, TypeOK
<1> QED BY <1>1, <1>3, <1>4, InvFromParts

\* clear.
LEMMA ClearKeepsInv == ASSUME BufferInv, Clear PROVE BufferInv'
<1>1. mem' \in Mem
  BY InvFacts DEF Clear, Mem
<1>2. idx' = 0 /\ len' = 0 /\ outLen' = 0 /\ allocated' = allocated
  BY DEF Clear
<1>3. successful' \in BOOLEAN /\ ~haveOutput' /\ haveOutput' \in BOOLEAN
      /\ havePositions' \in BOOLEAN /\ hasUnsafe' \in BOOLEAN /\ level' \in Levels
  BY InvFacts DEF Clear
<1>4. \A c \in 0 .. len' - 1 : mem'.info[c].cp # Uninit
  BY <1>2
<1> QED BY <1>1, <1>2, <1>3, <1>4, InvFacts, InvFromParts

\* hb_buffer_set_cluster_level.
LEMMA SetClusterLevelKeepsInv == ASSUME BufferInv, NEW l \in Levels, SetClusterLevel(l) PROVE BufferInv'
<1>1. mem' = mem /\ idx' = idx /\ level' = l /\ successful' = successful
      /\ havePositions' = havePositions /\ hasUnsafe' = hasUnsafe
      /\ ~haveOutput /\ UNCHANGED <<len, outLen, allocated, haveOutput>>
  BY DEF SetClusterLevel
<1>2. SameGlyphs(mem, mem')
  BY <1>1, InvFacts, SameGlyphsInMem
<1>3. successful \in BOOLEAN /\ havePositions \in BOOLEAN /\ hasUnsafe \in BOOLEAN
  BY DEF BufferInv, TypeOK
<1>4. successful' \in BOOLEAN /\ havePositions' \in BOOLEAN /\ hasUnsafe' \in BOOLEAN /\ level' \in Levels
  BY <1>1, <1>3
<1>5. idx' \in Nat /\ idx' <= allocated /\ level' \in Levels
  BY <1>1, InvFacts
<1> QED BY <1>1, <1>2, <1>4, <1>5, SameGlyphsKeepInv

\* hb_buffer_pre_allocate.
LEMMA PreAllocateKeepsInv == ASSUME BufferInv, NEW size \in Nat, PreAllocate(size) PROVE BufferInv'
<1>1. PICK r \in Ensure(size) : Granted(r)
  BY DEF PreAllocate
<1>2. allocated' \in AllocSizes /\ allocated <= allocated' /\ successful' \in BOOLEAN
  BY <1>1, EnsureGrants DEF Granted
<1>3. ~haveOutput /\ mem' = mem
      /\ UNCHANGED <<idx, len, outLen, haveOutput, havePositions, hasUnsafe, level>>
  BY DEF PreAllocate
<1>4. mem = [mem EXCEPT !.info = mem.info, !.pos = mem.pos]
  BY InvFacts DEF Mem
<1>5. allocated' \in Nat
  BY <1>2, SizesAreNat
<1>6. len' \in Nat /\ len' <= allocated'
  BY <1>2, <1>3, <1>5, InvFacts
<1>7. \A c \in 0 .. len' - 1 : mem.info[c].cp # Uninit
  BY <1>3 DEF BufferInv, InputWritten
<1> QED BY <1>2, <1>3, <1>4, <1>6, <1>7, InvFacts, OutsideEditKeepsInv

\* add and add_info.
LEMMA AddKeepsInv ==
  ASSUME BufferInv, NEW cp \in AddCps, NEW k \in ClusterValues, Add(cp, k)
  PROVE  BufferInv'
<1> DEFINE g == [cp |-> cp, cluster |-> k, unsafe |-> FALSE]
           b == [mem.info EXCEPT ![len] = g]
<1>1. PICK r \in Ensure(len + 1) :
         \/ Refused(r)
         \/ /\ r.ok /\ Granted(r) /\ mem' = [mem EXCEPT !.info[len] = g] /\ len' = len + 1
            /\ UNCHANGED <<idx, outLen, haveOutput, havePositions, hasUnsafe, level>>
  BY DEF Add
<1>2. len + 1 \in Nat
  BY InvFacts
<1>3. CASE Refused(r)
  BY <1>2, <1>3, RefusedKeepsInv
<1>4. CASE /\ r.ok /\ Granted(r) /\ mem' = [mem EXCEPT !.info[len] = g] /\ len' = len + 1
           /\ UNCHANGED <<idx, outLen, haveOutput, havePositions, hasUnsafe, level>>
  <2>1. /\ allocated' \in AllocSizes /\ allocated <= allocated'
        /\ successful' \in BOOLEAN /\ len + 1 <= allocated'
    BY <1>2, <1>4, EnsureGrants DEF Granted
  <2>2. allocated' \in Nat /\ allocated' <= Capacity
    BY <2>1, SizesAreNat
  <2>3. g \in Glyph /\ g.cp # Uninit
    BY TextAssumption DEF Glyph
  <2>4. b \in Block
    BY <2>3, InvFacts DEF Block
  <2>5. ASSUME NEW c \in 0 .. len
        PROVE  b[c].cp # Uninit
    <3>1. c \in Cells /\ (c # len => c \in 0 .. len - 1)
      BY <2>1, <2>2, InvFacts DEF Cells
    <3> QED BY <2>3, <3>1, InvFacts DEF BufferInv, InputWritten, Block
  <2>6. mem' = [mem EXCEPT !.info = b, !.pos = mem.pos]
    BY <1>4, InvFacts DEF Mem
  <2>7. len' \in Nat /\ len' <= allocated' /\ 0 .. len' - 1 = 0 .. len
    BY <1>2, <1>4, <2>1, InvFacts
  <2>8. ~haveOutput
    BY DEF Add
  <2> HIDE DEF b
  <2> QED BY <1>4, <2>1, <2>4, <2>5, <2>6, <2>7, <2>8, InvFacts, OutsideEditKeepsInv
<1> QED BY <1>1, <1>3, <1>4

\* hb_buffer_set_length leaves blocks in which the new part is written.
LEMMA WipedIsWritten ==
  ASSUME BufferInv, NEW n \in Nat
  PROVE  \E b, q \in Block : /\ Wiped(n) = [mem EXCEPT !.info = b, !.pos = q]
                             /\ n <= Capacity => \A c \in 0 .. n - 1 : b[c].cp # Uninit
<1>1. mem = [mem EXCEPT !.info = mem.info, !.pos = mem.pos]
  BY InvFacts DEF Mem
<1>2. \A c \in 0 .. len - 1 : mem.info[c].cp # Uninit
  BY DEF BufferInv, InputWritten
<1>3. CASE n <= len
  <2>1. Wiped(n) = mem
    BY <1>3 DEF Wiped
  <2>2. \A c \in 0 .. n - 1 : c \in 0 .. len - 1
    BY <1>3, InvFacts
  <2> QED BY <1>1, <1>2, <2>1, <2>2, InvFacts
<1>4. CASE ~(n <= len)
  <2> DEFINE b == Fill(mem.info, len, n - len, ZeroGlyph)
             f == Fill(mem.pos, len, n - len, ZeroGlyph)
             q == IF havePositions THEN f ELSE mem.pos
  <2>1. len \in Int /\ n - len \in Int /\ len + (n - len) = n
    BY InvFacts
  <2>2. /\ b \in Block
        /\ \A c \in Cells : b[c] = IF len <= c /\ c < len + (n - len) THEN ZeroGlyph ELSE mem.info[c]
    BY <2>1, InvFacts, FillIsBlock
  <2>3. f \in Block
    BY <2>1, InvFacts, FillIsBlock
  <2>4. q \in Block
    BY <2>3, InvFacts
  <2>5. Wiped(n) = [mem EXCEPT !.info = b, !.pos = q]
    BY <1>4 DEF Wiped
  <2> HIDE DEF b, q
  <2>6. ASSUME n <= Capacity, NEW c \in 0 .. n - 1
        PROVE  b[c].cp # Uninit
    <3>1. c \in Cells /\ (~(len <= c) => c \in 0 .. len - 1)
      BY <2>6, InvFacts DEF Cells
    <3>2. b[c] = IF len <= c THEN ZeroGlyph ELSE mem.info[c]
      BY <2>1, <2>2, <3>1
    <3> QED BY <1>2, <3>1, <3>2, ZeroGlyphIsGlyph
  <2> QED BY <2>2, <2>4, <2>5, <2>6
<1> QED BY <1>3, <1>4

\* hb_buffer_set_length.
LEMMA SetLengthKeepsInv == ASSUME BufferInv, NEW n \in Nat, SetLength(n) PROVE BufferInv'
<1>1. PICK r \in Ensure(n) :
         \/ Refused(r)
         \/ /\ r.ok /\ Granted(r) /\ mem' = Wiped(n) /\ len' = n
            /\ UNCHANGED <<idx, outLen, haveOutput, havePositions, hasUnsafe, level>>
  BY DEF SetLength
<1>2. CASE Refused(r)
  BY <1>2, RefusedKeepsInv
<1>3. CASE /\ r.ok /\ Granted(r) /\ mem' = Wiped(n) /\ len' = n
           /\ UNCHANGED <<idx, outLen, haveOutput, havePositions, hasUnsafe, level>>
  <2>1. /\ allocated' \in AllocSizes /\ allocated <= allocated'
        /\ successful' \in BOOLEAN /\ n <= allocated'
    BY <1>3, EnsureGrants DEF Granted
  <2>2. n <= Capacity
    BY <2>1, SizesAreNat, BufferAssumption
  <2>3. PICK b, q \in Block : /\ Wiped(n) = [mem EXCEPT !.info = b, !.pos = q]
                              /\ \A c \in 0 .. n - 1 : b[c].cp # Uninit
    BY <2>2, WipedIsWritten
  <2>4. ~haveOutput
    BY DEF SetLength
  <2> QED BY <1>3, <2>1, <2>3, <2>4, OutsideEditKeepsInv
<1> QED BY <1>1, <1>2, <1>3

\* hb_buffer_append.
LEMMA AppendFromKeepsInv == ASSUME BufferInv, NEW gs \in Sources, AppendFrom(gs) PROVE BufferInv'
<1> DEFINE n == len + Len(gs)
           b == [c \in Cells |->
                   IF len <= c /\ c < len + Len(gs) THEN gs[c - len + 1] ELSE mem.info[c]]
<1>1. Len(gs) \in Nat /\ n \in Nat
      /\ \A k \in 1 .. Len(gs) : gs[k] \in Glyph /\ gs[k].cp # Uninit
  <2> DEFINE T == [cp : Codepoints, cluster : ClusterValues, unsafe : BOOLEAN]
  <2>1. gs \in Seq(T)
    BY TextAssumption
  <2>3. \A g \in T : g \in Glyph /\ g.cp # Uninit
    BY TextAssumption DEF Glyph
  <2> HIDE DEF T
  <2>2. \A k \in 1 .. Len(gs) : gs[k] \in T
    BY <2>1
  <2> QED BY <2>1, <2>2, <2>3, InvFacts
<1>2. PICK r \in Ensure(n) :
         \/ Refused(r)
         \/ /\ r.ok /\ Granted(r)
            /\ mem' = IF r.successful THEN [mem EXCEPT !.info = b] ELSE Wiped(n)
            /\ len' = n
            /\ UNCHANGED <<idx, outLen, haveOutput, havePositions, hasUnsafe, level>>
  BY InvFacts DEF AppendFrom, Mem
<1>3. CASE Refused(r)
  <2> HIDE DEF n
  <2> QED BY <1>1, <1>3, RefusedKeepsInv
<1>4. CASE /\ r.ok /\ Granted(r)
           /\ mem' = IF r.successful THEN [mem EXCEPT !.info = b] ELSE Wiped(n)
           /\ len' = n
           /\ UNCHANGED <<idx, outLen, haveOutput, havePositions, hasUnsafe, level>>
  <2>1. /\ allocated' \in AllocSizes /\ allocated <= allocated'
        /\ successful' \in BOOLEAN /\ n <= allocated'
    <3> HIDE DEF n
    <3> QED BY <1>1, <1>4, EnsureGrants DEF Granted
  <2>2. n <= Capacity
    BY <1>1, <2>1, SizesAreNat, BufferAssumption
  <2>3. ~haveOutput
    BY DEF AppendFrom
  <2>4. \E d, q \in Block : /\ mem' = [mem EXCEPT !.info = d, !.pos = q]
                            /\ \A c \in 0 .. n - 1 : d[c].cp # Uninit
    <3>1. CASE r.successful
      <4>1. \A c \in Cells : len <= c /\ c < len + Len(gs) => c - len + 1 \in 1 .. Len(gs)
        BY <1>1, InvFacts DEF Cells
      <4>2. b \in Block
        BY <1>1, <4>1, InvFacts DEF Block
      <4>3. ASSUME NEW c \in 0 .. n - 1
            PROVE  b[c].cp # Uninit
        <5>1. c \in Cells /\ c < len + Len(gs) /\ (~(len <= c) => c \in 0 .. len - 1)
          BY <1>1, <2>2, InvFacts DEF Cells
        <5>2. CASE len <= c
          BY <1>1, <4>1, <5>1, <5>2
        <5>3. CASE ~(len <= c)
          BY <5>1, <5>3 DEF BufferInv, InputWritten
        <5> QED BY <5>2, <5>3
      <4>4. mem' = [mem EXCEPT !.info = b, !.pos = mem.pos]
        BY <1>4, <3>1, InvFacts DEF Mem
      <4> HIDE DEF b, n
      <4> QED BY <4>2, <4>3, <4>4, InvFacts
    <3>2. CASE ~r.successful
      <4> HIDE DEF n
      <4>1. mem' = Wiped(n)
        BY <1>4, <3>2
      <4> QED BY <1>1, <2>2, <4>1, WipedIsWritten
    <3> QED BY <3>1, <3>2
  <2>5. PICK d, q \in Block : /\ mem' = [mem EXCEPT !.info = d, !.pos = q]
                              /\ \A c \in 0 .. n - 1 : d[c].cp # Uninit
    BY <2>4
  <2>6. len' = n /\ UNCHANGED <<idx, outLen, haveOutput, havePositions, hasUnsafe, level>>
    BY <1>4
  <2> HIDE DEF n
  <2>7. len' \in Nat /\ len' <= allocated' /\ \A c \in 0 .. len' - 1 : d[c].cp # Uninit
    BY <1>1, <2>1, <2>5, <2>6
  <2> QED BY <2>1, <2>3, <2>5, <2>6, <2>7, OutsideEditKeepsInv
<1> QED BY <1>2, <1>3, <1>4

\* A step outside an edit that permutes the text.
LEMMA PermutedKeepsInv ==
  ASSUME BufferInv, NEW b \in Block, NEW q \in Block,
         \A c \in 0 .. len - 1 : b[c].cp # Uninit, ~haveOutput,
         mem' = [mem EXCEPT !.info = b, !.pos = IF havePositions THEN q ELSE @],
         UNCHANGED <<idx, len, outLen, allocated, successful, haveOutput, havePositions, hasUnsafe, level>>
  PROVE  BufferInv'
<1> DEFINE p == IF havePositions THEN q ELSE mem.pos
<1>1. p \in Block
  BY InvFacts
<1>2. mem' = [mem EXCEPT !.info = b, !.pos = p]
  OBVIOUS
<1>3. successful' \in BOOLEAN
  BY DEF BufferInv, TypeOK
<1>4. len' \in Nat /\ allocated' \in AllocSizes /\ allocated <= allocated' /\ len' <= allocated'
  BY InvFacts
<1> HIDE DEF p
<1> QED BY <1>1, <1>2, <1>3, <1>4, OutsideEditKeepsInv

\* reverse_range moves glyphs within the range.
LEMMA ReverseCellsIsBlock ==
  ASSUME NEW d \in Block, NEW start \in Nat, NEW end \in Nat, end <= Capacity
  PROVE  /\ ReverseCells(d, start, end) \in Block
         /\ \A c \in Cells : ReverseCells(d, start, end)[c] =
              IF start <= c /\ c < end THEN d[start + end - 1 - c] ELSE d[c]
<1>1. \A c \in Cells : start <= c /\ c < end => start + end - 1 - c \in Cells
  BY BufferAssumption DEF Cells
<1> QED BY <1>1 DEF ReverseCells, Block

\* reverse_range.
LEMMA ReverseRangeKeepsInv ==
  ASSUME BufferInv, NEW start \in Nat, NEW end \in Nat, ReverseRange(start, end)
  PROVE  BufferInv'
<1>1. start < end /\ end <= len /\ end <= Capacity /\ ~haveOutput
  BY InvFacts DEF ReverseRange
<1> DEFINE b == ReverseCells(mem.info, start, end)
           q == ReverseCells(mem.pos, start, end)
<1>2. q \in Block
  BY <1>1, InvFacts, ReverseCellsIsBlock
<1>3. b \in Block /\ \A c \in Cells : b[c] = IF start <= c /\ c < end
                                            THEN mem.info[start + end - 1 - c] ELSE mem.info[c]
  <2> DEFINE d == mem.info
  <2>1. d \in Block
    BY InvFacts
  <2> HIDE DEF d
  <2>2. /\ ReverseCells(d, start, end) \in Block
        /\ \A c \in Cells : ReverseCells(d, start, end)[c] =
              IF start <= c /\ c < end THEN d[start + end - 1 - c] ELSE d[c]
    BY <1>1, <2>1, ReverseCellsIsBlock
  <2> QED BY <2>2 DEF d
<1>4. /\ mem' = [mem EXCEPT !.info = b, !.pos = IF havePositions THEN q ELSE @]
      /\ UNCHANGED <<idx, len, outLen, allocated, successful, haveOutput, havePositions, hasUnsafe, level>>
  BY DEF ReverseRange
<1> HIDE DEF b, q
<1>5. ASSUME NEW c \in 0 .. len - 1
      PROVE  b[c].cp # Uninit
  <2>1. c \in Cells
    BY InvFacts
  <2>2. start <= c /\ c < end => start + end - 1 - c \in 0 .. len - 1
    BY <1>1, InvFacts
  <2> QED BY <1>3, <2>1, <2>2 DEF BufferInv, InputWritten
<1> QED BY <1>1, <1>2, <1>3, <1>4, <1>5, PermutedKeepsInv

\* reverse_clusters puts at every position of the text a glyph of the text.
LEMMA ClusterReversedIsBlock ==
  ASSUME BufferInv, NEW a \in Block, NEW d \in Block
  PROVE  /\ ClusterReversed(a, d) \in Block
         /\ \A c \in 0 .. len - 1 : \E x \in 0 .. len - 1 : ClusterReversed(a, d)[c] = d[x]
<1> DEFINE rev == ReverseCells(a, 0, len)
           runs == ReverseCells(d, 0, len)
           first(c) == RunStart(rev, rev[c].cluster, c, 0)
           last(c) == RunEnd(rev, c + 1, len) - 1
           b == [c \in Cells |-> IF c < len THEN runs[first(c) + last(c) - c] ELSE d[c]]
<1>1. ClusterReversed(a, d) = b
  BY DEF ClusterReversed
<1>2. \A x \in 0 .. len - 1 : x \in Cells /\ runs[x] = d[len - 1 - x] /\ len - 1 - x \in 0 .. len - 1
  <2> TAKE x \in 0 .. len - 1
  <2>1. x \in Cells /\ 0 <= x /\ x < len /\ 0 + len - 1 - x = len - 1 - x /\ len - 1 - x \in 0 .. len - 1
    BY InvFacts
  <2>2. runs = [c \in Cells |-> IF 0 <= c /\ c < len THEN d[0 + len - 1 - c] ELSE d[c]]
    BY DEF ReverseCells, Block
  <2> QED BY <2>1, <2>2
<1> HIDE DEF rev, runs
<1>3. ASSUME NEW c \in 0 .. len - 1
      PROVE  first(c) + last(c) - c \in 0 .. len - 1
  <2>1. c \in Nat /\ c + 1 \in Nat /\ c + 1 <= len /\ len \in Nat
    BY InvFacts
  <2>2. first(c) \in 0 .. c
    BY <2>1, RunStartBounds
  <2>3. RunEnd(rev, c + 1, len) \in c + 1 .. len
    BY <2>1, RunEndBounds
  <2> DEFINE e == RunEnd(rev, c + 1, len)
             f == first(c)
  <2>4. f \in 0 .. c /\ e \in c + 1 .. len
    BY <2>2, <2>3
  <2> HIDE DEF e, f
  <2>5. f + (e - 1) - c \in 0 .. len - 1
    BY <2>1, <2>4
  <2> QED BY <2>5 DEF e, f
<1> HIDE DEF first, last
<1>4. \A c \in 0 .. len - 1 : \E x \in 0 .. len - 1 : b[c] = d[x]
  <2> TAKE c \in 0 .. len - 1
  <2>1. c \in Cells /\ c < len
    BY InvFacts
  <2>2. first(c) + last(c) - c \in 0 .. len - 1
    BY <1>3
  <2>3. b[c] = runs[first(c) + last(c) - c]
    BY <2>1
  <2> QED BY <1>2, <2>2, <2>3
<1>5. \A c \in Cells : b[c] \in Glyph
  <2> TAKE c \in Cells
  <2>1. CASE c < len
    <3>1. c \in 0 .. len - 1
      BY <2>1, InvFacts DEF Cells
    <3>2. PICK x \in 0 .. len - 1 : b[c] = d[x]
      BY <1>4, <3>1
    <3>3. x \in Cells
      BY InvFacts
    <3> QED BY <3>2, <3>3 DEF Block
  <2>2. CASE ~(c < len)
    BY <2>2 DEF Block
  <2> QED BY <2>1, <2>2
<1>6. b \in Block
  BY <1>5 DEF Block
<1> HIDE DEF b
<1> QED BY <1>1, <1>4, <1>6

\* reverse_clusters.
LEMMA ReverseClustersKeepsInv == ASSUME BufferInv, ReverseClusters PROVE BufferInv'
<1> DEFINE b == ClusterReversed(mem.info, mem.info)
           q == ClusterReversed(mem.info, mem.pos)
<1>1. b \in Block /\ q \in Block /\ \A c \in 0 .. len - 1 : \E x \in 0 .. len - 1 : b[c] = mem.info[x]
  BY InvFacts, ClusterReversedIsBlock
<1>2. /\ mem' = [mem EXCEPT !.info = b, !.pos = IF havePositions THEN q ELSE @] /\ ~haveOutput
      /\ UNCHANGED <<idx, len, outLen, allocated, successful, haveOutput, havePositions, hasUnsafe, level>>
  BY DEF ReverseClusters
<1> HIDE DEF b, q
<1>3. \A c \in 0 .. len - 1 : b[c].cp # Uninit
  BY <1>1 DEF BufferInv, InputWritten
<1> QED BY <1>1, <1>2, <1>3, PermutedKeepsInv

-----------------------------------------------------------------------------
(* Entering and leaving an edit.                                            *)

\* A step that starts or gives up an edit leaves the input as it was.
LEMMA LeaveOutputKeepsInv ==
  ASSUME BufferInv, NEW q \in Block, mem' = [mem EXCEPT !.sep = FALSE, !.pos = q],
         UNCHANGED <<len, allocated, successful, hasUnsafe, level>>, outLen' = 0,
         idx' \in {0, idx}, haveOutput' => idx' = 0,
         haveOutput' \in BOOLEAN, havePositions' \in BOOLEAN
  PROVE  BufferInv'
<1>1. mem' \in Mem /\ mem'.info = mem.info
  BY InvFacts DEF Mem, Block
<1>2. successful' \in BOOLEAN /\ hasUnsafe' \in BOOLEAN /\ level' \in Levels
  BY DEF BufferInv, TypeOK
<1>3. /\ idx' \in Nat /\ len' \in Nat /\ outLen' \in Nat /\ allocated' \in AllocSizes
      /\ len' <= allocated' /\ outLen' <= allocated' /\ idx' <= allocated' /\ outLen' <= idx'
  BY InvFacts
<1>4. haveOutput' => idx' <= len'
  BY InvFacts
<1>5. \A c \in 0 .. len' - 1 : mem'.info[c].cp # Uninit
  BY <1>1 DEF BufferInv, InputWritten
<1>6. \A c \in 0 .. outLen' - 1 : OutBlock(mem')[c].cp # Uninit
  OBVIOUS
<1> QED BY <1>1, <1>2, <1>3, <1>4, <1>5, <1>6, InvFromParts

\* clear_output, remove_output, clear_positions and get_scratch_buffer.
LEMMA EnterLeaveKeepInv ==
  ASSUME BufferInv, BeginOutput \/ RemoveOutput \/ ClearPositions \/ GetScratchBuffer
  PROVE  BufferInv'
<1>1. [mem EXCEPT !.sep = FALSE] = [mem EXCEPT !.sep = FALSE, !.pos = mem.pos]
  BY InvFacts DEF Mem
<1>2. Fill(mem.pos, 0, len, ZeroGlyph) \in Block /\ JunkBlock \in Block
  BY InvFacts, FillIsBlock, ZeroGlyphIsGlyph DEF JunkBlock, Block
<1>3. CASE BeginOutput
  BY <1>1, <1>3, InvFacts, LeaveOutputKeepsInv DEF BeginOutput
<1>4. CASE RemoveOutput
  BY <1>1, <1>4, InvFacts, LeaveOutputKeepsInv DEF RemoveOutput
<1>5. CASE ClearPositions
  BY <1>2, <1>5, InvFacts, LeaveOutputKeepsInv DEF ClearPositions
<1>6. CASE GetScratchBuffer
  BY <1>2, <1>6, InvFacts, LeaveOutputKeepsInv DEF GetScratchBuffer
<1> QED BY <1>3, <1>4, <1>5, <1>6

\* swap_buffers: the output becomes the input.
LEMMA SwapBuffersKeepsInv == ASSUME BufferInv, SwapBuffers PROVE BufferInv'
<1>1. CASE ~successful
  BY <1>1, UnchangedKeepsInv DEF SwapBuffers
<1>2. CASE successful
  <2>1. haveOutput /\ haveOutput' = FALSE
    BY <1>2 DEF SwapBuffers
  <2>2. mem' = IF mem.sep THEN [mem EXCEPT !.info = mem.pos, !.pos = mem.info] ELSE mem
    BY <1>2 DEF SwapBuffers
  <2>3. len' = outLen /\ outLen' = len /\ idx' = 0 /\ allocated' = allocated
    BY <1>2 DEF SwapBuffers
  <2>4. successful' \in BOOLEAN /\ havePositions' \in BOOLEAN /\ hasUnsafe' \in BOOLEAN /\ level' \in Levels
    BY <1>2 DEF SwapBuffers, BufferInv, TypeOK
  <2>5. mem' \in Mem /\ mem'.info = OutBlock(mem)
    BY <2>2, InvFacts DEF Mem, OutBlock
  <2>6. \A c \in 0 .. len' - 1 : mem'.info[c].cp # Uninit
    BY <2>1, <2>3, <2>5 DEF BufferInv, OutputWritten
  <2>7. /\ idx' \in Nat /\ len' \in Nat /\ outLen' \in Nat /\ allocated' \in AllocSizes
        /\ len' <= allocated' /\ outLen' <= allocated' /\ idx' <= allocated'
    BY <2>3, InvFacts
  <2> QED BY <2>1, <2>4, <2>5, <2>6, <2>7, InvFromParts
<1> QED BY <1>1, <1>2

-----------------------------------------------------------------------------
(* The theorems.                                                            *)

\* A buffer as hb_buffer_create returns it satisfies the invariant.
LEMMA InitInv == Init => BufferInv
<1> SUFFICES ASSUME Init PROVE BufferInv
  OBVIOUS
<1>1. JunkBlock \in Block
  BY ZeroGlyphIsGlyph DEF JunkBlock, Block
<1>2. TypeOK
  BY <1>1, BufferAssumption DEF Init, TypeOK, Mem, Block, Levels
<1>3. WithinAllocation
  BY DEF Init, WithinAllocation
<1>4. InPlaceOutputBehindCursor /\ InputWritten /\ OutputWritten
  BY DEF Init, InPlaceOutputBehindCursor, InputWritten, OutputWritten
<1> QED BY <1>2, <1>3, <1>4 DEF BufferInv

\* Every method of the buffer keeps the invariant.
LEMMA StepInv == BufferInv /\ [Next]_vars => BufferInv'
<1> SUFFICES ASSUME BufferInv, [Next]_vars PROVE BufferInv'
  OBVIOUS
<1> USE InvFacts
<1>1. CASE Clear
  BY <1>1, ClearKeepsInv
<1>25. ASSUME NEW l \in Levels, SetClusterLevel(l) PROVE BufferInv'
  BY <1>25, SetClusterLevelKeepsInv
<1>2. ASSUME NEW n \in 0 .. Capacity, PreAllocate(n) PROVE BufferInv'
  BY <1>2, PreAllocateKeepsInv
<1>3. ASSUME NEW n \in 0 .. Capacity, SetLength(n) PROVE BufferInv'
  BY <1>3, SetLengthKeepsInv
<1>4. ASSUME NEW cp \in AddCps, NEW k \in ClusterValues, Add(cp, k) PROVE BufferInv'
  BY <1>4, AddKeepsInv
<1>5. ASSUME NEW gs \in Sources, AppendFrom(gs) PROVE BufferInv'
  BY <1>5, AppendFromKeepsInv
<1>6. ASSUME NEW s \in 0 .. len, NEW e \in 0 .. len, ReverseRange(s, e) PROVE BufferInv'
  BY <1>6, ReverseRangeKeepsInv
<1>7. CASE ReverseClusters
  BY <1>7, ReverseClustersKeepsInv
<1>8. CASE BeginOutput \/ RemoveOutput \/ ClearPositions \/ GetScratchBuffer
  BY <1>8, EnterLeaveKeepInv
<1>9. CASE SwapBuffers
  BY <1>9, SwapBuffersKeepsInv
<1>10. ASSUME NEW g \in GlyphIds, ReplaceGlyph(g) PROVE BufferInv'
  BY <1>10, TextAssumption, ReplaceGlyphKeepsInv
<1>11. ASSUME NEW g \in GlyphIds, OutputGlyph(g) PROVE BufferInv'
  BY <1>11, TextAssumption, OutputGlyphKeepsInv
<1>12. ASSUME NEW n \in 1 .. len, NEW cps \in Replacements, ReplaceGlyphs(n, cps) PROVE BufferInv'
  BY <1>12, TextAssumption, ReplaceGlyphsKeepsInv
<1>13. CASE CopyGlyph
  BY <1>13, CopyGlyphKeepsInv
<1>14. CASE SkipGlyph
  BY <1>14, SkipGlyphKeepsInv
<1>15. CASE DeleteGlyph
  BY <1>15, DeleteGlyphKeepsInv
<1>16. ASSUME NEW n \in 1 .. len, NextGlyphs(n) PROVE BufferInv'
  BY <1>16, NextGlyphsKeepsInv
<1>17. ASSUME NEW i \in 0 .. outLen + len, MoveTo(i) PROVE BufferInv'
  BY <1>17, MoveToKeepsInv
<1>18. ASSUME NEW s \in 0 .. len, NEW e \in 0 .. len, MergeClusters(s, e) PROVE BufferInv'
  BY <1>18, MergeClustersKeepsInv
<1>19. ASSUME NEW s \in 0 .. len, NEW e \in 0 .. len, UnsafeToBreak(s, e) PROVE BufferInv'
  BY <1>19, UnsafeToBreakKeepsInv
<1>20. ASSUME NEW s \in 0 .. outLen, NEW e \in 0 .. outLen, MergeOutClusters(s, e) PROVE BufferInv'
  BY <1>20, MergeOutClustersKeepsInv
<1>21. ASSUME NEW s \in 0 .. outLen, NEW e \in 0 .. len, UnsafeFromOutbuffer(s, e) PROVE BufferInv'
  BY <1>21, UnsafeFromOutbufferKeepsInv
<1>22. CASE UNCHANGED vars
  BY <1>22, UnchangedKeepsInv
<1>23. CASE Client
  BY <1>1, <1>2, <1>3, <1>4, <1>5, <1>6, <1>7, <1>23, <1>25 DEF Client
<1>24. CASE Stage
  BY <1>8, <1>9, <1>10, <1>11, <1>12, <1>13, <1>14, <1>15, <1>16, <1>17, <1>18, <1>19,
     <1>20, <1>21, <1>24 DEF Stage
<1> QED BY <1>22, <1>23, <1>24 DEF Next

\* The invariant is inductive: it holds of every buffer in every reachable state.
THEOREM BufferSafe == Spec => []BufferInv
<1> QED BY InitInv, StepInv, PTL DEF Spec

\* The variables keep their types, cell by cell (hb_buffer_t).
THEOREM TypeCorrect == Spec => []TypeOK
<1>1. BufferInv => TypeOK
  BY DEF BufferInv
<1> QED BY <1>1, BufferSafe, PTL

\* Cursor, input and output never leave the allocated blocks, whatever fails.
THEOREM MemorySafe == Spec => []WithinAllocation
<1>1. BufferInv => WithinAllocation
  BY DEF BufferInv
<1> QED BY <1>1, BufferSafe, PTL

\* In place, the output never overtakes the cursor (make_room_for).
THEOREM InPlaceSafe == Spec => []InPlaceOutputBehindCursor
<1>1. BufferInv => InPlaceOutputBehindCursor
  BY DEF BufferInv
<1> QED BY <1>1, BufferSafe, PTL

\* The text a client or a stage sees is made of cells of the input and, during
\* an edit, of cells of the output.
LEMMA VisibleCell ==
  ASSUME BufferInv, NEW p \in DOMAIN VisibleText
  PROVE  \/ \E c \in 0 .. len - 1 : VisibleText[p] = mem.info[c]
         \/ haveOutput /\ \E c \in 0 .. outLen - 1 : VisibleText[p] = OutBlock(mem)[c]
<1> DEFINE first == IF haveOutput THEN idx ELSE 0
           s == Segment(OutBlock(mem), 0, outLen)
           t == Segment(mem.info, first, len)
<1>1. first \in Nat /\ first <= len /\ len \in Nat /\ len <= Capacity /\ outLen \in Nat /\ outLen <= Capacity
  BY InvFacts DEF BufferInv, WithinAllocation
<1>2. /\ t \in Seq(Glyph) /\ Len(t) = len - first
      /\ \A k \in 1 .. len - first : first + k - 1 \in first .. len - 1 /\ t[k] = mem.info[first + k - 1]
  <2> HIDE DEF first
  <2> QED BY <1>1, InvFacts, SegmentIsSeq, ZenonT(60)
<1>3. /\ s \in Seq(Glyph) /\ Len(s) = outLen - 0
      /\ \A k \in 1 .. outLen - 0 : 0 + k - 1 \in 0 .. outLen - 1 /\ s[k] = OutBlock(mem)[0 + k - 1]
  <2> DEFINE b == OutBlock(mem)
             n == outLen
  <2>1. b \in Block /\ 0 \in Nat /\ n \in Nat /\ 0 <= n /\ n <= Capacity
    BY <1>1, InvFacts, OutBlockIsBlock
  <2> HIDE DEF b, n
  <2>2. /\ Segment(b, 0, n) \in Seq(Glyph) /\ Len(Segment(b, 0, n)) = n - 0
        /\ \A k \in 1 .. n - 0 : 0 + k - 1 \in 0 .. n - 1 /\ Segment(b, 0, n)[k] = b[0 + k - 1]
    BY <2>1, SegmentIsSeq
  <2> QED BY <2>2 DEF b, n
<1>4. \A k \in 1 .. Len(t) : \E c \in 0 .. len - 1 : t[k] = mem.info[c]
  <2> HIDE DEF t, first
  <2>1. \A c \in first .. len - 1 : c \in 0 .. len - 1
    BY <1>1
  <2> QED BY <1>2, <2>1
<1>5. \A k \in 1 .. Len(s) : \E c \in 0 .. outLen - 1 : s[k] = OutBlock(mem)[c]
  <2> HIDE DEF s
  <2>1. outLen - 0 = outLen
    BY <1>1
  <2> QED BY <1>3, <2>1
<1>6. Todo = t /\ Done = IF haveOutput THEN s ELSE <<>>
  BY DEF Todo, Done
<1> HIDE DEF s, t, first
<1> DEFINE d == IF haveOutput THEN s ELSE <<>>
<1>7. /\ d \in Seq(Glyph)
      /\ \A k \in 1 .. Len(d) : haveOutput /\ \E c \in 0 .. outLen - 1 : d[k] = OutBlock(mem)[c]
  BY <1>3, <1>5
<1>8. VisibleText = d \o t
  BY <1>6 DEF VisibleText
<1> HIDE DEF d
<1>9. Len(d) \in Nat /\ Len(t) \in Nat /\ p \in 1 .. Len(d) + Len(t)
  BY <1>2, <1>7, <1>8
<1>10. CASE p <= Len(d)
  <2>1. p \in 1 .. Len(d) /\ VisibleText[p] = d[p]
    BY <1>2, <1>7, <1>8, <1>9, <1>10
  <2> QED BY <1>7, <2>1
<1>11. CASE ~(p <= Len(d))
  <2>1. p - Len(d) \in 1 .. Len(t) /\ VisibleText[p] = t[p - Len(d)]
    BY <1>2, <1>7, <1>8, <1>9, <1>11
  <2> QED BY <1>4, <2>1
<1> QED BY <1>10, <1>11

\* The text a client or a stage sees holds only glyphs that were written.
LEMMA VisibleIsWritten == BufferInv => NothingUnwrittenVisible
<1> SUFFICES ASSUME BufferInv, NEW p \in DOMAIN VisibleText
             PROVE  VisibleText[p].cp # Uninit
  BY DEF NothingUnwrittenVisible
<1>1. \A c \in 0 .. len - 1 : mem.info[c].cp # Uninit
  BY DEF BufferInv, InputWritten
<1>2. haveOutput => \A c \in 0 .. outLen - 1 : OutBlock(mem)[c].cp # Uninit
  BY DEF BufferInv, OutputWritten
<1> QED BY <1>1, <1>2, VisibleCell

\* No glyph that was never written becomes visible, not even after a failed
\* allocation left an edit half way (shift_forward, make_room_for).
THEOREM NoUnwritten == Spec => []NothingUnwrittenVisible
BY VisibleIsWritten, BufferSafe, PTL
-----------------------------------------------------------------------------
(* Break flags: which steps may flag a glyph.                               *)

\* None of the first n cells of b is flagged.
NoneFlagged(b, n) == \A c \in 0 .. n - 1 : ~b[c].unsafe

\* No glyph of the input or of the output is flagged: not behind the cursor
\* either, where an edit that is abandoned or rewound goes back to.
Unflagged ==
  /\ NoneFlagged(mem.info, len)
  /\ haveOutput => NoneFlagged(OutBlock(mem), outLen)

\* b flags nothing that a does not.
Plainer(a, b) == b \in Block /\ \A c \in Cells : b[c].unsafe => a[c].unsafe

\* n flags nothing that m does not, and its output is in the same block.
NoNewFlags(m, n) ==
  n \in Mem /\ n.sep = m.sep /\ Plainer(m.info, n.info) /\ Plainer(m.pos, n.pos)

\* Writing clusters without a flag in the mask flags nothing.
LEMMA SetClustersPlainer ==
  ASSUME NEW a \in Block, NEW start, NEW end, NEW k \in Clusters
  PROVE  Plainer(a, SetClusters(a, start, end, k, FALSE))
<1> DEFINE b == SetClusters(a, start, end, k, FALSE)
<1>1. b \in Block
  BY SetClustersKeepsCps DEF SameCps
<1>2. b = [c \in Cells |-> IF start <= c /\ c < end THEN WithCluster(a[c], k, FALSE) ELSE a[c]]
  BY DEF SetClusters, Block
<1>3. \A g \in Glyph : WithCluster(g, k, FALSE).unsafe => g.unsafe
  <2> TAKE g \in Glyph
  <2>1. WithCluster(g, k, FALSE).unsafe = IF g.cluster # k THEN FALSE ELSE g.unsafe
    BY DEF WithCluster, Glyph
  <2> QED BY <2>1
<1>4. ASSUME NEW c \in Cells PROVE b[c].unsafe => a[c].unsafe
  <2>1. a[c] \in Glyph /\ (b[c] = WithCluster(a[c], k, FALSE) \/ b[c] = a[c])
    BY <1>2 DEF Block
  <2> QED BY <1>3, <2>1
<1> QED BY <1>1, <1>4 DEF Plainer

\* Flagging flags nothing where every glyph has the cluster that is spared.
LEMMA SetUnsafePlainer ==
  ASSUME NEW a \in Block, NEW start \in Nat, NEW end \in Nat, NEW k,
         \A i \in start .. end - 1 : a[i].cluster = k
  PROVE  Plainer(a, SetUnsafe(a, start, end, k))
<1> DEFINE b == SetUnsafe(a, start, end, k)
<1>1. b \in Block
  BY SetUnsafeKeepsCps DEF SameCps
<1>2. b = [c \in Cells |-> IF start <= c /\ c < end /\ a[c].cluster # k
                           THEN [a[c] EXCEPT !.unsafe = TRUE] ELSE a[c]]
  BY DEF SetUnsafe, Block
<1>3. ASSUME NEW c \in Cells PROVE b[c] = a[c]
  <2>1. start <= c /\ c < end => c \in start .. end - 1
    BY BufferAssumption DEF Cells
  <2> QED BY <1>2, <2>1
<1> QED BY <1>1, <1>3 DEF Plainer

\* Such flagging changes nothing at all.
LEMMA SetUnsafeNothing ==
  ASSUME NEW a \in Block, NEW start \in Nat, NEW end \in Nat, NEW k,
         \A i \in start .. end - 1 : a[i].cluster = k
  PROVE  SetUnsafe(a, start, end, k) = a
<1> DEFINE b == SetUnsafe(a, start, end, k)
<1>1. b = [c \in Cells |-> IF start <= c /\ c < end /\ a[c].cluster # k
                           THEN [a[c] EXCEPT !.unsafe = TRUE] ELSE a[c]]
  BY DEF SetUnsafe, Block
<1>2. ASSUME NEW c \in Cells PROVE b[c] = a[c]
  <2>1. start <= c /\ c < end => c \in start .. end - 1
    BY BufferAssumption DEF Cells
  <2> QED BY <1>1, <2>1
<1>3. a = [c \in Cells |-> a[c]] /\ b = [c \in Cells |-> b[c]]
  BY <1>1 DEF Block
<1> HIDE DEF b
<1> QED BY <1>2, <1>3 DEF b

\* Two changes that flag nothing are one.
LEMMA NoNewFlagsTrans ==
  ASSUME NEW l \in Mem, NEW m, NEW n, NoNewFlags(l, m), NoNewFlags(m, n)
  PROVE  NoNewFlags(l, n)
BY DEF NoNewFlags, Plainer

\* A change of the output block.
LEMMA PlainerOut ==
  ASSUME NEW m \in Mem, NEW b, Plainer(OutBlock(m), b)
  PROVE  NoNewFlags(m, WithOut(m, b))
BY DEF NoNewFlags, Plainer, Mem, Block, OutBlock, WithOut

\* A change of the info block.
LEMMA PlainerInfo ==
  ASSUME NEW m \in Mem, NEW b, Plainer(m.info, b)
  PROVE  NoNewFlags(m, [m EXCEPT !.info = b])
BY DEF NoNewFlags, Plainer, Mem, Block

\* Blocks that are left alone.
LEMMA SameUnflagged ==
  ASSUME NEW m \in Mem
  PROVE  NoNewFlags(m, m)
BY DEF NoNewFlags, Plainer, Mem, Block

\* unsafe_to_break_impl flags nothing in a range of one cluster.
LEMMA UnsafeMemPlainer ==
  ASSUME NEW m \in Mem, NEW start \in Nat, NEW end \in Nat, ~FlagsSome(m.info, start, end)
  PROVE  NoNewFlags(m, UnsafeMem(m, start, end))
<1>1. m.info \in Block
  BY DEF Mem, Block
<1>2. Plainer(m.info, SetUnsafe(m.info, start, end, LeastCluster(m.info, start, end)))
  BY <1>1, SetUnsafePlainer DEF FlagsSome
<1> QED BY <1>2, PlainerInfo DEF UnsafeMem

\* merge_clusters_impl flags nothing.
LEMMA MergedRangePlainer ==
  ASSUME NEW m \in Mem, NEW start \in Nat, NEW end \in Nat, start < end, end <= Capacity
  PROVE  NoNewFlags(m, MergedRange(m, start, end))
<1> DEFINE k == LeastCluster(m.info, start, end)
           e == RunEnd(m.info, end, len)
           s == IF idx < start THEN RunStart(m.info, m.info[start].cluster, start, idx) ELSE start
           o == IF idx = s THEN RunStart(OutBlock(m), m.info[s].cluster, outLen, 0) ELSE outLen
           n == WithOut(m, SetClusters(OutBlock(m), o, outLen, k, FALSE))
<1>1. k \in Clusters
  BY LeastClusterIsCluster DEF Mem, Block
<1>2. NoNewFlags(m, n)
  <2> HIDE DEF k, o
  <2>1. Plainer(OutBlock(m), SetClusters(OutBlock(m), o, outLen, k, FALSE))
    BY <1>1, SetClustersPlainer, OutBlockIsBlock
  <2> QED BY <2>1, PlainerOut
<1>3. NoNewFlags(n, [n EXCEPT !.info = SetClusters(@, s, e, k, FALSE)])
  <2> HIDE DEF k, e, s, n
  <2>1. n \in Mem /\ n.info \in Block
    BY <1>2 DEF NoNewFlags, Mem, Block
  <2>2. Plainer(n.info, SetClusters(n.info, s, e, k, FALSE))
    BY <1>1, <2>1, SetClustersPlainer
  <2> QED BY <2>1, <2>2, PlainerInfo
<1>4. NoNewFlags(m, [n EXCEPT !.info = SetClusters(@, s, e, k, FALSE)])
  <2> HIDE DEF n
  <2> QED BY <1>2, <1>3, NoNewFlagsTrans
<1> QED BY <1>4 DEF MergedRange

\* merge_clusters flags a glyph only when it raises the scratch flag.
LEMMA MergedMemPlainer ==
  ASSUME NEW m \in Mem, NEW start \in Nat, NEW end \in Nat, end <= Capacity,
         ~MergeFlags(m, start, end)
  PROVE  NoNewFlags(m, MergedMem(m, start, end))
<1>1. CASE end - start < 2
  BY <1>1, SameUnflagged DEF MergedMem
<1>2. CASE end - start >= 2
  <2>1. start < end
    BY <1>2
  <2>2. level = "characters" => ~FlagsSome(m.info, start, end)
    BY <1>2 DEF MergeFlags
  <2> QED BY <1>2, <2>1, <2>2, UnsafeMemPlainer, MergedRangePlainer DEF MergedMem
<1> QED BY <1>1, <1>2

\* merge_out_clusters flags nothing.
LEMMA MergedOutMemPlainer ==
  ASSUME NEW m \in Mem, NEW start \in Nat, NEW end \in Nat, start < end, end <= Capacity
  PROVE  NoNewFlags(m, MergedOutMem(m, start, end))
<1> DEFINE out == OutBlock(m)
           k == LeastCluster(out, start, end)
           s == RunStart(out, out[start].cluster, start, 0)
           e == RunEnd(out, end, outLen)
           f == IF e = outLen /\ idx < len /\ m.info[idx].cluster = out[e - 1].cluster
                THEN RunEnd(m.info, idx + 1, len) ELSE idx
           n == [m EXCEPT !.info = SetClusters(@, idx, f, k, FALSE)]
<1>1. k \in Clusters
  BY LeastClusterIsCluster, OutBlockIsBlock
<1>2. NoNewFlags(m, n)
  <2> HIDE DEF k, f
  <2>1. m.info \in Block
    BY DEF Mem, Block
  <2>2. Plainer(m.info, SetClusters(m.info, idx, f, k, FALSE))
    BY <1>1, <2>1, SetClustersPlainer
  <2> QED BY <2>2, PlainerInfo
<1>3. NoNewFlags(n, WithOut(n, SetClusters(OutBlock(n), s, e, k, FALSE)))
  <2> HIDE DEF k, s, e, n
  <2>1. n \in Mem
    BY <1>2 DEF NoNewFlags
  <2>2. Plainer(OutBlock(n), SetClusters(OutBlock(n), s, e, k, FALSE))
    BY <1>1, <2>1, SetClustersPlainer, OutBlockIsBlock
  <2> QED BY <2>1, <2>2, PlainerOut
<1>4. NoNewFlags(m, WithOut(n, SetClusters(OutBlock(n), s, e, k, FALSE)))
  <2> HIDE DEF n
  <2> QED BY <1>2, <1>3, NoNewFlagsTrans
<1> QED BY <1>4 DEF MergedOutMem

\* delete_glyph flags a glyph only when it raises the scratch flag: what it
\* passes to the output is the mask of a glyph that is not flagged.
LEMMA DeletedMemPlainer ==
  ASSUME BufferInv, Unflagged, idx < len, ~DeleteFlags
  PROVE  NoNewFlags(mem, DeletedMem)
<1> DEFINE g == mem.info[idx]
           out == OutBlock(mem)
           old == out[outLen - 1].cluster
           s == RunStart(out, old, outLen, 0)
<1>1. mem \in Mem /\ idx \in Nat /\ idx \in Cells /\ idx \in 0 .. len - 1 /\ idx + 2 \in Nat
      /\ (idx + 1 < len => idx + 2 <= Capacity)
  BY InvFacts DEF Cells
<1>2. g.cluster \in Clusters /\ g.unsafe = FALSE
  <2>1. g \in Glyph /\ ~g.unsafe
    BY <1>1 DEF Mem, Unflagged, NoneFlagged
  <2>2. g.unsafe \in BOOLEAN
    BY <2>1 DEF Glyph
  <2> HIDE DEF g
  <2> QED BY <2>1, <2>2 DEF Glyph, Clusters
<1>3. NoNewFlags(mem, WithOut(mem, SetClusters(out, s, outLen, g.cluster, g.unsafe)))
  <2> HIDE DEF g, s
  <2>1. Plainer(out, SetClusters(out, s, outLen, g.cluster, FALSE))
    BY <1>1, <1>2, SetClustersPlainer, OutBlockIsBlock
  <2> QED BY <1>1, <1>2, <2>1, PlainerOut
<1>4. ~SurvivesAhead /\ outLen = 0 /\ idx + 1 < len => NoNewFlags(mem, MergedMem(mem, idx, idx + 2))
  BY <1>1, MergedMemPlainer DEF DeleteFlags
<1>5. NoNewFlags(mem, mem)
  BY <1>1, SameUnflagged
<1> QED BY <1>3, <1>4, <1>5 DEF DeletedMem

\* A step that flags nothing keeps an unflagged text unflagged.
LEMMA PlainerKeeps ==
  ASSUME BufferInv, Unflagged, NoNewFlags(mem, mem'), UNCHANGED <<len, outLen, haveOutput>>
  PROVE  Unflagged'
<1>1. /\ mem'.sep = mem.sep /\ Plainer(mem.info, mem'.info) /\ Plainer(mem.pos, mem'.pos)
      /\ \A c \in 0 .. len - 1 : c \in Cells
      /\ \A c \in 0 .. outLen - 1 : c \in Cells
  BY InvFacts DEF NoNewFlags
<1>2. Plainer(OutBlock(mem), (OutBlock(mem))')
  BY <1>1 DEF OutBlock
<1>3. NoneFlagged(mem.info, len)'
  BY <1>1 DEF Unflagged, NoneFlagged, Plainer
<1>4. haveOutput => NoneFlagged((OutBlock(mem))', outLen)
  BY <1>1, <1>2 DEF Unflagged, NoneFlagged, Plainer
<1> QED BY <1>3, <1>4 DEF Unflagged, NoneFlagged

\* Sizes after a step that kept the invariant.
LEMMA NextSizes ==
  ASSUME BufferInv'
  PROVE  /\ mem' \in Mem /\ len' \in Nat /\ outLen' \in Nat /\ idx' \in Nat
         /\ \A c \in 0 .. len' - 1 : c \in Cells
         /\ \A c \in 0 .. outLen' - 1 : c \in Cells
<1>1. mem' \in Mem /\ len' \in Nat /\ outLen' \in Nat /\ idx' \in Nat /\ allocated' \in AllocSizes
  BY DEF BufferInv, TypeOK
<1>2. allocated' \in Nat /\ allocated' <= Capacity /\ Capacity \in Nat
  BY <1>1, SizesAreNat, BufferAssumption
<1>3. len' <= allocated' /\ outLen' <= allocated'
  BY DEF BufferInv, WithinAllocation
<1>4. PICK n \in Nat, o \in Nat, a \in Nat : n = len' /\ o = outLen' /\ a = allocated'
  BY <1>1, <1>2
<1>5. (\A c \in 0 .. n - 1 : c \in Cells) /\ (\A c \in 0 .. o - 1 : c \in Cells)
  <2>1. n <= a /\ o <= a /\ a <= Capacity /\ Capacity \in Nat
    BY <1>2, <1>3, <1>4
  <2> QED BY <2>1 DEF Cells
<1> QED BY <1>1, <1>4, <1>5

\* The blocks make_room_for hands out hold the same text.
LEMMA RoomMadeUnflagged ==
  ASSUME BufferInv, haveOutput, Unflagged, NEW numIn \in Nat, NEW numOut \in Nat
  PROVE  NoneFlagged(OutBlock(RoomMade(numIn, numOut)), outLen)
<1> USE InvFacts
<1>1. CASE ~mem.sep /\ outLen + numOut > idx + numIn
  <2> DEFINE b == Copy(mem.pos, 0, mem.info, 0, outLen)
             m == RoomMade(numIn, numOut)
  <2>1. \A c \in 0 .. outLen - 1 : b[c] = mem.info[c]
    <3>1. b = [c \in Cells |-> IF 0 <= c /\ c < 0 + outLen THEN mem.info[0 + (c - 0)]
                               ELSE mem.pos[c]]
      BY DEF Copy, Block
    <3>2. \A c \in 0 .. outLen - 1 : c \in Cells /\ 0 <= c /\ c < 0 + outLen /\ 0 + (c - 0) = c
      OBVIOUS
    <3> HIDE DEF b
    <3> QED BY <3>1, <3>2
  <2>2. m = [mem EXCEPT !.sep = TRUE, !.pos = b]
    BY <1>1 DEF RoomMade
  <2> HIDE DEF b
  <2>3. OutBlock(m) = b /\ OutBlock(mem) = mem.info
    BY <1>1, <2>2 DEF OutBlock, Mem
  <2> HIDE DEF m
  <2>4. NoneFlagged(OutBlock(m), outLen)
    BY <2>1, <2>3 DEF NoneFlagged, Unflagged
  <2> QED BY <2>4 DEF m
<1>2. CASE ~(~mem.sep /\ outLen + numOut > idx + numIn)
  <2>1. RoomMade(numIn, numOut) = mem
    BY <1>2 DEF RoomMade
  <2> QED BY <2>1 DEF Unflagged
<1> QED BY <1>1, <1>2

\* Writing glyphs that are not flagged at the end of the output.
LEMMA EmitUnflagged ==
  ASSUME BufferInv, BufferInv', haveOutput, NEW m \in Mem, NEW numIn, NEW gs \in Seq(Glyph),
         NoneFlagged(m.info, len), NoneFlagged(OutBlock(m), outLen),
         \A k \in 1 .. Len(gs) : ~gs[k].unsafe,
         Emit(m, numIn, gs)
  PROVE  Unflagged'
<1> DEFINE b == [c \in Cells |-> IF outLen <= c /\ c < outLen + Len(gs) THEN gs[c - outLen + 1]
                                 ELSE OutBlock(m)[c]]
<1>1. PICK n \in Nat : n = Len(gs)
  OBVIOUS
<1>2. mem' = WithOut(m, b) /\ outLen' = outLen + n /\ len' = len /\ haveOutput' = haveOutput
  BY <1>1 DEF Emit, Emitted
<1>3. /\ \A c \in Cells : outLen <= c /\ c < outLen + n => b[c] = gs[c - outLen + 1]
      /\ \A c \in Cells : ~(outLen <= c /\ c < outLen + n) => b[c] = OutBlock(m)[c]
  BY <1>1
<1> HIDE DEF b
<1>4. (OutBlock(mem))' = b /\ mem'.info = IF m.sep THEN m.info ELSE b
  BY <1>2 DEF WithOut, OutBlock, Mem
<1>5. outLen \in Nat /\ len \in Nat /\ \A c \in 0 .. len - 1 : c \in Cells
  BY InvFacts
<1>6. \A c \in 0 .. outLen + n - 1 : c \in Cells
  <2>1. PICK o \in Nat : o = outLen + n
    BY <1>5
  <2>2. 0 .. outLen + n - 1 = 0 .. o - 1
    BY <1>5, <2>1
  <2>3. o = outLen'
    BY <1>2, <2>1, Zenon
  <2>4. \A c \in 0 .. o - 1 : c \in Cells
    BY <2>3, NextSizes
  <2> QED BY <2>2, <2>4
<1>7. ASSUME NEW c \in Int, outLen <= c, c < outLen + n, c \in Cells PROVE ~b[c].unsafe
  <2>1. c - outLen + 1 \in 1 .. n
    BY <1>5, <1>7
  <2>2. ~gs[c - outLen + 1].unsafe
    BY <1>1, <2>1
  <2> QED BY <1>3, <1>7, <2>2
<1>8. NoneFlagged(b, outLen + n)
  <2>1. ASSUME NEW c \in 0 .. (outLen + n) - 1 PROVE ~b[c].unsafe
    <3>1. c \in Cells /\ c \in Int /\ 0 <= c /\ c < outLen + n
      BY <1>5, <1>6
    <3>2. CASE outLen <= c
      BY <1>7, <3>1, <3>2
    <3>3. CASE ~(outLen <= c)
      <4>1. c \in 0 .. outLen - 1 /\ b[c] = OutBlock(m)[c]
        BY <1>3, <1>5, <3>1, <3>3
      <4> QED BY <4>1 DEF NoneFlagged
    <3> QED BY <3>2, <3>3
  <2> QED BY <2>1, Zenon DEF NoneFlagged
<1>9. ASSUME ~m.sep PROVE NoneFlagged(b, len)
  <2> SUFFICES ASSUME NEW c \in 0 .. len - 1 PROVE ~b[c].unsafe
    BY DEF NoneFlagged
  <2>1. c \in Cells /\ c \in Int /\ OutBlock(m) = m.info
    BY <1>5, <1>9 DEF OutBlock
  <2>2. CASE outLen <= c /\ c < outLen + n
    BY <1>7, <2>1, <2>2
  <2>3. CASE ~(outLen <= c /\ c < outLen + n)
    BY <1>3, <2>1, <2>3 DEF NoneFlagged
  <2> QED BY <2>2, <2>3
<1>10. NoneFlagged(mem.info, len)'
  BY <1>2, <1>4, <1>9 DEF NoneFlagged
<1>11. NoneFlagged(OutBlock(mem), outLen)'
  BY <1>2, <1>4, <1>8 DEF NoneFlagged
<1> QED BY <1>10, <1>11 DEF Unflagged

\* A method that got no room leaves the text.
LEMMA RefusedUnflagged ==
  ASSUME Unflagged, NEW r, Refused(r)
  PROVE  Unflagged'
BY DEF Refused, Unflagged, NoneFlagged, OutBlock

\* A change of its codepoint flags no glyph.
LEMMA SameFlag ==
  ASSUME NEW g \in Glyph, NEW cp \in Codepoints
  PROVE  [g EXCEPT !.cp = cp] \in Glyph /\ [g EXCEPT !.cp = cp].unsafe = g.unsafe
BY DEF Glyph

\* A single glyph as a sequence.
LEMMA OnePlain ==
  ASSUME NEW g \in Glyph, ~g.unsafe
  PROVE  <<g>> \in Seq(Glyph) /\ \A k \in 1 .. Len(<<g>>) : ~<<g>>[k].unsafe
<1>1. Len(<<g>>) = 1 /\ <<g>>[1] = g /\ \A k \in 1 .. 1 : k = 1
  OBVIOUS
<1> QED BY <1>1

\* The glyph at the cursor is not flagged.
LEMMA CurPlain ==
  ASSUME BufferInv, Unflagged, idx < len
  PROVE  mem.info[idx] \in Glyph /\ ~mem.info[idx].unsafe
<1>1. idx \in 0 .. len - 1
  BY InvFacts
<1> QED BY <1>1, CurIsGlyph DEF Unflagged, NoneFlagged

\* A segment of the input is not flagged.
LEMMA SegmentPlain ==
  ASSUME BufferInv, Unflagged, NEW n \in Nat, idx + n <= len, NEW gs, gs = Segment(mem.info, idx, idx + n)
  PROVE  gs \in Seq(Glyph) /\ Len(gs) = n /\ \A k \in 1 .. Len(gs) : ~gs[k].unsafe
<1>1. PICK e \in Nat : e = idx + n /\ e - idx = n /\ idx <= e /\ e <= len /\ e <= Capacity
  BY InvFacts
<1>2. /\ gs \in Seq(Glyph) /\ Len(gs) = e - idx
      /\ \A k \in 1 .. e - idx : idx + k - 1 \in idx .. e - 1 /\ gs[k] = mem.info[idx + k - 1]
  <2>1. PICK d \in Block : d = mem.info
    BY InvFacts
  <2>2. gs = Segment(d, idx, e) /\ idx \in Nat /\ e <= Capacity
    BY <1>1, <2>1, InvFacts
  <2>3. /\ Segment(d, idx, e) \in Seq(Glyph) /\ Len(Segment(d, idx, e)) = e - idx
        /\ \A k \in 1 .. e - idx : idx + k - 1 \in idx .. e - 1 /\ Segment(d, idx, e)[k] = d[idx + k - 1]
    BY <1>1, <2>2, SegmentIsSeq
  <2> QED BY <2>1, <2>2, <2>3
<1>3. \A c \in idx .. e - 1 : ~mem.info[c].unsafe
  BY <1>1, InvFacts DEF Unflagged, NoneFlagged
<1> QED BY <1>1, <1>2, <1>3

\* Glyphs written after room was made for them.
LEMMA RoomEmitUnflagged ==
  ASSUME BufferInv, BufferInv', haveOutput, Unflagged, NEW numIn \in Nat, NEW numOut \in Nat,
         NEW gs \in Seq(Glyph), \A k \in 1 .. Len(gs) : ~gs[k].unsafe,
         Emit(RoomMade(numIn, numOut), numIn, gs)
  PROVE  Unflagged'
<1>1. PICK m \in Mem : m = RoomMade(numIn, numOut) /\ m.info = mem.info
  BY RoomMadeWritable DEF Writable
<1>2. NoneFlagged(m.info, len) /\ NoneFlagged(OutBlock(m), outLen)
  BY <1>1, RoomMadeUnflagged DEF Unflagged
<1> QED BY <1>1, <1>2, EmitUnflagged

\* replace_glyph.
LEMMA ReplaceGlyphUnflagged ==
  ASSUME BufferInv, BufferInv', Unflagged, NEW cp \in Codepoints, ReplaceGlyph(cp)
  PROVE  Unflagged'
<1>1. haveOutput /\ idx < len
  BY DEF ReplaceGlyph
<1>2. PICK gs \in Seq(Glyph) : gs = <<[mem.info[idx] EXCEPT !.cp = cp]>>
                               /\ \A k \in 1 .. Len(gs) : ~gs[k].unsafe
  <2>1. PICK g \in Glyph : g = [mem.info[idx] EXCEPT !.cp = cp] /\ ~g.unsafe
    BY <1>1, CurPlain, SameFlag
  <2> QED BY <2>1, OnePlain
<1>3. CASE InStep
  <2>1. Emit(mem, 1, gs) /\ mem \in Mem /\ NoneFlagged(mem.info, len) /\ NoneFlagged(OutBlock(mem), outLen)
    BY <1>1, <1>2, <1>3, InvFacts DEF ReplaceGlyph, Unflagged
  <2> QED BY <1>1, <1>2, <2>1, EmitUnflagged
<1>4. CASE ~InStep
  <2>1. PICK r : Refused(r) \/ Emit(RoomMade(1, 1), 1, gs)
    BY <1>2, <1>4 DEF ReplaceGlyph, WithRoom
  <2> QED BY <1>1, <1>2, <2>1, RefusedUnflagged, RoomEmitUnflagged
<1> QED BY <1>3, <1>4

\* next_glyph and next_glyphs.
LEMMA NextGlyphsUnflagged ==
  ASSUME BufferInv, BufferInv', Unflagged, NEW n \in Nat, NextGlyphs(n)
  PROVE  Unflagged'
<1>1. idx + n <= len
  BY InvFacts DEF NextGlyphs
<1>2. PICK gs \in Seq(Glyph) : gs = Segment(mem.info, idx, idx + n)
                               /\ \A k \in 1 .. Len(gs) : ~gs[k].unsafe
  BY <1>1, SegmentPlain
<1>3. CASE ~haveOutput
  BY <1>3 DEF NextGlyphs, Unflagged, NoneFlagged, OutBlock
<1>4. CASE haveOutput /\ InStep
  <2>1. Emit(mem, n, gs) /\ mem \in Mem /\ NoneFlagged(mem.info, len) /\ NoneFlagged(OutBlock(mem), outLen)
    BY <1>2, <1>4, InvFacts DEF NextGlyphs, Unflagged
  <2> QED BY <1>2, <1>4, <2>1, EmitUnflagged
<1>5. CASE haveOutput /\ ~InStep
  <2>1. PICK r : Refused(r) \/ Emit(RoomMade(n, n), n, gs)
    BY <1>2, <1>5 DEF NextGlyphs, WithRoom
  <2> QED BY <1>2, <1>5, <2>1, RefusedUnflagged, RoomEmitUnflagged
<1> QED BY <1>3, <1>4, <1>5

\* copy_glyph and output_info.
LEMMA CopyGlyphUnflagged ==
  ASSUME BufferInv, BufferInv', Unflagged, CopyGlyph
  PROVE  Unflagged'
<1>1. haveOutput /\ idx < len
  BY DEF CopyGlyph
<1>2. PICK gs \in Seq(Glyph) : gs = <<mem.info[idx]>> /\ \A k \in 1 .. Len(gs) : ~gs[k].unsafe
  BY <1>1, CurPlain, OnePlain
<1>3. PICK r : Refused(r) \/ Emit(RoomMade(0, 1), 0, gs)
  BY <1>2 DEF CopyGlyph, WithRoom
<1> QED BY <1>1, <1>2, <1>3, RefusedUnflagged, RoomEmitUnflagged

\* replace_glyphs.
LEMMA ReplaceGlyphsUnflagged ==
  ASSUME BufferInv, BufferInv', Unflagged, NEW numIn \in Nat, NEW cps \in Seq(Codepoints),
         ReplaceGlyphs(numIn, cps), ~hasUnsafe'
  PROVE  Unflagged'
<1>1. haveOutput /\ idx < len /\ idx + numIn <= len /\ idx + numIn <= Capacity
      /\ idx + numIn \in Nat /\ Len(cps) \in Nat /\ idx \in Nat /\ len \in Nat /\ outLen \in Nat
  BY InvFacts DEF ReplaceGlyphs
<1>2. PICK room \in Mem : room = RoomMade(numIn, Len(cps)) /\ room.info = mem.info
  BY <1>1, RoomMadeWritable DEF Writable
<1>3. NoneFlagged(room.info, len) /\ NoneFlagged(OutBlock(room), outLen)
  BY <1>1, <1>2, RoomMadeUnflagged DEF Unflagged
<1>4. PICK m : m = MergedMem(room, idx, idx + numIn)
  OBVIOUS
<1>5. PICK gs : gs = [k \in 1 .. Len(cps) |-> [m.info[idx] EXCEPT !.cp = cps[k]]]
  OBVIOUS
<1>6. PICK r :
         \/ Refused(r)
         \/ Emit(m, numIn, gs) /\ hasUnsafe' = (hasUnsafe \/ MergeFlags(mem, idx, idx + numIn))
  BY <1>2, <1>4, <1>5 DEF ReplaceGlyphs, WithRoom
<1>7. CASE Emit(m, numIn, gs) /\ hasUnsafe' = (hasUnsafe \/ MergeFlags(mem, idx, idx + numIn))
  <2>1. ~MergeFlags(room, idx, idx + numIn)
    BY <1>2, <1>7 DEF MergeFlags
  <2>2. NoNewFlags(room, m)
    BY <1>1, <1>4, <2>1, MergedMemPlainer
  <2>3. m \in Mem /\ NoneFlagged(m.info, len) /\ NoneFlagged(OutBlock(m), outLen)
    <3>1. m \in Mem /\ Plainer(room.info, m.info) /\ Plainer(OutBlock(room), OutBlock(m))
      BY <2>2 DEF NoNewFlags, OutBlock
    <3>2. (\A c \in 0 .. len - 1 : c \in Cells) /\ (\A c \in 0 .. outLen - 1 : c \in Cells)
      BY InvFacts
    <3> QED BY <1>3, <3>1, <3>2 DEF Plainer, NoneFlagged
  <2>4. m.info[idx] \in Glyph /\ ~m.info[idx].unsafe
    <3>1. idx \in 0 .. len - 1 /\ idx \in Cells
      BY <1>1, InvFacts
    <3> QED BY <2>3, <3>1 DEF Mem, NoneFlagged
  <2>5. \A k \in 1 .. Len(cps) : /\ [m.info[idx] EXCEPT !.cp = cps[k]] \in Glyph
                                 /\ ~[m.info[idx] EXCEPT !.cp = cps[k]].unsafe
    BY <2>4, SameFlag
  <2>6. gs \in Seq(Glyph) /\ Len(gs) = Len(cps)
    BY <1>1, <1>5, <2>5
  <2>7. \A k \in 1 .. Len(gs) : ~gs[k].unsafe
    BY <1>5, <2>5, <2>6
  <2> QED BY <1>1, <1>7, <2>3, <2>6, <2>7, EmitUnflagged
<1> QED BY <1>6, <1>7, RefusedUnflagged

\* output_glyph.
LEMMA OutputGlyphUnflagged ==
  ASSUME BufferInv, BufferInv', Unflagged, NEW cp \in Codepoints, OutputGlyph(cp)
  PROVE  Unflagged'
<1>1. haveOutput /\ idx \in Nat /\ len \in Nat /\ outLen \in Nat
  BY InvFacts DEF OutputGlyph
<1>2. PICK m \in Mem : m = RoomMade(0, 1) /\ m.info = mem.info
  BY <1>1, RoomMadeWritable DEF Writable
<1>3. NoneFlagged(m.info, len) /\ NoneFlagged(OutBlock(m), outLen)
  BY <1>1, <1>2, RoomMadeUnflagged DEF Unflagged
<1>4. PICK g : g = IF idx < len THEN m.info[idx] ELSE OutBlock(m)[outLen - 1]
  OBVIOUS
<1>5. PICK r :
         \/ Refused(r)
         \/ mem' = m /\ UNCHANGED <<idx, len, outLen, haveOutput, havePositions>>
         \/ ~(idx >= len /\ outLen = 0) /\ Emit(m, 0, <<[g EXCEPT !.cp = cp]>>)
  BY <1>2, <1>4 DEF OutputGlyph, WithRoom
<1>6. CASE mem' = m /\ UNCHANGED <<idx, len, outLen, haveOutput, havePositions>>
  BY <1>3, <1>6 DEF Unflagged, NoneFlagged, OutBlock
<1>7. CASE ~(idx >= len /\ outLen = 0) /\ Emit(m, 0, <<[g EXCEPT !.cp = cp]>>)
  <2>1. g \in Glyph /\ ~g.unsafe
    <3>1. CASE idx < len
      <4>1. idx \in 0 .. len - 1 /\ idx \in Cells
        BY <1>1, <3>1, InvFacts
      <4> QED BY <1>3, <1>4, <3>1, <4>1 DEF Mem, NoneFlagged
    <3>2. CASE ~(idx < len)
      <4>1. outLen - 1 \in 0 .. outLen - 1 /\ outLen - 1 \in Cells
        BY <1>1, <1>7, <3>2, InvFacts
      <4>2. OutBlock(m) \in Block
        BY OutBlockIsBlock
      <4> QED BY <1>3, <1>4, <3>2, <4>1, <4>2 DEF Block, NoneFlagged
    <3> QED BY <3>1, <3>2
  <2>2. PICK gs \in Seq(Glyph) : gs = <<[g EXCEPT !.cp = cp]>> /\ \A k \in 1 .. Len(gs) : ~gs[k].unsafe
    <3>1. PICK h \in Glyph : h = [g EXCEPT !.cp = cp] /\ ~h.unsafe
      BY <2>1, SameFlag
    <3> QED BY <3>1, OnePlain
  <2> QED BY <1>1, <1>3, <1>7, <2>2, EmitUnflagged
<1> QED BY <1>5, <1>6, <1>7, RefusedUnflagged


\* move_to, forward.
LEMMA MoveForwardUnflagged ==
  ASSUME BufferInv, BufferInv', haveOutput, Unflagged, NEW i \in Nat, outLen < i,
         i <= outLen + (len - idx), MoveForward(i)
  PROVE  Unflagged'
<1>1. PICK n \in Nat : n = i - outLen /\ idx + n <= len /\ idx + i - outLen = idx + n
  BY InvFacts
<1>2. PICK gs \in Seq(Glyph) : gs = Segment(mem.info, idx, idx + n)
                               /\ \A k \in 1 .. Len(gs) : ~gs[k].unsafe
  BY <1>1, SegmentPlain
<1>3. PICK r : Refused(r) \/ Emit(RoomMade(n, n), n, gs)
  BY <1>1, <1>2 DEF MoveForward, WithRoom
<1> QED BY <1>2, <1>3, RefusedUnflagged, RoomEmitUnflagged

\* The text after a step, part by part.
LEMMA UnflaggedFromParts ==
  ASSUME \A c \in 0 .. len' - 1 : ~mem'.info[c].unsafe,
         haveOutput' => \A c \in 0 .. outLen' - 1 : ~OutBlock(mem')[c].unsafe
  PROVE  Unflagged'
<1>1. (OutBlock(mem))' = OutBlock(mem')
  BY DEF OutBlock
<1> QED BY <1>1 DEF Unflagged, NoneFlagged

\* move_to, backward: what becomes unread again was output, and was not flagged.
LEMMA MoveBackUnflagged ==
  ASSUME BufferInv, BufferInv', haveOutput, Unflagged, NEW i \in Nat, i < outLen, MoveBack(i)
  PROVE  Unflagged'
<1>0. PICK count \in Int : count = outLen - i
  BY InvFacts
<1>1. count \in Nat /\ count <= outLen /\ outLen - count = i /\ idx <= len /\ Capacity \in Nat
  BY <1>0, InvFacts DEF BufferInv, WithinAllocation
<1>2. \A c \in Cells : c \in Nat
  BY <1>1 DEF Cells
<1>3. /\ \A c \in 0 .. outLen - 1 : ~OutBlock(mem)[c].unsafe
      /\ \A c \in 0 .. len - 1 : ~mem.info[c].unsafe
  BY DEF Unflagged, NoneFlagged
<1>4. ~mem.sep => outLen <= idx
  BY DEF BufferInv, InPlaceOutputBehindCursor
<1>5. CASE idx < count
  <2>1. PICK r :
           \/ Refused(r)
           \/ /\ mem' = Rewound(Shifted(count), idx, count)
              /\ len' = len + count /\ outLen' = i
    BY <1>0, <1>5 DEF MoveBack
  <2>2. CASE Refused(r)
    BY <2>2, RefusedUnflagged
  <2>3. CASE /\ mem' = Rewound(Shifted(count), idx, count)
             /\ len' = len + count /\ outLen' = i
    <3>1. mem.sep
      BY <1>1, <1>4, <1>5, InvFacts
    <3>2. PICK m \in Mem :
             /\ m = Shifted(count) /\ m.sep = mem.sep /\ m.pos = mem.pos
             /\ \A c \in Cells : c < idx => m.info[c] = mem.info[c]
             /\ \A c \in Cells : idx + count <= c /\ c < len + count => m.info[c] = mem.info[c - count]
      BY <1>1, ShiftedIsMem
    <3>3. /\ mem'.sep = m.sep /\ mem'.pos = m.pos
          /\ \A c \in Cells : mem'.info[c] = IF idx <= c /\ c < idx + count
                                 THEN OutBlock(m)[outLen - count + (c - idx)] ELSE m.info[c]
      <4>1. mem' = Rewound(m, idx, count) /\ idx \in Nat
        BY <2>3, <3>2, InvFacts
      <4>2. /\ Rewound(m, idx, count).sep = m.sep /\ Rewound(m, idx, count).pos = m.pos
            /\ \A c \in Cells : Rewound(m, idx, count).info[c] =
                 IF idx <= c /\ c < idx + count THEN OutBlock(m)[outLen - count + (c - idx)]
                 ELSE m.info[c]
        BY <1>1, <4>1, RewoundIsMem
      <4> QED BY <4>1, <4>2
    <3>4. OutBlock(m) = OutBlock(mem) /\ OutBlock(mem') = OutBlock(mem)
      BY <3>1, <3>2, <3>3 DEF OutBlock
    <3>5. PICK n \in Nat : n = len + count
      BY <1>1, InvFacts
    <3>6. \A c \in 0 .. n - 1 : c \in Cells
      <4>1. n = len'
        BY <2>3, <3>5
      <4> QED BY <4>1, NextSizes
    <3>7. ASSUME NEW c \in 0 .. n - 1 PROVE ~mem'.info[c].unsafe
      <4>1. c \in Cells /\ c \in Nat
        BY <1>2, <3>6
      <4>2. CASE c < idx
        <5>1. c \in 0 .. len - 1 /\ ~(idx <= c)
          BY <1>1, <4>1, <4>2, InvFacts
        <5> QED BY <1>3, <3>2, <3>3, <4>1, <4>2, <5>1
      <4>3. CASE idx <= c /\ c < idx + count
        <5>1. outLen - count + (c - idx) \in 0 .. outLen - 1
          BY <1>1, <4>1, <4>3, InvFacts
        <5>2. mem'.info[c] = OutBlock(mem)[outLen - count + (c - idx)]
          BY <3>3, <3>4, <4>1, <4>3
        <5> QED BY <1>3, <5>1, <5>2
      <4>4. CASE idx + count <= c
        <5>1. c - count \in 0 .. len - 1 /\ c < len + count /\ ~(c < idx + count)
          BY <1>1, <3>5, <4>1, <4>4, InvFacts
        <5>2. mem'.info[c] = mem.info[c - count]
          BY <3>2, <3>3, <4>1, <4>4, <5>1
        <5> QED BY <1>3, <5>1, <5>2
      <4> QED BY <1>1, <4>1, <4>2, <4>3, <4>4, InvFacts
    <3>8. \A c \in 0 .. i - 1 : ~OutBlock(mem')[c].unsafe
      BY <1>1, <1>3, <3>4, InvFacts
    <3>9. n = len' /\ i = outLen'
      BY <2>3, <3>5
    <3> QED BY <3>7, <3>8, <3>9, UnflaggedFromParts
  <2> QED BY <2>1, <2>2, <2>3
<1>6. CASE ~(idx < count)
  <2>1. /\ mem' = Rewound(mem, idx - count, count)
        /\ idx' = idx - count /\ outLen' = i /\ len' = len
    BY <1>0, <1>6 DEF MoveBack
  <2>2. PICK at \in Nat : at = idx - count /\ at + count = idx
    BY <1>1, <1>6, InvFacts
  <2>3. /\ mem'.sep = mem.sep /\ mem'.pos = mem.pos
        /\ \A c \in Cells : mem'.info[c] = IF at <= c /\ c < at + count
                               THEN OutBlock(mem)[outLen - count + (c - at)] ELSE mem.info[c]
    <3>1. mem' = Rewound(mem, at, count) /\ mem \in Mem
      BY <2>1, <2>2, InvFacts
    <3>2. /\ Rewound(mem, at, count).sep = mem.sep /\ Rewound(mem, at, count).pos = mem.pos
          /\ \A c \in Cells : Rewound(mem, at, count).info[c] =
               IF at <= c /\ c < at + count THEN OutBlock(mem)[outLen - count + (c - at)]
               ELSE mem.info[c]
      BY <1>1, <3>1, RewoundIsMem
    <3> QED BY <3>1, <3>2
  <2>4. ASSUME NEW c \in 0 .. len - 1 PROVE ~mem'.info[c].unsafe
    <3>1. c \in Cells /\ c \in Nat
      BY InvFacts
    <3>2. CASE at <= c /\ c < at + count
      <4>1. outLen - count + (c - at) \in 0 .. outLen - 1
        BY <1>1, <2>2, <3>1, <3>2, InvFacts
      <4> QED BY <1>3, <2>3, <3>1, <3>2, <4>1
    <3>3. CASE ~(at <= c /\ c < at + count)
      BY <1>3, <2>3, <3>1, <3>3
    <3> QED BY <3>2, <3>3
  <2>5. ASSUME NEW c \in 0 .. i - 1 PROVE ~OutBlock(mem')[c].unsafe
    <3>1. c \in 0 .. outLen - 1 /\ c \in Cells /\ c \in Nat
      BY <1>1, InvFacts
    <3>2. CASE mem.sep
      BY <1>3, <2>3, <3>1, <3>2 DEF OutBlock
    <3>3. CASE ~mem.sep
      <4>1. ~(at <= c)
        BY <1>1, <1>4, <2>2, <3>1, <3>3, InvFacts
      <4>2. mem'.info[c] = mem.info[c]
        BY <2>3, <3>1, <4>1
      <4> QED BY <1>3, <2>3, <3>1, <3>3, <4>2 DEF OutBlock
    <3> QED BY <3>2, <3>3
  <2>6. len' = len /\ i = outLen'
    BY <2>1
  <2> QED BY <2>4, <2>5, <2>6, UnflaggedFromParts
<1> QED BY <1>5, <1>6

\* Steps that leave the text alone.
LEMMA SameTextUnflagged ==
  ASSUME Unflagged, UNCHANGED <<mem, len, outLen, haveOutput>>
  PROVE  Unflagged'
BY DEF Unflagged, NoneFlagged, OutBlock

\* move_to.
LEMMA MoveToUnflagged ==
  ASSUME BufferInv, BufferInv', Unflagged, NEW i \in Nat, MoveTo(i)
  PROVE  Unflagged'
<1>1. CASE ~haveOutput
  BY <1>1, SameTextUnflagged DEF MoveTo
<1>2. CASE haveOutput /\ outLen < i
  <2>1. outLen < i /\ ~(outLen > i)
    BY <1>2, InvFacts
  <2>2. MoveForward(i)
    BY <1>2, <2>1 DEF MoveTo
  <2>3. i <= outLen + (len - idx)
    BY <1>2 DEF MoveTo
  <2> QED BY <1>2, <2>2, <2>3, MoveForwardUnflagged
<1>3. CASE haveOutput /\ outLen > i
  <2>1. MoveBack(i)
    BY <1>3, InvFacts DEF MoveTo
  <2> QED BY <1>3, <2>1, MoveBackUnflagged
<1>4. CASE haveOutput /\ outLen = i
  <2>1. UNCHANGED vars
    BY <1>4, InvFacts DEF MoveTo
  <2> QED BY <2>1, SameTextUnflagged DEF vars
<1> QED BY <1>1, <1>2, <1>3, <1>4, InvFacts

\* merge_clusters, delete_glyph and unsafe_to_break flag glyphs only together
\* with the scratch flag.
LEMMA MergeClustersUnflagged ==
  ASSUME BufferInv, Unflagged, NEW start \in Nat, NEW end \in Nat, MergeClusters(start, end), ~hasUnsafe'
  PROVE  Unflagged'
<1>1. ~MergeFlags(mem, start, end) /\ mem' = MergedMem(mem, start, end)
  BY DEF MergeClusters
<1>2. mem \in Mem /\ end <= Capacity
  BY InvFacts DEF MergeClusters
<1>3. NoNewFlags(mem, mem')
  BY <1>1, <1>2, MergedMemPlainer
<1> QED BY <1>3, PlainerKeeps DEF MergeClusters

\* delete_glyph.
LEMMA DeleteGlyphUnflagged ==
  ASSUME BufferInv, Unflagged, DeleteGlyph, ~hasUnsafe'
  PROVE  Unflagged'
<1>1. idx < len /\ ~DeleteFlags /\ mem' = DeletedMem
  BY DEF DeleteGlyph
<1>2. NoNewFlags(mem, mem')
  BY <1>1, DeletedMemPlainer
<1> QED BY <1>2, PlainerKeeps DEF DeleteGlyph

\* unsafe_to_break.
LEMMA UnsafeToBreakUnflagged ==
  ASSUME BufferInv, Unflagged, NEW start \in Nat, NEW end \in Nat, UnsafeToBreak(start, end), ~hasUnsafe'
  PROVE  Unflagged'
<1>1. mem \in Mem /\ ~FlagsSome(mem.info, start, end) /\ mem' = UnsafeMem(mem, start, end)
  BY InvFacts DEF UnsafeToBreak
<1>2. NoNewFlags(mem, mem')
  BY <1>1, UnsafeMemPlainer
<1> QED BY <1>2, PlainerKeeps DEF UnsafeToBreak

\* merge_out_clusters flags nothing.
LEMMA MergeOutClustersUnflagged ==
  ASSUME BufferInv, Unflagged, NEW start \in Nat, NEW end \in Nat, MergeOutClusters(start, end)
  PROVE  Unflagged'
<1>1. mem \in Mem /\ start < end /\ end <= Capacity
  BY InvFacts DEF MergeOutClusters
<1>2. NoNewFlags(mem, mem) /\ NoNewFlags(mem, MergedOutMem(mem, start, end))
  BY <1>1, SameUnflagged, MergedOutMemPlainer
<1>3. NoNewFlags(mem, mem')
  BY <1>2 DEF MergeOutClusters
<1> QED BY <1>3, PlainerKeeps DEF MergeOutClusters

\* unsafe_to_break_from_outbuffer: the second range is looked at after the
\* first was flagged, which changes no cluster.
LEMMA UnsafeFromOutbufferUnflagged ==
  ASSUME BufferInv, Unflagged, NEW start \in Nat, NEW end \in Nat,
         UnsafeFromOutbuffer(start, end), ~hasUnsafe'
  PROVE  Unflagged'
<1>1. PICK k : k = Least(ClustersOf(OutBlock(mem), start, outLen) \cup ClustersOf(mem.info, idx, end))
  OBVIOUS
<1>2. PICK b : b = SetUnsafe(OutBlock(mem), start, outLen, k)
  OBVIOUS
<1>3. PICK m : m = WithOut(mem, b)
  OBVIOUS
<1>4. PICK d : d = SetUnsafe(m.info, idx, end, k)
  OBVIOUS
<1>5. /\ mem' = [m EXCEPT !.info = d]
      /\ \A i \in start .. outLen - 1 : OutBlock(mem)[i].cluster = k
      /\ \A i \in idx .. end - 1 : mem.info[i].cluster = k
      /\ end <= len /\ UNCHANGED <<len, outLen, haveOutput>>
  BY <1>1, <1>2, <1>3, <1>4 DEF UnsafeFromOutbuffer
<1>6. \A i \in start .. outLen - 1 : OutBlock(mem)[i].cluster = k
  BY <1>5
<1>7. Plainer(OutBlock(mem), b) /\ b = OutBlock(mem)
  <2>1. OutBlock(mem) \in Block /\ outLen \in Nat
    BY InvFacts, OutBlockIsBlock
  <2>2. Plainer(OutBlock(mem), b)
    BY <1>2, <1>6, <2>1, SetUnsafePlainer
  <2>3. b = OutBlock(mem)
    BY <1>2, <1>6, <2>1, SetUnsafeNothing
  <2> QED BY <2>2, <2>3
<1>8. m = mem
  BY <1>3, <1>7, InvFacts DEF WithOut, OutBlock, Mem
<1>9. NoNewFlags(mem, mem')
  <2>1. Plainer(mem.info, d)
    BY <1>4, <1>5, <1>8, InvFacts, SetUnsafePlainer
  <2> QED BY <1>5, <1>8, <2>1, InvFacts, PlainerInfo
<1> QED BY <1>5, <1>9, PlainerKeeps

\* Outside an edit only the input counts.
LEMMA OutsideEditUnflagged ==
  ASSUME ~haveOutput', \A c \in 0 .. len' - 1 : ~mem'.info[c].unsafe
  PROVE  Unflagged'
BY UnflaggedFromParts

\* add and add_info.
LEMMA AddUnflagged ==
  ASSUME BufferInv, BufferInv', Unflagged, NEW cp \in AddCps, NEW k \in ClusterValues, Add(cp, k)
  PROVE  Unflagged'
<1> DEFINE h == [cp |-> cp, cluster |-> k, unsafe |-> FALSE]
<1>1. PICK g : g = h /\ ~g.unsafe
  <2>1. ~h.unsafe
    OBVIOUS
  <2> QED BY <2>1
<1>2. PICK r :
         \/ Refused(r)
         \/ mem' = [mem EXCEPT !.info[len] = g] /\ len' = len + 1 /\ UNCHANGED haveOutput
  BY <1>1 DEF Add
<1>3. CASE mem' = [mem EXCEPT !.info[len] = g] /\ len' = len + 1 /\ UNCHANGED haveOutput
  <2>1. PICK n \in Nat : n = len + 1 /\ n = len'
    BY <1>3, InvFacts
  <2>2. \A c \in 0 .. n - 1 : c \in Cells /\ (c # len => c \in 0 .. len - 1)
    <3>1. \A c \in 0 .. n - 1 : c \in Cells
      BY <2>1, NextSizes
    <3>2. \A c \in 0 .. n - 1 : c # len => c \in 0 .. len - 1
      BY <2>1, InvFacts
    <3> QED BY <3>1, <3>2
  <2>3. \A c \in Cells : mem'.info[c] = IF c = len THEN g ELSE mem.info[c]
    BY <1>3, InvFacts DEF Mem, Block
  <2>4. \A c \in 0 .. n - 1 : ~mem'.info[c].unsafe
    BY <1>1, <2>2, <2>3 DEF Unflagged, NoneFlagged
  <2>5. ~haveOutput'
    BY <1>3 DEF Add
  <2> QED BY <2>1, <2>4, <2>5, OutsideEditUnflagged
<1> QED BY <1>2, <1>3, RefusedUnflagged

\* hb_buffer_set_length wipes the new part.
LEMMA WipedUnflagged ==
  ASSUME BufferInv, Unflagged, NEW n \in Nat, NEW c \in 0 .. n - 1, c \in Cells
  PROVE  ~Wiped(n).info[c].unsafe
<1>1. CASE n <= len
  <2>1. Wiped(n) = mem /\ c \in 0 .. len - 1
    BY <1>1, InvFacts DEF Wiped
  <2> QED BY <2>1 DEF Unflagged, NoneFlagged
<1>2. CASE ~(n <= len)
  <2>1. PICK b : b = Fill(mem.info, len, n - len, ZeroGlyph)
    OBVIOUS
  <2>2. \A d \in Cells : b[d] = IF len <= d /\ d < len + (n - len) THEN ZeroGlyph ELSE mem.info[d]
    BY <2>1, InvFacts, FillIsBlock
  <2>3. Wiped(n).info = b
    BY <1>2, <2>1, InvFacts DEF Wiped, Mem
  <2>4. len <= c => len <= c /\ c < len + (n - len)
    BY InvFacts
  <2>5. ~(len <= c) => c \in 0 .. len - 1
    BY InvFacts
  <2>6. ~ZeroGlyph.unsafe
    BY DEF ZeroGlyph
  <2> QED BY <2>2, <2>3, <2>4, <2>5, <2>6 DEF Unflagged, NoneFlagged
<1> QED BY <1>1, <1>2

\* hb_buffer_set_length.
LEMMA SetLengthUnflagged ==
  ASSUME BufferInv, BufferInv', Unflagged, NEW n \in Nat, SetLength(n)
  PROVE  Unflagged'
<1>1. PICK r :
         \/ Refused(r)
         \/ mem' = Wiped(n) /\ len' = n /\ UNCHANGED haveOutput
  BY DEF SetLength
<1>2. CASE mem' = Wiped(n) /\ len' = n /\ UNCHANGED haveOutput
  <2>1. \A c \in 0 .. n - 1 : c \in Cells
    BY <1>2, NextSizes
  <2>2. \A c \in 0 .. n - 1 : ~mem'.info[c].unsafe
    BY <1>2, <2>1, WipedUnflagged
  <2>3. ~haveOutput'
    BY <1>2 DEF SetLength
  <2> QED BY <1>2, <2>2, <2>3, OutsideEditUnflagged
<1> QED BY <1>1, <1>2, RefusedUnflagged

\* What clients append is text, of which no glyph was ever flagged.
TextsAppended == \A gs \in Sources : \A k \in 1 .. Len(gs) : ~gs[k].unsafe

\* hb_buffer_append.
LEMMA AppendFromUnflagged ==
  ASSUME TextsAppended, BufferInv, BufferInv', Unflagged, NEW gs \in Sources, AppendFrom(gs)
  PROVE  Unflagged'
<1>1. PICK m \in Nat : m = Len(gs)
  <2>1. gs \in Seq([cp : Codepoints, cluster : ClusterValues, unsafe : BOOLEAN])
    BY TextAssumption
  <2> QED BY <2>1
<1>2. PICK n \in Nat : n = len + m
  BY InvFacts
<1>3. PICK b : b = [c \in Cells |-> IF len <= c /\ c < len + m THEN gs[c - len + 1] ELSE mem.info[c]]
  OBVIOUS
<1>4. PICK r :
         \/ Refused(r)
         \/ /\ mem' = IF r.successful THEN [mem EXCEPT !.info = b] ELSE Wiped(n)
            /\ len' = n /\ UNCHANGED haveOutput
  BY <1>1, <1>2, <1>3, InvFacts DEF AppendFrom, Mem
<1>5. CASE /\ mem' = IF r.successful THEN [mem EXCEPT !.info = b] ELSE Wiped(n)
           /\ len' = n /\ UNCHANGED haveOutput
  <2>1. \A c \in 0 .. n - 1 : c \in Cells
    BY <1>5, NextSizes
  <2>2. ASSUME r.successful, NEW c \in 0 .. n - 1 PROVE ~mem'.info[c].unsafe
    <3>1. mem'.info = b
      BY <1>5, <2>2, InvFacts DEF Mem
    <3>2. c \in Cells /\ (~(len <= c) => c \in 0 .. len - 1) /\ c < len + m
      BY <1>2, <2>1, InvFacts
    <3>3. CASE len <= c
      <4>1. c - len + 1 \in 1 .. m /\ b[c] = gs[c - len + 1]
        BY <1>2, <1>3, <3>2, <3>3, InvFacts
      <4>2. ~gs[c - len + 1].unsafe
        BY <1>1, <4>1 DEF TextsAppended
      <4> QED BY <3>1, <4>1, <4>2
    <3>4. CASE ~(len <= c)
      BY <1>3, <3>1, <3>2, <3>4 DEF Unflagged, NoneFlagged
    <3> QED BY <3>3, <3>4
  <2>3. ASSUME ~r.successful, NEW c \in 0 .. n - 1 PROVE ~mem'.info[c].unsafe
    BY <1>5, <2>1, <2>3, WipedUnflagged
  <2>4. \A c \in 0 .. n - 1 : ~mem'.info[c].unsafe
    BY <2>2, <2>3
  <2>5. ~haveOutput'
    BY <1>5 DEF AppendFrom
  <2> QED BY <1>5, <2>4, <2>5, OutsideEditUnflagged
<1> QED BY <1>4, <1>5, RefusedUnflagged

\* reverse_range.
LEMMA ReverseRangeUnflagged ==
  ASSUME BufferInv, Unflagged, NEW start \in Nat, NEW end \in Nat, ReverseRange(start, end)
  PROVE  Unflagged'
<1>1. start < end /\ end <= len /\ end <= Capacity /\ ~haveOutput' /\ len' = len
  BY InvFacts DEF ReverseRange
<1>2. PICK d \in Block : d = mem.info
  BY InvFacts
<1>3. PICK b : b = ReverseCells(d, start, end)
  OBVIOUS
<1>4. \A c \in Cells : b[c] = IF start <= c /\ c < end THEN d[start + end - 1 - c] ELSE d[c]
  BY <1>1, <1>3, ReverseCellsIsBlock
<1>5. mem'.info = b
  BY <1>2, <1>3, InvFacts DEF ReverseRange, Mem
<1>6. ASSUME NEW c \in 0 .. len - 1 PROVE ~b[c].unsafe
  <2>1. c \in Cells
    BY InvFacts
  <2>2. start <= c /\ c < end => start + end - 1 - c \in 0 .. len - 1
    BY <1>1, InvFacts
  <2> QED BY <1>2, <1>4, <2>1, <2>2 DEF Unflagged, NoneFlagged
<1> QED BY <1>1, <1>5, <1>6, OutsideEditUnflagged

\* reverse_clusters.
LEMMA ReverseClustersUnflagged == ASSUME BufferInv, Unflagged, ReverseClusters PROVE Unflagged'
<1>1. PICK b : b = ClusterReversed(mem.info, mem.info)
  OBVIOUS
<1>2. \A c \in 0 .. len - 1 : \E x \in 0 .. len - 1 : b[c] = mem.info[x]
  BY <1>1, InvFacts, ClusterReversedIsBlock
<1>3. mem'.info = b /\ ~haveOutput' /\ len' = len
  BY <1>1, InvFacts DEF ReverseClusters, Mem
<1>4. \A c \in 0 .. len - 1 : ~b[c].unsafe
  BY <1>2 DEF Unflagged, NoneFlagged
<1> QED BY <1>3, <1>4, OutsideEditUnflagged

\* clear_output, remove_output, clear_positions and get_scratch_buffer.
LEMMA EnterLeaveUnflagged ==
  ASSUME BufferInv, Unflagged, BeginOutput \/ RemoveOutput \/ ClearPositions \/ GetScratchBuffer
  PROVE  Unflagged'
<1>1. mem'.info = mem.info /\ len' = len /\ outLen' = 0
  BY InvFacts DEF BeginOutput, RemoveOutput, ClearPositions, GetScratchBuffer, Mem
<1>2. \A c \in 0 .. len' - 1 : ~mem'.info[c].unsafe
  BY <1>1 DEF Unflagged, NoneFlagged
<1>3. \A c \in 0 .. outLen' - 1 : ~OutBlock(mem')[c].unsafe
  BY <1>1
<1> QED BY <1>2, <1>3, UnflaggedFromParts

\* swap_buffers: the output, of which nothing was flagged, becomes the input.
LEMMA SwapBuffersUnflagged == ASSUME BufferInv, Unflagged, SwapBuffers PROVE Unflagged'
<1>1. CASE ~successful
  BY <1>1, SameTextUnflagged DEF SwapBuffers, vars
<1>2. CASE successful
  <2>1. haveOutput /\ ~haveOutput' /\ len' = outLen
    BY <1>2 DEF SwapBuffers
  <2>2. mem' = IF mem.sep THEN [mem EXCEPT !.info = mem.pos, !.pos = mem.info] ELSE mem
    BY <1>2 DEF SwapBuffers
  <2>3. mem'.info = OutBlock(mem)
    BY <2>2, InvFacts DEF Mem, OutBlock
  <2>4. \A c \in 0 .. len' - 1 : ~mem'.info[c].unsafe
    BY <2>1, <2>3 DEF Unflagged, NoneFlagged
  <2> QED BY <2>1, <2>4, OutsideEditUnflagged
<1> QED BY <1>1, <1>2

\* clear leaves an empty text.
LEMMA ClearUnflagged == ASSUME Clear PROVE Unflagged'
<1>1. len' = 0 /\ ~haveOutput'
  BY DEF Clear
<1> QED BY <1>1, OutsideEditUnflagged

\* The flag is up, or nothing that an edit may still make visible is flagged.
FlagInv == hasUnsafe \/ Unflagged

\* Every method of the buffer that flags a glyph raises the flag.
LEMMA StepUnflagged ==
  ASSUME TextsAppended, BufferInv, BufferInv', Unflagged, [Next]_vars, ~hasUnsafe'
  PROVE  Unflagged'
<1>0. /\ \A n \in 0 .. Capacity : n \in Nat
      /\ \A n \in 0 .. len : n \in Nat
      /\ \A n \in 1 .. len : n \in Nat
      /\ \A n \in 0 .. outLen : n \in Nat
      /\ \A n \in 0 .. outLen + len : n \in Nat
      /\ GlyphIds \subseteq Codepoints /\ Replacements \subseteq Seq(Codepoints)
  BY InvFacts, TextAssumption
<1>1. CASE Clear
  BY <1>1, ClearUnflagged
<1>2. ASSUME NEW n \in 0 .. Capacity, PreAllocate(n) PROVE Unflagged'
  BY <1>2, SameTextUnflagged DEF PreAllocate
<1>3. ASSUME NEW n \in 0 .. Capacity, SetLength(n) PROVE Unflagged'
  BY <1>0, <1>3, SetLengthUnflagged
<1>4. ASSUME NEW cp \in AddCps, NEW k \in ClusterValues, Add(cp, k) PROVE Unflagged'
  BY <1>4, AddUnflagged
<1>5. ASSUME NEW gs \in Sources, AppendFrom(gs) PROVE Unflagged'
  BY <1>5, AppendFromUnflagged
<1>6. ASSUME NEW s \in 0 .. len, NEW e \in 0 .. len, ReverseRange(s, e) PROVE Unflagged'
  BY <1>0, <1>6, ReverseRangeUnflagged
<1>7. CASE ReverseClusters
  BY <1>7, ReverseClustersUnflagged
<1>8. CASE BeginOutput \/ RemoveOutput \/ ClearPositions \/ GetScratchBuffer
  BY <1>8, EnterLeaveUnflagged
<1>9. CASE SwapBuffers
  BY <1>9, SwapBuffersUnflagged
<1>10. ASSUME NEW g \in GlyphIds, ReplaceGlyph(g) PROVE Unflagged'
  BY <1>0, <1>10, ReplaceGlyphUnflagged
<1>11. ASSUME NEW g \in GlyphIds, OutputGlyph(g) PROVE Unflagged'
  BY <1>0, <1>11, OutputGlyphUnflagged
<1>12. ASSUME NEW n \in 1 .. len, NEW cps \in Replacements, ReplaceGlyphs(n, cps) PROVE Unflagged'
  BY <1>0, <1>12, ReplaceGlyphsUnflagged
<1>13. CASE CopyGlyph
  BY <1>13, CopyGlyphUnflagged
<1>14. CASE SkipGlyph
  BY <1>14, SameTextUnflagged DEF SkipGlyph
<1>15. CASE DeleteGlyph
  BY <1>15, DeleteGlyphUnflagged
<1>16. ASSUME NEW n \in 1 .. len, NextGlyphs(n) PROVE Unflagged'
  BY <1>0, <1>16, NextGlyphsUnflagged
<1>17. ASSUME NEW i \in 0 .. outLen + len, MoveTo(i) PROVE Unflagged'
  BY <1>0, <1>17, MoveToUnflagged
<1>18. ASSUME NEW s \in 0 .. len, NEW e \in 0 .. len, MergeClusters(s, e) PROVE Unflagged'
  BY <1>0, <1>18, MergeClustersUnflagged
<1>19. ASSUME NEW s \in 0 .. len, NEW e \in 0 .. len, UnsafeToBreak(s, e) PROVE Unflagged'
  BY <1>0, <1>19, UnsafeToBreakUnflagged
<1>20. ASSUME NEW s \in 0 .. outLen, NEW e \in 0 .. outLen, MergeOutClusters(s, e) PROVE Unflagged'
  BY <1>0, <1>20, MergeOutClustersUnflagged
<1>21. ASSUME NEW s \in 0 .. outLen, NEW e \in 0 .. len, UnsafeFromOutbuffer(s, e) PROVE Unflagged'
  BY <1>0, <1>21, UnsafeFromOutbufferUnflagged
<1>22. CASE UNCHANGED vars
  BY <1>22, SameTextUnflagged DEF vars
<1>25. ASSUME NEW l \in Levels, SetClusterLevel(l) PROVE Unflagged'
  BY <1>25, SameTextUnflagged DEF SetClusterLevel
<1>23. CASE Client
  BY <1>1, <1>2, <1>3, <1>4, <1>5, <1>6, <1>7, <1>23, <1>25 DEF Client
<1>24. CASE Stage
  BY <1>8, <1>9, <1>10, <1>11, <1>12, <1>13, <1>14, <1>15, <1>16, <1>17, <1>18, <1>19,
     <1>20, <1>21, <1>24 DEF Stage
<1> QED BY <1>22, <1>23, <1>24 DEF Next

\* The flag is taken down only by clear, which empties the text.
LEMMA FlagLowered ==
  ASSUME hasUnsafe, [Next]_vars, ~hasUnsafe'
  PROVE  Clear
<1>1. CASE Client
  BY <1>1 DEF Client, SetClusterLevel, PreAllocate, SetLength, Add, AppendFrom, Refused,
              ReverseRange, ReverseClusters
<1>2. CASE Stage
  <2> USE DEF WithRoom, Refused, Emit, vars
  <2>1. ~(BeginOutput \/ RemoveOutput \/ ClearPositions \/ GetScratchBuffer \/ SwapBuffers)
    BY DEF BeginOutput, RemoveOutput, ClearPositions, GetScratchBuffer, SwapBuffers
  <2>2. ASSUME NEW g PROVE ~ReplaceGlyph(g) /\ ~OutputGlyph(g)
    BY DEF ReplaceGlyph, OutputGlyph
  <2>3. ASSUME NEW n, NEW cps PROVE ~ReplaceGlyphs(n, cps)
    BY DEF ReplaceGlyphs
  <2>4. ~CopyGlyph /\ ~SkipGlyph /\ ~DeleteGlyph
    BY DEF CopyGlyph, SkipGlyph, DeleteGlyph
  <2>5. ASSUME NEW n PROVE ~NextGlyphs(n)
    BY DEF NextGlyphs
  <2>6. ASSUME NEW i PROVE ~MoveTo(i)
    BY DEF MoveTo, MoveForward, MoveBack
  <2>7. ASSUME NEW s, NEW e
        PROVE  /\ ~MergeClusters(s, e) /\ ~UnsafeToBreak(s, e)
               /\ ~MergeOutClusters(s, e) /\ ~UnsafeFromOutbuffer(s, e)
    BY DEF MergeClusters, UnsafeToBreak, MergeOutClusters, UnsafeFromOutbuffer
  <2> QED BY <1>2, <2>1, <2>2, <2>3, <2>4, <2>5, <2>6, <2>7 DEF Stage
<1>3. ~UNCHANGED vars
  BY DEF vars
<1> QED BY <1>1, <1>2, <1>3 DEF Next

\* What is visible is part of the input or of the output.
LEMMA FlagInvAnnounces == BufferInv /\ FlagInv => FlagsAnnounced
<1> SUFFICES ASSUME BufferInv, Unflagged, NEW p \in DOMAIN VisibleText
             PROVE  ~VisibleText[p].unsafe
  BY DEF FlagInv, FlagsAnnounced
<1>1. \A c \in 0 .. len - 1 : ~mem.info[c].unsafe
  BY DEF Unflagged, NoneFlagged
<1>2. haveOutput => \A c \in 0 .. outLen - 1 : ~OutBlock(mem)[c].unsafe
  BY DEF Unflagged, NoneFlagged
<1> QED BY <1>1, <1>2, VisibleCell

\* A glyph flagged unsafe to break is never visible without the scratch flag,
\* which hb_propagate_flags relies on to skip its pass: as long as clients
\* append text, of which no glyph is flagged, to text.
THEOREM BufferFlagsAnnounced == ASSUME TextsAppended PROVE Spec => []FlagsAnnounced
<1>1. Init => FlagInv
  BY DEF Init, FlagInv, Unflagged, NoneFlagged
<1>2. BufferInv /\ BufferInv' /\ FlagInv /\ [Next]_vars => FlagInv'
  <2> SUFFICES ASSUME BufferInv, BufferInv', FlagInv, [Next]_vars, ~hasUnsafe'
               PROVE  Unflagged'
    BY DEF FlagInv
  <2>1. CASE hasUnsafe
    BY <2>1, FlagLowered, ClearUnflagged
  <2>2. CASE Unflagged
    BY <2>2, StepUnflagged
  <2> QED BY <2>1, <2>2 DEF FlagInv
<1>3. BufferInv /\ FlagInv => FlagsAnnounced
  BY FlagInvAnnounces
<1>4. Spec => []BufferInv
  BY BufferSafe
<1> QED BY <1>1, <1>2, <1>3, <1>4, PTL DEF Spec

-----------------------------------------------------------------------------
(* The refinement: what is seen of the buffer is a text with a cursor.      *)

\* d and u are the text t cut in two.
Parts(t, d, u) ==
  /\ t \in Seq(Glyph) /\ d \in Seq(Glyph) /\ u \in Seq(Glyph)
  /\ Len(t) = Len(d) + Len(u)
  /\ \A p \in 1 .. Len(d) : d[p] = t[p]
  /\ \A p \in 1 .. Len(u) : u[p] = t[Len(d) + p]

\* A text cut in two is the first part followed by the second.
LEMMA PartsAreText ==
  ASSUME NEW t, NEW d, NEW u, Parts(t, d, u)
  PROVE  t = d \o u
<1>1. t \in Seq(Glyph) /\ d \in Seq(Glyph) /\ u \in Seq(Glyph) /\ Len(d) \in Nat /\ Len(u) \in Nat
  BY DEF Parts
<1>2. /\ d \o u \in Seq(Glyph) /\ Len(d \o u) = Len(d) + Len(u)
      /\ \A i \in 1 .. Len(d) + Len(u) : (d \o u)[i] = IF i <= Len(d) THEN d[i] ELSE u[i - Len(d)]
  BY <1>1, ConcatProperties, Zenon
<1>3. ASSUME NEW i \in 1 .. Len(d) + Len(u)
      PROVE  t[i] = IF i <= Len(d) THEN d[i] ELSE u[i - Len(d)]
  <2>1. CASE i <= Len(d)
    BY <1>1, <2>1 DEF Parts
  <2>2. CASE ~(i <= Len(d))
    <3>1. i - Len(d) \in 1 .. Len(u) /\ Len(d) + (i - Len(d)) = i
      BY <1>1, <2>2
    <3> QED BY <2>2, <3>1 DEF Parts
  <2> QED BY <2>1, <2>2
<1>4. Len(t) = Len(d \o u)
  BY <1>2 DEF Parts
<1>5. \A i \in 1 .. Len(t) : t[i] = (d \o u)[i]
  BY <1>2, <1>3 DEF Parts
<1> QED BY <1>1, <1>2, <1>4, <1>5, SeqEqual, Zenon

\* The parts of a text are determined by its cells.
LEMMA PartsAreCut ==
  ASSUME NEW t, NEW d, NEW u, Parts(t, d, u)
  PROVE  d = SubSeq(t, 1, Len(d)) /\ u = SubSeq(t, Len(d) + 1, Len(t))
<1>1. /\ t \in Seq(Glyph) /\ d \in Seq(Glyph) /\ u \in Seq(Glyph) /\ Len(d) \in Nat /\ Len(u) \in Nat
      /\ Len(t) = Len(d) + Len(u) /\ \A i \in 1 .. Len(t) : t[i] \in Glyph
  BY DEF Parts
<1>2. d = SubSeq(t, 1, Len(d))
  <2>1. \A i \in 1 .. Len(d) : t[i] \in Glyph
    BY <1>1
  <2>2. /\ SubSeq(t, 1, Len(d)) \in Seq(Glyph)
        /\ Len(SubSeq(t, 1, Len(d))) = IF 1 <= Len(d) THEN Len(d) - 1 + 1 ELSE 0
        /\ \A i \in 1 .. Len(d) - 1 + 1 : SubSeq(t, 1, Len(d))[i] = t[1 + i - 1]
    <3>1. 1 \in Int /\ Len(d) \in Int
      BY <1>1
    <3> QED BY <2>1, <3>1, SubSeqProperties
  <2>3. Len(SubSeq(t, 1, Len(d))) = Len(d)
    BY <1>1, <2>2
  <2>4. \A i \in 1 .. Len(d) : d[i] = SubSeq(t, 1, Len(d))[i]
    BY <1>1, <2>2 DEF Parts
  <2> QED BY <1>1, <2>2, <2>3, <2>4, SeqEqual, Zenon
<1>3. u = SubSeq(t, Len(d) + 1, Len(t))
  <2> DEFINE m == Len(d) + 1
             n == Len(t)
             s == SubSeq(t, m, n)
  <2>1. m \in Int /\ n \in Int /\ \A i \in m .. n : t[i] \in Glyph
    BY <1>1
  <2>2. /\ s \in Seq(Glyph) /\ Len(s) = (IF m <= n THEN n - m + 1 ELSE 0)
        /\ \A i \in 1 .. n - m + 1 : s[i] = t[m + i - 1]
    <3> HIDE DEF m, n
    <3> QED BY <2>1, SubSeqProperties
  <2>3. Len(s) = Len(u)
    BY <1>1, <2>2
  <2>4. \A i \in 1 .. Len(u) : u[i] = s[i]
    <3>1. \A i \in 1 .. Len(u) : i \in 1 .. n - m + 1 /\ m + i - 1 = Len(d) + i
      BY <1>1
    <3> HIDE DEF s
    <3> QED BY <2>2, <3>1 DEF Parts
  <2> HIDE DEF s
  <2>5. u = s
    BY <1>1, <2>2, <2>3, <2>4, SeqEqual, Zenon
  <2> QED BY <2>5 DEF s
<1> QED BY <1>2, <1>3

-----------------------------------------------------------------------------
(* The text in the blocks.                                                  *)

\* How many glyphs of the output are visible, and where the input starts.
Written == IF haveOutput THEN outLen ELSE 0
From == IF haveOutput THEN idx ELSE 0

\* The text a reader sees while the blocks are m.
View(m) ==
  [p \in 1 .. Written + (len - From) |->
     IF p <= Written THEN OutBlock(m)[p - 1] ELSE m.info[From + p - Written - 1]]

\* What is seen of the blocks, cell by cell.
Shown ==
  /\ Written \in Nat /\ From \in Nat /\ len \in Nat /\ From <= len /\ len <= Capacity /\ Written <= Capacity
  /\ Done \in Seq(Glyph) /\ Len(Done) = Written
  /\ Todo \in Seq(Glyph) /\ Len(Todo) = len - From
  /\ \A p \in 1 .. Written : Done[p] = OutBlock(mem)[p - 1]
  /\ \A p \in 1 .. len - From : Todo[p] = mem.info[From + p - 1]

\* The visible text is a view of the blocks.
LEMMA ShownIs == BufferInv => Shown
<1> SUFFICES ASSUME BufferInv PROVE Shown
  OBVIOUS
<1>1. /\ Written \in Nat /\ From \in Nat /\ len \in Nat /\ From <= len /\ len <= Capacity /\ Written <= Capacity
      /\ OutBlock(mem) \in Block /\ mem.info \in Block /\ outLen \in Nat /\ outLen <= Capacity
  BY InvFacts, OutBlockIsBlock DEF Written, From, BufferInv, WithinAllocation
<1>2. /\ Todo \in Seq(Glyph) /\ Len(Todo) = len - From
      /\ \A p \in 1 .. len - From : Todo[p] = mem.info[From + p - 1]
  <2>1. Todo = Segment(mem.info, From, len)
    BY DEF Todo, From
  <2> QED BY <1>1, <2>1, SegmentIsSeq, ZenonT(60)
<1>3. /\ Done \in Seq(Glyph) /\ Len(Done) = Written
      /\ \A p \in 1 .. Written : Done[p] = OutBlock(mem)[p - 1]
  <2>1. CASE haveOutput
    <3>1. Done = Segment(OutBlock(mem), 0, outLen) /\ Written = outLen
      BY <2>1 DEF Done, Written
    <3>2. 0 \in Nat /\ 0 <= outLen /\ \A p \in 1 .. outLen : 0 + p - 1 = p - 1
      BY <1>1
    <3>3. /\ Segment(OutBlock(mem), 0, outLen) \in Seq(Glyph)
          /\ Len(Segment(OutBlock(mem), 0, outLen)) = outLen - 0
          /\ \A k \in 1 .. outLen - 0 : Segment(OutBlock(mem), 0, outLen)[k] = OutBlock(mem)[0 + k - 1]
      BY <1>1, <3>2, SegmentIsSeq, ZenonT(60)
    <3>4. outLen - 0 = outLen
      BY <1>1
    <3> QED BY <3>1, <3>2, <3>3, <3>4
  <2>2. CASE ~haveOutput
    <3>1. Done = <<>> /\ Written = 0
      BY <2>2 DEF Done, Written
    <3>2. Len(<<>>) = 0 /\ <<>> \in Seq(Glyph)
      OBVIOUS
    <3> QED BY <3>1, <3>2
  <2> QED BY <2>1, <2>2
<1> QED BY <1>1, <1>2, <1>3 DEF Shown

\* The same after a step.
LEMMA ShownNext == BufferInv' => Shown'
BY ShownIs, PTL

\* The glyphs of a view are those of its blocks.
LEMMA ViewIsText ==
  ASSUME BufferInv, NEW m \in Mem
  PROVE  /\ View(m) \in Seq(Glyph)
         /\ Len(View(m)) = Written + (len - From)
         /\ DOMAIN View(m) = 1 .. Written + (len - From)
         /\ \A p \in 1 .. Written : View(m)[p] = OutBlock(m)[p - 1]
         /\ \A p \in 1 .. len - From : View(m)[Written + p] = m.info[From + p - 1]
<1>1. /\ Written \in Nat /\ From \in Nat /\ len \in Nat /\ From <= len /\ len <= Capacity /\ Written <= Capacity
      /\ Capacity \in Nat
  BY ShownIs, InvFacts DEF Shown
<1>2. OutBlock(m) \in Block /\ m.info \in Block
  BY OutBlockIsBlock DEF Mem, Block
<1>3. \A p \in 1 .. Written : p - 1 \in Cells
  BY <1>1 DEF Cells
<1>4. \A p \in 1 .. Written + (len - From) : ~(p <= Written) => From + p - Written - 1 \in Cells
  BY <1>1 DEF Cells
<1>5. \A p \in 1 .. Written + (len - From) :
        (IF p <= Written THEN OutBlock(m)[p - 1] ELSE m.info[From + p - Written - 1]) \in Glyph
  BY <1>1, <1>2, <1>3, <1>4 DEF Block
<1>6. Written + (len - From) \in Nat
  BY <1>1
<1> DEFINE n == Written + (len - From)
<1>7. View(m) \in [1 .. n -> Glyph]
  BY <1>5 DEF View
<1>8. View(m) \in Seq(Glyph) /\ Len(View(m)) = n /\ DOMAIN View(m) = 1 .. n
  <2> HIDE DEF n
  <2>1. n \in Nat
    BY <1>6 DEF n
  <2> QED BY <1>7, <2>1
<1>9. \A p \in 1 .. Written : p \in 1 .. n /\ p <= Written
  BY <1>1
<1>10. \A p \in 1 .. len - From : /\ Written + p \in 1 .. n /\ ~(Written + p <= Written)
                                  /\ From + (Written + p) - Written - 1 = From + p - 1
  BY <1>1
<1>11. \A p \in 1 .. n : View(m)[p] = IF p <= Written THEN OutBlock(m)[p - 1] ELSE m.info[From + p - Written - 1]
  BY DEF View
<1>12. \A p \in 1 .. Written : View(m)[p] = OutBlock(m)[p - 1]
  BY <1>9, <1>11
<1>13. \A p \in 1 .. len - From : View(m)[Written + p] = m.info[From + p - 1]
  <2> HIDE DEF n
  <2> QED BY <1>10, <1>11
<1> QED BY <1>8, <1>12, <1>13

\* The text, before a step, is the view of the blocks.
LEMMA TextIsView ==
  ASSUME BufferInv
  PROVE  Parts(View(mem), Done, Todo) /\ VisibleText = View(mem)
<1>1. mem \in Mem /\ Shown
  BY ShownIs, InvFacts
<1>2. Parts(View(mem), Done, Todo)
  BY <1>1, ViewIsText DEF Shown, Parts
<1> QED BY <1>2, PartsAreText DEF VisibleText

\* A step that moves neither cursor nor ends.
InPlaceStep ==
  /\ UNCHANGED <<idx, len, outLen, haveOutput, level>>
  /\ successful /\ successful'

\* The text after such a step is the view of the new blocks, cut where it was.
LEMMA NextIsView ==
  ASSUME BufferInv, BufferInv', InPlaceStep
  PROVE  Parts(View(mem'), Done', Todo') /\ Len(Done') = Len(Done)
<1>1. mem' \in Mem
  BY DEF BufferInv, TypeOK
<1>2. Shown /\ Shown'
  BY ShownIs, ShownNext
<1>3. Written' = Written /\ From' = From /\ len' = len
  BY DEF InPlaceStep, Written, From
<1>4. (OutBlock(mem))' = OutBlock(mem')
  BY DEF OutBlock
<1>5. /\ Done' \in Seq(Glyph) /\ Len(Done') = Written
      /\ Todo' \in Seq(Glyph) /\ Len(Todo') = len - From
      /\ \A p \in 1 .. Written : Done'[p] = OutBlock(mem')[p - 1]
      /\ \A p \in 1 .. len - From : Todo'[p] = mem'.info[From + p - 1]
  BY <1>2, <1>3, <1>4 DEF Shown
<1>6. Len(Done) = Written
  BY <1>2 DEF Shown
<1> QED BY <1>1, <1>5, <1>6, ViewIsText, ZenonT(60) DEF Parts

\* It rewrites the text as a whole.
LEMMA RewriteIs ==
  ASSUME BufferInv, BufferInv', InPlaceStep
  PROVE  Cursor!Rewrite(View(mem'))
<1>1. Parts(View(mem'), Done', Todo') /\ Len(Done') = Len(Done)
  BY NextIsView
<1>2. Done' = SubSeq(View(mem'), 1, Len(Done)) /\ Todo' = SubSeq(View(mem'), Len(Done) + 1, Len(View(mem')))
  BY <1>1, PartsAreCut
<1> QED BY <1>2 DEF InPlaceStep, Cursor!Rewrite, Cursor!CutAt

\* If the view stays the same, so does everything a stage sees.
LEMMA SameView ==
  ASSUME BufferInv, BufferInv', InPlaceStep, View(mem') = View(mem)
  PROVE  UNCHANGED Cursor!cursorVars
<1>1. Parts(View(mem'), Done', Todo') /\ Len(Done') = Len(Done)
  BY NextIsView
<1>2. Parts(View(mem'), Done, Todo)
  BY TextIsView
<1>3. /\ Done' = SubSeq(View(mem'), 1, Len(Done'))
      /\ Todo' = SubSeq(View(mem'), Len(Done') + 1, Len(View(mem')))
  BY <1>1, PartsAreCut
<1>4. /\ Done = SubSeq(View(mem'), 1, Len(Done))
      /\ Todo = SubSeq(View(mem'), Len(Done) + 1, Len(View(mem')))
  BY <1>2, PartsAreCut
<1>5. Done' = Done /\ Todo' = Todo
  BY <1>1, <1>3, <1>4
<1> QED BY <1>5 DEF InPlaceStep, Cursor!cursorVars

-----------------------------------------------------------------------------
(* Merging and flagging, position by position.                              *)

\* What set_cluster does to a glyph when a merge calls it.
LEMMA JoinedGlyph ==
  ASSUME NEW g \in Glyph, NEW k
  PROVE  WithCluster(g, k, FALSE) = Cursor!Joined(g, k)
<1>1. g.unsafe \in BOOLEAN
  BY DEF Glyph
<1>2. (IF g.cluster # k THEN FALSE ELSE g.unsafe) = (g.unsafe /\ g.cluster = k)
  BY <1>1
<1>3. [g EXCEPT !.cluster = k].unsafe = g.unsafe
  BY DEF Glyph
<1> QED BY <1>2, <1>3 DEF WithCluster, Cursor!Joined

\* What the clusters of a range have as their least.
LEMMA LeastIs ==
  ASSUME NEW t \in Seq(Glyph), NEW p \in 1 .. Len(t), NEW q \in 1 .. Len(t), p <= q,
         NEW k, \E r \in p .. q : k = t[r].cluster, \A r \in p .. q : k <= t[r].cluster
  PROVE  Cursor!LeastOf(t, p .. q) = k
<1>1. \A r \in p .. q : r \in 1 .. Len(t) /\ t[r] \in Glyph /\ t[r].cluster \in Nat
  <2>1. \A g \in Glyph : g.cluster \in Nat
    <3>1. ClusterValues \cup {0} \subseteq Nat
      BY BufferAssumption
    <3> QED BY <3>1 DEF Glyph
  <2> QED BY <2>1
<1>2. k \in {t[r].cluster : r \in p .. q} /\ \A r \in p .. q : k <= t[r].cluster
  OBVIOUS
<1>3. ASSUME NEW j \in {t[r].cluster : r \in p .. q}, \A r \in p .. q : j <= t[r].cluster
      PROVE  j = k
  <2>1. j <= k /\ k <= j /\ j \in Nat /\ k \in Nat
    BY <1>1, <1>2, <1>3
  <2> QED BY <2>1
<1> QED BY <1>2, <1>3 DEF Cursor!LeastOf

\* The span of a merge ends where the run of its last glyph ends ...
LEMMA SpanAhead ==
  ASSUME NEW t \in Seq(Glyph), NEW p \in 1 .. Len(t), NEW q \in 1 .. Len(t), p < q,
         NEW e \in q .. Len(t),
         \A r \in q .. e : t[r].cluster = t[q].cluster,
         e < Len(t) => t[e + 1].cluster # t[q].cluster,
         NEW r \in p .. Len(t)
  PROVE  r \in Cursor!Span(t, p, q) <=> r <= e
<1>1. DOMAIN t = 1 .. Len(t) /\ r \in DOMAIN t
  OBVIOUS
<1>2. CASE r <= q
  BY <1>1, <1>2 DEF Cursor!Span
<1>3. CASE q < r /\ r <= e
  <2>1. \A x \in (r .. q) \cup (q .. r) : t[x].cluster = t[q].cluster /\ t[r].cluster = t[q].cluster
    BY <1>3
  <2>2. Cursor!SameRun(t, r, q)
    BY <2>1 DEF Cursor!SameRun
  <2> QED BY <1>1, <1>3, <2>2 DEF Cursor!Span
<1>4. CASE e < r
  <2>1. e + 1 \in q .. r /\ q \in q .. r /\ e + 1 \in p .. r /\ q \in p .. r /\ e < Len(t) /\ r \notin p .. q
    BY <1>4
  <2>2. ~Cursor!SameRun(t, r, q) /\ ~Cursor!SameRun(t, r, p)
    BY <2>1 DEF Cursor!SameRun
  <2> QED BY <1>1, <1>4, <2>1, <2>2 DEF Cursor!Span
<1> QED BY <1>2, <1>3, <1>4

\* ... and starts where the run of its first glyph starts.
LEMMA SpanBehind ==
  ASSUME NEW t \in Seq(Glyph), NEW p \in 1 .. Len(t), NEW q \in 1 .. Len(t), p < q,
         NEW s \in 1 .. p,
         \A r \in s .. p : t[r].cluster = t[p].cluster,
         s > 1 => t[s - 1].cluster # t[p].cluster,
         NEW r \in 1 .. p
  PROVE  r \in Cursor!Span(t, p, q) <=> s <= r
<1>1. DOMAIN t = 1 .. Len(t) /\ r \in DOMAIN t
  OBVIOUS
<1>2. CASE r = p
  BY <1>1, <1>2 DEF Cursor!Span
<1>3. CASE r < p /\ s <= r
  <2>1. \A x \in (r .. p) \cup (p .. r) : t[x].cluster = t[p].cluster /\ t[r].cluster = t[p].cluster
    BY <1>3
  <2>2. Cursor!SameRun(t, r, p)
    BY <2>1 DEF Cursor!SameRun
  <2> QED BY <1>1, <1>3, <2>2 DEF Cursor!Span
<1>4. CASE r < s
  <2>1. s - 1 \in r .. p /\ p \in r .. p /\ s - 1 \in r .. q /\ p \in r .. q /\ s > 1 /\ r \notin p .. q
    BY <1>4
  <2>2. ~Cursor!SameRun(t, r, q) /\ ~Cursor!SameRun(t, r, p)
    BY <2>1 DEF Cursor!SameRun
  <2> QED BY <1>1, <1>4, <2>1, <2>2 DEF Cursor!Span
<1> QED BY <1>2, <1>3, <1>4

-----------------------------------------------------------------------------
(* What the loops over clusters do to the view.                             *)

\* set_cluster over a range, cell by cell.
LEMMA JoinedCells ==
  ASSUME NEW a \in Block, NEW s, NEW e, NEW k
  PROVE  /\ DOMAIN SetClusters(a, s, e, k, FALSE) = Cells
         /\ \A c \in Cells : SetClusters(a, s, e, k, FALSE)[c] =
              IF s <= c /\ c < e THEN Cursor!Joined(a[c], k) ELSE a[c]
<1>1. DOMAIN a = Cells /\ \A c \in Cells : a[c] \in Glyph
  BY DEF Block
<1>2. \A c \in Cells : WithCluster(a[c], k, FALSE) = Cursor!Joined(a[c], k)
  BY <1>1, JoinedGlyph
<1> QED BY <1>1, <1>2 DEF SetClusters

\* A glyph that was joined to a cluster is not changed by joining it again.
LEMMA JoinedTwice ==
  ASSUME NEW g \in Glyph, NEW k
  PROVE  Cursor!Joined(Cursor!Joined(g, k), k) = Cursor!Joined(g, k)
BY DEF Cursor!Joined, Glyph

\* Glyphs joined in the blocks are joined in the text.
LEMMA JoinedView ==
  ASSUME BufferInv, NEW m \in Mem, NEW n \in Mem, NEW k, NEW S,
         \A p \in 1 .. Written : OutBlock(n)[p - 1] =
           IF p \in S THEN Cursor!Joined(OutBlock(m)[p - 1], k) ELSE OutBlock(m)[p - 1],
         \A p \in 1 .. len - From : n.info[From + p - 1] =
           IF Written + p \in S THEN Cursor!Joined(m.info[From + p - 1], k) ELSE m.info[From + p - 1]
  PROVE  View(n) = Cursor!JoinedAt(View(m), S, k)
<1> DEFINE l == Written + (len - From)
           t == View(m)
           u == View(n)
<1>1. /\ t \in Seq(Glyph) /\ DOMAIN t = 1 .. l
      /\ \A p \in 1 .. Written : t[p] = OutBlock(m)[p - 1]
      /\ \A p \in 1 .. len - From : t[Written + p] = m.info[From + p - 1]
  BY ViewIsText
<1>2. /\ u \in Seq(Glyph) /\ DOMAIN u = 1 .. l /\ Len(u) = l
      /\ \A p \in 1 .. Written : u[p] = OutBlock(n)[p - 1]
      /\ \A p \in 1 .. len - From : u[Written + p] = n.info[From + p - 1]
  BY ViewIsText
<1>3. Written \in Nat /\ From \in Nat /\ len \in Nat /\ From <= len
  BY ShownIs DEF Shown
<1> HIDE DEF t, u
<1>4. ASSUME NEW p \in 1 .. l
      PROVE  u[p] = IF p \in S THEN Cursor!Joined(t[p], k) ELSE t[p]
  <2>1. CASE p <= Written
    <3>1. p \in 1 .. Written
      BY <1>3, <2>1
    <3> QED BY <1>1, <1>2, <3>1
  <2>2. CASE ~(p <= Written)
    <3>1. PICK x \in 1 .. len - From : p = Written + x
      <4>1. p - Written \in 1 .. len - From /\ p = Written + (p - Written)
        BY <1>3, <2>2
      <4> QED BY <4>1
    <3> QED BY <1>1, <1>2, <3>1
  <2> QED BY <2>1, <2>2
<1>5. u = [p \in 1 .. l |-> u[p]]
  BY <1>2
<1>6. u = Cursor!JoinedAt(t, S, k)
  BY <1>1, <1>4, <1>5 DEF Cursor!JoinedAt
<1> QED BY <1>6 DEF t, u

\* The ends of the range merge_clusters_impl joins, in the input and in the output.
RangeEnd(m, end) == RunEnd(m.info, end, len)

RangeStart(m, start) ==
  IF idx < start THEN RunStart(m.info, m.info[start].cluster, start, idx) ELSE start

OutStart(m, start) ==
  IF idx = RangeStart(m, start)
  THEN RunStart(OutBlock(m), m.info[RangeStart(m, start)].cluster, outLen, 0) ELSE outLen

\* Whether the merge reaches cell c of the input, of the output.
ReachesInfo(m, start, end, c) ==
  \/ RangeStart(m, start) <= c /\ c < RangeEnd(m, end)
  \/ ~m.sep /\ OutStart(m, start) <= c /\ c < outLen

ReachesOut(m, start, end, c) ==
  \/ OutStart(m, start) <= c /\ c < outLen
  \/ ~m.sep /\ RangeStart(m, start) <= c /\ c < RangeEnd(m, end)

\* merge_clusters_impl, cell by cell.
LEMMA MergedRangeCells ==
  ASSUME NEW m \in Mem, NEW start, NEW end
  PROVE  LET n == MergedRange(m, start, end)
             k == LeastCluster(m.info, start, end)
         IN  /\ \A c \in Cells : n.info[c] =
                  IF ReachesInfo(m, start, end, c) THEN Cursor!Joined(m.info[c], k) ELSE m.info[c]
             /\ \A c \in Cells : OutBlock(n)[c] =
                  IF ReachesOut(m, start, end, c) THEN Cursor!Joined(OutBlock(m)[c], k) ELSE OutBlock(m)[c]
<1> DEFINE k == LeastCluster(m.info, start, end)
           s == RangeStart(m, start)
           e == RangeEnd(m, end)
           o == OutStart(m, start)
           out == SetClusters(OutBlock(m), o, outLen, k, FALSE)
           w == WithOut(m, out)
           b == SetClusters(w.info, s, e, k, FALSE)
           n == [w EXCEPT !.info = b]
<1>1. MergedRange(m, start, end) = n
  BY DEF MergedRange, RangeStart, RangeEnd, OutStart
<1>2. m.info \in Block /\ m.pos \in Block /\ OutBlock(m) \in Block /\ m.sep \in BOOLEAN
  BY OutBlockIsBlock DEF Mem, Block
<1>3. \A c \in Cells : m.info[c] \in Glyph
  BY <1>2 DEF Block
<1>4. /\ DOMAIN out = Cells
      /\ \A c \in Cells : out[c] = IF o <= c /\ c < outLen THEN Cursor!Joined(OutBlock(m)[c], k) ELSE OutBlock(m)[c]
  <2> HIDE DEF o, k
  <2> QED BY <1>2, JoinedCells, ZenonT(60)
<1> HIDE DEF out, k, s, e, o
<1>5. ASSUME NEW g \in Glyph PROVE Cursor!Joined(g, k).cluster = k
  BY DEF Cursor!Joined, Glyph
<1>6. CASE m.sep
  <2>1. w = [m EXCEPT !.pos = out] /\ OutBlock(m) = m.pos
    BY <1>6 DEF WithOut, OutBlock
  <2>2. w.info = m.info /\ w.pos = out /\ w.sep = m.sep
    BY <2>1 DEF Mem
  <2>3. n.info = b /\ n.pos = out /\ n.sep = m.sep
    BY <2>1, <2>2 DEF Mem
  <2>4. \A c \in Cells : b[c] = IF s <= c /\ c < e THEN Cursor!Joined(m.info[c], k) ELSE m.info[c]
    <3> HIDE DEF w
    <3>1. \A c \in Cells : b[c] = IF s <= c /\ c < e THEN Cursor!Joined(w.info[c], k) ELSE w.info[c]
      <4> DEFINE a == w.info
      <4>1. a \in Block
        BY <1>2, <2>2
      <4> HIDE DEF a
      <4>2. \A c \in Cells : SetClusters(a, s, e, k, FALSE)[c] =
              IF s <= c /\ c < e THEN Cursor!Joined(a[c], k) ELSE a[c]
        BY <4>1, JoinedCells
      <4> QED BY <4>2 DEF a
    <3> QED BY <2>2, <3>1
  <2>5. OutBlock(n) = out
    BY <1>6, <2>3 DEF OutBlock
  <2> HIDE DEF b, n, w
  <2>6. \A c \in Cells : n.info[c] =
          IF ReachesInfo(m, start, end, c) THEN Cursor!Joined(m.info[c], k) ELSE m.info[c]
    BY <1>6, <2>3, <2>4 DEF ReachesInfo, s, e
  <2>7. \A c \in Cells : OutBlock(n)[c] =
          IF ReachesOut(m, start, end, c) THEN Cursor!Joined(OutBlock(m)[c], k) ELSE OutBlock(m)[c]
    BY <1>4, <1>6, <2>5 DEF ReachesOut, o
  <2> QED BY <1>1, <2>6, <2>7 DEF k
<1>7. CASE ~m.sep
  <2>1. w = [m EXCEPT !.info = out] /\ OutBlock(m) = m.info
    BY <1>7 DEF WithOut, OutBlock
  <2>2. w.info = out /\ w.sep = m.sep
    BY <2>1 DEF Mem
  <2>3. n.info = b /\ n.sep = m.sep
    BY <2>1, <2>2 DEF Mem
  <2>4. \A c \in Cells : out[c] \in {Cursor!Joined(m.info[c], k), m.info[c]}
    BY <1>4, <2>1
  <2>5. b = [c \in Cells |-> IF s <= c /\ c < e THEN WithCluster(out[c], k, FALSE) ELSE out[c]]
    BY <1>4, <2>2 DEF SetClusters
  <2>6. \A g \in Glyph : /\ WithCluster(g, k, FALSE) = Cursor!Joined(g, k)
                         /\ WithCluster(Cursor!Joined(g, k), k, FALSE) = Cursor!Joined(g, k)
    <3> TAKE g \in Glyph
    <3>1. WithCluster(g, k, FALSE) = Cursor!Joined(g, k)
      BY JoinedGlyph
    <3>2. WithCluster(Cursor!Joined(g, k), k, FALSE) = Cursor!Joined(g, k)
      BY <1>5 DEF WithCluster, Cursor!Joined, Glyph
    <3> QED BY <3>1, <3>2
  <2>7. \A c \in Cells : WithCluster(out[c], k, FALSE) = Cursor!Joined(m.info[c], k)
    BY <1>3, <2>4, <2>6
  <2>8. \A c \in Cells : b[c] = IF s <= c /\ c < e THEN Cursor!Joined(m.info[c], k) ELSE out[c]
    BY <2>5, <2>7
  <2>9. OutBlock(n) = n.info
    BY <1>7, <2>3 DEF OutBlock
  <2> HIDE DEF b, n, w
  <2>10. \A c \in Cells : n.info[c] =
          IF ReachesInfo(m, start, end, c) THEN Cursor!Joined(m.info[c], k) ELSE m.info[c]
    BY <1>4, <1>7, <2>1, <2>3, <2>8 DEF ReachesInfo, s, e, o
  <2>11. \A c \in Cells : ReachesInfo(m, start, end, c) <=> ReachesOut(m, start, end, c)
    BY <1>7 DEF ReachesInfo, ReachesOut
  <2>12. \A c \in Cells : OutBlock(n)[c] =
          IF ReachesOut(m, start, end, c) THEN Cursor!Joined(OutBlock(m)[c], k) ELSE OutBlock(m)[c]
    BY <2>1, <2>9, <2>10, <2>11
  <2> QED BY <1>1, <2>10, <2>12 DEF k
<1> QED BY <1>2, <1>6, <1>7

-----------------------------------------------------------------------------
(* Merging a range of the input.                                            *)

\* The input from cell lo on stands in the text t, cell c at position D + c.
Faces(t, m, D, lo) ==
  /\ t \in Seq(Glyph) /\ D \in Int /\ lo \in Nat
  /\ D + lo >= 1 /\ Len(t) = D + len - 1 /\ lo <= len /\ len \in Nat
  /\ \A c \in lo .. len - 1 : t[D + c] = m.info[c]

\* While a text is edited, the input from the cursor on follows the output.
LEMMA FacesEditing ==
  ASSUME BufferInv, haveOutput, NEW m \in Mem
  PROVE  Faces(View(m), m, outLen - idx + 1, idx)
<1>1. Written = outLen /\ From = idx
  BY DEF Written, From
<1>2. /\ View(m) \in Seq(Glyph) /\ Len(View(m)) = outLen + (len - idx)
      /\ \A p \in 1 .. len - idx : View(m)[outLen + p] = m.info[idx + p - 1]
  BY <1>1, ViewIsText
<1>3. outLen \in Nat /\ idx \in Nat /\ len \in Nat /\ idx <= len
  BY InvFacts DEF BufferInv, WithinAllocation
<1>4. ASSUME NEW c \in idx .. len - 1
      PROVE  View(m)[outLen - idx + 1 + c] = m.info[c]
  <2>1. c - idx + 1 \in 1 .. len - idx /\ outLen + (c - idx + 1) = outLen - idx + 1 + c
        /\ idx + (c - idx + 1) - 1 = c
    BY <1>3
  <2> QED BY <1>2, <2>1
<1> QED BY <1>2, <1>3, <1>4 DEF Faces

\* Otherwise the text is the input.
LEMMA FacesOutside ==
  ASSUME BufferInv, ~haveOutput, NEW m \in Mem
  PROVE  Faces(View(m), m, 1, 0)
<1>1. Written = 0 /\ From = 0
  BY DEF Written, From
<1>2. /\ View(m) \in Seq(Glyph) /\ Len(View(m)) = 0 + (len - 0)
      /\ \A p \in 1 .. len - 0 : View(m)[0 + p] = m.info[0 + p - 1]
  BY <1>1, ViewIsText
<1>3. len \in Nat
  BY InvFacts
<1>4. ASSUME NEW c \in 0 .. len - 1
      PROVE  View(m)[1 + c] = m.info[c]
  <2>1. c + 1 \in 1 .. len - 0 /\ 0 + (c + 1) = 1 + c /\ 0 + (c + 1) - 1 = c
    BY <1>3
  <2> QED BY <1>2, <2>1
<1> QED BY <1>2, <1>3, <1>4 DEF Faces

\* A stage that has read everything in place sees the same.
LEMMA FacesSettled ==
  ASSUME BufferInv, haveOutput, outLen = idx, idx = len, NEW m \in Mem, ~m.sep
  PROVE  Faces(View(m), m, 1, 0)
<1>1. Written = len /\ From = len
  BY DEF Written, From
<1>2. /\ View(m) \in Seq(Glyph) /\ Len(View(m)) = len + (len - len)
      /\ \A p \in 1 .. len : View(m)[p] = OutBlock(m)[p - 1]
  BY <1>1, ViewIsText
<1>3. len \in Nat /\ OutBlock(m) = m.info
  BY InvFacts DEF OutBlock
<1>4. ASSUME NEW c \in 0 .. len - 1
      PROVE  View(m)[1 + c] = m.info[c]
  <2>1. c + 1 \in 1 .. len /\ c + 1 = 1 + c /\ (c + 1) - 1 = c
    BY <1>3
  <2> QED BY <1>2, <1>3, <2>1
<1> QED BY <1>2, <1>3, <1>4 DEF Faces

\* The least cluster of a range of the input is that of its place in the text.
LEMMA LeastFaces ==
  ASSUME BufferInv, NEW m \in Mem, NEW t, NEW D, NEW lo, Faces(t, m, D, lo),
         NEW start \in Nat, NEW end \in Nat, lo <= start, start < end, end <= len
  PROVE  /\ D + start \in 1 .. Len(t) /\ D + end - 1 \in 1 .. Len(t)
         /\ Cursor!LeastOf(t, (D + start) .. (D + end - 1)) = LeastCluster(m.info, start, end)
<1> DEFINE k == LeastCluster(m.info, start, end)
           p == D + start
           q == D + end - 1
<1>1. /\ t \in Seq(Glyph) /\ D \in Int /\ lo \in Nat /\ D + lo >= 1 /\ Len(t) = D + len - 1 /\ len \in Nat
      /\ \A c \in lo .. len - 1 : t[D + c] = m.info[c]
  BY DEF Faces
<1>2. p \in 1 .. Len(t) /\ q \in 1 .. Len(t) /\ p <= q
  BY <1>1
<1>3. /\ k \in ClustersOf(m.info, start, end)
      /\ \A y \in ClustersOf(m.info, start, end) : k <= y
  <2>1. \A i \in start .. end - 1 : i \in Cells
    BY <1>1, InvFacts DEF Cells
  <2>2. m.info \in Block /\ ClusterValues \cup {0} \subseteq Nat
    BY BufferAssumption DEF Mem, Block
  <2>3. ClustersOf(m.info, start, end) \subseteq Nat
    BY <2>1, <2>2 DEF ClustersOf, Block, Glyph
  <2>4. start \in start .. end - 1
    OBVIOUS
  <2>5. ClustersOf(m.info, start, end) # {}
    BY <2>4 DEF ClustersOf
  <2> QED BY <2>3, <2>5, LeastExists DEF LeastCluster
<1> HIDE DEF k
<1>4. \E r \in p .. q : k = t[r].cluster
  <2>1. PICK c \in start .. end - 1 : k = m.info[c].cluster
    BY <1>3 DEF ClustersOf
  <2>2. D + c \in p .. q /\ c \in lo .. len - 1
    BY <1>1
  <2> QED BY <1>1, <2>1, <2>2
<1>5. \A r \in p .. q : k <= t[r].cluster
  <2> TAKE r \in p .. q
  <2>1. r - D \in start .. end - 1 /\ r - D \in lo .. len - 1 /\ D + (r - D) = r
    BY <1>1
  <2>2. m.info[r - D].cluster \in ClustersOf(m.info, start, end)
    BY <2>1 DEF ClustersOf
  <2>3. t[r] = m.info[r - D]
    BY <1>1, <2>1
  <2> QED BY <1>3, <2>2, <2>3
<1> HIDE DEF p, q
<1>6. Cursor!LeastOf(t, p .. q) = k
  BY <1>1, <1>2, <1>4, <1>5, LeastIs
<1> QED BY <1>2, <1>6 DEF p, q, k

\* "Extend end" goes as far in the input as the span does in the text.
LEMMA AheadFaces ==
  ASSUME BufferInv, NEW m \in Mem, NEW t, NEW D, NEW lo, Faces(t, m, D, lo),
         NEW start \in Nat, NEW end \in Nat, lo <= start, start + 2 <= end, end <= len
  PROVE  /\ RangeEnd(m, end) \in end .. len
         /\ \A r \in D + start .. Len(t) :
              r \in Cursor!Span(t, D + start, D + end - 1) <=> r <= D + RangeEnd(m, end) - 1
<1> DEFINE e == RangeEnd(m, end)
           p == D + start
           q == D + end - 1
           x == D + e - 1
<1>1. /\ t \in Seq(Glyph) /\ D \in Int /\ lo \in Nat /\ D + lo >= 1 /\ Len(t) = D + len - 1 /\ len \in Nat
      /\ \A c \in lo .. len - 1 : t[D + c] = m.info[c]
  BY DEF Faces
<1>2. EndsRun(m.info, end, len, e)
  BY <1>1, RunEndIs DEF RangeEnd
<1>3. /\ e \in end .. len
      /\ \A i \in end .. e - 1 : m.info[i].cluster = m.info[end - 1].cluster
      /\ e < len => m.info[e].cluster # m.info[end - 1].cluster
  BY <1>2 DEF EndsRun
<1> HIDE DEF e
<1>4. p \in 1 .. Len(t) /\ q \in 1 .. Len(t) /\ p < q /\ x \in q .. Len(t)
  BY <1>1, <1>3
<1>5. t[q] = m.info[end - 1]
  <2>1. end - 1 \in lo .. len - 1 /\ D + (end - 1) = q
    BY <1>1
  <2> QED BY <1>1, <2>1
<1>6. \A r \in q .. x : t[r].cluster = t[q].cluster
  <2> TAKE r \in q .. x
  <2>1. r - D \in lo .. len - 1 /\ D + (r - D) = r /\ (r = q \/ r - D \in end .. e - 1)
    BY <1>1, <1>3
  <2>2. t[r] = m.info[r - D]
    BY <1>1, <2>1
  <2> QED BY <1>3, <1>5, <2>1, <2>2
<1>7. x < Len(t) => t[x + 1].cluster # t[q].cluster
  <2> HAVE x < Len(t)
  <2>1. e < len /\ e \in lo .. len - 1 /\ D + e = x + 1
    BY <1>1, <1>3
  <2>2. t[x + 1] = m.info[e]
    BY <1>1, <2>1
  <2> QED BY <1>3, <1>5, <2>1, <2>2
<1> HIDE DEF p, q, x
<1>8. \A r \in p .. Len(t) : r \in Cursor!Span(t, p, q) <=> r <= x
  BY <1>1, <1>4, <1>6, <1>7, SpanAhead
<1> QED BY <1>3, <1>8 DEF p, q, x, e

\* "Extend start", on to the output if the range reaches back to the cursor, goes
\* as far as the span does in the text.
LEMMA BehindEditing ==
  ASSUME BufferInv, haveOutput, NEW m \in Mem,
         NEW start \in Nat, NEW end \in Nat, idx <= start, start + 2 <= end, end <= len
  PROVE  LET t == View(m)
             D == outLen - idx + 1
             s == RangeStart(m, start)
             o == OutStart(m, start)
             first == IF idx = s THEN o + 1 ELSE D + s
         IN  /\ s \in idx .. start
             /\ o \in 0 .. outLen
             /\ idx # s => o = outLen
             /\ first \in 1 .. D + start
             /\ \A r \in 1 .. D + start : r \in Cursor!Span(t, D + start, D + end - 1) <=> first <= r
<1> DEFINE t == View(m)
           D == outLen - idx + 1
           s == RangeStart(m, start)
           o == OutStart(m, start)
           first == IF idx = s THEN o + 1 ELSE D + s
           k == m.info[start].cluster
           p == D + start
           q == D + end - 1
<1>1. /\ t \in Seq(Glyph) /\ D \in Int /\ idx \in Nat /\ D + idx >= 1 /\ Len(t) = D + len - 1 /\ len \in Nat
      /\ \A c \in idx .. len - 1 : t[D + c] = m.info[c]
  BY FacesEditing DEF Faces
<1>2. \A r \in 1 .. outLen : t[r] = OutBlock(m)[r - 1]
  BY ViewIsText DEF Written
<1>3. outLen \in Nat /\ idx <= len
  BY InvFacts DEF BufferInv, WithinAllocation
<1>4. /\ s \in idx .. start
      /\ \A i \in s .. start - 1 : m.info[i].cluster = k
      /\ s > idx => m.info[s - 1].cluster # k
  <2>1. CASE idx < start
    <3>1. StartsRun(m.info, k, start, idx, s)
      BY <1>1, <2>1, RunStartIs DEF RangeStart
    <3> QED BY <3>1 DEF StartsRun
  <2>2. CASE ~(idx < start)
    <3>1. s = start /\ start = idx
      BY <1>1, <2>2 DEF RangeStart
    <3> QED BY <1>1, <3>1
  <2> QED BY <2>1, <2>2
<1>5. m.info[s].cluster = k
  <2>1. s = start \/ s \in s .. start - 1
    BY <1>1, <1>4
  <2> QED BY <1>4, <2>1
<1>6. CASE idx = s
  <2>1. StartsRun(OutBlock(m), k, outLen, 0, o)
    BY <1>3, <1>5, <1>6, RunStartIs DEF OutStart
  <2>2. /\ o \in 0 .. outLen
        /\ \A i \in o .. outLen - 1 : OutBlock(m)[i].cluster = k
        /\ o > 0 => OutBlock(m)[o - 1].cluster # k
    BY <2>1 DEF StartsRun
  <2> HIDE DEF o, s, k, t, D
  <2>3. first = o + 1 /\ first \in 1 .. D + start /\ D = outLen - idx + 1
    BY <1>1, <1>3, <1>6, <2>2 DEF D
  <2>4. t[p].cluster = k
    <3>1. start \in idx .. len - 1
      BY <1>1
    <3> QED BY <1>1, <3>1 DEF k
  <2>5. \A r \in first .. p : t[r].cluster = t[p].cluster
    <3> TAKE r \in first .. p
    <3>1. CASE r <= outLen
      <4>1. r \in 1 .. outLen /\ r - 1 \in o .. outLen - 1
        BY <2>2, <2>3, <3>1, <1>3
      <4> QED BY <1>2, <2>2, <2>4, <4>1
    <3>2. CASE ~(r <= outLen)
      <4>1. r - D \in idx .. len - 1 /\ D + (r - D) = r /\ (r = p \/ r - D \in s .. start - 1)
        BY <1>1, <1>3, <1>6, <2>2, <2>3, <3>2
      <4>2. t[r] = m.info[r - D]
        BY <1>1, <4>1
      <4> QED BY <1>4, <2>4, <4>1, <4>2
    <3> QED BY <3>1, <3>2
  <2>6. first > 1 => t[first - 1].cluster # t[p].cluster
    <3> HAVE first > 1
    <3>1. first - 1 = o /\ o > 0 /\ o \in 1 .. outLen
      BY <2>2, <2>3, <1>3
    <3> QED BY <1>2, <2>2, <2>4, <3>1
  <2>7. p \in 1 .. Len(t) /\ q \in 1 .. Len(t) /\ p < q
    BY <1>1
  <2> HIDE DEF p, q, first
  <2>8. first \in 1 .. p
    BY <2>3 DEF p
  <2>9. \A r \in 1 .. p : r \in Cursor!Span(t, p, q) <=> first <= r
    BY <1>1, <2>5, <2>6, <2>7, <2>8, SpanBehind
  <2> QED BY <1>4, <1>6, <2>2, <2>8, <2>9 DEF p, q, first, o, s, k, t, D
<1>7. CASE idx # s
  <2>1. o = outLen
    BY <1>7 DEF OutStart
  <2> HIDE DEF o, s, k, t, D
  <2>2. first = D + s /\ first \in 1 .. D + start /\ D = outLen - idx + 1 /\ s > idx
    BY <1>1, <1>3, <1>4, <1>7 DEF D
  <2>4. t[p].cluster = k
    <3>1. start \in idx .. len - 1
      BY <1>1
    <3> QED BY <1>1, <3>1 DEF k
  <2>5. \A r \in first .. p : t[r].cluster = t[p].cluster
    <3> TAKE r \in first .. p
    <3>1. r - D \in idx .. len - 1 /\ D + (r - D) = r /\ (r = p \/ r - D \in s .. start - 1)
      BY <1>1, <1>3, <1>4, <2>2
    <3>2. t[r] = m.info[r - D]
      BY <1>1, <3>1
    <3> QED BY <1>4, <2>4, <3>1, <3>2
  <2>6. first > 1 => t[first - 1].cluster # t[p].cluster
    <3>1. first - 1 = D + (s - 1) /\ s - 1 \in idx .. len - 1
      BY <1>1, <1>3, <1>4, <2>2, SMTT(30)
    <3> QED BY <1>1, <1>4, <2>2, <2>4, <3>1
  <2>7. p \in 1 .. Len(t) /\ q \in 1 .. Len(t) /\ p < q
    BY <1>1
  <2> HIDE DEF p, q, first
  <2>8. first \in 1 .. p
    BY <2>2 DEF p
  <2>9. \A r \in 1 .. p : r \in Cursor!Span(t, p, q) <=> first <= r
    BY <1>1, <2>5, <2>6, <2>7, <2>8, SpanBehind
  <2>10. o \in 0 .. outLen
    BY <1>3, <2>1
  <2> QED BY <1>4, <1>7, <2>1, <2>8, <2>9, <2>10 DEF p, q, first, o, s, k, t, D
<1> QED BY <1>6, <1>7

\* merge_clusters while a text is edited joins the span of the range.
LEMMA MergedEditing ==
  ASSUME BufferInv, haveOutput, NEW m \in Mem, m.sep \/ outLen <= idx,
         NEW start \in Nat, NEW end \in Nat, idx <= start, start + 2 <= end, end <= len,
         MergedRange(m, start, end) \in Mem
  PROVE  LET t == View(m)
             p == outLen - idx + 1 + start
             q == outLen - idx + 1 + end - 1
         IN  View(MergedRange(m, start, end)) = Cursor!JoinedAt(t, Cursor!Span(t, p, q), Cursor!LeastOf(t, p .. q))
<1> DEFINE t == View(m)
           D == outLen - idx + 1
           s == RangeStart(m, start)
           e == RangeEnd(m, end)
           o == OutStart(m, start)
           first == IF idx = s THEN o + 1 ELSE D + s
           p == D + start
           q == D + end - 1
           S == Cursor!Span(t, p, q)
           k == LeastCluster(m.info, start, end)
           n == MergedRange(m, start, end)
<1>1. /\ outLen \in Nat /\ idx \in Nat /\ len \in Nat /\ idx <= len /\ Written = outLen /\ From = idx
      /\ Capacity \in Nat /\ len <= Capacity /\ outLen <= Capacity
  BY InvFacts DEF BufferInv, WithinAllocation, Written, From
<1>2. Faces(t, m, D, idx)
  BY FacesEditing
<1>3. Len(t) = D + len - 1
  BY <1>2 DEF Faces
<1>4. p \in 1 .. Len(t) /\ Cursor!LeastOf(t, p .. q) = k
  <2> HIDE DEF t, D, k
  <2>1. start < end
    OBVIOUS
  <2> QED BY <1>1, <1>2, <2>1, LeastFaces DEF k
<1>5. /\ e \in end .. len
      /\ \A r \in p .. Len(t) : r \in S <=> r <= D + e - 1
  <2> HIDE DEF t, D
  <2> QED BY <1>1, <1>2, AheadFaces
<1>6. /\ s \in idx .. start /\ o \in 0 .. outLen /\ (idx # s => o = outLen)
      /\ first \in 1 .. p
      /\ \A r \in 1 .. p : r \in S <=> first <= r
  BY BehindEditing
<1>7. /\ \A c \in Cells : n.info[c] =
           IF ReachesInfo(m, start, end, c) THEN Cursor!Joined(m.info[c], k) ELSE m.info[c]
      /\ \A c \in Cells : OutBlock(n)[c] =
           IF ReachesOut(m, start, end, c) THEN Cursor!Joined(OutBlock(m)[c], k) ELSE OutBlock(m)[c]
  BY MergedRangeCells
<1>8. D = outLen - idx + 1 /\ p = D + start /\ first = IF idx = s THEN o + 1 ELSE D + s
  OBVIOUS
<1>9. \A c : ReachesInfo(m, start, end, c) <=> (s <= c /\ c < e) \/ (~m.sep /\ o <= c /\ c < outLen)
  BY DEF ReachesInfo
<1>10. \A c : ReachesOut(m, start, end, c) <=> (o <= c /\ c < outLen) \/ (~m.sep /\ s <= c /\ c < e)
  BY DEF ReachesOut
<1> HIDE DEF t, D, s, e, o, first, p, q, S, k, n
<1>11. \A r \in 1 .. Written : OutBlock(n)[r - 1] =
           IF r \in S THEN Cursor!Joined(OutBlock(m)[r - 1], k) ELSE OutBlock(m)[r - 1]
  <2> TAKE r \in 1 .. Written
  <2>1. r - 1 \in Cells /\ r \in 1 .. p
    BY <1>1, <1>8 DEF Cells
  <2>2. ReachesOut(m, start, end, r - 1) <=> first <= r
    BY <1>1, <1>5, <1>6, <1>8, <1>10
  <2> QED BY <1>6, <1>7, <2>1, <2>2
<1>12. \A x \in 1 .. len - From : n.info[From + x - 1] =
           IF Written + x \in S THEN Cursor!Joined(m.info[From + x - 1], k) ELSE m.info[From + x - 1]
  <2> TAKE x \in 1 .. len - From
  <2>1. idx + x - 1 \in Cells
    BY <1>1 DEF Cells
  <2>2. ReachesInfo(m, start, end, idx + x - 1) <=> s <= idx + x - 1 /\ idx + x - 1 < e
    BY <1>1, <1>9
  <2>3. CASE outLen + x <= p
    <3>1. outLen + x \in 1 .. p
      BY <1>1, <2>3
    <3>2. (s <= idx + x - 1 /\ idx + x - 1 < e) <=> first <= outLen + x
      BY <1>1, <1>5, <1>6, <1>8, <2>3
    <3> QED BY <1>1, <1>6, <1>7, <2>1, <2>2, <3>1, <3>2
  <2>4. CASE ~(outLen + x <= p)
    <3>1. outLen + x \in p .. Len(t)
      BY <1>1, <1>3, <1>4, <1>8, <2>4
    <3>2. (s <= idx + x - 1 /\ idx + x - 1 < e) <=> outLen + x <= D + e - 1
      BY <1>1, <1>5, <1>6, <1>8, <2>4
    <3> QED BY <1>1, <1>5, <1>7, <2>1, <2>2, <3>1, <3>2
  <2> QED BY <2>3, <2>4
<1>13. n \in Mem
  BY DEF n
<1>14. View(n) = Cursor!JoinedAt(View(m), S, k)
  BY <1>11, <1>12, <1>13, JoinedView
<1> QED BY <1>4, <1>14 DEF S, k, n, t, p, q, D

\* Outside an edit "extend start" goes back over cells of one cluster.
LEMMA BehindOutside ==
  ASSUME BufferInv, NEW m \in Mem, NEW start \in Nat
  PROVE  LET s == RangeStart(m, start)
         IN  s \in 0 .. start /\ \A i \in s .. start : m.info[i].cluster = m.info[start].cluster
<1> DEFINE s == RangeStart(m, start)
           k == m.info[start].cluster
<1>1. idx \in Nat
  BY InvFacts
<1>2. CASE idx < start
  <2>1. StartsRun(m.info, k, start, idx, s)
    BY <1>1, <1>2, RunStartIs DEF RangeStart
  <2> HIDE DEF s
  <2>2. s \in 0 .. start /\ \A i \in s .. start - 1 : m.info[i].cluster = k
    BY <1>1, <2>1 DEF StartsRun
  <2>3. \A i \in s .. start : i = start \/ i \in s .. start - 1
    BY <2>2
  <2> QED BY <2>2, <2>3 DEF s
<1>3. CASE ~(idx < start)
  <2>1. s = start
    BY <1>3 DEF RangeStart
  <2> HIDE DEF s
  <2>2. \A i \in s .. start : i = start
    BY <2>1
  <2> QED BY <2>1, <2>2 DEF s
<1> QED BY <1>2, <1>3

\* Glyphs of one cluster that end at the first of a range are in its span.
LEMMA SpanOfRun ==
  ASSUME NEW t, NEW l \in Nat, DOMAIN t = 1 .. l, NEW p \in 1 .. l, NEW q, NEW lo \in 1 .. p,
         \A r \in lo .. p : t[r].cluster = t[p].cluster
  PROVE  \A r \in lo .. p : r \in Cursor!Span(t, p, q)
<1> TAKE r \in lo .. p
<1>1. r \in DOMAIN t /\ (r .. p) \cup (p .. r) \subseteq lo .. p
  OBVIOUS
<1>2. \A x \in (r .. p) \cup (p .. r) : t[x].cluster = t[r].cluster
  BY <1>1
<1> QED BY <1>1, <1>2 DEF Cursor!Span, Cursor!SameRun

\* What a merge outside an edit joins besides the span ahead of the range.
Joins(t, p, q, lo, S) ==
  S \cup {r \in Cursor!Span(t, p, q) : lo <= r}

Stray(t, p) == SUBSET {r \in DOMAIN t : p < r /\ t[r].cluster = t[p].cluster}

\* merge_clusters behind the cursor: after everything was read in place, or
\* between edits with the cursor at the end of the text.
LEMMA MergedBehind ==
  ASSUME BufferInv, NEW m \in Mem, idx = len, Faces(View(m), m, 1, 0),
         haveOutput => outLen = idx /\ ~m.sep,
         NEW start \in Nat, NEW end \in Nat, start + 2 <= end, end <= len,
         MergedRange(m, start, end) \in Mem
  PROVE  LET t == View(m)
             p == 1 + start
             q == 1 + end - 1
         IN  View(MergedRange(m, start, end)) = Cursor!JoinedAt(t, Joins(t, p, q, p, {}), Cursor!LeastOf(t, p .. q))
<1> DEFINE t == View(m)
           e == RangeEnd(m, end)
           p == 1 + start
           q == 1 + end - 1
           S == Joins(t, p, q, p, {})
           k == LeastCluster(m.info, start, end)
           n == MergedRange(m, start, end)
<1>1. /\ outLen \in Nat /\ idx \in Nat /\ len \in Nat
      /\ Capacity \in Nat /\ len <= Capacity /\ outLen <= Capacity
      /\ Written \in Nat /\ From \in Nat
      /\ (haveOutput => Written = len /\ From = len) /\ (~haveOutput => Written = 0 /\ From = 0)
  BY InvFacts DEF Written, From
<1>2. t \in Seq(Glyph) /\ Len(t) = 1 + len - 1 /\ DOMAIN t = 1 .. Len(t)
  BY DEF Faces
<1>3. p \in 1 .. Len(t) /\ Cursor!LeastOf(t, p .. q) = k
  <2> HIDE DEF t, k
  <2>1. start < end /\ Faces(t, m, 1, 0)
    BY DEF t
  <2> QED BY <1>1, <2>1, LeastFaces DEF k
<1>4. /\ e \in end .. len
      /\ \A r \in p .. Len(t) : r \in Cursor!Span(t, p, q) <=> r <= 1 + e - 1
  <2>1. Faces(t, m, 1, 0)
    OBVIOUS
  <2> HIDE DEF t
  <2> QED BY <1>1, <2>1, AheadFaces, SMTT(30)
<1>20. \A r : r \in S <=> r \in Cursor!Span(t, p, q) /\ p <= r
  BY DEF Joins
<1>21. p = 1 + start
  OBVIOUS
<1>5. \A r \in 1 .. Len(t) : r \in S <=> start <= r - 1 /\ r - 1 < e
  <2> HIDE DEF t, e, p, q, S
  <2> TAKE r \in 1 .. Len(t)
  <2>1. r \in S <=> r \in Cursor!Span(t, p, q) /\ p <= r
    BY <1>20
  <2>2. CASE p <= r
    <3>1. r \in p .. Len(t)
      BY <1>3, <2>2
    <3> QED BY <1>1, <1>2, <1>4, <1>21, <2>1, <2>2, <3>1
  <2>3. CASE ~(p <= r)
    BY <1>2, <1>21, <2>1, <2>3
  <2> QED BY <2>2, <2>3
<1>6. RangeStart(m, start) = start /\ OutStart(m, start) = outLen
  BY <1>1 DEF RangeStart, OutStart
<1>7. \A c \in Int : ReachesInfo(m, start, end, c) <=> start <= c /\ c < e
  BY <1>1, <1>6 DEF ReachesInfo
<1>8. \A c \in Int : ~m.sep => (ReachesOut(m, start, end, c) <=> start <= c /\ c < e)
  BY <1>1, <1>6 DEF ReachesOut
<1>9. /\ \A c \in Cells : n.info[c] =
           IF ReachesInfo(m, start, end, c) THEN Cursor!Joined(m.info[c], k) ELSE m.info[c]
      /\ \A c \in Cells : OutBlock(n)[c] =
           IF ReachesOut(m, start, end, c) THEN Cursor!Joined(OutBlock(m)[c], k) ELSE OutBlock(m)[c]
  BY MergedRangeCells
<1> HIDE DEF t, e, p, q, S, k, n
<1>10. \A r \in 1 .. Written : OutBlock(n)[r - 1] =
           IF r \in S THEN Cursor!Joined(OutBlock(m)[r - 1], k) ELSE OutBlock(m)[r - 1]
  <2> TAKE r \in 1 .. Written
  <2>1. r - 1 \in Cells /\ r - 1 \in Int /\ r \in 1 .. Len(t) /\ ~m.sep
    BY <1>1, <1>2 DEF Cells
  <2> QED BY <1>5, <1>8, <1>9, <2>1
<1>11. \A x \in 1 .. len - From : n.info[From + x - 1] =
           IF Written + x \in S THEN Cursor!Joined(m.info[From + x - 1], k) ELSE m.info[From + x - 1]
  <2> TAKE x \in 1 .. len - From
  <2>1. From + x - 1 \in Cells /\ From + x - 1 \in Int /\ Written + x \in 1 .. Len(t) /\ From + x - 1 = Written + x - 1
    BY <1>1, <1>2 DEF Cells
  <2>2. Written + x \in S <=> ReachesInfo(m, start, end, From + x - 1)
    <3>1. ReachesInfo(m, start, end, From + x - 1) <=> start <= From + x - 1 /\ From + x - 1 < e
      BY <1>7, <2>1
    <3>2. Written + x \in S <=> start <= Written + x - 1 /\ Written + x - 1 < e
      BY <1>1, <1>5, <2>1
    <3> QED BY <2>1, <3>1, <3>2
  <2> QED BY <1>9, <2>1, <2>2
<1>12. n \in Mem
  BY DEF n
<1>13. View(n) = Cursor!JoinedAt(View(m), S, k)
  BY <1>10, <1>11, <1>12, JoinedView
<1> QED BY <1>3, <1>13 DEF S, k, n, t, p, q

\* The span of the range and stray glyphs behind it are joined.
StrayMerge(t, u, p, q) ==
  \E lo \in 1 .. p, S \in Stray(t, p) :
     u = Cursor!JoinedAt(t, Joins(t, p, q, lo, S), Cursor!LeastOf(t, p .. q))

\* merge_clusters without output, wherever the cursor is: a run of the output
\* of the pass before, if it is still in the input's block, goes along.
LEMMA MergedOutside ==
  ASSUME BufferInv, NEW m \in Mem, ~haveOutput, m.sep \/ outLen = 0 \/ len <= outLen,
         NEW start \in Nat, NEW end \in Nat, start + 2 <= end, end <= len,
         MergedRange(m, start, end) \in Mem
  PROVE  StrayMerge(View(m), View(MergedRange(m, start, end)), 1 + start, 1 + end - 1)
<1> DEFINE t == View(m)
           e == RangeEnd(m, end)
           s == RangeStart(m, start)
           o == OutStart(m, start)
           p == 1 + start
           q == 1 + end - 1
           R == {r \in DOMAIN t : p < r /\ ~m.sep /\ o < r /\ r <= outLen}
           lo == 1 + (IF ~m.sep /\ o < outLen /\ o < s THEN o ELSE s)
           S == Joins(t, p, q, lo, R)
           k == LeastCluster(m.info, start, end)
           n == MergedRange(m, start, end)
<1>1. /\ outLen \in Nat /\ len \in Nat
      /\ Capacity \in Nat /\ len <= Capacity /\ outLen <= Capacity
      /\ Written = 0 /\ From = 0
  BY InvFacts DEF Written, From
<1>15. Faces(t, m, 1, 0)
  BY FacesOutside
<1>2. /\ t \in Seq(Glyph) /\ Len(t) = 1 + len - 1 /\ DOMAIN t = 1 .. Len(t)
      /\ \A c \in 0 .. len - 1 : t[1 + c] = m.info[c]
  BY <1>15 DEF Faces
<1>3. p \in 1 .. Len(t) /\ Cursor!LeastOf(t, p .. q) = k
  <2> HIDE DEF t, k
  <2>1. start < end /\ 0 <= start
    OBVIOUS
  <2>2. /\ 1 + start \in 1 .. Len(t)
        /\ Cursor!LeastOf(t, (1 + start) .. (1 + end - 1)) = LeastCluster(m.info, start, end)
    BY <1>15, <2>1, LeastFaces
  <2> QED BY <2>2 DEF k
<1>4. /\ e \in end .. len
      /\ \A r \in p .. Len(t) : r \in Cursor!Span(t, p, q) <=> r <= 1 + e - 1
  <2> HIDE DEF t
  <2>1. 0 <= start
    OBVIOUS
  <2>2. /\ RangeEnd(m, end) \in end .. len
        /\ \A r \in 1 + start .. Len(t) :
             r \in Cursor!Span(t, 1 + start, 1 + end - 1) <=> r <= 1 + RangeEnd(m, end) - 1
    BY <1>15, <2>1, AheadFaces
  <2> QED BY <2>2
<1>5. s \in 0 .. start /\ \A i \in s .. start : m.info[i].cluster = m.info[start].cluster
  BY BehindOutside
<1>6. /\ o \in 0 .. outLen
      /\ ~m.sep => \A i \in o .. outLen - 1 : m.info[i].cluster = m.info[start].cluster
  <2>0. m.info[s].cluster = m.info[start].cluster
    BY <1>5
  <2>1. CASE idx = s
    <3>1. StartsRun(OutBlock(m), m.info[s].cluster, outLen, 0, o)
      BY <1>1, <2>1, RunStartIs DEF OutStart
    <3> QED BY <2>0, <3>1 DEF StartsRun, OutBlock
  <2>2. CASE idx # s
    <3>1. o = outLen
      BY <2>2 DEF OutStart
    <3> QED BY <1>1, <3>1
  <2> QED BY <2>1, <2>2
<1> HIDE DEF t, e, s, o, k, n
<1>19. lo \in 1 .. p /\ \A r \in lo .. p : r \in Cursor!Span(t, p, q)
  <2>1. lo \in 1 .. p
    BY <1>1, <1>5, <1>6
  <2>2. ASSUME NEW r \in lo .. p PROVE t[r].cluster = t[p].cluster
    <3>1. r - 1 \in 0 .. len - 1 /\ 1 + (r - 1) = r /\ start \in 0 .. len - 1 /\ 1 + start = p
      BY <1>1, <2>1, <2>2
    <3>2. t[r] = m.info[r - 1] /\ t[p] = m.info[start]
      BY <1>2, <3>1
    <3>3. m.info[r - 1].cluster = m.info[start].cluster
      <4>1. CASE ~m.sep /\ o < outLen /\ o < s
        <5>1. len <= outLen
          BY <1>1, <1>6, <4>1
        <5>2. r - 1 \in o .. outLen - 1
          BY <1>1, <1>6, <2>1, <2>2, <4>1, <5>1
        <5> QED BY <1>6, <4>1, <5>2
      <4>2. CASE ~(~m.sep /\ o < outLen /\ o < s)
        <5>1. r - 1 \in s .. start
          BY <1>5, <2>1, <2>2, <4>2
        <5> QED BY <1>5, <5>1
      <4> QED BY <4>1, <4>2
    <3> QED BY <3>2, <3>3
  <2>3. Len(t) \in Nat /\ DOMAIN t = 1 .. Len(t) /\ p \in 1 .. Len(t)
    BY <1>1, <1>2, <1>3
  <2> HIDE DEF lo, p, q
  <2>4. \A r \in lo .. p : t[r].cluster = t[p].cluster
    BY <2>2
  <2>5. \A r \in lo .. p : r \in Cursor!Span(t, p, q)
    BY <2>1, <2>3, <2>4, SpanOfRun
  <2> QED BY <2>1, <2>5
<1>7. \A c : ReachesInfo(m, start, end, c) <=> (s <= c /\ c < e) \/ (~m.sep /\ o <= c /\ c < outLen)
  BY DEF ReachesInfo, s, o, e
<1>9. /\ \A c \in Cells : n.info[c] =
           IF ReachesInfo(m, start, end, c) THEN Cursor!Joined(m.info[c], k) ELSE m.info[c]
  BY MergedRangeCells DEF k, n
<1>16. \A r : r \in S <=> \/ r \in DOMAIN t /\ p < r /\ ~m.sep /\ o < r /\ r <= outLen
                          \/ r \in Cursor!Span(t, p, q) /\ lo <= r
  BY DEF Joins
<1>17. R \in Stray(t, p)
  <2>1. ASSUME NEW r \in DOMAIN t, p < r, ~m.sep, o < r, r <= outLen PROVE t[r].cluster = t[p].cluster
    <3>1. /\ r - 1 \in 0 .. len - 1 /\ 1 + (r - 1) = r /\ r - 1 \in o .. outLen - 1
          /\ start \in 0 .. len - 1 /\ 1 + start = p
      BY <1>1, <1>2, <1>6, <2>1
    <3>2. t[r] = m.info[r - 1] /\ t[p] = m.info[start]
      BY <1>2, <3>1
    <3> QED BY <1>6, <2>1, <3>1, <3>2
  <2> QED BY <2>1 DEF Stray
<1> HIDE DEF S, R, q
<1>10. \A x \in 1 .. len : ReachesInfo(m, start, end, x - 1) <=> x \in S
  <2> TAKE x \in 1 .. len
  <2>1. x \in 1 .. Len(t) /\ x \in DOMAIN t /\ p = 1 + start
    BY <1>1, <1>2
  <2>2. ReachesInfo(m, start, end, x - 1) <=> (s <= x - 1 /\ x - 1 < e) \/ (~m.sep /\ o <= x - 1 /\ x - 1 < outLen)
    BY <1>7
  <2>3. x \in S <=> (p < x /\ ~m.sep /\ o < x /\ x <= outLen) \/ (x \in Cursor!Span(t, p, q) /\ lo <= x)
    BY <1>16, <2>1
  <2>4. CASE x <= p
    <3>1. x \in S <=> lo <= x
      <4>1. lo <= x => x \in lo .. p
        BY <1>19, <2>1, <2>4
      <4> QED BY <1>19, <2>1, <2>3, <2>4, <4>1
    <3>2. CASE ~m.sep /\ o < outLen /\ o < s
      <4>1. len <= outLen /\ lo = 1 + o
        BY <1>1, <1>6, <3>2
      <4> QED BY <1>1, <1>4, <1>5, <1>6, <2>1, <2>2, <2>4, <3>1, <3>2, <4>1
    <3>3. CASE ~(~m.sep /\ o < outLen /\ o < s)
      <4>1. lo = 1 + s
        BY <3>3
      <4> QED BY <1>1, <1>4, <1>5, <1>6, <2>1, <2>2, <2>4, <3>1, <3>3, <4>1
    <3> QED BY <3>2, <3>3
  <2>5. CASE ~(x <= p)
    <3>1. x \in p .. Len(t)
      BY <2>1, <2>5
    <3>2. x \in Cursor!Span(t, p, q) <=> x <= 1 + e - 1
      BY <1>4, <3>1
    <3>3. lo <= x
      BY <1>19, <2>1, <2>5
    <3> HIDE DEF lo
    <3> QED BY <1>1, <1>4, <1>5, <1>6, <2>1, <2>2, <2>3, <2>5, <3>2, <3>3
  <2> QED BY <2>4, <2>5
<1>11. \A x \in 1 .. len - From : n.info[From + x - 1] =
           IF Written + x \in S THEN Cursor!Joined(m.info[From + x - 1], k) ELSE m.info[From + x - 1]
  <2> TAKE x \in 1 .. len - From
  <2>1. From + x - 1 \in Cells /\ Written + x = x /\ From + x - 1 = x - 1 /\ x \in 1 .. len
    BY <1>1 DEF Cells
  <2>2. n.info[x - 1] = IF ReachesInfo(m, start, end, x - 1) THEN Cursor!Joined(m.info[x - 1], k) ELSE m.info[x - 1]
    BY <1>9, <2>1
  <2> QED BY <1>10, <2>1, <2>2
<1>12. n \in Mem /\ \A r \in 1 .. Written : FALSE
  BY <1>1 DEF n
<1>13. View(n) = Cursor!JoinedAt(View(m), S, k)
  <2>1. \A r \in 1 .. Written : OutBlock(n)[r - 1] =
           IF r \in S THEN Cursor!Joined(OutBlock(m)[r - 1], k) ELSE OutBlock(m)[r - 1]
    BY <1>12
  <2> QED BY <1>11, <1>12, <2>1, JoinedView
<1>14. View(n) = Cursor!JoinedAt(t, Joins(t, p, q, lo, R), Cursor!LeastOf(t, p .. q))
  BY <1>3, <1>13 DEF S, t
<1>18. StrayMerge(t, View(n), p, q)
  BY <1>14, <1>17, <1>19 DEF StrayMerge
<1> QED BY <1>18 DEF n, t, q

-----------------------------------------------------------------------------
(* Flagging.                                                                *)

\* A view is known by its glyphs.
LEMMA PointwiseView ==
  ASSUME BufferInv, NEW n \in Mem, NEW u, u = [p \in 1 .. Written + (len - From) |-> u[p]],
         \A p \in 1 .. Written : OutBlock(n)[p - 1] = u[p],
         \A p \in 1 .. len - From : n.info[From + p - 1] = u[Written + p]
  PROVE  View(n) = u
<1> DEFINE l == Written + (len - From)
           v == View(n)
<1>1. Written \in Nat /\ From \in Nat /\ len \in Nat /\ From <= len
  BY ShownIs DEF Shown
<1>2. /\ v \in Seq(Glyph) /\ DOMAIN v = 1 .. l /\ Len(v) = l
      /\ \A p \in 1 .. Written : v[p] = OutBlock(n)[p - 1]
      /\ \A p \in 1 .. len - From : v[Written + p] = n.info[From + p - 1]
  BY ViewIsText
<1> HIDE DEF v
<1>3. ASSUME NEW p \in 1 .. l
      PROVE  v[p] = u[p]
  <2>1. CASE p <= Written
    <3>1. p \in 1 .. Written
      BY <1>1, <2>1
    <3> QED BY <1>2, <3>1
  <2>2. CASE ~(p <= Written)
    <3>1. PICK x \in 1 .. len - From : p = Written + x
      <4>1. p - Written \in 1 .. len - From /\ p = Written + (p - Written)
        BY <1>1, <2>2
      <4> QED BY <4>1
    <3> QED BY <1>2, <3>1
  <2> QED BY <2>1, <2>2
<1>4. v = [p \in 1 .. l |-> v[p]]
  BY <1>2
<1>5. v = u
  BY <1>3, <1>4
<1> QED BY <1>5 DEF v

\* A glyph that no line may be broken before.
Unbroken(g) == [g EXCEPT !.unsafe = TRUE]

\* Blocks n are blocks m with the glyphs outside cluster k flagged that stand at
\* the positions p to q of the text.
FlagsPlaces(m, n, p, q, k) ==
  /\ \A r \in 1 .. Written : OutBlock(n)[r - 1] =
        IF r \in p .. q /\ OutBlock(m)[r - 1].cluster # k
        THEN Unbroken(OutBlock(m)[r - 1]) ELSE OutBlock(m)[r - 1]
  /\ \A x \in 1 .. len - From : n.info[From + x - 1] =
        IF Written + x \in p .. q /\ m.info[From + x - 1].cluster # k
        THEN Unbroken(m.info[From + x - 1]) ELSE m.info[From + x - 1]

\* Glyphs flagged in the blocks are flagged in the text.
LEMMA FlaggedView ==
  ASSUME BufferInv, NEW m \in Mem, NEW n \in Mem, NEW p, NEW q, NEW k,
         Cursor!LeastOf(View(m), p .. q) = k, FlagsPlaces(m, n, p, q, k)
  PROVE  View(n) = Cursor!Flagged(View(m), p, q)
<1> DEFINE l == Written + (len - From)
           t == View(m)
           u == Cursor!Flagged(t, p, q)
<1>1. /\ DOMAIN t = 1 .. l
      /\ \A r \in 1 .. Written : t[r] = OutBlock(m)[r - 1]
      /\ \A r \in 1 .. len - From : t[Written + r] = m.info[From + r - 1]
  BY ViewIsText
<1>2. Written \in Nat /\ From \in Nat /\ len \in Nat /\ From <= len
  BY ShownIs DEF Shown
<1>3. u = [r \in 1 .. l |-> IF r \in p .. q /\ t[r].cluster # k THEN Unbroken(t[r]) ELSE t[r]]
  BY <1>1 DEF Cursor!Flagged, Unbroken
<1> HIDE DEF t, u
<1>4. \A r \in 1 .. Written : r \in 1 .. l /\ OutBlock(n)[r - 1] = u[r]
  BY <1>1, <1>2, <1>3 DEF FlagsPlaces
<1>5. \A x \in 1 .. len - From : n.info[From + x - 1] = u[Written + x]
  <2> TAKE x \in 1 .. len - From
  <2>1. Written + x \in 1 .. l
    BY <1>2
  <2> QED BY <1>1, <1>3, <2>1 DEF FlagsPlaces
<1>6. u = [r \in 1 .. l |-> u[r]]
  BY <1>3
<1>7. View(n) = u
  BY <1>4, <1>5, <1>6, PointwiseView
<1> QED BY <1>7 DEF u, t

\* unsafe_to_break_impl, cell by cell.
LEMMA UnsafeMemCells ==
  ASSUME NEW m \in Mem, NEW start, NEW end
  PROVE  LET n == UnsafeMem(m, start, end)
             k == LeastCluster(m.info, start, end)
         IN  /\ n.sep = m.sep /\ n.pos = m.pos
             /\ \A c \in Cells : n.info[c] =
                  IF start <= c /\ c < end /\ m.info[c].cluster # k THEN Unbroken(m.info[c]) ELSE m.info[c]
<1>1. UnsafeMem(m, start, end) = [m EXCEPT !.info = SetUnsafe(m.info, start, end, LeastCluster(m.info, start, end))]
  BY DEF UnsafeMem
<1>2. DOMAIN m.info = Cells
  BY DEF Mem
<1> QED BY <1>1, <1>2 DEF SetUnsafe, Unbroken, Mem

\* Flagging unread glyphs flags their place in the text.
LEMMA FlaggedEditing ==
  ASSUME BufferInv, haveOutput, NEW m \in Mem, m.sep \/ outLen <= idx,
         NEW start \in Nat, NEW end \in Nat, idx <= start, start < end, end <= len,
         UnsafeMem(m, start, end) \in Mem
  PROVE  View(UnsafeMem(m, start, end)) =
           Cursor!Flagged(View(m), outLen - idx + 1 + start, outLen - idx + 1 + end - 1)
<1> DEFINE t == View(m)
           D == outLen - idx + 1
           p == D + start
           q == D + end - 1
           k == LeastCluster(m.info, start, end)
           n == UnsafeMem(m, start, end)
<1>1. /\ outLen \in Nat /\ idx \in Nat /\ len \in Nat /\ idx <= len /\ Written = outLen /\ From = idx
      /\ Capacity \in Nat /\ len <= Capacity /\ outLen <= Capacity
  BY InvFacts DEF BufferInv, WithinAllocation, Written, From
<1>2. Faces(t, m, D, idx)
  BY FacesEditing
<1>3. p \in 1 .. Len(t) /\ Cursor!LeastOf(t, p .. q) = k
  <2> HIDE DEF t, D, k
  <2> QED BY <1>1, <1>2, LeastFaces DEF k
<1>4. /\ n.sep = m.sep /\ n.pos = m.pos
      /\ \A c \in Cells : n.info[c] =
           IF start <= c /\ c < end /\ m.info[c].cluster # k THEN Unbroken(m.info[c]) ELSE m.info[c]
  BY UnsafeMemCells
<1>5. D = outLen - idx + 1 /\ p = D + start /\ q = D + end - 1
  OBVIOUS
<1>6. n \in Mem
  OBVIOUS
<1> HIDE DEF t, D, p, q, k, n
<1>7. \A r \in 1 .. Written : OutBlock(n)[r - 1] =
           IF r \in p .. q /\ OutBlock(m)[r - 1].cluster # k
           THEN Unbroken(OutBlock(m)[r - 1]) ELSE OutBlock(m)[r - 1]
  <2> TAKE r \in 1 .. Written
  <2>1. r - 1 \in Cells /\ r \notin p .. q
    BY <1>1, <1>5 DEF Cells
  <2>2. OutBlock(n)[r - 1] = OutBlock(m)[r - 1]
    <3>1. CASE m.sep
      BY <1>4, <3>1 DEF OutBlock
    <3>2. CASE ~m.sep
      <4>1. ~(start <= r - 1)
        BY <1>1, <3>2
      <4> QED BY <1>4, <2>1, <3>2, <4>1 DEF OutBlock
    <3> QED BY <3>1, <3>2
  <2> QED BY <2>1, <2>2
<1>8. \A x \in 1 .. len - From : n.info[From + x - 1] =
           IF Written + x \in p .. q /\ m.info[From + x - 1].cluster # k
           THEN Unbroken(m.info[From + x - 1]) ELSE m.info[From + x - 1]
  <2> TAKE x \in 1 .. len - From
  <2>1. From + x - 1 \in Cells /\ (Written + x \in p .. q <=> start <= From + x - 1 /\ From + x - 1 < end)
    BY <1>1, <1>5 DEF Cells
  <2> QED BY <1>4, <2>1
<1>9. Cursor!LeastOf(View(m), p .. q) = k
  BY <1>3 DEF t
<1>10. View(n) = Cursor!Flagged(View(m), p, q)
  <2>1. FlagsPlaces(m, n, p, q, k)
    BY <1>7, <1>8 DEF FlagsPlaces
  <2> QED BY <1>6, <1>9, <2>1, FlaggedView
<1> QED BY <1>10 DEF n, p, q, D

\* The same outside an edit, and behind the cursor of one that read all in place.
LEMMA FlaggedOutside ==
  ASSUME BufferInv, NEW m \in Mem, Faces(View(m), m, 1, 0),
         haveOutput => outLen = idx /\ idx = len /\ ~m.sep,
         NEW start \in Nat, NEW end \in Nat, start < end, end <= len,
         UnsafeMem(m, start, end) \in Mem
  PROVE  View(UnsafeMem(m, start, end)) = Cursor!Flagged(View(m), 1 + start, 1 + end - 1)
<1> DEFINE t == View(m)
           p == 1 + start
           q == 1 + end - 1
           k == LeastCluster(m.info, start, end)
           n == UnsafeMem(m, start, end)
<1>1. /\ outLen \in Nat /\ idx \in Nat /\ len \in Nat
      /\ Capacity \in Nat /\ len <= Capacity /\ outLen <= Capacity
      /\ Written \in Nat /\ From \in Nat
      /\ (haveOutput => Written = len /\ From = len) /\ (~haveOutput => Written = 0 /\ From = 0)
  BY InvFacts DEF Written, From
<1>2. Faces(t, m, 1, 0)
  OBVIOUS
<1>3. p \in 1 .. Len(t) /\ Cursor!LeastOf(t, p .. q) = k
  <2> HIDE DEF t, k
  <2>1. 0 <= start
    OBVIOUS
  <2>2. /\ 1 + start \in 1 .. Len(t)
        /\ Cursor!LeastOf(t, (1 + start) .. (1 + end - 1)) = LeastCluster(m.info, start, end)
    BY <1>2, <2>1, LeastFaces
  <2> QED BY <2>2 DEF k
<1>4. /\ n.sep = m.sep /\ n.pos = m.pos
      /\ \A c \in Cells : n.info[c] =
           IF start <= c /\ c < end /\ m.info[c].cluster # k THEN Unbroken(m.info[c]) ELSE m.info[c]
  BY UnsafeMemCells
<1>5. p = 1 + start /\ q = 1 + end - 1
  OBVIOUS
<1>6. n \in Mem
  OBVIOUS
<1> HIDE DEF t, p, q, k, n
<1>7. \A r \in 1 .. Written : OutBlock(n)[r - 1] =
           IF r \in p .. q /\ OutBlock(m)[r - 1].cluster # k
           THEN Unbroken(OutBlock(m)[r - 1]) ELSE OutBlock(m)[r - 1]
  <2> TAKE r \in 1 .. Written
  <2>1. r - 1 \in Cells /\ (r \in p .. q <=> start <= r - 1 /\ r - 1 < end) /\ ~m.sep
    BY <1>1, <1>5 DEF Cells
  <2>2. OutBlock(n) = n.info /\ OutBlock(m) = m.info
    BY <1>4, <2>1 DEF OutBlock
  <2> QED BY <1>4, <2>1, <2>2
<1>8. \A x \in 1 .. len - From : n.info[From + x - 1] =
           IF Written + x \in p .. q /\ m.info[From + x - 1].cluster # k
           THEN Unbroken(m.info[From + x - 1]) ELSE m.info[From + x - 1]
  <2> TAKE x \in 1 .. len - From
  <2>1. From + x - 1 \in Cells /\ (Written + x \in p .. q <=> start <= From + x - 1 /\ From + x - 1 < end)
    BY <1>1, <1>5 DEF Cells
  <2> QED BY <1>4, <2>1
<1>9. Cursor!LeastOf(View(m), p .. q) = k
  BY <1>3 DEF t
<1>10. View(n) = Cursor!Flagged(View(m), p, q)
  <2>1. FlagsPlaces(m, n, p, q, k)
    BY <1>7, <1>8 DEF FlagsPlaces
  <2> QED BY <1>6, <1>9, <2>1, FlaggedView
<1> QED BY <1>10 DEF n, p, q

-----------------------------------------------------------------------------
(* Merging and flagging the output.                                         *)

\* The least cluster the loop over a range of cells finds.
LEMMA LeastOfCells ==
  ASSUME NEW b \in Block, NEW t \in Seq(Glyph), NEW start \in Nat, NEW end \in Nat,
         start < end, end <= Capacity, end <= Len(t),
         \A r \in start + 1 .. end : t[r] = b[r - 1]
  PROVE  Cursor!LeastOf(t, (start + 1) .. end) = LeastCluster(b, start, end)
<1> DEFINE k == LeastCluster(b, start, end)
           p == start + 1
<1>1. p \in 1 .. Len(t) /\ end \in 1 .. Len(t) /\ p <= end /\ Capacity \in Nat
  BY BufferAssumption
<1>2. /\ k \in ClustersOf(b, start, end)
      /\ \A y \in ClustersOf(b, start, end) : k <= y
  <2>1. \A i \in start .. end - 1 : i \in Cells
    BY <1>1 DEF Cells
  <2>2. ClusterValues \cup {0} \subseteq Nat
    BY BufferAssumption
  <2>3. ClustersOf(b, start, end) \subseteq Nat
    BY <2>1, <2>2 DEF ClustersOf, Block, Glyph
  <2>4. start \in start .. end - 1
    OBVIOUS
  <2>5. ClustersOf(b, start, end) # {}
    BY <2>4 DEF ClustersOf
  <2> QED BY <2>3, <2>5, LeastExists DEF LeastCluster
<1> HIDE DEF k
<1>4. \E r \in p .. end : k = t[r].cluster
  <2>1. PICK c \in start .. end - 1 : k = b[c].cluster
    BY <1>2 DEF ClustersOf
  <2>2. c + 1 \in p .. end /\ (c + 1) - 1 = c
    OBVIOUS
  <2> QED BY <2>1, <2>2
<1>5. \A r \in p .. end : k <= t[r].cluster
  <2> TAKE r \in p .. end
  <2>1. r - 1 \in start .. end - 1
    BY <1>1
  <2>2. b[r - 1].cluster \in ClustersOf(b, start, end)
    BY <2>1 DEF ClustersOf
  <2> QED BY <1>2, <2>2
<1> HIDE DEF p
<1>6. Cursor!LeastOf(t, p .. end) = k
  BY <1>1, <1>4, <1>5, LeastIs
<1> QED BY <1>6 DEF p, k

\* The run of the cell at i ends here.
LEMMA RunEndFrom ==
  ASSUME NEW a, NEW i \in Nat, NEW limit \in Nat, i < limit
  PROVE  LET e == RunEnd(a, i + 1, limit)
         IN  /\ e \in i + 1 .. limit
             /\ \A x \in i + 1 .. e - 1 : a[x].cluster = a[i].cluster
             /\ e < limit => a[e].cluster # a[i].cluster
<1> DEFINE e == RunEnd(a, i + 1, limit)
           j == i + 1
<1>1. j \in Nat /\ j <= limit /\ j - 1 = i
  OBVIOUS
<1>2. EndsRun(a, j, limit, e)
  BY <1>1, RunEndIs
<1> HIDE DEF e, j
<1>3. /\ e \in j .. limit
      /\ \A x \in j .. e - 1 : a[x].cluster = a[j - 1].cluster
      /\ e < limit => a[e].cluster # a[j - 1].cluster
  BY <1>2 DEF EndsRun
<1>4. /\ e \in j .. limit
      /\ \A x \in j .. e - 1 : a[x].cluster = a[i].cluster
      /\ e < limit => a[e].cluster # a[i].cluster
  BY <1>1, <1>3
<1> QED BY <1>4 DEF j, e

\* The ends of what merge_out_clusters joins.
OutEnd(end) == RunEnd(OutBlock(mem), end, outLen)

OutFirst(start) == RunStart(OutBlock(mem), OutBlock(mem)[start].cluster, start, 0)

InfoEnd(end) ==
  IF OutEnd(end) = outLen /\ idx < len /\ mem.info[idx].cluster = OutBlock(mem)[OutEnd(end) - 1].cluster
  THEN RunEnd(mem.info, idx + 1, len) ELSE idx

\* merge_out_clusters, cell by cell.
LEMMA MergedOutCells ==
  ASSUME BufferInv, haveOutput, NEW start, NEW end, OutEnd(end) <= outLen, OutEnd(end) \in Nat
  PROVE  LET n == MergedOutMem(mem, start, end)
             k == LeastCluster(OutBlock(mem), start, end)
         IN  /\ \A c \in Cells : c < outLen => OutBlock(n)[c] =
                  IF OutFirst(start) <= c /\ c < OutEnd(end) THEN Cursor!Joined(OutBlock(mem)[c], k) ELSE OutBlock(mem)[c]
             /\ \A c \in Cells : idx <= c => n.info[c] =
                  IF c < InfoEnd(end) THEN Cursor!Joined(mem.info[c], k) ELSE mem.info[c]
<1> DEFINE k == LeastCluster(OutBlock(mem), start, end)
           s == OutFirst(start)
           e == OutEnd(end)
           f == InfoEnd(end)
           b == SetClusters(mem.info, idx, f, k, FALSE)
           w == [mem EXCEPT !.info = b]
           out == SetClusters(OutBlock(w), s, e, k, FALSE)
           n == WithOut(w, out)
<1>1. MergedOutMem(mem, start, end) = n
  BY DEF MergedOutMem, OutFirst, OutEnd, InfoEnd
<1>2. /\ mem \in Mem /\ mem.info \in Block /\ mem.pos \in Block /\ OutBlock(mem) \in Block /\ mem.sep \in BOOLEAN
      /\ idx \in Nat /\ outLen \in Nat /\ (~mem.sep => outLen <= idx)
      /\ e <= outLen /\ e \in Nat /\ \A c \in Cells : c \in Int
  BY InvFacts, OutBlockIsBlock DEF BufferInv, InPlaceOutputBehindCursor, Cells
<1> HIDE DEF k, s, e, f
<1>3. \A c \in Cells : b[c] = IF idx <= c /\ c < f THEN Cursor!Joined(mem.info[c], k) ELSE mem.info[c]
  <2> DEFINE a == mem.info
  <2>1. a \in Block
    BY <1>2
  <2> HIDE DEF a
  <2>2. \A c \in Cells : SetClusters(a, idx, f, k, FALSE)[c] =
          IF idx <= c /\ c < f THEN Cursor!Joined(a[c], k) ELSE a[c]
    BY <2>1, JoinedCells
  <2> QED BY <2>2 DEF a
<1>4. CASE mem.sep
  <2>1. w.info = b /\ w.pos = mem.pos /\ w.sep = mem.sep /\ OutBlock(w) = mem.pos /\ OutBlock(mem) = mem.pos
    BY <1>2, <1>4 DEF Mem, OutBlock
  <2>2. \A c \in Cells : out[c] = IF s <= c /\ c < e THEN Cursor!Joined(mem.pos[c], k) ELSE mem.pos[c]
    <3> DEFINE a == OutBlock(w)
    <3>1. a \in Block
      BY <1>2, <2>1
    <3> HIDE DEF a, w
    <3>2. \A c \in Cells : SetClusters(a, s, e, k, FALSE)[c] =
            IF s <= c /\ c < e THEN Cursor!Joined(a[c], k) ELSE a[c]
      BY <3>1, JoinedCells
    <3> QED BY <2>1, <3>2 DEF a
  <2>3. n.info = b /\ n.pos = out /\ n.sep = mem.sep
    <3>1. n = [w EXCEPT !.pos = out]
      BY <1>4, <2>1 DEF WithOut
    <3> QED BY <1>2, <2>1, <3>1 DEF Mem
  <2>4. OutBlock(n) = out
    BY <1>4, <2>3 DEF OutBlock
  <2> HIDE DEF b, w, out, n
  <2> QED BY <1>1, <1>3, <2>1, <2>2, <2>3, <2>4 DEF k, s, e, f
<1>5. CASE ~mem.sep
  <2>1. w.info = b /\ w.sep = mem.sep /\ OutBlock(w) = b /\ OutBlock(mem) = mem.info
    BY <1>2, <1>5 DEF Mem, OutBlock
  <2>2. out = [c \in Cells |-> IF s <= c /\ c < e THEN WithCluster(b[c], k, FALSE) ELSE b[c]]
    <3>1. DOMAIN b = Cells
      BY <1>2 DEF SetClusters, Block
    <3> HIDE DEF w, b
    <3> QED BY <2>1, <3>1 DEF SetClusters
  <2>3. n.info = out /\ n.sep = mem.sep
    <3>1. n = [w EXCEPT !.info = out]
      BY <1>5, <2>1 DEF WithOut
    <3> QED BY <1>2, <2>1, <3>1 DEF Mem
  <2>4. OutBlock(n) = out
    BY <1>5, <2>3 DEF OutBlock
  <2> HIDE DEF b, w, out, n
  <2>5. \A c \in Cells : c < outLen => out[c] = IF s <= c /\ c < e THEN Cursor!Joined(mem.info[c], k) ELSE mem.info[c]
    <3> TAKE c \in Cells
    <3> HAVE c < outLen
    <3>1. ~(idx <= c)
      BY <1>2, <1>5
    <3>2. b[c] = mem.info[c] /\ mem.info[c] \in Glyph
      BY <1>2, <1>3, <3>1 DEF Block
    <3>3. WithCluster(b[c], k, FALSE) = Cursor!Joined(mem.info[c], k)
      BY <3>2, JoinedGlyph
    <3> QED BY <2>2, <3>2, <3>3
  <2>6. \A c \in Cells : idx <= c => out[c] = IF c < f THEN Cursor!Joined(mem.info[c], k) ELSE mem.info[c]
    <3> TAKE c \in Cells
    <3> HAVE idx <= c
    <3>1. ~(c < e)
      BY <1>2, <1>5
    <3> QED BY <1>3, <2>2, <3>1
  <2> QED BY <1>1, <2>1, <2>3, <2>4, <2>5, <2>6 DEF k, s, e, f
<1> QED BY <1>2, <1>4, <1>5

\* merge_out_clusters joins the span of the range.
LEMMA MergedOutView ==
  ASSUME BufferInv, haveOutput,
         NEW start \in Nat, NEW end \in Nat, start + 2 <= end, end <= outLen,
         MergedOutMem(mem, start, end) \in Mem
  PROVE  LET t == View(mem)
             p == start + 1
             q == end
         IN  /\ p \in 1 .. Len(t) /\ q \in 1 .. Len(t)
             /\ View(MergedOutMem(mem, start, end)) = Cursor!JoinedAt(t, Cursor!Span(t, p, q), Cursor!LeastOf(t, p .. q))
<1> DEFINE t == View(mem)
           out == OutBlock(mem)
           s == OutFirst(start)
           e == OutEnd(end)
           f == InfoEnd(end)
           last == IF e = outLen THEN outLen + (f - idx) ELSE e
           p == start + 1
           q == end
           S == Cursor!Span(t, p, q)
           k == LeastCluster(out, start, end)
           n == MergedOutMem(mem, start, end)
<1>1. /\ outLen \in Nat /\ idx \in Nat /\ len \in Nat /\ idx <= len /\ Written = outLen /\ From = idx
      /\ Capacity \in Nat /\ len <= Capacity /\ outLen <= Capacity /\ out \in Block /\ mem \in Mem
  BY InvFacts, OutBlockIsBlock DEF BufferInv, WithinAllocation, Written, From
<1>2. /\ t \in Seq(Glyph) /\ Len(t) = outLen + (len - idx)
      /\ \A r \in 1 .. outLen : t[r] = out[r - 1]
      /\ \A x \in 1 .. len - idx : t[outLen + x] = mem.info[idx + x - 1]
  BY <1>1, ViewIsText
<1>3. EndsRun(out, end, outLen, e) /\ StartsRun(out, out[start].cluster, start, 0, s)
  BY <1>1, RunEndIs, RunStartIs DEF OutEnd, OutFirst
<1>4. /\ e \in end .. outLen
      /\ \A i \in end .. e - 1 : out[i].cluster = out[end - 1].cluster
      /\ e < outLen => out[e].cluster # out[end - 1].cluster
  BY <1>3 DEF EndsRun
<1>5. /\ s \in 0 .. start
      /\ \A i \in s .. start - 1 : out[i].cluster = out[start].cluster
      /\ s > 0 => out[s - 1].cluster # out[start].cluster
  BY <1>3 DEF StartsRun
<1>6. out[e - 1].cluster = out[end - 1].cluster
  <2>1. e = end \/ e - 1 \in end .. e - 1
    BY <1>4
  <2> QED BY <1>4, <2>1
<1>7. /\ f \in idx .. len
      /\ e # outLen => f = idx
      /\ e = outLen => \A i \in idx .. f - 1 : mem.info[i].cluster = out[end - 1].cluster
      /\ e = outLen /\ f < len => mem.info[f].cluster # out[end - 1].cluster
  <2>1. CASE e = outLen /\ idx < len /\ mem.info[idx].cluster = out[e - 1].cluster
    <3>1. f = RunEnd(mem.info, idx + 1, len)
      BY <2>1 DEF InfoEnd
    <3>3. /\ f \in idx + 1 .. len
          /\ \A i \in idx + 1 .. f - 1 : mem.info[i].cluster = mem.info[idx].cluster
          /\ f < len => mem.info[f].cluster # mem.info[idx].cluster
      <4> HIDE DEF f
      <4> QED BY <1>1, <2>1, <3>1, RunEndFrom
    <3>4. \A i \in idx .. f - 1 : i = idx \/ i \in idx + 1 .. f - 1
      BY <1>1, <3>3
    <3>5. f \in idx .. len
      BY <1>1, <3>3
    <3> HIDE DEF e, f, out
    <3> QED BY <1>6, <2>1, <3>3, <3>4, <3>5
  <2>2. CASE ~(e = outLen /\ idx < len /\ mem.info[idx].cluster = out[e - 1].cluster)
    <3>1. f = idx
      BY <2>2 DEF InfoEnd
    <3> HIDE DEF e, f, out
    <3> QED BY <1>1, <1>6, <2>2, <3>1
  <2> QED BY <2>1, <2>2
<1>8. /\ \A c \in Cells : c < outLen => OutBlock(n)[c] =
           IF s <= c /\ c < e THEN Cursor!Joined(out[c], k) ELSE out[c]
      /\ \A c \in Cells : idx <= c => n.info[c] =
           IF c < f THEN Cursor!Joined(mem.info[c], k) ELSE mem.info[c]
  <2>1. OutEnd(end) \in Nat /\ OutEnd(end) <= outLen
    BY <1>4
  <2> QED BY <2>1, MergedOutCells
<1>9. Cursor!LeastOf(t, p .. q) = k
  <2>1. \A r \in start + 1 .. end : t[r] = out[r - 1]
    BY <1>1, <1>2
  <2>2. start < end /\ end <= Capacity /\ end <= Len(t)
    BY <1>1, <1>2
  <2> HIDE DEF t, out
  <2> QED BY <1>1, <1>2, <2>1, <2>2, LeastOfCells
<1>10. last = IF e = outLen THEN outLen + (f - idx) ELSE e
  OBVIOUS
<1>11. p = start + 1 /\ q = end
  OBVIOUS
<1>12. n \in Mem
  OBVIOUS
<1> HIDE DEF t, out, s, e, f, last, p, q, k, n
<1>13. p \in 1 .. Len(t) /\ q \in 1 .. Len(t) /\ p < q /\ last \in q .. Len(t) /\ s + 1 \in 1 .. p
  BY <1>1, <1>2, <1>4, <1>5, <1>7, <1>10, <1>11
<1>14. t[q] = out[end - 1] /\ t[p] = out[start]
  <2>1. q \in 1 .. outLen /\ p \in 1 .. outLen /\ p - 1 = start
    BY <1>1, <1>11
  <2> QED BY <1>2, <1>11, <2>1
<1>15. \A r \in q .. last : t[r].cluster = t[q].cluster
  <2> TAKE r \in q .. last
  <2>1. CASE r <= outLen
    <3>1. r \in 1 .. outLen /\ (r - 1 = end - 1 \/ r - 1 \in end .. e - 1)
      BY <1>1, <1>4, <1>7, <1>10, <1>11, <2>1
    <3> QED BY <1>2, <1>4, <1>14, <3>1
  <2>2. CASE ~(r <= outLen)
    <3>1. e = outLen /\ idx + (r - outLen) - 1 \in idx .. f - 1 /\ r - outLen \in 1 .. len - idx
          /\ outLen + (r - outLen) = r
      BY <1>1, <1>4, <1>7, <1>10, <1>11, <2>2
    <3>2. t[r] = mem.info[idx + (r - outLen) - 1]
      BY <1>2, <3>1
    <3> QED BY <1>7, <1>14, <3>1, <3>2
  <2> QED BY <2>1, <2>2
<1>16. last < Len(t) => t[last + 1].cluster # t[q].cluster
  <2> HAVE last < Len(t)
  <2>1. CASE e < outLen
    <3>1. last = e /\ e + 1 \in 1 .. outLen /\ e + 1 - 1 = e
      BY <1>1, <1>4, <1>10, <2>1
    <3>2. t[last + 1] = out[e]
      <4>1. t[e + 1] = out[e + 1 - 1]
        BY <1>2, <1>4, <3>1
      <4> QED BY <3>1, <4>1
    <3> QED BY <1>4, <1>14, <2>1, <3>2
  <2>2. CASE ~(e < outLen)
    <3>1. e = outLen /\ f < len /\ f - idx + 1 \in 1 .. len - idx /\ last + 1 = outLen + (f - idx + 1)
          /\ idx + (f - idx + 1) - 1 = f
      BY <1>1, <1>2, <1>4, <1>7, <1>10, <2>2
    <3>2. t[last + 1] = mem.info[f]
      BY <1>2, <3>1
    <3> QED BY <1>7, <1>14, <3>1, <3>2
  <2> QED BY <2>1, <2>2
<1>17. \A r \in s + 1 .. p : t[r].cluster = t[p].cluster
  <2> TAKE r \in s + 1 .. p
  <2>1. r \in 1 .. outLen /\ (r - 1 = start \/ r - 1 \in s .. start - 1)
    BY <1>1, <1>5, <1>11
  <2> QED BY <1>2, <1>5, <1>14, <2>1
<1>18. s > 0 => t[s].cluster # t[p].cluster
  <2> HAVE s > 0
  <2>1. s \in 1 .. outLen
    BY <1>1, <1>5
  <2> QED BY <1>2, <1>5, <1>14, <2>1
<1>19. \A r \in p .. Len(t) : r \in S <=> r <= last
  BY <1>2, <1>13, <1>15, <1>16, SpanAhead
<1>20. \A r \in 1 .. p : r \in S <=> s + 1 <= r
  <2> DEFINE first == s + 1
  <2>1. first \in 1 .. p /\ (\A r \in first .. p : t[r].cluster = t[p].cluster)
    BY <1>13, <1>17
  <2>3. first > 1 => t[first - 1].cluster # t[p].cluster
    <3>1. first - 1 = s /\ (first > 1 => s > 0)
      BY <1>5
    <3> HIDE DEF first
    <3> QED BY <1>18, <3>1
  <2> HIDE DEF first
  <2>2. \A r \in 1 .. p : r \in S <=> first <= r
    BY <1>2, <1>13, <2>1, <2>3, SpanBehind
  <2> QED BY <2>2 DEF first
<1> HIDE DEF S
<1>21. \A r \in 1 .. Len(t) : r \in S <=> s + 1 <= r /\ r <= last
  <2> TAKE r \in 1 .. Len(t)
  <2>1. CASE r <= p
    <3>1. r \in 1 .. p /\ r <= last
      BY <1>2, <1>13, <2>1
    <3> QED BY <1>20, <3>1
  <2>2. CASE ~(r <= p)
    <3>1. r \in p .. Len(t) /\ s + 1 <= r
      BY <1>2, <1>5, <1>13, <2>2
    <3> QED BY <1>19, <3>1
  <2> QED BY <2>1, <2>2
<1>22. \A r \in 1 .. Written : OutBlock(n)[r - 1] =
           IF r \in S THEN Cursor!Joined(OutBlock(mem)[r - 1], k) ELSE OutBlock(mem)[r - 1]
  <2> TAKE r \in 1 .. Written
  <2>1. r - 1 \in Cells /\ r - 1 < outLen /\ r \in 1 .. Len(t)
    BY <1>1, <1>2 DEF Cells
  <2>2. r \in S <=> s <= r - 1 /\ r - 1 < e
    <3>1. r <= last <=> r <= e
      BY <1>1, <1>4, <1>7, <1>10
    <3>2. r \in S <=> s + 1 <= r /\ r <= last
      BY <1>21, <2>1
    <3> QED BY <1>1, <1>4, <1>5, <3>1, <3>2
  <2> QED BY <1>8, <2>1, <2>2 DEF out
<1>23. \A x \in 1 .. len - From : n.info[From + x - 1] =
           IF Written + x \in S THEN Cursor!Joined(mem.info[From + x - 1], k) ELSE mem.info[From + x - 1]
  <2> TAKE x \in 1 .. len - From
  <2>1. idx + x - 1 \in Cells /\ idx <= idx + x - 1 /\ outLen + x \in 1 .. Len(t)
    BY <1>1, <1>2 DEF Cells
  <2>2. outLen + x \in S <=> idx + x - 1 < f
    <3>1. outLen + x <= last <=> idx + x - 1 < f
      BY <1>1, <1>4, <1>7, <1>10
    <3>2. outLen + x \in S <=> s + 1 <= outLen + x /\ outLen + x <= last
      BY <1>1, <1>21, <2>1
    <3> QED BY <1>1, <1>5, <3>1, <3>2
  <2> QED BY <1>1, <1>8, <2>1, <2>2
<1>24. View(n) = Cursor!JoinedAt(View(mem), S, k)
  BY <1>1, <1>12, <1>22, <1>23, JoinedView
<1> QED BY <1>9, <1>13, <1>24 DEF S, k, n, t, p, q

\* _unsafe_to_break_set_mask, cell by cell.
LEMMA UnsafeCells ==
  ASSUME NEW a \in Block, NEW s, NEW e, NEW k
  PROVE  /\ DOMAIN SetUnsafe(a, s, e, k) = Cells
         /\ \A c \in Cells : SetUnsafe(a, s, e, k)[c] =
              IF s <= c /\ c < e /\ a[c].cluster # k THEN Unbroken(a[c]) ELSE a[c]
<1>1. DOMAIN a = Cells
  BY DEF Block
<1> QED BY <1>1 DEF SetUnsafe, Unbroken

\* The blocks after unsafe_to_break_from_outbuffer, and the cluster it spares.
SpareOf(start, end) ==
  Least(ClustersOf(OutBlock(mem), start, outLen) \cup ClustersOf(mem.info, idx, end))

FlaggedAcross(start, end) ==
  LET k == SpareOf(start, end)
      m == WithOut(mem, SetUnsafe(OutBlock(mem), start, outLen, k))
  IN  [m EXCEPT !.info = SetUnsafe(@, idx, end, k)]

\* They are flagged on both sides of the cursor, cell by cell.
LEMMA AcrossCells ==
  ASSUME BufferInv, haveOutput, NEW start, NEW end
  PROVE  LET n == FlaggedAcross(start, end)
             k == SpareOf(start, end)
         IN  /\ \A c \in Cells : c < outLen => OutBlock(n)[c] =
                  IF start <= c /\ OutBlock(mem)[c].cluster # k THEN Unbroken(OutBlock(mem)[c]) ELSE OutBlock(mem)[c]
             /\ \A c \in Cells : idx <= c => n.info[c] =
                  IF c < end /\ mem.info[c].cluster # k THEN Unbroken(mem.info[c]) ELSE mem.info[c]
<1> DEFINE k == SpareOf(start, end)
           out == OutBlock(mem)
           b == SetUnsafe(out, start, outLen, k)
           m == WithOut(mem, b)
           i == SetUnsafe(m.info, idx, end, k)
           n == [m EXCEPT !.info = i]
<1>1. FlaggedAcross(start, end) = n
  BY DEF FlaggedAcross
<1>2. /\ mem \in Mem /\ mem.info \in Block /\ mem.pos \in Block /\ out \in Block /\ mem.sep \in BOOLEAN
      /\ idx \in Nat /\ outLen \in Nat /\ (~mem.sep => outLen <= idx)
      /\ \A c \in Cells : c \in Int
  BY InvFacts, OutBlockIsBlock DEF BufferInv, InPlaceOutputBehindCursor, Cells
<1> HIDE DEF k
<1>3. /\ DOMAIN b = Cells
      /\ \A c \in Cells : b[c] = IF start <= c /\ c < outLen /\ out[c].cluster # k THEN Unbroken(out[c]) ELSE out[c]
  <2>1. out \in Block
    BY <1>2
  <2> HIDE DEF out
  <2> QED BY <2>1, UnsafeCells
<1>4. CASE mem.sep
  <2>1. m.info = mem.info /\ m.pos = b /\ m.sep = mem.sep /\ out = mem.pos
    <3> HIDE DEF b
    <3> QED BY <1>2, <1>4 DEF Mem, OutBlock, WithOut
  <2>2. \A c \in Cells : i[c] = IF idx <= c /\ c < end /\ mem.info[c].cluster # k THEN Unbroken(mem.info[c]) ELSE mem.info[c]
    <3> DEFINE a == m.info
    <3>1. a \in Block /\ a = mem.info
      BY <1>2, <2>1
    <3> HIDE DEF a
    <3>2. \A c \in Cells : SetUnsafe(a, idx, end, k)[c] =
            IF idx <= c /\ c < end /\ a[c].cluster # k THEN Unbroken(a[c]) ELSE a[c]
      BY <3>1, UnsafeCells
    <3> QED BY <3>1, <3>2 DEF a
  <2>3. n.info = i /\ n.pos = b /\ n.sep = mem.sep
    <3>1. m = [mem EXCEPT !.pos = b]
      BY <1>4 DEF WithOut
    <3> HIDE DEF b, i
    <3> QED BY <1>2, <2>1, <3>1 DEF Mem
  <2>4. OutBlock(n) = b
    BY <1>4, <2>3 DEF OutBlock
  <2> HIDE DEF b, m, i, n, out
  <2> QED BY <1>1, <1>3, <2>1, <2>2, <2>3, <2>4 DEF k, out
<1>5. CASE ~mem.sep
  <2>1. m.info = b /\ m.sep = mem.sep /\ out = mem.info
    <3> HIDE DEF b
    <3> QED BY <1>2, <1>5 DEF Mem, OutBlock, WithOut
  <2>2. i = [c \in Cells |-> IF idx <= c /\ c < end /\ b[c].cluster # k THEN Unbroken(b[c]) ELSE b[c]]
    <3> HIDE DEF m, b
    <3> QED BY <1>3, <2>1 DEF SetUnsafe, Unbroken
  <2>3. n.info = i /\ n.sep = mem.sep
    <3>1. m = [mem EXCEPT !.info = b]
      BY <1>5 DEF WithOut
    <3> HIDE DEF b, i
    <3> QED BY <1>2, <2>1, <3>1 DEF Mem
  <2>4. OutBlock(n) = i
    BY <1>5, <2>3 DEF OutBlock
  <2> HIDE DEF b, m, i, n
  <2>5. \A c \in Cells : c < outLen => i[c] = IF start <= c /\ out[c].cluster # k THEN Unbroken(out[c]) ELSE out[c]
    <3> TAKE c \in Cells
    <3> HAVE c < outLen
    <3>1. ~(idx <= c)
      BY <1>2, <1>5
    <3> HIDE DEF out
    <3> QED BY <1>3, <2>2, <3>1
  <2>6. \A c \in Cells : idx <= c => i[c] = IF c < end /\ mem.info[c].cluster # k THEN Unbroken(mem.info[c]) ELSE mem.info[c]
    <3> TAKE c \in Cells
    <3> HAVE idx <= c
    <3>1. ~(c < outLen)
      BY <1>2, <1>5
    <3> HIDE DEF out
    <3>2. b[c] = mem.info[c]
      BY <1>3, <2>1, <3>1
    <3> QED BY <2>2, <3>2
  <2> QED BY <1>1, <2>3, <2>4, <2>5, <2>6 DEF k
<1> QED BY <1>2, <1>4, <1>5

\* unsafe_to_break_from_outbuffer flags one stretch of the text.
LEMMA AcrossView ==
  ASSUME BufferInv, haveOutput,
         NEW start \in Nat, NEW end \in Nat, start <= outLen, idx <= end, end <= len,
         start < outLen \/ idx < end,
         FlaggedAcross(start, end) \in Mem
  PROVE  LET t == View(mem)
             p == start + 1
             q == outLen + (end - idx)
         IN  /\ p \in 1 .. Len(t) /\ q \in 1 .. Len(t) /\ p <= q
             /\ View(FlaggedAcross(start, end)) = Cursor!Flagged(t, p, q)
<1> DEFINE t == View(mem)
           p == start + 1
           q == outLen + (end - idx)
           k == SpareOf(start, end)
           n == FlaggedAcross(start, end)
           out == OutBlock(mem)
           C == ClustersOf(out, start, outLen) \cup ClustersOf(mem.info, idx, end)
<1>1. /\ outLen \in Nat /\ idx \in Nat /\ len \in Nat /\ idx <= len /\ Written = outLen /\ From = idx
      /\ Capacity \in Nat /\ len <= Capacity /\ outLen <= Capacity /\ out \in Block /\ mem.info \in Block /\ mem \in Mem
  BY InvFacts, OutBlockIsBlock DEF BufferInv, WithinAllocation, Written, From
<1>2. /\ t \in Seq(Glyph) /\ Len(t) = outLen + (len - idx)
      /\ \A r \in 1 .. outLen : t[r] = out[r - 1]
      /\ \A x \in 1 .. len - idx : t[outLen + x] = mem.info[idx + x - 1]
  BY <1>1, ViewIsText
<1>3. /\ \A c \in Cells : c < outLen => OutBlock(n)[c] =
           IF start <= c /\ out[c].cluster # k THEN Unbroken(out[c]) ELSE out[c]
      /\ \A c \in Cells : idx <= c => n.info[c] =
           IF c < end /\ mem.info[c].cluster # k THEN Unbroken(mem.info[c]) ELSE mem.info[c]
  BY AcrossCells
<1>4. k \in C /\ \A y \in C : k <= y
  <2>1. (\A i \in start .. outLen - 1 : i \in Cells) /\ (\A i \in idx .. end - 1 : i \in Cells)
    BY <1>1 DEF Cells
  <2>2. ClusterValues \cup {0} \subseteq Nat
    BY BufferAssumption
  <2>3. ClustersOf(out, start, outLen) \subseteq Nat
    <3> HIDE DEF out
    <3> QED BY <1>1, <2>1, <2>2 DEF ClustersOf, Block, Glyph
  <2>4. ClustersOf(mem.info, idx, end) \subseteq Nat
    BY <1>1, <2>1, <2>2 DEF ClustersOf, Block, Glyph
  <2>5. C # {}
    <3>1. CASE start < outLen
      <4>1. start \in start .. outLen - 1
        BY <1>1, <3>1
      <4> QED BY <4>1 DEF ClustersOf
    <3>2. CASE idx < end
      <4>1. idx \in idx .. end - 1
        BY <1>1, <3>2
      <4> QED BY <4>1 DEF ClustersOf
    <3> QED BY <3>1, <3>2
  <2>6. C \subseteq Nat
    BY <2>3, <2>4
  <2>7. k = Least(C)
    BY DEF SpareOf
  <2> HIDE DEF C, k
  <2> QED BY <2>5, <2>6, <2>7, LeastExists
<1>5. p = start + 1 /\ q = outLen + (end - idx) /\ n \in Mem
  OBVIOUS
<1>6. \A y : y \in C <=> \/ \E c \in start .. outLen - 1 : y = out[c].cluster
                         \/ \E c \in idx .. end - 1 : y = mem.info[c].cluster
  BY DEF ClustersOf
<1> HIDE DEF t, p, q, k, n, out, C
<1>7. p \in 1 .. Len(t) /\ q \in 1 .. Len(t) /\ p <= q
  BY <1>1, <1>2, <1>5
<1>8. \E r \in p .. q : k = t[r].cluster
  <2>1. CASE \E c \in start .. outLen - 1 : k = out[c].cluster
    <3>1. PICK c \in start .. outLen - 1 : k = out[c].cluster
      BY <2>1
    <3>2. c + 1 \in p .. q /\ c + 1 \in 1 .. outLen /\ c + 1 - 1 = c /\ c \in Int
      BY <1>1, <1>5
    <3>3. t[c + 1] = out[c]
      BY <1>2, <3>2
    <3> QED BY <3>1, <3>2, <3>3
  <2>2. CASE \E c \in idx .. end - 1 : k = mem.info[c].cluster
    <3>1. PICK c \in idx .. end - 1 : k = mem.info[c].cluster
      BY <2>2
    <3>2. PICK x \in 1 .. len - idx : x = c - idx + 1
      BY <1>1
    <3>3. outLen + x \in p .. q /\ idx + x - 1 = c
      BY <1>1, <1>5, <3>2
    <3>4. t[outLen + x] = mem.info[c]
      BY <1>2, <3>3
    <3> QED BY <3>1, <3>3, <3>4
  <2> QED BY <1>4, <1>6, <2>1, <2>2
<1>9. \A r \in p .. q : k <= t[r].cluster
  <2> TAKE r \in p .. q
  <2>1. CASE r <= outLen
    <3>1. r \in 1 .. outLen /\ r - 1 \in start .. outLen - 1
      BY <1>1, <1>5, <2>1
    <3>2. t[r].cluster \in C
      BY <1>2, <1>6, <3>1
    <3> QED BY <1>4, <3>2
  <2>2. CASE ~(r <= outLen)
    <3>1. PICK x \in 1 .. len - idx : x = r - outLen
      BY <1>1, <1>5, <2>2
    <3>2. idx + x - 1 \in idx .. end - 1 /\ outLen + x = r
      BY <1>1, <1>5, <3>1
    <3>3. t[r] = mem.info[idx + x - 1]
      BY <1>2, <3>2
    <3>4. t[r].cluster \in C
      BY <1>6, <3>2, <3>3
    <3> QED BY <1>4, <3>4
  <2> QED BY <2>1, <2>2
<1>10. Cursor!LeastOf(t, p .. q) = k
  BY <1>2, <1>7, <1>8, <1>9, LeastIs
<1>11. FlagsPlaces(mem, n, p, q, k)
  <2>1. ASSUME NEW r \in 1 .. Written
        PROVE  OutBlock(n)[r - 1] = IF r \in p .. q /\ OutBlock(mem)[r - 1].cluster # k
                                    THEN Unbroken(OutBlock(mem)[r - 1]) ELSE OutBlock(mem)[r - 1]
    <3>1. r - 1 \in Cells /\ r - 1 < outLen /\ (r \in p .. q <=> start <= r - 1)
      BY <1>1, <1>5 DEF Cells
    <3> QED BY <1>3, <3>1 DEF out
  <2>2. ASSUME NEW x \in 1 .. len - From
        PROVE  n.info[From + x - 1] = IF Written + x \in p .. q /\ mem.info[From + x - 1].cluster # k
                                      THEN Unbroken(mem.info[From + x - 1]) ELSE mem.info[From + x - 1]
    <3>1. From + x - 1 \in Cells /\ idx <= From + x - 1 /\ (Written + x \in p .. q <=> From + x - 1 < end)
      BY <1>1, <1>5 DEF Cells
    <3> QED BY <1>3, <3>1
  <2> QED BY <2>1, <2>2 DEF FlagsPlaces
<1>12. View(n) = Cursor!Flagged(View(mem), p, q)
  <2>1. Cursor!LeastOf(View(mem), p .. q) = k
    BY <1>10 DEF t
  <2> QED BY <1>1, <1>5, <1>11, <2>1, FlaggedView
<1> QED BY <1>7, <1>12 DEF n, t, p, q

\* Flagging a single glyph flags nothing.
LEMMA FlagOne ==
  ASSUME NEW t \in Seq(Glyph), NEW p \in 1 .. Len(t)
  PROVE  Cursor!Flagged(t, p, p) = t
<1>1. \A r \in p .. p : r = p
  OBVIOUS
<1>2. p \in p .. p /\ t[p].cluster \in Nat
  <2>1. t[p] \in Glyph /\ ClusterValues \cup {0} \subseteq Nat
    BY BufferAssumption
  <2> QED BY <2>1 DEF Glyph
<1>3. \A r \in p .. p : t[p].cluster <= t[r].cluster
  BY <1>1, <1>2
<1>4. Cursor!LeastOf(t, p .. p) = t[p].cluster
  <2> DEFINE k == t[p].cluster
  <2>1. p <= p /\ (\E r \in p .. p : k = t[r].cluster) /\ \A r \in p .. p : k <= t[r].cluster
    BY <1>2, <1>3
  <2> HIDE DEF k
  <2>2. Cursor!LeastOf(t, p .. p) = k
    BY <2>1, LeastIs
  <2> QED BY <2>2 DEF k
<1>5. Cursor!Flagged(t, p, p) = [r \in DOMAIN t |-> t[r]]
  BY <1>1, <1>4 DEF Cursor!Flagged
<1> QED BY <1>5

-----------------------------------------------------------------------------
(* The methods that merge and flag, as steps of the text.                   *)

\* What a step of a stage is for the text.
Staged ==
  \/ (Cursor!EditStep \/ Cursor!RunOut \/ Cursor!Broken) /\ UNCHANGED level
  \/ UNCHANGED Cursor!cursorVars

\* Once the buffer is unsuccessful nothing is asked of a step.
LEMMA BrokenStaged ==
  ASSUME ~successful, ~successful', UNCHANGED level
  PROVE  Staged
BY DEF Staged, Cursor!Broken

\* The text is the view of the blocks.
LEMMA CursorText ==
  ASSUME BufferInv
  PROVE  Cursor!Text = View(mem) /\ DOMAIN Cursor!Text = 1 .. Len(View(mem))
<1>1. Cursor!Text = VisibleText
  BY DEF Cursor!Text, VisibleText
<1>2. mem \in Mem
  BY InvFacts
<1> QED BY <1>1, <1>2, TextIsView, ViewIsText

\* Merging or flagging any two positions is an edit.
LEMMA TwoPositions ==
  ASSUME BufferInv, NEW p \in 1 .. Len(View(mem)), NEW q \in 1 .. Len(View(mem)), p < q,
         Cursor!Merge(p, q) \/ Cursor!Flag(p, q) \/ Cursor!MergeSome(p, q), UNCHANGED level
  PROVE  Staged
<1>1. p \in DOMAIN Cursor!Text /\ q \in DOMAIN Cursor!Text
  BY CursorText
<1> QED BY <1>1 DEF Staged, Cursor!EditStep

\* merge_clusters_impl is a merge of the text.
LEMMA MergesText ==
  ASSUME BufferInv, BufferInv', InPlaceStep, level # "characters",
         NEW start \in Nat, NEW end \in Nat, MergeClusters(start, end)
  PROVE  Staged
<1>1. /\ start + 2 <= end /\ end <= len /\ mem' = MergedMem(mem, start, end)
      /\ (haveOutput /\ ~Settled => idx <= start) /\ (~haveOutput => LengthLeft)
  BY DEF MergeClusters, Unread
<1>2. mem' = MergedRange(mem, start, end)
  <2>1. ~(end - start < 2)
    BY <1>1
  <2> QED BY <1>1, <2>1 DEF MergedMem
<1>3. mem \in Mem /\ mem' \in Mem /\ MergedRange(mem, start, end) \in Mem
  BY <1>2, InvFacts DEF BufferInv, TypeOK
<1>4. /\ idx \in Nat /\ len \in Nat /\ outLen \in Nat /\ (haveOutput => idx <= len)
      /\ (haveOutput => mem.sep \/ outLen <= idx)
  BY InvFacts DEF BufferInv, WithinAllocation, InPlaceOutputBehindCursor
<1>5. Cursor!Rewrite(View(mem')) /\ UNCHANGED level
  BY RewriteIs DEF InPlaceStep
<1>6. Cursor!Text = View(mem) /\ View(mem) \in Seq(Glyph)
  BY <1>3, CursorText, ViewIsText
<1>7. CASE haveOutput /\ idx <= start
  <2> DEFINE D == outLen - idx + 1
             p == D + start
             q == D + end - 1
             t == View(mem)
  <2>1. View(mem') = Cursor!JoinedAt(t, Cursor!Span(t, p, q), Cursor!LeastOf(t, p .. q))
    BY <1>1, <1>2, <1>3, <1>4, <1>7, MergedEditing
  <2>2. Faces(t, mem, D, idx)
    BY <1>3, <1>7, FacesEditing
  <2>3. p \in 1 .. Len(t) /\ q \in 1 .. Len(t) /\ p < q
    <3>1. D \in Int /\ D + idx >= 1 /\ Len(t) = D + len - 1
      BY <2>2 DEF Faces
    <3> HIDE DEF D, t
    <3> QED BY <1>1, <1>4, <1>7, <3>1
  <2> HIDE DEF p, q, D, t
  <2>4. View(mem') = Cursor!Merged(t, p, q)
    <3>1. ~(p >= q)
      BY <2>3
    <3> QED BY <2>1, <2>3, <3>1 DEF Cursor!Merged
  <2>5. Cursor!Merge(p, q)
    BY <1>5, <1>6, <1>7, <2>4 DEF Cursor!Merge, t
  <2> QED BY <1>5, <2>3, <2>5, TwoPositions DEF t
<1>8. CASE haveOutput /\ ~(idx <= start)
  <2> DEFINE p == 1 + start
             q == 1 + end - 1
             t == View(mem)
  <2>1. outLen = idx /\ ~mem.sep /\ idx = len
    BY <1>1, <1>4, <1>8 DEF Settled, InPlaceStep
  <2>2. Faces(t, mem, 1, 0)
    BY <1>3, <1>8, <2>1, FacesSettled, FacesOutside
  <2>3. View(mem') = Cursor!JoinedAt(t, Joins(t, p, q, p, {}), Cursor!LeastOf(t, p .. q))
    BY <1>1, <1>2, <1>3, <1>8, <2>1, <2>2, MergedBehind, ZenonT(60)
  <2>4. p \in 1 .. Len(t) /\ q \in 1 .. Len(t) /\ p < q
    <3>1. Len(t) = 1 + len - 1
      BY <2>2 DEF Faces
    <3> HIDE DEF t
    <3> QED BY <1>1, <1>4, <3>1
  <2> HIDE DEF p, q, t
  <2>5. {} \in SUBSET {r \in DOMAIN t : p < r /\ t[r].cluster = t[p].cluster} /\ p \in 1 .. p
    BY <2>4
  <2>6. Cursor!Rewrite(Cursor!JoinedAt(t, {} \cup {r \in Cursor!Span(t, p, q) : p <= r}, Cursor!LeastOf(t, p .. q)))
    BY <1>5, <2>3 DEF Joins
  <2>7. Cursor!MergeSome(p, q)
    BY <1>6, <2>5, <2>6 DEF Cursor!MergeSome, t
  <2> QED BY <1>5, <2>4, <2>7, TwoPositions DEF t
<1>9. CASE ~haveOutput
  <2> DEFINE p == 1 + start
             q == 1 + end - 1
             t == View(mem)
  <2>1. mem.sep \/ outLen = 0 \/ len <= outLen
    BY <1>1, <1>9 DEF LengthLeft
  <2>2. Faces(t, mem, 1, 0)
    BY <1>3, <1>9, FacesOutside
  <2>3. StrayMerge(t, View(mem'), p, q)
    BY <1>1, <1>2, <1>3, <1>9, <2>1, MergedOutside
  <2>4. p \in 1 .. Len(t) /\ q \in 1 .. Len(t) /\ p < q
    <3>1. Len(t) = 1 + len - 1
      BY <2>2 DEF Faces
    <3> HIDE DEF t
    <3> QED BY <1>1, <1>4, <3>1
  <2> HIDE DEF p, q, t
  <2>5. PICK lo \in 1 .. p, S \in SUBSET {r \in DOMAIN t : p < r /\ t[r].cluster = t[p].cluster} :
          View(mem') = Cursor!JoinedAt(t, Joins(t, p, q, lo, S), Cursor!LeastOf(t, p .. q))
    BY <2>3 DEF StrayMerge, Stray
  <2>6. Cursor!Rewrite(Cursor!JoinedAt(t, S \cup {r \in Cursor!Span(t, p, q) : lo <= r}, Cursor!LeastOf(t, p .. q)))
    BY <1>5, <2>5 DEF Joins
  <2>7. Cursor!MergeSome(p, q)
    BY <1>6, <2>5, <2>6 DEF Cursor!MergeSome, t
  <2> QED BY <1>5, <2>4, <2>7, TwoPositions DEF t
<1> QED BY <1>7, <1>8, <1>9

\* unsafe_to_break_impl flags a stretch of the text.
LEMMA FlagsText ==
  ASSUME BufferInv, BufferInv', InPlaceStep,
         NEW start \in Nat, NEW end \in Nat, start + 2 <= end, end <= len, Unread(start),
         mem' = UnsafeMem(mem, start, end)
  PROVE  Staged
<1>1. haveOutput /\ ~Settled => idx <= start
  BY DEF Unread
<1>3. mem \in Mem /\ mem' \in Mem /\ UnsafeMem(mem, start, end) \in Mem /\ start < end
  BY InvFacts DEF BufferInv, TypeOK
<1>4. /\ idx \in Nat /\ len \in Nat /\ outLen \in Nat /\ (haveOutput => idx <= len)
      /\ (haveOutput => mem.sep \/ outLen <= idx)
  BY InvFacts DEF BufferInv, WithinAllocation, InPlaceOutputBehindCursor
<1>5. Cursor!Rewrite(View(mem')) /\ UNCHANGED level
  BY RewriteIs DEF InPlaceStep
<1>6. Cursor!Text = View(mem)
  BY CursorText
<1>7. CASE haveOutput /\ idx <= start
  <2> DEFINE D == outLen - idx + 1
             p == D + start
             q == D + end - 1
             t == View(mem)
  <2>1. View(mem') = Cursor!Flagged(t, p, q)
    BY <1>3, <1>4, <1>7, FlaggedEditing
  <2>2. Faces(t, mem, D, idx)
    BY <1>3, <1>7, FacesEditing
  <2>3. p \in 1 .. Len(t) /\ q \in 1 .. Len(t) /\ p < q
    <3>1. D \in Int /\ D + idx >= 1 /\ Len(t) = D + len - 1
      BY <2>2 DEF Faces
    <3> HIDE DEF D, t
    <3> QED BY <1>3, <1>4, <1>7, <3>1
  <2> HIDE DEF p, q, D, t
  <2>5. Cursor!Flag(p, q)
    BY <1>5, <1>6, <2>1 DEF Cursor!Flag, t
  <2> QED BY <1>5, <2>3, <2>5, TwoPositions DEF t
<1>8. CASE ~(haveOutput /\ idx <= start)
  <2> DEFINE p == 1 + start
             q == 1 + end - 1
             t == View(mem)
  <2>1. haveOutput => outLen = idx /\ idx = len /\ ~mem.sep
    BY <1>1, <1>4, <1>8 DEF Settled, InPlaceStep
  <2>2. Faces(t, mem, 1, 0)
    BY <1>3, <1>8, <2>1, FacesSettled, FacesOutside
  <2>3. View(mem') = Cursor!Flagged(t, p, q)
    BY <1>3, <2>1, <2>2, FlaggedOutside
  <2>4. p \in 1 .. Len(t) /\ q \in 1 .. Len(t) /\ p < q
    <3>1. Len(t) = 1 + len - 1
      BY <2>2 DEF Faces
    <3> HIDE DEF t
    <3> QED BY <1>3, <1>4, <3>1
  <2> HIDE DEF p, q, t
  <2>5. Cursor!Flag(p, q)
    BY <1>5, <1>6, <2>3 DEF Cursor!Flag, t
  <2> QED BY <1>5, <2>4, <2>5, TwoPositions DEF t
<1> QED BY <1>7, <1>8

\* merge_clusters.
LEMMA MergeClustersStaged ==
  ASSUME BufferInv, BufferInv', NEW start \in Nat, NEW end \in Nat, MergeClusters(start, end)
  PROVE  Staged
<1>1. /\ start + 2 <= end /\ end <= len /\ mem' = MergedMem(mem, start, end) /\ Unread(start)
      /\ UNCHANGED <<idx, len, outLen, successful, haveOutput, level>>
  BY DEF MergeClusters
<1>2. CASE ~successful
  BY <1>1, <1>2, BrokenStaged
<1>3. CASE successful
  <2>1. InPlaceStep
    BY <1>1, <1>3 DEF InPlaceStep
  <2>2. CASE level = "characters"
    <3>1. mem' = UnsafeMem(mem, start, end)
      <4>1. end - start >= 2 /\ ~(end - start < 2)
        BY <1>1, InvFacts
      <4> QED BY <1>1, <2>2, <4>1 DEF MergedMem
    <3> QED BY <1>1, <2>1, <3>1, FlagsText
  <2>3. CASE level # "characters"
    BY <2>1, <2>3, MergesText
  <2> QED BY <2>2, <2>3
<1> QED BY <1>2, <1>3

\* unsafe_to_break.
LEMMA UnsafeToBreakStaged ==
  ASSUME BufferInv, BufferInv', NEW start \in Nat, NEW end \in Nat, UnsafeToBreak(start, end)
  PROVE  Staged
<1>1. /\ start + 2 <= end /\ end <= len /\ mem' = UnsafeMem(mem, start, end) /\ Unread(start)
      /\ UNCHANGED <<idx, len, outLen, successful, haveOutput, level>>
  BY DEF UnsafeToBreak
<1>2. CASE ~successful
  BY <1>1, <1>2, BrokenStaged
<1>3. CASE successful
  <2>1. InPlaceStep
    BY <1>1, <1>3 DEF InPlaceStep
  <2> QED BY <1>1, <2>1, FlagsText
<1> QED BY <1>2, <1>3

\* merge_out_clusters.
LEMMA MergeOutClustersStaged ==
  ASSUME BufferInv, BufferInv', NEW start \in Nat, NEW end \in Nat, MergeOutClusters(start, end)
  PROVE  Staged
<1>1. /\ haveOutput /\ start + 2 <= end /\ end <= outLen
      /\ mem' = IF level = "characters" THEN mem ELSE MergedOutMem(mem, start, end)
      /\ UNCHANGED <<idx, len, outLen, successful, haveOutput, level>>
  BY DEF MergeOutClusters
<1>2. CASE ~successful
  BY <1>1, <1>2, BrokenStaged
<1>3. CASE successful
  <2>1. InPlaceStep
    BY <1>1, <1>3 DEF InPlaceStep
  <2>2. CASE level = "characters"
    <3>1. View(mem') = View(mem)
      BY <1>1, <2>2
    <3> QED BY <2>1, <3>1, SameView DEF Staged
  <2>3. CASE level # "characters"
    <3> DEFINE t == View(mem)
               p == start + 1
               q == end
    <3>1. mem' = MergedOutMem(mem, start, end) /\ mem' \in Mem /\ MergedOutMem(mem, start, end) \in Mem
      BY <1>1, <2>3 DEF BufferInv, TypeOK
    <3>2. /\ p \in 1 .. Len(t) /\ q \in 1 .. Len(t)
          /\ View(mem') = Cursor!JoinedAt(t, Cursor!Span(t, p, q), Cursor!LeastOf(t, p .. q))
      BY <1>1, <3>1, MergedOutView
    <3>3. p < q /\ ~(p >= q)
      BY <1>1
    <3>4. Cursor!Rewrite(View(mem')) /\ UNCHANGED level /\ Cursor!Text = t
      BY <2>1, RewriteIs, CursorText DEF InPlaceStep
    <3> HIDE DEF t, p, q
    <3>5. View(mem') = Cursor!Merged(t, p, q)
      BY <2>3, <3>2, <3>3 DEF Cursor!Merged
    <3>6. Cursor!Merge(p, q)
      BY <1>1, <3>4, <3>5 DEF Cursor!Merge
    <3> QED BY <3>2, <3>3, <3>4, <3>6, TwoPositions DEF t
  <2> QED BY <2>2, <2>3
<1> QED BY <1>2, <1>3

\* unsafe_to_break_from_outbuffer.
LEMMA UnsafeFromOutbufferStaged ==
  ASSUME BufferInv, BufferInv', NEW start \in Nat, NEW end \in Nat, UnsafeFromOutbuffer(start, end)
  PROVE  Staged
<1>1. /\ haveOutput /\ start <= outLen /\ idx <= end /\ end <= len /\ (start < outLen \/ idx < end)
      /\ mem' = FlaggedAcross(start, end)
      /\ UNCHANGED <<idx, len, outLen, successful, haveOutput, level>>
  BY DEF UnsafeFromOutbuffer, FlaggedAcross, SpareOf
<1>2. CASE ~successful
  BY <1>1, <1>2, BrokenStaged
<1>3. CASE successful
  <2>1. InPlaceStep
    BY <1>1, <1>3 DEF InPlaceStep
  <2> DEFINE t == View(mem)
             p == start + 1
             q == outLen + (end - idx)
  <2>2. mem' \in Mem /\ FlaggedAcross(start, end) \in Mem /\ mem \in Mem
    BY <1>1 DEF BufferInv, TypeOK
  <2>3. /\ p \in 1 .. Len(t) /\ q \in 1 .. Len(t) /\ p <= q
        /\ View(mem') = Cursor!Flagged(t, p, q)
    BY <1>1, <2>2, AcrossView
  <2>4. Cursor!Rewrite(View(mem')) /\ UNCHANGED level /\ Cursor!Text = t
    BY <2>1, RewriteIs, CursorText DEF InPlaceStep
  <2>5. t \in Seq(Glyph)
    BY <2>2, ViewIsText
  <2> HIDE DEF t, p, q
  <2>6. CASE p < q
    <3>1. Cursor!Flag(p, q)
      BY <2>3, <2>4 DEF Cursor!Flag
    <3> QED BY <2>3, <2>4, <2>6, <3>1, TwoPositions DEF t
  <2>7. CASE ~(p < q)
    <3>1. p = q
      BY <2>3, <2>7
    <3>2. View(mem') = t
      BY <2>3, <2>5, <3>1, FlagOne
    <3> QED BY <2>1, <3>2, SameView DEF t, Staged
  <2> QED BY <2>6, <2>7
<1> QED BY <1>2, <1>3

-----------------------------------------------------------------------------
(* Writing glyphs at the cursor.                                            *)

\* The answers of ensure: as good as before, or a failure.
LEMMA EnsureSuccess ==
  ASSUME BufferInv, NEW size \in Nat, NEW r \in Ensure(size)
  PROVE  IF r.ok THEN r.successful = successful ELSE r.successful = FALSE
<1>1. \/ r = [ok |-> TRUE, allocated |-> allocated, successful |-> successful]
      \/ successful /\ r = [ok |-> TRUE, allocated |-> GrownTo(size), successful |-> TRUE]
      \/ r = [ok |-> FALSE, allocated |-> allocated, successful |-> FALSE]
  BY DEF Ensure
<1>2. CASE r = [ok |-> TRUE, allocated |-> allocated, successful |-> successful]
  BY <1>2
<1>3. CASE successful /\ r = [ok |-> TRUE, allocated |-> GrownTo(size), successful |-> TRUE]
  <2>1. successful = TRUE
    BY <1>3 DEF BufferInv, TypeOK
  <2> QED BY <1>3, <2>1
<1>4. CASE r = [ok |-> FALSE, allocated |-> allocated, successful |-> FALSE]
  BY <1>4
<1> QED BY <1>1, <1>2, <1>3, <1>4

\* The early return of a method that got no room.
LEMMA RefusedStaged ==
  ASSUME BufferInv, NEW size \in Nat, NEW r \in Ensure(size), Refused(r)
  PROVE  Staged
<1>1. successful' = FALSE
  <2>1. ~r.ok /\ successful' = r.successful
    BY DEF Refused, Granted
  <2> QED BY <2>1, EnsureSuccess
<1>2. UNCHANGED <<Done, Todo, haveOutput, level>>
  BY DEF Refused, Done, Todo, OutBlock
<1> QED BY <1>1, <1>2 DEF Staged, Cursor!RunOut

\* The early return, or a step that got its room.
LEMMA RoomStaged ==
  ASSUME BufferInv, NEW size \in Nat, NEW r \in Ensure(size), r.ok, Granted(r), UNCHANGED level,
         successful /\ successful' => Staged
  PROVE  Staged
<1>1. successful' = successful /\ successful \in BOOLEAN
  BY EnsureSuccess DEF Granted, BufferInv, TypeOK
<1> QED BY <1>1, BrokenStaged

\* make_room_for moves the output at most; the text stays.
LEMMA RoomMadeView ==
  ASSUME BufferInv, haveOutput, NEW numIn \in Nat, NEW numOut \in Nat
  PROVE  View(RoomMade(numIn, numOut)) = View(mem)
<1> DEFINE m == RoomMade(numIn, numOut)
<1>1. m \in Mem /\ m.info = mem.info
  BY RoomMadeWritable DEF Writable
<1>2. \A c \in Cells : c < outLen => OutBlock(m)[c] = OutBlock(mem)[c]
  <2>1. CASE ~mem.sep /\ outLen + numOut > idx + numIn
    <3> DEFINE b == Copy(mem.pos, 0, mem.info, 0, outLen)
    <3>1. \A c \in Cells : c < outLen => b[c] = mem.info[c]
      <4>1. b = [c \in Cells |-> IF 0 <= c /\ c < 0 + outLen THEN mem.info[0 + (c - 0)]
                                 ELSE mem.pos[c]]
        BY InvFacts DEF Copy, Block
      <4>2. \A c \in Cells : c < outLen => 0 <= c /\ c < 0 + outLen /\ 0 + (c - 0) = c
        BY InvFacts DEF Cells
      <4> HIDE DEF b
      <4> QED BY <4>1, <4>2
    <3>2. m = [mem EXCEPT !.sep = TRUE, !.pos = b]
      BY <2>1 DEF RoomMade
    <3> HIDE DEF b
    <3>3. OutBlock(m) = b /\ OutBlock(mem) = mem.info
      BY <2>1, <3>2, InvFacts DEF OutBlock, Mem
    <3> HIDE DEF m
    <3> QED BY <3>1, <3>3
  <2>2. CASE ~(~mem.sep /\ outLen + numOut > idx + numIn)
    BY <2>2 DEF RoomMade
  <2> QED BY <2>1, <2>2
<1>3. /\ Written = outLen /\ outLen \in Nat /\ outLen <= Capacity /\ Capacity \in Nat
      /\ mem \in Mem
  BY InvFacts DEF Written
<1> HIDE DEF m
<1> DEFINE u == View(mem)
<1>4. /\ u = [p \in 1 .. Written + (len - From) |-> u[p]]
      /\ \A p \in 1 .. Written : u[p] = OutBlock(mem)[p - 1]
      /\ \A p \in 1 .. len - From : u[Written + p] = mem.info[From + p - 1]
  <2>1. u = [p \in 1 .. Written + (len - From) |-> u[p]]
    BY DEF View
  <2> QED BY <1>3, <2>1, ViewIsText
<1> HIDE DEF u
<1>5. \A p \in 1 .. Written : OutBlock(m)[p - 1] = u[p]
  <2> TAKE p \in 1 .. Written
  <2>1. p - 1 \in Cells /\ p - 1 < outLen
    BY <1>3 DEF Cells
  <2> QED BY <1>2, <1>4, <2>1
<1>6. \A p \in 1 .. len - From : m.info[From + p - 1] = u[Written + p]
  BY <1>1, <1>4
<1>7. u = [p \in 1 .. Written + (len - From) |-> u[p]] /\ m \in Mem
  BY <1>1, <1>4
<1>8. View(m) = u
  BY <1>5, <1>6, <1>7, PointwiseView
<1> QED BY <1>8 DEF m, u

\* Glyphs gs were written behind the output of the text in m, and numIn read.
Emits(m, numIn, gs) ==
  /\ Done' \in Seq(Glyph) /\ Todo' \in Seq(Glyph)
  /\ Len(Done') = outLen + Len(gs)
  /\ \A p \in 1 .. outLen : Done'[p] = View(m)[p]
  /\ \A p \in 1 .. Len(gs) : Done'[outLen + p] = gs[p]
  /\ Len(Todo') = len - (idx + numIn)
  /\ \A x \in 1 .. len - (idx + numIn) : Todo'[x] = View(m)[outLen + numIn + x]

\* An emitting step writes and reads nothing else.
LEMMA EmitIs ==
  ASSUME BufferInv, BufferInv', haveOutput, NEW m \in Mem, NEW numIn \in Nat, NEW gs \in Seq(Glyph),
         ~m.sep => outLen + Len(gs) <= idx + numIn,
         Emit(m, numIn, gs)
  PROVE  Emits(m, numIn, gs)
<1> DEFINE L == Len(gs)
           b == [c \in Cells |-> IF outLen <= c /\ c < outLen + Len(gs) THEN gs[c - outLen + 1] ELSE OutBlock(m)[c]]
<1>1. /\ mem' = WithOut(m, b) /\ idx' = idx + numIn /\ outLen' = outLen + L /\ len' = len
      /\ haveOutput' = haveOutput
  BY DEF Emit, Emitted
<1>2. /\ Written' = outLen + L /\ From' = idx + numIn
  BY <1>1 DEF Written, From
<1>3. /\ idx \in Nat /\ len \in Nat /\ outLen \in Nat /\ L \in Nat /\ idx <= len /\ Capacity \in Nat
      /\ Written = outLen /\ From = idx /\ len <= Capacity
  BY InvFacts DEF BufferInv, WithinAllocation, Written, From
<1>4. (OutBlock(mem))' = OutBlock(mem')
  BY DEF OutBlock
<1>5. /\ outLen + L <= Capacity /\ idx + numIn <= len
      /\ Done' \in Seq(Glyph) /\ Len(Done') = outLen + L
      /\ Todo' \in Seq(Glyph) /\ Len(Todo') = len - (idx + numIn)
      /\ \A p \in 1 .. outLen + L : Done'[p] = OutBlock(mem')[p - 1]
      /\ \A p \in 1 .. len - (idx + numIn) : Todo'[p] = mem'.info[idx + numIn + p - 1]
  BY <1>1, <1>2, <1>4, ShownNext DEF Shown
<1>6. /\ \A p \in 1 .. outLen : View(m)[p] = OutBlock(m)[p - 1]
      /\ \A p \in 1 .. len - idx : View(m)[outLen + p] = m.info[idx + p - 1]
  BY <1>3, ViewIsText
<1> HIDE DEF b, L
<1>7. /\ OutBlock(mem') = b
      /\ \A c \in Cells : idx + numIn <= c => mem'.info[c] = m.info[c]
  <2>1. CASE m.sep
    <3>1. mem' = [m EXCEPT !.pos = b]
      BY <1>1, <2>1 DEF WithOut
    <3> QED BY <2>1, <3>1 DEF OutBlock, Mem
  <2>2. CASE ~m.sep
    <3>1. mem' = [m EXCEPT !.info = b]
      BY <1>1, <2>2 DEF WithOut
    <3>2. OutBlock(mem') = b /\ mem'.info = b /\ OutBlock(m) = m.info
      BY <2>2, <3>1 DEF OutBlock, Mem
    <3>3. \A c \in Cells : idx + numIn <= c => ~(c < outLen + L) /\ c \in Int
      BY <1>3, <2>2 DEF Cells, L
    <3>4. \A c \in Cells : idx + numIn <= c => b[c] = OutBlock(m)[c]
      BY <3>3 DEF b, L
    <3> QED BY <3>2, <3>4
  <2> QED BY <2>1, <2>2
<1>8. \A p \in 1 .. outLen : Done'[p] = View(m)[p]
  <2> TAKE p \in 1 .. outLen
  <2>1. p \in 1 .. outLen + L /\ p - 1 \in Cells /\ ~(outLen <= p - 1)
    BY <1>3, <1>5, SMTT(30) DEF Cells
  <2>2. b[p - 1] = OutBlock(m)[p - 1]
    BY <2>1 DEF b
  <2> QED BY <1>5, <1>6, <1>7, <2>1, <2>2
<1>9. \A p \in 1 .. L : Done'[outLen + p] = gs[p]
  <2> TAKE p \in 1 .. L
  <2>1. PICK r \in 1 .. outLen + L : r = outLen + p
    BY <1>3
  <2>2. r - 1 \in Cells /\ outLen <= r - 1 /\ r - 1 < outLen + L /\ r - 1 - outLen + 1 = p
    BY <1>3, <1>5, <2>1 DEF Cells
  <2>3. b[r - 1] = gs[r - 1 - outLen + 1]
    BY <2>2 DEF b, L
  <2> QED BY <1>5, <1>7, <2>1, <2>2, <2>3
<1>10. \A x \in 1 .. len - (idx + numIn) : Todo'[x] = View(m)[outLen + numIn + x]
  <2> TAKE x \in 1 .. len - (idx + numIn)
  <2>1. idx + numIn + x - 1 \in Cells /\ idx + numIn <= idx + numIn + x - 1
    BY <1>3, <1>5 DEF Cells
  <2>2. numIn + x \in 1 .. len - idx /\ outLen + (numIn + x) = outLen + numIn + x
        /\ idx + (numIn + x) - 1 = idx + numIn + x - 1
    BY <1>3
  <2>3. View(m)[outLen + (numIn + x)] = m.info[idx + (numIn + x) - 1]
    BY <1>6, <2>2
  <2> QED BY <1>5, <1>7, <2>1, <2>2, <2>3
<1> QED BY <1>5, <1>8, <1>9, <1>10 DEF Emits, L

\* As sequences: the output grows by gs, the unread text shrinks to its rest.
LEMMA EmittedText ==
  ASSUME BufferInv, haveOutput, NEW m \in Mem, NEW numIn \in Nat, NEW gs \in Seq(Glyph), idx + numIn <= len,
         Emits(m, numIn, gs)
  PROVE  /\ Done' = SubSeq(View(m), 1, outLen) \o gs
         /\ Todo' = SubSeq(View(m), outLen + numIn + 1, Len(View(m)))
<1> DEFINE t == View(m)
           d == SubSeq(t, 1, outLen)
           x == outLen + numIn + 1
           n == Len(t)
           u == SubSeq(t, x, n)
<1>1. /\ idx \in Nat /\ len \in Nat /\ outLen \in Nat /\ idx <= len /\ Written = outLen /\ From = idx
  BY InvFacts DEF BufferInv, WithinAllocation, Written, From
<1>2. t \in Seq(Glyph) /\ Len(t) = outLen + (len - idx)
  BY <1>1, ViewIsText
<1> HIDE DEF t
<1>3. d \in Seq(Glyph) /\ Len(d) = outLen /\ \A p \in 1 .. outLen : d[p] = t[p]
  <2>1. 1 \in Int /\ outLen \in Int /\ \A i \in 1 .. outLen : t[i] \in Glyph
    BY <1>1, <1>2
  <2>2. /\ d \in Seq(Glyph) /\ Len(d) = (IF 1 <= outLen THEN outLen - 1 + 1 ELSE 0)
        /\ \A i \in 1 .. outLen - 1 + 1 : d[i] = t[1 + i - 1]
    BY <2>1, SubSeqProperties
  <2> HIDE DEF d
  <2> QED BY <1>1, <2>2
<1>4. u \in Seq(Glyph) /\ Len(u) = len - (idx + numIn) /\ \A p \in 1 .. len - (idx + numIn) : u[p] = t[outLen + numIn + p]
  <2>1. x \in Int /\ n \in Int /\ \A i \in x .. n : t[i] \in Glyph
    BY <1>1, <1>2
  <2>2. /\ u \in Seq(Glyph) /\ Len(u) = (IF x <= n THEN n - x + 1 ELSE 0)
        /\ \A i \in 1 .. n - x + 1 : u[i] = t[x + i - 1]
    <3> HIDE DEF x, n
    <3> QED BY <2>1, SubSeqProperties
  <2>3. n - x + 1 = len - (idx + numIn) /\ (x <= n \/ len - (idx + numIn) = 0)
    BY <1>1, <1>2
  <2>4. \A p \in 1 .. len - (idx + numIn) : x + p - 1 = outLen + numIn + p
    BY <1>1
  <2> HIDE DEF u, x, n
  <2> QED BY <1>1, <2>2, <2>3, <2>4
<1> HIDE DEF d, u
<1>5. /\ d \o gs \in Seq(Glyph) /\ Len(d \o gs) = outLen + Len(gs)
      /\ \A i \in 1 .. outLen + Len(gs) : (d \o gs)[i] = IF i <= outLen THEN d[i] ELSE gs[i - outLen]
  <2>1. /\ d \o gs \in Seq(Glyph) /\ Len(d \o gs) = Len(d) + Len(gs)
        /\ \A i \in 1 .. Len(d) + Len(gs) : (d \o gs)[i] = IF i <= Len(d) THEN d[i] ELSE gs[i - Len(d)]
    BY <1>3, ConcatProperties
  <2> QED BY <1>3, <2>1
<1>6. /\ Done' \in Seq(Glyph) /\ Todo' \in Seq(Glyph)
      /\ Len(Done') = outLen + Len(gs)
      /\ \A p \in 1 .. outLen : Done'[p] = t[p]
      /\ \A p \in 1 .. Len(gs) : Done'[outLen + p] = gs[p]
      /\ Len(Todo') = len - (idx + numIn)
      /\ \A p \in 1 .. len - (idx + numIn) : Todo'[p] = t[outLen + numIn + p]
  BY DEF Emits, t
<1>7. \A i \in 1 .. Len(Done') : Done'[i] = (d \o gs)[i]
  <2> TAKE i \in 1 .. Len(Done')
  <2>1. i \in 1 .. outLen + Len(gs)
    BY <1>6
  <2>2. CASE i <= outLen
    <3>1. i \in 1 .. outLen
      BY <1>1, <2>1, <2>2
    <3> QED BY <1>3, <1>5, <1>6, <2>1, <2>2, <3>1
  <2>3. CASE ~(i <= outLen)
    <3>1. PICK p \in 1 .. Len(gs) : i = outLen + p /\ i - outLen = p
      <4>1. i - outLen \in 1 .. Len(gs) /\ i = outLen + (i - outLen)
        BY <1>1, <2>1, <2>3
      <4> QED BY <4>1
    <3> QED BY <1>5, <1>6, <2>1, <2>3, <3>1
  <2> QED BY <2>2, <2>3
<1>8. Done' = d \o gs
  <2> DEFINE e == d \o gs
  <2>1. e \in Seq(Glyph) /\ Len(Done') = Len(e) /\ \A i \in 1 .. Len(Done') : Done'[i] = e[i]
    BY <1>5, <1>6, <1>7
  <2> HIDE DEF e
  <2>2. Done' = e
    BY <1>6, <2>1, SeqEqual
  <2> QED BY <2>2 DEF e
<1>9. Todo' = u
  BY <1>4, <1>6, SeqEqual
<1> QED BY <1>8, <1>9 DEF d, u, t, x, n

\* Glyphs gs written from the text in m, numIn glyphs read, and nothing failed.
Wrote(m, numIn, gs) ==
  /\ successful /\ successful' /\ UNCHANGED <<successful, haveOutput, level>>
  /\ Emits(m, numIn, gs)
  /\ Done' = SubSeq(View(m), 1, outLen) \o gs
  /\ Todo' = SubSeq(View(m), outLen + numIn + 1, Len(View(m)))

\* The two ways a method writes: without asking for room, or with make_room_for.
Writes(m, numIn, gs) ==
  \/ Emit(m, numIn, gs) /\ UNCHANGED successful
  \/ \E r \in Ensure(outLen + Len(gs)) : Refused(r) \/ (r.ok /\ Granted(r) /\ Emit(m, numIn, gs))

\* A method that writes is a step of the text if it is one when nothing fails.
LEMMA WritesStaged ==
  ASSUME BufferInv, BufferInv', haveOutput, NEW m, NEW numIn \in Nat, NEW gs \in Seq(Glyph),
         idx + numIn <= len, Writable(m, numIn, Len(gs)), Writes(m, numIn, gs),
         Wrote(m, numIn, gs) => Staged
  PROVE  Staged
<1>1. m \in Mem /\ (~m.sep => outLen + Len(gs) <= idx + numIn) /\ successful \in BOOLEAN
      /\ outLen + Len(gs) \in Nat
  BY InvFacts DEF Writable, BufferInv, TypeOK
<1>2. ASSUME Emit(m, numIn, gs), successful' = successful
      PROVE  Staged
  <2>1. UNCHANGED <<haveOutput, level>>
    BY <1>2 DEF Emit
  <2>2. CASE ~successful
    BY <1>1, <1>2, <2>1, <2>2, BrokenStaged
  <2>3. CASE successful
    <3>1. Emits(m, numIn, gs)
      BY <1>1, <1>2, EmitIs
    <3>2. /\ Done' = SubSeq(View(m), 1, outLen) \o gs
          /\ Todo' = SubSeq(View(m), outLen + numIn + 1, Len(View(m)))
      BY <1>1, <3>1, EmittedText
    <3>3. Wrote(m, numIn, gs)
      BY <1>2, <2>1, <2>3, <3>1, <3>2 DEF Wrote
    <3> QED BY <3>3
  <2> QED BY <2>2, <2>3
<1>3. CASE Emit(m, numIn, gs) /\ UNCHANGED successful
  BY <1>2, <1>3
<1>4. CASE \E r \in Ensure(outLen + Len(gs)) : Refused(r) \/ (r.ok /\ Granted(r) /\ Emit(m, numIn, gs))
  <2>1. PICK r \in Ensure(outLen + Len(gs)) : Refused(r) \/ (r.ok /\ Granted(r) /\ Emit(m, numIn, gs))
    BY <1>4
  <2>2. CASE Refused(r)
    BY <1>1, <2>2, RefusedStaged
  <2>3. CASE r.ok /\ Granted(r) /\ Emit(m, numIn, gs)
    <3>1. successful' = successful
      BY <1>1, <2>3, EnsureSuccess DEF Granted
    <3> QED BY <1>2, <2>3, <3>1
  <2> QED BY <2>1, <2>2, <2>3
<1> QED BY <1>3, <1>4 DEF Writes

\* The text while it is edited.
LEMMA EditedText ==
  ASSUME BufferInv, haveOutput
  PROVE  /\ idx \in Nat /\ len \in Nat /\ outLen \in Nat /\ idx <= len
         /\ View(mem) \in Seq(Glyph) /\ Len(View(mem)) = outLen + (len - idx)
         /\ Cursor!Text = View(mem)
         /\ Done \in Seq(Glyph) /\ Len(Done) = outLen
         /\ Todo \in Seq(Glyph) /\ Len(Todo) = len - idx
         /\ \A p \in 1 .. outLen : Done[p] = OutBlock(mem)[p - 1]
         /\ \A p \in 1 .. len - idx : Todo[p] = mem.info[idx + p - 1]
         /\ Done = SubSeq(View(mem), 1, outLen)
         /\ Todo = SubSeq(View(mem), outLen + 1, Len(View(mem)))
<1>1. /\ Written = outLen /\ From = idx
  BY DEF Written, From
<1>2. idx \in Nat /\ len \in Nat /\ outLen \in Nat /\ idx <= len /\ mem \in Mem
  BY InvFacts DEF BufferInv, WithinAllocation
<1>3. View(mem) \in Seq(Glyph) /\ Len(View(mem)) = outLen + (len - idx)
  BY <1>1, <1>2, ViewIsText
<1>4. /\ Done \in Seq(Glyph) /\ Len(Done) = outLen
      /\ Todo \in Seq(Glyph) /\ Len(Todo) = len - idx
      /\ \A p \in 1 .. outLen : Done[p] = OutBlock(mem)[p - 1]
      /\ \A p \in 1 .. len - idx : Todo[p] = mem.info[idx + p - 1]
  BY <1>1, ShownIs DEF Shown
<1>5. Parts(View(mem), Done, Todo)
  BY TextIsView
<1>6. Done = SubSeq(View(mem), 1, Len(Done)) /\ Todo = SubSeq(View(mem), Len(Done) + 1, Len(View(mem)))
  BY <1>5, PartsAreCut
<1>7. Cursor!Text = View(mem)
  BY CursorText
<1> QED BY <1>2, <1>3, <1>4, <1>6, <1>7

\* Writing copies of what is read moves the cursor.
LEMMA CopiesMove ==
  ASSUME BufferInv, haveOutput, NEW m \in Mem, NEW n \in Nat, NEW gs, idx + n <= len,
         gs = Segment(mem.info, idx, idx + n), View(m) = View(mem), Wrote(m, n, gs)
  PROVE  Staged
<1>1. /\ idx \in Nat /\ len \in Nat /\ outLen \in Nat /\ idx <= len /\ Cursor!Text = View(mem)
      /\ View(mem) \in Seq(Glyph) /\ Len(View(mem)) = outLen + (len - idx)
  BY EditedText
<1>2. Len(gs) = n /\ \A k \in 1 .. n : gs[k] = mem.info[idx + k - 1]
  <2> DEFINE e == idx + n
  <2>1. mem.info \in Block /\ idx \in Nat /\ e \in Nat /\ idx <= e /\ e <= Capacity /\ e - idx = n
    BY <1>1, InvFacts
  <2>2. gs = Segment(mem.info, idx, e)
    OBVIOUS
  <2> HIDE DEF e
  <2>3. /\ gs \in Seq(Glyph) /\ Len(gs) = e - idx
        /\ \A k \in 1 .. e - idx : /\ idx + k - 1 \in idx .. e - 1
                                   /\ gs[k] = mem.info[idx + k - 1]
    <3> HIDE DEF e
    <3>1. LET t == Segment(mem.info, idx, e)
          IN  /\ t \in Seq(Glyph) /\ Len(t) = e - idx
              /\ \A k \in 1 .. e - idx : idx + k - 1 \in idx .. e - 1 /\ t[k] = mem.info[idx + k - 1]
      BY <2>1, SegmentIsSeq
    <3> QED BY <2>2, <3>1
  <2> QED BY <2>1, <2>3
<1>3. /\ Written = outLen /\ From = idx
  BY DEF Written, From
<1>4. \A p \in 1 .. len - idx : View(mem)[outLen + p] = mem.info[idx + p - 1]
  BY <1>3, ViewIsText, InvFacts
<1>5. /\ Done' \in Seq(Glyph) /\ Todo' \in Seq(Glyph)
      /\ Len(Done') = outLen + n
      /\ \A p \in 1 .. outLen : Done'[p] = View(mem)[p]
      /\ \A p \in 1 .. n : Done'[outLen + p] = gs[p]
      /\ Len(Todo') = len - (idx + n)
      /\ \A x \in 1 .. len - (idx + n) : Todo'[x] = View(mem)[outLen + n + x]
  BY <1>2 DEF Wrote, Emits
<1>6. ASSUME NEW p \in 1 .. outLen + n
      PROVE  Done'[p] = View(mem)[p]
  <2>1. CASE p <= outLen
    <3>1. p \in 1 .. outLen
      BY <1>1, <2>1
    <3> QED BY <1>5, <3>1
  <2>2. CASE ~(p <= outLen)
    <3>1. PICK x \in 1 .. n : p = outLen + x
      <4>1. p - outLen \in 1 .. n /\ p = outLen + (p - outLen)
        BY <1>1, <2>2
      <4> QED BY <4>1
    <3>2. x \in 1 .. len - idx
      BY <1>1, <3>1
    <3>3. Done'[outLen + x] = mem.info[idx + x - 1] /\ View(mem)[outLen + x] = mem.info[idx + x - 1]
      BY <1>2, <1>4, <1>5, <3>2
    <3> QED BY <3>1, <3>3
  <2> QED BY <2>1, <2>2
<1>7. Parts(View(mem), Done', Todo')
  <2>1. Len(View(mem)) = Len(Done') + Len(Todo')
    BY <1>1, <1>5
  <2> QED BY <1>1, <1>5, <1>6, <2>1 DEF Parts
<1>8. Cursor!MoveCursor
  <2>1. View(mem) = Done' \o Todo'
    BY <1>7, PartsAreText
  <2> QED BY <1>1, <2>1 DEF Cursor!MoveCursor, Cursor!Editing, Wrote
<1> QED BY <1>8 DEF Staged, Cursor!EditStep, Wrote

\* Writing glyphs made from the one at the cursor, numIn glyphs being read.
LEMMA ReplacesText ==
  ASSUME BufferInv, haveOutput, NEW m \in Mem, NEW numIn \in Nat, NEW cps, NEW gs,
         numIn >= 1, idx + numIn <= len,
         View(m) = Cursor!Merged(View(mem), outLen + 1, outLen + numIn),
         gs = Cursor!WithCps(m.info[idx], cps), Wrote(m, numIn, gs)
  PROVE  Cursor!Replace(numIn, cps)
<1>1. /\ idx \in Nat /\ len \in Nat /\ outLen \in Nat /\ idx <= len /\ Cursor!Text = View(mem)
      /\ Len(Done) = outLen
  BY EditedText
<1>2. /\ Written = outLen /\ From = idx
  BY DEF Written, From
<1>3. \A p \in 1 .. len - idx : View(m)[outLen + p] = m.info[idx + p - 1]
  BY <1>2, ViewIsText
<1>4. View(m)[outLen + 1] = m.info[idx]
  <2>1. 1 \in 1 .. len - idx /\ idx + 1 - 1 = idx
    BY <1>1
  <2> QED BY <1>3, <2>1
<1>5. /\ Done' = SubSeq(View(m), 1, outLen) \o Cursor!WithCps(View(m)[outLen + 1], cps)
      /\ Todo' = SubSeq(View(m), outLen + numIn + 1, Len(View(m)))
  BY <1>4 DEF Wrote
<1> DEFINE v == View(m)
<1>7. /\ Done' = SubSeq(v, 1, outLen) \o Cursor!WithCps(v[outLen + 1], cps)
      /\ Todo' = SubSeq(v, outLen + numIn + 1, Len(v))
      /\ v = Cursor!Merged(Cursor!Text, outLen + 1, outLen + numIn)
  BY <1>1, <1>5
<1>8. Cursor!Editing
  BY DEF Wrote, Cursor!Editing
<1> HIDE DEF v
<1> QED BY <1>1, <1>7, <1>8 DEF Cursor!Replace

\* A method that works on the cell itself writes through the blocks as they are.
LEMMA ReplaceGlyphStaged ==
  ASSUME BufferInv, BufferInv', NEW cp \in GlyphIds, ReplaceGlyph(cp)
  PROVE  Staged
<1> DEFINE gs == <<[mem.info[idx] EXCEPT !.cp = cp]>>
<1>1. haveOutput /\ idx < len /\ idx + 1 <= len /\ idx \in Nat /\ outLen \in Nat /\ len \in Nat
  BY InvFacts DEF ReplaceGlyph
<1>2. gs \in Seq(Glyph) /\ Len(gs) = 1
  <2>1. cp \in Codepoints
    BY TextAssumption
  <2> QED BY <1>1, <2>1, CurIsGlyph, OneGlyph
<1> DEFINE m == IF InStep THEN mem ELSE RoomMade(1, 1)
<1>3. Writes(m, 1, gs)
  <2>1. CASE InStep
    <3>1. Emit(mem, 1, gs) /\ UNCHANGED successful
      BY <2>1 DEF ReplaceGlyph
    <3> QED BY <2>1, <3>1 DEF Writes
  <2>2. CASE ~InStep
    <3>1. \E r \in Ensure(outLen + 1) : Refused(r) \/ (r.ok /\ Granted(r) /\ Emit(RoomMade(1, 1), 1, gs))
      BY <2>2 DEF ReplaceGlyph, WithRoom
    <3> HIDE DEF gs
    <3> QED BY <1>2, <2>2, <3>1 DEF Writes
  <2> QED BY <2>1, <2>2
<1>4. Writable(m, 1, 1) /\ View(m) = View(mem) /\ m.info = mem.info
  BY <1>1, InStepWritable, RoomMadeWritable, RoomMadeView
<1>5. m \in Mem
  BY <1>4 DEF Writable
<1>6. gs = Cursor!WithCps(m.info[idx], <<cp>>)
  <2> DEFINE g == mem.info[idx]
             c == <<cp>>
             w == [k \in DOMAIN c |-> [g EXCEPT !.cp = c[k]]]
  <2>1. w = <<[g EXCEPT !.cp = cp]>>
    OBVIOUS
  <2> HIDE DEF m
  <2> QED BY <1>4, <2>1 DEF Cursor!WithCps
<1> HIDE DEF gs, m
<1>7. ASSUME Wrote(m, 1, gs)
      PROVE  Staged
  <2>1. View(m) = Cursor!Merged(View(mem), outLen + 1, outLen + 1)
    BY <1>1, <1>4 DEF Cursor!Merged
  <2>2. Cursor!Replace(1, <<cp>>)
    BY <1>1, <1>5, <1>6, <1>7, <2>1, ReplacesText
  <2>3. Todo # <<>>
    <3>1. Todo \in Seq(Glyph) /\ Len(Todo) = len - idx
      BY <1>1, EditedText
    <3> QED BY <1>1, <3>1
  <2> QED BY <1>7, <2>2, <2>3 DEF Staged, Cursor!EditStep, Wrote
<1> QED BY <1>1, <1>2, <1>3, <1>4, <1>7, WritesStaged

\* What merging does to the glyphs a ligature is made of.
LEMMA LigatureView ==
  ASSUME BufferInv, haveOutput, NEW m \in Mem, m.sep \/ outLen <= idx,
         NEW numIn \in Nat, numIn >= 1, idx + numIn <= len
  PROVE  View(MergedMem(m, idx, idx + numIn)) = Cursor!Merged(View(m), outLen + 1, outLen + numIn)
<1>1. idx \in Nat /\ outLen \in Nat /\ len \in Nat /\ idx + numIn \in Nat /\ idx + numIn <= Capacity
  BY InvFacts
<1> DEFINE start == idx
           end == idx + numIn
<1>2. MergedMem(m, start, end) \in Mem
  BY <1>1, MergedMemSame DEF SameGlyphs
<1>3. outLen - idx + 1 + start = outLen + 1 /\ outLen - idx + 1 + end - 1 = outLen + numIn
  BY <1>1
<1>4. start \in Nat /\ end \in Nat /\ idx <= start /\ start < end /\ end <= len
      /\ (end - start < 2 <=> numIn = 1) /\ (numIn # 1 => start + 2 <= end /\ end - start >= 2)
  BY <1>1
<1> HIDE DEF start, end
<1>5. CASE numIn = 1
  <2>1. MergedMem(m, start, end) = m
    BY <1>4, <1>5 DEF MergedMem
  <2>2. Cursor!Merged(View(m), outLen + 1, outLen + numIn) = View(m)
    BY <1>1, <1>5 DEF Cursor!Merged
  <2> QED BY <2>1, <2>2 DEF start, end
<1>6. CASE numIn # 1 /\ level = "characters"
  <2>1. MergedMem(m, start, end) = UnsafeMem(m, start, end)
    BY <1>4, <1>6 DEF MergedMem
  <2>2. Cursor!Merged(View(m), outLen + 1, outLen + numIn) = Cursor!Flagged(View(m), outLen + 1, outLen + numIn)
    <3>1. ~(outLen + 1 >= outLen + numIn) /\ outLen + 1 < outLen + numIn
      BY <1>1, <1>6
    <3> QED BY <1>6, <3>1 DEF Cursor!Merged
  <2>3. View(UnsafeMem(m, start, end)) = Cursor!Flagged(View(m), outLen + 1, outLen + numIn)
    BY <1>2, <1>3, <1>4, <2>1, FlaggedEditing
  <2> QED BY <2>1, <2>2, <2>3 DEF start, end
<1>7. CASE numIn # 1 /\ level # "characters"
  <2>1. MergedMem(m, start, end) = MergedRange(m, start, end)
    BY <1>4, <1>7 DEF MergedMem
  <2>2. View(MergedRange(m, start, end)) = Cursor!JoinedAt(View(m), Cursor!Span(View(m), outLen + 1, outLen + numIn),
                                                           Cursor!LeastOf(View(m), (outLen + 1) .. (outLen + numIn)))
    BY <1>2, <1>3, <1>4, <1>7, <2>1, MergedEditing
  <2>3. Cursor!Merged(View(m), outLen + 1, outLen + numIn) =
          Cursor!JoinedAt(View(m), Cursor!Span(View(m), outLen + 1, outLen + numIn),
                          Cursor!LeastOf(View(m), (outLen + 1) .. (outLen + numIn)))
    <3>1. ~(outLen + 1 >= outLen + numIn)
      BY <1>1, <1>7
    <3> QED BY <1>7, <3>1 DEF Cursor!Merged
  <2> QED BY <2>1, <2>2, <2>3 DEF start, end
<1> QED BY <1>5, <1>6, <1>7

\* A stage only writes sequences of at least one codepoint.
LEMMA ReplaceGlyphsStaged ==
  ASSUME BufferInv, BufferInv', NEW numIn \in Nat, NEW cps \in Replacements, ReplaceGlyphs(numIn, cps)
  PROVE  Staged
<1> DEFINE n == RoomMade(numIn, Len(cps))
           m == MergedMem(n, idx, idx + numIn)
           gs == [k \in 1 .. Len(cps) |-> [m.info[idx] EXCEPT !.cp = cps[k]]]
<1>1. /\ haveOutput /\ numIn >= 1 /\ idx < len /\ idx + numIn <= len /\ idx + numIn \in Nat
      /\ idx \in Nat /\ outLen \in Nat /\ len \in Nat /\ idx + numIn <= Capacity
  BY InvFacts DEF ReplaceGlyphs
<1>2. cps \in Seq(Codepoints) /\ Len(cps) \in Nat
  BY TextAssumption
<1>3. Writable(n, numIn, Len(cps)) /\ View(n) = View(mem)
  BY <1>1, <1>2, RoomMadeWritable, RoomMadeView
<1>4. n \in Mem /\ (n.sep \/ outLen <= idx)
  <2>1. n.sep \/ n = mem
    BY InvFacts DEF RoomMade, Mem
  <2> QED BY <1>1, <1>3, <2>1 DEF Writable, BufferInv, InPlaceOutputBehindCursor
<1> HIDE DEF n
<1>5. SameGlyphs(n, m)
  BY <1>1, <1>4, MergedMemSame
<1>6. Writable(m, numIn, Len(cps)) /\ m \in Mem
  BY <1>3, <1>5, WritableSame DEF SameGlyphs
<1>7. View(m) = Cursor!Merged(View(mem), outLen + 1, outLen + numIn)
  BY <1>1, <1>3, <1>4, LigatureView
<1> HIDE DEF m
<1>8. gs \in Seq(Glyph) /\ Len(gs) = Len(cps)
  <2>1. m.info[idx] \in Glyph
    BY <1>1, <1>6, InvFacts DEF Mem, Cells
  <2>2. \A k \in 1 .. Len(cps) : cps[k] \in Codepoints
    BY <1>2
  <2>3. \A k \in 1 .. Len(cps) : [m.info[idx] EXCEPT !.cp = cps[k]] \in Glyph
    BY <2>1, <2>2 DEF Glyph
  <2> QED BY <1>2, <2>3
<1>9. gs = Cursor!WithCps(m.info[idx], cps)
  <2>1. DOMAIN cps = 1 .. Len(cps)
    BY <1>2
  <2> QED BY <2>1 DEF Cursor!WithCps
<1>10. Writes(m, numIn, gs)
  <2>1. \E r \in Ensure(outLen + Len(cps)) : Refused(r) \/ (r.ok /\ Granted(r) /\ Emit(m, numIn, gs))
    BY DEF ReplaceGlyphs, WithRoom, m, n
  <2> HIDE DEF gs
  <2> QED BY <1>8, <2>1 DEF Writes
<1> HIDE DEF gs
<1>11. ASSUME Wrote(m, numIn, gs)
       PROVE  Staged
  <2>1. Cursor!Replace(numIn, cps)
    BY <1>1, <1>6, <1>7, <1>9, <1>11, ReplacesText
  <2>2. numIn \in DOMAIN Todo
    <3>1. Todo \in Seq(Glyph) /\ Len(Todo) = len - idx
      BY <1>1, EditedText
    <3> QED BY <1>1, <3>1
  <2> QED BY <1>11, <2>1, <2>2 DEF Staged, Cursor!EditStep, Wrote
<1> QED BY <1>1, <1>6, <1>8, <1>10, <1>11, WritesStaged

\* One glyph more behind the output, the unread text as it is.
LEMMA WroteOne ==
  ASSUME BufferInv, haveOutput, NEW m \in Mem, NEW g \in Glyph, View(m) = View(mem), Wrote(m, 0, <<g>>)
  PROVE  Done' = Append(Done, g) /\ UNCHANGED Todo /\ Cursor!Editing
<1>1. /\ outLen \in Nat /\ Done \in Seq(Glyph)
      /\ Done = SubSeq(View(mem), 1, outLen)
      /\ Todo = SubSeq(View(mem), outLen + 1, Len(View(mem)))
  BY EditedText
<1>2. /\ Done' = SubSeq(View(mem), 1, outLen) \o <<g>>
      /\ Todo' = SubSeq(View(mem), outLen + 0 + 1, Len(View(mem)))
  BY DEF Wrote
<1>3. outLen + 0 + 1 = outLen + 1
  BY <1>1
<1>4. Done' = Done \o <<g>> /\ Todo' = Todo
  BY <1>1, <1>2, <1>3
<1>5. Append(Done, g) = Done \o <<g>>
  BY <1>1, AppendIsConcat
<1> QED BY <1>4, <1>5 DEF Cursor!Editing, Wrote

LEMMA CopyGlyphStaged ==
  ASSUME BufferInv, BufferInv', CopyGlyph
  PROVE  Staged
<1> DEFINE g == mem.info[idx]
           m == RoomMade(0, 1)
           gs == <<g>>
<1>1. haveOutput /\ idx < len /\ idx + 0 <= len /\ idx \in Nat /\ outLen \in Nat /\ len \in Nat
  BY InvFacts DEF CopyGlyph
<1>2. g \in Glyph /\ gs \in Seq(Glyph) /\ Len(gs) = 1
  BY <1>1, CurIsGlyph, OneGlyph
<1>3. Writable(m, 0, 1) /\ View(m) = View(mem)
  BY <1>1, RoomMadeWritable, RoomMadeView
<1>4. Writes(m, 0, gs)
  <2>1. \E r \in Ensure(outLen + 1) : Refused(r) \/ (r.ok /\ Granted(r) /\ Emit(m, 0, gs))
    BY DEF CopyGlyph, WithRoom
  <2> HIDE DEF gs, m
  <2> QED BY <1>2, <2>1 DEF Writes
<1>5. m \in Mem
  BY <1>3 DEF Writable
<1> HIDE DEF m, g
<1>6. ASSUME Wrote(m, 0, gs)
      PROVE  Staged
  <2>1. Done' = Append(Done, g) /\ UNCHANGED Todo /\ Cursor!Editing
    BY <1>1, <1>2, <1>3, <1>5, <1>6, WroteOne
  <2>2. Todo \in Seq(Glyph) /\ Len(Todo) = len - idx /\ \A p \in 1 .. len - idx : Todo[p] = mem.info[idx + p - 1]
    BY <1>1, EditedText
  <2>3. Todo # <<>> /\ Todo[1] = g
    <3>1. 1 \in 1 .. len - idx /\ idx + 1 - 1 = idx
      BY <1>1
    <3> QED BY <1>1, <2>2, <3>1 DEF g
  <2>4. Cursor!Duplicate
    BY <2>1, <2>3 DEF Cursor!Duplicate
  <2> QED BY <1>6, <2>4 DEF Staged, Cursor!EditStep, Wrote
<1> QED BY <1>1, <1>2, <1>3, <1>4, <1>6, WritesStaged

\* With nothing to copy from only the room is made.
LEMMA OutputGlyphStaged ==
  ASSUME BufferInv, BufferInv', NEW cp \in GlyphIds, OutputGlyph(cp)
  PROVE  Staged
<1> DEFINE m == RoomMade(0, 1)
           g == IF idx < len THEN m.info[idx] ELSE OutBlock(m)[outLen - 1]
           h == [g EXCEPT !.cp = cp]
           gs == <<h>>
<1>1. haveOutput /\ idx <= len /\ idx + 0 <= len /\ idx \in Nat /\ outLen \in Nat /\ len \in Nat /\ cp \in Codepoints
  BY InvFacts, TextAssumption DEF OutputGlyph, BufferInv, WithinAllocation
<1>2. Writable(m, 0, 1) /\ View(m) = View(mem)
  BY <1>1, RoomMadeWritable, RoomMadeView
<1>3. \E r \in Ensure(outLen + 1) :
         \/ Refused(r)
         \/ /\ r.ok /\ Granted(r)
            /\ IF idx >= len /\ outLen = 0
               THEN mem' = m /\ UNCHANGED <<idx, len, outLen, haveOutput, havePositions>>
               ELSE Emit(m, 0, gs)
            /\ UNCHANGED <<hasUnsafe, level>>
  BY DEF OutputGlyph, WithRoom
<1>4. m \in Mem
  BY <1>2 DEF Writable
<1> HIDE DEF m
<1>5. CASE idx >= len /\ outLen = 0
  <2>1. PICK r \in Ensure(outLen + 1) :
           \/ Refused(r)
           \/ /\ r.ok /\ Granted(r) /\ mem' = m
              /\ UNCHANGED <<idx, len, outLen, haveOutput, havePositions, hasUnsafe, level>>
    BY <1>3, <1>5
  <2>2. CASE Refused(r)
    BY <1>1, <2>2, RefusedStaged
  <2>3. CASE /\ r.ok /\ Granted(r) /\ mem' = m
             /\ UNCHANGED <<idx, len, outLen, haveOutput, havePositions, hasUnsafe, level>>
    <3>1. ASSUME successful, successful'
          PROVE  Staged
      <4>1. InPlaceStep
        BY <2>3, <3>1 DEF InPlaceStep
      <4>2. UNCHANGED Cursor!cursorVars
        BY <1>2, <2>3, <4>1, SameView
      <4> QED BY <4>2 DEF Staged
    <3> QED BY <1>1, <2>3, <3>1, RoomStaged
  <2> QED BY <2>1, <2>2, <2>3
<1>6. CASE ~(idx >= len /\ outLen = 0)
  <2>1. g \in Glyph
    <3>1. (idx < len => idx \in Cells) /\ (~(idx < len) => outLen - 1 \in Cells)
      BY <1>1, <1>6, InvFacts
    <3>2. m.info \in Block /\ OutBlock(m) \in Block
      BY <1>4, OutBlockIsBlock DEF Mem, Block
    <3> QED BY <3>1, <3>2 DEF Block
  <2> HIDE DEF g
  <2>2. h \in Glyph
    BY <1>1, <2>1 DEF Glyph
  <2>3. gs \in Seq(Glyph) /\ Len(gs) = 1
    <3> HIDE DEF h
    <3> QED BY <2>2
  <2>4. Writes(m, 0, gs)
    <3>1. \E r \in Ensure(outLen + 1) : Refused(r) \/ (r.ok /\ Granted(r) /\ Emit(m, 0, gs))
      BY <1>3, <1>6 DEF g
    <3> HIDE DEF gs
    <3> QED BY <2>3, <3>1 DEF Writes
  <2>5. ASSUME Wrote(m, 0, gs)
        PROVE  Staged
    <3>1. Done' = Append(Done, h) /\ UNCHANGED Todo /\ Cursor!Editing
      <4> HIDE DEF h
      <4> QED BY <1>1, <1>2, <1>4, <2>2, <2>5, WroteOne
    <3>2. /\ Done \in Seq(Glyph) /\ Len(Done) = outLen
          /\ Todo \in Seq(Glyph) /\ Len(Todo) = len - idx /\ Cursor!Text = View(mem)
          /\ View(mem) \in Seq(Glyph) /\ Len(View(mem)) = outLen + (len - idx)
      BY <1>1, EditedText
    <3>3. Cursor!Text # <<>>
      BY <1>1, <1>6, <3>2
    <3>4. g = IF Todo # <<>> THEN Todo[1] ELSE Done[Len(Done)]
      <4>1. /\ \A p \in 1 .. outLen : Done[p] = View(mem)[p]
            /\ \A p \in 1 .. len - idx : Todo[p] = View(mem)[outLen + p]
        BY TextIsView, <3>2 DEF Parts
      <4>2. /\ \A p \in 1 .. outLen : View(m)[p] = OutBlock(m)[p - 1]
            /\ \A p \in 1 .. len - idx : View(m)[outLen + p] = m.info[idx + p - 1]
        BY <1>1, <1>4, ViewIsText DEF Written, From
      <4>3. CASE idx < len
        <5>1. 1 \in 1 .. len - idx /\ idx + 1 - 1 = idx
          BY <1>1, <4>3
        <5>2. Todo[1] = m.info[idx]
          BY <1>2, <4>1, <4>2, <5>1
        <5>3. Todo # <<>>
          BY <1>1, <3>2, <4>3
        <5> QED BY <4>3, <5>2, <5>3 DEF g
      <4>4. CASE ~(idx < len)
        <5>1. outLen \in 1 .. outLen
          BY <1>1, <1>6, <4>4
        <5>2. Done[outLen] = OutBlock(m)[outLen - 1]
          BY <1>2, <4>1, <4>2, <5>1
        <5>3. Todo = <<>>
          BY <1>1, <3>2, <4>4
        <5> QED BY <3>2, <4>4, <5>2, <5>3 DEF g
      <4> QED BY <4>3, <4>4
    <3>5. Cursor!Insert(cp)
      BY <3>1, <3>3, <3>4 DEF Cursor!Insert
    <3> QED BY <2>5, <3>5 DEF Staged, Cursor!EditStep, Wrote
  <2> HIDE DEF gs
  <2> QED BY <1>1, <1>2, <2>3, <2>4, <2>5, WritesStaged
<1> QED BY <1>5, <1>6

\* next_glyphs outside an edit moves a cursor nobody sees.
LEMMA NextGlyphsStaged ==
  ASSUME BufferInv, BufferInv', NEW n \in Nat, NextGlyphs(n)
  PROVE  Staged
<1> DEFINE e == idx + n
           gs == Segment(mem.info, idx, e)
<1>1. idx \in Nat /\ len \in Nat /\ outLen \in Nat /\ e \in Nat /\ e <= len /\ idx <= e /\ e - idx = n /\ e <= Capacity
  BY InvFacts DEF NextGlyphs
<1>2. gs \in Seq(Glyph) /\ Len(gs) = n
  <2>1. mem.info \in Block
    BY InvFacts
  <2> HIDE DEF e
  <2> QED BY <1>1, <2>1, SegmentIsSeq
<1>3. CASE ~haveOutput
  <2>1. UNCHANGED <<mem, len, outLen, successful, haveOutput, level>>
    BY <1>3 DEF NextGlyphs
  <2>2. UNCHANGED <<Done, Todo>>
    BY <1>3, <2>1 DEF Done, Todo
  <2> QED BY <2>1, <2>2 DEF Staged, Cursor!cursorVars
<1>4. CASE haveOutput
  <2> DEFINE m == IF InStep THEN mem ELSE RoomMade(n, n)
  <2>1. Writes(m, n, gs)
    <3>1. CASE InStep
      <4>1. Emit(mem, n, gs) /\ UNCHANGED successful
        BY <1>4, <3>1 DEF NextGlyphs
      <4> QED BY <3>1, <4>1 DEF Writes
    <3>2. CASE ~InStep
      <4>1. \E r \in Ensure(outLen + n) : Refused(r) \/ (r.ok /\ Granted(r) /\ Emit(RoomMade(n, n), n, gs))
        BY <1>4, <3>2 DEF NextGlyphs, WithRoom
      <4> HIDE DEF gs
      <4> QED BY <1>2, <3>2, <4>1 DEF Writes
    <3> QED BY <3>1, <3>2
  <2>2. Writable(m, n, n) /\ View(m) = View(mem)
    BY <1>4, InStepWritable, RoomMadeWritable, RoomMadeView
  <2>3. m \in Mem
    BY <2>2 DEF Writable
  <2> HIDE DEF m
  <2>4. idx + n <= len
    BY <1>1
  <2> HIDE DEF gs
  <2>5. ASSUME Wrote(m, n, gs)
        PROVE  Staged
    <3>1. gs = Segment(mem.info, idx, idx + n)
      BY DEF gs
    <3> QED BY <1>4, <2>2, <2>3, <2>4, <2>5, <3>1, CopiesMove
  <2> QED BY <1>2, <1>4, <2>1, <2>2, <2>4, <2>5, WritesStaged
<1> QED BY <1>3, <1>4

LEMMA MoveForwardStaged ==
  ASSUME BufferInv, BufferInv', haveOutput, NEW i \in Nat, outLen < i, i <= outLen + (len - idx), MoveForward(i)
  PROVE  Staged
<1>0. PICK n \in Int : n = i - outLen
  BY InvFacts
<1> DEFINE e == idx + n
           gs == Segment(mem.info, idx, e)
           m == RoomMade(n, n)
<1>1. idx \in Nat /\ len \in Nat /\ outLen \in Nat /\ n \in Nat /\ e \in Nat /\ e <= len /\ idx <= e /\ e - idx = n
      /\ e <= Capacity /\ idx + i - outLen = e
  BY <1>0, InvFacts
<1>2. gs \in Seq(Glyph) /\ Len(gs) = n
  <2>1. mem.info \in Block
    BY InvFacts
  <2> HIDE DEF e
  <2> QED BY <1>1, <2>1, SegmentIsSeq
<1>3. Writes(m, n, gs)
  <2>1. \E r \in Ensure(outLen + n) : Refused(r) \/ (r.ok /\ Granted(r) /\ Emit(m, n, gs))
    BY <1>0, <1>1 DEF MoveForward, WithRoom
  <2> HIDE DEF gs, m
  <2> QED BY <1>2, <2>1 DEF Writes
<1>4. Writable(m, n, n) /\ View(m) = View(mem) /\ idx + n <= len
  BY <1>1, RoomMadeWritable, RoomMadeView
<1>5. m \in Mem
  BY <1>4 DEF Writable
<1> HIDE DEF m, gs
<1>6. ASSUME Wrote(m, n, gs)
      PROVE  Staged
  <2>1. gs = Segment(mem.info, idx, idx + n)
    BY DEF gs
  <2> QED BY <1>1, <1>4, <1>5, <1>6, <2>1, CopiesMove
<1> QED BY <1>1, <1>2, <1>3, <1>4, <1>6, WritesStaged

\* The last count glyphs of the output are in front of the unread ones again.
WentBack(count) ==
  /\ outLen' = outLen - count /\ len' - idx' = len - idx + count
  /\ UNCHANGED <<haveOutput, level>>
  /\ \A c \in 0 .. outLen - count - 1 : OutBlock(mem')[c] = OutBlock(mem)[c]
  /\ \A x \in 1 .. count : mem'.info[idx' + x - 1] = OutBlock(mem)[outLen - count + x - 1]
  /\ \A x \in 1 .. len - idx : mem'.info[idx' + count + x - 1] = mem.info[idx + x - 1]

\* Going back moves the cursor, and nothing in the text.
LEMMA WentBackMoves ==
  ASSUME BufferInv, BufferInv', haveOutput, NEW count \in Nat, count <= outLen, WentBack(count),
         successful, UNCHANGED successful
  PROVE  Staged
<1>1. /\ idx \in Nat /\ len \in Nat /\ outLen \in Nat /\ idx <= len /\ Cursor!Text = View(mem)
      /\ View(mem) \in Seq(Glyph) /\ Len(View(mem)) = outLen + (len - idx)
  BY EditedText
<1>2. /\ Written = outLen /\ From = idx /\ Written' = outLen - count /\ From' = idx'
      /\ idx' \in Nat /\ len' \in Nat /\ len' - idx' = len - idx + count
  <2>1. idx' \in Nat /\ len' \in Nat
    BY DEF BufferInv, TypeOK
  <2> QED BY <2>1 DEF Written, From, WentBack
<1>3. (OutBlock(mem))' = OutBlock(mem')
  BY DEF OutBlock
<1>4. /\ Done' \in Seq(Glyph) /\ Len(Done') = outLen - count
      /\ Todo' \in Seq(Glyph) /\ Len(Todo') = len - idx + count
      /\ \A p \in 1 .. outLen - count : Done'[p] = OutBlock(mem')[p - 1]
      /\ \A x \in 1 .. len - idx + count : Todo'[x] = mem'.info[idx' + x - 1]
  BY <1>2, <1>3, ShownNext DEF Shown
<1>5. /\ \A p \in 1 .. outLen : View(mem)[p] = OutBlock(mem)[p - 1]
      /\ \A x \in 1 .. len - idx : View(mem)[outLen + x] = mem.info[idx + x - 1]
  BY <1>2, ViewIsText, InvFacts
<1>6. /\ \A c \in 0 .. outLen - count - 1 : OutBlock(mem')[c] = OutBlock(mem)[c]
      /\ \A x \in 1 .. count : mem'.info[idx' + x - 1] = OutBlock(mem)[outLen - count + x - 1]
      /\ \A x \in 1 .. len - idx : mem'.info[idx' + count + x - 1] = mem.info[idx + x - 1]
  BY DEF WentBack
<1>7. ASSUME NEW p \in 1 .. outLen - count
      PROVE  Done'[p] = View(mem)[p]
  <2>1. p - 1 \in 0 .. outLen - count - 1 /\ p \in 1 .. outLen
    BY <1>1
  <2> QED BY <1>4, <1>5, <1>6, <2>1
<1>8. ASSUME NEW x \in 1 .. len - idx + count
      PROVE  Todo'[x] = View(mem)[outLen - count + x]
  <2>1. CASE x <= count
    <3>1. x \in 1 .. count
      BY <1>1, <2>1
    <3>2. PICK p \in 1 .. outLen : p = outLen - count + x
      BY <1>1, <3>1
    <3>3. p - 1 = outLen - count + x - 1
      BY <1>1, <3>2
    <3> QED BY <1>4, <1>5, <1>6, <3>1, <3>2, <3>3, ZenonT(60)
  <2>2. CASE ~(x <= count)
    <3>1. PICK y \in 1 .. len - idx : y = x - count
      BY <1>1, <2>2
    <3>2. idx' + count + y - 1 = idx' + x - 1 /\ outLen + y = outLen - count + x
      BY <1>1, <1>2, <3>1
    <3>3. Todo'[x] = mem.info[idx + y - 1]
      BY <1>4, <1>6, <3>2
    <3>4. View(mem)[outLen + y] = mem.info[idx + y - 1]
      BY <1>5
    <3> QED BY <3>2, <3>3, <3>4
  <2> QED BY <2>1, <2>2
<1>9. Parts(View(mem), Done', Todo')
  <2> DEFINE d == Done'
             u == Todo'
             v == View(mem)
  <2>1. /\ v \in Seq(Glyph) /\ d \in Seq(Glyph) /\ u \in Seq(Glyph)
        /\ Len(d) = outLen - count /\ Len(u) = len - idx + count /\ Len(v) = outLen + (len - idx)
        /\ \A p \in 1 .. outLen - count : d[p] = v[p]
        /\ \A x \in 1 .. len - idx + count : u[x] = v[outLen - count + x]
    BY <1>1, <1>4, <1>7, <1>8
  <2> HIDE DEF d, u, v
  <2>2. Parts(v, d, u)
    BY <1>1, <2>1 DEF Parts
  <2> QED BY <2>2 DEF d, u, v
<1>10. Cursor!MoveCursor
  <2>1. View(mem) = Done' \o Todo'
    BY <1>9, PartsAreText
  <2> QED BY <1>1, <2>1 DEF Cursor!MoveCursor, Cursor!Editing, WentBack
<1> QED BY <1>10 DEF Staged, Cursor!EditStep, WentBack

LEMMA MoveBackStaged ==
  ASSUME BufferInv, BufferInv', haveOutput, NEW i \in Nat, i < outLen, MoveBack(i)
  PROVE  Staged
<1>0. PICK count \in Int : count = outLen - i
  BY InvFacts
<1>1. /\ count \in Nat /\ count <= outLen /\ outLen - count = i /\ idx <= len /\ Capacity \in Nat
      /\ idx \in Nat /\ len \in Nat /\ outLen \in Nat
      /\ mem \in Mem /\ (~mem.sep => outLen <= idx) /\ successful \in BOOLEAN
      /\ outLen <= Capacity /\ len <= Capacity
  BY <1>0, InvFacts DEF BufferInv, WithinAllocation, InPlaceOutputBehindCursor, TypeOK
<1>2. \A c \in 0 .. Capacity - 1 : c \in Cells
  BY DEF Cells
<1>3. CASE idx < count
  <2>1. PICK r \in Ensure(len + count) :
           \/ Refused(r)
           \/ /\ r.ok /\ Granted(r)
              /\ mem' = Rewound(Shifted(count), idx, count)
              /\ len' = len + count /\ outLen' = i
              /\ UNCHANGED <<idx, haveOutput, havePositions, hasUnsafe, level>>
    BY <1>0, <1>3 DEF MoveBack
  <2>2. len + count \in Nat
    BY <1>1
  <2>3. CASE Refused(r)
    BY <2>2, <2>3, RefusedStaged
  <2>4. CASE /\ r.ok /\ Granted(r)
             /\ mem' = Rewound(Shifted(count), idx, count)
             /\ len' = len + count /\ outLen' = i
             /\ UNCHANGED <<idx, haveOutput, havePositions, hasUnsafe, level>>
    <3>1. mem.sep /\ len + count <= Capacity
      <4>1. len' <= Capacity
        BY ShownNext DEF Shown
      <4> QED BY <1>1, <1>3, <2>4, <4>1
    <3> DEFINE m == Shifted(count)
    <3>2. /\ m \in Mem /\ m.sep = mem.sep /\ m.pos = mem.pos
          /\ \A c \in Cells : idx + count <= c /\ c < len + count => m.info[c] = mem.info[c - count]
      BY <1>1, ShiftedIsMem
    <3> HIDE DEF m
    <3>3. /\ mem'.sep = m.sep /\ mem'.pos = m.pos
          /\ \A c \in Cells : mem'.info[c] = IF idx <= c /\ c < idx + count
                                 THEN OutBlock(m)[outLen - count + (c - idx)] ELSE m.info[c]
      <4>1. mem' = Rewound(m, idx, count)
        BY <2>4 DEF m
      <4>2. /\ Rewound(m, idx, count).sep = m.sep /\ Rewound(m, idx, count).pos = m.pos
            /\ \A c \in Cells : Rewound(m, idx, count).info[c] =
                 IF idx <= c /\ c < idx + count THEN OutBlock(m)[outLen - count + (c - idx)]
                 ELSE m.info[c]
        BY <1>1, <3>2, RewoundIsMem, SMTT(30)
      <4> QED BY <4>1, <4>2
    <3>4. OutBlock(m) = OutBlock(mem) /\ OutBlock(mem') = OutBlock(mem)
      BY <3>1, <3>2, <3>3 DEF OutBlock
    <3>5. \A x \in 1 .. count : mem'.info[idx + x - 1] = OutBlock(mem)[outLen - count + x - 1]
      <4> TAKE x \in 1 .. count
      <4>1. PICK c \in Cells : c = idx + x - 1
        BY <1>1, <1>2, <3>1
      <4>2. idx <= c /\ c < idx + count /\ outLen - count + (c - idx) = outLen - count + x - 1
        BY <1>1, <4>1
      <4>3. mem'.info[c] = OutBlock(m)[outLen - count + (c - idx)]
        BY <3>3, <4>2
      <4> QED BY <3>4, <4>1, <4>2, <4>3
    <3>6. \A x \in 1 .. len - idx : mem'.info[idx + count + x - 1] = mem.info[idx + x - 1]
      <4> TAKE x \in 1 .. len - idx
      <4>1. PICK c \in Cells : c = idx + count + x - 1
        BY <1>1, <1>2, <3>1
      <4>2. ~(c < idx + count) /\ idx + count <= c /\ c < len + count /\ c - count = idx + x - 1
        BY <1>1, <4>1
      <4>3. mem'.info[c] = m.info[c] /\ m.info[c] = mem.info[c - count]
        BY <3>2, <3>3, <4>2
      <4> QED BY <4>1, <4>2, <4>3
    <3>7. WentBack(count)
      <4>1. outLen' = outLen - count /\ len' - idx' = len - idx + count /\ idx' = idx
            /\ UNCHANGED <<haveOutput, level>>
        BY <1>1, <2>4
      <4>2. \A c \in 0 .. outLen - count - 1 : OutBlock(mem')[c] = OutBlock(mem)[c]
        BY <3>4
      <4> QED BY <3>5, <3>6, <4>1, <4>2 DEF WentBack
    <3>8. ASSUME successful, successful' PROVE Staged
      <4>1. successful' = successful
        BY <2>2, <2>4, EnsureSuccess DEF Granted
      <4> QED BY <1>1, <3>7, <3>8, <4>1, WentBackMoves
    <3> QED BY <2>2, <2>4, <3>8, RoomStaged
  <2> QED BY <2>1, <2>3, <2>4
<1>4. CASE ~(idx < count)
  <2>1. /\ mem' = Rewound(mem, idx - count, count)
        /\ idx' = idx - count /\ outLen' = i
        /\ UNCHANGED <<len, allocated, successful, haveOutput, havePositions, hasUnsafe, level>>
    BY <1>0, <1>4 DEF MoveBack
  <2>2. PICK at \in Nat : at = idx - count
    BY <1>1, <1>4
  <2>3. /\ mem'.sep = mem.sep /\ mem'.pos = mem.pos
        /\ \A c \in Cells : mem'.info[c] =
             IF at <= c /\ c < at + count THEN OutBlock(mem)[outLen - count + (c - at)] ELSE mem.info[c]
    <3>1. mem' = Rewound(mem, at, count)
      BY <2>1, <2>2
    <3>2. /\ Rewound(mem, at, count).sep = mem.sep /\ Rewound(mem, at, count).pos = mem.pos
          /\ \A c \in Cells : Rewound(mem, at, count).info[c] =
               IF at <= c /\ c < at + count THEN OutBlock(mem)[outLen - count + (c - at)] ELSE mem.info[c]
      BY <1>1, RewoundIsMem
    <3> QED BY <3>1, <3>2
  <2>4. \A c \in 0 .. outLen - count - 1 : OutBlock(mem')[c] = OutBlock(mem)[c]
    <3> TAKE c \in 0 .. outLen - count - 1
    <3>1. c \in Cells
      BY <1>1, <1>2
    <3>2. CASE mem.sep
      BY <2>3, <3>2 DEF OutBlock
    <3>3. CASE ~mem.sep
      <4>1. ~(at <= c)
        BY <1>1, <2>2, <3>3
      <4> QED BY <2>3, <3>1, <3>3, <4>1 DEF OutBlock
    <3> QED BY <3>2, <3>3
  <2>5. \A x \in 1 .. count : mem'.info[at + x - 1] = OutBlock(mem)[outLen - count + x - 1]
    <3> TAKE x \in 1 .. count
    <3>1. PICK c \in Cells : c = at + x - 1
      BY <1>1, <1>2, <1>4, <2>2
    <3>2. at <= c /\ c < at + count /\ outLen - count + (c - at) = outLen - count + x - 1
      BY <1>1, <2>2, <3>1
    <3>3. mem'.info[c] = OutBlock(mem)[outLen - count + (c - at)]
      BY <2>3, <3>2
    <3> QED BY <3>1, <3>2, <3>3
  <2>6. \A x \in 1 .. len - idx : mem'.info[at + count + x - 1] = mem.info[idx + x - 1]
    <3> TAKE x \in 1 .. len - idx
    <3>1. PICK c \in Cells : c = at + count + x - 1
      BY <1>1, <1>2, <2>2
    <3>2. ~(c < at + count) /\ c = idx + x - 1
      BY <1>1, <2>2, <3>1
    <3> QED BY <2>3, <3>1, <3>2
  <2>7. WentBack(count)
    <3>1. outLen' = outLen - count /\ len' - idx' = len - idx + count /\ idx' = at
          /\ UNCHANGED <<haveOutput, level>>
      BY <1>1, <2>1, <2>2
    <3> QED BY <2>4, <2>5, <2>6, <3>1 DEF WentBack
  <2>8. CASE ~successful
    BY <2>1, <2>8, BrokenStaged
  <2>9. CASE successful
    BY <1>1, <2>1, <2>7, <2>9, WentBackMoves
  <2> QED BY <2>8, <2>9
<1> QED BY <1>3, <1>4

\* What nobody sees is no step of the text.
LEMMA UnseenStaged ==
  ASSUME UNCHANGED <<mem, len, outLen, successful, haveOutput, level>>, haveOutput => UNCHANGED idx
  PROVE  Staged
<1>1. Done' = Done
  BY DEF Done, OutBlock
<1>2. Todo' = Todo
  BY DEF Todo
<1> QED BY <1>1, <1>2 DEF Staged, Cursor!cursorVars

LEMMA MoveToStaged ==
  ASSUME BufferInv, BufferInv', NEW i \in Nat, MoveTo(i)
  PROVE  Staged
<1>1. CASE ~haveOutput
  <2>1. UNCHANGED <<mem, len, outLen, successful, haveOutput, level>>
    BY <1>1 DEF MoveTo
  <2> QED BY <1>1, <2>1, UnseenStaged
<1>2. CASE haveOutput /\ outLen < i
  <2>1. outLen < i /\ ~(outLen > i)
    BY <1>2, InvFacts
  <2>2. MoveForward(i) /\ i <= outLen + (len - idx)
    BY <1>2, <2>1 DEF MoveTo
  <2> QED BY <1>2, <2>2, MoveForwardStaged
<1>3. CASE haveOutput /\ outLen > i
  <2>1. MoveBack(i)
    BY <1>3, InvFacts DEF MoveTo
  <2> QED BY <1>3, <2>1, MoveBackStaged
<1>4. CASE haveOutput /\ outLen = i
  <2>1. UNCHANGED vars
    BY <1>4, InvFacts DEF MoveTo
  <2> QED BY <2>1, UnseenStaged DEF vars
<1> QED BY <1>1, <1>2, <1>3, <1>4, InvFacts

-----------------------------------------------------------------------------
(* Leaving out the glyph at the cursor.                                     *)

\* The unread glyphs but the first are those of t but the first.
UnreadNext(t) == \A x \in 1 .. len - idx - 1 : mem'.info[idx + x] = t[x + 1]

OutputKept == \A c \in 0 .. outLen - 1 : OutBlock(mem')[c] = OutBlock(mem)[c]

\* A step that reads one glyph and writes none.
LEMMA ReadOne ==
  ASSUME BufferInv, BufferInv', haveOutput, UNCHANGED <<len, outLen, haveOutput>>, idx' = idx + 1, idx < len
  PROVE  /\ Len(Done') = outLen /\ Done' \in Seq(Glyph)
         /\ \A p \in 1 .. outLen : Done'[p] = OutBlock(mem')[p - 1]
         /\ Todo' \in Seq(Glyph) /\ Len(Todo') = len - idx - 1
         /\ \A x \in 1 .. len - idx - 1 : Todo'[x] = mem'.info[idx + x]
<1>1. idx \in Nat /\ len \in Nat /\ outLen \in Nat
  BY InvFacts
<1>2. Written' = outLen /\ From' = idx + 1 /\ len' = len
  BY DEF Written, From
<1>3. (OutBlock(mem))' = OutBlock(mem')
  BY DEF OutBlock
<1>4. /\ Len(Done') = outLen /\ Done' \in Seq(Glyph)
      /\ \A p \in 1 .. outLen : Done'[p] = OutBlock(mem')[p - 1]
      /\ Todo' \in Seq(Glyph) /\ Len(Todo') = len - (idx + 1)
      /\ \A x \in 1 .. len - (idx + 1) : Todo'[x] = mem'.info[idx + 1 + x - 1]
  BY <1>2, <1>3, ShownNext DEF Shown
<1>5. len - (idx + 1) = len - idx - 1
  BY <1>1
<1>6. \A x \in 1 .. len - idx - 1 : idx + 1 + x - 1 = idx + x
  BY <1>1
<1> QED BY <1>4, <1>5, <1>6

LEMMA TodoIsTail ==
  ASSUME BufferInv, BufferInv', haveOutput, UNCHANGED <<len, outLen, haveOutput>>, idx' = idx + 1, idx < len,
         NEW t \in Seq(Glyph), Len(t) = len - idx, UnreadNext(t)
  PROVE  Todo' = Tail(t)
<1>1. idx \in Nat /\ len \in Nat
  BY InvFacts
<1>2. t # <<>>
  BY <1>1
<1>3. Tail(t) \in Seq(Glyph) /\ Len(Tail(t)) = Len(t) - 1 /\ \A i \in 1 .. Len(Tail(t)) : Tail(t)[i] = t[i + 1]
  BY <1>2, HeadTailProperties
<1>4. /\ Todo' \in Seq(Glyph) /\ Len(Todo') = len - idx - 1
      /\ \A x \in 1 .. len - idx - 1 : Todo'[x] = mem'.info[idx + x]
  BY ReadOne
<1> DEFINE u == Todo'
           v == Tail(t)
<1>5. u \in Seq(Glyph) /\ v \in Seq(Glyph) /\ Len(u) = Len(v) /\ \A i \in 1 .. Len(u) : u[i] = v[i]
  BY <1>1, <1>3, <1>4 DEF UnreadNext
<1> HIDE DEF u, v
<1>6. u = v
  BY <1>5, SeqEqual
<1> QED BY <1>6 DEF u, v

LEMMA DoneIsKept ==
  ASSUME BufferInv, BufferInv', haveOutput, UNCHANGED <<len, outLen, haveOutput>>, idx' = idx + 1, idx < len,
         OutputKept
  PROVE  Done' = Done
<1>1. outLen \in Nat
  BY InvFacts
<1>2. /\ Len(Done') = outLen /\ Done' \in Seq(Glyph)
      /\ \A p \in 1 .. outLen : Done'[p] = OutBlock(mem')[p - 1]
  BY ReadOne
<1>3. /\ Len(Done) = outLen /\ Done \in Seq(Glyph)
      /\ \A p \in 1 .. outLen : Done[p] = OutBlock(mem)[p - 1]
  BY EditedText
<1>4. \A p \in 1 .. outLen : p - 1 \in 0 .. outLen - 1
  BY <1>1
<1> DEFINE u == Done'
<1>5. u \in Seq(Glyph) /\ Len(u) = Len(Done) /\ \A i \in 1 .. Len(u) : u[i] = Done[i]
  BY <1>2, <1>3, <1>4 DEF OutputKept
<1> HIDE DEF u
<1>6. u = Done
  BY <1>3, <1>5, SeqEqual
<1> QED BY <1>6 DEF u

\* The glyph at the cursor is the first of the unread ones.
LEMMA UnreadGlyphs ==
  ASSUME BufferInv, haveOutput, idx < len
  PROVE  /\ Todo \in Seq(Glyph) /\ Len(Todo) = len - idx /\ Todo # <<>>
         /\ Todo[1] = mem.info[idx]
         /\ Len(Todo) > 1 <=> idx + 1 < len
         /\ idx + 1 < len => Todo[2] = mem.info[idx + 1]
         /\ \A x \in 1 .. len - idx - 1 : mem.info[idx + x] = Todo[x + 1]
         /\ Done \in Seq(Glyph) /\ Len(Done) = outLen
         /\ \A p \in 1 .. outLen : Done[p] = OutBlock(mem)[p - 1]
         /\ outLen > 0 => Done[outLen] = OutBlock(mem)[outLen - 1] /\ Done # <<>>
<1>1. idx \in Nat /\ len \in Nat /\ outLen \in Nat
  BY InvFacts
<1>2. /\ Todo \in Seq(Glyph) /\ Len(Todo) = len - idx
      /\ \A p \in 1 .. len - idx : Todo[p] = mem.info[idx + p - 1]
      /\ Done \in Seq(Glyph) /\ Len(Done) = outLen
      /\ \A p \in 1 .. outLen : Done[p] = OutBlock(mem)[p - 1]
  BY EditedText
<1>3. Todo # <<>>
  BY <1>1, <1>2
<1>4. Todo[1] = mem.info[idx]
  <2>1. 1 \in 1 .. len - idx /\ idx + 1 - 1 = idx
    BY <1>1
  <2> QED BY <1>2, <2>1
<1>5. Len(Todo) > 1 <=> idx + 1 < len
  BY <1>1, <1>2
<1>6. idx + 1 < len => Todo[2] = mem.info[idx + 1]
  <2>1. idx + 1 < len => 2 \in 1 .. len - idx /\ idx + 2 - 1 = idx + 1
    BY <1>1
  <2> QED BY <1>2, <2>1
<1>7. \A x \in 1 .. len - idx - 1 : mem.info[idx + x] = Todo[x + 1]
  <2> TAKE x \in 1 .. len - idx - 1
  <2>1. PICK y \in 1 .. len - idx : y = x + 1 /\ idx + y - 1 = idx + x
    <3>1. x + 1 \in 1 .. len - idx /\ idx + (x + 1) - 1 = idx + x
      BY <1>1
    <3> QED BY <3>1
  <2>2. Todo[y] = mem.info[idx + y - 1]
    BY <1>2
  <2> QED BY <2>1, <2>2
<1>8. outLen > 0 => Done[outLen] = OutBlock(mem)[outLen - 1] /\ Done # <<>>
  <2>1. outLen > 0 => outLen \in 1 .. outLen
    BY <1>1
  <2> QED BY <1>2, <2>1
<1> QED BY <1>2, <1>3, <1>4, <1>5, <1>6, <1>7, <1>8

LEMMA SkipGlyphStaged ==
  ASSUME BufferInv, BufferInv', SkipGlyph
  PROVE  Staged
<1>1. /\ haveOutput /\ idx < len /\ idx' = idx + 1
      /\ successful =>
           /\ outLen > 0
           /\ level # "characters" => OutBlock(mem)[outLen - 1].cluster = mem.info[idx].cluster
      /\ UNCHANGED <<mem, len, outLen, successful, haveOutput, level>>
  BY DEF SkipGlyph
<1>2. CASE ~successful
  BY <1>1, <1>2, BrokenStaged
<1>3. CASE successful
  <2>1. UnreadNext(Todo) /\ OutputKept
    BY <1>1, UnreadGlyphs DEF UnreadNext, OutputKept
  <2>2. Todo' = Tail(Todo)
    BY <1>1, <2>1, UnreadGlyphs, TodoIsTail
  <2>3. Done' = Done
    BY <1>1, <2>1, DoneIsKept
  <2>4. /\ Todo # <<>> /\ Done # <<>>
        /\ level # "characters" => Done[Len(Done)].cluster = Todo[1].cluster
    <3>1. /\ outLen > 0
          /\ level # "characters" => OutBlock(mem)[outLen - 1].cluster = mem.info[idx].cluster
      BY <1>1, <1>3
    <3>2. /\ Todo # <<>> /\ Todo[1] = mem.info[idx] /\ Len(Done) = outLen
          /\ outLen > 0 => Done[outLen] = OutBlock(mem)[outLen - 1] /\ Done # <<>>
      BY <1>1, UnreadGlyphs
    <3> QED BY <3>1, <3>2
  <2>5. Cursor!Drop
    BY <1>1, <1>3, <2>2, <2>3, <2>4 DEF Cursor!Drop, Cursor!Editing
  <2> QED BY <1>1, <2>5 DEF Staged, Cursor!EditStep
<1> QED BY <1>2, <1>3

\* The run of one cluster that ends a text.
LEMMA RunBehind ==
  ASSUME NEW t \in Seq(Glyph), NEW d \in 1 .. Len(t), NEW s \in 0 .. d - 1,
         \A r \in s + 1 .. d : t[r].cluster = t[d].cluster,
         s > 0 => t[s].cluster # t[d].cluster,
         NEW r \in 1 .. d
  PROVE  Cursor!SameRun(t, r, d) <=> s < r
<1>1. d \in Nat /\ s \in Nat
  BY LenProperties
<1>2. ASSUME s < r PROVE Cursor!SameRun(t, r, d)
  <2>1. r \in s + 1 .. d /\ \A x \in (r .. d) \cup (d .. r) : x \in s + 1 .. d
    BY <1>1, <1>2
  <2> QED BY <2>1 DEF Cursor!SameRun
<1>3. ASSUME Cursor!SameRun(t, r, d) PROVE s < r
  <2>1. SUFFICES ASSUME ~(s < r) PROVE FALSE
    OBVIOUS
  <2>2. s > 0 /\ s \in r .. d /\ d \in r .. d
    BY <1>1, <2>1
  <2>3. t[s].cluster = t[r].cluster /\ t[d].cluster = t[r].cluster
    BY <1>3, <2>2 DEF Cursor!SameRun
  <2> QED BY <2>2, <2>3
<1> QED BY <1>2, <1>3

\* The output when its last cluster takes over that of the deleted glyph.
LEMMA LoweredText ==
  ASSUME BufferInv, BufferInv', haveOutput, UNCHANGED <<len, outLen, haveOutput>>, idx' = idx + 1, idx < len,
         outLen > 0, mem.info[idx].cluster # OutBlock(mem)[outLen - 1].cluster,
         mem' = WithOut(mem, SetClusters(OutBlock(mem),
                   RunStart(OutBlock(mem), OutBlock(mem)[outLen - 1].cluster, outLen, 0), outLen,
                   mem.info[idx].cluster, mem.info[idx].unsafe))
  PROVE  LET d == Len(Done)
             g == Todo[1]
             run == {r \in 1 .. d : Cursor!SameRun(Done, r, d)}
         IN  /\ Done' = [r \in DOMAIN Done |->
                           IF r \in run THEN [Done[r] EXCEPT !.cluster = g.cluster, !.unsafe = g.unsafe]
                           ELSE Done[r]]
             /\ UnreadNext(Todo)
<1> DEFINE a == OutBlock(mem)
           g == mem.info[idx]
           old == a[outLen - 1].cluster
           s == RunStart(a, old, outLen, 0)
           b == SetClusters(a, s, outLen, g.cluster, g.unsafe)
           run == {r \in 1 .. outLen : Cursor!SameRun(Done, r, outLen)}
<1>1. /\ idx \in Nat /\ len \in Nat /\ outLen \in Nat /\ outLen <= Capacity /\ Capacity \in Nat /\ len <= Capacity
      /\ a \in Block /\ mem \in Mem /\ (~mem.sep => outLen <= idx)
  BY InvFacts, OutBlockIsBlock DEF BufferInv, InPlaceOutputBehindCursor
<1>2. /\ s \in 0 .. outLen /\ (\A i \in s .. outLen - 1 : a[i].cluster = old)
      /\ (s > 0 => a[s - 1].cluster # old)
  <2>1. outLen \in Nat /\ 0 \in Nat /\ 0 <= outLen
    BY <1>1
  <2> HIDE DEF a, old
  <2>2. StartsRun(a, old, outLen, 0, s)
    BY <2>1, RunStartIs
  <2> HIDE DEF s
  <2> QED BY <2>2 DEF StartsRun
<1> HIDE DEF s
<1>3. s < outLen
  <2>1. ASSUME s = outLen PROVE FALSE
    BY <1>1, <1>2, <2>1
  <2> QED BY <1>1, <1>2, <2>1
<1>4. /\ Done \in Seq(Glyph) /\ Len(Done) = outLen /\ DOMAIN Done = 1 .. outLen
      /\ \A p \in 1 .. outLen : Done[p] = a[p - 1]
      /\ Todo[1] = g
  BY <1>1, UnreadGlyphs
<1>5. \A r \in 1 .. outLen : r \in run <=> s < r
  <2>1. outLen \in 1 .. Len(Done) /\ s \in 0 .. outLen - 1
    BY <1>1, <1>2, <1>3, <1>4
  <2>2. Done[outLen].cluster = old
    BY <1>4, <2>1
  <2>3. \A r \in s + 1 .. outLen : Done[r].cluster = Done[outLen].cluster
    <3> TAKE r \in s + 1 .. outLen
    <3>1. r - 1 \in s .. outLen - 1 /\ r \in 1 .. outLen
      BY <1>1, <1>2
    <3> HIDE DEF a, old
    <3> QED BY <1>2, <1>4, <2>2, <3>1
  <2>4. s > 0 => Done[s].cluster # Done[outLen].cluster
    <3>1. s > 0 => s \in 1 .. outLen
      BY <1>1, <1>2
    <3> HIDE DEF a, old
    <3> QED BY <1>2, <1>4, <2>2, <3>1
  <2>5. \A r \in 1 .. outLen : Cursor!SameRun(Done, r, outLen) <=> s < r
    BY <1>4, <2>1, <2>3, <2>4, RunBehind
  <2> QED BY <2>5
<1>6. /\ \A c \in Cells : b[c] = IF s <= c /\ c < outLen THEN WithCluster(a[c], g.cluster, g.unsafe) ELSE a[c]
  <2> HIDE DEF a, g
  <2> QED BY <1>1 DEF SetClusters, Block
<1>7. mem' = WithOut(mem, b)
  BY DEF s
<1> HIDE DEF b
<1>8. OutBlock(mem') = b /\ (\A c \in Cells : outLen <= c \/ mem.sep => mem'.info[c] = mem.info[c])
  <2>1. CASE mem.sep
    <3>1. mem' = [mem EXCEPT !.pos = b]
      BY <1>7, <2>1 DEF WithOut
    <3> QED BY <1>1, <2>1, <3>1 DEF OutBlock, Mem
  <2>2. CASE ~mem.sep
    <3>1. mem' = [mem EXCEPT !.info = b]
      BY <1>7, <2>2 DEF WithOut
    <3>2. OutBlock(mem') = b /\ mem'.info = b /\ a = mem.info
      BY <1>1, <2>2, <3>1 DEF OutBlock, Mem
    <3>3. \A c \in Cells : outLen <= c => ~(c < outLen)
      BY <1>1 DEF Cells
    <3>4. \A c \in Cells : outLen <= c => b[c] = a[c]
      <4> HIDE DEF a, g
      <4> QED BY <1>6, <3>3
    <3> QED BY <2>2, <3>2, <3>4
  <2> QED BY <2>1, <2>2
<1>9. UnreadNext(Todo)
  <2> SUFFICES ASSUME NEW x \in 1 .. len - idx - 1 PROVE mem'.info[idx + x] = Todo[x + 1]
    BY DEF UnreadNext
  <2>1. PICK c \in Cells : c = idx + x
    BY <1>1 DEF Cells
  <2>2. outLen <= c \/ mem.sep
    BY <1>1, <2>1
  <2>3. mem.info[idx + x] = Todo[x + 1]
    BY UnreadGlyphs
  <2> QED BY <1>8, <2>1, <2>2, <2>3
<1>10. /\ Done' \in Seq(Glyph) /\ Len(Done') = outLen
       /\ \A p \in 1 .. outLen : Done'[p] = b[p - 1]
  BY <1>8, ReadOne
<1>11. ASSUME NEW p \in 1 .. outLen
       PROVE  Done'[p] = IF p \in run THEN [Done[p] EXCEPT !.cluster = g.cluster, !.unsafe = g.unsafe] ELSE Done[p]
  <2>1. PICK c \in Cells : c = p - 1
    BY <1>1 DEF Cells
  <2>2. Done'[p] = b[c] /\ Done[p] = a[c]
    BY <1>4, <1>10, <2>1
  <2>3. c < outLen /\ (s <= c <=> s < p)
    BY <1>1, <1>2, <2>1
  <2>4. CASE s <= c
    <3>1. a[c].cluster = old
      <4>1. c \in s .. outLen - 1
        BY <1>1, <1>2, <2>1, <2>3, <2>4
      <4> HIDE DEF a, old
      <4> QED BY <1>2, <4>1
    <3>2. b[c] = WithCluster(a[c], g.cluster, g.unsafe)
      <4> HIDE DEF a, g
      <4> QED BY <1>6, <2>3, <2>4
    <3>3. WithCluster(a[c], g.cluster, g.unsafe) = [a[c] EXCEPT !.cluster = g.cluster, !.unsafe = g.unsafe]
      <4>1. a[c].cluster # g.cluster
        BY <3>1
      <4> HIDE DEF a, g
      <4>2. [a[c] EXCEPT !.cluster = g.cluster].unsafe = a[c].unsafe
        BY <1>1 DEF Block, Glyph
      <4> QED BY <4>1, <4>2 DEF WithCluster
    <3>4. p \in run
      BY <1>5, <2>3, <2>4
    <3> HIDE DEF a, g, run
    <3> QED BY <2>2, <3>2, <3>3, <3>4
  <2>5. CASE ~(s <= c)
    <3>1. b[c] = a[c]
      <4> HIDE DEF a, g
      <4> QED BY <1>6, <2>5
    <3>2. p \notin run
      BY <1>5, <2>3, <2>5
    <3> HIDE DEF a, g, run
    <3> QED BY <2>2, <3>1, <3>2
  <2> QED BY <2>4, <2>5
<1> DEFINE u == Done'
           w == [r \in DOMAIN Done |->
                  IF r \in run THEN [Done[r] EXCEPT !.cluster = g.cluster, !.unsafe = g.unsafe] ELSE Done[r]]
<1>12. u = w
  <2>1. u = [r \in 1 .. outLen |-> u[r]]
    BY <1>10
  <2>2. \A r \in 1 .. outLen : u[r] = w[r]
    BY <1>4, <1>11
  <2>3. w = [r \in 1 .. outLen |-> w[r]]
    <3> HIDE DEF run
    <3> QED BY <1>4
  <2> HIDE DEF u, w
  <2> QED BY <2>1, <2>2, <2>3
<1> QED BY <1>4, <1>9, <1>12

\* delete_glyph takes the glyph away and keeps its cluster.
LEMMA DeleteGlyphStaged ==
  ASSUME BufferInv, BufferInv', DeleteGlyph
  PROVE  Staged
<1>1. /\ haveOutput /\ idx < len /\ idx' = idx + 1 /\ mem' = DeletedMem
      /\ UNCHANGED <<len, outLen, successful, haveOutput, level>>
      /\ idx \in Nat /\ len \in Nat /\ outLen \in Nat /\ mem \in Mem
  BY InvFacts DEF DeleteGlyph
<1>2. CASE ~successful
  BY <1>1, <1>2, BrokenStaged
<1>3. CASE successful
  <2> DEFINE d == Len(Done)
             g == Todo[1]
             survives == Len(Todo) > 1 /\ Todo[2].cluster = g.cluster
             run == {r \in 1 .. d : Cursor!SameRun(Done, r, d)}
             lowered == [r \in DOMAIN Done |->
                           IF r \in run THEN [Done[r] EXCEPT !.cluster = g.cluster, !.unsafe = g.unsafe]
                           ELSE Done[r]]
  <2>1. /\ d = outLen /\ g = mem.info[idx] /\ (survives <=> SurvivesAhead) /\ (Len(Todo) > 1 <=> idx + 1 < len)
        /\ (outLen > 0 => Done[d] = OutBlock(mem)[outLen - 1])
        /\ Todo \in Seq(Glyph) /\ Len(Todo) = len - idx /\ Todo # <<>>
    BY <1>1, UnreadGlyphs DEF SurvivesAhead
  <2> DEFINE lower == ~survives /\ d > 0 /\ g.cluster < Done[d].cluster
             joins == ~survives /\ d = 0 /\ Len(Todo) > 1
  <2>2. SUFFICES /\ Done' = IF lower THEN lowered ELSE Done
                 /\ Todo' = IF joins THEN Tail(Cursor!Merged(Todo, 1, 2)) ELSE Tail(Todo)
    <3>1. Cursor!Editing /\ Todo # <<>>
      BY <1>1, <1>3, <2>1 DEF Cursor!Editing
    <3>2. Cursor!Delete
      BY <2>2, <3>1 DEF Cursor!Delete
    <3> QED BY <1>1, <3>2 DEF Staged, Cursor!EditStep
  <2>3. CASE lower
    <3> DEFINE old == OutBlock(mem)[outLen - 1].cluster
    <3>1. outLen > 0 /\ mem.info[idx].cluster < old /\ ~SurvivesAhead
      BY <2>1, <2>3
    <3>2. mem' = WithOut(mem, SetClusters(OutBlock(mem), RunStart(OutBlock(mem), old, outLen, 0), outLen,
                                          mem.info[idx].cluster, mem.info[idx].unsafe))
      BY <1>1, <3>1 DEF DeletedMem
    <3>3. mem.info[idx].cluster # old
      <4>1. mem.info[idx].cluster \in Int
        <5>1. mem.info[idx] \in Glyph
          BY <1>1, CurIsGlyph
        <5>2. mem.info[idx].cluster \in ClusterValues \cup {0}
          BY <5>1 DEF Glyph
        <5>3. \A k \in ClusterValues \cup {0} : k \in Int
          BY BufferAssumption
        <5> QED BY <5>2, <5>3, Zenon
      <4> QED BY <3>1, <4>1
    <3>4. Done' = lowered /\ UnreadNext(Todo)
      BY <1>1, <3>1, <3>2, <3>3, LoweredText
    <3>5. Todo' = Tail(Todo)
      BY <1>1, <2>1, <3>4, TodoIsTail
    <3>6. ~joins
      BY <2>1, <3>1
    <3> HIDE DEF lowered, lower, joins
    <3> QED BY <2>3, <3>4, <3>5, <3>6
  <2>4. CASE joins
    <3>1. ~SurvivesAhead /\ outLen = 0 /\ idx + 1 < len
      BY <2>1, <2>4
    <3>2. mem' = MergedMem(mem, idx, idx + 2)
      BY <1>1, <3>1 DEF DeletedMem
    <3>3. View(MergedMem(mem, idx, idx + 2)) = Cursor!Merged(View(mem), 1, 2)
      <4>1. 2 \in Nat /\ 2 >= 1 /\ idx + 2 <= len /\ outLen <= idx /\ outLen + 1 = 1 /\ outLen + 2 = 2
        BY <1>1, <3>1
      <4>2. View(MergedMem(mem, idx, idx + 2)) = Cursor!Merged(View(mem), outLen + 1, outLen + 2)
        BY <1>1, <4>1, LigatureView
      <4> QED BY <4>1, <4>2
    <3>4. View(mem) = Todo
      <4>1. Parts(View(mem), Done, Todo)
        BY TextIsView
      <4>2. Done \in Seq(Glyph) /\ Len(Done) = 0
        BY <2>1, <3>1, UnreadGlyphs, <1>1
      <4>3. \A p \in 1 .. Len(Todo) : Len(Done) + p = p
        BY <4>2
      <4> QED BY <4>1, <4>2, <4>3, SeqEqual DEF Parts
    <3>5. mem' \in Mem
      BY DEF BufferInv, TypeOK
    <3> DEFINE t == View(mem')
    <3>6. /\ t \in Seq(Glyph) /\ Len(t) = len - idx
          /\ \A p \in 1 .. len - idx : t[p] = mem'.info[idx + p - 1]
      <4>1. Written = 0 /\ From = idx
        BY <1>1, <3>1 DEF Written, From
      <4>2. /\ t \in Seq(Glyph) /\ Len(t) = 0 + (len - idx)
            /\ \A p \in 1 .. len - idx : t[0 + p] = mem'.info[idx + p - 1]
        BY <3>5, <4>1, ViewIsText
      <4>3. \A p \in 1 .. len - idx : 0 + p = p
        BY <1>1
      <4> HIDE DEF t
      <4> QED BY <1>1, <4>2, <4>3
    <3> HIDE DEF t
    <3>7. UnreadNext(t)
      <4> SUFFICES ASSUME NEW x \in 1 .. len - idx - 1 PROVE mem'.info[idx + x] = t[x + 1]
        BY DEF UnreadNext
      <4>1. PICK p \in 1 .. len - idx : p = x + 1 /\ idx + p - 1 = idx + x
        <5>1. x + 1 \in 1 .. len - idx /\ idx + (x + 1) - 1 = idx + x
          BY <1>1
        <5> QED BY <5>1
      <4> QED BY <3>6, <4>1
    <3>8. Todo' = Tail(t)
      BY <1>1, <3>6, <3>7, TodoIsTail
    <3>9. t = Cursor!Merged(Todo, 1, 2)
      BY <3>2, <3>3, <3>4 DEF t
    <3>10. Done' = Done
      <4>1. OutputKept
        BY <3>1 DEF OutputKept
      <4> QED BY <1>1, <4>1, DoneIsKept
    <3>11. ~lower
      BY <2>1, <3>1
    <3> HIDE DEF lowered, lower, joins
    <3> QED BY <2>4, <3>8, <3>9, <3>10, <3>11
  <2>5. CASE ~lower /\ ~joins
    <3>1. mem' = mem
      <4>1. /\ ~(~SurvivesAhead /\ outLen > 0 /\ mem.info[idx].cluster < OutBlock(mem)[outLen - 1].cluster)
            /\ ~(~SurvivesAhead /\ outLen = 0 /\ idx + 1 < len)
        BY <2>1, <2>5
      <4> QED BY <1>1, <4>1 DEF DeletedMem
    <3>2. UnreadNext(Todo) /\ OutputKept
      BY <1>1, <3>1, UnreadGlyphs DEF UnreadNext, OutputKept
    <3>3. Todo' = Tail(Todo) /\ Done' = Done
      BY <1>1, <2>1, <3>2, TodoIsTail, DoneIsKept
    <3> HIDE DEF lowered, lower, joins
    <3> QED BY <2>5, <3>3
  <2> QED BY <2>3, <2>4, <2>5
<1> QED BY <1>2, <1>3

-----------------------------------------------------------------------------
(* Entering and leaving an edit.                                            *)

\* A segment as a sequence, cell by cell.
LEMMA WholeSegment ==
  ASSUME NEW a \in Block, NEW n \in Nat, n <= Capacity, NEW t \in Seq(Glyph), Len(t) = n,
         \A c \in 0 .. n - 1 : t[1 + c] = a[c]
  PROVE  t = Segment(a, 0, n)
<1> DEFINE u == Segment(a, 0, n)
<1>1. /\ u \in Seq(Glyph) /\ Len(u) = n - 0
      /\ \A k \in 1 .. n - 0 : /\ 0 + k - 1 \in 0 .. n - 1
                               /\ u[k] = a[0 + k - 1]
  <2>1. 0 \in Nat /\ 0 <= n
    OBVIOUS
  <2> QED BY <2>1, SegmentIsSeq
<1> HIDE DEF u
<1>2. \A k \in 1 .. n : k - 1 \in 0 .. n - 1 /\ 1 + (k - 1) = k /\ 0 + k - 1 = k - 1 /\ k \in 1 .. n - 0
  OBVIOUS
<1>3. Len(u) = Len(t) /\ \A k \in 1 .. Len(t) : t[k] = u[k]
  <2>1. n - 0 = n
    OBVIOUS
  <2>2. ASSUME NEW k \in 1 .. n PROVE t[k] = u[k]
    <3>1. t[1 + (k - 1)] = a[k - 1]
      BY <1>2
    <3>2. u[k] = a[0 + k - 1]
      BY <1>1, <1>2
    <3> QED BY <1>2, <3>1, <3>2
  <2> QED BY <1>1, <2>1, <2>2
<1>4. t = u
  BY <1>1, <1>3, SeqEqual
<1> QED BY <1>4 DEF u

\* The text where stages start and stop output is what the info block holds.
LEMMA SettledText ==
  ASSUME BufferInv, Settled, successful
  PROVE  Cursor!Text = Segment(mem.info, 0, len) /\ (haveOutput => Todo = <<>>)
<1>1. mem \in Mem /\ mem.info \in Block /\ len \in Nat /\ len <= Capacity /\ idx \in Nat /\ outLen \in Nat
  BY InvFacts
<1>2. ~haveOutput \/ (~mem.sep /\ outLen = idx /\ idx = len)
  BY DEF Settled
<1>3. Faces(View(mem), mem, 1, 0)
  BY <1>1, <1>2, FacesSettled, FacesOutside
<1>4. View(mem) = Segment(mem.info, 0, len)
  <2> DEFINE t == View(mem)
  <2>1. t \in Seq(Glyph) /\ Len(t) = len /\ \A c \in 0 .. len - 1 : t[1 + c] = mem.info[c]
    <3>1. 1 + len - 1 = len
      BY <1>1
    <3> QED BY <1>3, <3>1 DEF Faces
  <2> HIDE DEF t
  <2>2. t = Segment(mem.info, 0, len)
    BY <1>1, <2>1, WholeSegment
  <2> QED BY <2>2 DEF t
<1>5. haveOutput => Todo = <<>>
  <2> SUFFICES ASSUME haveOutput PROVE Todo = <<>>
    OBVIOUS
  <2>1. Todo \in Seq(Glyph) /\ Len(Todo) = len - idx
    BY EditedText
  <2>2. Len(Todo) = 0
    BY <1>1, <1>2, <2>1
  <2> QED BY <2>1, <2>2
<1> QED BY <1>4, <1>5, CursorText

\* After such a step the whole text is unread.
LEMMA WholeUnread ==
  ASSUME BufferInv, BufferInv', outLen' = 0 \/ ~haveOutput', haveOutput' => idx' = 0
  PROVE  Done' = <<>> /\ Todo' = Segment(mem'.info, 0, len')
<1>1. Todo' = Segment(mem'.info, 0, len')
  BY DEF Todo
<1>2. Written' = 0
  BY DEF Written
<1>3. Done' \in Seq(Glyph) /\ Len(Done') = 0
  BY <1>2, ShownNext DEF Shown
<1> QED BY <1>1, <1>3

LEMMA EnterLeaveStaged ==
  ASSUME BufferInv, BufferInv', BeginOutput \/ RemoveOutput \/ ClearPositions \/ GetScratchBuffer
  PROVE  Staged
<1>1. /\ Settled /\ mem'.info = mem.info /\ outLen' = 0
      /\ UNCHANGED <<len, successful, level>>
      /\ (BeginOutput /\ haveOutput' = TRUE /\ idx' = 0) \/ haveOutput' = FALSE
  <2>1. mem \in Mem
    BY InvFacts
  <2>2. CASE BeginOutput
    BY <2>1, <2>2 DEF BeginOutput, Mem
  <2>3. CASE RemoveOutput
    BY <2>1, <2>3 DEF RemoveOutput, Mem
  <2>4. CASE ClearPositions
    BY <2>1, <2>4 DEF ClearPositions, Mem
  <2>5. CASE GetScratchBuffer
    BY <2>1, <2>5 DEF GetScratchBuffer, Mem
  <2> QED BY <2>2, <2>3, <2>4, <2>5
<1>2. CASE ~successful
  BY <1>1, <1>2, BrokenStaged
<1>3. CASE successful
  <2>1. Done' = <<>> /\ Todo' = Segment(mem'.info, 0, len')
    BY <1>1, WholeUnread
  <2>2. Cursor!Text = Segment(mem.info, 0, len) /\ (haveOutput => Todo = <<>>)
    BY <1>1, <1>3, SettledText
  <2>3. Done' = <<>> /\ Todo' = Cursor!Text
    BY <1>1, <2>1, <2>2
  <2>4. CASE haveOutput' = TRUE
    <3>1. Cursor!Begin
      BY <1>1, <1>3, <2>2, <2>3, <2>4 DEF Cursor!Begin
    <3> QED BY <1>1, <3>1 DEF Staged, Cursor!EditStep
  <2>5. CASE haveOutput' = FALSE
    <3>1. Cursor!End
      BY <1>1, <1>3, <2>2, <2>3, <2>5 DEF Cursor!End
    <3> QED BY <1>1, <3>1 DEF Staged, Cursor!EditStep
  <2> QED BY <1>1, <2>4, <2>5
<1> QED BY <1>2, <1>3

\* swap_buffers makes the output the text.
LEMMA SwapBuffersStaged ==
  ASSUME BufferInv, BufferInv', SwapBuffers
  PROVE  Staged
<1>1. CASE ~successful
  <2>1. UNCHANGED vars
    BY <1>1 DEF SwapBuffers
  <2> QED BY <2>1, UnseenStaged DEF vars
<1>2. CASE successful
  <2>1. /\ haveOutput /\ idx = len /\ haveOutput' = FALSE /\ len' = outLen /\ outLen' = len /\ idx' = 0
        /\ mem' = IF mem.sep THEN [mem EXCEPT !.info = mem.pos, !.pos = mem.info] ELSE mem
        /\ UNCHANGED <<successful, level>>
    BY <1>2 DEF SwapBuffers
  <2>2. mem'.info = OutBlock(mem)
    <3>1. mem \in Mem
      BY InvFacts
    <3> QED BY <2>1, <3>1 DEF OutBlock, Mem
  <2>3. Done' = <<>> /\ Todo' = Segment(mem'.info, 0, len')
    BY <2>1, WholeUnread
  <2>4. Todo = <<>>
    <3>1. Todo \in Seq(Glyph) /\ Len(Todo) = len - idx /\ len \in Nat
      BY <2>1, EditedText
    <3>2. Len(Todo) = 0
      BY <2>1, <3>1
    <3> QED BY <3>1, <3>2
  <2>5. Cursor!Text = Segment(OutBlock(mem), 0, outLen)
    <3>1. Done = Segment(OutBlock(mem), 0, outLen) /\ Done \in Seq(Glyph)
      BY <2>1, EditedText DEF Done
    <3>2. Done \o <<>> = Done
      BY <3>1, ConcatEmptySeq
    <3> QED BY <2>4, <3>1, <3>2 DEF Cursor!Text
  <2>6. Cursor!End
    BY <1>2, <2>1, <2>2, <2>3, <2>4, <2>5 DEF Cursor!End
  <2> QED BY <2>1, <2>6 DEF Staged, Cursor!EditStep
<1> QED BY <1>1, <1>2

\* Every method a stage calls is a step of the text, a failure, or unseen.
LEMMA StageStaged ==
  ASSUME BufferInv, BufferInv', Stage
  PROVE  Staged
<1>1. /\ len \in Nat /\ outLen \in Nat
      /\ \A n \in 0 .. len : n \in Nat
      /\ \A n \in 0 .. outLen : n \in Nat
      /\ \A n \in 1 .. len : n \in Nat
      /\ \A n \in 0 .. outLen + len : n \in Nat
  BY InvFacts
<1>2. CASE BeginOutput \/ RemoveOutput \/ ClearPositions \/ GetScratchBuffer
  BY <1>2, EnterLeaveStaged
<1>3. CASE SwapBuffers
  BY <1>3, SwapBuffersStaged
<1>4. CASE \E g \in GlyphIds : ReplaceGlyph(g) \/ OutputGlyph(g)
  BY <1>4, ReplaceGlyphStaged, OutputGlyphStaged
<1>5. CASE \E n \in 1 .. len, cps \in Replacements : ReplaceGlyphs(n, cps)
  BY <1>1, <1>5, ReplaceGlyphsStaged
<1>6. CASE CopyGlyph \/ SkipGlyph \/ DeleteGlyph
  BY <1>6, CopyGlyphStaged, SkipGlyphStaged, DeleteGlyphStaged
<1>7. CASE \E n \in 1 .. len : NextGlyphs(n)
  BY <1>1, <1>7, NextGlyphsStaged
<1>8. CASE \E i \in 0 .. outLen + len : MoveTo(i)
  BY <1>1, <1>8, MoveToStaged
<1>9. CASE \E s, e \in 0 .. len : MergeClusters(s, e) \/ UnsafeToBreak(s, e)
  BY <1>1, <1>9, MergeClustersStaged, UnsafeToBreakStaged
<1>10. CASE \E s, e \in 0 .. outLen : MergeOutClusters(s, e)
  BY <1>1, <1>10, MergeOutClustersStaged
<1>11. CASE \E s \in 0 .. outLen, e \in 0 .. len : UnsafeFromOutbuffer(s, e)
  BY <1>1, <1>11, UnsafeFromOutbufferStaged
<1> QED BY <1>2, <1>3, <1>4, <1>5, <1>6, <1>7, <1>8, <1>9, <1>10, <1>11 DEF Stage

-----------------------------------------------------------------------------
(* What clients do to the text.                                             *)

Stepped == Cursor!Next \/ UNCHANGED Cursor!cursorVars

\* What a stage may do, the text may do.
LEMMA StagedSteps == Staged => Stepped
BY DEF Staged, Stepped, Cursor!Next

\* A method of a client that got its room.
LEMMA ClientRoom ==
  ASSUME BufferInv, NEW size \in Nat, NEW r \in Ensure(size), r.ok, Granted(r), UNCHANGED level,
         successful /\ UNCHANGED successful => Stepped
  PROVE  Stepped
<1>1. successful' = successful
  BY EnsureSuccess DEF Granted
<1>2. CASE successful
  BY <1>1, <1>2
<1>3. CASE ~successful
  <2>1. Staged
    BY <1>1, <1>3, BrokenStaged
  <2> QED BY <2>1, StagedSteps
<1> QED BY <1>2, <1>3

\* The new text, cell by cell.
NewText(t) == \A p \in 1 .. len' : mem'.info[p - 1] = t[p]

\* Outside an edit the text is what the info block holds.
LEMMA OutsideText ==
  ASSUME BufferInv, ~haveOutput
  PROVE  /\ Done = <<>> /\ Todo \in Seq(Glyph) /\ Len(Todo) = len /\ DOMAIN Todo = 1 .. len
         /\ \A p \in 1 .. len : Todo[p] = mem.info[p - 1]
<1>1. Written = 0 /\ From = 0 /\ len \in Nat
  BY InvFacts DEF Written, From
<1>2. /\ Done = <<>> /\ Todo \in Seq(Glyph) /\ Len(Todo) = len - 0
      /\ \A p \in 1 .. len - 0 : Todo[p] = mem.info[0 + p - 1]
  BY <1>1, ShownIs DEF Shown, Done
<1>3. len - 0 = len /\ \A p \in 1 .. len : 0 + p - 1 = p - 1
  BY <1>1
<1> QED BY <1>2, <1>3

LEMMA OutsideNext ==
  ASSUME BufferInv', ~haveOutput'
  PROVE  /\ Done' = <<>> /\ Todo' \in Seq(Glyph) /\ Len(Todo') = len' /\ DOMAIN Todo' = 1 .. len'
         /\ \A p \in 1 .. len' : Todo'[p] = mem'.info[p - 1]
<1>1. Written' = 0 /\ From' = 0 /\ len' \in Nat
  BY DEF Written, From, BufferInv, TypeOK
<1>2. /\ Done' = <<>> /\ Todo' \in Seq(Glyph) /\ Len(Todo') = len' - 0
      /\ \A p \in 1 .. len' - 0 : Todo'[p] = mem'.info[0 + p - 1]
  BY <1>1, ShownNext DEF Shown, Done
<1>3. len' - 0 = len' /\ \A p \in 1 .. len' : 0 + p - 1 = p - 1
  <2>1. PICK n \in Nat : n = len'
    BY <1>1
  <2>2. n - 0 = n /\ \A p \in 1 .. n : 0 + p - 1 = p - 1
    OBVIOUS
  <2> QED BY <2>1, <2>2
<1> QED BY <1>2, <1>3

\* A step of a client whose new text is t.
LEMMA BecomesIs ==
  ASSUME BufferInv, BufferInv', ~haveOutput, UNCHANGED <<haveOutput, successful>>, successful,
         NEW t, t = [p \in 1 .. len' |-> t[p]], NewText(t)
  PROVE  Cursor!Becomes(t)
<1>1. Done = <<>>
  BY OutsideText
<1>2. /\ Done' = <<>> /\ Todo' \in Seq(Glyph) /\ Len(Todo') = len' /\ DOMAIN Todo' = 1 .. len'
      /\ \A p \in 1 .. len' : Todo'[p] = mem'.info[p - 1]
  BY OutsideNext
<1> DEFINE u == Todo'
<1>3. u = [p \in 1 .. len' |-> u[p]] /\ \A p \in 1 .. len' : u[p] = t[p]
  BY <1>2 DEF NewText
<1> HIDE DEF u
<1>4. u = t
  BY <1>3
<1>5. Todo' = t
  BY <1>4 DEF u
<1> QED BY <1>1, <1>2, <1>5 DEF Cursor!Becomes

LEMMA BecomesSeq ==
  ASSUME BufferInv, BufferInv', ~haveOutput, UNCHANGED <<haveOutput, successful>>, successful,
         NEW t \in Seq(Glyph), Len(t) = len', NewText(t)
  PROVE  Cursor!Becomes(t)
<1>1. t = [p \in 1 .. len' |-> t[p]]
  OBVIOUS
<1> QED BY <1>1, BecomesIs

LEMMA ClearSteps == ASSUME BufferInv, BufferInv', Clear PROVE Stepped
<1>1. haveOutput' = FALSE /\ len' = 0 /\ successful' = TRUE /\ UNCHANGED level
  BY DEF Clear
<1>2. Done' = <<>> /\ Todo' \in Seq(Glyph) /\ Len(Todo') = 0
  BY <1>1, OutsideNext
<1>3. Todo' = <<>>
  BY <1>2
<1> QED BY <1>1, <1>2, <1>3 DEF Stepped, Cursor!Next, Cursor!Reset

LEMMA SetClusterLevelSteps == ASSUME BufferInv, NEW l \in Levels, SetClusterLevel(l) PROVE Stepped
<1>1. /\ ~haveOutput /\ level' = l
      /\ UNCHANGED <<mem, idx, len, outLen, successful, haveOutput>>
  BY DEF SetClusterLevel
<1>2. UNCHANGED <<Done, Todo>>
  BY <1>1 DEF Done, Todo
<1> QED BY <1>1, <1>2 DEF Stepped, Cursor!Next, Cursor!SetLevel, Levels, Cursor!Levels

LEMMA PreAllocateSteps == ASSUME BufferInv, NEW size \in Nat, PreAllocate(size) PROVE Stepped
<1>1. PICK r \in Ensure(size) : Granted(r)
  BY DEF PreAllocate
<1>2. UNCHANGED <<mem, idx, len, outLen, haveOutput, level>> /\ ~haveOutput
  BY DEF PreAllocate
<1>3. successful' = successful \/ successful' = FALSE
  BY <1>1, EnsureSuccess DEF Granted
<1>4. UNCHANGED <<Done, Todo>>
  BY <1>2 DEF Done, Todo
<1>5. CASE successful' = successful
  BY <1>2, <1>4, <1>5 DEF Stepped, Cursor!cursorVars
<1>6. CASE successful' = FALSE
  BY <1>2, <1>4, <1>6 DEF Stepped, Cursor!Next, Cursor!RunOut
<1> QED BY <1>3, <1>5, <1>6

\* A text that becomes t is a step of it if a client may ask for t.
LEMMA BecomesSteps ==
  ASSUME Cursor!ClientStep, UNCHANGED level
  PROVE  Stepped
BY DEF Stepped, Cursor!Next

LEMMA AddSteps ==
  ASSUME BufferInv, BufferInv', NEW cp \in AddCps, NEW k \in ClusterValues, Add(cp, k)
  PROVE  Stepped
<1> DEFINE g == [cp |-> cp, cluster |-> k, unsafe |-> FALSE]
           t == Append(Todo, g)
<1>1. ~haveOutput /\ len \in Nat /\ len + 1 \in Nat /\ mem \in Mem /\ mem.info \in Block
  BY InvFacts DEF Add
<1>2. PICK r \in Ensure(len + 1) :
         \/ Refused(r)
         \/ /\ r.ok /\ Granted(r)
            /\ mem' = [mem EXCEPT !.info[len] = g]
            /\ len' = len + 1
            /\ UNCHANGED <<idx, outLen, haveOutput, havePositions, hasUnsafe, level>>
  BY DEF Add
<1>3. CASE Refused(r)
  BY <1>1, <1>3, RefusedStaged, StagedSteps
<1>4. CASE /\ r.ok /\ Granted(r)
           /\ mem' = [mem EXCEPT !.info[len] = g]
           /\ len' = len + 1
           /\ UNCHANGED <<idx, outLen, haveOutput, havePositions, hasUnsafe, level>>
  <2>1. g \in Glyph
    <3>1. cp \in Codepoints
      BY TextAssumption
    <3> QED BY <3>1 DEF Glyph
  <2>2. /\ Todo \in Seq(Glyph) /\ Len(Todo) = len /\ \A p \in 1 .. len : Todo[p] = mem.info[p - 1]
    BY <1>1, OutsideText
  <2>3. /\ t \in Seq(Glyph) /\ Len(t) = len + 1
        /\ \A i \in 1 .. len : t[i] = Todo[i]
        /\ t[len + 1] = g
    <3> HIDE DEF g
    <3> QED BY <2>1, <2>2, AppendProperties
  <2>4. \A p \in 1 .. len + 1 : p - 1 \in Cells
    <3>1. len' <= Capacity
      BY ShownNext DEF Shown
    <3> QED BY <1>1, <1>4, <3>1, InvFacts DEF Cells
  <2>5. \A c \in Cells : mem'.info[c] = IF c = len THEN g ELSE mem.info[c]
    <3> HIDE DEF g
    <3>1. mem'.info = [mem.info EXCEPT ![len] = g]
      BY <1>1, <1>4 DEF Mem
    <3> QED BY <1>1, <3>1 DEF Block
  <2>6. NewText(t)
    <3> SUFFICES ASSUME NEW p \in 1 .. len + 1 PROVE mem'.info[p - 1] = t[p]
      BY <1>4 DEF NewText
    <3>1. CASE p = len + 1
      <4>1. p - 1 = len
        BY <1>1, <3>1
      <4> HIDE DEF g, t
      <4> QED BY <2>3, <2>4, <2>5, <3>1, <4>1
    <3>2. CASE p # len + 1
      <4>1. p \in 1 .. len /\ p - 1 # len
        BY <1>1, <3>2
      <4> HIDE DEF g, t
      <4> QED BY <2>2, <2>3, <2>4, <2>5, <4>1
    <3> QED BY <3>1, <3>2
  <2>7. ASSUME successful, UNCHANGED successful
        PROVE  Stepped
    <3>1. Len(t) = len' /\ UNCHANGED <<haveOutput, successful>>
      BY <1>4, <2>3, <2>7
    <3>2. Cursor!Becomes(t)
      <4> HIDE DEF t
      <4> QED BY <1>1, <2>3, <2>6, <2>7, <3>1, BecomesSeq
    <3>3. Cursor!ClientStep
      BY <3>2 DEF Cursor!ClientStep
    <3> QED BY <1>4, <3>3, BecomesSteps
  <2> QED BY <1>1, <1>4, <2>7, ClientRoom
<1> QED BY <1>2, <1>3, <1>4

\* The blocks after hb_buffer_set_length, where the text is not cut.
LEMMA WipedCells ==
  ASSUME BufferInv, NEW n \in Nat, len <= n
  PROVE  \A c \in Cells : c < n => Wiped(n).info[c] = IF c < len THEN mem.info[c] ELSE ZeroGlyph
<1>1. mem \in Mem /\ mem.info \in Block /\ len \in Nat /\ \A c \in Cells : c \in Int
  BY InvFacts DEF Cells
<1>2. CASE n = len
  <2>1. Wiped(n) = mem
    BY <1>1, <1>2 DEF Wiped
  <2> QED BY <1>1, <1>2, <2>1
<1>3. CASE n > len
  <2> DEFINE b == Fill(mem.info, len, n - len, ZeroGlyph)
  <2>1. Wiped(n) = [mem EXCEPT !.info = b,
                               !.pos  = IF havePositions THEN Fill(@, len, n - len, ZeroGlyph) ELSE @]
    <3>1. ~(n <= len)
      BY <1>1, <1>3
    <3> QED BY <3>1 DEF Wiped
  <2> HIDE DEF b
  <2>2. Wiped(n).info = b
    BY <1>1, <2>1 DEF Mem
  <2>3. \A c \in Cells : b[c] = IF len <= c /\ c < len + (n - len) THEN ZeroGlyph ELSE mem.info[c]
    <3>1. len \in Int /\ n - len \in Int
      BY <1>1
    <3> QED BY <1>1, <3>1, FillIsBlock DEF b
  <2>4. \A c \in Cells : c < n => (len <= c /\ c < len + (n - len) <=> ~(c < len))
    BY <1>1, <1>3
  <2> HIDE DEF ZeroGlyph
  <2> QED BY <2>2, <2>3, <2>4
<1> QED BY <1>1, <1>2, <1>3

SetLengthText(n) ==
  IF n <= Len(Todo) THEN Cursor!Becomes(SubSeq(Todo, 1, n))
  ELSE Cursor!Becomes(Todo \o [r \in 1 .. n - Len(Todo) |-> Cursor!ZeroItem])

\* Shortening cuts the text, lengthening adds zeroed glyphs.
LEMMA LengthText ==
  ASSUME BufferInv, BufferInv', ~haveOutput, UNCHANGED <<haveOutput, successful>>, successful,
         NEW n \in Nat, mem' = Wiped(n), len' = n
  PROVE  SetLengthText(n)
<1>1. len \in Nat /\ mem \in Mem /\ mem.info \in Block /\ n <= Capacity /\ len <= Capacity /\ Capacity \in Nat
  <2>1. len' <= Capacity
    BY ShownNext DEF Shown
  <2> QED BY <2>1, InvFacts
<1>2. \A p \in 1 .. Capacity : p - 1 \in Cells
  BY <1>1 DEF Cells
<1>3. /\ Todo \in Seq(Glyph) /\ Len(Todo) = len /\ \A p \in 1 .. len : Todo[p] = mem.info[p - 1]
  BY OutsideText
<1>4. CASE n <= len
  <2> DEFINE t == SubSeq(Todo, 1, n)
  <2>1. t \in Seq(Glyph) /\ Len(t) = n /\ \A i \in 1 .. n : t[i] = Todo[i]
    <3>1. 1 \in Int /\ n \in Int /\ \A i \in 1 .. n : Todo[i] \in Glyph
      BY <1>1, <1>3, <1>4
    <3>2. /\ t \in Seq(Glyph) /\ Len(t) = (IF 1 <= n THEN n - 1 + 1 ELSE 0)
          /\ \A i \in 1 .. n - 1 + 1 : t[i] = Todo[1 + i - 1]
      BY <3>1, SubSeqProperties
    <3> HIDE DEF t
    <3> QED BY <3>2
  <2> HIDE DEF t
  <2>2. mem'.info = mem.info
    <3>1. CASE n = len
      <4>1. mem' = mem
        BY <1>1, <3>1 DEF Wiped
      <4> QED BY <4>1
    <3>2. CASE n # len
      <4>1. mem' = mem
        BY <1>4 DEF Wiped
      <4> QED BY <4>1
    <3> QED BY <3>1, <3>2
  <2>3. NewText(t)
    <3> SUFFICES ASSUME NEW p \in 1 .. n PROVE mem'.info[p - 1] = t[p]
      BY DEF NewText
    <3>1. p \in 1 .. len
      BY <1>1, <1>4
    <3> QED BY <1>3, <2>1, <2>2, <3>1
  <2>4. Cursor!Becomes(t)
    BY <2>1, <2>3, BecomesSeq
  <2> QED BY <1>3, <1>4, <2>4 DEF SetLengthText, t
<1>5. CASE ~(n <= len)
  <2> DEFINE z == [r \in 1 .. n - len |-> ZeroGlyph]
             t == Todo \o z
  <2>1. z \in Seq(Glyph) /\ Len(z) = n - len /\ \A i \in 1 .. n - len : z[i] = ZeroGlyph
    <3>1. ZeroGlyph \in Glyph /\ n - len \in Nat
      BY <1>1, <1>5, ZeroGlyphIsGlyph
    <3> HIDE DEF ZeroGlyph
    <3> QED BY <3>1
  <2>2. /\ t \in Seq(Glyph) /\ Len(t) = n
        /\ \A i \in 1 .. n : t[i] = IF i <= len THEN Todo[i] ELSE ZeroGlyph
    <3> HIDE DEF z, ZeroGlyph
    <3>1. /\ t \in Seq(Glyph) /\ Len(t) = Len(Todo) + Len(z)
          /\ \A i \in 1 .. Len(Todo) + Len(z) : t[i] = IF i <= Len(Todo) THEN Todo[i] ELSE z[i - Len(Todo)]
      BY <1>3, <2>1, ConcatProperties
    <3>2. Len(Todo) + Len(z) = n
      BY <1>1, <1>3, <2>1, <1>5
    <3>3. \A i \in 1 .. n : ~(i <= len) => i - len \in 1 .. n - len
      BY <1>1, <1>5
    <3> HIDE DEF t
    <3> QED BY <1>3, <2>1, <3>1, <3>2, <3>3
  <2> HIDE DEF t
  <2>3. \A c \in Cells : c < n => Wiped(n).info[c] = IF c < len THEN mem.info[c] ELSE ZeroGlyph
    <3>1. len <= n
      BY <1>1, <1>5
    <3> QED BY <3>1, WipedCells
  <2>4. NewText(t)
    <3> HIDE DEF ZeroGlyph
    <3> SUFFICES ASSUME NEW p \in 1 .. n PROVE mem'.info[p - 1] = t[p]
      BY DEF NewText
    <3>1. p - 1 \in Cells /\ p - 1 < n /\ (p - 1 < len <=> p <= len) /\ (p <= len => p \in 1 .. len)
      BY <1>1, <1>2
    <3>2. mem'.info[p - 1] = IF p - 1 < len THEN mem.info[p - 1] ELSE ZeroGlyph
      BY <2>3, <3>1
    <3> QED BY <1>3, <2>2, <3>1, <3>2
  <2>5. Cursor!Becomes(t)
    BY <2>2, <2>4, BecomesSeq
  <2>6. t = Todo \o [r \in 1 .. n - Len(Todo) |-> Cursor!ZeroItem]
    BY <1>3 DEF t, ZeroGlyph, Cursor!ZeroItem
  <2> QED BY <1>3, <1>5, <2>5, <2>6 DEF SetLengthText
<1> QED BY <1>4, <1>5

LEMMA SetLengthSteps ==
  ASSUME BufferInv, BufferInv', NEW n \in Nat, SetLength(n)
  PROVE  Stepped
<1>1. ~haveOutput
  BY DEF SetLength
<1>2. PICK r \in Ensure(n) :
         \/ Refused(r)
         \/ /\ r.ok /\ Granted(r) /\ mem' = Wiped(n) /\ len' = n
            /\ UNCHANGED <<idx, outLen, haveOutput, havePositions, hasUnsafe, level>>
  BY DEF SetLength
<1>3. CASE Refused(r)
  BY <1>3, RefusedStaged, StagedSteps
<1>4. CASE /\ r.ok /\ Granted(r) /\ mem' = Wiped(n) /\ len' = n
           /\ UNCHANGED <<idx, outLen, haveOutput, havePositions, hasUnsafe, level>>
  <2>1. ASSUME successful, UNCHANGED successful
        PROVE  Stepped
    <3>1. SetLengthText(n)
      BY <1>1, <1>4, <2>1, LengthText
    <3>2. Len(Todo) \in Nat /\ Todo \in Seq(Glyph)
      BY <1>1, OutsideText
    <3>3. CASE n <= Len(Todo)
      <4>1. n \in 0 .. Len(Todo) /\ Cursor!Becomes(SubSeq(Todo, 1, n))
        BY <3>1, <3>2, <3>3 DEF SetLengthText
      <4>2. Cursor!ClientStep
        BY <4>1 DEF Cursor!ClientStep
      <4> QED BY <1>4, <4>2, BecomesSteps
    <3>4. CASE ~(n <= Len(Todo))
      <4>1. Cursor!Becomes(Todo \o [x \in 1 .. n - Len(Todo) |-> Cursor!ZeroItem])
        BY <3>1, <3>4 DEF SetLengthText
      <4>2. Len(Todo') = n /\ Len(Todo') > Len(Todo)
        <5>1. Len(Todo') = n
          BY <1>1, <1>4, OutsideNext
        <5> QED BY <3>2, <3>4, <5>1
      <4>3. Cursor!Becomes(Todo \o [x \in 1 .. Len(Todo') - Len(Todo) |-> Cursor!ZeroItem])
        BY <4>1, <4>2
      <4>4. Cursor!ClientStep
        BY <4>2, <4>3 DEF Cursor!ClientStep
      <4> QED BY <1>4, <4>4, BecomesSteps
    <3> QED BY <3>3, <3>4
  <2> QED BY <1>4, <2>1, ClientRoom
<1> QED BY <1>2, <1>3, <1>4

LEMMA AppendFromSteps ==
  ASSUME BufferInv, BufferInv', NEW gs \in Sources, AppendFrom(gs)
  PROVE  Stepped
<1> DEFINE n == len + Len(gs)
           t == Todo \o gs
<1>1. /\ ~haveOutput /\ len \in Nat /\ mem \in Mem /\ mem.info \in Block /\ gs \in Seq(Glyph) /\ Len(gs) \in Nat
      /\ n \in Nat /\ Capacity \in Nat
  <2>1. gs \in Seq([cp : Codepoints, cluster : ClusterValues, unsafe : BOOLEAN])
    BY TextAssumption
  <2>2. [cp : Codepoints, cluster : ClusterValues, unsafe : BOOLEAN] \subseteq Glyph
    BY DEF Glyph
  <2>3. gs \in Seq(Glyph)
    BY <2>1, <2>2, SeqMonotonic
  <2> QED BY <2>3, InvFacts DEF AppendFrom
<1>2. PICK r \in Ensure(n) :
         \/ Refused(r)
         \/ /\ r.ok /\ Granted(r)
            /\ mem' = IF r.successful
                      THEN [mem EXCEPT !.info = [c \in Cells |->
                              IF len <= c /\ c < len + Len(gs) THEN gs[c - len + 1] ELSE @[c]]]
                      ELSE Wiped(len + Len(gs))
            /\ len' = n
            /\ UNCHANGED <<idx, outLen, haveOutput, havePositions, hasUnsafe, level>>
  BY DEF AppendFrom
<1>3. CASE Refused(r)
  BY <1>1, <1>3, RefusedStaged, StagedSteps
<1>4. CASE /\ r.ok /\ Granted(r)
           /\ mem' = IF r.successful
                     THEN [mem EXCEPT !.info = [c \in Cells |->
                             IF len <= c /\ c < len + Len(gs) THEN gs[c - len + 1] ELSE @[c]]]
                     ELSE Wiped(len + Len(gs))
           /\ len' = n
           /\ UNCHANGED <<idx, outLen, haveOutput, havePositions, hasUnsafe, level>>
  <2>1. ASSUME successful, UNCHANGED successful
        PROVE  Stepped
    <3>1. r.successful
      BY <1>4, <2>1 DEF Granted
    <3> DEFINE b == [c \in Cells |-> IF len <= c /\ c < len + Len(gs) THEN gs[c - len + 1] ELSE mem.info[c]]
    <3>2. mem' = [mem EXCEPT !.info = b]
      BY <1>4, <3>1
    <3> HIDE DEF b
    <3>3. mem'.info = b
      BY <1>1, <3>2 DEF Mem
    <3>4. n <= Capacity
      <4>1. len' <= Capacity
        BY ShownNext DEF Shown
      <4> QED BY <1>4, <4>1
    <3>5. /\ Todo \in Seq(Glyph) /\ Len(Todo) = len /\ \A p \in 1 .. len : Todo[p] = mem.info[p - 1]
      BY <1>1, OutsideText
    <3>6. /\ t \in Seq(Glyph) /\ Len(t) = n
          /\ \A i \in 1 .. n : t[i] = IF i <= len THEN Todo[i] ELSE gs[i - len]
      <4>1. /\ t \in Seq(Glyph) /\ Len(t) = Len(Todo) + Len(gs)
            /\ \A i \in 1 .. Len(Todo) + Len(gs) : t[i] = IF i <= Len(Todo) THEN Todo[i] ELSE gs[i - Len(Todo)]
        BY <1>1, <3>5, ConcatProperties
      <4> HIDE DEF t
      <4> QED BY <3>5, <4>1
    <3> HIDE DEF t
    <3>7. NewText(t)
      <4> SUFFICES ASSUME NEW p \in 1 .. n PROVE mem'.info[p - 1] = t[p]
        BY <1>4 DEF NewText
      <4>1. PICK c \in Cells : c = p - 1
        BY <1>1, <3>4 DEF Cells
      <4>2. b[c] = IF len <= c /\ c < len + Len(gs) THEN gs[c - len + 1] ELSE mem.info[c]
        BY DEF b
      <4>3. CASE p <= len
        <5>1. p \in 1 .. len /\ ~(len <= c)
          BY <1>1, <4>1, <4>3
        <5> QED BY <3>3, <3>5, <3>6, <4>1, <4>2, <4>3, <5>1
      <4>4. CASE ~(p <= len)
        <5>1. len <= c /\ c < len + Len(gs) /\ c - len + 1 = p - len
          BY <1>1, <4>1, <4>4
        <5> QED BY <3>3, <3>6, <4>1, <4>2, <4>4, <5>1
      <4> QED BY <4>3, <4>4
    <3>8. Len(t) = len' /\ UNCHANGED <<haveOutput, successful>>
      BY <1>4, <2>1, <3>6
    <3>9. Cursor!Becomes(t)
      BY <1>1, <2>1, <3>6, <3>7, <3>8, BecomesSeq
    <3>10. Cursor!ClientStep
      BY <3>9 DEF Cursor!ClientStep, t
    <3> QED BY <1>4, <3>10, BecomesSteps
  <2> QED BY <1>1, <1>4, <2>1, ClientRoom
<1> QED BY <1>2, <1>3, <1>4

\* reverse_range turns a range of the text around.
LEMMA ReverseRangeSteps ==
  ASSUME BufferInv, BufferInv', NEW start \in Nat, NEW end \in Nat, ReverseRange(start, end)
  PROVE  Stepped
<1> DEFINE p == start + 1
           q == end
           a == mem.info
           t == Cursor!Reversed(Todo, p, q)
<1>1. /\ ~haveOutput /\ start < end /\ end <= len /\ len \in Nat /\ len <= Capacity /\ Capacity \in Nat
      /\ a \in Block /\ mem \in Mem
      /\ UNCHANGED <<idx, len, outLen, allocated, successful, haveOutput, havePositions, hasUnsafe, level>>
  BY InvFacts DEF ReverseRange
<1>2. CASE ~successful
  <2>1. Staged
    BY <1>1, <1>2, BrokenStaged
  <2> QED BY <2>1, StagedSteps
<1>3. CASE successful
  <2>1. mem'.info = ReverseCells(a, start, end)
    BY <1>1 DEF ReverseRange, Mem
  <2>2. \A c \in Cells : ReverseCells(a, start, end)[c] = IF start <= c /\ c < end THEN a[start + end - 1 - c] ELSE a[c]
    <3>1. end <= Capacity
      BY <1>1
    <3> HIDE DEF a
    <3> QED BY <1>1, <3>1, ReverseCellsIsBlock
  <2>3. /\ Todo \in Seq(Glyph) /\ Len(Todo) = len /\ DOMAIN Todo = 1 .. len
        /\ \A x \in 1 .. len : Todo[x] = a[x - 1]
    BY <1>1, OutsideText
  <2>4. t = [x \in 1 .. len |-> IF x \in p .. q THEN Todo[p + q - x] ELSE Todo[x]]
    BY <2>3 DEF Cursor!Reversed
  <2> HIDE DEF a, t
  <2>5. NewText(t)
    <3> SUFFICES ASSUME NEW x \in 1 .. len PROVE mem'.info[x - 1] = t[x]
      BY <1>1 DEF NewText
    <3>1. PICK c \in Cells : c = x - 1
      BY <1>1 DEF Cells
    <3>2. CASE x \in p .. q
      <4>1. start <= c /\ c < end
        BY <1>1, <3>1, <3>2
      <4>2. PICK y \in 1 .. len : y = p + q - x /\ y - 1 = start + end - 1 - c
        <5>1. p + q - x \in 1 .. len /\ (p + q - x) - 1 = start + end - 1 - c
          BY <1>1, <3>1, <3>2
        <5> QED BY <5>1
      <4>3. mem'.info[c] = a[start + end - 1 - c]
        BY <2>1, <2>2, <4>1
      <4>4. t[x] = Todo[y] /\ Todo[y] = a[y - 1]
        BY <2>3, <2>4, <3>2, <4>2
      <4> QED BY <3>1, <4>2, <4>3, <4>4
    <3>3. CASE ~(x \in p .. q)
      <4>1. ~(start <= c /\ c < end)
        BY <1>1, <3>1, <3>3
      <4>2. mem'.info[c] = a[c]
        BY <2>1, <2>2, <4>1
      <4> QED BY <2>3, <2>4, <3>1, <3>3, <4>2
    <3> QED BY <3>2, <3>3
  <2>6. t = [x \in 1 .. len' |-> t[x]]
    BY <1>1, <2>4
  <2>7. Cursor!Becomes(t)
    BY <1>1, <1>3, <2>5, <2>6, BecomesIs
  <2>8. p \in DOMAIN Todo /\ q \in DOMAIN Todo
    BY <1>1, <2>3
  <2>9. Cursor!ClientStep
    BY <2>7, <2>8 DEF Cursor!ClientStep, t
  <2> QED BY <1>1, <2>9, BecomesSteps
<1> QED BY <1>2, <1>3

\* Positions lo .. hi of the first n of t are a run of one cluster, around r.
RunFrom(t, n, r, lo, hi) ==
  /\ \A x \in lo .. hi : t[x].cluster = t[r].cluster
  /\ lo > 1 => t[lo - 1].cluster # t[r].cluster
  /\ hi < n => t[hi + 1].cluster # t[r].cluster

\* Nothing else is in the run.
LEMMA RunAround ==
  ASSUME NEW t, NEW n \in Nat, NEW r \in 1 .. n, NEW lo \in 1 .. r, NEW hi \in r .. n,
         RunFrom(t, n, r, lo, hi)
  PROVE  {s \in 1 .. n : Cursor!SameRun(t, s, r)} = lo .. hi
<1>0. /\ \A x \in lo .. hi : t[x].cluster = t[r].cluster
      /\ lo > 1 => t[lo - 1].cluster # t[r].cluster
      /\ hi < n => t[hi + 1].cluster # t[r].cluster
  BY DEF RunFrom
<1>1. ASSUME NEW s \in 1 .. n, Cursor!SameRun(t, s, r) PROVE s \in lo .. hi
  <2>1. \A x \in (s .. r) \cup (r .. s) : t[x].cluster = t[s].cluster
    BY <1>1 DEF Cursor!SameRun
  <2>2. t[r].cluster = t[s].cluster
    <3>1. r \in (s .. r) \cup (r .. s)
      OBVIOUS
    <3> QED BY <2>1, <3>1
  <2>3. ~(s < lo)
    <3> SUFFICES ASSUME s < lo PROVE FALSE
      OBVIOUS
    <3>1. lo > 1 /\ lo - 1 \in s .. r
      OBVIOUS
    <3> QED BY <1>0, <2>1, <2>2, <3>1
  <2>4. ~(s > hi)
    <3> SUFFICES ASSUME s > hi PROVE FALSE
      OBVIOUS
    <3>1. hi < n /\ hi + 1 \in r .. s
      OBVIOUS
    <3> QED BY <1>0, <2>1, <2>2, <3>1
  <2> QED BY <2>3, <2>4
<1>2. ASSUME NEW s \in lo .. hi PROVE s \in 1 .. n /\ Cursor!SameRun(t, s, r)
  <2>1. \A x \in (s .. r) \cup (r .. s) : x \in lo .. hi
    BY <1>2
  <2>2. s \in 1 .. n
    BY <1>2
  <2> QED BY <1>0, <1>2, <2>1, <2>2 DEF Cursor!SameRun
<1> QED BY <1>1, <1>2

\* Its first and last positions.
LEMMA RunEndsAre ==
  ASSUME NEW lo \in Int, NEW hi \in Int, lo <= hi
  PROVE  /\ (CHOOSE s \in lo .. hi : s - 1 \notin lo .. hi) = lo
         /\ (CHOOSE s \in lo .. hi : s + 1 \notin lo .. hi) = hi
<1>1. lo \in lo .. hi /\ lo - 1 \notin lo .. hi /\ hi \in lo .. hi /\ hi + 1 \notin lo .. hi
  OBVIOUS
<1>2. \A s \in lo .. hi : s - 1 \notin lo .. hi => s = lo
  OBVIOUS
<1>3. \A s \in lo .. hi : s + 1 \notin lo .. hi => s = hi
  OBVIOUS
<1> QED BY <1>1, <1>2, <1>3

\* reverse_clusters turns the text around and every run of one cluster back.
LEMMA ReverseClustersSteps ==
  ASSUME BufferInv, BufferInv', ReverseClusters
  PROVE  Stepped
<1> DEFINE a == mem.info
           b == ReverseCells(a, 0, len)
           n == len
           rev == Cursor!Reversed(Todo, 1, len)
           t == Cursor!ClustersReversed(Todo)
<1>1. /\ ~haveOutput /\ len > 0 /\ len \in Nat /\ len <= Capacity /\ Capacity \in Nat
      /\ a \in Block /\ mem \in Mem
      /\ UNCHANGED <<idx, len, outLen, allocated, successful, haveOutput, havePositions, hasUnsafe, level>>
  BY InvFacts DEF ReverseClusters
<1>2. CASE ~successful
  <2>1. Staged
    BY <1>1, <1>2, BrokenStaged
  <2> QED BY <2>1, StagedSteps
<1>3. CASE successful
  <2>1. mem'.info = ClusterReversed(a, a)
    BY <1>1 DEF ReverseClusters, Mem
  <2>2. /\ b \in Block
        /\ \A c \in Cells : b[c] = IF 0 <= c /\ c < len THEN a[0 + len - 1 - c] ELSE a[c]
    <3>1. 0 \in Nat
      OBVIOUS
    <3> HIDE DEF a
    <3> QED BY <1>1, <3>1, ReverseCellsIsBlock
  <2>3. /\ Todo \in Seq(Glyph) /\ Len(Todo) = len /\ DOMAIN Todo = 1 .. len
        /\ \A x \in 1 .. len : Todo[x] = a[x - 1]
    BY <1>1, OutsideText
  <2>4. rev = [x \in 1 .. len |-> IF x \in 1 .. len THEN Todo[1 + len - x] ELSE Todo[x]]
    BY <2>3 DEF Cursor!Reversed
  <2> DEFINE first(c) == RunStart(b, b[c].cluster, c, 0)
             last(c) == RunEnd(b, c + 1, len) - 1
  <2>5. \A c \in Cells : c < len => mem'.info[c] = b[first(c) + last(c) - c]
    <3> HIDE DEF a
    <3> QED BY <1>1, <2>1 DEF ClusterReversed
  <2> DEFINE run(r) == {s \in 1 .. len : Cursor!SameRun(rev, s, r)}
             low(r) == CHOOSE s \in run(r) : s - 1 \notin run(r)
             high(r) == CHOOSE s \in run(r) : s + 1 \notin run(r)
  <2>6. t = [r \in 1 .. len |-> rev[low(r) + high(r) - r]]
    BY <2>3 DEF Cursor!ClustersReversed
  <2> HIDE DEF a, b, rev, t
  <2>7. \A x \in 1 .. len : rev[x] = b[x - 1]
    <3> TAKE x \in 1 .. len
    <3>1. PICK c \in Cells : c = x - 1
      BY <1>1 DEF Cells
    <3>2. PICK y \in 1 .. len : y = 1 + len - x /\ y - 1 = 0 + len - 1 - c /\ 0 <= c /\ c < len
      <4>1. 1 + len - x \in 1 .. len /\ (1 + len - x) - 1 = 0 + len - 1 - c /\ 0 <= c /\ c < len
        BY <1>1, <3>1
      <4> QED BY <4>1
    <3>3. rev[x] = Todo[y] /\ Todo[y] = a[y - 1]
      BY <2>3, <2>4, <3>2
    <3>4. b[c] = a[0 + len - 1 - c]
      BY <2>2, <3>2
    <3> QED BY <3>1, <3>2, <3>3, <3>4
  <2>8. ASSUME NEW x \in 1 .. len
        PROVE  mem'.info[x - 1] = t[x]
    <3>1. PICK c \in Cells : c = x - 1 /\ c \in Nat /\ c < len
      <4>1. x - 1 \in Cells /\ x - 1 \in Nat /\ x - 1 < len
        BY <1>1 DEF Cells
      <4> QED BY <4>1
    <3>2. PICK s \in 0 .. c : /\ s = first(c)
                              /\ \A i \in s .. c - 1 : b[i].cluster = b[c].cluster
                              /\ s > 0 => b[s - 1].cluster # b[c].cluster
      <4> DEFINE k == b[c].cluster
      <4>1. StartsRun(b, k, c, 0, RunStart(b, k, c, 0))
        <5>1. 0 \in Nat /\ 0 <= c
          BY <3>1
        <5> HIDE DEF k
        <5> QED BY <3>1, <5>1, RunStartIs
      <4> QED BY <4>1 DEF StartsRun
    <3>3. PICK e \in c + 1 .. len : /\ e = RunEnd(b, c + 1, len)
                                    /\ \A i \in c + 1 .. e - 1 : b[i].cluster = b[c].cluster
                                    /\ e < len => b[e].cluster # b[c].cluster
      BY <1>1, <3>1, RunEndFrom, SMTT(30)
    <3>4. PICK lo \in 1 .. x : lo = s + 1
      BY <3>1, <3>2
    <3>5. PICK hi \in x .. len : hi = e
      BY <3>1, <3>3
    <3>6. \A y \in lo .. hi : rev[y].cluster = rev[x].cluster
      <4> TAKE y \in lo .. hi
      <4>1. y \in 1 .. len /\ (y - 1 \in s .. c - 1 \/ y - 1 = c \/ y - 1 \in c + 1 .. e - 1)
        BY <1>1, <3>1, <3>4, <3>5
      <4>2. b[y - 1].cluster = b[c].cluster
        BY <3>2, <3>3, <4>1
      <4> QED BY <2>7, <3>1, <4>1, <4>2
    <3>7. lo > 1 => rev[lo - 1].cluster # rev[x].cluster
      <4> SUFFICES ASSUME lo > 1 PROVE rev[lo - 1].cluster # rev[x].cluster
        OBVIOUS
      <4>1. PICK y \in 1 .. len : y = lo - 1 /\ y - 1 = s - 1 /\ s > 0
        <5>1. lo - 1 \in 1 .. len /\ (lo - 1) - 1 = s - 1 /\ s > 0
          BY <1>1, <3>4
        <5> QED BY <5>1
      <4> QED BY <2>7, <3>1, <3>2, <4>1
    <3>8. hi < len => rev[hi + 1].cluster # rev[x].cluster
      <4> SUFFICES ASSUME hi < len PROVE rev[hi + 1].cluster # rev[x].cluster
        OBVIOUS
      <4>1. PICK y \in 1 .. len : y = hi + 1 /\ y - 1 = e /\ e < len
        <5>1. hi + 1 \in 1 .. len /\ (hi + 1) - 1 = e /\ e < len
          BY <1>1, <3>5
        <5> QED BY <5>1
      <4> QED BY <2>7, <3>1, <3>3, <4>1
    <3>9. run(x) = lo .. hi
      <4>1. RunFrom(rev, len, x, lo, hi)
        BY <3>6, <3>7, <3>8 DEF RunFrom
      <4> QED BY <1>1, <4>1, RunAround
    <3>10. low(x) = lo /\ high(x) = hi
      <4>1. lo \in Int /\ hi \in Int /\ lo <= hi
        BY <3>4, <3>5
      <4> HIDE DEF run
      <4> QED BY <3>9, <4>1, RunEndsAre
    <3>11. t[x] = rev[lo + hi - x]
      <4> HIDE DEF low, high
      <4> QED BY <2>6, <3>10
    <3>12. PICK y \in 1 .. len : y = lo + hi - x /\ y - 1 = s + (e - 1) - c
      <4>1. lo + hi - x \in 1 .. len /\ (lo + hi - x) - 1 = s + (e - 1) - c
        BY <1>1, <3>1, <3>4, <3>5
      <4> QED BY <4>1
    <3>13. mem'.info[c] = b[s + (e - 1) - c]
      BY <2>5, <3>1, <3>2, <3>3
    <3> QED BY <2>7, <3>1, <3>11, <3>12, <3>13
  <2>9. NewText(t) /\ t = [x \in 1 .. len' |-> t[x]]
    <3>1. t = [x \in 1 .. len |-> t[x]]
      <4> HIDE DEF low, high
      <4> QED BY <2>6
    <3> QED BY <1>1, <2>8, <3>1 DEF NewText
  <2>10. Cursor!Becomes(t)
    BY <1>1, <1>3, <2>9, BecomesIs
  <2>11. Cursor!ClientStep
    BY <2>10 DEF Cursor!ClientStep, t
  <2> QED BY <1>1, <2>11, BecomesSteps
<1> QED BY <1>2, <1>3

\* Every method a client calls is a step of the text.
LEMMA ClientSteps ==
  ASSUME BufferInv, BufferInv', Client
  PROVE  Stepped
<1>1. (\A n \in 0 .. Capacity : n \in Nat) /\ (\A n \in 0 .. len : n \in Nat)
  BY InvFacts
<1>2. CASE Clear
  BY <1>2, ClearSteps
<1>3. CASE \E l \in Levels : SetClusterLevel(l)
  BY <1>3, SetClusterLevelSteps
<1>4. CASE \E n \in 0 .. Capacity : PreAllocate(n) \/ SetLength(n)
  BY <1>1, <1>4, PreAllocateSteps, SetLengthSteps
<1>5. CASE \E cp \in AddCps, k \in ClusterValues : Add(cp, k)
  BY <1>5, AddSteps
<1>6. CASE \E gs \in Sources : AppendFrom(gs)
  BY <1>6, AppendFromSteps
<1>7. CASE \E s, e \in 0 .. len : ReverseRange(s, e)
  BY <1>1, <1>7, ReverseRangeSteps
<1>8. CASE ReverseClusters
  BY <1>8, ReverseClustersSteps
<1> QED BY <1>2, <1>3, <1>4, <1>5, <1>6, <1>7, <1>8 DEF Client

-----------------------------------------------------------------------------
(* The refinement.                                                          *)

\* A new buffer holds the empty text.
LEMMA InitCursor == Init => Cursor!Init
<1> SUFFICES ASSUME Init PROVE Cursor!Init
  OBVIOUS
<1>1. BufferInv /\ ~haveOutput /\ len = 0
  BY InitInv DEF Init
<1>2. Done = <<>> /\ Todo \in Seq(Glyph) /\ Len(Todo) = 0
  BY <1>1, OutsideText
<1>3. Todo = <<>>
  BY <1>2
<1> QED BY <1>2, <1>3 DEF Init, Cursor!Init

\* Every step of the buffer is a step of the text or leaves it alone.
LEMMA StepCursor == BufferInv /\ BufferInv' /\ [Next]_vars => [Cursor!Next]_(Cursor!cursorVars)
<1> SUFFICES ASSUME BufferInv, BufferInv', [Next]_vars PROVE Stepped
  BY DEF Stepped
<1>1. CASE Client
  BY <1>1, ClientSteps
<1>2. CASE Stage
  BY <1>2, StageStaged, StagedSteps
<1>3. CASE UNCHANGED vars
  BY <1>3, UnseenStaged, StagedSteps DEF vars
<1> QED BY <1>1, <1>2, <1>3 DEF Next

\* The buffer, with its two blocks, its output that starts in place and moves
\* out when it would overtake the cursor, and its failing allocations, is the
\* text with a cursor that shaping stages take it for.
THEOREM BufferRefinesCursor == Spec => ImplementsCursor
<1>1. Spec => []BufferInv
  BY BufferSafe
<1>2. Init => Cursor!Init
  BY InitCursor
<1>3. BufferInv /\ BufferInv' /\ [Next]_vars => [Cursor!Next]_(Cursor!cursorVars)
  BY StepCursor
<1> QED BY <1>1, <1>2, <1>3, PTL DEF Spec, ImplementsCursor, Cursor!Spec

\* From every state that satisfies the invariant, reached from a new buffer or
\* not, each method is a step of the text with a cursor (CursorSteps).
THEOREM EveryStateFollowsCursor == BufferInv /\ [][Next]_vars => CursorSteps
<1>1. BufferInv /\ [Next]_vars => BufferInv'
  BY StepInv
<1>2. BufferInv /\ BufferInv' /\ [Next]_vars => [Cursor!Next]_(Cursor!cursorVars)
  BY StepCursor
<1> QED BY <1>1, <1>2, PTL DEF CursorSteps

-----------------------------------------------------------------------------
(* Clusters along the text: their order and their minimum.                  *)

Rising(t) == \A p, q \in DOMAIN t : p <= q => t[p].cluster <= t[q].cluster
Falling(t) == \A p, q \in DOMAIN t : p <= q => t[p].cluster >= t[q].cluster

\* Every cluster of u is one of t; no cluster of t is below those of u.
Drawn(t, u) == \A i \in DOMAIN u : \E x \in DOMAIN t : u[i].cluster = t[x].cluster
Undercut(t, u) == \A x \in DOMAIN t : \E i \in DOMAIN u : u[i].cluster <= t[x].cluster

\* What a step of a stage keeps when the text t becomes u.
Keeps(t, u) ==
  /\ Rising(t) => Rising(u)
  /\ Falling(t) => Falling(u)
  /\ Drawn(t, u)
  /\ u = <<>> \/ Undercut(t, u)

\* A text of glyphs, with clusters that are numbers.
Clustered(t) == t \in Seq(Glyph) /\ DOMAIN t = 1 .. Len(t) /\ Len(t) \in Nat
                /\ \A x \in 1 .. Len(t) : t[x].cluster \in Nat

LEMMA GlyphCluster ==
  ASSUME NEW g \in Glyph
  PROVE  g.cluster \in Nat
<1>1. g.cluster \in ClusterValues \cup {0}
  BY DEF Glyph
<1>2. \A k \in ClusterValues \cup {0} : k \in Nat
  BY BufferAssumption
<1> QED BY <1>1, <1>2, Zenon

LEMMA SeqClustered ==
  ASSUME NEW t \in Seq(Glyph)
  PROVE  Clustered(t)
<1>1. DOMAIN t = 1 .. Len(t) /\ Len(t) \in Nat /\ \A x \in 1 .. Len(t) : t[x] \in Glyph
  OBVIOUS
<1>2. \A x \in 1 .. Len(t) : t[x].cluster \in Nat
  BY <1>1, GlyphCluster
<1> QED BY <1>1, <1>2 DEF Clustered

\* One such step after another.
LEMMA KeepsTrans ==
  ASSUME NEW t, NEW u, NEW v, Clustered(t), Clustered(u), Clustered(v), Keeps(t, u), Keeps(u, v)
  PROVE  Keeps(t, v)
<1>1. /\ DOMAIN t = 1 .. Len(t) /\ DOMAIN u = 1 .. Len(u) /\ DOMAIN v = 1 .. Len(v)
      /\ \A x \in DOMAIN t : t[x].cluster \in Nat
      /\ \A x \in DOMAIN u : u[x].cluster \in Nat
      /\ \A x \in DOMAIN v : v[x].cluster \in Nat
  BY DEF Clustered
<1>2. (Rising(t) => Rising(v)) /\ (Falling(t) => Falling(v))
  BY DEF Keeps
<1>3. Drawn(t, v)
  <2> SUFFICES ASSUME NEW i \in DOMAIN v PROVE \E x \in DOMAIN t : v[i].cluster = t[x].cluster
    BY DEF Drawn
  <2>1. PICK y \in DOMAIN u : v[i].cluster = u[y].cluster
    BY DEF Keeps, Drawn
  <2>2. PICK x \in DOMAIN t : u[y].cluster = t[x].cluster
    BY DEF Keeps, Drawn
  <2> QED BY <2>1, <2>2
<1>4. ASSUME v # <<>>
      PROVE  Undercut(t, v)
  <2>1. Undercut(u, v)
    BY <1>4 DEF Keeps
  <2>2. u # <<>>
    <3>1. 1 \in DOMAIN v
      BY <1>4 DEF Clustered
    <3>2. PICK y \in DOMAIN u : v[1].cluster = u[y].cluster
      BY <3>1 DEF Keeps, Drawn
    <3>3. Len(u) # 0
      BY <1>1, <3>2
    <3> QED BY <3>3
  <2>3. Undercut(t, u)
    BY <2>2 DEF Keeps
  <2> SUFFICES ASSUME NEW x \in DOMAIN t PROVE \E i \in DOMAIN v : v[i].cluster <= t[x].cluster
    BY DEF Undercut
  <2>4. PICK y \in DOMAIN u : u[y].cluster <= t[x].cluster
    BY <2>3 DEF Undercut
  <2>5. PICK i \in DOMAIN v : v[i].cluster <= u[y].cluster
    BY <2>1 DEF Undercut
  <2> QED BY <1>1, <2>4, <2>5
<1> QED BY <1>2, <1>3, <1>4 DEF Keeps

\* A step that changes no cluster.
LEMMA SameClustersKeep ==
  ASSUME NEW t, NEW u, Clustered(t), Clustered(u), DOMAIN u = DOMAIN t,
         \A x \in DOMAIN t : u[x].cluster = t[x].cluster
  PROVE  Keeps(t, u)
<1>1. (Rising(t) => Rising(u)) /\ (Falling(t) => Falling(u))
  BY DEF Rising, Falling
<1>2. Drawn(t, u)
  BY DEF Drawn
<1>3. Undercut(t, u)
  BY DEF Undercut, Clustered
<1> QED BY <1>1, <1>2, <1>3 DEF Keeps

\* u is t with n glyphs behind position d replaced by m of the cluster at y.
Spliced(t, u, d, n, m, y) ==
  /\ d \in Nat /\ n \in Nat /\ m \in Nat /\ d + n <= Len(t)
  /\ m > 0 => y \in 1 .. Len(t) /\ d <= y /\ y <= d + n + 1
  /\ Len(u) = Len(t) - n + m
  /\ \A i \in 1 .. d : u[i].cluster = t[i].cluster
  /\ \A i \in 1 .. m : u[d + i].cluster = t[y].cluster
  /\ \A i \in 1 .. Len(t) - d - n : u[d + m + i].cluster = t[d + n + i].cluster

\* A glyph that is still there bounds the cluster of each that is not.
Bounded(t, d, n, m, y) ==
  \A x \in d + 1 .. d + n : \E z \in 1 .. Len(t) :
    (z <= d \/ z > d + n \/ (m > 0 /\ z = y)) /\ t[z].cluster <= t[x].cluster

LEMMA SpliceKeeps ==
  ASSUME NEW t, NEW u, NEW d, NEW n, NEW m, NEW y, Clustered(t), Clustered(u),
         Spliced(t, u, d, n, m, y), u = <<>> \/ Bounded(t, d, n, m, y)
  PROVE  Keeps(t, u)
<1> DEFINE l == Len(t)
           h == Len(u)
           at(i) == IF i <= d THEN i ELSE IF i <= d + m THEN y ELSE i - m + n
<1>1. /\ l \in Nat /\ h \in Nat /\ DOMAIN t = 1 .. l /\ DOMAIN u = 1 .. h
      /\ \A x \in 1 .. l : t[x].cluster \in Nat
      /\ \A x \in 1 .. h : u[x].cluster \in Nat
  BY DEF Clustered
<1>2. /\ d \in Nat /\ n \in Nat /\ m \in Nat /\ d + n <= l
      /\ m > 0 => y \in 1 .. l /\ d <= y /\ y <= d + n + 1
      /\ h = l - n + m
      /\ \A i \in 1 .. d : u[i].cluster = t[i].cluster
      /\ \A i \in 1 .. m : u[d + i].cluster = t[y].cluster
      /\ \A i \in 1 .. l - d - n : u[d + m + i].cluster = t[d + n + i].cluster
  BY DEF Spliced
<1> HIDE DEF l, h
<1>3. ASSUME NEW i \in 1 .. h
      PROVE  at(i) \in 1 .. l /\ u[i].cluster = t[at(i)].cluster
  <2>1. CASE i <= d
    BY <1>1, <1>2, <2>1
  <2>2. CASE ~(i <= d) /\ i <= d + m
    <3>1. PICK x \in 1 .. m : i = d + x
      <4>1. i - d \in 1 .. m /\ i = d + (i - d)
        BY <1>1, <1>2, <2>2
      <4> QED BY <4>1
    <3>2. at(i) = y /\ y \in 1 .. l
      BY <1>1, <1>2, <2>2, <3>1
    <3>3. u[d + x].cluster = t[y].cluster
      BY <1>2, <3>1
    <3> HIDE DEF at
    <3> QED BY <3>1, <3>2, <3>3
  <2>3. CASE ~(i <= d) /\ ~(i <= d + m)
    <3>1. PICK x \in 1 .. l - d - n : i = d + m + x /\ i - m + n = d + n + x
      <4>1. i - d - m \in 1 .. l - d - n /\ i = d + m + (i - d - m) /\ i - m + n = d + n + (i - d - m)
        BY <1>1, <1>2, <2>3
      <4> QED BY <4>1
    <3>2. at(i) = d + n + x /\ d + n + x \in 1 .. l
      BY <1>1, <1>2, <2>3, <3>1
    <3>3. u[d + m + x].cluster = t[d + n + x].cluster
      BY <1>2, <3>1
    <3> HIDE DEF at
    <3> QED BY <3>1, <3>2, <3>3
  <2> QED BY <2>1, <2>2, <2>3
<1>20. /\ l \in Nat /\ h \in Nat /\ d \in Nat /\ n \in Nat /\ m \in Nat /\ h = l - n + m
       /\ m > 0 => y \in 1 .. l /\ d <= y /\ y <= d + n + 1
  BY <1>1, <1>2
<1>4. ASSUME NEW i \in 1 .. h, NEW j \in 1 .. h, i <= j
      PROVE  at(i) <= at(j)
  <2>0. i \in Nat /\ j \in Nat /\ i <= j
    BY <1>4, <1>20
  <2>1. CASE i <= d
    <3>1. at(i) = i
      BY <2>1
    <3>2. i <= at(j)
      BY <1>20, <2>0, <2>1
    <3> QED BY <3>1, <3>2
  <2>2. CASE ~(i <= d) /\ i <= d + m
    <3>1. at(i) = y /\ y \in Nat /\ ~(j <= d) /\ y <= d + n + 1
      BY <1>20, <2>0, <2>2
    <3>2. y <= at(j)
      BY <1>20, <2>0, <2>2, <3>1
    <3> QED BY <3>1, <3>2
  <2>3. CASE ~(i <= d) /\ ~(i <= d + m)
    <3>1. ~(j <= d) /\ ~(j <= d + m)
      BY <1>20, <2>0, <2>3
    <3>2. at(i) = i - m + n /\ at(j) = j - m + n
      BY <2>3, <3>1
    <3> HIDE DEF at
    <3> QED BY <1>20, <2>0, <3>2
  <2> QED BY <2>1, <2>2, <2>3
<1> DEFINE f == [i \in 1 .. h |-> at(i)]
<1>5. /\ \A i \in 1 .. h : f[i] \in 1 .. l /\ u[i].cluster = t[f[i]].cluster
      /\ \A i, j \in 1 .. h : i <= j => f[i] <= f[j]
  <2> HIDE DEF at
  <2> QED BY <1>3, <1>4
<1> HIDE DEF f, at
<1>6. Rising(t) => Rising(u)
  BY <1>1, <1>5 DEF Rising
<1>7. Falling(t) => Falling(u)
  BY <1>1, <1>5 DEF Falling
<1>8. Drawn(t, u)
  BY <1>1, <1>5 DEF Drawn
<1>9. ASSUME u # <<>>
      PROVE  Undercut(t, u)
  <2>1. ASSUME NEW z \in 1 .. l, z <= d \/ z > d + n \/ (m > 0 /\ z = y)
        PROVE  \E i \in 1 .. h : u[i].cluster = t[z].cluster
    <3>1. CASE z <= d
      <4>1. z \in 1 .. h /\ z \in 1 .. d
        BY <1>1, <1>2, <3>1
      <4> QED BY <1>2, <4>1
    <3>2. CASE z > d + n
      <4>1. PICK x \in 1 .. l - d - n : z = d + n + x /\ d + m + x \in 1 .. h
        <5>1. z - d - n \in 1 .. l - d - n /\ z = d + n + (z - d - n) /\ d + m + (z - d - n) \in 1 .. h
          BY <1>1, <1>2, <3>2
        <5> QED BY <5>1
      <4>2. u[d + m + x].cluster = t[z].cluster
        BY <1>2, <4>1
      <4> QED BY <4>1, <4>2
    <3>3. CASE m > 0 /\ z = y
      <4>1. 1 \in 1 .. m /\ d + 1 \in 1 .. h
        BY <1>1, <1>2, <3>3
      <4>2. u[d + 1].cluster = t[z].cluster
        BY <1>2, <3>3, <4>1
      <4> QED BY <4>1, <4>2
    <3> QED BY <2>1, <3>1, <3>2, <3>3
  <2> SUFFICES ASSUME NEW x \in 1 .. l PROVE \E i \in 1 .. h : u[i].cluster <= t[x].cluster
    BY <1>1 DEF Undercut
  <2>2. CASE x <= d \/ x > d + n
    <3>1. PICK i \in 1 .. h : u[i].cluster = t[x].cluster
      BY <2>1, <2>2
    <3> QED BY <1>1, <3>1
  <2>3. CASE ~(x <= d \/ x > d + n)
    <3>1. x \in d + 1 .. d + n
      BY <1>1, <1>2, <2>3
    <3>2. PICK z \in 1 .. l : (z <= d \/ z > d + n \/ (m > 0 /\ z = y)) /\ t[z].cluster <= t[x].cluster
      BY <1>9, <3>1 DEF Bounded, l
    <3>3. PICK i \in 1 .. h : u[i].cluster = t[z].cluster
      BY <2>1, <3>2
    <3> QED BY <3>2, <3>3
  <2> QED BY <2>2, <2>3
<1> QED BY <1>6, <1>7, <1>8, <1>9 DEF Keeps

\* J is what a merge of positions p .. q of t may join.
Reach(t, p, q, J) ==
  /\ p .. q \subseteq J /\ J \subseteq 1 .. Len(t)
  /\ \A x \in J : x < p => t[x].cluster = t[p].cluster /\ x .. p \subseteq J
  /\ \A x \in J : x > q =>
       t[x].cluster = t[p].cluster \/ (t[x].cluster = t[q].cluster /\ q .. x \subseteq J)

Between(t, p, q) == p \in 1 .. Len(t) /\ q \in 1 .. Len(t) /\ p < q

\* The span of a range, with or without what is before it, is such a set.
LEMMA SpanReaches ==
  ASSUME NEW t, Clustered(t), NEW p, NEW q, Between(t, p, q),
         NEW lo \in 1 .. p, NEW S \in Stray(t, p)
  PROVE  Reach(t, p, q, Joins(t, p, q, lo, S))
<1> DEFINE J == Joins(t, p, q, lo, S)
           l == Len(t)
<1>1. l \in Nat /\ DOMAIN t = 1 .. l /\ p \in 1 .. l /\ q \in 1 .. l /\ p < q
  BY DEF Clustered, Between
<1>2. \A x \in S : x \in 1 .. l /\ p < x /\ t[x].cluster = t[p].cluster
  BY <1>1 DEF Stray
<1>3. \A x : x \in J <=> x \in S \/ (x \in Cursor!Span(t, p, q) /\ lo <= x)
  BY DEF Joins
<1>4. \A x : x \in Cursor!Span(t, p, q) <=>
         x \in 1 .. l /\ (x \in p .. q \/ Cursor!SameRun(t, x, p) \/ Cursor!SameRun(t, x, q))
  BY <1>1 DEF Cursor!Span
<1> HIDE DEF l, J
<1>5. p .. q \subseteq J
  <2> SUFFICES ASSUME NEW x \in p .. q PROVE x \in J
    OBVIOUS
  <2>1. x \in 1 .. l /\ lo <= x
    BY <1>1
  <2> QED BY <1>3, <1>4, <2>1
<1>6. J \subseteq 1 .. l
  BY <1>2, <1>3, <1>4
<1>7. ASSUME NEW x \in J, x < p
      PROVE  t[x].cluster = t[p].cluster /\ x .. p \subseteq J
  <2>1. x \in 1 .. l /\ x \in Cursor!Span(t, p, q) /\ lo <= x /\ x \notin p .. q
    BY <1>1, <1>2, <1>3, <1>6, <1>7
  <2>2. \A r \in x .. p : t[r].cluster = t[x].cluster
    <3>1. CASE Cursor!SameRun(t, x, p)
      BY <3>1 DEF Cursor!SameRun
    <3>2. CASE Cursor!SameRun(t, x, q)
      <4>1. \A r \in x .. p : r \in x .. q
        BY <1>1, <2>1
      <4> QED BY <3>2, <4>1 DEF Cursor!SameRun
    <3> QED BY <1>4, <2>1, <3>1, <3>2
  <2>3. p \in x .. p
    BY <1>1, <1>7, <2>1
  <2>4. ASSUME NEW r \in x .. p
        PROVE  r \in J
    <3>1. r \in 1 .. l /\ r \in Int /\ p \in Int /\ x \in Int /\ lo <= r
      BY <1>1, <2>1
    <3>2. ASSUME NEW s \in (r .. p) \cup (p .. r)
          PROVE  t[s].cluster = t[r].cluster
      <4>1. s \in x .. p
        BY <3>1
      <4> QED BY <2>2, <4>1
    <3>3. Cursor!SameRun(t, r, p)
      <4>1. t[p].cluster = t[r].cluster
        BY <2>2, <2>3
      <4> QED BY <3>2, <4>1 DEF Cursor!SameRun
    <3> QED BY <1>3, <1>4, <2>1, <3>1, <3>3
  <2> QED BY <2>2, <2>3, <2>4
<1>8. ASSUME NEW x \in J, x > q
      PROVE  t[x].cluster = t[p].cluster \/ (t[x].cluster = t[q].cluster /\ q .. x \subseteq J)
  <2>1. x \in 1 .. l
    BY <1>6
  <2>2. CASE x \in S
    BY <1>2, <2>2
  <2>3. CASE Cursor!SameRun(t, x, p)
    <3>1. p \in (x .. p) \cup (p .. x)
      BY <1>1, <1>8, <2>1
    <3> QED BY <2>3, <3>1 DEF Cursor!SameRun
  <2>4. CASE Cursor!SameRun(t, x, q)
    <3>1. \A r \in q .. x : t[r].cluster = t[x].cluster
      BY <2>4 DEF Cursor!SameRun
    <3>2. q \in q .. x
      BY <1>1, <1>8, <2>1
    <3>3. ASSUME NEW r \in q .. x
          PROVE  r \in J
      <4>1. r \in 1 .. l /\ r \in Int /\ q \in Int /\ x \in Int /\ lo <= r
        BY <1>1, <2>1
      <4>2. ASSUME NEW s \in (r .. q) \cup (q .. r)
            PROVE  t[s].cluster = t[r].cluster
        <5>1. s \in q .. x
          BY <4>1
        <5> QED BY <3>1, <5>1
      <4>3. Cursor!SameRun(t, r, q)
        <5>1. t[q].cluster = t[r].cluster
          BY <3>1, <3>2
        <5> QED BY <4>2, <5>1 DEF Cursor!SameRun
      <4> QED BY <1>3, <1>4, <4>1, <4>3
    <3> QED BY <3>1, <3>2, <3>3
  <2>5. x \notin p .. q
    BY <1>1, <1>8, <2>1
  <2> QED BY <1>3, <1>4, <2>2, <2>3, <2>4, <2>5
<1> QED BY <1>5, <1>6, <1>7, <1>8 DEF Reach, J, l

\* The least of a range is the cluster of one of its glyphs.
LEMMA LeastOfRange ==
  ASSUME NEW t, Clustered(t), NEW p, NEW q, Between(t, p, q)
  PROVE  \E z \in p .. q : /\ Cursor!LeastOf(t, p .. q) = t[z].cluster
                           /\ \A r \in p .. q : t[z].cluster <= t[r].cluster
<1>1. /\ t \in Seq(Glyph) /\ p \in 1 .. Len(t) /\ q \in 1 .. Len(t) /\ p <= q /\ p \in p .. q
      /\ \A r \in p .. q : r \in 1 .. Len(t) /\ t[r].cluster \in Nat
  BY DEF Clustered, Between
<1> DEFINE K == {t[r].cluster : r \in p .. q}
<1>2. K # {} /\ K \subseteq Nat
  BY <1>1
<1>3. PICK k \in K : \A j \in K : k <= j
  BY <1>2, LeastExists
<1>4. PICK z \in p .. q : k = t[z].cluster
  OBVIOUS
<1>5. \A r \in p .. q : t[z].cluster <= t[r].cluster
  BY <1>3, <1>4
<1> HIDE DEF K
<1>6. Cursor!LeastOf(t, p .. q) = t[z].cluster
  BY <1>1, <1>5, LeastIs
<1> QED BY <1>5, <1>6

\* A merged text is a text as long as the one before.
LEMMA JoinedIsSeq ==
  ASSUME NEW t, Clustered(t), NEW p, NEW q, Between(t, p, q), NEW J
  PROVE  LET u == Cursor!JoinedAt(t, J, Cursor!LeastOf(t, p .. q))
         IN  Clustered(u) /\ Len(u) = Len(t)
<1> DEFINE k == Cursor!LeastOf(t, p .. q)
           u == Cursor!JoinedAt(t, J, k)
<1>1. t \in Seq(Glyph) /\ Len(t) \in Nat /\ DOMAIN t = 1 .. Len(t) /\ \A x \in 1 .. Len(t) : t[x] \in Glyph
  BY DEF Clustered
<1>2. PICK z \in p .. q : k = t[z].cluster
  BY LeastOfRange
<1>3. z \in 1 .. Len(t)
  BY <1>1, <1>2 DEF Between
<1>4. k \in ClusterValues \cup {0}
  BY <1>1, <1>2, <1>3 DEF Glyph
<1> HIDE DEF k
<1>5. \A x \in 1 .. Len(t) : Cursor!Joined(t[x], k) \in Glyph
  BY <1>1, <1>4 DEF Cursor!Joined, Glyph
<1>6. u \in Seq(Glyph) /\ Len(u) = Len(t)
  <2>1. DOMAIN u = 1 .. Len(t) /\ \A x \in 1 .. Len(t) : u[x] \in Glyph
    BY <1>1, <1>5 DEF Cursor!JoinedAt
  <2>2. u = [x \in 1 .. Len(t) |-> u[x]]
    BY <1>1 DEF Cursor!JoinedAt
  <2> HIDE DEF u
  <2> QED BY <1>1, <2>1, <2>2
<1> HIDE DEF u
<1>7. Clustered(u)
  BY <1>6, SeqClustered
<1> QED BY <1>6, <1>7 DEF u, k

\* Joining the clusters of a range keeps their order and their least.
LEMMA JoinKeeps ==
  ASSUME NEW t, Clustered(t), NEW p, NEW q, Between(t, p, q), NEW J, Reach(t, p, q, J),
         NEW u, Clustered(u), u = Cursor!JoinedAt(t, J, Cursor!LeastOf(t, p .. q))
  PROVE  Keeps(t, u)
<1> DEFINE k == Cursor!LeastOf(t, p .. q)
           l == Len(t)
<1>1. /\ l \in Nat /\ DOMAIN t = 1 .. l /\ p \in 1 .. l /\ q \in 1 .. l /\ p < q
      /\ \A x \in 1 .. l : t[x] \in Glyph /\ t[x].cluster \in Nat
  BY DEF Clustered, Between
<1>2. PICK z \in p .. q : k = t[z].cluster /\ \A r \in p .. q : k <= t[r].cluster
  BY LeastOfRange
<1>3. /\ J \subseteq 1 .. l /\ \A x \in p .. q : x \in J
      /\ \A x \in J : x < p => t[x].cluster = t[p].cluster /\ x .. p \subseteq J
      /\ \A x \in J : x > q =>
           t[x].cluster = t[p].cluster \/ (t[x].cluster = t[q].cluster /\ q .. x \subseteq J)
  BY DEF Reach
<1>4. /\ DOMAIN u = 1 .. l
      /\ \A x \in 1 .. l : u[x].cluster = IF x \in J THEN k ELSE t[x].cluster
  <2>1. DOMAIN u = 1 .. l /\ \A x \in 1 .. l : u[x] = IF x \in J THEN Cursor!Joined(t[x], k) ELSE t[x]
    BY <1>1 DEF Cursor!JoinedAt
  <2> HIDE DEF k, l
  <2>2. \A x \in 1 .. l : Cursor!Joined(t[x], k).cluster = k
    BY <1>1 DEF Cursor!Joined, Glyph
  <2> QED BY <2>1, <2>2
<1> HIDE DEF k, l
<1>5. k \in Nat /\ z \in 1 .. l /\ k = t[z].cluster /\ k <= t[p].cluster /\ k <= t[q].cluster
  BY <1>1, <1>2
<1>6. \A x \in J : k <= t[x].cluster
  <2> TAKE x \in J
  <2>1. CASE x < p
    BY <1>3, <1>5, <2>1
  <2>2. CASE x > q
    BY <1>3, <1>5, <2>2
  <2>3. CASE x \in p .. q
    BY <1>2, <2>3
  <2> QED BY <1>1, <1>3, <2>1, <2>2, <2>3
<1>7. ASSUME Rising(t)
      PROVE  Rising(u)
  <2>0. \A a, b \in 1 .. l : a <= b => t[a].cluster <= t[b].cluster
    BY <1>1, <1>7 DEF Rising
  <2>1. k = t[p].cluster
    BY <1>1, <1>2, <1>5, <2>0
  <2> SUFFICES ASSUME NEW a \in 1 .. l, NEW b \in 1 .. l, a <= b
               PROVE  u[a].cluster <= u[b].cluster
    BY <1>4 DEF Rising
  <2>2. CASE a \in J /\ b \in J
    BY <1>4, <1>5, <2>2
  <2>3. CASE a \notin J /\ b \notin J
    BY <1>4, <2>0, <2>3
  <2>4. CASE a \in J /\ b \notin J
    <3>1. k <= t[b].cluster
      BY <1>1, <1>5, <1>6, <2>0, <2>4
    <3> QED BY <1>4, <2>4, <3>1
  <2>5. CASE a \notin J /\ b \in J
    <3>1. t[a].cluster <= k
      <4>1. CASE a <= p
        BY <1>1, <2>0, <2>1, <4>1
      <4>2. CASE a > p
        <5>1. a > q /\ b > q
          BY <1>1, <1>3, <2>5, <4>2
        <5>2. ~(q .. b \subseteq J)
          <6>1. a \in q .. b
            BY <1>1, <5>1
          <6> QED BY <2>5, <6>1
        <5>3. t[b].cluster = t[p].cluster
          BY <1>3, <2>5, <5>1, <5>2
        <5> QED BY <2>0, <2>1, <5>3
      <4> QED BY <1>1, <4>1, <4>2
    <3> QED BY <1>4, <2>5, <3>1
  <2> QED BY <2>2, <2>3, <2>4, <2>5
<1>8. ASSUME Falling(t)
      PROVE  Falling(u)
  <2>0. \A a, b \in 1 .. l : a <= b => t[a].cluster >= t[b].cluster
    BY <1>1, <1>8 DEF Falling
  <2>1. k = t[q].cluster
    <3>1. t[z].cluster >= t[q].cluster
      BY <1>1, <1>2, <2>0
    <3> QED BY <1>1, <1>5, <3>1
  <2> SUFFICES ASSUME NEW a \in 1 .. l, NEW b \in 1 .. l, a <= b
               PROVE  u[a].cluster >= u[b].cluster
    BY <1>4 DEF Falling
  <2>2. CASE a \in J /\ b \in J
    BY <1>4, <1>5, <2>2
  <2>3. CASE a \notin J /\ b \notin J
    BY <1>4, <2>0, <2>3
  <2>4. CASE a \in J /\ b \notin J
    <3>1. b >= q
      <4>1. CASE b < p
        <5>1. a < p /\ b \in a .. p
          BY <1>1, <4>1
        <5> QED BY <1>3, <2>4, <5>1
      <4>2. b \notin p .. q
        BY <1>3, <2>4
      <4> QED BY <1>1, <4>1, <4>2
    <3>2. k >= t[b].cluster
      BY <1>1, <2>0, <2>1, <3>1
    <3> QED BY <1>4, <2>4, <3>2
  <2>5. CASE a \notin J /\ b \in J
    <3>1. t[a].cluster >= k
      <4>1. CASE a <= q
        BY <1>1, <2>0, <2>1, <4>1
      <4>2. CASE a > q
        <5>1. b > q
          BY <1>1, <4>2
        <5>2. ~(q .. b \subseteq J)
          <6>1. a \in q .. b
            BY <1>1, <4>2
          <6> QED BY <2>5, <6>1
        <5>3. t[b].cluster = t[p].cluster
          BY <1>3, <2>5, <5>1, <5>2
        <5>4. t[a].cluster >= t[p].cluster /\ t[p].cluster >= t[q].cluster
          BY <1>1, <2>0, <5>3
        <5> QED BY <1>1, <2>1, <5>4
      <4> QED BY <1>1, <4>1, <4>2
    <3> QED BY <1>4, <2>5, <3>1
  <2> QED BY <2>2, <2>3, <2>4, <2>5
<1>9. Drawn(t, u)
  BY <1>1, <1>4, <1>5 DEF Drawn
<1>10. Undercut(t, u)
  <2> SUFFICES ASSUME NEW x \in 1 .. l PROVE \E i \in DOMAIN u : u[i].cluster <= t[x].cluster
    BY <1>1 DEF Undercut
  <2>1. u[x].cluster <= t[x].cluster
    BY <1>1, <1>4, <1>6
  <2> QED BY <1>4, <2>1
<1> QED BY <1>7, <1>8, <1>9, <1>10 DEF Keeps

\* ... and so does a merge of the text, whether or not it extends.
LEMMA MergedKeeps ==
  ASSUME NEW t, Clustered(t), NEW p, NEW q, Between(t, p, q), level # "characters"
  PROVE  Clustered(Cursor!Merged(t, p, q)) /\ Keeps(t, Cursor!Merged(t, p, q))
         /\ Len(Cursor!Merged(t, p, q)) = Len(t)
<1> DEFINE J == Joins(t, p, q, 1, {})
           k == Cursor!LeastOf(t, p .. q)
           u == Cursor!JoinedAt(t, J, k)
<1>1. Cursor!Merged(t, p, q) = u
  <2>1. J = Cursor!Span(t, p, q)
    <3>1. \A r \in Cursor!Span(t, p, q) : 1 <= r
      BY DEF Cursor!Span, Clustered
    <3> QED BY <3>1 DEF Joins
  <2>2. p < q /\ ~(p >= q)
    BY DEF Between
  <2> HIDE DEF J
  <2> QED BY <2>1, <2>2 DEF Cursor!Merged
<1>2. Reach(t, p, q, J)
  <2>1. {} \in Stray(t, p) /\ 1 \in 1 .. p
    BY DEF Stray, Between
  <2> QED BY <2>1, SpanReaches
<1> HIDE DEF J
<1>3. Clustered(u) /\ Len(u) = Len(t)
  BY JoinedIsSeq
<1> HIDE DEF u
<1>4. Keeps(t, u)
  BY <1>2, <1>3, JoinKeeps DEF u, k
<1> QED BY <1>1, <1>3, <1>4

-----------------------------------------------------------------------------
(* The edits of a stage keep order and least.                               *)

\* The text before a step is cut into done and todo, and so is the one after.
LEMMA TextCut == BufferInv => Parts(VisibleText, Done, Todo)
BY TextIsView

LEMMA NextTextCut == BufferInv' => Parts(VisibleText', Done', Todo')
<1>1. BufferInv' => Parts(VisibleText, Done, Todo)'
  BY TextCut, PTL
<1> QED BY <1>1 DEF Parts

\* Clusters of a text that was cut.
LEMMA PartClusters ==
  ASSUME NEW v, NEW d, NEW t, Parts(v, d, t)
  PROVE  /\ Clustered(v) /\ v \in Seq(Glyph) /\ Len(v) = Len(d) + Len(t)
         /\ Len(d) \in Nat /\ Len(t) \in Nat /\ d \in Seq(Glyph) /\ t \in Seq(Glyph)
         /\ \A x \in 1 .. Len(d) : d[x] = v[x]
         /\ \A x \in 1 .. Len(t) : t[x] = v[Len(d) + x]
BY SeqClustered DEF Parts

\* The cells of a text whose parts are e and u are those of v but for a splice.
SplicedParts(v, e, u, d, n, m, y) ==
  /\ d \in Nat /\ n \in Nat /\ m \in Nat /\ d + n <= Len(v)
  /\ m > 0 => y \in 1 .. Len(v) /\ d <= y /\ y <= d + n + 1
  /\ Len(e) = d + m /\ Len(u) = Len(v) - d - n
  /\ \A i \in 1 .. d : e[i].cluster = v[i].cluster
  /\ \A i \in 1 .. m : e[d + i].cluster = v[y].cluster
  /\ \A i \in 1 .. Len(v) - d - n : u[i].cluster = v[d + n + i].cluster

LEMMA SplicedIs ==
  ASSUME NEW v, NEW w, NEW e, NEW u, NEW d, NEW n, NEW m, NEW y, Clustered(v), Parts(w, e, u),
         SplicedParts(v, e, u, d, n, m, y), w = <<>> \/ Bounded(v, d, n, m, y)
  PROVE  Keeps(v, w)
<1>1. /\ Clustered(w) /\ Len(w) = Len(e) + Len(u) /\ Len(v) \in Nat
      /\ \A x \in 1 .. Len(e) : e[x] = w[x]
      /\ \A x \in 1 .. Len(u) : u[x] = w[Len(e) + x]
  BY PartClusters DEF Clustered
<1>2. /\ d \in Nat /\ n \in Nat /\ m \in Nat /\ d + n <= Len(v)
      /\ m > 0 => y \in 1 .. Len(v) /\ d <= y /\ y <= d + n + 1
      /\ Len(e) = d + m /\ Len(u) = Len(v) - d - n
      /\ \A i \in 1 .. d : e[i].cluster = v[i].cluster
      /\ \A i \in 1 .. m : e[d + i].cluster = v[y].cluster
      /\ \A i \in 1 .. Len(v) - d - n : u[i].cluster = v[d + n + i].cluster
  BY DEF SplicedParts
<1>3. Len(w) = Len(v) - n + m
  BY <1>1, <1>2
<1>4. ASSUME NEW i \in 1 .. d
      PROVE  w[i].cluster = v[i].cluster
  <2>1. i \in 1 .. Len(e)
    BY <1>2
  <2> QED BY <1>1, <1>2, <2>1
<1>5. ASSUME NEW i \in 1 .. m
      PROVE  w[d + i].cluster = v[y].cluster
  <2>1. d + i \in 1 .. Len(e)
    BY <1>2
  <2> QED BY <1>1, <1>2, <2>1
<1>6. ASSUME NEW i \in 1 .. Len(v) - d - n
      PROVE  w[d + m + i].cluster = v[d + n + i].cluster
  <2>1. i \in 1 .. Len(u) /\ Len(e) + i = d + m + i
    BY <1>2
  <2>2. u[i] = w[d + m + i]
    BY <1>1, <2>1
  <2> QED BY <1>2, <2>2
<1>7. Spliced(v, w, d, n, m, y)
  BY <1>2, <1>3, <1>4, <1>5, <1>6 DEF Spliced
<1> QED BY <1>1, <1>7, SpliceKeeps

\* A glyph written before the cursor, in the cluster of the one at it or of
\* the one before.
LEMMA WrittenKeeps ==
  ASSUME NEW v, NEW w, NEW d, NEW t, NEW g \in Glyph, NEW y, Parts(v, d, t), Parts(w, Append(d, g), t),
         y \in 1 .. Len(v), y \in Len(d) .. Len(d) + 1, g.cluster = v[y].cluster
  PROVE  Keeps(v, w)
<1>1. /\ Clustered(v) /\ Len(v) = Len(d) + Len(t)
      /\ Len(d) \in Nat /\ Len(t) \in Nat /\ d \in Seq(Glyph) /\ t \in Seq(Glyph)
      /\ \A x \in 1 .. Len(d) : d[x] = v[x]
      /\ \A x \in 1 .. Len(t) : t[x] = v[Len(d) + x]
  BY PartClusters
<1> DEFINE e == Append(d, g)
           n == Len(d)
<1>2. Len(e) = n + 1 /\ e[n + 1] = g /\ \A i \in 1 .. n : e[i] = d[i]
  BY <1>1, AppendProperties
<1> HIDE DEF e
<1>3. SplicedParts(v, e, t, n, 0, 1, y)
  <2>1. Len(v) - n - 0 = Len(t) /\ \A i \in 1 .. Len(t) : n + 0 + i = n + i
    BY <1>1
  <2> QED BY <1>1, <1>2, <2>1 DEF SplicedParts
<1>4. Bounded(v, n, 0, 1, y)
  <2>1. n \in Int
    BY <1>1
  <2> HIDE DEF n
  <2>2. n + 1 .. n + 0 = {}
    BY <2>1
  <2> QED BY <2>2 DEF Bounded
<1> HIDE DEF n
<1>5. Parts(w, e, t)
  BY DEF e
<1> QED BY <1>1, <1>3, <1>4, <1>5, SplicedIs

\* A glyph of v other than the one behind n bounds the cluster of that one.
Outlived(v, n) == \E z \in 1 .. Len(v) : z # n + 1 /\ v[z].cluster <= v[n + 1].cluster

\* The glyph at the cursor goes, and its cluster survives or was not least.
LEMMA TailKeeps ==
  ASSUME NEW v, NEW w, NEW d, NEW t, Parts(v, d, t), t # <<>>, Parts(w, d, Tail(t)),
         w = <<>> \/ Outlived(v, Len(d))
  PROVE  Keeps(v, w)
<1>1. /\ Clustered(v) /\ Len(v) = Len(d) + Len(t)
      /\ Len(d) \in Nat /\ Len(t) \in Nat /\ d \in Seq(Glyph) /\ t \in Seq(Glyph)
      /\ \A x \in 1 .. Len(d) : d[x] = v[x]
      /\ \A x \in 1 .. Len(t) : t[x] = v[Len(d) + x]
  BY PartClusters
<1> DEFINE u == Tail(t)
           n == Len(d)
<1>2. Len(u) = Len(t) - 1 /\ \A i \in 1 .. Len(u) : u[i] = t[i + 1]
  BY <1>1, HeadTailProperties
<1>3. Len(t) > 0
  BY <1>1
<1> HIDE DEF u, n
<1>4. n = Len(d) /\ n \in Nat
  BY <1>1 DEF n
<1>5. SplicedParts(v, d, u, n, 1, 0, 1)
  <2>1. ASSUME NEW i \in 1 .. Len(v) - n - 1
        PROVE  u[i].cluster = v[n + 1 + i].cluster
    <3>1. i \in 1 .. Len(u) /\ i + 1 \in 1 .. Len(t) /\ n + (i + 1) = n + 1 + i
      BY <1>1, <1>2, <1>4
    <3> QED BY <1>1, <1>2, <1>4, <3>1
  <2> QED BY <1>1, <1>2, <1>3, <1>4, <2>1 DEF SplicedParts
<1>6. w = <<>> \/ Bounded(v, n, 1, 0, 1)
  <2> SUFFICES ASSUME NEW z \in 1 .. Len(v), z # n + 1, v[z].cluster <= v[n + 1].cluster
               PROVE  Bounded(v, n, 1, 0, 1)
    BY <1>4 DEF Outlived
  <2>1. \A x \in n + 1 .. n + 1 : x = n + 1
    BY <1>4
  <2>2. z <= n \/ z > n + 1
    BY <1>4
  <2> QED BY <2>1, <2>2 DEF Bounded
<1>7. Parts(w, d, u)
  BY DEF u
<1> QED BY <1>1, <1>5, <1>6, <1>7, SplicedIs

\* The two sides of a text cut behind position n.
LEMMA CutCells ==
  ASSUME NEW v \in Seq(Glyph), NEW n \in 0 .. Len(v)
  PROVE  LET a == SubSeq(v, 1, n)
             b == SubSeq(v, n + 1, Len(v))
         IN  /\ a \in Seq(Glyph) /\ Len(a) = n /\ \A i \in 1 .. n : a[i] = v[i]
             /\ b \in Seq(Glyph) /\ Len(b) = Len(v) - n /\ \A i \in 1 .. Len(v) - n : b[i] = v[n + i]
<1> DEFINE l == Len(v)
           a == SubSeq(v, 1, n)
           b == SubSeq(v, n + 1, l)
<1>1. l \in Nat /\ n \in 0 .. l /\ \A i \in 1 .. l : v[i] \in Glyph
  OBVIOUS
<1> HIDE DEF l
<1>2. /\ a \in Seq(Glyph) /\ Len(a) = (IF 1 <= n THEN n - 1 + 1 ELSE 0)
      /\ \A i \in 1 .. n - 1 + 1 : a[i] = v[1 + i - 1]
  <2>1. n \in Int /\ \A i \in 1 .. n : v[i] \in Glyph
    BY <1>1
  <2> QED BY <2>1, SubSeqProperties
<1>3. /\ b \in Seq(Glyph) /\ Len(b) = (IF n + 1 <= l THEN l - (n + 1) + 1 ELSE 0)
      /\ \A i \in 1 .. l - (n + 1) + 1 : b[i] = v[n + 1 + i - 1]
  <2> DEFINE o == n + 1
  <2>1. o \in Int /\ l \in Int /\ \A i \in o .. l : v[i] \in Glyph
    BY <1>1
  <2> HIDE DEF o
  <2>2. /\ SubSeq(v, o, l) \in Seq(Glyph) /\ Len(SubSeq(v, o, l)) = (IF o <= l THEN l - o + 1 ELSE 0)
        /\ \A i \in 1 .. l - o + 1 : SubSeq(v, o, l)[i] = v[o + i - 1]
    BY <2>1, SubSeqProperties
  <2> QED BY <2>2 DEF o
<1> HIDE DEF a, b
<1>4. Len(a) = n /\ Len(b) = l - n
  BY <1>1, <1>2, <1>3
<1>5. ASSUME NEW i \in 1 .. n
      PROVE  a[i] = v[i]
  <2>1. i \in 1 .. n - 1 + 1 /\ 1 + i - 1 = i
    BY <1>1
  <2> QED BY <1>2, <2>1
<1>6. ASSUME NEW i \in 1 .. l - n
      PROVE  b[i] = v[n + i]
  <2>1. i \in 1 .. l - (n + 1) + 1 /\ n + 1 + i - 1 = n + i
    BY <1>1
  <2> QED BY <1>3, <2>1
<1> QED BY <1>2, <1>3, <1>4, <1>5, <1>6 DEF a, b, l

\* A text is what it was cut from.
LEMMA CutIsText ==
  ASSUME NEW v \in Seq(Glyph), NEW n \in 0 .. Len(v), NEW w,
         Parts(w, SubSeq(v, 1, n), SubSeq(v, n + 1, Len(v)))
  PROVE  w = v
<1> DEFINE a == SubSeq(v, 1, n)
           b == SubSeq(v, n + 1, Len(v))
<1>1. /\ a \in Seq(Glyph) /\ Len(a) = n /\ \A i \in 1 .. n : a[i] = v[i]
      /\ b \in Seq(Glyph) /\ Len(b) = Len(v) - n /\ \A i \in 1 .. Len(v) - n : b[i] = v[n + i]
  BY CutCells
<1>2. Parts(w, a, b) /\ Len(v) \in Nat
  OBVIOUS
<1> HIDE DEF a, b
<1>3. /\ w \in Seq(Glyph) /\ Len(w) = Len(v) /\ \A x \in 1 .. Len(a) : a[x] = w[x]
      /\ \A x \in 1 .. Len(b) : b[x] = w[Len(a) + x]
  <2>1. /\ w \in Seq(Glyph) /\ Len(w) = Len(a) + Len(b)
        /\ \A x \in 1 .. Len(a) : a[x] = w[x]
        /\ \A x \in 1 .. Len(b) : b[x] = w[Len(a) + x]
    BY <1>2, PartClusters
  <2> QED BY <1>1, <1>2, <2>1
<1>4. ASSUME NEW x \in 1 .. Len(v)
      PROVE  w[x] = v[x]
  <2>1. CASE x <= n
    BY <1>1, <1>2, <1>3, <2>1
  <2>2. CASE ~(x <= n)
    <3>1. x - n \in 1 .. Len(v) - n /\ n + (x - n) = x
      BY <1>2, <2>2
    <3> QED BY <1>1, <1>3, <3>1, ZenonT(60)
  <2> QED BY <2>1, <2>2
<1> QED BY <1>3, <1>4, SeqEqual, Zenon

\* After a merge of a range its glyphs are one cluster.
LEMMA MergedIsOne ==
  ASSUME NEW v, Clustered(v), NEW p, NEW q, Between(v, p, q), level # "characters"
  PROVE  \A x \in p .. q : Cursor!Merged(v, p, q)[x].cluster = Cursor!LeastOf(v, p .. q)
<1> DEFINE k == Cursor!LeastOf(v, p .. q)
<1>1. /\ DOMAIN v = 1 .. Len(v) /\ p \in 1 .. Len(v) /\ q \in 1 .. Len(v) /\ p < q /\ Len(v) \in Nat
      /\ \A x \in 1 .. Len(v) : v[x] \in Glyph
  BY DEF Clustered, Between
<1>2. ~(p >= q) /\ Cursor!Merged(v, p, q) = Cursor!JoinedAt(v, Cursor!Span(v, p, q), k)
  BY <1>1 DEF Cursor!Merged
<1> HIDE DEF k
<1>3. ASSUME NEW x \in p .. q
      PROVE  Cursor!JoinedAt(v, Cursor!Span(v, p, q), k)[x].cluster = k
  <2>1. x \in 1 .. Len(v)
    BY <1>1
  <2>2. x \in Cursor!Span(v, p, q)
    BY <1>1, <2>1 DEF Cursor!Span
  <2>3. Cursor!JoinedAt(v, Cursor!Span(v, p, q), k)[x] = Cursor!Joined(v[x], k)
    BY <1>1, <2>1, <2>2 DEF Cursor!JoinedAt
  <2>4. Cursor!Joined(v[x], k).cluster = k
    BY <1>1, <2>1 DEF Cursor!Joined, Glyph
  <2> QED BY <2>3, <2>4
<1> QED BY <1>2, <1>3 DEF k

\* What is kept by a step of the text.
StageKeeps == Keeps(VisibleText, VisibleText')

LEMMA SameTextKeeps ==
  ASSUME NEW v, Clustered(v)
  PROVE  Keeps(v, v)
BY SameClustersKeep

LEMMA BeginEndKeep ==
  ASSUME BufferInv, BufferInv', Cursor!Begin \/ Cursor!End \/ Cursor!MoveCursor
  PROVE  StageKeeps
<1>1. Clustered(VisibleText) /\ VisibleText \in Seq(Glyph)
  BY TextCut, PartClusters
<1>2. VisibleText' = VisibleText
  <2>1. CASE Cursor!MoveCursor
    BY <2>1 DEF Cursor!MoveCursor, Cursor!Text, VisibleText
  <2>2. CASE Cursor!Begin \/ Cursor!End
    <3>1. Done' = <<>> /\ Todo' = VisibleText
      BY <2>2 DEF Cursor!Begin, Cursor!End, Cursor!Text, VisibleText
    <3>2. <<>> \o VisibleText = VisibleText
      BY <1>1, ConcatEmptySeq
    <3> QED BY <3>1, <3>2 DEF VisibleText
  <2> QED BY <2>1, <2>2
<1> QED BY <1>1, <1>2, SameTextKeeps DEF StageKeeps

\* The glyph written by a stage comes from a neighbour of the cursor.
LEMMA InsertKeeps ==
  ASSUME BufferInv, BufferInv', Cursor!Duplicate \/ \E cp \in GlyphIds : Cursor!Insert(cp)
  PROVE  StageKeeps
<1> DEFINE n == Len(Done)
           v == VisibleText
<1>1. Parts(v, Done, Todo) /\ Parts(VisibleText', Done', Todo') /\ v = Done \o Todo
  BY TextCut, NextTextCut DEF VisibleText
<1> HIDE DEF v
<1>2. /\ Len(v) = n + Len(Todo) /\ n \in Nat /\ Len(Todo) \in Nat
      /\ Done \in Seq(Glyph) /\ Todo \in Seq(Glyph)
      /\ \A x \in 1 .. n : Done[x] = v[x]
      /\ \A x \in 1 .. Len(Todo) : Todo[x] = v[n + x]
  BY <1>1, PartClusters
<1>3. PICK y \in 1 .. Len(v) : /\ y = IF Todo # <<>> THEN n + 1 ELSE n
                               /\ (IF Todo # <<>> THEN Todo[1] ELSE Done[n]) = v[y]
  <2>1. CASE Todo # <<>>
    <3>1. 1 \in 1 .. Len(Todo) /\ n + 1 \in 1 .. Len(v)
      BY <1>2, <2>1
    <3> QED BY <1>2, <2>1, <3>1
  <2>2. CASE Todo = <<>>
    <3>1. Done \o Todo # <<>>
      BY <2>2 DEF Cursor!Insert, Cursor!Duplicate, Cursor!Text
    <3>2. Len(v) # 0
      <4>1. Done \o <<>> = Done
        BY <1>2, ConcatEmptySeq
      <4> QED BY <1>2, <2>2, <3>1, <4>1
    <3>3. Len(Todo) = 0
      BY <2>2
    <3>4. n \in 1 .. n /\ n \in 1 .. Len(v)
      BY <1>2, <3>2, <3>3
    <3> QED BY <1>2, <2>2, <3>4
  <2> QED BY <2>1, <2>2
<1>4. v[y] \in Glyph
  <2>1. v \in Seq(Glyph)
    BY <1>1, PartClusters
  <2> QED BY <2>1
<1>5. PICK g \in Glyph : Done' = Append(Done, g) /\ Todo' = Todo /\ g.cluster = v[y].cluster
  <2>1. CASE \E cp \in GlyphIds : Cursor!Insert(cp)
    <3>0. PICK cp \in GlyphIds : Cursor!Insert(cp)
      BY <2>1
    <3>1. Done' = Append(Done, [v[y] EXCEPT !.cp = cp]) /\ Todo' = Todo
      BY <1>3, <3>0 DEF Cursor!Insert
    <3>2. cp \in Codepoints
      BY BufferAssumption, TextAssumption
    <3>3. [v[y] EXCEPT !.cp = cp] \in Glyph /\ [v[y] EXCEPT !.cp = cp].cluster = v[y].cluster
      BY <1>4, <3>2 DEF Glyph
    <3> QED BY <3>1, <3>3
  <2>2. CASE Cursor!Duplicate
    BY <1>3, <1>4, <2>2 DEF Cursor!Duplicate
  <2> QED BY <2>1, <2>2
<1>6. y \in n .. n + 1
  BY <1>2, <1>3
<1>7. Parts(VisibleText', Append(Done, g), Todo)
  BY <1>1, <1>5
<1>8. Keeps(v, VisibleText')
  BY <1>1, <1>5, <1>6, <1>7, WrittenKeeps
<1> QED BY <1>8 DEF StageKeeps, v

\* The glyph that goes leaves one of its cluster behind.
LEMMA DropKeeps ==
  ASSUME BufferInv, BufferInv', level # "characters", Cursor!Drop
  PROVE  StageKeeps
<1> DEFINE n == Len(Done)
           v == VisibleText
<1>1. Parts(v, Done, Todo) /\ Parts(VisibleText', Done', Todo')
  BY TextCut, NextTextCut
<1> HIDE DEF v
<1>2. /\ Len(v) = n + Len(Todo) /\ n \in Nat /\ Len(Todo) \in Nat /\ Clustered(v)
      /\ Done \in Seq(Glyph) /\ Todo \in Seq(Glyph)
      /\ \A x \in 1 .. n : Done[x] = v[x]
      /\ \A x \in 1 .. Len(Todo) : Todo[x] = v[n + x]
  BY <1>1, PartClusters
<1>3. /\ Todo # <<>> /\ Done # <<>> /\ Done[n].cluster = Todo[1].cluster
      /\ Done' = Done /\ Todo' = Tail(Todo)
  BY DEF Cursor!Drop
<1>4. n \in 1 .. n /\ 1 \in 1 .. Len(Todo) /\ n \in 1 .. Len(v) /\ n # n + 1
  BY <1>2, <1>3
<1>5. Outlived(v, n)
  <2>1. v[n].cluster = v[n + 1].cluster /\ v[n].cluster \in Nat
    BY <1>2, <1>3, <1>4 DEF Clustered
  <2>2. v[n].cluster <= v[n + 1].cluster
    BY <2>1
  <2> QED BY <1>4, <2>2 DEF Outlived
<1>6. Parts(VisibleText', Done, Tail(Todo))
  BY <1>1, <1>3
<1>7. Keeps(v, VisibleText')
  BY <1>1, <1>3, <1>5, <1>6, TailKeeps
<1> QED BY <1>7 DEF StageKeeps, v

\* The text that replaces n glyphs of v, already merged, by cps.
Substituted(v, d, n, cps, e, u) ==
  /\ e = SubSeq(v, 1, d) \o Cursor!WithCps(v[d + 1], cps)
  /\ u = SubSeq(v, d + n + 1, Len(v))

\* The glyphs of one cluster are replaced by glyphs of that cluster.
LEMMA SubstitutedKeeps ==
  ASSUME NEW v, Clustered(v), NEW d \in Nat, NEW n \in Nat, n > 0, d + n <= Len(v),
         NEW cps \in Seq(Codepoints), cps # <<>>,
         \A x \in d + 1 .. d + n : v[x].cluster = v[d + 1].cluster,
         NEW e, NEW u, Substituted(v, d, n, cps, e, u), NEW w, Parts(w, e, u)
  PROVE  Keeps(v, w)
<1> DEFINE m == Len(cps)
           a == SubSeq(v, 1, d)
           b == Cursor!WithCps(v[d + 1], cps)
<1>1. /\ v \in Seq(Glyph) /\ Len(v) \in Nat /\ m \in Nat /\ m > 0
      /\ \A x \in 1 .. Len(v) : v[x] \in Glyph /\ v[x].cluster \in Nat
  BY DEF Clustered
<1>2. d \in 0 .. Len(v) /\ d + n \in 0 .. Len(v) /\ d + 1 \in 1 .. Len(v)
  BY <1>1
<1>3. /\ a \in Seq(Glyph) /\ Len(a) = d /\ \A i \in 1 .. d : a[i] = v[i]
  BY <1>1, <1>2, CutCells
<1>4. /\ u \in Seq(Glyph) /\ Len(u) = Len(v) - (d + n) /\ \A i \in 1 .. Len(v) - (d + n) : u[i] = v[d + n + i]
  <2> DEFINE o == d + n
  <2>1. o \in 0 .. Len(v)
    BY <1>2
  <2> HIDE DEF o
  <2>2. LET s == SubSeq(v, o + 1, Len(v))
        IN  s \in Seq(Glyph) /\ Len(s) = Len(v) - o /\ \A i \in 1 .. Len(v) - o : s[i] = v[o + i]
    BY <1>1, <2>1, CutCells
  <2> QED BY <2>2 DEF o, Substituted
<1>5. b \in Seq(Glyph) /\ Len(b) = m /\ \A i \in 1 .. m : b[i].cluster = v[d + 1].cluster
  <2> DEFINE g == v[d + 1]
  <2>1. g \in Glyph /\ DOMAIN cps = 1 .. m /\ \A i \in 1 .. m : cps[i] \in Codepoints
    BY <1>1, <1>2
  <2> HIDE DEF g, m
  <2>2. b = [i \in 1 .. m |-> [g EXCEPT !.cp = cps[i]]]
    BY <2>1 DEF Cursor!WithCps, g
  <2>3. \A i \in 1 .. m : [g EXCEPT !.cp = cps[i]] \in Glyph /\ [g EXCEPT !.cp = cps[i]].cluster = g.cluster
    BY <2>1 DEF Glyph
  <2> HIDE DEF b
  <2>4. b \in [1 .. m -> Glyph] /\ \A i \in 1 .. m : b[i].cluster = g.cluster
    BY <2>2, <2>3
  <2>5. m \in Nat
    BY <1>1 DEF m
  <2>6. b \in Seq(Glyph) /\ Len(b) = m
    BY <2>4, <2>5
  <2> QED BY <2>4, <2>6 DEF g, m
<1> HIDE DEF a, b, m
<1>6. e = a \o b
  BY DEF Substituted, a, b
<1>7. /\ Len(e) = d + m
      /\ \A i \in 1 .. d + m : e[i] = IF i <= d THEN a[i] ELSE b[i - d]
  <2>1. /\ Len(a \o b) = Len(a) + Len(b)
        /\ \A i \in 1 .. Len(a) + Len(b) : (a \o b)[i] = IF i <= Len(a) THEN a[i] ELSE b[i - Len(a)]
    BY <1>3, <1>5, ConcatProperties, Zenon
  <2> QED BY <1>3, <1>5, <1>6, <2>1
<1>8. ASSUME NEW i \in 1 .. d
      PROVE  e[i].cluster = v[i].cluster
  <2>1. i \in 1 .. d + m /\ i <= d
    BY <1>1
  <2> QED BY <1>3, <1>7, <2>1
<1>9. ASSUME NEW i \in 1 .. m
      PROVE  e[d + i].cluster = v[d + 1].cluster
  <2>1. d + i \in 1 .. d + m /\ ~(d + i <= d) /\ d + i - d = i
    BY <1>1
  <2> QED BY <1>5, <1>7, <2>1
<1>10. ASSUME NEW i \in 1 .. Len(v) - d - n
       PROVE  u[i].cluster = v[d + n + i].cluster
  <2>1. i \in 1 .. Len(v) - (d + n)
    BY <1>1
  <2> QED BY <1>4, <2>1
<1>11. SplicedParts(v, e, u, d, n, m, d + 1)
  <2>1. Len(u) = Len(v) - d - n
    BY <1>1, <1>4
  <2>2. d <= d + 1 /\ d + 1 <= d + n + 1
    OBVIOUS
  <2> QED BY <1>1, <1>2, <1>7, <1>8, <1>9, <1>10, <2>1, <2>2 DEF SplicedParts
<1>12. Bounded(v, d, n, m, d + 1)
  <2> SUFFICES ASSUME NEW x \in d + 1 .. d + n
               PROVE  \E z \in 1 .. Len(v) : (z <= d \/ z > d + n \/ (m > 0 /\ z = d + 1)) /\ v[z].cluster <= v[x].cluster
    BY DEF Bounded
  <2>1. v[d + 1].cluster <= v[x].cluster
    BY <1>1, <1>2
  <2> QED BY <1>1, <1>2, <2>1
<1> QED BY <1>11, <1>12, SplicedIs

\* A substitution merges what it reads and replaces it within that cluster.
LEMMA ReplaceKeeps ==
  ASSUME BufferInv, BufferInv', level # "characters", NEW n \in DOMAIN Todo,
         NEW cps \in Seq(Codepoints), cps # <<>>, Cursor!Replace(n, cps)
  PROVE  StageKeeps
<1> DEFINE d == Len(Done)
           v == VisibleText
           M == Cursor!Merged(v, d + 1, d + n)
           e == Done'
           u == Todo'
           w == VisibleText'
<1>1. Parts(v, Done, Todo) /\ Parts(w, e, u) /\ Cursor!Text = v
  BY TextCut, NextTextCut DEF VisibleText, Cursor!Text
<1>2. Substituted(M, d, n, cps, e, u)
  BY <1>1 DEF Cursor!Replace, Substituted
<1> HIDE DEF v, M, w, e, u
<1>3. /\ Len(v) = d + Len(Todo) /\ d \in Nat /\ Len(Todo) \in Nat /\ Clustered(v) /\ v \in Seq(Glyph)
      /\ Todo \in Seq(Glyph)
  BY <1>1, PartClusters
<1>4. n \in 1 .. Len(Todo)
  BY <1>3
<1>5. n \in Nat /\ n > 0 /\ d + n <= Len(v)
  BY <1>3, <1>4
<1>6. /\ Clustered(M) /\ Keeps(v, M) /\ Len(M) = Len(v)
      /\ \A x \in d + 1 .. d + n : M[x].cluster = M[d + 1].cluster
  <2>1. CASE n = 1
    <3>1. M = v
      BY <1>3, <2>1 DEF Cursor!Merged, M
    <3>2. Keeps(v, v)
      BY <1>3, SameTextKeeps
    <3>3. \A x \in d + 1 .. d + n : x = d + 1
      BY <1>3, <2>1
    <3> QED BY <1>3, <3>1, <3>2, <3>3
  <2>2. CASE n > 1
    <3> DEFINE p == d + 1
               q == d + n
    <3>1. Between(v, p, q) /\ p \in p .. q
      BY <1>3, <1>5, <2>2 DEF Between
    <3> HIDE DEF p, q
    <3>2. M = Cursor!Merged(v, p, q)
      BY DEF M, p, q
    <3>3. Clustered(M) /\ Keeps(v, M) /\ Len(M) = Len(v)
      BY <1>3, <3>1, <3>2, MergedKeeps
    <3>4. \A x \in p .. q : M[x].cluster = Cursor!LeastOf(v, p .. q)
      BY <1>3, <3>1, <3>2, MergedIsOne
    <3>5. \A x \in p .. q : M[x].cluster = M[p].cluster
      BY <3>1, <3>4
    <3> QED BY <3>3, <3>5 DEF p, q
  <2> QED BY <1>5, <2>1, <2>2
<1>7. Keeps(M, w)
  <2> HIDE DEF d
  <2> QED BY <1>1, <1>2, <1>3, <1>5, <1>6, SubstitutedKeeps
<1>8. Clustered(w)
  BY <1>1, PartClusters
<1>9. Keeps(v, w)
  BY <1>3, <1>6, <1>7, <1>8, KeepsTrans
<1> QED BY <1>9 DEF StageKeeps, v, w

\* The run of one cluster that ends the text before the cursor is an interval.
LEMMA RunIsInterval ==
  ASSUME NEW t \in Seq(Glyph), NEW d \in 1 .. Len(t)
  PROVE  \E s \in 1 .. d :
           /\ \A r \in s .. d : t[r].cluster = t[d].cluster
           /\ \A r \in 1 .. d : Cursor!SameRun(t, r, d) <=> s <= r
<1>1. d \in Nat /\ Len(t) \in Nat
  OBVIOUS
<1> DEFINE K == {s \in 1 .. d : Cursor!SameRun(t, s, d)}
<1>2. d \in K
  BY <1>1 DEF Cursor!SameRun
<1>3. K \subseteq Nat /\ K # {}
  BY <1>2
<1>4. PICK s \in K : \A r \in K : s <= r
  <2> HIDE DEF K
  <2> QED BY <1>3, LeastExists
<1>5. s \in 1 .. d /\ Cursor!SameRun(t, s, d)
  OBVIOUS
<1>6. \A r \in s .. d : t[r].cluster = t[s].cluster
  BY <1>5 DEF Cursor!SameRun
<1>7. d \in s .. d
  BY <1>1, <1>5
<1>8. \A r \in s .. d : t[r].cluster = t[d].cluster
  BY <1>6, <1>7
<1>9. ASSUME NEW r \in 1 .. d
      PROVE  Cursor!SameRun(t, r, d) <=> s <= r
  <2>1. ASSUME s <= r PROVE Cursor!SameRun(t, r, d)
    <3>1. \A x \in (r .. d) \cup (d .. r) : x \in s .. d
      BY <1>1, <1>5, <2>1
    <3>2. r \in s .. d
      BY <1>1, <1>5, <2>1
    <3> QED BY <1>8, <3>1, <3>2 DEF Cursor!SameRun
  <2>2. ASSUME Cursor!SameRun(t, r, d) PROVE s <= r
    BY <1>4, <2>2
  <2> QED BY <2>1, <2>2
<1> QED BY <1>5, <1>8, <1>9

\* done takes over cluster k on the run of its last glyph.
LoweredBy(d, e, k) ==
  /\ Len(e) = Len(d)
  /\ \A r \in 1 .. Len(d) :
       e[r].cluster = IF Cursor!SameRun(d, r, Len(d)) THEN k ELSE d[r].cluster

\* The glyph at the cursor goes, and its lower cluster goes to the glyphs behind.
LEMMA LoweredKeeps ==
  ASSUME NEW v, NEW w, NEW d, NEW t, NEW e, NEW u, Parts(v, d, t), Parts(w, e, u), d # <<>>, t # <<>>, u = Tail(t),
         LoweredBy(d, e, t[1].cluster), t[1].cluster < d[Len(d)].cluster
  PROVE  Keeps(v, w)
<1> DEFINE n == Len(d)
<1>1. /\ Clustered(v) /\ Len(v) = n + Len(t)
      /\ n \in Nat /\ Len(t) \in Nat /\ d \in Seq(Glyph) /\ t \in Seq(Glyph)
      /\ \A x \in 1 .. n : d[x] = v[x]
      /\ \A x \in 1 .. Len(t) : t[x] = v[n + x]
  BY PartClusters
<1>2. Len(u) = Len(t) - 1 /\ \A i \in 1 .. Len(u) : u[i] = t[i + 1]
  BY <1>1, HeadTailProperties
<1>3. n > 0 /\ Len(t) > 0
  BY <1>1
<1>4. n \in 1 .. Len(d) /\ 1 \in 1 .. Len(t)
  BY <1>1, <1>3
<1>5. PICK s \in 1 .. n :
           /\ \A r \in s .. n : d[r].cluster = d[n].cluster
           /\ \A r \in 1 .. n : Cursor!SameRun(d, r, n) <=> s <= r
  BY <1>1, <1>4, RunIsInterval
<1>6. Len(e) = n /\ \A r \in 1 .. n : e[r].cluster = IF s <= r THEN t[1].cluster ELSE d[r].cluster
  BY <1>5 DEF LoweredBy
<1>7. t[1].cluster < d[n].cluster
  OBVIOUS
<1> HIDE DEF n
<1> DEFINE c == s - 1
           m == n - s + 1
           y == n + 1
<1>8. /\ c \in Nat /\ m \in Nat /\ m > 0 /\ m + 1 \in Nat /\ y \in 1 .. Len(v) /\ c + (m + 1) = y
      /\ c + m = n /\ c < s /\ c + (m + 1) <= Len(v) /\ s = c + 1
      /\ Len(v) - c - (m + 1) = Len(t) - 1
  BY <1>1, <1>3
<1>9. t[1] = v[y]
  BY <1>1, <1>4
<1> HIDE DEF c, m, y
<1>10. ASSUME NEW i \in 1 .. c
       PROVE  e[i].cluster = v[i].cluster
  <2>1. i \in 1 .. n /\ ~(s <= i)
    BY <1>1, <1>8
  <2> QED BY <1>1, <1>6, <2>1
<1>11. ASSUME NEW i \in 1 .. m
       PROVE  e[c + i].cluster = v[y].cluster
  <2>1. c + i \in 1 .. n /\ s <= c + i
    BY <1>1, <1>8
  <2> QED BY <1>6, <1>9, <2>1
<1>12. ASSUME NEW i \in 1 .. Len(v) - c - (m + 1)
       PROVE  u[i].cluster = v[c + (m + 1) + i].cluster
  <2>1. i \in 1 .. Len(u) /\ i + 1 \in 1 .. Len(t) /\ n + (i + 1) = c + (m + 1) + i
    BY <1>1, <1>2, <1>8
  <2> QED BY <1>1, <1>2, <2>1
<1>13. SplicedParts(v, e, u, c, m + 1, m, y)
  <2>1. c <= y /\ y <= c + (m + 1) + 1
    BY <1>1, <1>8, SMTT(30)
  <2>2. Len(e) = c + m /\ Len(u) = Len(v) - c - (m + 1)
    BY <1>2, <1>6, <1>8
  <2> QED BY <1>8, <1>10, <1>11, <1>12, <2>1, <2>2 DEF SplicedParts
<1>14. Bounded(v, c, m + 1, m, y)
  <2> SUFFICES ASSUME NEW x \in c + 1 .. c + (m + 1)
               PROVE  v[y].cluster <= v[x].cluster
    BY <1>8 DEF Bounded
  <2>1. \A z \in 1 .. Len(v) : v[z].cluster \in Nat
    BY <1>1 DEF Clustered
  <2>2. CASE x = y
    BY <1>8, <2>1, <2>2, SMTT(30)
  <2>3. CASE x # y
    <3>1. x \in s .. n /\ x \in 1 .. n /\ x \in 1 .. Len(v) /\ n \in 1 .. n /\ n \in 1 .. Len(v)
      BY <1>1, <1>3, <1>8, <2>3
    <3>2. v[x].cluster = d[n].cluster
      BY <1>1, <1>5, <3>1
    <3>3. v[y].cluster < v[x].cluster
      BY <1>7, <1>9, <3>2
    <3> QED BY <1>8, <2>1, <3>1, <3>3
  <2> QED BY <2>2, <2>3
<1> QED BY <1>1, <1>8, <1>13, <1>14, SplicedIs

\* done with the cluster and the flag of g on the run of its last glyph.
Lowered(d, g) ==
  LET run == {r \in 1 .. Len(d) : Cursor!SameRun(d, r, Len(d))}
  IN  [r \in DOMAIN d |->
         IF r \in run THEN [d[r] EXCEPT !.cluster = g.cluster, !.unsafe = g.unsafe] ELSE d[r]]

LEMMA LoweredIs ==
  ASSUME NEW d \in Seq(Glyph), NEW g
  PROVE  LoweredBy(d, Lowered(d, g), g.cluster)
<1>1. /\ Len(d) \in Nat /\ DOMAIN d = 1 .. Len(d) /\ \A r \in 1 .. Len(d) : d[r] \in Glyph
  OBVIOUS
<1> DEFINE e == Lowered(d, g)
<1>2. /\ DOMAIN e = 1 .. Len(d)
      /\ \A r \in 1 .. Len(d) :
           e[r] = IF Cursor!SameRun(d, r, Len(d))
                  THEN [d[r] EXCEPT !.cluster = g.cluster, !.unsafe = g.unsafe] ELSE d[r]
  BY <1>1 DEF Lowered
<1>3. e = [r \in 1 .. Len(d) |-> e[r]]
  BY <1>1 DEF Lowered
<1> HIDE DEF e
<1>4. Len(e) = Len(d)
  BY <1>1, <1>3
<1>5. ASSUME NEW r \in 1 .. Len(d)
      PROVE  [d[r] EXCEPT !.cluster = g.cluster, !.unsafe = g.unsafe].cluster = g.cluster
  BY <1>1 DEF Glyph
<1>6. LoweredBy(d, e, g.cluster)
  BY <1>2, <1>4, <1>5 DEF LoweredBy
<1> QED BY <1>6 DEF e

\* A deletion: the cluster survives in the glyph that follows, in those
\* before, or was larger than another.
LEMMA DeleteKeeps ==
  ASSUME BufferInv, BufferInv', level # "characters", Cursor!Delete
  PROVE  StageKeeps
<1> DEFINE d == Done
           t == Todo
           e == Done'
           u == Todo'
           v == VisibleText
           w == VisibleText'
           n == Len(d)
           g == t[1]
           survives == Len(t) > 1 /\ t[2].cluster = g.cluster
           lower == g.cluster < d[n].cluster
<1>1. Parts(v, d, t) /\ Parts(w, e, u) /\ v = d \o t
  BY TextCut, NextTextCut DEF VisibleText
<1>2. t # <<>>
  BY DEF Cursor!Delete
<1>20. e = IF ~survives /\ n > 0 /\ lower THEN Lowered(d, g) ELSE d
  BY DEF Cursor!Delete, Lowered
<1>21. u = IF ~survives /\ n = 0 /\ Len(t) > 1 THEN Tail(Cursor!Merged(t, 1, 2)) ELSE Tail(t)
  BY DEF Cursor!Delete
<1>10. SUFFICES Keeps(v, w)
  BY DEF StageKeeps
<1> HIDE DEF d, t, e, u, v, w
<1>3. /\ Clustered(v) /\ Len(v) = n + Len(t) /\ v \in Seq(Glyph)
      /\ n \in Nat /\ Len(t) \in Nat /\ d \in Seq(Glyph) /\ t \in Seq(Glyph)
      /\ \A x \in 1 .. n : d[x] = v[x]
      /\ \A x \in 1 .. Len(t) : t[x] = v[n + x]
  BY <1>1, PartClusters
<1>4. /\ Len(t) > 0 /\ 1 \in 1 .. Len(t) /\ n + 1 \in 1 .. Len(v) 
      /\ \A x \in 1 .. Len(v) : v[x].cluster \in Nat
  <2>1. \A x \in 1 .. Len(v) : v[x].cluster \in Nat
    BY <1>3 DEF Clustered
  <2>2. Len(t) > 0
    BY <1>2, <1>3
  <2>3. 1 \in 1 .. Len(t) /\ n + 1 \in 1 .. Len(v)
    BY <1>3, <2>2
  <2> QED BY <2>1, <2>2, <2>3
<1>22. g = v[n + 1]
  BY <1>3, <1>4
<1>5. CASE survives
  <2>1. e = d /\ u = Tail(t)
    BY <1>5, <1>20, <1>21
  <2>2. 2 \in 1 .. Len(t) /\ n + 2 \in 1 .. Len(v) /\ n + 2 # n + 1
    BY <1>3, <1>5
  <2>3. v[n + 2].cluster <= v[n + 1].cluster
    BY <1>3, <1>4, <1>5, <1>22, <2>2
  <2>4. Outlived(v, n)
    BY <2>2, <2>3 DEF Outlived
  <2> HIDE DEF survives, lower, g
  <2>5. Parts(w, d, Tail(t))
    BY <1>1, <2>1
  <2> QED BY <1>1, <1>2, <2>4, <2>5, TailKeeps
<1>6. CASE ~survives /\ n > 0 /\ lower
  <2>1. e = Lowered(d, g) /\ u = Tail(t)
    BY <1>3, <1>6, <1>20, <1>21
  <2>2. LoweredBy(d, e, g.cluster)
    BY <1>3, <2>1, LoweredIs
  <2>3. d # <<>> /\ g.cluster < d[n].cluster
    BY <1>6
  <2> HIDE DEF survives, lower
  <2> QED BY <1>1, <1>2, <2>1, <2>2, <2>3, LoweredKeeps
<1>7. CASE ~survives /\ n > 0 /\ ~lower
  <2>1. e = d /\ u = Tail(t)
    BY <1>3, <1>7, <1>20, <1>21
  <2>2. n \in 1 .. n /\ n \in 1 .. Len(v) /\ n # n + 1
    BY <1>3, <1>7
  <2>3. v[n].cluster <= v[n + 1].cluster
    <3>1. d[n] = v[n] /\ v[n].cluster \in Nat /\ v[n + 1].cluster \in Nat
      BY <1>3, <1>4, <2>2
    <3>2. ~(v[n + 1].cluster < v[n].cluster)
      BY <1>7, <1>22, <3>1
    <3> QED BY <3>1, <3>2
  <2>4. Outlived(v, n)
    BY <2>2, <2>3 DEF Outlived
  <2> HIDE DEF survives, lower, g
  <2>5. Parts(w, d, Tail(t))
    BY <1>1, <2>1
  <2> QED BY <1>1, <1>2, <2>4, <2>5, TailKeeps
<1>8. CASE ~survives /\ n = 0 /\ Len(t) > 1
  <2> DEFINE M == Cursor!Merged(t, 1, 2)
  <2>1. e = d /\ u = Tail(M) /\ d = <<>>
    BY <1>3, <1>8, <1>20, <1>21
  <2>2. v = t
    BY <1>1, <1>3, <2>1, ConcatEmptySeq
  <2>3. Clustered(t) /\ Between(t, 1, 2)
    BY <1>3, <1>8, <2>2 DEF Between
  <2>4. Clustered(M) /\ Keeps(t, M) /\ Len(M) = Len(t)
    BY <2>3, MergedKeeps
  <2>5. \A x \in 1 .. 2 : M[x].cluster = Cursor!LeastOf(t, 1 .. 2)
    <3> DEFINE p == 1
               q == 2
    <3>1. Between(t, p, q)
      BY <2>3
    <3> HIDE DEF M, p, q
    <3>2. \A x \in p .. q : Cursor!Merged(t, p, q)[x].cluster = Cursor!LeastOf(t, p .. q)
      BY <2>3, <3>1, MergedIsOne
    <3> QED BY <3>2 DEF M, p, q
  <2> HIDE DEF M
  <2>6. M \in Seq(Glyph) /\ Len(M) > 1 /\ M # <<>> /\ Tail(M) \in Seq(Glyph)
    BY <1>3, <1>8, <2>4 DEF Clustered
  <2>7. Parts(M, <<>>, M)
    BY <2>6 DEF Parts
  <2>8. Outlived(M, 0)
    <3>1. 2 \in 1 .. Len(M) /\ 2 # 0 + 1 /\ M[2].cluster = M[0 + 1].cluster /\ M[2].cluster \in Nat
      BY <1>3, <1>8, <2>4, <2>5 DEF Clustered
    <3>2. M[2].cluster <= M[0 + 1].cluster
      BY <3>1
    <3> QED BY <3>1, <3>2 DEF Outlived
  <2>9. Parts(w, <<>>, Tail(M)) /\ Len(<<>>) = 0
    BY <1>1, <2>1
  <2>10. Keeps(M, w)
    BY <2>6, <2>7, <2>8, <2>9, TailKeeps
  <2>11. Clustered(w)
    BY <1>1, PartClusters
  <2>12. Keeps(t, w)
    BY <2>3, <2>4, <2>10, <2>11, KeepsTrans
  <2> QED BY <2>2, <2>12
<1>9. CASE ~survives /\ n = 0 /\ ~(Len(t) > 1)
  <2>1. e = d /\ u = Tail(t)
    BY <1>3, <1>9, <1>20, <1>21
  <2>2. w = <<>>
    <3>1. Len(u) = 0
      BY <1>2, <1>3, <1>4, <1>9, <2>1, HeadTailProperties
    <3>2. Len(w) = 0 /\ w \in Seq(Glyph)
      <4>1. Len(w) = Len(e) + Len(u) /\ w \in Seq(Glyph)
        BY <1>1, PartClusters
      <4> QED BY <1>9, <2>1, <3>1, <4>1
    <3> QED BY <3>2
  <2> HIDE DEF survives, lower, g
  <2>3. Parts(w, d, Tail(t))
    BY <1>1, <2>1
  <2> QED BY <1>1, <1>2, <2>2, <2>3, TailKeeps
<1> HIDE DEF survives, lower
<1> QED BY <1>3, <1>5, <1>6, <1>7, <1>8, <1>9

\* The text rewritten in place is what the rewriting says.
LEMMA RewriteText ==
  ASSUME BufferInv, BufferInv', NEW v \in Seq(Glyph), Len(v) = Len(VisibleText), Cursor!Rewrite(v)
  PROVE  VisibleText' = v
<1>1. Parts(VisibleText, Done, Todo) /\ Parts(VisibleText', Done', Todo')
  BY TextCut, NextTextCut
<1>2. Len(VisibleText) = Len(Done) + Len(Todo) /\ Len(Done) \in Nat /\ Len(Todo) \in Nat
  BY <1>1, PartClusters
<1> DEFINE n == Len(Done)
           w == VisibleText'
<1>3. n \in 0 .. Len(v) /\ Done' = SubSeq(v, 1, n) /\ Todo' = SubSeq(v, n + 1, Len(v))
  BY <1>2 DEF Cursor!Rewrite, Cursor!CutAt
<1>4. Parts(w, SubSeq(v, 1, n), SubSeq(v, n + 1, Len(v)))
  BY <1>1, <1>3
<1> HIDE DEF n, w
<1>5. w = v
  BY <1>3, <1>4, CutIsText
<1> QED BY <1>5 DEF w

\* Flagging changes no cluster.
LEMMA FlaggedKeeps ==
  ASSUME NEW v, Clustered(v), NEW p, NEW q
  PROVE  /\ Cursor!Flagged(v, p, q) \in Seq(Glyph) /\ Len(Cursor!Flagged(v, p, q)) = Len(v)
         /\ Keeps(v, Cursor!Flagged(v, p, q))
<1> DEFINE u == Cursor!Flagged(v, p, q)
           l == Len(v)
<1>1. v \in Seq(Glyph) /\ l \in Nat /\ DOMAIN v = 1 .. l /\ \A x \in 1 .. l : v[x] \in Glyph
  BY DEF Clustered
<1>2. \A x \in 1 .. l : LET g == [v[x] EXCEPT !.unsafe = TRUE]
                        IN  g \in Glyph /\ g.cluster = v[x].cluster
  BY <1>1 DEF Glyph
<1> HIDE DEF l
<1>3. u \in [1 .. l -> Glyph] /\ \A x \in 1 .. l : u[x].cluster = v[x].cluster
  BY <1>1, <1>2 DEF Cursor!Flagged
<1> HIDE DEF u
<1>4. u \in Seq(Glyph) /\ Len(u) = l /\ DOMAIN u = 1 .. l
  BY <1>1, <1>3
<1>5. Clustered(u)
  BY <1>4, SeqClustered
<1>6. DOMAIN u = DOMAIN v /\ \A x \in DOMAIN v : u[x].cluster = v[x].cluster
  BY <1>1, <1>3, <1>4
<1>7. Keeps(v, u)
  BY <1>5, <1>6, SameClustersKeep
<1> QED BY <1>4, <1>7 DEF u, l

\* A merge, whatever it may reach, and a flagging of two positions.
LEMMA RangeKeeps ==
  ASSUME BufferInv, BufferInv', level # "characters",
         NEW p, NEW q, Between(VisibleText, p, q),
         Cursor!Merge(p, q) \/ Cursor!Flag(p, q) \/ Cursor!MergeSome(p, q)
  PROVE  StageKeeps
<1> DEFINE v == VisibleText
<1>1. Clustered(v) /\ v \in Seq(Glyph) /\ Cursor!Text = v /\ DOMAIN v = 1 .. Len(v)
  <2>1. Cursor!Text = v
    BY DEF Cursor!Text, VisibleText
  <2>2. Clustered(v) /\ v \in Seq(Glyph)
    BY TextCut, PartClusters
  <2> QED BY <2>1, <2>2 DEF Clustered
<1>2. CASE Cursor!Flag(p, q)
  <2> DEFINE u == Cursor!Flagged(v, p, q)
  <2>1. u \in Seq(Glyph) /\ Len(u) = Len(v) /\ Keeps(v, u)
    BY <1>1, FlaggedKeeps
  <2>2. Cursor!Rewrite(u)
    BY <1>1, <1>2 DEF Cursor!Flag
  <2> HIDE DEF u
  <2>3. VisibleText' = u
    BY <2>1, <2>2, RewriteText
  <2> QED BY <2>1, <2>3 DEF StageKeeps
<1>3. CASE Cursor!Merge(p, q)
  <2> DEFINE u == Cursor!Merged(v, p, q)
  <2>1. Clustered(u) /\ Len(u) = Len(v) /\ Keeps(v, u)
    BY <1>1, MergedKeeps
  <2>2. Cursor!Rewrite(u)
    BY <1>1, <1>3 DEF Cursor!Merge
  <2> HIDE DEF u
  <2>3. VisibleText' = u
    BY <2>1, <2>2, RewriteText DEF Clustered
  <2> QED BY <2>1, <2>3 DEF StageKeeps
<1>4. CASE Cursor!MergeSome(p, q)
  <2>1. PICK lo \in 1 .. p, S \in Stray(v, p) :
          Cursor!Rewrite(Cursor!JoinedAt(v, Joins(v, p, q, lo, S), Cursor!LeastOf(v, p .. q)))
    BY <1>1, <1>4 DEF Cursor!MergeSome, Joins, Stray
  <2> DEFINE J == Joins(v, p, q, lo, S)
             u == Cursor!JoinedAt(v, J, Cursor!LeastOf(v, p .. q))
  <2>2. Reach(v, p, q, J)
    BY <1>1, SpanReaches
  <2> HIDE DEF J
  <2>3. Clustered(u) /\ Len(u) = Len(v)
    BY <1>1, JoinedIsSeq
  <2>4. Cursor!Rewrite(u)
    BY <2>1 DEF J
  <2> HIDE DEF u
  <2>5. Keeps(v, u)
    BY <1>1, <2>2, <2>3, JoinKeeps DEF u
  <2>6. VisibleText' = u
    BY <2>3, <2>4, RewriteText DEF Clustered
  <2> QED BY <2>5, <2>6 DEF StageKeeps
<1> QED BY <1>2, <1>3, <1>4

\* No edit breaks the order of the clusters or loses the least.
LEMMA EditKeeps ==
  ASSUME BufferInv, BufferInv', level # "characters", Cursor!EditStep
  PROVE  StageKeeps
<1>1. /\ \A cps \in Replacements : cps \in Seq(Codepoints) /\ cps # <<>>
      /\ \A cp \in GlyphIds : <<cp>> \in Seq(Codepoints) /\ <<cp>> # <<>>
  BY BufferAssumption, TextAssumption
<1>2. CASE Cursor!Begin \/ Cursor!End \/ Cursor!MoveCursor
  BY <1>2, BeginEndKeep
<1>3. CASE Cursor!Duplicate
  BY <1>3, InsertKeeps
<1>4. CASE Cursor!Drop
  BY <1>4, DropKeeps
<1>5. CASE Cursor!Delete
  BY <1>5, DeleteKeeps
<1>6. CASE \E n \in DOMAIN Todo, cps \in Replacements : Cursor!Replace(n, cps)
  BY <1>1, <1>6, ReplaceKeeps
<1>7. CASE \E cp \in GlyphIds : Cursor!Insert(cp)
  BY <1>7, InsertKeeps
<1>8. CASE \E cp \in GlyphIds : Todo # <<>> /\ Cursor!Replace(1, <<cp>>)
  <2>1. PICK cp \in GlyphIds : Todo # <<>> /\ Cursor!Replace(1, <<cp>>)
    BY <1>8
  <2>2. 1 \in DOMAIN Todo
    <3>1. Todo \in Seq(Glyph)
      BY TextCut, PartClusters
    <3> QED BY <2>1, <3>1
  <2> QED BY <1>1, <2>1, <2>2, ReplaceKeeps
<1>9. CASE \E p, q \in DOMAIN Cursor!Text :
             p < q /\ (Cursor!Merge(p, q) \/ Cursor!Flag(p, q) \/ Cursor!MergeSome(p, q))
  <2>1. DOMAIN Cursor!Text = 1 .. Len(VisibleText)
    <3>1. Cursor!Text = VisibleText
      BY DEF Cursor!Text, VisibleText
    <3>2. Clustered(VisibleText)
      BY TextCut, PartClusters
    <3> QED BY <3>1, <3>2 DEF Clustered
  <2> QED BY <1>9, <2>1, RangeKeeps DEF Between
<1> QED BY <1>2, <1>3, <1>4, <1>5, <1>6, <1>7, <1>8, <1>9 DEF Cursor!EditStep

LEMMA StageStepKeeps ==
  ASSUME BufferInv, BufferInv', Stage, level # "characters", successful'
  PROVE  StageKeeps
<1>1. Clustered(VisibleText)
  BY TextCut, PartClusters
<1>2. CASE Cursor!EditStep
  BY <1>2, EditKeeps
<1>3. CASE UNCHANGED Cursor!cursorVars
  <2>1. VisibleText' = VisibleText
    BY <1>3 DEF Cursor!cursorVars, VisibleText
  <2> QED BY <1>1, <2>1, SameTextKeeps DEF StageKeeps
<1>4. ~Cursor!RunOut /\ ~Cursor!Broken
  BY DEF Cursor!RunOut, Cursor!Broken
<1> QED BY <1>2, <1>3, <1>4, StageStaged DEF Staged

\* At the levels that keep clusters monotone no step of a stage, be it a
\* substitution, a ligature, a deletion or a merge from either side of the
\* cursor, breaks their order (ClustersStayMonotone).
THEOREM MonotoneClusters == Spec => ClustersStayMonotone
<1>1. Spec => []BufferInv
  BY BufferSafe
<1> DEFINE Kept == level # "characters" /\ successful' /\ MonotoneText(VisibleText)
                     => MonotoneText(VisibleText)' \/ ~Stage
<1>2. BufferInv /\ BufferInv' /\ [Next]_vars => [Kept]_vars
  <2> SUFFICES ASSUME BufferInv, BufferInv', level # "characters", successful', MonotoneText(VisibleText), Stage
               PROVE  MonotoneText(VisibleText)'
    OBVIOUS
  <2>1. Keeps(VisibleText, VisibleText')
    BY StageStepKeeps DEF StageKeeps
  <2>2. Rising(VisibleText) \/ Falling(VisibleText)
    BY DEF MonotoneText, Rising, Falling
  <2>3. Rising(VisibleText') \/ Falling(VisibleText')
    BY <2>1, <2>2 DEF Keeps
  <2> QED BY <2>3 DEF MonotoneText, Rising, Falling
<1> QED BY <1>1, <1>2, PTL DEF Spec, ClustersStayMonotone

\* The least clusters of two texts that have the clusters in question.
LEMMA LeastKept ==
  ASSUME NEW v, NEW w, Clustered(v), Clustered(w), Keeps(v, w), w # <<>>
  PROVE  Least({w[p].cluster : p \in DOMAIN w}) = Least({v[p].cluster : p \in DOMAIN v})
<1> DEFINE A == {v[p].cluster : p \in DOMAIN v}
           B == {w[p].cluster : p \in DOMAIN w}
<1>1. A \subseteq Nat /\ B \subseteq Nat
  BY DEF Clustered
<1>2. B # {}
  <2>1. 1 \in DOMAIN w
    BY DEF Clustered
  <2> QED BY <2>1
<1>3. \A b \in B : b \in A
  BY DEF Keeps, Drawn
<1>4. \A a \in A : \E b \in B : b <= a
  BY DEF Keeps, Undercut
<1> HIDE DEF A, B
<1>5. Least(B) \in B /\ \A b \in B : Least(B) <= b
  BY <1>1, <1>2, LeastExists
<1>6. Least(A) \in A /\ \A a \in A : Least(A) <= a
  BY <1>1, <1>2, <1>3, LeastExists
<1>7. Least(A) <= Least(B) /\ Least(B) <= Least(A)
  <2>1. PICK b \in B : b <= Least(A)
    BY <1>4, <1>6
  <2>2. Least(B) <= b
    BY <1>5
  <2>3. Least(A) <= Least(B)
    BY <1>3, <1>5, <1>6
  <2>4. Least(A) \in Nat /\ Least(B) \in Nat /\ b \in Nat
    BY <1>1, <1>5, <1>6
  <2> QED BY <2>1, <2>2, <2>3, <2>4
<1>8. Least(A) \in Nat /\ Least(B) \in Nat
  BY <1>1, <1>5, <1>6
<1>9. Least(B) = Least(A)
  BY <1>7, <1>8
<1> QED BY <1>9 DEF A, B

\* ... and the least cluster of the text, which says where the run starts in
\* the client's string, is in the text after each such step that leaves one
\* (LeastClusterSurvives).
THEOREM LeastClusterStays == Spec => LeastClusterSurvives
<1>1. Spec => []BufferInv
  BY BufferSafe
<1> DEFINE Kept == level # "characters" /\ successful' /\ TextClusters # {} /\ TextClusters' # {}
                     => Least(TextClusters') = Least(TextClusters) \/ ~Stage
<1>2. BufferInv /\ BufferInv' /\ [Next]_vars => [Kept]_vars
  <2> SUFFICES ASSUME BufferInv, BufferInv', level # "characters", successful', TextClusters' # {}, Stage
               PROVE  Least(TextClusters') = Least(TextClusters)
    OBVIOUS
  <2>1. Keeps(VisibleText, VisibleText')
    BY StageStepKeeps DEF StageKeeps
  <2>2. Clustered(VisibleText) /\ Clustered(VisibleText')
    BY TextCut, NextTextCut, PartClusters
  <2> DEFINE v == VisibleText
             w == VisibleText'
  <2>3. TextClusters = {v[p].cluster : p \in DOMAIN v} /\ TextClusters' = {w[p].cluster : p \in DOMAIN w}
    BY DEF TextClusters
  <2> HIDE DEF v, w
  <2>4. w # <<>>
    <3>1. CASE w = <<>>
      <4>1. DOMAIN w = {}
        BY <3>1
      <4> QED BY <2>3, <4>1
    <3> QED BY <3>1
  <2>5. Clustered(v) /\ Clustered(w) /\ Keeps(v, w)
    BY <2>1, <2>2 DEF v, w
  <2> QED BY <2>3, <2>4, <2>5, LeastKept
<1> QED BY <1>1, <1>2, PTL DEF Spec, LeastClusterSurvives
==============================================================================
