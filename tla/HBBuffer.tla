------------------------------- MODULE HBBuffer -------------------------------
(***************************************************************************)
(* hb_buffer_t (src/src/hb-buffer.cc, hb-buffer.hh): the array of glyphs   *)
(* every shaping stage edits.  The buffer owns two blocks of the same size,*)
(* info and pos.  A stage that edits the text reads glyphs from info at    *)
(* the cursor idx and writes them through out_info, which is info itself   *)
(* while the output is no longer than what was consumed ("in place") and   *)
(* moves over to the pos block the moment it would overtake the cursor.    *)
(*                                                                         *)
(* An action is one method of the buffer, called with arguments its        *)
(* asserts and its callers allow.  realloc may fail at any enlargement;    *)
(* the buffer then sets successful to false and the method returns early.  *)
(*                                                                         *)
(* mem.info, mem.pos   the two blocks, as functions on Cells; a cell that  *)
(*                     was never written holds the codepoint Uninit        *)
(* mem.sep             has_separate_output(): out_info is pos, not info    *)
(* hasUnsafe           HB_BUFFER_SCRATCH_FLAG_HAS_UNSAFE_TO_BREAK          *)
(* level               cluster_level                                       *)
(***************************************************************************)
EXTENDS GlyphRuns, Sequences

CONSTANTS
  Codepoints,     \* codepoints a client or a stage writes
  ZeroCp,         \* the codepoint of a zeroed glyph
  Uninit,         \* the codepoint of a cell nobody has written
  ClusterValues,  \* cluster values a client assigns
  MaxBufferLen,   \* max_len, above which enlarge refuses
  AllocSizes,     \* the sizes enlarge's growth loop goes through, 0 first
  Capacity,       \* bound of the model: the largest block
  AddCps,         \* codepoints the client adds
  GlyphIds,       \* glyphs a stage inserts or substitutes one for one
  Replacements,   \* glyph sequences a ligature or a cluster of glyphs becomes
  Sources         \* glyph sequences of the buffers the client appends from

VARIABLES mem, idx, len, outLen, allocated, successful, haveOutput,
          havePositions, hasUnsafe, level

vars == <<mem, idx, len, outLen, allocated, successful, haveOutput,
          havePositions, hasUnsafe, level>>

Levels == {"monotone_graphemes", "monotone_characters", "characters"}

Cells == 0 .. Capacity - 1

Glyph == [cp : Codepoints \cup {ZeroCp, Uninit},
          cluster : ClusterValues \cup {0},
          unsafe : BOOLEAN]

ZeroGlyph  == [cp |-> ZeroCp, cluster |-> 0, unsafe |-> FALSE]
JunkGlyph  == [cp |-> Uninit, cluster |-> 0, unsafe |-> FALSE]
JunkBlock  == [c \in Cells |-> JunkGlyph]

Mem == [info : [Cells -> Glyph], pos : [Cells -> Glyph], sep : BOOLEAN]

ASSUME BufferAssumption ==
  /\ MaxBufferLen \in Nat
  /\ Capacity \in Nat
  /\ ClusterValues \subseteq Nat
  /\ AllocSizes \subseteq 0 .. Capacity
  /\ 0 \in AllocSizes
  /\ \A n \in 0 .. MaxBufferLen : \E a \in AllocSizes : n < a

ASSUME TextAssumption ==
  /\ Uninit \notin Codepoints \cup {ZeroCp}
  /\ AddCps \subseteq Codepoints
  /\ GlyphIds \subseteq Codepoints
  /\ Replacements \subseteq Seq(Codepoints) \ {<<>>}
  /\ Sources \subseteq Seq([cp : Codepoints, cluster : ClusterValues, unsafe : BOOLEAN])

TypeOK ==
  /\ mem \in Mem
  /\ idx \in Nat /\ len \in Nat /\ outLen \in Nat
  /\ allocated \in AllocSizes
  /\ successful \in BOOLEAN
  /\ haveOutput \in BOOLEAN
  /\ havePositions \in BOOLEAN
  /\ hasUnsafe \in BOOLEAN
  /\ level \in Levels

-----------------------------------------------------------------------------
(* Memory.                                                                  *)

\* The block out_info points to.
OutBlock(m) == IF m.sep THEN m.pos ELSE m.info

WithOut(m, block) ==
  IF m.sep THEN [m EXCEPT !.pos = block] ELSE [m EXCEPT !.info = block]

\* The first step of the growth progression beyond size: what the loop
\* "while (size >= new_allocated) new_allocated += (new_allocated >> 1) + 32"
\* reaches from any earlier step of it.
GrownTo(size) == CHOOSE a \in AllocSizes : size < a /\ \A b \in AllocSizes : size < b => a <= b

\* Outcomes of ensure (size): whether there is room, and what enlarge left in
\* allocated and successful.  A failing realloc (of pos, of info, or of both)
\* leaves the contents of both blocks and allocated as they were.
Ensure(size) ==
  IF size = 0 \/ size < allocated
  THEN {[ok |-> TRUE, allocated |-> allocated, successful |-> successful]}
  ELSE IF successful /\ size <= MaxBufferLen
       THEN {[ok |-> TRUE,  allocated |-> GrownTo(size), successful |-> TRUE],
             [ok |-> FALSE, allocated |-> allocated,     successful |-> FALSE]}
       ELSE {[ok |-> FALSE, allocated |-> allocated,     successful |-> FALSE]}

\* What make_room_for does to the blocks once ensure has granted the room: the
\* output moves to the pos block if it would overtake the cursor in place.
RoomMade(numIn, numOut) ==
  IF ~mem.sep /\ outLen + numOut > idx + numIn
  THEN [mem EXCEPT !.sep = TRUE, !.pos = Copy(@, 0, mem.info, 0, outLen)]
  ELSE mem

\* The allocation state after an ensure, and the early return when it refused.
Granted(r) == allocated' = r.allocated /\ successful' = r.successful

Refused(r) ==
  /\ ~r.ok
  /\ Granted(r)
  /\ UNCHANGED <<mem, idx, len, outLen, haveOutput, havePositions, hasUnsafe, level>>

-----------------------------------------------------------------------------
(* Clusters and break flags.                                                *)

\* unsafe_to_break_impl.
UnsafeMem(m, start, end) ==
  [m EXCEPT !.info = SetUnsafe(@, start, end, LeastCluster(@, start, end))]

\* Mutant of FlagsSome: only the first glyph of the range is looked at.
FlagsFirst(a, start, end) == a[start].cluster # LeastCluster(a, start, end)

\* Whether flagging [start, end) of info flags any glyph.
FlagsSome(a, start, end) ==
  \E i \in start .. end - 1 : a[i].cluster # LeastCluster(a, start, end)

\* merge_clusters_impl at the levels that merge.  The walk back into the
\* output happens only if the (extended) range starts at the cursor.
MergedRange(m, start, end) ==
  LET k == LeastCluster(m.info, start, end)
      e == RunEnd(m.info, end, len)
      s == IF idx < start THEN RunStart(m.info, m.info[start].cluster, start, idx) ELSE start
      o == IF idx = s THEN RunStart(OutBlock(m), m.info[s].cluster, outLen, 0) ELSE outLen
      n == WithOut(m, SetClusters(OutBlock(m), o, outLen, k, FALSE))
  IN  [n EXCEPT !.info = SetClusters(@, s, e, k, FALSE)]

\* merge_clusters.
MergedMem(m, start, end) ==
  CASE end - start < 2        -> m
    [] end - start >= 2 /\ level = "characters" -> UnsafeMem(m, start, end)
    [] OTHER                  -> MergedRange(m, start, end)

\* Whether merge_clusters (start, end) raises the scratch flag.
MergeFlags(m, start, end) ==
  /\ level = "characters"
  /\ end - start >= 2
  /\ FlagsSome(m.info, start, end)

\* merge_out_clusters: the same on the output side, walking on into info.
MergedOutMem(m, start, end) ==
  LET out == OutBlock(m)
      k == LeastCluster(out, start, end)
      s == RunStart(out, out[start].cluster, start, 0)
      e == RunEnd(out, end, outLen)
      \* info cells from idx on that continue the last cluster of the output
      f == IF e = outLen /\ idx < len /\ m.info[idx].cluster = out[e - 1].cluster
           THEN RunEnd(m.info, idx + 1, len) ELSE idx
      n == [m EXCEPT !.info = SetClusters(@, idx, f, k, FALSE)]
  IN  WithOut(n, SetClusters(OutBlock(n), s, e, k, FALSE))

\* The glyph after the cursor continues its cluster.
SurvivesAhead == idx + 1 < len /\ mem.info[idx + 1].cluster = mem.info[idx].cluster

\* Mutant of DeletedMem: at the start of the text the cluster goes with the glyph.
DeletedBackOnly ==
  LET g   == mem.info[idx]
      out == OutBlock(mem)
      old == out[outLen - 1].cluster
  IN  IF ~SurvivesAhead /\ outLen > 0 /\ g.cluster < old
      THEN WithOut(mem, SetClusters(out, RunStart(out, old, outLen, 0), outLen,
                                    g.cluster, g.unsafe))
      ELSE mem

\* delete_glyph's treatment of the cluster of the glyph that goes away: joined
\* to the output before it, or to the glyph after it when nothing is written.
DeletedMem ==
  LET g   == mem.info[idx]
      out == OutBlock(mem)
      old == out[outLen - 1].cluster
  IN  CASE ~SurvivesAhead /\ outLen > 0 /\ g.cluster < old ->
             WithOut(mem, SetClusters(out, RunStart(out, old, outLen, 0), outLen,
                                      g.cluster, g.unsafe))
        [] ~SurvivesAhead /\ outLen = 0 /\ idx + 1 < len -> MergedMem(mem, idx, idx + 2)
        [] OTHER -> mem

DeleteFlags ==
  /\ ~SurvivesAhead /\ outLen = 0 /\ idx + 1 < len
  /\ MergeFlags(mem, idx, idx + 2)

-----------------------------------------------------------------------------
(* Building and clearing the text: what clients call.                       *)

\* hb_buffer_create: no memory yet, an empty text.
Init ==
  /\ mem = [info |-> JunkBlock, pos |-> JunkBlock, sep |-> FALSE]
  /\ idx = 0 /\ len = 0 /\ outLen = 0
  /\ allocated = 0
  /\ successful = TRUE
  /\ haveOutput = FALSE /\ havePositions = FALSE
  /\ hasUnsafe = FALSE
  /\ level = "monotone_graphemes"

\* clear, and the part of reset that touches the contents.
Clear ==
  /\ mem' = [mem EXCEPT !.sep = FALSE]
  /\ idx' = 0 /\ len' = 0 /\ outLen' = 0
  /\ successful' = TRUE
  /\ haveOutput' = FALSE /\ havePositions' = FALSE
  /\ hasUnsafe' = FALSE
  /\ UNCHANGED <<allocated, level>>

\* hb_buffer_set_cluster_level, between two calls of hb_shape.
SetClusterLevel(l) ==
  /\ ~haveOutput
  /\ level' = l
  /\ UNCHANGED <<mem, idx, len, outLen, allocated, successful, haveOutput, havePositions, hasUnsafe>>

\* hb_buffer_pre_allocate.
PreAllocate(size) ==
  /\ ~haveOutput
  /\ \E r \in Ensure(size) : Granted(r)
  /\ UNCHANGED <<mem, idx, len, outLen, haveOutput, havePositions, hasUnsafe, level>>

\* add and add_info.
Add(cp, cluster) ==
  /\ ~haveOutput
  /\ \E r \in Ensure(len + 1) :
       \/ Refused(r)
       \/ /\ r.ok /\ Granted(r)
          /\ mem' = [mem EXCEPT !.info[len] =
                       [cp |-> cp, cluster |-> cluster, unsafe |-> FALSE]]
          /\ len' = len + 1
          /\ UNCHANGED <<idx, outLen, haveOutput, havePositions, hasUnsafe, level>>

\* What hb_buffer_set_length does to the blocks: the new part is wiped.
Wiped(n) ==
  IF n <= len THEN mem
  ELSE [mem EXCEPT !.info = Fill(@, len, n - len, ZeroGlyph),
                   !.pos  = IF havePositions THEN Fill(@, len, n - len, ZeroGlyph) ELSE @]

SetLength(n) ==
  /\ ~haveOutput
  /\ \E r \in Ensure(n) :
       \/ Refused(r)
       \/ /\ r.ok /\ Granted(r)
          /\ mem' = Wiped(n)
          /\ len' = n
          /\ UNCHANGED <<idx, outLen, haveOutput, havePositions, hasUnsafe, level>>

\* hb_buffer_append of a range of another buffer that holds glyphs gs and has
\* no positions.  The buffer is lengthened first; if it had failed before, the
\* new part stays zeroed.
AppendFrom(gs) ==
  /\ ~haveOutput /\ ~havePositions
  /\ gs # <<>>
  /\ \E r \in Ensure(len + Len(gs)) :
       \/ Refused(r)
       \/ /\ r.ok /\ Granted(r)
          /\ mem' = IF r.successful
                    THEN [mem EXCEPT !.info = [c \in Cells |->
                            IF len <= c /\ c < len + Len(gs) THEN gs[c - len + 1] ELSE @[c]]]
                    ELSE Wiped(len + Len(gs))
          /\ len' = len + Len(gs)
          /\ UNCHANGED <<idx, outLen, haveOutput, havePositions, hasUnsafe, level>>

ReverseRange(start, end) ==
  /\ ~haveOutput
  /\ start < end /\ end <= len
  /\ mem' = [mem EXCEPT !.info = ReverseCells(@, start, end),
                        !.pos  = IF havePositions THEN ReverseCells(@, start, end) ELSE @]
  /\ UNCHANGED <<idx, len, outLen, allocated, successful, haveOutput, havePositions, hasUnsafe, level>>

\* reverse_clusters: the text reversed, then every run of one cluster turned back.
ClusterReversed(a, b) ==
  LET rev == ReverseCells(a, 0, len)
      runs == ReverseCells(b, 0, len)
      first(c) == RunStart(rev, rev[c].cluster, c, 0)
      last(c) == RunEnd(rev, c + 1, len) - 1
  IN  [c \in Cells |-> IF c < len THEN runs[first(c) + last(c) - c] ELSE b[c]]

ReverseClusters ==
  /\ ~haveOutput
  /\ len > 0
  /\ mem' = [mem EXCEPT !.info = ClusterReversed(mem.info, mem.info),
                        !.pos  = IF havePositions THEN ClusterReversed(mem.info, @) ELSE @]
  /\ UNCHANGED <<idx, len, outLen, allocated, successful, haveOutput, havePositions, hasUnsafe, level>>

-----------------------------------------------------------------------------
(* Entering and leaving the editing of the text: what shaping stages call. *)

\* The output so far repeats the input: stages start and stop output only
\* here (a lookup that never applied leaves it so) or after a failure.
Settled ==
  \/ ~haveOutput
  \/ ~mem.sep /\ outLen = idx /\ idx = len
  \/ ~successful

\* clear_output, followed by the caller's "buffer->idx = 0".
BeginOutput ==
  /\ Settled
  /\ mem' = [mem EXCEPT !.sep = FALSE]
  /\ idx' = 0 /\ outLen' = 0
  /\ haveOutput' = TRUE /\ havePositions' = FALSE
  /\ UNCHANGED <<len, allocated, successful, hasUnsafe, level>>

\* remove_output.
RemoveOutput ==
  /\ Settled
  /\ mem' = [mem EXCEPT !.sep = FALSE]
  /\ outLen' = 0
  /\ haveOutput' = FALSE /\ havePositions' = FALSE
  /\ UNCHANGED <<idx, len, allocated, successful, hasUnsafe, level>>

\* clear_positions.
ClearPositions ==
  /\ Settled
  /\ mem' = [mem EXCEPT !.sep = FALSE, !.pos = Fill(@, 0, len, ZeroGlyph)]
  /\ outLen' = 0
  /\ haveOutput' = FALSE /\ havePositions' = TRUE
  /\ UNCHANGED <<idx, len, allocated, successful, hasUnsafe, level>>

\* get_scratch_buffer: the pos block becomes the caller's, who may write all of it.
GetScratchBuffer ==
  /\ Settled
  /\ mem' = [mem EXCEPT !.sep = FALSE, !.pos = JunkBlock]
  /\ outLen' = 0
  /\ haveOutput' = FALSE /\ havePositions' = FALSE
  /\ UNCHANGED <<idx, len, allocated, successful, hasUnsafe, level>>

\* Mutants of SwapBuffers: the blocks are exchanged and the lengths are not;
\* the lengths are exchanged and the blocks are not.
SwapBlocksOnly ==
  /\ haveOutput
  /\ successful => idx = len
  /\ IF ~successful THEN UNCHANGED vars
     ELSE /\ haveOutput' = FALSE
          /\ mem' = IF mem.sep THEN [mem EXCEPT !.info = mem.pos, !.pos = mem.info] ELSE mem
          /\ idx' = 0
          /\ UNCHANGED <<len, outLen, allocated, successful, havePositions, hasUnsafe, level>>

SwapLengthsOnly ==
  /\ haveOutput
  /\ successful => idx = len
  /\ IF ~successful THEN UNCHANGED vars
     ELSE /\ haveOutput' = FALSE
          /\ len' = outLen /\ outLen' = len
          /\ idx' = 0
          /\ UNCHANGED <<mem, allocated, successful, havePositions, hasUnsafe, level>>

\* swap_buffers, called when the cursor has reached the end; a buffer that
\* failed stays as it is, output and all.
SwapBuffers ==
  /\ haveOutput
  /\ successful => idx = len
  /\ IF ~successful THEN UNCHANGED vars
     ELSE /\ haveOutput' = FALSE
          /\ mem' = IF mem.sep THEN [mem EXCEPT !.info = mem.pos, !.pos = mem.info] ELSE mem
          /\ len' = outLen /\ outLen' = len
          /\ idx' = 0
          /\ UNCHANGED <<allocated, successful, havePositions, hasUnsafe, level>>

-----------------------------------------------------------------------------
(* Editing: the glyph at the cursor, and the cursor.                        *)

\* Write the sequence gs at the end of the output of m and consume numIn glyphs.
Emitted(m, gs) ==
  WithOut(m, [c \in Cells |->
    IF outLen <= c /\ c < outLen + Len(gs) THEN gs[c - outLen + 1] ELSE OutBlock(m)[c]])

Emit(m, numIn, gs) ==
  /\ mem' = Emitted(m, gs)
  /\ idx' = idx + numIn
  /\ outLen' = outLen + Len(gs)
  /\ UNCHANGED <<len, haveOutput, havePositions, level>>

\* make_room_for: Step if there is room for numOut more glyphs of output.
WithRoom(numOut, Step) ==
  \E r \in Ensure(outLen + numOut) : Refused(r) \/ (r.ok /\ Granted(r) /\ Step)

\* No other glyph was inserted or dropped yet: next_glyph and replace_glyph
\* then work on the cell itself and need no room.
InStep == ~mem.sep /\ outLen = idx

ReplaceGlyph(cp) ==
  /\ haveOutput /\ idx < len
  /\ LET gs == <<[mem.info[idx] EXCEPT !.cp = cp]>>
     IN  IF InStep
         THEN Emit(mem, 1, gs) /\ UNCHANGED <<allocated, successful>>
         ELSE WithRoom(1, Emit(RoomMade(1, 1), 1, gs))
  /\ UNCHANGED <<hasUnsafe, level>>

\* replace_glyphs: numIn glyphs become Len(cps) glyphs that all carry the
\* merged cluster and the mask of the first.
ReplaceGlyphs(numIn, cps) ==
  /\ haveOutput
  /\ numIn \in 1 .. len - idx
  /\ WithRoom(Len(cps),
       LET m == MergedMem(RoomMade(numIn, Len(cps)), idx, idx + numIn)
       IN  /\ Emit(m, numIn, [k \in 1 .. Len(cps) |-> [m.info[idx] EXCEPT !.cp = cps[k]]])
           /\ hasUnsafe' = (hasUnsafe \/ MergeFlags(mem, idx, idx + numIn)))

\* output_glyph: a copy of the glyph at the cursor, or of the last one written
\* when the cursor is at the end; with neither there is nothing to copy from.
OutputGlyph(cp) ==
  /\ haveOutput
  /\ WithRoom(1,
       LET m == RoomMade(0, 1)
           g == IF idx < len THEN m.info[idx] ELSE OutBlock(m)[outLen - 1]
       IN  /\ IF idx >= len /\ outLen = 0
              THEN mem' = m /\ UNCHANGED <<idx, len, outLen, haveOutput, havePositions>>
              ELSE Emit(m, 0, <<[g EXCEPT !.cp = cp]>>)
           /\ UNCHANGED <<hasUnsafe, level>>)

\* copy_glyph, and output_info of a glyph made from the one at the cursor.
CopyGlyph ==
  /\ haveOutput /\ idx < len
  /\ WithRoom(1, Emit(RoomMade(0, 1), 0, <<mem.info[idx]>>) /\ UNCHANGED <<hasUnsafe, level>>)

\* next_glyphs; next_glyph is next_glyphs (1).
NextGlyphs(n) ==
  /\ n \in 1 .. len - idx
  /\ IF ~haveOutput
     THEN idx' = idx + n /\ UNCHANGED <<mem, len, outLen, allocated, successful, haveOutput, havePositions, level>>
     ELSE IF InStep
     THEN Emit(mem, n, Segment(mem.info, idx, idx + n)) /\ UNCHANGED <<allocated, successful>>
     ELSE WithRoom(n, Emit(RoomMade(n, n), n, Segment(mem.info, idx, idx + n)))
  /\ UNCHANGED <<hasUnsafe, level>>

\* skip_glyph, and the idx++ of ligate_input.  The callers have written glyphs
\* made from the one at the cursor or, at the levels where merging makes it one
\* cluster, from an earlier one of the ligature; at the level that does not
\* merge a skipped component may have a cluster of its own.
SkipGlyph ==
  /\ haveOutput /\ idx < len
  /\ successful =>
       /\ outLen > 0
       /\ level # "characters" => OutBlock(mem)[outLen - 1].cluster = mem.info[idx].cluster
  /\ idx' = idx + 1
  /\ UNCHANGED <<mem, len, outLen, allocated, successful, haveOutput, havePositions, hasUnsafe, level>>

DeleteGlyph ==
  /\ haveOutput /\ idx < len
  /\ mem' = DeletedMem
  /\ idx' = idx + 1
  /\ hasUnsafe' = (hasUnsafe \/ DeleteFlags)
  /\ UNCHANGED <<len, outLen, allocated, successful, haveOutput, havePositions, level>>

\* move_to, forward: the glyphs up to output position i are copied over.
MoveForward(i) ==
  WithRoom(i - outLen,
    /\ Emit(RoomMade(i - outLen, i - outLen), i - outLen, Segment(mem.info, idx, idx + i - outLen))
    /\ UNCHANGED <<hasUnsafe, level>>)

\* Mutant of Rewound: the first glyphs of the output go back, not the last.
RewoundFirst(m, at, count) == [m EXCEPT !.info = Copy(@, at, OutBlock(m), 0, count)]

\* The blocks after count glyphs went back from the output in front of cell at.
Rewound(m, at, count) ==
  [m EXCEPT !.info = Copy(@, at, OutBlock(m), outLen - count, count)]

\* shift_forward (count): the unread glyphs move up, and whatever lies between
\* the old end and them is zeroed.
Shifted(count) ==
  LET up == Copy(mem.info, idx + count, mem.info, idx, len - idx)
  IN  [mem EXCEPT !.info = IF idx + count > len
                           THEN Fill(up, len, idx + count - len, ZeroGlyph) ELSE up]

\* move_to, backward: the glyphs behind position i become unread again.
MoveBack(i) ==
  LET count == outLen - i
  IN  IF idx < count
      THEN \E r \in Ensure(len + count) :
             \/ Refused(r)
             \/ /\ r.ok /\ Granted(r)
                /\ mem' = Rewound(Shifted(count), idx, count)
                /\ len' = len + count
                /\ outLen' = i
                /\ UNCHANGED <<idx, haveOutput, havePositions, hasUnsafe, level>>
      ELSE /\ mem' = Rewound(mem, idx - count, count)
           /\ idx' = idx - count
           /\ outLen' = i
           /\ UNCHANGED <<len, allocated, successful, haveOutput, havePositions, hasUnsafe, level>>

\* move_to (i): i counts from the start of the output, or of the text if there
\* is no output.
MoveTo(i) ==
  IF ~haveOutput
  THEN /\ i <= len
       /\ idx' = i
       /\ UNCHANGED <<mem, len, outLen, allocated, successful, haveOutput, havePositions, hasUnsafe, level>>
  ELSE /\ successful
       /\ i <= outLen + (len - idx)
       /\ CASE outLen < i -> MoveForward(i)
            [] outLen > i -> MoveBack(i)
            [] OTHER      -> UNCHANGED vars

-----------------------------------------------------------------------------
(* Editing: clusters and break flags.                                       *)

\* Stages merge and flag unread glyphs while they edit, and any glyphs otherwise.
Unread(start) == haveOutput /\ ~Settled => idx <= start

\* Without output, out_len is what the passes before left in it: nothing, or,
\* if they wrote in place, a length that the text does not exceed.  A text that
\* a client has extended is entered through clear_output (hb_ot_shape_internal).
LengthLeft == mem.sep \/ outLen = 0 \/ len <= outLen

MergeClusters(start, end) ==
  /\ start + 2 <= end /\ end <= len
  /\ Unread(start)
  /\ ~haveOutput => LengthLeft
  /\ mem' = MergedMem(mem, start, end)
  /\ hasUnsafe' = (hasUnsafe \/ MergeFlags(mem, start, end))
  /\ UNCHANGED <<idx, len, outLen, allocated, successful, haveOutput, havePositions, level>>

\* merge_out_clusters.
MergeOutClusters(start, end) ==
  /\ haveOutput
  /\ start + 2 <= end /\ end <= outLen
  /\ mem' = IF level = "characters" THEN mem ELSE MergedOutMem(mem, start, end)
  /\ UNCHANGED <<idx, len, outLen, allocated, successful, haveOutput, havePositions, hasUnsafe, level>>

UnsafeToBreak(start, end) ==
  /\ start + 2 <= end /\ end <= len
  /\ Unread(start)
  /\ mem' = UnsafeMem(mem, start, end)
  /\ hasUnsafe' = (hasUnsafe \/ FlagsSome(mem.info, start, end))
  /\ UNCHANGED <<idx, len, outLen, allocated, successful, haveOutput, havePositions, level>>

\* unsafe_to_break_from_outbuffer, while there is output: [start, outLen) of
\* the output and [idx, end) of the input are one stretch of text.
UnsafeFromOutbuffer(start, end) ==
  /\ haveOutput
  /\ start <= outLen /\ idx <= end /\ end <= len
  /\ start < outLen \/ idx < end
  /\ LET out == OutBlock(mem)
         k   == Least(ClustersOf(out, start, outLen) \cup ClustersOf(mem.info, idx, end))
         m   == WithOut(mem, SetUnsafe(out, start, outLen, k))
     IN  /\ mem' = [m EXCEPT !.info = SetUnsafe(@, idx, end, k)]
         /\ hasUnsafe' = (\/ hasUnsafe
                          \/ \E i \in start .. outLen - 1 : out[i].cluster # k
                          \/ \E i \in idx .. end - 1 : mem.info[i].cluster # k)
  /\ UNCHANGED <<idx, len, outLen, allocated, successful, haveOutput, havePositions, level>>

-----------------------------------------------------------------------------
Client ==
  \/ Clear
  \/ \E l \in Levels : SetClusterLevel(l)
  \/ \E n \in 0 .. Capacity : PreAllocate(n) \/ SetLength(n)
  \/ \E cp \in AddCps, k \in ClusterValues : Add(cp, k)
  \/ \E gs \in Sources : AppendFrom(gs)
  \/ \E s, e \in 0 .. len : ReverseRange(s, e)
  \/ ReverseClusters

Stage ==
  \/ BeginOutput \/ RemoveOutput \/ ClearPositions \/ GetScratchBuffer \/ SwapBuffers
  \/ \E g \in GlyphIds : ReplaceGlyph(g) \/ OutputGlyph(g)
  \/ \E n \in 1 .. len, cps \in Replacements : ReplaceGlyphs(n, cps)
  \/ CopyGlyph \/ SkipGlyph \/ DeleteGlyph
  \/ \E n \in 1 .. len : NextGlyphs(n)
  \/ \E i \in 0 .. outLen + len : MoveTo(i)
  \/ \E s, e \in 0 .. len : MergeClusters(s, e) \/ UnsafeToBreak(s, e)
  \/ \E s, e \in 0 .. outLen : MergeOutClusters(s, e)
  \/ \E s \in 0 .. outLen, e \in 0 .. len : UnsafeFromOutbuffer(s, e)

Next == Client \/ Stage

Spec == Init /\ [][Next]_vars

-----------------------------------------------------------------------------
(* Properties.                                                              *)


\* The text as its reader and its editors see it: out_info is visible only
\* while there is output.
Done == IF haveOutput THEN Segment(OutBlock(mem), 0, outLen) ELSE <<>>
Todo == IF haveOutput THEN Segment(mem.info, idx, len) ELSE Segment(mem.info, 0, len)
VisibleText == Done \o Todo

\* The output never overtakes the cursor while it is written in place: no
\* glyph is overwritten before it has been read (hb-buffer.cc, "the out_len
\* doesn't exceed i at any time").
InPlaceOutputBehindCursor == haveOutput /\ ~mem.sep => outLen <= idx

\* No method reads or writes outside the blocks: both texts fit into what is
\* allocated, the cursor of an edit stays within the text, and a client that
\* shortened the text leaves at most a cursor within the block.
WithinAllocation ==
  /\ len <= allocated /\ outLen <= allocated /\ idx <= allocated
  /\ haveOutput => idx <= len

\* No glyph that was never written becomes visible, not even after an
\* allocation failed half way through an edit ("Under memory failure we might
\* expose this area.  At least clean it up", shift_forward).
NothingUnwrittenVisible ==
  \A p \in DOMAIN VisibleText : VisibleText[p].cp # Uninit

\* The inductive invariant behind the three properties above.  The cells of
\* the input stay written even behind the cursor, because a failed edit is
\* abandoned by going back to them.
InputWritten  == \A c \in 0 .. len - 1 : mem.info[c].cp # Uninit
OutputWritten == haveOutput => \A c \in 0 .. outLen - 1 : OutBlock(mem)[c].cp # Uninit

BufferInv ==
  /\ TypeOK
  /\ WithinAllocation
  /\ InPlaceOutputBehindCursor
  /\ InputWritten
  /\ OutputWritten

\* The final pass over break flags (hb-ot-shape.cc, hb_propagate_flags) is
\* skipped unless the scratch flag is up, so it is up whenever a glyph is flagged.
FlagsAnnounced ==
  (\E p \in DOMAIN VisibleText : VisibleText[p].unsafe) => hasUnsafe

MonotoneText(t) ==
  \/ \A p, q \in DOMAIN t : p <= q => t[p].cluster <= t[q].cluster
  \/ \A p, q \in DOMAIN t : p <= q => t[p].cluster >= t[q].cluster

\* Levels 0 and 1: no step of a stage breaks the monotony of the clusters.
ClustersStayMonotone ==
  [][level # "characters" /\ successful' /\ MonotoneText(VisibleText)
       => MonotoneText(VisibleText)' \/ ~Stage]_vars

TextClusters == {VisibleText[p].cluster : p \in DOMAIN VisibleText}

\* Levels 0 and 1: the smallest cluster of the text, which points to where the
\* run starts, is never lost to a substitution, a deletion or a move.
LeastClusterSurvives ==
  [][level # "characters" /\ successful' /\ TextClusters # {} /\ TextClusters' # {}
       => Least(TextClusters') = Least(TextClusters) \/ ~Stage]_vars

-----------------------------------------------------------------------------
\* The memory-level buffer implements the text with a cursor.
Cursor == INSTANCE TextCursor WITH done <- Done, todo <- Todo,
                                   editing <- haveOutput, ok <- successful
ImplementsCursor == Cursor!Spec

\* The steps of the refinement, for behaviours that start with a text.
CursorSteps == [][Cursor!Next]_(Cursor!cursorVars)
==============================================================================
