------------------------------ MODULE GlyphRuns ------------------------------
(***************************************************************************)
(* Operators on arrays of glyphs (functions from indices to glyph          *)
(* records), shared by the models of hb_buffer_t: the loops of             *)
(* hb-buffer.cc that copy cells, find the least cluster of a range, extend *)
(* a range over the neighbours that share its cluster, and write clusters  *)
(* and break flags.  Ranges are half open, [start, end), as in the code.   *)
(*                                                                         *)
(* A glyph is [cp |-> codepoint or glyph id, cluster |-> cluster value,    *)
(* unsafe |-> the HB_GLYPH_FLAG_UNSAFE_TO_BREAK bit of its mask].          *)
(***************************************************************************)
EXTENDS Integers

\* memcpy / memmove of n cells: the source is read before anything is written.
Copy(dst, at, src, from, n) ==
  [c \in DOMAIN dst |-> IF at <= c /\ c < at + n THEN src[from + (c - at)] ELSE dst[c]]

\* memset to zero, or any constant cell.
Fill(dst, at, n, cell) ==
  [c \in DOMAIN dst |-> IF at <= c /\ c < at + n THEN cell ELSE dst[c]]

\* The cells [start, end) of a as a sequence.
Segment(a, start, end) == [k \in 1 .. end - start |-> a[start + k - 1]]

ClustersOf(a, start, end) == {a[i].cluster : i \in start .. end - 1}

Least(S) == CHOOSE x \in S : \A y \in S : x <= y

\* The minimum the merging and flagging loops compute over a range.
LeastCluster(a, start, end) == Least(ClustersOf(a, start, end))

\* Mutant of RunEnd: the range is not extended.
RunEndHere(a, end, limit) == end

\* "Extend end": the end of the run of cells that share the cluster of end - 1.
RunEnd(a, end, limit) ==
  CHOOSE e \in end .. limit :
    /\ \A i \in end .. e - 1 : a[i].cluster = a[end - 1].cluster
    /\ e < limit => a[e].cluster # a[end - 1].cluster

\* The start of the run of cells of cluster k that ends just before index end,
\* not looking below limit ("Extend start", and the walk back over out_info).
RunStart(a, k, end, limit) ==
  CHOOSE s \in limit .. end :
    /\ \A i \in s .. end - 1 : a[i].cluster = k
    /\ s > limit => a[s - 1].cluster # k

\* set_cluster: a glyph whose cluster changes takes the break flag of mask.
WithCluster(g, k, mask) ==
  [g EXCEPT !.cluster = k, !.unsafe = IF g.cluster # k THEN mask ELSE @]

SetClusters(a, start, end, k, mask) ==
  [c \in DOMAIN a |->
     IF start <= c /\ c < end THEN WithCluster(a[c], k, mask) ELSE a[c]]

\* _unsafe_to_break_set_mask: every glyph of the range outside cluster k.
SetUnsafe(a, start, end, k) ==
  [c \in DOMAIN a |->
     IF start <= c /\ c < end /\ a[c].cluster # k
     THEN [a[c] EXCEPT !.unsafe = TRUE] ELSE a[c]]

\* reverse_range swaps the cells pairwise from both ends.
ReverseCells(a, start, end) ==
  [c \in DOMAIN a |-> IF start <= c /\ c < end THEN a[start + end - 1 - c] ELSE a[c]]
==============================================================================
