--------------------------- MODULE MatchPositions ---------------------------
(***************************************************************************)
(* What apply_lookup (hb-ot-layout-gsubgpos.hh) does to the positions of a *)
(* match when a nested lookup, applied at one of them, has changed the     *)
(* length of the text.  Positions count from the start of the output, from *)
(* zero, as in the code; sequence index k is element k + 1.                *)
(***************************************************************************)
EXTENDS Integers, Sequences

CONSTANT MaxContext      \* HB_MAX_CONTEXT_LENGTH (64)

ASSUME MaxContextAssumption == MaxContext \in Nat \ {0}

\* A match in progress: its positions, the end of what it covers, and whether
\* its remaining records are to be skipped.
Ordered(pos, end) ==
    /\ \A j, k \in DOMAIN pos : j < k => pos[j] < pos[k]
    /\ \A k \in DOMAIN pos : pos[k] < end

\* Mutant of Widened: the positions after the new glyphs stay.
WidenedUnmoved(pos, idx, n) ==
    [k \in 1 .. Len(pos) + n |->
       IF k <= idx + 1 THEN pos[k]
       ELSE IF k <= idx + 1 + n THEN pos[idx + 1] + (k - (idx + 1))
       ELSE pos[k - n]]

\* n new glyphs are taken to be right after the one at sequence index idx.
Widened(pos, idx, n) ==
    [k \in 1 .. Len(pos) + n |->
       IF k <= idx + 1 THEN pos[k]
       ELSE IF k <= idx + 1 + n THEN pos[idx + 1] + (k - (idx + 1))
       ELSE pos[k - n] + n]

\* n glyphs that went are taken to be the n matched after it.
Narrowed(pos, idx, n) ==
    [k \in 1 .. Len(pos) - n |-> IF k <= idx + 1 THEN pos[k] ELSE pos[k + n] - n]

AtMost(n, m) == IF n <= m THEN n ELSE m

\* Mutant of Adjusted: the end may fall behind the position of the record.
AdjustedBehind(m, idx, delta) ==
    LET end == m.end + delta
    IN  IF delta = 0 THEN m
        ELSE IF delta > 0
             THEN IF delta + Len(m.pos) > MaxContext
                  THEN [m EXCEPT !.end = end, !.stop = TRUE]
                  ELSE [m EXCEPT !.end = end, !.pos = Widened(@, idx, delta)]
             ELSE [m EXCEPT !.end = end,
                            !.pos = Narrowed(@, idx, AtMost(-delta, Len(m.pos) - (idx + 1)))]

Adjusted(m, idx, delta) ==
    LET end  == m.end + delta
        here == m.pos[idx + 1]
    IN  IF delta = 0 THEN m
        ELSE IF end <= here THEN [m EXCEPT !.end = here, !.stop = TRUE]
        ELSE IF delta > 0
             THEN IF delta + Len(m.pos) > MaxContext
                  THEN [m EXCEPT !.end = end, !.stop = TRUE]
                  ELSE [m EXCEPT !.end = end, !.pos = Widened(@, idx, delta)]
             ELSE [m EXCEPT !.end = end,
                            !.pos = Narrowed(@, idx, AtMost(-delta, Len(m.pos) - (idx + 1)))]
=============================================================================
