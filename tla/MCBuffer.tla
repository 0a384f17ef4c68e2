------------------------------- MODULE MCBuffer -------------------------------
(***************************************************************************)
(* Small instances of HBBuffer: the whole life of a tiny buffer            *)
(* (HBBuffer!Spec), and what shaping stages do to every text of a given    *)
(* length that a client may have added (EditSpec).                         *)
(***************************************************************************)
EXTENDS HBBuffer

CONSTANTS a, zero, uninit

MCSources == {<<[cp |-> a, cluster |-> 2, unsafe |-> FALSE]>>}

MCReplacements == {<<a>>, <<a, a>>}

\* A client has added n glyphs with the clusters t[0], ..., t[n - 1], monotone
\* or not, and chosen a level that merges or the one that does not: the two
\* levels that merge differ only in what hb-ot-shape.cc does before a stage runs.
EditInit ==
  /\ \E n \in 1 .. MaxBufferLen :
       /\ \E t \in [0 .. n - 1 -> ClusterValues] :
            mem = [info |-> [c \in Cells |-> IF c < n
                                             THEN [cp |-> a, cluster |-> t[c], unsafe |-> FALSE]
                                             ELSE JunkGlyph],
                   pos |-> JunkBlock, sep |-> FALSE]
       /\ len = n
       /\ allocated = GrownTo(n)
  /\ idx = 0 /\ outLen = 0
  /\ successful = TRUE
  /\ haveOutput = FALSE /\ havePositions = FALSE
  /\ hasUnsafe = FALSE
  /\ level \in {"monotone_characters", "characters"}

EditSpec == EditInit /\ [][Stage]_vars
==============================================================================
