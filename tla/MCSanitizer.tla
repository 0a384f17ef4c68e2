----------------------------- MODULE MCSanitizer -----------------------------
(* Sanitizer for TLC: a font file with one offset of its own and a table of *)
(* two, where an edit of the second breaks the target of the first.        *)
EXTENDS Sanitizer, TLC

File(f, t1, t2) == <<f, t1, t2>>
MCContent == {File("good", "good", "bad"), File("bad", "bad", "null")}
MCSpoils == <<{}, {}, {2}>>
Symmetry == Permutations(Blob) \cup Permutations(Block)
=============================================================================
