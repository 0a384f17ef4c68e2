----------------------------- MODULE MCPagedSet -----------------------------
(***************************************************************************)
(* A small instance of PagedSet: two sets over three pages of one bit.    *)
(***************************************************************************)
EXTENDS PagedSet

CONSTANTS s1, s2

MCCodepoints == 0 .. 2
MCRanges == {<<0, 0>>, <<1, 1>>, <<2, 2>>, <<0, 2>>}
MCSymmetry == Permutations({s1, s2})
=============================================================================
