-------------------------- MODULE MCLanguageList --------------------------
(***************************************************************************)
(* A small instance of LanguageList: three names, two of which differ only *)
(* in case.  Without symmetry, because it checks liveness.                 *)
(***************************************************************************)
EXTENDS LanguageList

CONSTANTS fa, Fa, en

MCNames == {fa, Fa, en}
MCTags == {fa, en}
MCCanon == [s \in MCNames |-> IF s = Fa THEN fa ELSE s]
=============================================================================
