----------------------------- MODULE MCHashMap -----------------------------
(***************************************************************************)
(* Small instances of HashMap: k1 and k2 are two addresses of equal        *)
(* contents, and the contents share two buckets of a table of four slots.  *)
(* Slack is small for the tables to be: rebuilt for one entry, a table has *)
(* four slots, and what it really had may not fit.                         *)
(***************************************************************************)
EXTENDS HashMap, TLC

CONSTANTS k1, k2, k3, k4, k5, k6

MCKeys == {k1, k2, k3, k4, k5, k6}
MCContentOf == (k1 :> 1) @@ (k2 :> 1) @@ (k3 :> 2) @@ (k4 :> 3) @@ (k5 :> 4) @@ (k6 :> 5)
MCHashOf == <<0, 3, 1, 7, 6>>

\* Values are only compared.
MCSymmetry == Permutations(Values)
=============================================================================
