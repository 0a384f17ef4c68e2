---------------------------- MODULE MCLazyLoader ----------------------------
(***************************************************************************)
(* The small instance of LazyLoader: MCLazyLoader.cfg names its threads and*)
(* objects.  Without symmetry, because it checks liveness.                 *)
(***************************************************************************)
EXTENDS LazyLoader
=============================================================================
