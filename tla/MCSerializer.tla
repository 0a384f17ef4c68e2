---------------------------- MODULE MCSerializer ----------------------------
(***************************************************************************)
(* A small instance of Serializer: the values are in MCSerializer.cfg.     *)
(***************************************************************************)
EXTENDS Serializer
=============================================================================
