----------------------------- MODULE MCObject -----------------------------
(* HBObject for TLC: threads that share an object and its user data.       *)
EXTENDS HBObject, TLC
=============================================================================
