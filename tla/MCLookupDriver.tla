--------------------------- MODULE MCLookupDriver ---------------------------
(***************************************************************************)
(* A small instance of LookupDriver.                                       *)
(***************************************************************************)
EXTENDS LookupDriver
=============================================================================
