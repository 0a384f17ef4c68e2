---------------------------- MODULE MCPlanCache ----------------------------
(***************************************************************************)
(* A small instance of ShapePlanCache: the values are in MCPlanCache.cfg.  *)
(***************************************************************************)
EXTENDS ShapePlanCache
=============================================================================
