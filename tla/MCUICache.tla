----------------------------- MODULE MCUICache -----------------------------
(* Instances of UICache.                                                   *)
EXTENDS UICache
=============================================================================
