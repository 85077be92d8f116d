------------------------------ MODULE MCInnerMux ------------------------------
(* Three requests: one that dials, one that reuses its session and fails,  *)
(* and one that dials while the second redials.                            *)
EXTENDS InnerMux
=============================================================================
