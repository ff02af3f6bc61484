----------------------------- MODULE MCProvider -----------------------------
(* Model-checking instance of Provider. The constants are model values that  *)
(* MCProvider.cfg assigns; a liveness property is checked, so that threads   *)
(* are not declared symmetric.                                               *)
EXTENDS Provider
=============================================================================
