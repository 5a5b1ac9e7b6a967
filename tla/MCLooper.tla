------------------------------ MODULE MCLooper ------------------------------
(* Looper for TLC: the constants are given in MCLooper*.cfg.                *)
EXTENDS Looper
=============================================================================
