-------------------------- MODULE MCProtocolChecker --------------------------
(* ProtocolChecker for TLC.  Ends has two values, to tell the first end of a *)
(* stream from a later one; nothing else distinguishes them.                 *)
EXTENDS ProtocolChecker, TLC

EndSymmetry == Permutations(Ends)
=============================================================================
