-------------------------- MODULE MCCheckedPipeline --------------------------
(* CheckedPipeline for TLC, with every kind of source.                       *)
EXTENDS CheckedPipeline

MCSources ==
  {ValuesSource([k \in 1..n |-> k]) : n \in 0..4}
    \cup {CountSource(m) : m \in {0, 1, 3}}
    \cup {EmptySource}
=============================================================================
