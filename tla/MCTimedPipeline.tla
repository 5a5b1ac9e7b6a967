--------------------------- MODULE MCTimedPipeline ---------------------------
(* TimedPipeline for TLC: every kind of source, empty ones and a Count that  *)
(* wraps round (maximum 7 with Modulus 8) among them.                        *)
EXTENDS TimedPipeline

MCSources ==
  {ValuesSource([k \in 1..n |-> k]) : n \in 0..4}
    \cup {CountSource(m) : m \in {0, 1, 4, 7}}
    \cup {EmptySource}
=============================================================================
