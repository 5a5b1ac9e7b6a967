--------------------------- MODULE LooperContract ---------------------------
(***************************************************************************)
(* What dk_pull::looper::Looper promises to a client that calls each next  *)
(* at most once, with the mechanism (two flags and the call stack) hidden: *)
(* every request is served by exactly one iteration, at once or later.     *)
(* Drain is such a client when its source answers each request once.       *)
(***************************************************************************)
EXTENDS Naturals

VARIABLES
  requests,     \* calls of next so far
  iterations    \* invocations of the looper function so far

vars == <<requests, iterations>>

Init == requests = 0 /\ iterations = 0

Begin ==
  /\ iterations = 0
  /\ iterations' = 1
  /\ UNCHANGED requests

(* A request needs a next that was handed out and not used yet.  It is     *)
(* served on the spot or left for later.                                   *)
Request ==
  /\ requests < iterations
  /\ requests' = requests + 1
  /\ iterations' \in {iterations, iterations + 1}

Serve ==
  /\ iterations > 0
  /\ iterations = requests
  /\ iterations' = iterations + 1
  /\ UNCHANGED requests

Next == Begin \/ Request \/ Serve

Spec == Init /\ [][Next]_vars /\ WF_vars(Serve)
=============================================================================
