---------------------------- MODULE PullProtocol ----------------------------
(***************************************************************************)
(* The pull-stream protocol as a source and a sink are to follow it, and   *)
(* as protocol_checker.h's seven invariants spell it out: the sink makes   *)
(* requests, the source answers them in order and once each, and after an  *)
(* end or an abort only ends are answered.                                 *)
(***************************************************************************)
EXTENDS Naturals

VARIABLES
  asked,      \* requests made, aborting ones included
  pulls,      \* of these, requests for a value
  answered,   \* callbacks invoked
  aborted,    \* the sink has aborted
  ended       \* an answer has ended the stream

vars == <<asked, pulls, answered, aborted, ended>>

Init ==
  /\ asked = 0
  /\ pulls = 0
  /\ answered = 0
  /\ aborted = FALSE
  /\ ended = FALSE

(* Ask for one more value: not after the stream has terminated. *)
Pull ==
  /\ ~aborted /\ ~ended
  /\ asked' = asked + 1
  /\ pulls' = pulls + 1
  /\ UNCHANGED <<answered, aborted, ended>>

(* Ask the source to stop.  A second abort, or one that comes after the    *)
(* end, is tolerated unless extra requests are forbidden.                  *)
AbortStream ==
  /\ asked' = asked + 1
  /\ aborted' = TRUE
  /\ UNCHANGED <<pulls, answered, ended>>

AnswerValue ==
  /\ answered < asked
  /\ ~aborted /\ ~ended
  /\ answered' = answered + 1
  /\ UNCHANGED <<asked, pulls, aborted, ended>>

AnswerEnd ==
  /\ answered < asked
  /\ answered' = answered + 1
  /\ ended' = TRUE
  /\ UNCHANGED <<asked, pulls, aborted>>

Next == Pull \/ AbortStream \/ AnswerValue \/ AnswerEnd

Spec == Init /\ [][Next]_vars
=============================================================================
