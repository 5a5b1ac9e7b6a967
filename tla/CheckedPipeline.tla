--------------------------- MODULE CheckedPipeline ---------------------------
(***************************************************************************)
(* Pull(source, checker->Through(), sink): a Pipeline with a               *)
(* ProtocolChecker between source and sink, whose Terminate the sink's     *)
(* onDone calls, as most tests of dk_pull/pull_stream/test are written.    *)
(* Each call of the source goes through the checker's outer lambda, each   *)
(* answer through its inner one.  The source may be faulty, and invoke a   *)
(* callback that it has invoked before.                                    *)
(***************************************************************************)
EXTENDS Pipeline

CONSTANT MaxFaults   \* bound: how often a callback is invoked once more

ASSUME FaultAssumption == MaxFaults \in Nat

VARIABLES
  options, i, latest, skipped, counter, aborted, done, errors,
  thrown, history, delivered, terminated,
  faults               \* history: callbacks invoked once more

Checker == INSTANCE ProtocolChecker WITH
  Ends           <- {End},
  NullCallbacks  <- FALSE,
  MaxInvocations <- 1 + MaxFaults,
  MaxEvents      <- 2 * MaxRequests + 2

checkerVars == <<options, i, latest, skipped, counter, aborted, done, errors,
                 thrown, history, delivered, terminated>>
allVars     == <<vars, checkerVars, faults>>

CheckedInit == Init /\ Checker!Init /\ faults = 0

(* onDone's call of Terminate comes before whatever follows onDone.        *)
VerdictDue == results # <<>> /\ ~terminated

(* A request that the checker does not forward throws through the looper.  *)
(* None is refused, as CheckedProofs shows (NoRequestIsRefused).           *)
AskThrows ==
  /\ ProcessLives /\ OnTopOfLooper /\ asked < iterations
  /\ Checker!RequestThrows(Running)
  /\ Unwind
  /\ UNCHANGED <<source, sinkVars, asked, answered, callerVars, connection>>

(* The checker's half of a request: it is forwarded to the source ...      *)
CheckedAsk ==
  /\ ~VerdictDue
  /\ \/ Ask /\ Checker!RequestForwarded(Running, FALSE)
     \/ ConnectAbortNow /\ Checker!RequestForwarded(End, FALSE)
     \/ AskThrows
  /\ UNCHANGED faults

(* The checker's exception is caught by the call of the source that has    *)
(* invoked the callback, or it unwinds the looper, as far as an earlier    *)
(* call of the source that catches it or to the end.                       *)
SourceCatches == UNCHANGED looperVars \/ Looper!Throw

(* The source invokes the checker's callback of request k: it passes the   *)
(* answer on to the sink, with the end it has been told first, or throws.  *)
Invoke(k, d, value) ==
  \/ /\ Checker!CallbackCompletes(k, d)
     /\ DrainCallback(Checker!CallbackDone(d), value)
  \/ /\ Checker!CallbackThrows(k, d)
     /\ SourceCatches
     /\ UNCHANGED <<consumed, accumulator, results>>

CheckedAnswer ==
  LET answer == SourceAnswer(source, AbortOfSink)
  IN  /\ ~VerdictDue
      /\ AnswerDue
      /\ Answered(answer)
      /\ Invoke(answered + 1, answer.done, answer.value)
      /\ UNCHANGED <<asked, sink, sinkHeld, callerVars, connection, faults>>

(* It invokes a callback that it has invoked before, from within a request *)
(* or from the event loop.                                                 *)
AnswerAgain ==
  /\ ~VerdictDue
  /\ faults < MaxFaults
  /\ OnTopOfLooper => asked = iterations
  /\ \E k \in 1..answered, d \in {Running, End} : Invoke(k, d, NoValue)
  /\ faults' = faults + 1
  /\ UNCHANGED <<source, sink, sinkHeld, asked, answered, callerVars, connection>>

CallsVerdict == VerdictDue /\ Checker!Terminate /\ UNCHANGED <<vars, faults>>

Elsewhere ==
  /\ ~VerdictDue
  /\ ConnectDrain \/ Return
  /\ UNCHANGED <<checkerVars, faults>>

CheckedNext ==
  \/ CheckedAsk
  \/ CheckedAnswer
  \/ AnswerAgain
  \/ CallsVerdict
  \/ Elsewhere

CheckedSpec == CheckedInit /\ [][CheckedNext]_allVars

(* As of Pipeline; nothing obliges the source to be faulty.                *)
CheckedFairSpec == CheckedSpec /\ WF_allVars(CheckedAnswer \/ CallsVerdict)
                               /\ WF_allVars(CheckedAsk)
                               /\ WF_allVars(Elsewhere)
-----------------------------------------------------------------------------
(* The sinks and sources of the repository satisfy each other's checker,   *)
(* and the checker blames no one else: under every combination of options  *)
(* and every timing of the answers, something is reported exactly when the *)
(* source has invoked a callback twice.                                    *)
VerdictIsRight == Checker!Clean <=> faults = 0

(* A checker that notifies eagerly shields the sink from a source that     *)
(* invokes a callback twice: the sink, whose next would be called twice,   *)
(* sees the stream that a correct source would have given it.              *)
EagerShieldsSink ==
  options.notifyEagerly => OneOutstandingRequest /\ ValuesInOrder /\ DoneMeansEverything

(* The checker does not get in the way: every stream that ends without it  *)
(* also ends, with Terminate's verdict, when it is watched.                *)
VerdictComes == (asked > 0 /\ ~NeverEnds) ~> (terminated \/ faults > 0)
=============================================================================
