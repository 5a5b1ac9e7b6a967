------------------------------ MODULE Pipeline ------------------------------
(***************************************************************************)
(* Pull(source, sink) (pull.h) for the sources of module Sources and the   *)
(* sinks of dk_pull/pull_stream/sinks: Drain, Reduce (hence Collect, which *)
(* is Reduce with push_back) and AbortNow.  Drain runs on a Looper, whose  *)
(* flags and call stack are those of module Looper; what a Looper's client *)
(* may do is here what Drain does.                                         *)
(*                                                                         *)
(* The sources of the repository answer before the request returns.  An    *)
(* asynchronous source may also answer later, from the event loop, as one  *)
(* that waits for I/O, or for a timer (module TimedPipeline).  onValue,    *)
(* Reduce's reducer, is user code, if it was given, and may throw: nothing *)
(* in dk_pull catches the exception, and the caller of Pull may pull once  *)
(* more.                                                                   *)
(***************************************************************************)
EXTENDS Sources

CONSTANTS
  Timings,       \* when the source may answer: a subset of TimingKinds
  InitSources,   \* the sources to start from
  InitSinks,     \* the sinks: a subset of SinkKinds
  KeepSink,      \* TRUE: the caller of Pull keeps the sink until the stream is over
  MayThrow,      \* TRUE: onValue may throw
  MaxRetries,    \* bound: how often the caller pulls again after an exception
  MaxRequests    \* bound: calls of next (for a Count that never ends)

TimingKinds == {"prompt", "late", "timer"}
SinkKinds   == {"Drain", "Reduce", "AbortNow"}
Functions   == {"user", "empty"}   \* the functions that onValue may hold

ASSUME PipelineAssumption ==
  /\ Timings \subseteq TimingKinds
  /\ KeepSink \in BOOLEAN
  /\ InitSources \subseteq SourceStates
  /\ InitSinks \subseteq SinkKinds
  /\ MayThrow \in BOOLEAN
  /\ MaxRetries \in Nat
  /\ MaxRequests \in Nat

VARIABLES
  nextCalled, looperFunctionReturned, stack, iterations, requests, wedged,
  source,        \* the state shared by the source's closures
  sink,          \* which sink it is
  sinkHeld,      \* the Sink closure, and with it the Reduce, is alive
  asked,         \* calls of the source
  answered,      \* invocations of the callback given with a call
  consumed,      \* history: the values passed to onValue
  accumulator,   \* Reduce::accumulator: the values reduced so far
  results,       \* history: calls of onDone, of Reduce's callback with its result
  threw,         \* onValue has thrown, out of the current connection
  retries,       \* history: connections made after an exception
  before,        \* history: calls of the source by earlier connections
  failedCheck,   \* the CHECK that has failed and ended the process, or "none"
  onValue,       \* Drain::onValue: user code, or an empty function
  timing,        \* when the source answers
  contents       \* history: what the source had to give at first

looperVars == <<nextCalled, looperFunctionReturned, stack, iterations, requests, wedged>>
connection == <<onValue, timing, contents>>
sinkVars   == <<sink, sinkHeld, consumed, accumulator, results>>
callerVars == <<threw, retries, before, failedCheck>>
vars       == <<looperVars, source, sinkVars, asked, answered, callerVars, connection>>

(* Whether Drain calls each next once is for the properties to tell.       *)
Looper == INSTANCE Looper WITH OneShot <- FALSE, MayThrow <- TRUE

OnTopOfLooper == stack # <<>>

ProcessLives == failedCheck = "none"

AbortOfSink == IF sink = "AbortNow" THEN End ELSE Running

(* What a source still has to give: Count up to its maximum.               *)
Yield(s) ==
  CASE s.kind = "Values" -> s.list
    [] s.kind = "Count"  -> IF s.i > s.maximum THEN <<>>
                            ELSE [n \in 1..(s.maximum + 1 - s.i) |-> s.i + n - 1]
    [] s.kind = "Empty"  -> <<>>

-----------------------------------------------------------------------------
(* Drain's constructor puts an empty function in the place of a null one.  *)
(* A null onDone is one that does nothing when it is called; for onValue   *)
(* it matters, as an empty function does not throw.                        *)
ConstructDrain(fn) == onValue = IF fn = "null" THEN "empty" ELSE fn

(* Drain::Create is given whatever its user has for onValue; Reduce passes *)
(* a lambda.                                                               *)
CreateDrain ==
  \E fn \in {"user", "null"} : (fn = "null" => sink = "Drain") /\ ConstructDrain(fn)

(* Reduce::Create, with the accumulator's default.                         *)
CreateReduce == accumulator = <<>> /\ sinkHeld = TRUE

Init ==
  /\ Looper!Init
  /\ source \in InitSources
  /\ sink \in InitSinks
  /\ CreateReduce
  /\ CreateDrain
  /\ asked = 0
  /\ answered = 0
  /\ consumed = <<>>
  /\ results = <<>>
  /\ threw = FALSE
  /\ retries = 0
  /\ before = 0
  /\ failedCheck = "none"
  /\ timing \in Timings
  /\ contents = Yield(source)

(* Pull: the sink is applied to the source.  Reduce makes its Drain, which *)
(* makes a Looper and starts it ...                                        *)
ConnectDrain ==
  /\ ProcessLives
  /\ sink # "AbortNow"
  /\ Looper!Start
  /\ UNCHANGED <<source, sinkVars, asked, answered, callerVars, connection>>

(* ... and AbortNow asks once, for the source to stop.                     *)
ConnectAbortNow ==
  /\ sink = "AbortNow"
  /\ asked = 0
  /\ asked' = 1
  /\ UNCHANGED <<looperVars, source, sinkVars, answered, callerVars, connection>>

(* Drain's looper function calls the source, its one statement.            *)
Ask ==
  /\ ProcessLives
  /\ OnTopOfLooper
  /\ asked < iterations
  /\ asked' = asked + 1
  /\ UNCHANGED <<looperVars, source, sinkVars, answered, callerVars, connection>>

\* Mutant of AnswerDue: a callback may be invoked that was invoked before.
AnswerDueAgain ==
  /\ ProcessLives
  /\ asked > 0
  /\ OnTopOfLooper => asked = iterations

(* The request has been made, and its answer is due: before the looper     *)
(* function returns, or from the event loop if the source is asynchronous. *)
AnswerDue ==
  /\ ProcessLives
  /\ answered < asked
  /\ OnTopOfLooper => asked = iterations

\* Mutant of ReduceIsGone: the Sink closure does not own the Reduce either.
ReduceHeldWeakly == sink = "Reduce" /\ ~KeepSink

(* Reduce's two lambdas hold the Reduce weakly, and CHECK that it lives.   *)
ReduceIsGone == sink = "Reduce" /\ ~sinkHeld

(* The source has made up its answer to the request that is outstanding.   *)
Answered(answer) ==
  /\ answered' = answered + 1
  /\ source' = answer.source

CallNext == Looper!NextWhileBusy \/ Looper!NextWhileIdle

(* The reducer of MakeCollect: push_back. *)
Reducer(vector, value) == Append(vector, value)

(* A value: onValue, or Reduce's reducer, then next.                       *)
OnValue(value) ==
  /\ consumed' = Append(consumed, value)
  /\ accumulator' = IF sink = "Reduce" THEN Reducer(accumulator, value) ELSE accumulator
  /\ CallNext
  /\ UNCHANGED results

\* Mutant of OnDone: the return after onDone is missing.
OnDoneWithoutReturn(done) ==
  /\ results' = Append(results, [done |-> done, result |-> accumulator])
  /\ accumulator' = <<>>
  /\ CallNext
  /\ UNCHANGED consumed

(* The end: onDone, and no next.  Reduce hands over its accumulator, which *)
(* is moved from.                                                          *)
OnDone(done) ==
  /\ results' = Append(results, [done |-> done, result |-> accumulator])
  /\ accumulator' = <<>>
  /\ UNCHANGED <<looperVars, consumed>>

(* The callback that Drain passes to the source. *)
DrainCallback(done, value) ==
  \/ ~IsSet(done) /\ OnValue(value)
  \/ IsSet(done) /\ OnDone(done)

AnswerRequest ==
  LET answer == SourceAnswer(source, AbortOfSink)
  IN  /\ AnswerDue /\ ~ReduceIsGone
      /\ Answered(answer)
      /\ DrainCallback(answer.done, answer.value)
      /\ UNCHANGED <<asked, sink, sinkHeld, callerVars, connection>>

(* reduce.h's CHECK(self != nullptr) fails in either lambda.               *)
AnswerNobody ==
  /\ AnswerDue /\ ReduceIsGone
  /\ failedCheck' = "self"
  /\ UNCHANGED <<looperVars, source, sinkVars, asked, answered, threw, retries, before,
                 connection>>

(* An exception that nothing in dk_pull catches leaves source, looper and  *)
(* Pull.                                                                   *)
Unwind ==
  \/ OnTopOfLooper /\ Looper!Throw /\ stack' = <<>>
  \/ ~OnTopOfLooper /\ UNCHANGED looperVars

\* Mutant of OnValueThrows: next is called though onValue has thrown.
OnValueThrowsAfterNext ==
  LET answer == SourceAnswer(source, AbortOfSink)
  IN  /\ AnswerDue /\ ~ReduceIsGone
      /\ MayThrow /\ onValue = "user"
      /\ ~IsSet(answer.done)
      /\ Answered(answer)
      /\ consumed' = Append(consumed, answer.value)
      /\ CallNext
      /\ threw' = TRUE
      /\ UNCHANGED <<asked, sink, sinkHeld, accumulator, results, retries, before,
                     failedCheck, connection>>

(* A value that the user's onValue throws at: no next.  Reduce's           *)
(* accumulator was handed to the reducer as an rvalue and may be moved from.               *)
OnValueThrows ==
  LET answer == SourceAnswer(source, AbortOfSink)
  IN  /\ AnswerDue /\ ~ReduceIsGone
      /\ MayThrow /\ onValue = "user"
      /\ ~IsSet(answer.done)
      /\ Answered(answer)
      /\ consumed' = Append(consumed, answer.value)
      /\ accumulator' \in {accumulator, <<>>}
      /\ Unwind
      /\ threw' = TRUE
      /\ UNCHANGED <<asked, sink, sinkHeld, results, retries, before, failedCheck,
                     connection>>

(* The caller, which caught the exception, applies the sink once more.     *)
CallerRetries ==
  /\ ProcessLives
  /\ threw /\ stack = <<>> /\ sinkHeld
  /\ retries < MaxRetries

(* Looper::Create; its function is Drain's lambda, which is not null.      *)
CreateLooper ==
  /\ nextCalled' = FALSE
  /\ looperFunctionReturned' = TRUE
  /\ stack' = <<>>
  /\ iterations' = 0
  /\ requests' = 0
  /\ wedged' = FALSE

(* Drain makes a Looper for each connection ...                            *)
Retry ==
  /\ CallerRetries
  /\ sink = "Drain"
  /\ CreateLooper
  /\ asked' = 0
  /\ answered' = 0
  /\ before' = before + asked
  /\ threw' = FALSE
  /\ retries' = retries + 1
  /\ UNCHANGED <<source, sinkVars, failedCheck, connection>>

(* ... and Reduce CHECKs that it has made no Drain yet.                    *)
RetryReduce ==
  /\ CallerRetries
  /\ sink = "Reduce"
  /\ failedCheck' = "drain"
  /\ UNCHANGED <<looperVars, source, sinkVars, asked, answered, threw, retries, before,
                 connection>>

(* The looper function returns: it has called the source, and a source     *)
(* that is not asynchronous has answered, unless an exception has unwound  *)
(* the call.                                                               *)
Return ==
  /\ ProcessLives
  /\ asked = iterations
  /\ timing = "prompt" => answered = asked \/ wedged
  /\ Looper!Return
  /\ UNCHANGED <<source, sinkVars, asked, answered, callerVars, connection>>

(* Pull has returned to its caller, who lets go of the sink.               *)
DropSink ==
  /\ ProcessLives
  /\ ~KeepSink
  /\ asked > 0 /\ stack = <<>>
  /\ sinkHeld
  /\ sinkHeld' = FALSE
  /\ UNCHANGED <<looperVars, source, sink, consumed, accumulator, results,
                 asked, answered, callerVars, connection>>

Next ==
  \/ ConnectDrain
  \/ ConnectAbortNow
  \/ Ask
  \/ AnswerRequest
  \/ AnswerNobody
  \/ OnValueThrows
  \/ Retry
  \/ RetryReduce
  \/ Return
  \/ DropSink

Spec == Init /\ [][Next]_vars

(* Code that has been called runs on to its return, and an asynchronous    *)
(* source is assumed to answer in the end.                                 *)
FairSpec ==
  /\ Spec
  /\ WF_vars(Ask)
  /\ WF_vars(Return)
  /\ WF_vars(AnswerRequest \/ AnswerNobody \/ OnValueThrows)

-----------------------------------------------------------------------------
TypeOK ==
  /\ Looper!TypeOK
  /\ source \in SourceStates
  /\ sink \in SinkKinds
  /\ sinkHeld \in BOOLEAN
  /\ asked \in Nat
  /\ answered \in 0..asked
  /\ consumed \in Seq(Nat) /\ accumulator \in Seq(Nat) /\ contents \in Seq(Nat)
  /\ results \in Seq([done : {End}, result : {<<>>, contents}])
  /\ threw \in BOOLEAN
  /\ retries \in 0..MaxRetries
  /\ before \in Nat
  /\ failedCheck \in {"none", "self", "drain"}
  /\ onValue \in Functions
  /\ timing \in Timings

(* A sink asks again only when it has been answered: never more than one   *)
(* request is outstanding, though asynchronous answers come at any time    *)
(* relative to the looper's returns.  The looper may be called as often as *)
(* its client likes; Drain calls each next once.                           *)
OneOutstandingRequest == asked - answered \in {0, 1} /\ requests <= answered

(* Count with maximum = 2^64 - 1: the counter wraps before it exceeds it.  *)
NeverEnds == source.kind = "Count" /\ source.maximum = Modulus - 1

(* No value is lost, repeated or reordered between the source and onValue, *)
(* nor when the caller pulls again after an exception.                     *)
ValuesInOrder == ~NeverEnds => consumed \o Yield(source) = contents

(* onDone is the last thing a Drain does: when it is called everything has *)
(* been consumed, and Reduce's result is the whole stream.                 *)
DoneMeansEverything ==
  results # <<>> =>
    /\ Len(results) = 1
    /\ sink # "AbortNow" => consumed = contents
    /\ sink = "Reduce" => results[1].result = contents

(* After onDone, or after an exception that has left onValue, the sink     *)
(* does not call the source again, nor onValue or onDone, unless the       *)
(* caller pulls once more.                                                 *)
StreamOver == results # <<>> \/ threw

QuietWhenOver ==
  [][StreamOver /\ retries' = retries => UNCHANGED <<asked, consumed, results>>]_vars

(* Whatever the timing of the answers, the sink keeps to the protocol, and *)
(* a second connection continues the first one's requests.                 *)
Protocol == INSTANCE PullProtocol WITH
  asked    <- before + asked,
  pulls    <- IF sink = "AbortNow" THEN 0 ELSE before + asked,
  answered <- before + answered,
  aborted  <- sink = "AbortNow" /\ asked > 0,
  ended    <- results # <<>>

ProtocolSpec == Protocol!Spec

(* A stream that was connected comes to its end, or to an exception, or to *)
(* the failing CHECK of a Reduce that is gone.                             *)
StreamEnds ==
  (asked > 0 /\ ~NeverEnds) ~> (StreamOver \/ (failedCheck = "self" /\ ReduceIsGone))

(* With the repository's own sources a stream is over when Pull returns,   *)
(* as values_test.cc, collect_test.cc and drain_test.cc expect.            *)
OverWhenPullReturns ==
  (timing = "prompt" /\ sink # "AbortNow" /\ asked > 0 /\ stack = <<>>) => StreamOver

(* Whenever control is back in the event loop, or with the caller, a       *)
(* stream that is not over has a request outstanding: no next was lost     *)
(* between the looper function's return and the loop's end.                *)
NeverStalls ==
  (asked > 0 /\ stack = <<>>) => StreamOver \/ answered < asked

(* reduce.h:57 and :63: CHECK(self != nullptr).  It never fails with the   *)
(* repository's own sources, though the sink is a temporary of the call.   *)
ReduceOutlivesStream == failedCheck # "self"
PromptReduceIsAlive  == timing = "prompt" => ReduceOutlivesStream
=============================================================================
