---------------------------- MODULE CheckedProofs ----------------------------
(***************************************************************************)
(* Proofs about CheckedPipeline, for streams of any length, any number of  *)
(* faults and any timing: the verdict of the checker is right, and an      *)
(* eager one shields the sink.                                             *)
(*                                                                         *)
(* The checker's half of the invariant is that of CheckerProofs, handler   *)
(* by handler.  The sink's half is that of PipelineProofs but for what a   *)
(* refused callback breaks: its exception unwinds the looper though onValue *)
(* has not thrown, so a stream may then stall with its looper wedged.      *)
(***************************************************************************)
EXTENDS CheckedPipeline, PipelineProofs

Watcher == INSTANCE CheckerProofs WITH
  Ends           <- {End},
  NullCallbacks  <- FALSE,
  MaxInvocations <- 1 + MaxFaults,
  MaxEvents      <- 2 * MaxRequests + 2

LEMMA WatcherIsWellFormed == Watcher!CheckerAssumption
  BY SourcesAssumption, PipelineAssumption, FaultAssumption
     DEF SourcesAssumption, PipelineAssumption, FaultAssumption, Watcher!CheckerAssumption

(* The handlers of the two instances of the checker are the same.          *)
LEMMA SameInit == Checker!Init => Watcher!Init
  BY DEF Checker!Init, Watcher!Init, Checker!Options, Watcher!Options

LEMMA SameClean == Checker!Clean <=> Watcher!Clean
  BY DEF Checker!Clean, Watcher!Clean

LEMMA SameRequests ==
  ASSUME NEW abort
  PROVE  /\ Checker!RequestThrows(abort) => Watcher!RequestThrows(abort)
         /\ Checker!RequestForwarded(abort, FALSE) => Watcher!RequestForwarded(abort, FALSE)
<1>1. Checker!RequestViolations(abort) = Watcher!RequestViolations(abort)
  BY DEF Checker!RequestViolations, Checker!When, Checker!Report,
         Watcher!RequestViolations, Watcher!When, Watcher!Report
<1>. QED
  BY <1>1 DEF Checker!RequestThrows, Checker!RequestForwarded, Checker!Completes,
     Checker!NotifyErrors, Checker!Log, Checker!FirstAbort, Checker!stream, Checker!answers,
     Watcher!RequestThrows, Watcher!RequestForwarded, Watcher!Completes,
     Watcher!NotifyErrors, Watcher!Log, Watcher!FirstAbort, Watcher!stream, Watcher!answers

LEMMA SameCallbacks ==
  ASSUME NEW k, NEW d
  PROVE  /\ Checker!CallbackThrows(k, d) => Watcher!CallbackThrows(k, d)
         /\ Checker!CallbackCompletes(k, d) => Watcher!CallbackCompletes(k, d)
<1>1. Checker!CallbackViolations(k, d) = Watcher!CallbackViolations(k, d)
  BY DEF Checker!CallbackViolations, Checker!When, Checker!Report,
         Watcher!CallbackViolations, Watcher!When, Watcher!Report
<1>. QED
  BY <1>1 DEF Checker!CallbackThrows, Checker!CallbackCompletes, Checker!Completes,
     Checker!NotifyErrors, Checker!Log, Checker!CallbackDone, Checker!stream,
     Watcher!CallbackThrows, Watcher!CallbackCompletes, Watcher!Completes,
     Watcher!NotifyErrors, Watcher!Log, Watcher!CallbackDone, Watcher!stream

LEMMA SameTerminate == Checker!Terminate => Watcher!Terminate
<1>1. Checker!TerminateViolations = Watcher!TerminateViolations
  <2>1. ASSUME NEW S
        PROVE  Checker!Ascending(S) = Watcher!Ascending(S)
    BY Zenon DEF Checker!Ascending, Checker!Cardinality,
                 Watcher!Ascending, Watcher!Cardinality
  <2>2. Checker!UnansweredRequests = Watcher!UnansweredRequests
    BY <2>1, Zenon DEF Checker!UnansweredRequests, Watcher!UnansweredRequests,
       Checker!Requests, Watcher!Requests
  <2>. QED
    BY <2>2, Zenon DEF Checker!TerminateViolations, Checker!When, Checker!Report,
       Watcher!TerminateViolations, Watcher!When, Watcher!Report
<1>. QED
  BY <1>1 DEF Checker!Terminate, Checker!NotifyErrors, Checker!stream, Checker!answers,
     Watcher!Terminate, Watcher!NotifyErrors, Watcher!stream, Watcher!answers

-----------------------------------------------------------------------------
(* What the checker's handlers do, of a checker in a reachable state.      *)
LEMMA RequestPasses ==
  ASSUME Watcher!IInv, NEW abort \in {Running, End}, Checker!RequestForwarded(abort, FALSE)
  PROVE  /\ Watcher!IInv'
         /\ i' = i + 1
         /\ aborted' = IF aborted = Running THEN abort ELSE aborted
         /\ \A k \in 1..(i - 1) : counter'[k] = counter[k]
         /\ counter'[i] = 0
         /\ UNCHANGED <<options, skipped, latest, done, terminated>>
         /\ Checker!Clean' => Checker!Clean
         /\ aborted = Running /\ done = Running /\ Checker!Clean => Checker!Clean'
<1>. USE WatcherIsWellFormed
<1>1. Watcher!RequestForwarded(abort, FALSE)
  BY SameRequests
<1>2. abort \in Watcher!EndOrError
  BY DEF Watcher!EndOrError
<1>3. Watcher!IInv'
  BY <1>1, <1>2, Watcher!RequestForwardedStep
<1>4. /\ i' = i + 1 /\ counter' = Append(counter, 0)
      /\ aborted' = IF aborted = Running THEN abort ELSE aborted
      /\ UNCHANGED <<options, skipped, latest, done, terminated>>
      /\ Watcher!NotifyErrors(Watcher!RequestViolations(abort))
  BY <1>1 DEF Watcher!RequestForwarded, Watcher!FirstAbort
<1>5. counter \in Seq(Nat) /\ Len(counter) = i - 1 /\ i \in Nat /\ i > 0
  BY DEF Watcher!IInv, Watcher!TypeInv
<1>6. (\A k \in 1..(i - 1) : counter'[k] = counter[k]) /\ counter'[i] = 0
  BY <1>4, <1>5, AppendProperties
<1>7. Checker!Clean' => Checker!Clean
  <2>1. Watcher!RequestViolations(abort) \in Seq(Watcher!Reports)
    BY Watcher!RequestReports
  <2>2. Watcher!Clean' => Watcher!Clean
    BY <1>4, <2>1, Watcher!StaysClean DEF Watcher!IInv, Watcher!TypeInv
  <2>. QED
    BY <2>2 DEF Checker!Clean, Watcher!Clean
<1>8. aborted = Running /\ done = Running /\ Checker!Clean => Checker!Clean'
  <2>. SUFFICES ASSUME aborted = Running, done = Running, Checker!Clean PROVE Checker!Clean'
    OBVIOUS
  <2>1. Watcher!RequestViolations(abort) = <<>>
    BY Watcher!NoRequestReports
  <2>2. Watcher!Clean'
    BY <1>4, <2>1, SameClean, Watcher!NothingNotified
  <2>. QED
    BY <2>2 DEF Checker!Clean, Watcher!Clean
<1>. QED
  BY <1>3, <1>4, <1>6, <1>7, <1>8

(* Nothing is wrong with a request while the stream is not over.           *)
LEMMA RequestIsNotRefused ==
  ASSUME NEW abort, Checker!RequestThrows(abort), aborted = Running, done = Running
  PROVE  FALSE
<1>. USE WatcherIsWellFormed
<1>1. Watcher!RequestThrows(abort)
  BY SameRequests
<1>2. Watcher!RequestViolations(abort) = <<>>
  BY Watcher!NoRequestReports
<1>. QED
  BY <1>1, <1>2 DEF Watcher!RequestThrows, Watcher!Completes

(* Nor with the next callback in order, if it has not been invoked ...     *)
Acceptable(k, d) ==
  /\ d = Running => aborted = Running /\ done = Running
  /\ counter[k] = 0
  /\ k = latest + 1

LEMMA CallbackPasses ==
  ASSUME Watcher!IInv, skipped = <<>>, NEW k \in 1..(i - 1), NEW d \in {Running, End},
         Checker!CallbackCompletes(k, d)
  PROVE  /\ Watcher!IInv'
         /\ counter' = [counter EXCEPT ![k] = @ + 1]
         /\ latest' = IF k \in {latest, latest + 1} THEN k ELSE latest
         /\ done' = IF done = Running THEN d ELSE done
         /\ UNCHANGED <<options, i, skipped, aborted, terminated>>
         /\ Checker!Clean' => Checker!Clean /\ counter[k] = 0
         /\ Acceptable(k, d) /\ Checker!Clean => Checker!Clean'
         /\ counter[k] > 0 => ~options.notifyEagerly
<1>. USE WatcherIsWellFormed
<1>1. Watcher!CallbackCompletes(k, d)
  BY SameCallbacks
<1>2. d \in Watcher!EndOrError /\ k \in Watcher!Requests \ DOMAIN skipped
  BY DEF Watcher!EndOrError, Watcher!Requests
<1>3. Watcher!IInv'
  BY <1>1, <1>2, Watcher!CallbackCompletesStep
<1>4. /\ counter' = [counter EXCEPT ![k] = @ + 1]
      /\ latest' = IF k \in {latest, latest + 1} THEN k ELSE latest
      /\ done' = IF done = Running THEN d ELSE done
      /\ UNCHANGED <<options, i, skipped, aborted, terminated>>
      /\ Watcher!NotifyErrors(Watcher!CallbackViolations(k, d))
      /\ Watcher!Completes(Watcher!CallbackViolations(k, d))
  BY <1>1 DEF Watcher!CallbackCompletes, Watcher!CallbackDone, Watcher!stream
<1>5. /\ counter \in Seq(Nat) /\ Len(counter) = i - 1 /\ i \in Nat
      /\ k \in Nat /\ counter[k] \in Nat /\ latest \in Nat
  BY DEF Watcher!IInv, Watcher!TypeInv
<1>6. /\ Watcher!CallbackViolations(k, d) \in Seq(Watcher!Reports)
      /\ counter[k] > 0 => Watcher!CallbackViolations(k, d) # <<>>
  BY <1>5, Watcher!CallbackReports
<1>7. Checker!Clean' => Checker!Clean /\ counter[k] = 0
  <2>1. Watcher!Clean' => Watcher!Clean /\ Watcher!CallbackViolations(k, d) = <<>>
    BY <1>4, <1>6, Watcher!StaysClean DEF Watcher!IInv, Watcher!TypeInv
  <2>. QED
    BY <1>5, <1>6, <2>1 DEF Checker!Clean, Watcher!Clean
<1>8. Acceptable(k, d) /\ Checker!Clean => Checker!Clean'
  <2>. SUFFICES ASSUME Acceptable(k, d), Checker!Clean PROVE Checker!Clean'
    OBVIOUS
  <2>1. ~(counter[k] > 0) /\ ~(k < latest) /\ ~(k > latest + 1)
    BY <1>5 DEF Acceptable
  <2>2. Watcher!CallbackViolations(k, d) = <<>>
    BY <2>1, Watcher!NoCallbackReports DEF Acceptable
  <2>3. Watcher!Clean'
    BY <1>4, <2>2, SameClean, Watcher!NothingNotified
  <2>. QED
    BY <2>3 DEF Checker!Clean, Watcher!Clean
<1>9. counter[k] > 0 => ~options.notifyEagerly
  BY <1>4, <1>6 DEF Watcher!Completes
<1>. QED
  BY <1>3, <1>4, <1>7, <1>8, <1>9

(* ... and any other callback of an eager checker throws.                  *)
LEMMA CallbackIsRefused ==
  ASSUME Watcher!IInv, NEW k \in 1..(i - 1), NEW d \in {Running, End},
         Checker!CallbackThrows(k, d)
  PROVE  /\ Watcher!IInv'
         /\ counter' \in {counter, [counter EXCEPT ![k] = @ + 1]}
         /\ UNCHANGED <<options, i, skipped, aborted, latest, done, terminated>>
         /\ ~Checker!Clean'
         /\ ~Acceptable(k, d)
<1>. USE WatcherIsWellFormed
<1>1. Watcher!CallbackThrows(k, d)
  BY SameCallbacks
<1>2. d \in Watcher!EndOrError /\ k \in Watcher!Requests
  BY DEF Watcher!EndOrError, Watcher!Requests
<1>3. Watcher!IInv'
  BY <1>1, <1>2, Watcher!CallbackThrowsStep
<1>4. /\ counter' \in {counter, [counter EXCEPT ![k] = @ + 1]}
      /\ UNCHANGED <<options, i, skipped, aborted, latest, done, terminated>>
      /\ ~Watcher!Completes(Watcher!CallbackViolations(k, d))
      /\ Watcher!NotifyErrors(Watcher!CallbackViolations(k, d))
  BY <1>1 DEF Watcher!CallbackThrows, Watcher!stream
<1>5. ~Checker!Clean'
  <2>1. ~Watcher!Clean'
    BY <1>4, Watcher!ThrowsIsNotClean
  <2>. QED
    BY <2>1 DEF Checker!Clean, Watcher!Clean
<1>6. ASSUME Acceptable(k, d)
      PROVE  FALSE
  <2>1. k \in Nat /\ latest \in Nat
    BY DEF Watcher!IInv, Watcher!TypeInv
  <2>2. ~(counter[k] > 0) /\ ~(k < latest) /\ ~(k > latest + 1)
    BY <1>6, <2>1 DEF Acceptable
  <2>3. Watcher!CallbackViolations(k, d) = <<>>
    BY <1>6, <2>2, Watcher!NoCallbackReports DEF Acceptable
  <2>. QED
    BY <1>4, <2>3 DEF Watcher!Completes
<1>. QED
  BY <1>3, <1>4, <1>5, <1>6

(* Terminate reports nothing of a stream that was answered to its end.     *)
LEMMA VerdictIsGiven ==
  ASSUME Watcher!IInv, Checker!Terminate
  PROVE  /\ Watcher!IInv'
         /\ UNCHANGED <<options, i, skipped, aborted, latest, counter, done>>
         /\ Checker!Clean' => Checker!Clean
         /\ latest = i - 1 /\ done # Running /\ Checker!Clean => Checker!Clean'
<1>. USE WatcherIsWellFormed
<1>1. Watcher!Terminate
  BY SameTerminate
<1>2. Watcher!IInv'
  BY <1>1, Watcher!TerminateStep
<1>3. UNCHANGED <<options, i, skipped, aborted, latest, counter, done>>
  BY <1>1 DEF Watcher!Terminate, Watcher!stream, Watcher!answers
<1>4. Watcher!Clean' <=> Watcher!Clean /\ Watcher!TerminateViolations = <<>>
  BY <1>1, Watcher!CleanTerminate
<1>5. latest = i - 1 /\ done # Running => Watcher!TerminateViolations = <<>>
  BY Watcher!TerminateReports DEF Watcher!IInv
<1>. QED
  BY <1>2, <1>3, <1>4, <1>5 DEF Checker!Clean, Watcher!Clean

-----------------------------------------------------------------------------
(* The inductive invariant.  What holds whatever the faults: the checker   *)
(* has a number for each request of the source.                            *)
BaseInv ==
  /\ Watcher!IInv
  /\ faults \in Nat
  /\ source \in SourceStates
  /\ asked \in Nat /\ answered \in 0..asked
  /\ i = asked + 1
  /\ skipped = <<>>

(* What holds until a fault, and after one if the checker is eager.        *)
Watched == faults = 0 \/ options.notifyEagerly

(* PipelineProofs' CountInv, less what a refused callback's exception      *)
(* breaks.                                                                 *)
SinkCountInv ==
  /\ answered <= asked
  /\ results = <<>> => requests = answered
  /\ results # <<>> => /\ answered = asked /\ requests < asked
                       /\ sink # "AbortNow" => asked = iterations
  /\ ~threw /\ sinkHeld

SinkInv ==
  LooperInv /\ TypeInv /\ AskInv /\ SinkCountInv /\ ContentInv /\ ResultInv

(* The checker sees what the sink does: it knows the requests, the answers *)
(* and the end, and which callbacks have been invoked.                     *)
SeesInv ==
  /\ latest = answered
  /\ aborted = IF sink = "AbortNow" /\ asked > 0 THEN End ELSE Running
  /\ done # Running <=> results # <<>>
  /\ \A k \in 1..answered : counter[k] > 0
  /\ \A k \in (answered + 1)..asked : counter[k] = 0

CheckedInv == BaseInv /\ VerdictIsRight /\ (Watched => SinkInv /\ SeesInv)

-----------------------------------------------------------------------------
(* The sink's half.                                                        *)
LEMMA SinkOutstanding ==
  ASSUME SinkInv
  PROVE  /\ asked \in Nat /\ answered \in Nat /\ iterations \in Nat /\ requests \in Nat
         /\ asked <= answered + 1
         /\ answered < asked => results = <<>>
         /\ sink # "AbortNow" /\ asked < iterations => asked = answered /\ results = <<>>
<1>. USE DEF SinkInv
<1>1. iterations \in Nat /\ requests \in Nat /\ asked \in Nat /\ answered \in Nat
  BY CountsAreNumbers DEF TypeInv
<1>2. answered < asked => results = <<>>
  BY <1>1 DEF SinkCountInv
<1>3. CASE sink = "AbortNow"
  BY <1>1, <1>2, <1>3 DEF AskInv, SinkCountInv
<1>4. CASE sink # "AbortNow"
  <2>1. iterations <= requests + 1
    BY DEF LooperInv, OneShotLooper!IInv, OneShotLooper!CountInv
  <2>. QED
    BY <1>1, <1>2, <1>4, <2>1 DEF AskInv, SinkCountInv
<1>. QED
  BY <1>1, <1>3, <1>4

(* Pull begins with nothing on the stack, so nothing has been unwound.     *)
LEMMA SinkConnects ==
  ASSUME SinkInv, ConnectDrain \/ ConnectAbortNow
  PROVE  SinkInv' /\ results = <<>>
<1>. USE DEF SinkInv
<1>1. asked \in Nat /\ answered \in Nat /\ iterations \in Nat /\ requests \in Nat
  BY SinkOutstanding
<1>2. UNCHANGED <<source, sinkVars, answered, callerVars, connection>>
  BY DEF ConnectDrain, ConnectAbortNow
<1>3. asked = 0 /\ results = <<>> /\ iterations = 0 /\ answered = 0
  <2>1. CASE ConnectDrain
    <3>1. sink # "AbortNow" /\ iterations = 0
      BY <2>1, LooperStarts DEF ConnectDrain
    <3>2. asked = 0
      BY <1>1, <3>1 DEF AskInv
    <3>. QED
      BY <1>1, <3>1, <3>2 DEF SinkCountInv
  <2>2. CASE ConnectAbortNow
    BY <1>1, <2>2 DEF ConnectAbortNow, AskInv, SinkCountInv
  <2>. QED
    BY <2>1, <2>2
<1>4. \/ /\ ConnectDrain /\ LooperStep
         /\ sink # "AbortNow" /\ iterations' = 1 /\ stack' # <<>> /\ asked' = asked
         /\ UNCHANGED <<requests, wedged>>
      \/ /\ sink = "AbortNow" /\ asked' = 1
         /\ UNCHANGED looperVars
  BY LooperStarts DEF ConnectDrain, ConnectAbortNow
<1>5. LooperInv'
  BY <1>4, LooperIsKept
<1>6. ~wedged
  BY <1>3 DEF LooperInv, OneShotLooper!IInv, OneShotLooper!FlagInv,
     OneShotLooper!BeforeStartInv
<1>7. TypeInv'
  <2>1. asked' \in Nat
    BY <1>1, <1>4
  <2>. QED
    BY <1>2, <2>1 DEF TypeInv, sinkVars, callerVars, connection
<1>8. AskInv' /\ SinkCountInv'
  BY <1>1, <1>2, <1>3, <1>4, <1>6
     DEF AskInv, SinkCountInv, looperVars, sinkVars, callerVars
<1>9. ContentInv' /\ ResultInv'
  <2>1. UNCHANGED StreamOver
    BY <1>2 DEF StreamOver, sinkVars, callerVars
  <2>. QED
    BY <1>2, <2>1 DEF ContentInv, ResultInv, NeverEnds, Yield, sinkVars, connection
<1>. QED
  BY <1>3, <1>5, <1>7, <1>8, <1>9

LEMMA SinkAsks ==
  ASSUME SinkInv, Ask
  PROVE  SinkInv' /\ results = <<>> /\ sink # "AbortNow"
<1>. USE DEF SinkInv
<1>1. asked \in Nat /\ answered \in Nat /\ iterations \in Nat /\ requests \in Nat
  BY SinkOutstanding
<1>2. /\ UNCHANGED <<looperVars, source, sinkVars, answered, callerVars, connection>>
      /\ asked' = asked + 1 /\ asked < iterations /\ stack # <<>>
  BY DEF Ask, OnTopOfLooper
<1>3. LooperInv'
  BY <1>2, LooperIsKept
<1>4. TypeInv'
  BY <1>1, <1>2 DEF TypeInv, sinkVars, callerVars, connection
<1>5. sink # "AbortNow" /\ asked = answered /\ results = <<>>
  BY <1>1, <1>2, SinkOutstanding DEF AskInv
<1>6. AskInv' /\ SinkCountInv'
  BY <1>1, <1>2, <1>5 DEF AskInv, SinkCountInv, looperVars, sinkVars, callerVars
<1>7. ContentInv' /\ ResultInv'
  <2>1. UNCHANGED StreamOver
    BY <1>2 DEF StreamOver, sinkVars, callerVars
  <2>. QED
    BY <1>2, <2>1 DEF ContentInv, ResultInv, NeverEnds, Yield, sinkVars, connection
<1>. QED
  BY <1>3, <1>4, <1>5, <1>6, <1>7

LEMMA SinkReturns ==
  ASSUME SinkInv, Return
  PROVE  SinkInv'
<1>. USE DEF SinkInv
<1>1. asked \in Nat /\ answered \in Nat /\ iterations \in Nat /\ requests \in Nat
  BY SinkOutstanding
<1>2. UNCHANGED <<source, sinkVars, asked, answered, callerVars, connection>> /\ asked = iterations
  BY DEF Return
<1>3. /\ LooperStep
      /\ UNCHANGED <<requests, wedged>>
      /\ stack # <<>>
      /\ \/ iterations' = iterations
         \/ /\ iterations' = iterations + 1 /\ stack' = stack
            /\ iterations = requests
  BY LooperReturns DEF Return
<1>4. LooperInv'
  BY <1>3, LooperIsKept
<1>5. TypeInv'
  BY <1>2 DEF TypeInv, sinkVars, callerVars, connection
<1>6. sink # "AbortNow"
  <2>1. stack = <<>> \/ iterations # 0
    BY DEF LooperInv, OneShotLooper!IInv, OneShotLooper!BeforeStartInv
  <2>. QED
    BY <1>3, <2>1 DEF AskInv
<1>7. AskInv' /\ SinkCountInv'
  BY <1>1, <1>2, <1>3, <1>6 DEF AskInv, SinkCountInv, sinkVars, callerVars
<1>8. ContentInv' /\ ResultInv'
  <2>1. UNCHANGED StreamOver
    BY <1>2 DEF StreamOver, sinkVars, callerVars
  <2>. QED
    BY <1>2, <2>1 DEF ContentInv, ResultInv, NeverEnds, Yield, sinkVars, connection
<1>. QED
  BY <1>4, <1>5, <1>7, <1>8

(* The exception of a refused callback unwinds the looper, and nothing     *)
(* else of the sink is touched.                                            *)
LEMMA SinkIsUnwound ==
  ASSUME SinkInv, SourceCatches,
         OnTopOfLooper => asked = iterations,
         UNCHANGED <<source, sinkVars, asked, answered, callerVars, connection>>
  PROVE  SinkInv'
<1>. USE DEF SinkInv
<1>1. /\ LooperStep
      /\ UNCHANGED <<iterations, requests>>
      /\ stack # <<>> \/ UNCHANGED stack
  BY LooperThrows DEF SourceCatches, looperVars, LooperStep, OneShotLooper!vars
<1>2. LooperInv'
  BY <1>1, LooperIsKept
<1>3. TypeInv'
  BY DEF TypeInv, sinkVars, callerVars, connection
<1>4. AskInv' /\ SinkCountInv'
  BY <1>1 DEF AskInv, SinkCountInv, OnTopOfLooper, sinkVars, callerVars
<1>5. ContentInv' /\ ResultInv'
  <2>1. UNCHANGED StreamOver
    BY DEF StreamOver, sinkVars, callerVars
  <2>. QED
    BY <2>1 DEF ContentInv, ResultInv, NeverEnds, Yield, sinkVars, connection
<1>. QED
  BY <1>2, <1>3, <1>4, <1>5

LEMMA SinkIsAnswered ==
  ASSUME SinkInv, AnswerRequest
  PROVE  SinkInv'
<1>. USE DEF SinkInv
<1>1. asked \in Nat /\ answered \in Nat /\ iterations \in Nat /\ requests \in Nat
  BY SinkOutstanding
<1>2. /\ answered < asked /\ (stack # <<>> => asked = iterations)
      /\ answered' = answered + 1
      /\ UNCHANGED <<asked, sink, sinkHeld, callerVars, connection>>
  BY AnswerIsValueOrEnd DEF AnswerDue, OnTopOfLooper
<1>3. /\ results = <<>> /\ requests = answered /\ asked = answered + 1 /\ ~threw
      /\ sink # "AbortNow" => asked = iterations
  BY <1>1, <1>2, SinkOutstanding DEF SinkCountInv, AskInv
<1>4. ~StreamOver
  BY <1>3 DEF StreamOver
<1>5. CASE /\ CallNext
           /\ sink # "AbortNow"
           /\ source' \in SourceStates /\ consumed' \in Seq(Nat)
           /\ ~NeverEnds' => consumed' \o Yield(source)' = contents'
           /\ \E v \in Nat :
                /\ consumed' = Append(consumed, v)
                /\ accumulator' = IF sink = "Reduce" THEN Append(accumulator, v)
                                  ELSE accumulator
           /\ UNCHANGED results
  <2>1. PICK v \in Nat :
          /\ consumed' = Append(consumed, v)
          /\ accumulator' = IF sink = "Reduce" THEN Append(accumulator, v) ELSE accumulator
    BY <1>5
  <2>2. /\ LooperStep
        /\ requests' = requests + 1 /\ wedged' = wedged
        /\ \/ iterations' = iterations /\ stack' = stack
           \/ iterations' = iterations + 1 /\ stack' # <<>> /\ ~wedged
    BY <1>1, <1>3, <1>5, NextIsCalled
  <2>3. LooperInv'
    BY <2>2, LooperIsKept
  <2>4. TypeInv'
    <3>1. accumulator' \in Seq(Nat)
      BY <2>1 DEF TypeInv
    <3>2. answered' \in Nat
      BY <1>1, <1>2
    <3>. QED
      BY <1>2, <1>5, <3>1, <3>2 DEF TypeInv, callerVars, connection
  <2>5. AskInv' /\ SinkCountInv'
    BY <1>1, <1>2, <1>3, <1>5, <2>2 DEF AskInv, SinkCountInv, callerVars
  <2>6. ContentInv'
    BY <1>2, <1>4, <1>5, <2>1 DEF ContentInv
  <2>7. ResultInv'
    BY <1>3, <1>5 DEF ResultInv
  <2>. QED
    BY <2>3, <2>4, <2>5, <2>6, <2>7
<1>6. CASE /\ results' = Append(results, [done |-> End, result |-> accumulator])
           /\ accumulator' = <<>>
           /\ sink # "AbortNow" => Yield(source) = <<>> /\ ~NeverEnds
           /\ UNCHANGED <<looperVars, consumed, source>>
  <2>1. LooperInv'
    BY <1>6, LooperIsKept
  <2>2. TypeInv'
    <3>1. answered' \in Nat
      BY <1>1, <1>2
    <3>. QED
      BY <1>2, <1>6, <3>1, EmptySeq DEF TypeInv, callerVars, connection
  <2>3. results' = <<[done |-> End, result |-> accumulator]>>
    BY <1>3, <1>6
  <2>4. results' # <<>> /\ StreamOver'
    BY <2>3 DEF StreamOver
  <2>5. AskInv' /\ SinkCountInv'
    BY <1>1, <1>2, <1>3, <1>6, <2>4 DEF AskInv, SinkCountInv, looperVars, callerVars
  <2>6. sink # "AbortNow" => consumed = contents
    <3>1. consumed \in Seq(Nat)
      BY DEF TypeInv
    <3>. QED
      BY <1>6, <3>1, ConcatEmptySeq DEF ContentInv
  <2>7. accumulator = IF sink = "Reduce" THEN contents ELSE <<>>
    BY <1>4, <2>6 DEF ContentInv
  <2>8. ResultInv'
    BY <1>2, <1>6, <2>3, <2>6, <2>7 DEF ResultInv, connection
  <2>9. ContentInv'
    BY <1>2, <1>6, <2>4 DEF ContentInv, NeverEnds, Yield, connection
  <2>. QED
    BY <2>1, <2>2, <2>5, <2>8, <2>9
<1>. QED
  BY <1>5, <1>6, AnswerIsValueOrEnd

LEMMA SinkStutters ==
  ASSUME SinkInv,
         UNCHANGED <<looperVars, source, sinkVars, asked, answered, callerVars, connection>>
  PROVE  SinkInv'
<1>. USE DEF SinkInv
<1>1. LooperInv'
  BY LooperIsKept
<1>2. TypeInv' /\ AskInv' /\ SinkCountInv'
  BY DEF TypeInv, AskInv, SinkCountInv, looperVars, sinkVars, callerVars, connection
<1>3. ContentInv' /\ ResultInv'
  <2>1. UNCHANGED StreamOver
    BY DEF StreamOver, sinkVars, callerVars
  <2>. QED
    BY <2>1 DEF ContentInv, ResultInv, NeverEnds, Yield, sinkVars, connection
<1>. QED
  BY <1>1, <1>2, <1>3

-----------------------------------------------------------------------------
(* The steps of the whole. *)
LEMMA InitCheckedInv == CheckedInit => CheckedInv
<1>. SUFFICES ASSUME CheckedInit PROVE CheckedInv
  OBVIOUS
<1>. USE DEF CheckedInit
<1>1. IInv
  BY InitIInv
<1>2. /\ faults = 0 /\ i = 1 /\ latest = 0 /\ skipped = <<>> /\ aborted = Running
      /\ done = Running /\ errors = <<>> /\ thrown = FALSE
  BY DEF Checker!Init
<1>3. asked = 0 /\ answered = 0 /\ results = <<>> /\ sinkHeld /\ ~threw
      /\ stack = <<>> /\ requests = 0
  BY DEF Init, CreateReduce, Looper!Init
<1>4. BaseInv
  <2>1. Watcher!IInv
    BY SameInit, WatcherIsWellFormed, Watcher!InitIInv
  <2>. QED
    BY <1>1, <1>2, <1>3, <2>1 DEF BaseInv, IInv, TypeInv
<1>5. VerdictIsRight
  BY <1>2 DEF VerdictIsRight, Checker!Clean
<1>6. SinkInv
  BY <1>1, <1>3 DEF IInv, SinkInv, SinkCountInv
<1>7. SeesInv
  BY <1>2, <1>3 DEF SeesInv
<1>. QED
  BY <1>4, <1>5, <1>6, <1>7 DEF CheckedInv

(* A request is refused by no checker: a sink asks for nothing when it has *)
(* been told the end.                                                      *)
LEMMA NoRequestIsRefused ==
  ASSUME CheckedInv, AskThrows
  PROVE  FALSE
<1>. USE DEF CheckedInv, BaseInv
<1>1. Checker!RequestThrows(Running) /\ asked < iterations
  BY DEF AskThrows
<1>2. options.notifyEagerly
  BY <1>1 DEF Checker!RequestThrows, Checker!Completes
<1>3. SinkInv /\ SeesInv
  BY <1>2 DEF Watched
<1>4. sink # "AbortNow"
  BY <1>1, <1>3, SinkOutstanding DEF SinkInv, AskInv
<1>5. results = <<>>
  BY <1>1, <1>3, <1>4, SinkOutstanding
<1>6. aborted = Running /\ done = Running
  BY <1>3, <1>4, <1>5 DEF SeesInv
<1>. QED
  BY <1>1, <1>6, RequestIsNotRefused

LEMMA AskKeepsAll ==
  ASSUME CheckedInv, CheckedAsk
  PROVE  CheckedInv'
<1>. USE DEF CheckedInv
<1>1. /\ Watcher!IInv /\ faults \in Nat /\ source \in SourceStates
      /\ asked \in Nat /\ answered \in 0..asked /\ i = asked + 1 /\ skipped = <<>>
  BY DEF BaseInv
<1>2. faults' = faults
  BY DEF CheckedAsk
<1>3. PICK abort \in {Running, End} :
        \/ Ask /\ abort = Running /\ Checker!RequestForwarded(abort, FALSE)
        \/ ConnectAbortNow /\ abort = End /\ Checker!RequestForwarded(abort, FALSE)
        \/ AskThrows /\ abort = Running
  BY DEF CheckedAsk
<1>4. ~AskThrows
  BY NoRequestIsRefused
<1>5. CASE /\ Checker!RequestForwarded(abort, FALSE)
           /\ \/ Ask /\ abort = Running
              \/ ConnectAbortNow /\ abort = End
  <2>1. /\ Watcher!IInv'
        /\ i' = i + 1
        /\ aborted' = IF aborted = Running THEN abort ELSE aborted
        /\ \A k \in 1..(i - 1) : counter'[k] = counter[k]
        /\ counter'[i] = 0
        /\ UNCHANGED <<options, skipped, latest, done, terminated>>
        /\ Checker!Clean' => Checker!Clean
        /\ aborted = Running /\ done = Running /\ Checker!Clean => Checker!Clean'
    BY <1>1, <1>5, RequestPasses
  <2>2. /\ asked' = asked + 1
        /\ UNCHANGED <<source, sinkVars, answered, callerVars, connection>>
    BY <1>1, <1>5 DEF Ask, ConnectAbortNow
  <2>3. BaseInv'
    BY <1>1, <1>2, <2>1, <2>2 DEF BaseInv
  <2>4. Watched' <=> Watched
    BY <1>2, <2>1 DEF Watched
  <2>5. ASSUME Watched
        PROVE  SinkInv' /\ SeesInv' /\ aborted = Running /\ done = Running
    <3>1. SinkInv /\ SeesInv
      BY <2>5
    <3>2. SinkInv' /\ results = <<>>
      BY <1>5, <3>1, SinkAsks, SinkConnects
    <3>3. \/ sink # "AbortNow" /\ abort = Running
          \/ sink = "AbortNow" /\ abort = End /\ asked = 0
      BY <1>5, <3>1, SinkAsks DEF ConnectAbortNow
    <3>4. aborted = Running /\ done = Running
      BY <1>1, <3>1, <3>2, <3>3 DEF SeesInv
    <3>5. \A k \in (answered' + 1)..asked' : counter'[k] = 0
      <4>. TAKE k \in (answered' + 1)..asked'
      <4>1. CASE k = i
        BY <2>1, <4>1
      <4>2. CASE k # i
        <5>1. k \in (answered + 1)..asked /\ k \in 1..(i - 1)
          BY <1>1, <2>2, <4>2
        <5>. QED
          BY <2>1, <3>1, <5>1 DEF SeesInv
      <4>. QED
        BY <4>1, <4>2
    <3>6. \A k \in 1..answered' : counter'[k] > 0
      <4>. TAKE k \in 1..answered'
      <4>1. k \in 1..answered /\ k \in 1..(i - 1)
        BY <1>1, <2>2
      <4>. QED
        BY <2>1, <3>1, <4>1 DEF SeesInv
    <3>7. aborted' = IF sink' = "AbortNow" /\ asked' > 0 THEN End ELSE Running
      BY <1>1, <2>1, <2>2, <3>3, <3>4 DEF sinkVars
    <3>8. SeesInv'
      BY <2>1, <2>2, <3>1, <3>5, <3>6, <3>7 DEF SeesInv, sinkVars
    <3>. QED
      BY <3>2, <3>4, <3>8
  <2>6. VerdictIsRight'
    BY <1>2, <2>1, <2>5 DEF VerdictIsRight, Watched
  <2>. QED
    BY <2>3, <2>4, <2>5, <2>6
<1>. QED
  BY <1>3, <1>4, <1>5

(* The answer that the source owes is acceptable until there is a fault,   *)
(* and after it to an eager checker, which has let nothing else through.   *)
LEMMA AnswerGoesThrough ==
  ASSUME CheckedInv, CheckedAnswer
  PROVE  \E k \in 1..(i - 1), d \in {Running, End} :
           /\ Checker!CallbackCompletes(k, d)
           /\ k = answered + 1
           /\ answered < asked /\ answered' = answered + 1
           /\ source' \in SourceStates
           /\ UNCHANGED <<asked, sink, sinkHeld, callerVars, connection, faults>>
           /\ Watched => /\ AnswerRequest
                         /\ Acceptable(k, d)
                         /\ done = Running
                         /\ d # Running <=> results' # <<>>
<1>. USE DEF CheckedInv
<1>1. /\ Watcher!IInv /\ source \in SourceStates
      /\ asked \in Nat /\ answered \in 0..asked /\ i = asked + 1
  BY DEF BaseInv
<1>2. PICK answer, k, d :
        /\ answer = SourceAnswer(source, AbortOfSink)
        /\ k = answered + 1 /\ d = answer.done
        /\ AnswerDue
        /\ Answered(answer)
        /\ Invoke(k, d, answer.value)
        /\ UNCHANGED <<asked, sink, sinkHeld, callerVars, connection, faults>>
  BY DEF CheckedAnswer
<1>3. /\ d \in {Running, End} /\ source' \in SourceStates
      /\ d = Running => sink # "AbortNow"
  <2>1. AbortOfSink \in {Running, End}
    BY DEF AbortOfSink
  <2>2. CASE IsSet(d)
    <3>1. d = End /\ answer.source = source
      BY <1>1, <1>2, <2>1, <2>2, EndingAnswers
    <3>. QED
      BY <1>1, <1>2, <3>1, SourcesAssumption DEF Answered, SourcesAssumption
  <2>3. CASE ~IsSet(d)
    <3>1. AbortOfSink = Running /\ answer.source \in SourceStates
      BY <1>1, <1>2, <2>1, <2>3, ValueAnswers
    <3>. QED
      BY <1>2, <2>3, <3>1, SourcesAssumption
         DEF Answered, IsSet, AbortOfSink, SourcesAssumption
  <2>. QED
    BY <2>2, <2>3
<1>4. answered < asked /\ k \in 1..(i - 1) /\ answered' = answered + 1
  BY <1>1, <1>2 DEF AnswerDue, Answered
<1>5. ASSUME Watched
      PROVE  results = <<>> /\ done = Running /\ Acceptable(k, d)
  <2>1. SinkInv /\ SeesInv
    BY <1>5
  <2>2. results = <<>> /\ done = Running
    BY <1>4, <2>1, SinkOutstanding DEF SeesInv
  <2>3. aborted = Running \/ sink = "AbortNow"
    BY <2>1 DEF SeesInv
  <2>4. counter[k] = 0 /\ k = latest + 1
    BY <1>1, <1>2, <1>4, <2>1 DEF SeesInv
  <2>. QED
    BY <1>3, <2>2, <2>3, <2>4 DEF Acceptable
<1>6. ~Checker!CallbackThrows(k, d)
  <2>. SUFFICES ASSUME Checker!CallbackThrows(k, d) PROVE FALSE
    OBVIOUS
  <2>1. options.notifyEagerly
    BY DEF Checker!CallbackThrows, Checker!Completes
  <2>2. Acceptable(k, d)
    BY <1>5, <2>1 DEF Watched
  <2>. QED
    BY <1>1, <1>3, <1>4, <2>2, CallbackIsRefused
<1>7. /\ Checker!CallbackCompletes(k, d)
      /\ DrainCallback(Checker!CallbackDone(d), answer.value)
  BY <1>2, <1>6 DEF Invoke
<1>8. ASSUME Watched
      PROVE  AnswerRequest /\ (d # Running <=> results' # <<>>)
  <2>1. DrainCallback(d, answer.value)
    BY <1>5, <1>7, <1>8 DEF Checker!CallbackDone
  <2>2. ~ReduceIsGone
    BY <1>8 DEF ReduceIsGone, SinkInv, SinkCountInv
  <2>3. AnswerRequest
    BY <1>2, <2>1, <2>2 DEF AnswerRequest
  <2>4. \/ ~IsSet(d) /\ UNCHANGED results
        \/ IsSet(d) /\ results' = Append(results, [done |-> d, result |-> accumulator])
    BY <2>1 DEF DrainCallback, OnValue, OnDone
  <2>. QED
    BY <1>5, <1>8, <2>3, <2>4 DEF IsSet
<1>. QED
  BY <1>2, <1>3, <1>4, <1>5, <1>7, <1>8

LEMMA AnswerKeepsAll ==
  ASSUME CheckedInv, CheckedAnswer
  PROVE  CheckedInv'
<1>. USE DEF CheckedInv
<1>1. /\ Watcher!IInv /\ faults \in Nat /\ source \in SourceStates
      /\ asked \in Nat /\ answered \in 0..asked /\ i = asked + 1 /\ skipped = <<>>
      /\ counter \in Seq(Nat) /\ Len(counter) = i - 1
  BY DEF BaseInv, Watcher!IInv, Watcher!TypeInv
<1>2. PICK k \in 1..(i - 1), d \in {Running, End} :
        /\ Checker!CallbackCompletes(k, d)
        /\ k = answered + 1
        /\ answered < asked /\ answered' = answered + 1
        /\ source' \in SourceStates
        /\ UNCHANGED <<asked, sink, sinkHeld, callerVars, connection, faults>>
        /\ Watched => /\ AnswerRequest
                      /\ Acceptable(k, d)
                      /\ done = Running
                      /\ d # Running <=> results' # <<>>
  BY AnswerGoesThrough
<1>3. /\ Watcher!IInv'
      /\ counter' = [counter EXCEPT ![k] = @ + 1]
      /\ latest' = IF k \in {latest, latest + 1} THEN k ELSE latest
      /\ done' = IF done = Running THEN d ELSE done
      /\ UNCHANGED <<options, i, skipped, aborted, terminated>>
      /\ Checker!Clean' => Checker!Clean /\ counter[k] = 0
      /\ Acceptable(k, d) /\ Checker!Clean => Checker!Clean'
  BY <1>1, <1>2, CallbackPasses
<1>4. BaseInv'
  BY <1>1, <1>2, <1>3 DEF BaseInv
<1>5. VerdictIsRight'
  BY <1>2, <1>3 DEF VerdictIsRight, Watched
<1>6. ASSUME Watched
      PROVE  SinkInv' /\ SeesInv'
  <2>1. SinkInv'
    BY <1>2, <1>6, SinkIsAnswered
  <2>2. \A j \in 1..answered' : counter'[j] > 0
    <3>. TAKE j \in 1..answered'
    <3>1. j \in 1..(i - 1) /\ (j = k \/ j \in 1..answered) /\ counter[j] \in Nat
      BY <1>1, <1>2
    <3>. QED
      BY <1>1, <1>3, <1>6, <3>1 DEF SeesInv
  <2>3. \A j \in (answered' + 1)..asked' : counter'[j] = 0
    <3>. TAKE j \in (answered' + 1)..asked'
    <3>1. j \in 1..(i - 1) /\ j # k /\ j \in (answered + 1)..asked
      BY <1>1, <1>2
    <3>. QED
      BY <1>1, <1>3, <1>6, <3>1 DEF SeesInv
  <2>4. latest' = answered'
    BY <1>2, <1>3, <1>6 DEF SeesInv
  <2>5. SeesInv'
    BY <1>2, <1>3, <1>6, <2>2, <2>3, <2>4 DEF SeesInv
  <2>. QED
    BY <2>1, <2>5
<1>7. Watched' <=> Watched
  BY <1>2, <1>3 DEF Watched
<1>. QED
  BY <1>4, <1>5, <1>6, <1>7

(* A callback that was invoked before is always reported; if the checker   *)
(* is eager, the sink's callback is not called.                            *)
LEMMA FaultKeepsAll ==
  ASSUME CheckedInv, AnswerAgain
  PROVE  CheckedInv'
<1>. USE DEF CheckedInv
<1>1. /\ Watcher!IInv /\ faults \in Nat /\ source \in SourceStates
      /\ asked \in Nat /\ answered \in 0..asked /\ i = asked + 1 /\ skipped = <<>>
  BY DEF BaseInv
<1>2. PICK k \in 1..answered, d \in {Running, End} : Invoke(k, d, NoValue)
  BY DEF AnswerAgain
<1>3. /\ faults' = faults + 1
      /\ OnTopOfLooper => asked = iterations
      /\ UNCHANGED <<source, sink, sinkHeld, asked, answered, callerVars, connection>>
  BY DEF AnswerAgain
<1>4. k \in 1..(i - 1)
  BY <1>1
<1>5. Watched => counter[k] > 0
  BY DEF SeesInv
<1>6. Watched' => Watched /\ options'.notifyEagerly
  BY <1>1, <1>2, <1>3, <1>4, CallbackPasses, CallbackIsRefused DEF Watched, Invoke
<1>7. CASE Checker!CallbackCompletes(k, d)
  <2>1. /\ Watcher!IInv' /\ UNCHANGED <<options, i, skipped>>
        /\ Checker!Clean' => Checker!Clean /\ counter[k] = 0
        /\ counter[k] > 0 => ~options.notifyEagerly
    BY <1>1, <1>4, <1>7, CallbackPasses
  <2>2. ~Checker!Clean'
    BY <1>5, <2>1 DEF VerdictIsRight, Watched
  <2>3. ~Watched'
    BY <1>5, <1>6, <2>1
  <2>4. BaseInv'
    BY <1>1, <1>3, <2>1 DEF BaseInv
  <2>5. VerdictIsRight'
    BY <1>1, <1>3, <2>2 DEF VerdictIsRight
  <2>. QED
    BY <2>3, <2>4, <2>5
<1>8. CASE /\ Checker!CallbackThrows(k, d)
           /\ SourceCatches
           /\ UNCHANGED <<consumed, accumulator, results>>
  <2>1. /\ Watcher!IInv'
        /\ counter' \in {counter, [counter EXCEPT ![k] = @ + 1]}
        /\ UNCHANGED <<options, i, skipped, aborted, latest, done, terminated>>
        /\ ~Checker!Clean'
    BY <1>1, <1>4, <1>8, CallbackIsRefused
  <2>2. BaseInv'
    BY <1>1, <1>3, <2>1 DEF BaseInv
  <2>3. VerdictIsRight'
    BY <1>1, <1>3, <2>1 DEF VerdictIsRight
  <2>4. ASSUME Watched
        PROVE  SinkInv' /\ SeesInv'
    <3>1. SinkInv'
      BY <1>3, <1>8, <2>4, SinkIsUnwound DEF sinkVars
    <3>2. /\ counter \in Seq(Nat) /\ Len(counter) = i - 1
      BY <1>1 DEF Watcher!IInv, Watcher!TypeInv
    <3>3. \A j \in 1..answered' : counter'[j] > 0
      <4>. TAKE j \in 1..answered'
      <4>1. j \in 1..answered /\ j \in 1..(i - 1) /\ counter[j] > 0 /\ counter[j] \in Nat
        BY <1>1, <1>3, <2>4, <3>2 DEF SeesInv
      <4>. QED
        BY <1>4, <2>1, <3>2, <4>1
    <3>4. \A j \in (answered' + 1)..asked' : counter'[j] = 0
      <4>. TAKE j \in (answered' + 1)..asked'
      <4>1. j \in 1..(i - 1) /\ j # k /\ counter[j] = 0
        BY <1>1, <1>3, <2>4 DEF SeesInv
      <4>. QED
        BY <1>4, <2>1, <3>2, <4>1
    <3>5. SeesInv'
      BY <1>3, <1>8, <2>1, <2>4, <3>3, <3>4 DEF SeesInv
    <3>. QED
      BY <3>1, <3>5
  <2>. QED
    BY <1>6, <2>2, <2>3, <2>4
<1>. QED
  BY <1>2, <1>7, <1>8 DEF Invoke

LEMMA VerdictKeepsAll ==
  ASSUME CheckedInv, CallsVerdict
  PROVE  CheckedInv'
<1>. USE DEF CheckedInv
<1>1. /\ Watcher!IInv /\ faults \in Nat /\ source \in SourceStates
      /\ asked \in Nat /\ answered \in 0..asked /\ i = asked + 1 /\ skipped = <<>>
  BY DEF BaseInv
<1>2. results # <<>> /\ Checker!Terminate /\ UNCHANGED <<vars, faults>>
  BY DEF CallsVerdict, VerdictDue
<1>3. /\ Watcher!IInv'
      /\ UNCHANGED <<options, i, skipped, aborted, latest, counter, done>>
      /\ Checker!Clean' => Checker!Clean
      /\ latest = i - 1 /\ done # Running /\ Checker!Clean => Checker!Clean'
  BY <1>1, <1>2, VerdictIsGiven
<1>4. UNCHANGED <<looperVars, source, sinkVars, asked, answered, callerVars, connection>>
  BY <1>2 DEF vars
<1>5. BaseInv'
  BY <1>1, <1>2, <1>3, <1>4 DEF BaseInv
<1>6. Watched => latest = i - 1 /\ done # Running
  BY <1>1, <1>2 DEF SinkInv, SinkCountInv, SeesInv
<1>7. VerdictIsRight'
  BY <1>2, <1>3, <1>6 DEF VerdictIsRight, Watched
<1>8. Watched => SinkInv'
  BY <1>4, SinkStutters
<1>9. Watched => SeesInv'
  BY <1>3, <1>4 DEF SeesInv, sinkVars
<1>10. Watched' <=> Watched
  BY <1>2, <1>3 DEF Watched
<1>. QED
  BY <1>5, <1>7, <1>8, <1>9, <1>10

LEMMA ElsewhereKeepsAll ==
  ASSUME CheckedInv, (Elsewhere \/ UNCHANGED allVars)
  PROVE  CheckedInv'
<1>. USE DEF CheckedInv
<1>1. UNCHANGED <<checkerVars, faults>> /\ (ConnectDrain \/ Return \/ UNCHANGED vars)
  BY DEF Elsewhere, allVars
<1>2. UNCHANGED <<source, sinkVars, asked, answered, callerVars, connection>>
  BY <1>1 DEF ConnectDrain, Return, vars
<1>3. Watcher!IInv'
  <2>1. UNCHANGED Watcher!vars
    BY <1>1 DEF checkerVars, Watcher!vars, Watcher!stream, Watcher!answers
  <2>. QED
    BY <2>1, WatcherIsWellFormed, Watcher!NextIInv DEF BaseInv
<1>4. BaseInv'
  BY <1>1, <1>2, <1>3 DEF BaseInv, checkerVars
<1>5. VerdictIsRight'
  BY <1>1 DEF VerdictIsRight, checkerVars, Checker!Clean
<1>6. Watched => SinkInv'
  <2>1. UNCHANGED vars => UNCHANGED looperVars
    BY DEF vars
  <2>. QED
    BY <1>1, <1>2, <2>1, SinkConnects, SinkReturns, SinkStutters
<1>7. Watched => SeesInv'
  BY <1>1, <1>2 DEF SeesInv, checkerVars, sinkVars
<1>8. Watched' <=> Watched
  BY <1>1 DEF Watched, checkerVars
<1>. QED
  BY <1>4, <1>5, <1>6, <1>7, <1>8

LEMMA NextCheckedInv == CheckedInv /\ [CheckedNext]_allVars => CheckedInv'
  BY AskKeepsAll, AnswerKeepsAll, FaultKeepsAll, VerdictKeepsAll, ElsewhereKeepsAll
     DEF CheckedNext

LEMMA SpecCheckedInv == CheckedSpec => []CheckedInv
  BY InitCheckedInv, NextCheckedInv, PTL DEF CheckedSpec

-----------------------------------------------------------------------------
(* protocol_checker.h blames no one wrongly and lets no repeated callback  *)
(* pass: with drain.h, reduce.h or abort_now.h over values.h, count.cc or  *)
(* empty.h, whatever the options, the length of the stream and the timing  *)
(* of the answers, it has reported something exactly when a callback has   *)
(* been invoked twice, before Terminate and after it.                      *)
THEOREM CheckersVerdictIsRight == CheckedSpec => []VerdictIsRight
<1>1. CheckedInv => VerdictIsRight
  BY DEF CheckedInv
<1>. QED
  BY <1>1, SpecCheckedInv, PTL

(* With notifyEagerly the inner lambda of protocol_checker.h throws before *)
(* it calls the sink: however often callbacks are repeated, and wherever   *)
(* the exception is caught, at most one request is outstanding, no value   *)
(* is lost or repeated, and onDone is called once with the whole stream.   *)
THEOREM EagerCheckerShieldsSink == CheckedSpec => []EagerShieldsSink
<1>1. ASSUME SinkInv
      PROVE  OneOutstandingRequest /\ ValuesInOrder /\ DoneMeansEverything
  <2>1. OneOutstandingRequest
    <3>1. /\ asked \in Nat /\ answered \in Nat /\ requests \in Nat
          /\ asked <= answered + 1 /\ answered <= asked
      BY <1>1, SinkOutstanding DEF SinkInv, SinkCountInv
    <3>2. requests <= answered
      BY <1>1, <3>1 DEF SinkInv, SinkCountInv
    <3>. QED
      BY <3>1, <3>2 DEF OneOutstandingRequest
  <2>2. ValuesInOrder
    BY <1>1 DEF SinkInv, ContentInv, ValuesInOrder
  <2>3. DoneMeansEverything
    BY <1>1 DEF SinkInv, ResultInv, DoneMeansEverything
  <2>. QED
    BY <2>1, <2>2, <2>3
<1>2. CheckedInv => EagerShieldsSink
  BY <1>1 DEF CheckedInv, Watched, EagerShieldsSink
<1>. QED
  BY <1>2, SpecCheckedInv, PTL

(* While no callback is repeated the checker is not in the way: connecting *)
(* it between source and sink (through.h) changes nothing of what Pull     *)
(* does, so what PipelineProofs shows holds of a checked pipeline too.     *)
THEOREM CheckerIsTransparent == CheckedSpec /\ [](faults = 0) => Spec
<1>1. CheckedInit => Init
  BY DEF CheckedInit
<1>2. CheckedInv /\ faults = 0 /\ (faults = 0)' /\ [CheckedNext]_allVars => [Next]_vars
  <2>. SUFFICES ASSUME CheckedInv, faults = 0, faults' = 0, [CheckedNext]_allVars
                PROVE  [Next]_vars
    OBVIOUS
  <2>1. CASE CheckedAsk
    BY <2>1, NoRequestIsRefused DEF CheckedAsk, Next
  <2>2. CASE CheckedAnswer
    BY <2>2, AnswerGoesThrough DEF Watched, Next
  <2>3. CASE AnswerAgain
    BY <2>3 DEF AnswerAgain
  <2>4. CASE CallsVerdict
    BY <2>4 DEF CallsVerdict
  <2>5. CASE Elsewhere
    BY <2>5 DEF Elsewhere, Next
  <2>6. CASE UNCHANGED allVars
    BY <2>6 DEF allVars
  <2>. QED
    BY <2>1, <2>2, <2>3, <2>4, <2>5, <2>6 DEF CheckedNext
<1>. QED
  BY <1>1, <1>2, SpecCheckedInv, PTL DEF CheckedSpec, Spec

LEMMA OptionsAreFixed == [CheckedNext]_allVars => UNCHANGED options
<1>. SUFFICES ASSUME [CheckedNext]_allVars PROVE UNCHANGED options
  OBVIOUS
<1>1. ASSUME NEW k, NEW d, NEW value, Invoke(k, d, value)
      PROVE  UNCHANGED options
  BY <1>1 DEF Invoke, Checker!CallbackCompletes, Checker!CallbackThrows
<1>2. CASE CheckedAsk
  BY <1>2 DEF CheckedAsk, AskThrows, Checker!RequestForwarded, Checker!RequestThrows
<1>3. CASE CheckedAnswer \/ AnswerAgain
  BY <1>1, <1>3 DEF CheckedAnswer, AnswerAgain
<1>4. CASE CallsVerdict
  BY <1>4 DEF CallsVerdict, Checker!Terminate
<1>5. CASE Elsewhere \/ UNCHANGED allVars
  BY <1>5 DEF Elsewhere, allVars, checkerVars
<1>. QED
  BY <1>2, <1>3, <1>4, <1>5 DEF CheckedNext

(* An eager checker makes of a source that repeats callbacks one that does *)
(* not (protocol_checker.h, the inner lambda): what sink and source do     *)
(* together, the refused callbacks apart, is PullProtocol, however often   *)
(* the source is at fault.                                                 *)
THEOREM EagerStreamIsProtocol == CheckedSpec /\ options.notifyEagerly => ProtocolSpec
<1>1. CheckedInit => Protocol!Init
  BY DEF CheckedInit, Init, Protocol!Init
<1>2. CheckedInv /\ options.notifyEagerly /\ [CheckedNext]_allVars
        => [Protocol!Next]_(Protocol!vars)
  <2>. SUFFICES ASSUME CheckedInv, options.notifyEagerly, [CheckedNext]_allVars
                PROVE  [Protocol!Next]_(Protocol!vars)
    OBVIOUS
  <2>0. Watched /\ BaseInv /\ SinkInv /\ before \in Nat
    BY DEF CheckedInv, Watched, SinkInv, TypeInv
  <2>1. /\ asked \in Nat /\ answered \in Nat
        /\ answered < asked => results = <<>>
    BY <2>0, SinkOutstanding
  <2>. USE DEF Protocol!vars
  <2>2. CASE CheckedAsk
    <3>1. Ask \/ ConnectAbortNow
      BY <2>2, NoRequestIsRefused DEF CheckedAsk
    <3>2. /\ asked' = asked + 1
          /\ UNCHANGED <<sinkVars, answered, callerVars>>
      BY <3>1 DEF Ask, ConnectAbortNow
    <3>3. \/ sink # "AbortNow" /\ results = <<>>
          \/ sink = "AbortNow"
      BY <2>0, <3>1, SinkAsks DEF ConnectAbortNow
    <3>4. Protocol!Pull \/ Protocol!AbortStream
      BY <2>0, <2>1, <3>2, <3>3
         DEF Protocol!Pull, Protocol!AbortStream, sinkVars, callerVars
    <3>. QED
      BY <3>4 DEF Protocol!Next
  <2>3. CASE CheckedAnswer
    <3>1. AnswerRequest
      BY <2>0, <2>3, AnswerGoesThrough
    <3>2. /\ AnswerDue /\ answered' = answered + 1
          /\ UNCHANGED <<asked, sink, before>>
          /\ \/ sink # "AbortNow" /\ UNCHANGED results
             \/ results' = Append(results, [done |-> End, result |-> accumulator])
      BY <2>0, <3>1, AnswerIsValueOrEnd DEF SinkInv, callerVars
    <3>3. before + answered < before + asked /\ results = <<>>
      BY <2>0, <2>1, <3>2 DEF AnswerDue
    <3>4. Protocol!AnswerValue \/ Protocol!AnswerEnd
      BY <2>0, <2>1, <3>2, <3>3 DEF Protocol!AnswerValue, Protocol!AnswerEnd
    <3>. QED
      BY <3>4 DEF Protocol!Next
  <2>4. CASE AnswerAgain
    <3>1. PICK k \in 1..answered, d \in {Running, End} : Invoke(k, d, NoValue)
      BY <2>4 DEF AnswerAgain
    <3>2. ~Checker!CallbackCompletes(k, d)
      <4>1. /\ Watcher!IInv /\ skipped = <<>> /\ k \in 1..(i - 1)
            /\ counter[k] > 0
        BY <2>0 DEF BaseInv, CheckedInv, SeesInv
      <4>. QED
        BY <4>1, CallbackPasses
    <3>3. UNCHANGED results
      BY <3>1, <3>2 DEF Invoke
    <3>. QED
      BY <2>4, <3>3 DEF AnswerAgain, callerVars
  <2>5. CASE CallsVerdict
    BY <2>5 DEF CallsVerdict, vars, sinkVars, callerVars
  <2>6. CASE Elsewhere
    BY <2>6 DEF Elsewhere, ConnectDrain, Return, sinkVars, callerVars
  <2>7. CASE UNCHANGED allVars
    BY <2>7 DEF allVars, vars, sinkVars, callerVars
  <2>. QED
    BY <2>2, <2>3, <2>4, <2>5, <2>6, <2>7 DEF CheckedNext
<1>3. options.notifyEagerly /\ [CheckedNext]_allVars => (options.notifyEagerly)'
  BY OptionsAreFixed
<1>. QED
  BY <1>1, <1>2, <1>3, SpecCheckedInv, PTL DEF CheckedSpec, ProtocolSpec, Protocol!Spec
=============================================================================
