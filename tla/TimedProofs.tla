----------------------------- MODULE TimedProofs -----------------------------
(***************************************************************************)
(* Proofs about TimedPipeline: its steps are those of its two parts, so    *)
(* that what is proved of Pipeline and of EventLoop holds of them when     *)
(* they run together, and no stream is left behind by the loop.  The       *)
(* timers below a pipeline then keep what they promise.                    *)
(***************************************************************************)
EXTENDS TimedPipeline, PipelineProofs

(* Pull, sink, source and looper, run by an event loop, do nothing they    *)
(* would not do elsewhere: every theorem of PipelineProofs holds.          *)
THEOREM RunsAsAPipeline == TimedSpec => Spec
<1>1. TimedInit => Init
  BY DEF TimedInit
<1>2. [TimedNext]_allVars => [Next]_vars
  <2>. SUFFICES ASSUME [TimedNext]_allVars PROVE [Next]_vars
    OBVIOUS
  <2>1. CASE TimedNext
    BY <2>1 DEF TimedNext, CreateLoop, TimedConnect, TimedAsk, TimedAnswer, LoopRuns,
       TimePasses, TimedReturn, CallerActs, Next
  <2>2. CASE UNCHANGED allVars
    BY <2>2 DEF allVars
  <2>. QED
    BY <2>1, <2>2
<1>. QED
  BY <1>1, <1>2, PTL DEF TimedSpec, Spec

(* Nor does the pipeline drive the event loop in a way that user code of   *)
(* EventLoop would not: every safety theorem about timers holds of it.     *)
THEOREM RunsOnAnEventLoop == TimedSpec => Loop!Spec
<1>1. TimedInit => Loop!EventLoopInit
  BY DEF TimedInit
<1>2. [TimedNext]_allVars => [Loop!Next]_(Loop!vars)
  <2>. SUFFICES ASSUME [TimedNext]_allVars PROVE [Loop!Next]_(Loop!vars)
    OBVIOUS
  <2>0. UNCHANGED loopVars => UNCHANGED Loop!vars
    BY DEF loopVars, Loop!vars, Loop!libuvVars, Loop!heap, Loop!members, Loop!history
  <2>1. CASE CreateLoop
    BY <2>1 DEF CreateLoop, Loop!Next, Loop!User
  <2>2. CASE TimedConnect
    BY <2>0, <2>2 DEF TimedConnect
  <2>3. CASE TimedAsk
    <3>1. (\E ms \in Delays : Loop!SetTimeout(ms)) \/ UNCHANGED loopVars
      BY <2>3 DEF TimedAsk
    <3>2. (\E ms \in Delays : Loop!SetTimeout(ms)) => Loop!Next
      BY DEF Loop!Next, Loop!User, Loop!StartTimer
    <3>. QED
      BY <2>0, <3>1, <3>2
  <2>4. CASE TimedAnswer
    BY <2>0, <2>4 DEF TimedAnswer
  <2>5. CASE LoopRuns
    BY <2>5 DEF LoopRuns, Loop!Next, Loop!User
  <2>6. CASE TimePasses
    BY <2>6 DEF TimePasses, Loop!Next
  <2>7. CASE TimedReturn
    BY <2>0, <2>7 DEF TimedReturn
  <2>8. CASE CallerActs
    BY <2>0, <2>8 DEF CallerActs
  <2>9. CASE UNCHANGED allVars
    BY <2>0, <2>9 DEF allVars
  <2>. QED
    BY <2>1, <2>2, <2>3, <2>4, <2>5, <2>6, <2>7, <2>8, <2>9 DEF TimedNext
<1>. QED
  BY <1>1, <1>2, PTL DEF TimedSpec, Loop!Spec

-----------------------------------------------------------------------------
(* There is a timer for each request, and that of the outstanding one is   *)
(* in libuv's heap, or its callback is running.                            *)
TimerInv ==
  /\ phase = "idle" => current = 0
  /\ Timed => /\ ~threw
              /\ made = asked
              /\ answered < asked => asked \in active \cup {current}

LEMMA InitTimerInv == TimedInit => TimerInv
  BY DEF TimedInit, Init, Loop!EventLoopInit, Loop!Init, TimerInv

(* Of a round of libuv only the call of a timer takes the timer of the     *)
(* outstanding request out of the heap.                                    *)
LEMMA LoopKeepsTimer ==
  ASSUME IInv, TimerInv, LoopRuns
  PROVE  TimerInv'
<1>1. UNCHANGED <<threw, asked, answered, timing>> /\ (current # 0 => answered = current)
  BY DEF LoopRuns, vars, callerVars, connection
<1>2. asked \in Nat /\ answered \in Nat
  BY DEF IInv, TypeInv
<1>. USE DEF TimerInv, Timed
<1>3. CASE Loop!Run
  <2>1. phase' # "idle" /\ UNCHANGED <<made, active, current>>
    BY <1>3 DEF Loop!Run, Loop!EnterUvRun, Loop!heap
  <2>. QED
    BY <1>1, <2>1
<1>4. CASE Loop!CallTimer
  <2>1. PICK t \in active : Loop!StopAndAgain(t, Loop!Repeat(t)) /\ current' = t
    BY <1>4 DEF Loop!CallTimer
  <2>2. current = 0 /\ phase' # "idle" /\ UNCHANGED made
    BY <1>4 DEF Loop!CallTimer, Loop!timerVars
  <2>3. active \ {t} \subseteq active'
    BY <2>1 DEF Loop!StopAndAgain, Loop!TimerStart
  <2>. QED
    BY <1>1, <1>2, <2>1, <2>2, <2>3
<1>5. CASE Loop!CallbackReturns
  <2>1. current' = 0 /\ UNCHANGED made /\ answered = current
    BY <1>1, <1>5 DEF Loop!CallbackReturns, Loop!timerVars
  <2>2. active \ {current} \subseteq active'
    BY <1>5 DEF Loop!CallbackReturns, Loop!CloseTimer, Loop!Close, Loop!heap
  <2>. QED
    BY <1>1, <1>2, <2>1, <2>2
<1>6. CASE Loop!TimersDone \/ Loop!Poll
  <2>1. phase' # "idle" /\ UNCHANGED <<made, active, current>>
    BY <1>6 DEF Loop!TimersDone, Loop!Poll, Loop!libuvVars, Loop!heap
  <2>. QED
    BY <1>1, <2>1
<1>7. CASE Loop!UvRunReturns
  <2>1. current = 0 /\ UNCHANGED <<made, active, current>>
    BY <1>7 DEF Loop!UvRunReturns, Loop!heap
  <2>. QED
    BY <1>1, <2>1
<1>. QED
  BY <1>3, <1>4, <1>5, <1>6, <1>7 DEF LoopRuns, Loop!RunStep

LEMMA NextTimerInv == IInv /\ TimerInv /\ [TimedNext]_allVars => TimerInv'
<1>. SUFFICES ASSUME IInv, TimerInv, [TimedNext]_allVars PROVE TimerInv'
  OBVIOUS
<1>0. asked \in Nat /\ answered \in Nat
  BY DEF IInv, TypeInv
<1>. USE DEF TimerInv, Timed
<1>1. UNCHANGED vars => UNCHANGED <<threw, asked, answered, timing>>
  BY DEF vars, callerVars, connection
<1>2. UNCHANGED loopVars => UNCHANGED <<phase, current, made, active>>
  BY DEF loopVars
<1>3. CASE CreateLoop
  BY <1>1, <1>3 DEF CreateLoop, Loop!Create, Loop!heap
<1>4. CASE TimedConnect
  BY <1>2, <1>4 DEF TimedConnect, ConnectDrain, callerVars, connection
<1>5. CASE TimedAsk
  <2>1. asked' = asked + 1 /\ UNCHANGED <<threw, answered, timing>>
    BY <1>5 DEF TimedAsk, Ask, ConnectAbortNow, callerVars, connection
  <2>2. CASE Timed
    <3>1. PICK ms \in Delays : Loop!SetTimeout(ms)
      BY <1>5, <2>2 DEF TimedAsk
    <3>2. /\ made' = made + 1 /\ active' = active \cup {made + 1}
          /\ UNCHANGED <<phase, current>>
      BY <3>1 DEF Loop!SetTimeout, Loop!CreateTimer, Loop!StartUvTimer, Loop!TimerStart
    <3>. QED
      BY <1>0, <2>1, <2>2, <3>2
  <2>3. CASE ~Timed
    BY <1>2, <1>5, <2>1, <2>3 DEF TimedAsk
  <2>. QED
    BY <2>2, <2>3
<1>6. CASE TimedAnswer
  <2>1. UNCHANGED <<asked, timing>> /\ UNCHANGED loopVars
    BY <1>6 DEF TimedAnswer, AnswerRequest, AnswerNobody, OnValueThrows, connection
  <2>2. Timed => UNCHANGED threw /\ (answered' = answered \/ answered' = answered + 1)
    BY <1>6 DEF TimedAnswer, AnswerRequest, AnswerNobody, Answered, callerVars
  <2>. QED
    BY <1>0, <1>2, <2>1, <2>2
<1>7. CASE LoopRuns
  BY <1>7, LoopKeepsTimer
<1>8. CASE TimePasses
  BY <1>1, <1>8 DEF TimePasses, Loop!TimePasses, Loop!heap
<1>9. CASE TimedReturn
  BY <1>2, <1>9 DEF TimedReturn, Return, callerVars, connection
<1>10. CASE CallerActs
  <2>1. Timed => ~Retry
    BY DEF Retry, CallerRetries
  <2>2. Timed => UNCHANGED <<threw, asked, answered>>
    BY <1>10, <2>1 DEF CallerActs, DropSink, RetryReduce, callerVars
  <2>3. UNCHANGED timing /\ UNCHANGED loopVars
    BY <1>10 DEF CallerActs, DropSink, Retry, RetryReduce, connection
  <2>. QED
    BY <1>2, <2>2, <2>3
<1>11. CASE UNCHANGED allVars
  BY <1>1, <1>2, <1>11 DEF allVars
<1>. QED
  BY <1>3, <1>4, <1>5, <1>6, <1>7, <1>8, <1>9, <1>10, <1>11 DEF TimedNext

LEMMA TimedIInv == TimedSpec => [](IInv /\ TimerInv)
<1>1. TimedSpec => []IInv
  BY RunsAsAPipeline, SpecIInv, PTL
<1>. QED
  BY <1>1, InitTimerInv, NextTimerInv, PTL DEF TimedSpec

(* uv_event_loop.cc's Run returns when no handle is left; drain.h's looper *)
(* has then made every request that the stream takes to its end.           *)
THEOREM NobodyIsLeftBehind == TimedSpec => []NoStreamLeftBehind
<1>1. IInv /\ TimerInv => NoStreamLeftBehind
  <2>. SUFFICES ASSUME IInv, TimerInv, Timed, asked > 0, stack = <<>>, phase = "idle",
                       ~Loop!Alive
                PROVE  results # <<>>
    BY DEF NoStreamLeftBehind
  <2>1. asked \notin active \cup {current} /\ ~threw
    BY DEF TimerInv, Loop!Alive, IInv, TypeInv
  <2>2. ~(answered < asked)
    BY <2>1 DEF TimerInv
  <2>3. StreamOver
    BY <2>2 DEF IInv, WaitInv
  <2>. QED
    BY <2>1, <2>3 DEF StreamOver
<1>. QED
  BY <1>1, TimedIInv, PTL

-----------------------------------------------------------------------------
(* What TimerProofs and EventLoopProofs show, of the loop below a pipeline. *)
Clock == INSTANCE TimerProofs WITH Types <- {"ONE_TIME"}, asked <- createdAt

LEMMA ClockIsWellFormed == Clock!TimeAssumption /\ Clock!TimerAssumption
  BY TimedAssumption DEF TimedAssumption, Clock!TimeAssumption, Clock!TimerAssumption,
     Clock!TimerTypes

(* The actions of the two instances of EventLoop are the same.             *)
LEMMA SameInit == Loop!EventLoopInit => Clock!EventLoopInit
  BY Zenon DEF Loop!EventLoopInit, Clock!EventLoopInit, Loop!Init, Clock!Init,
     Loop!Timers, Clock!Timers

LEMMA SameUser == Loop!User => Clock!User
<1>1. Loop!Create => Clock!Create
  BY Zenon DEF Loop!Create, Clock!Create, Loop!Providers, Clock!Providers,
     Loop!UpdateTime, Clock!UpdateTime, Loop!heap, Clock!heap, Loop!history, Clock!history
<1>2. ASSUME NEW opts
      PROVE  Loop!CreateTimer(opts) => Clock!CreateTimer(opts)
  BY Zenon DEF Loop!CreateTimer, Clock!CreateTimer, Loop!UserRuns, Clock!UserRuns,
     Loop!StartUvTimer, Clock!StartUvTimer, Loop!TimerStart, Clock!TimerStart,
     Loop!DueAt, Clock!DueAt
<1>3. Loop!StartTimer => Clock!StartTimer
  BY <1>2, Zenon DEF Loop!StartTimer, Clock!StartTimer, Loop!SetTimeout, Clock!SetTimeout,
     Loop!SetInterval, Clock!SetInterval
<1>4. Loop!Abort => Clock!Abort
  BY Zenon DEF Loop!Abort, Clock!Abort, Loop!libuvVars, Clock!libuvVars, Loop!heap, Clock!heap,
     Loop!history, Clock!history
<1>5. Loop!UserRuns => Clock!UserRuns
  BY Zenon DEF Loop!UserRuns, Clock!UserRuns
<1>6. (Loop!CreateWithoutCallback => Clock!CreateWithoutCallback) /\ (Loop!StopAgain => Clock!StopAgain)
  BY <1>4, <1>5, Zenon DEF Loop!CreateWithoutCallback, Clock!CreateWithoutCallback,
     Loop!StopAgain, Clock!StopAgain
<1>7. Loop!Stop => Clock!Stop
  BY Zenon DEF Loop!Stop, Clock!Stop, Loop!UserRuns, Clock!UserRuns, Loop!StopTimer,
     Clock!StopTimer, Loop!CloseTimer, Clock!CloseTimer, Loop!IsClosing, Clock!IsClosing,
     Loop!Close, Clock!Close, Loop!heap, Clock!heap, Loop!history, Clock!history
<1>8. (Loop!Drop => Clock!Drop) /\ (Loop!DestroyLoop => Clock!DestroyLoop)
  BY Zenon DEF Loop!Drop, Clock!Drop, Loop!UserRuns, Clock!UserRuns, Loop!libuvVars,
     Clock!libuvVars, Loop!heap, Clock!heap, Loop!history, Clock!history,
     Loop!DestroyLoop, Clock!DestroyLoop, Loop!Created, Clock!Created
<1>9. Loop!Run => Clock!Run
  BY Zenon DEF Loop!Run, Clock!Run, Loop!Alive, Clock!Alive, Loop!EnterUvRun, Clock!EnterUvRun,
     Loop!UpdateTime, Clock!UpdateTime, Loop!heap, Clock!heap, Loop!history, Clock!history
<1>. QED
  BY <1>1, <1>3, <1>6, <1>7, <1>8, <1>9, Zenon DEF Loop!User, Clock!User

LEMMA SameRunStep == Loop!RunStep => Clock!RunStep
<1>. USE DEF Loop!heap, Clock!heap, Loop!timerVars, Clock!timerVars, Loop!history, Clock!history
<1>1. Loop!CallTimer => Clock!CallTimer
  BY Zenon DEF Loop!CallTimer, Clock!CallTimer, Loop!Due, Clock!Due, Loop!Before, Clock!Before,
     Loop!StopAndAgain, Clock!StopAndAgain, Loop!TimerStart, Clock!TimerStart,
     Loop!DueAt, Clock!DueAt, Loop!Repeat, Clock!Repeat
<1>2. Loop!CallbackReturns => Clock!CallbackReturns
  BY Zenon DEF Loop!CallbackReturns, Clock!CallbackReturns, Loop!CloseTimer, Clock!CloseTimer,
     Loop!IsClosing, Clock!IsClosing, Loop!Close, Clock!Close
<1>3. Loop!NothingDue => Clock!NothingDue
  BY Zenon DEF Loop!NothingDue, Clock!NothingDue, Loop!Due, Clock!Due
<1>4. Loop!TimersDone => Clock!TimersDone
  BY <1>3, Zenon DEF Loop!TimersDone, Clock!TimersDone, Loop!libuvVars, Clock!libuvVars
<1>5. Loop!Poll => Clock!Poll
  BY Zenon DEF Loop!Poll, Clock!Poll, Loop!PollIsOver, Clock!PollIsOver,
     Loop!UpdateTime, Clock!UpdateTime
<1>6. Loop!UvRunReturns => Clock!UvRunReturns
  BY <1>3, Zenon DEF Loop!UvRunReturns, Clock!UvRunReturns, Loop!Alive, Clock!Alive,
     Loop!EnterUvRun, Clock!EnterUvRun, Loop!UpdateTime, Clock!UpdateTime
<1>. QED
  BY <1>1, <1>2, <1>4, <1>5, <1>6, Zenon DEF Loop!RunStep, Clock!RunStep

LEMMA LoopIsAClock == Loop!Spec => Clock!Spec
<1>1. Loop!TimePasses => Clock!TimePasses
  BY Zenon DEF Loop!TimePasses, Clock!TimePasses, Loop!Tick, Clock!Tick,
     Loop!heap, Clock!heap, Loop!history, Clock!history
<1>2. Loop!Next => Clock!Next
  BY <1>1, SameUser, SameRunStep, Zenon DEF Loop!Next, Clock!Next
<1>3. Loop!vars = Clock!vars
  BY Zenon DEF Loop!vars, Clock!vars, Loop!libuvVars, Clock!libuvVars, Loop!heap, Clock!heap,
     Loop!members, Clock!members, Loop!history, Clock!history
<1>4. Loop!vars' = Clock!vars'
  BY Zenon DEF Loop!vars, Clock!vars, Loop!libuvVars, Clock!libuvVars, Loop!heap, Clock!heap,
     Loop!members, Clock!members, Loop!history, Clock!history
<1>5. [Loop!Next]_(Loop!vars) => [Clock!Next]_(Clock!vars)
  BY <1>2, <1>3, <1>4
<1>. QED
  BY <1>5, SameInit, PTL DEF Loop!Spec, Clock!Spec

(* A pipeline's timers are set from within libuv's own callbacks, by the   *)
(* looper on top of them.  Still uv_timer.cc keeps what it promises: libuv *)
(* meets no freed timer, none is called early or before a shorter one, and *)
(* each is called once.                                                    *)
THEOREM TimersBelowAreRight ==
  TimedSpec => /\ [](Loop!NoUseAfterFree /\ Loop!NotBeforeItIsDue /\ Loop!ShorterIsFirst)
<1>. USE ClockIsWellFormed
<1>1. Clock!NoUseAfterFree => Loop!NoUseAfterFree
  BY Zenon DEF Loop!NoUseAfterFree, Clock!NoUseAfterFree, Loop!Created, Clock!Created
<1>2. Clock!NotBeforeItIsDue => Loop!NotBeforeItIsDue
  BY Zenon DEF Loop!NotBeforeItIsDue, Clock!NotBeforeItIsDue, Loop!Created, Clock!Created
<1>3. Clock!ShorterIsFirst => Loop!ShorterIsFirst
  BY Zenon DEF Loop!ShorterIsFirst, Clock!ShorterIsFirst, Loop!Created, Clock!Created
<1>4. Clock!Spec => []Clock!NoUseAfterFree
  BY Clock!LibuvNeverMeetsAFreedTimer
<1>5. Clock!Spec => []Clock!NotBeforeItIsDue
  BY Clock!NoTimerIsEarly
<1>6. Clock!Spec => []Clock!ShorterIsFirst
  BY Clock!ShorterTimersAreFirst
<1>. QED
  BY <1>1, <1>2, <1>3, <1>4, <1>5, <1>6, RunsOnAnEventLoop, LoopIsAClock, PTL

(* And uv_timer.cc's heap, flags and closing handles below a pipeline keep *)
(* TimerContract: the timer of a request, and so its answer, comes once.   *)
THEOREM TimersBelowKeepContract == TimedSpec => Loop!ContractSpec
<1>. USE ClockIsWellFormed
<1>1. Loop!Waiting = Clock!Waiting
  BY Zenon DEF Loop!Waiting, Clock!Waiting, Loop!Created, Clock!Created
<1>2. Loop!Waiting' = Clock!Waiting'
  BY Zenon DEF Loop!Waiting, Clock!Waiting, Loop!Created, Clock!Created
<1>. USE DEF Loop!Timers, Clock!Timers, Loop!Created, Clock!Created
<1>3. Clock!Contract!Init => Loop!Contract!Init
  BY <1>1, Zenon DEF Loop!Contract!Init, Clock!Contract!Init
<1>4. Clock!Contract!Next => Loop!Contract!Next
  BY <1>1, <1>2, Zenon DEF Loop!Contract!Next, Clock!Contract!Next, Loop!Contract!Set,
     Clock!Contract!Set, Loop!Contract!Stop, Clock!Contract!Stop, Loop!Contract!Call,
     Clock!Contract!Call, Loop!Contract!Return, Clock!Contract!Return
<1>5. Clock!Contract!vars = Loop!Contract!vars /\ Clock!Contract!vars' = Loop!Contract!vars'
  BY <1>1, <1>2, Zenon DEF Loop!Contract!vars, Clock!Contract!vars
<1>6. [Clock!Contract!Next]_(Clock!Contract!vars) => [Loop!Contract!Next]_(Loop!Contract!vars)
  BY <1>4, <1>5
<1>. QED
  BY <1>3, <1>6, RunsOnAnEventLoop, LoopIsAClock, Clock!ImplementsTimerContract, PTL
    DEF Clock!ContractSpec, Loop!ContractSpec, Loop!Contract!Spec, Clock!Contract!Spec
=============================================================================
