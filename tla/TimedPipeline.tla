--------------------------- MODULE TimedPipeline ---------------------------
(***************************************************************************)
(* A Pipeline on an EventLoop.  With timing = "timer" the source is one    *)
(* that a user of dk_pull writes with EventLoop::SetTimeout: each request  *)
(* sets a timer, whose callback answers it.  User code runs the loop after *)
(* Pull has returned.  Three kinds of re-entrancy meet here: the sink asks *)
(* again inside a timer's callback, through the Looper, which sets the     *)
(* next timer while libuv runs its timers.                                 *)
(*                                                                         *)
(* With other timings the loop is not used, and this is Pipeline.          *)
(***************************************************************************)
EXTENDS Pipeline

CONSTANTS
  MaxTimers, TimeMax, IntMax, MaxClock,   \* see LibuvTimers
  Delays                                  \* the delays of the source's timers

ASSUME TimedAssumption ==
  /\ MaxTimers \in Nat
  /\ IntMax \in Nat \ {0}
  /\ TimeMax \in Nat
  /\ MaxClock \in Nat /\ MaxClock < TimeMax
  /\ Delays \subseteq 0..TimeMax

VARIABLES
  clock, time, active, timeout, startId, timerCounter, closing,
  made, options, stopped, closed, self, held, phase, current, loop,
  createdAt, armed, calls

Loop == INSTANCE EventLoop WITH
  Types <- {"ONE_TIME"},
  asked <- createdAt

loopVars == <<clock, time, active, timeout, startId, timerCounter, closing, made, options,
              stopped, closed, self, held, phase, current, loop, createdAt, armed, calls>>
allVars  == <<vars, loopVars>>

Timed == timing = "timer"

(* Bound: a timer for each request. *)
TimedInit ==
  /\ Init
  /\ Loop!EventLoopInit
  /\ Timed => Len(contents) < MaxTimers /\ ~NeverEnds

CreateLoop ==
  /\ Timed
  /\ Loop!Create /\ loop' = "open"
  /\ UNCHANGED vars

TimedConnect ==
  /\ Timed => loop = "open"
  /\ ConnectDrain
  /\ UNCHANGED loopVars

(* A request sets a timer, of those that are due before the bound.         *)
TimedAsk ==
  /\ Ask \/ ConnectAbortNow
  /\ \/ Timed /\ \E ms \in Delays : time + ms <= MaxClock /\ Loop!SetTimeout(ms)
     \/ ~Timed /\ UNCHANGED loopVars

(* The timer of request n is timer n: its callback answers that request,   *)
(* first of all.  libuv is C, and must not be thrown through.              *)
TimedAnswer ==
  /\ Timed => current = answered + 1
  /\ \/ AnswerRequest
     \/ AnswerNobody
     \/ ~Timed /\ OnValueThrows
  /\ UNCHANGED loopVars

(* User code runs the loop, and libuv has control until the next callback. *)
LoopRuns ==
  /\ Timed /\ ProcessLives /\ stack = <<>>
  /\ current # 0 => answered = current
  /\ Loop!Run \/ Loop!RunStep
  /\ UNCHANGED vars

TimePasses ==
  /\ Timed /\ ProcessLives
  /\ Loop!TimePasses
  /\ UNCHANGED vars

TimedReturn == Return /\ UNCHANGED loopVars

CallerActs ==
  /\ Timed => phase = "idle"
  /\ DropSink \/ Retry \/ RetryReduce
  /\ UNCHANGED loopVars

TimedNext ==
  \/ CreateLoop
  \/ TimedConnect
  \/ TimedAsk
  \/ TimedAnswer
  \/ LoopRuns
  \/ TimePasses
  \/ TimedReturn
  \/ CallerActs

TimedSpec == TimedInit /\ [][TimedNext]_allVars

(* As of Pipeline and EventLoop, but now it is the loop that makes the     *)
(* source answer, and user code is assumed to run it.                      *)
TimedFairSpec ==
  /\ TimedSpec
  /\ WF_allVars(TimedAsk)
  /\ WF_allVars(TimedAnswer)
  /\ WF_allVars(TimedReturn)
  /\ WF_allVars(LoopRuns)
  /\ WF_allVars(TimePasses)

-----------------------------------------------------------------------------
(* Run does not return while a stream waits for its timer: each request    *)
(* the sink makes, from within Pull or from within a callback, keeps the   *)
(* loop alive until it is answered.                                        *)
NoStreamLeftBehind ==
  (Timed /\ ProcessLives /\ asked > 0 /\ stack = <<>> /\ phase = "idle" /\ ~Loop!Alive)
    => results # <<>>
=============================================================================
