----------------------------- MODULE EventLoop -----------------------------
(***************************************************************************)
(* UvTimer (uv_timer.cc) and UvEventLoop (uv_event_loop.cc, event_loop.cc) *)
(* over libuv's timers.  One thread: user code runs outside Run or inside  *)
(* a timer's callback, and may then create, stop and let go of timers.     *)
(*                                                                         *)
(* User code may break the rules that dk_pull CHECKs, which ends the       *)
(* process; it keeps to those of libuv: it does not run the loop from a    *)
(* callback, and does not throw through libuv's C frames.                  *)
(***************************************************************************)
EXTENDS LibuvTimers, Sequences

CONSTANTS
  Types,     \* the types of timer that are created
  Delays     \* the delays of timers

(* event_provider.h: of these, only LIBUV has an event loop.               *)
Providers == {"LIBUV", "LIBEVENT", "ASIO"}

(* timer.h: Timer::Type and Timer::Options.  The callback is user code.    *)
TimerTypes == {"ONE_TIME", "REPEATED"}

Options == [type : TimerTypes, delay : 0..TimeMax]

ASSUME TimerAssumption ==
  /\ Types \subseteq TimerTypes
  /\ Delays \subseteq 0..TimeMax

VARIABLES
  made,      \* timers created so far: timers 1 to made
  options,   \* each timer's type and delay
  stopped,   \* the timers whose `stopped` is true
  closed,    \* the timers whose `closed` is true
  self,      \* the timers that hold a reference to themselves
  held,      \* the timers that user code holds
  phase,     \* where Run is: idle, or a stage of uv_run
  current,   \* the timer whose callback is running, or 0
  loop,      \* the UvEventLoop: none yet, open, destroyed, or aborted with the
             \* process by a failing CHECK
  asked,     \* history: the clock when the timer was created
  armed,     \* history: the loop's time when the timer was created
  calls      \* history: the loop's time at the first two callbacks

timerVars == <<made, options, asked, armed>>
history   == <<asked, armed, calls>>

(* The members of the UvTimers; started is true of each that was made.     *)
members == <<options, stopped, closed, self>>

vars == <<libuvVars, made, members, held, phase, current, loop, history>>

Created == 1..made

EventLoopInit ==
  /\ Init
  /\ made = 0
  /\ options = [t \in Timers |-> [type |-> "ONE_TIME", delay |-> 0]]
  /\ stopped = {}
  /\ closed = {}
  /\ self = {}
  /\ held = {}
  /\ phase = "idle"
  /\ current = 0
  /\ loop = "none"
  /\ asked = [t \in Timers |-> 0]
  /\ armed = [t \in Timers |-> 0]
  /\ calls = [t \in Timers |-> <<>>]

-----------------------------------------------------------------------------
(* EventLoop::Create: uv_loop_init looks at the clock; another provider is *)
(* LOG(FATAL).                                                             *)
Create ==
  /\ loop = "none"
  /\ \E provider \in Providers : loop' = IF provider = "LIBUV" THEN "open" ELSE "aborted"
  /\ UpdateTime
  /\ UNCHANGED <<clock, heap, closing, made, options, stopped, closed, self, held, phase,
                 current, history>>

(* User code, outside Run or in a callback. *)
UserRuns == (phase = "idle" \/ current # 0) /\ loop \in {"open", "destroyed"}

(* A CHECK fails. *)
Abort ==
  /\ loop' = "aborted"
  /\ UNCHANGED <<libuvVars, made, options, stopped, closed, self, held, phase, current,
                 history>>

(* UvTimer::start: from now on the timer holds itself. *)
StartUvTimer(t, delay) ==
  /\ TimerStart(t, delay)
  /\ self' = self \cup {t}

(* CreateTimer: UvTimer's constructor, and start.                          *)
CreateTimer(opts) ==
  LET t == made + 1
  IN  /\ UserRuns /\ loop = "open"
      /\ made < MaxTimers
      /\ made' = t
      /\ options' = [options EXCEPT ![t] = opts]
      /\ StartUvTimer(t, opts.delay)
      /\ held' = held \cup {t}
      /\ asked' = [asked EXCEPT ![t] = clock]
      /\ armed' = [armed EXCEPT ![t] = time]
      /\ UNCHANGED <<clock, time, closing, stopped, closed, phase, current, loop, calls>>

SetTimeout(ms)  == CreateTimer([type |-> "ONE_TIME", delay |-> ms])
SetInterval(ms) == CreateTimer([type |-> "REPEATED", delay |-> ms])

StartTimer ==
  \E delay \in Delays :
    \/ "ONE_TIME" \in Types /\ SetTimeout(delay)
    \/ "REPEATED" \in Types /\ SetInterval(delay)

(* CHECK_NOTNULL(callback). *)
CreateWithoutCallback == UserRuns /\ loop = "open" /\ Abort

(* uv_is_closing says so of a closed handle too. *)
IsClosing(t) == t \in closing \cup closed

(* UvTimer::close *)
CloseTimer(t) ==
  \/ IsClosing(t) /\ UNCHANGED <<heap, closing>>
  \/ ~IsClosing(t) /\ Close(t)

\* Mutants of StopTimer: it only sets the flag; it lets go of the timer at
\* once; it closes a handle that is already closed.
StopTimerFlagOnly(t) ==
  /\ t \in held /\ t \notin stopped
  /\ stopped' = stopped \cup {t}
  /\ UNCHANGED <<heap, closing, self>>

StopTimerReleasing(t) ==
  /\ t \in held /\ t \notin stopped
  /\ stopped' = stopped \cup {t}
  /\ CloseTimer(t)
  /\ self' = self \ {t}

StopTimerClosingTwice(t) ==
  /\ t \in held /\ t \notin stopped
  /\ stopped' = stopped \cup {t}
  /\ Close(t)
  /\ UNCHANGED self

(* Stop of a timer that was not stopped.  uv_timer_stop comes before       *)
(* close, and close has the same effect on the heap.                       *)
StopTimer(t) ==
  /\ t \in held /\ t \notin stopped
  /\ stopped' = stopped \cup {t}
  /\ CloseTimer(t)
  /\ UNCHANGED self

Stop ==
  /\ UserRuns
  /\ \E t \in held : StopTimer(t)
  /\ UNCHANGED <<clock, time, made, options, closed, held, phase, current, loop, history>>

(* CHECK(!stopped) in Stop. *)
StopAgain == UserRuns /\ held \cap stopped # {} /\ Abort

(* User code lets go of its shared_ptr. *)
Drop ==
  /\ UserRuns
  /\ \E t \in held : held' = held \ {t}
  /\ UNCHANGED <<libuvVars, made, options, stopped, closed, self, phase, current, loop,
                 history>>

(* ~UvEventLoop: uv_loop_close fails while a handle has not been closed.   *)
DestroyLoop ==
  /\ phase = "idle" /\ loop = "open"
  /\ loop' = IF Created \subseteq closed THEN "destroyed" ELSE "aborted"
  /\ UNCHANGED <<libuvVars, made, options, stopped, closed, self, held, phase, current,
                 history>>

-----------------------------------------------------------------------------
(* Run finds the loop alive, calls uv_run, and that updates the time. *)
EnterUvRun ==
  /\ phase' = "timers"
  /\ UpdateTime

Run ==
  /\ phase = "idle" /\ loop = "open" /\ Alive
  /\ EnterUvRun
  /\ UNCHANGED <<clock, heap, closing, made, options, stopped, closed, self, held, current,
                 loop, history>>

Repeat(t) == IF options[t].type = "REPEATED" THEN 1 ELSE 0

(* uv__run_timers, before or after the poll, calls uvTimerCallback, which  *)
(* calls the user's callback.                                              *)
CallTimer ==
  /\ phase \in {"timers", "timersAgain"} /\ current = 0
  /\ \E t \in active :
       /\ Due(t)
       /\ StopAndAgain(t, Repeat(t))
       /\ current' = t
       /\ calls' = IF Len(calls[t]) < 2 THEN [calls EXCEPT ![t] = Append(@, time)] ELSE calls
  /\ UNCHANGED <<clock, time, closing, timerVars, stopped, closed, self, held, phase, loop>>

\* Mutant of CallbackReturns: a one-time timer is not closed.
CallbackReturnsOnly ==
  /\ current # 0
  /\ current' = 0
  /\ UNCHANGED <<heap, closing>>
  /\ UNCHANGED <<clock, time, timerVars, stopped, closed, self, held, phase, loop, calls>>

(* The rest of uvTimerCallback: a one-time timer is closed. *)
CallbackReturns ==
  /\ current # 0
  /\ current' = 0
  /\ \/ options[current].type = "ONE_TIME" /\ CloseTimer(current)
     \/ options[current].type # "ONE_TIME" /\ UNCHANGED <<heap, closing>>
  /\ UNCHANGED <<clock, time, timerVars, stopped, closed, self, held, phase, loop, calls>>

TimersDone ==
  /\ phase = "timers" /\ current = 0 /\ NothingDue
  /\ phase' = "poll"
  /\ UNCHANGED <<libuvVars, made, options, stopped, closed, self, held, current, loop, history>>

\* Mutant of Poll: the handles being closed are left for the next time.
PollWithoutClosing ==
  /\ phase = "poll" /\ PollIsOver
  /\ phase' = "timersAgain"
  /\ UpdateTime
  /\ UNCHANGED <<clock, heap, closing, made, options, stopped, closed, self, held, current,
                 loop, history>>

(* uv__io_poll returns, uv__run_closing_handles calls uvCloseCallback for  *)
(* each handle, and uv_run looks at the clock once more.                   *)
Poll ==
  /\ phase = "poll" /\ PollIsOver
  /\ phase' = "timersAgain"
  /\ UpdateTime
  /\ closing' = {}
  /\ closed' = closed \cup closing
  /\ self' = self \ closing
  /\ UNCHANGED <<clock, heap, made, options, stopped, held, current, loop, history>>

\* Mutant of UvRunReturns: Run does not look whether the loop is alive.
UvRunReturnsOnce ==
  /\ phase = "timersAgain" /\ current = 0 /\ NothingDue
  /\ phase' = "idle" /\ UNCHANGED time
  /\ UNCHANGED <<clock, heap, closing, made, options, stopped, closed, self, held, current,
                 loop, history>>

(* uv_run returns after one round (UV_RUN_ONCE), and Run calls it again as *)
(* long as the loop is alive.                                              *)
UvRunReturns ==
  /\ phase = "timersAgain" /\ current = 0 /\ NothingDue
  /\ \/ Alive /\ EnterUvRun
     \/ ~Alive /\ phase' = "idle" /\ UNCHANGED time
  /\ UNCHANGED <<clock, heap, closing, made, options, stopped, closed, self, held, current,
                 loop, history>>

TimePasses ==
  /\ loop # "aborted"
  /\ Tick
  /\ UNCHANGED <<time, heap, closing, made, options, stopped, closed, self, held, phase,
                 current, loop, history>>

User ==
  \/ Create
  \/ StartTimer
  \/ CreateWithoutCallback
  \/ Stop
  \/ StopAgain
  \/ Drop
  \/ DestroyLoop
  \/ Run

RunStep ==
  /\ loop = "open"
  /\ \/ CallTimer
     \/ CallbackReturns
     \/ TimersDone
     \/ Poll
     \/ UvRunReturns

Next == User \/ RunStep \/ TimePasses

Spec == EventLoopInit /\ [][Next]_vars

(* A Run that was called goes on, callbacks return, and time passes.  User *)
(* code is not obliged to anything.                                        *)
Fairness == WF_vars(RunStep) /\ WF_vars(TimePasses)

FairSpec == Spec /\ Fairness

-----------------------------------------------------------------------------
TypeOK ==
  /\ time \in 0..clock /\ clock \in 0..MaxClock
  /\ made \in 0..MaxTimers
  /\ options \in [Timers -> Options]
  /\ timeout \in [Timers -> 0..TimeMax]
  /\ startId \in [Timers -> Nat] /\ timerCounter \in Nat
  /\ active \subseteq Created /\ closing \subseteq Created /\ closed \subseteq Created
  /\ active \cap (closing \cup closed) = {} /\ closing \cap closed = {}
  /\ stopped \subseteq Created /\ held \subseteq Created /\ self \subseteq Created
  /\ phase \in {"idle", "timers", "poll", "timersAgain"}
  /\ current \in Created \cup {0}
  /\ loop \in {"none", "open", "destroyed", "aborted"}
  /\ asked \in [Timers -> 0..MaxClock] /\ armed \in [Timers -> 0..MaxClock]
  /\ calls \in [Timers -> Seq(0..MaxClock)]

(* libuv keeps pointers into the UvTimer: while the timer is in the heap,  *)
(* waits to be closed or is in its callback, it must not be freed, though  *)
(* user code may have let go of it long ago.  It holds on to itself.       *)
NoUseAfterFree ==
  \A t \in Created : t \in active \cup closing \/ t = current => t \in self

(* After Stop, from wherever it is called and whatever was due just then,  *)
(* the callback is never called again.                                     *)
QuietAfterStop == [][current' # current /\ current' # 0 => current' \notin stopped]_vars

(* A loop that has nothing left to run, as after Run, can be destroyed:    *)
(* each timer has been closed, stopped or not, and no timer still holds    *)
(* itself (a leak).  uv_loop_alive knows only of active and closing        *)
(* handles, uv_loop_close of all.                                          *)
DestroyAfterRunSucceeds ==
  [][DestroyLoop /\ ~Alive => loop' = "destroyed" /\ self = {}]_vars

(* The heap, the two flags and the closing handles implement what a timer  *)
(* promises: `Waiting` is what its user can tell from what was created,    *)
(* called and stopped, and the heap holds exactly those timers.            *)
Waiting ==
  {t \in Created \ stopped : options[t].type = "REPEATED" \/ calls[t] = <<>>}

Contract == INSTANCE TimerContract WITH
  kind    <- [t \in Timers |-> IF t \in Created THEN options[t].type ELSE "none"],
  waiting <- Waiting,
  calling <- current

ContractSpec == Contract!Spec

(* A timer is not called before its delay is over by the loop's time, not  *)
(* even one whose delay overflows the 64 bits of that time.                *)
NotBeforeItIsDue ==
  \A t \in Created : calls[t] # <<>> =>
    calls[t][1] >= armed[t] + options[t].delay

(* Timers are called in the order of their delays: when a timer is called, *)
(* one created before it with no longer a delay has been called or stopped *)
(* already, however stale the loop's time was when either was created.     *)
ShorterIsFirst ==
  \A t, u \in Created :
    u < t /\ options[u].delay <= options[t].delay /\ calls[t] # <<>>
      => calls[u] # <<>> \/ u \in stopped

(* While the loop runs, each timer is called or stopped: no timer waits    *)
(* for ever behind others, of those that are due before the bound.         *)
TimersAreCalled ==
  \A t \in Timers :
    (t \in active /\ timeout[t] <= MaxClock /\ phase # "idle")
      ~> (calls[t] # <<>> \/ t \in stopped \/ loop = "aborted")

(* Run returns, unless an interval has not been stopped or a timer is due  *)
(* after the bound: one-time timers and stopped ones do not keep it.       *)
KeepsRunning(t) ==
  /\ t \in Created \ closed
  /\ \/ options[t].type = "REPEATED" /\ t \notin stopped
     \/ t \in active /\ timeout[t] > MaxClock

RunReturns ==
  \/ []<>(phase = "idle")
  \/ <>[](loop = "aborted" \/ \E t \in Timers : KeepsRunning(t))

(* timer.h: "Time (in ms) to wait before calling the callback."  By the    *)
(* system's clock: while the first callback runs, the delay is over.       *)
WaitsForDelay ==
  current # 0 /\ Len(calls[current]) = 1 =>
    clock >= asked[current] + options[current].delay

(* The same, of an interval's repeated calls, by the loop's own time.      *)
IntervalWaitsForDelay ==
  \A t \in Created : Len(calls[t]) = 2 => calls[t][2] >= calls[t][1] + options[t].delay
=============================================================================
