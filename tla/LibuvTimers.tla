---------------------------- MODULE LibuvTimers ----------------------------
(***************************************************************************)
(* The part of libuv 1.40.0 that dk_pull's timers run on: the loop's       *)
(* cached time, the heap of active timers, the list of closing handles     *)
(* (src/timer.c, src/unix/core.c).  The actions here are parts of steps:   *)
(* EventLoop puts them together.  uv_timer_start never finds its handle    *)
(* closing or active: UvTimer starts a fresh one, and uv_timer_again one   *)
(* that was stopped just before.                                           *)
(***************************************************************************)
EXTENDS Naturals

CONSTANTS
  MaxTimers,  \* bound: timers ever created, numbered in order
  TimeMax,    \* the largest uint64_t
  IntMax,     \* the longest poll: INT_MAX ms
  MaxClock    \* bound: how far the system's clock goes

ASSUME TimeAssumption ==
  /\ MaxTimers \in Nat
  /\ IntMax \in Nat \ {0}
  /\ TimeMax \in Nat
  /\ MaxClock \in Nat /\ MaxClock < TimeMax

Timers == 1..MaxTimers

VARIABLES
  clock,         \* the system's monotonic clock, in ms
  time,          \* loop->time: the clock when it was last looked at
  active,        \* the timers in the heap
  timeout,       \* handle->timeout: when the timer is due
  startId,       \* handle->start_id: breaks ties
  timerCounter,  \* loop->timer_counter
  closing        \* loop->closing_handles

heap      == <<active, timeout, startId, timerCounter>>
libuvVars == <<clock, time, heap, closing>>

Init ==
  /\ clock = 0
  /\ time = 0
  /\ active = {}
  /\ timeout = [t \in Timers |-> 0]
  /\ startId = [t \in Timers |-> 0]
  /\ timerCounter = 0
  /\ closing = {}

(* Time passes whatever the program does. *)
Tick ==
  /\ clock < MaxClock
  /\ clock' = clock + 1

UpdateTime == time' = clock

\* Mutant of DueAt: the overflow is not caught.
DueAtUnclamped(delay) == (time + delay) % (TimeMax + 1)

(* loop->time + timeout in 64 bits, the largest time if that overflows. *)
DueAt(delay) ==
  LET sum == (time + delay) % (TimeMax + 1)
  IN  IF sum < delay THEN TimeMax ELSE sum

TimerStart(t, delay) ==
  /\ active' = active \cup {t}
  /\ timeout' = [timeout EXCEPT ![t] = DueAt(delay)]
  /\ startId' = [startId EXCEPT ![t] = timerCounter]
  /\ timerCounter' = timerCounter + 1

(* uv_timer_stop, then uv_timer_again, of the timer about to be called. *)
StopAndAgain(t, repeat) ==
  \/ repeat # 0 /\ TimerStart(t, repeat)
  \/ repeat = 0 /\ active' = active \ {t} /\ UNCHANGED <<timeout, startId, timerCounter>>

\* Mutant of Close: the timer is left in the heap.
CloseActive(t) ==
  /\ closing' = closing \cup {t}
  /\ UNCHANGED heap

(* uv_close of a timer: it leaves the heap at once, the rest waits for     *)
(* uv__run_closing_handles.                                                *)
Close(t) ==
  /\ active' = active \ {t}
  /\ closing' = closing \cup {t}
  /\ UNCHANGED <<timeout, startId, timerCounter>>

\* Mutant of Before: start_id is not compared.
BeforeByTimeout(t, u) == timeout[t] < timeout[u] \/ (timeout[t] = timeout[u] /\ t >= u)

(* timer_less_than *)
Before(t, u) ==
  \/ timeout[t] < timeout[u]
  \/ timeout[t] = timeout[u] /\ startId[t] <= startId[u]

(* The timer that uv__run_timers takes next. *)
Due(t) ==
  /\ t \in active
  /\ \A u \in active : Before(t, u)
  /\ timeout[t] <= time

NothingDue == \A t \in active : timeout[t] > time

(* uv_loop_alive *)
Alive == active # {} \/ closing # {}

(* uv__io_poll has nothing to wait for but its timeout, uv_backend_timeout *)
(* counted from loop->time: 0 if a handle is closing.                      *)
PollIsOver ==
  \/ closing # {} \/ active = {}
  \/ \E t \in active : timeout[t] <= clock
  \/ clock >= time + IntMax
=============================================================================
