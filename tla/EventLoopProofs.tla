-------------------------- MODULE EventLoopProofs --------------------------
(***************************************************************************)
(* Proofs about EventLoop, for any number of timers, types and delays: the *)
(* life of a timer's handle, from which it follows that libuv never meets  *)
(* a freed timer, that a stopped timer is never called, and that the loop  *)
(* can be destroyed when it is not alive.                                  *)
(***************************************************************************)
EXTENDS EventLoop, TLAPS

(* A handle is in the heap, in its callback, waiting to be closed, or      *)
(* closed.  The properties are not inductive without it: that a one-time   *)
(* timer which is no longer in the heap is closed after its callback       *)
(* depends on Run not being idle, and not closing handles, meanwhile.      *)
HandleInv ==
  /\ made \in 0..MaxTimers
  /\ options \in [Timers -> Options]
  /\ current \in Nat
  /\ active \cup closing \cup closed \cup held \subseteq Created
  /\ active \cap (closing \cup closed) = {}
  /\ closing \cap closed = {}
  /\ Created \subseteq active \cup closing \cup closed \cup {current}

CallbackInv ==
  current # 0 =>
    /\ current \in Created \ closed
    /\ phase \in {"timers", "timersAgain"}
    /\ options[current].type # "ONE_TIME" => current \in active \cup closing

OwnerInv ==
  /\ self = Created \ closed
  /\ stopped \subseteq closing \cup closed

IInv == HandleInv /\ CallbackInv /\ OwnerInv

LEMMA InitIInv == EventLoopInit => IInv
  BY TimeAssumption
     DEF EventLoopInit, Init, IInv, HandleInv, CallbackInv, OwnerInv, Created, Timers, Options,
         TimerTypes

(* What UvTimer::close does to the handles. *)
LEMMA CloseTimerKeeps ==
  ASSUME IInv, NEW t \in Created, CloseTimer(t)
  PROVE  /\ active' \cup closing' \subseteq Created
         /\ active' \cap (closing' \cup closed) = {}
         /\ closing' \cap closed = {}
         /\ active \cup closing \cup {t} \subseteq active' \cup closing' \cup closed
         /\ closing \subseteq closing'
         /\ t \in closing' \cup closed
<1>. USE DEF IInv, HandleInv
<1>1. CASE IsClosing(t) /\ UNCHANGED <<heap, closing>>
  BY <1>1 DEF IsClosing, heap
<1>2. CASE ~IsClosing(t) /\ Close(t)
  BY <1>2 DEF IsClosing, Close
<1>. QED
  BY <1>1, <1>2 DEF CloseTimer

LEMMA CreateStep ==
  ASSUME IInv, NEW opts \in Options, CreateTimer(opts)
  PROVE  IInv'
<1>1. /\ made < MaxTimers
      /\ made' = made + 1 /\ active' = active \cup {made + 1}
      /\ options' = [options EXCEPT ![made + 1] = opts]
      /\ self' = self \cup {made + 1} /\ held' = held \cup {made + 1}
      /\ UNCHANGED <<closing, closed, stopped, phase, current>>
  BY DEF CreateTimer, StartUvTimer, TimerStart
<1>3. /\ Created' = Created \cup {made + 1} /\ made + 1 \notin Created
      /\ Created \subseteq Timers /\ made + 1 \in Timers
  BY <1>1, TimeAssumption DEF IInv, HandleInv, Created, Timers
<1>4. options' \in [Timers -> Options] /\ \A t \in Created : options'[t] = options[t]
  BY <1>1, <1>3 DEF IInv, HandleInv
<1>5. made' \in 0..MaxTimers
  BY <1>1, TimeAssumption DEF IInv, HandleInv
<1>6. HandleInv'
  BY <1>1, <1>3, <1>4, <1>5 DEF IInv, HandleInv
<1>7. CallbackInv'
  BY <1>1, <1>3, <1>4 DEF IInv, CallbackInv
<1>8. OwnerInv'
  BY <1>1, <1>3 DEF IInv, HandleInv, OwnerInv
<1>. QED
  BY <1>6, <1>7, <1>8 DEF IInv

(* SetTimeout and SetInterval are CreateTimer with options of their own.   *)
LEMMA StartIsCreate ==
  ASSUME StartTimer
  PROVE  \E opts \in Options : CreateTimer(opts)
<1>1. PICK delay \in Delays : SetTimeout(delay) \/ SetInterval(delay)
  BY DEF StartTimer
<1>2. /\ [type |-> "ONE_TIME", delay |-> delay] \in Options
      /\ [type |-> "REPEATED", delay |-> delay] \in Options
  BY TimerAssumption DEF Options, TimerTypes
<1>. QED
  BY <1>1, <1>2 DEF SetTimeout, SetInterval

LEMMA StopStep ==
  ASSUME IInv, Stop
  PROVE  IInv'
<1>1. PICK t \in held : StopTimer(t)
  BY DEF Stop
<1>2. /\ stopped' = stopped \cup {t} /\ CloseTimer(t)
      /\ UNCHANGED <<made, options, closed, self, held, phase, current>>
  BY <1>1 DEF Stop, StopTimer
<1>3. t \in Created /\ Created' = Created
  BY <1>2 DEF Created, IInv, HandleInv
<1>4. HandleInv'
  BY <1>2, <1>3, CloseTimerKeeps DEF IInv, HandleInv
<1>5. CallbackInv'
  BY <1>2, <1>3, CloseTimerKeeps DEF IInv, CallbackInv
<1>6. OwnerInv'
  BY <1>2, <1>3, CloseTimerKeeps DEF IInv, OwnerInv
<1>. QED
  BY <1>4, <1>5, <1>6 DEF IInv

LEMMA CallStep ==
  ASSUME IInv, CallTimer
  PROVE  IInv' /\ current' \in active
<1>1. PICK t \in active : StopAndAgain(t, Repeat(t)) /\ current' = t
  BY DEF CallTimer
<1>2. /\ UNCHANGED <<closing, made, options, stopped, closed, self, held, phase>>
      /\ phase \in {"timers", "timersAgain"} /\ current = 0
  BY DEF CallTimer, timerVars
<1>3. /\ active' = active \/ active' = active \ {t}
      /\ options[t].type # "ONE_TIME" => active' = active
  <2>1. CASE Repeat(t) # 0
    BY <1>1, <2>1 DEF StopAndAgain, TimerStart
  <2>2. CASE Repeat(t) = 0
    <3>1. options[t].type # "REPEATED"
      BY <2>2 DEF Repeat
    <3>2. options[t].type \in {"ONE_TIME", "REPEATED"}
      <4>1. t \in Timers
        BY TimeAssumption DEF IInv, HandleInv, Created, Timers
      <4>. QED
        BY <4>1 DEF IInv, HandleInv, Options, TimerTypes
    <3>. QED
      BY <1>1, <2>2, <3>1, <3>2 DEF StopAndAgain
  <2>. QED
    BY <2>1, <2>2
<1>4. t \in Created /\ t \notin closing \cup closed /\ Created' = Created /\ t \in Nat
  BY <1>1, <1>2 DEF IInv, HandleInv, Created
<1>5. HandleInv'
  <2>1. Created \subseteq active \cup closing \cup closed
    BY <1>2 DEF IInv, HandleInv, Created
  <2>. QED
    BY <1>1, <1>2, <1>3, <1>4, <2>1 DEF IInv, HandleInv
<1>6. CallbackInv'
  BY <1>1, <1>2, <1>3, <1>4 DEF CallbackInv
<1>7. OwnerInv'
  BY <1>2, <1>4 DEF IInv, OwnerInv
<1>. QED
  BY <1>1, <1>5, <1>6, <1>7 DEF IInv

LEMMA ReturnStep ==
  ASSUME IInv, CallbackReturns
  PROVE  IInv'
<1>1. /\ current # 0 /\ current' = 0
      /\ UNCHANGED <<made, options, stopped, closed, self, held, phase>>
  BY DEF CallbackReturns, timerVars
<1>2. current \in Created \ closed /\ Created' = Created
  BY <1>1 DEF IInv, CallbackInv, Created
<1>3. CASE options[current].type = "ONE_TIME" /\ CloseTimer(current)
  <2>1. HandleInv'
    BY <1>1, <1>2, <1>3, CloseTimerKeeps DEF IInv, HandleInv
  <2>2. OwnerInv'
    BY <1>1, <1>2, <1>3, CloseTimerKeeps DEF IInv, OwnerInv
  <2>. QED
    BY <1>1, <2>1, <2>2 DEF IInv, CallbackInv
<1>4. CASE options[current].type # "ONE_TIME" /\ UNCHANGED <<heap, closing>>
  BY <1>1, <1>2, <1>4 DEF IInv, HandleInv, CallbackInv, OwnerInv, heap
<1>. QED
  BY <1>3, <1>4 DEF CallbackReturns

LEMMA PollStep ==
  ASSUME IInv, Poll
  PROVE  IInv'
<1>1. /\ phase = "poll"
      /\ closing' = {} /\ closed' = closed \cup closing /\ self' = self \ closing
      /\ UNCHANGED <<active, made, options, stopped, held, current>>
  BY DEF Poll, heap
<1>2. current = 0 /\ Created' = Created
  BY <1>1 DEF IInv, CallbackInv, Created
<1>. QED
  BY <1>1, <1>2 DEF IInv, HandleInv, CallbackInv, OwnerInv

(* The other steps leave the handles alone, and change phase only when no  *)
(* callback is running.                                                    *)
LEMMA QuietStep ==
  ASSUME IInv,
         UNCHANGED <<active, closing, made, options, stopped, closed, self, current>>,
         held' \subseteq held,
         current # 0 => phase' = phase
  PROVE  IInv'
  BY DEF IInv, HandleInv, CallbackInv, OwnerInv, Created

LEMMA NextIInv == IInv /\ [Next]_vars => IInv'
<1>. SUFFICES ASSUME IInv, [Next]_vars PROVE IInv'
  OBVIOUS
<1>0. phase = "idle" \/ phase = "poll" => current = 0
  BY DEF IInv, CallbackInv
<1>1. CASE StartTimer
  BY <1>1, StartIsCreate, CreateStep
<1>2. CASE Stop
  BY <1>2, StopStep
<1>3. CASE Drop
  BY <1>3, QuietStep DEF Drop, libuvVars, heap
<1>4. CASE DestroyLoop
  BY <1>4, QuietStep DEF DestroyLoop, libuvVars, heap
<1>5. CASE Run
  BY <1>0, <1>5, QuietStep DEF Run, heap
<1>6. CASE CallTimer
  BY <1>6, CallStep
<1>7. CASE CallbackReturns
  BY <1>7, ReturnStep
<1>8. CASE TimersDone
  BY <1>8, QuietStep DEF TimersDone, libuvVars, heap
<1>9. CASE Poll
  BY <1>9, PollStep
<1>10. CASE UvRunReturns
  BY <1>10, QuietStep DEF UvRunReturns, heap
<1>11. CASE TimePasses
  BY <1>11, QuietStep DEF TimePasses, heap
<1>13. CASE Create
  BY <1>13, QuietStep DEF Create, heap
<1>14. CASE CreateWithoutCallback \/ StopAgain
  BY <1>14, QuietStep DEF CreateWithoutCallback, StopAgain, Abort, libuvVars, heap
<1>12. CASE UNCHANGED vars
  BY <1>12, QuietStep DEF vars, members, libuvVars, heap
<1>. QED
  BY <1>1, <1>2, <1>3, <1>4, <1>5, <1>6, <1>7, <1>8, <1>9, <1>10, <1>11, <1>12,
     <1>13, <1>14 DEF Next, User, RunStep

LEMMA SpecIInv == Spec => []IInv
  BY InitIInv, NextIInv, PTL DEF Spec

-----------------------------------------------------------------------------
(* uv_timer.cc start and uvCloseCallback: the reference a timer holds to   *)
(* itself covers all of the time libuv has a pointer to it.                *)
THEOREM LibuvNeverMeetsAFreedTimer == Spec => []NoUseAfterFree
<1>1. ASSUME IInv, NEW t \in Created, t \in active \cup closing \/ t = current
      PROVE  t \in self
  <2>1. t # 0
    BY DEF Created
  <2>2. CASE t \in active \cup closing
    BY <1>1, <2>2 DEF IInv, HandleInv, OwnerInv
  <2>3. CASE t = current
    BY <1>1, <2>1, <2>3 DEF IInv, CallbackInv, OwnerInv
  <2>. QED
    BY <1>1, <2>2, <2>3
<1>2. IInv => NoUseAfterFree
  BY <1>1 DEF NoUseAfterFree
<1>. QED
  BY <1>2, SpecIInv, PTL

(* uv_timer.cc Stop: no callback after it, though others are due in the    *)
(* same pass of uv__run_timers, or the timer stops itself.                 *)
THEOREM StoppedTimersAreQuiet == Spec => QuietAfterStop
<1>1. ASSUME IInv, [Next]_vars, current' # current, current' # 0
      PROVE  current' \notin stopped'
  <2>1. CASE CallTimer
    <3>1. current' \in active /\ stopped' = stopped
      BY <2>1, CallStep, <1>1 DEF CallTimer
    <3>. QED
      BY <1>1, <3>1 DEF IInv, HandleInv, OwnerInv
  <2>2. CASE CallbackReturns
    BY <1>1, <2>2 DEF CallbackReturns
  <2>3. CASE ~CallTimer /\ ~CallbackReturns
    BY <1>1, <2>3 DEF Next, User, RunStep, vars, members, Create, StartTimer, SetTimeout,
                      SetInterval, CreateTimer, CreateWithoutCallback, StopAgain, Abort, Stop,
                      Drop, DestroyLoop, Run, TimersDone, Poll, UvRunReturns, TimePasses
  <2>. QED
    BY <2>1, <2>2, <2>3
<1>2. IInv /\ [Next]_vars =>
        [current' # current /\ current' # 0 => current' \notin stopped]_vars
  <2>1. SUFFICES ASSUME IInv, [Next]_vars, current' # current, current' # 0
                 PROVE  current' \notin stopped
    OBVIOUS
  <2>2. stopped \subseteq stopped'
    BY <2>1 DEF Next, User, RunStep, vars, members, Create, StartTimer, SetTimeout, SetInterval,
                CreateTimer, CreateWithoutCallback, StopAgain, Abort, Stop, StopTimer, Drop,
                DestroyLoop, Run, CallTimer, CallbackReturns, TimersDone, Poll, UvRunReturns, TimePasses
  <2>. QED
    BY <1>1, <2>1, <2>2
<1>. QED
  BY <1>2, SpecIInv, PTL DEF Spec, QuietAfterStop

(* uv_event_loop.cc: when uv_loop_alive says no, the destructor's CHECK    *)
(* on uv_loop_close holds and no timer is leaked.                          *)
THEOREM DeadLoopsCanBeDestroyed == Spec => DestroyAfterRunSucceeds
<1>1. IInv /\ [Next]_vars =>
        [DestroyLoop /\ ~Alive => loop' = "destroyed" /\ self = {}]_vars
  <2>1. SUFFICES ASSUME IInv, DestroyLoop, ~Alive
                 PROVE  loop' = "destroyed" /\ self = {}
    OBVIOUS
  <2>2. current = 0 /\ active = {} /\ closing = {}
    BY <2>1 DEF DestroyLoop, Alive, IInv, CallbackInv
  <2>3. 0 \notin Created
    BY DEF Created
  <2>4. Created \subseteq closed
    BY <2>1, <2>2, <2>3 DEF IInv, HandleInv
  <2>. QED
    BY <2>1, <2>4 DEF DestroyLoop, IInv, OwnerInv
<1>. QED
  BY <1>1, SpecIInv, PTL DEF Spec, DestroyAfterRunSucceeds
=============================================================================
