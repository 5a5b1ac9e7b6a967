---------------------------- MODULE TimerProofs ----------------------------
(***************************************************************************)
(* Proofs about EventLoop, continued: the refinement of TimerContract, the *)
(* types, and when timers are called: not too early and in the order of    *)
(* their delays, for every size of the loop's time.                        *)
(***************************************************************************)
EXTENDS EventLoopProofs, SequenceTheorems

(* The heap is the set of timers that wait to be called: what ties the     *)
(* handles to the history of calls.                                        *)
WaitInv ==
  /\ active = Waiting
  /\ calls \in [Timers -> Seq(0..MaxClock)]
  /\ \A t \in Timers \ Created : calls[t] = <<>>
  /\ current # 0 => calls[current] # <<>>
  /\ time \in 0..clock /\ clock \in 0..MaxClock

LEMMA CreatedAreTimers == IInv => Created \subseteq Timers
  BY TimeAssumption DEF IInv, HandleInv, Created, Timers

LEMMA InitWaitInv == EventLoopInit => WaitInv
  BY TimeAssumption DEF EventLoopInit, Init, WaitInv, Waiting, Created, Timers

(* What a call adds to the history. *)
LEMMA CallHistory ==
  ASSUME IInv, WaitInv, CallTimer
  PROVE  /\ current' \in active /\ current = 0
         /\ Due(current') /\ StopAndAgain(current', Repeat(current'))
         /\ calls' \in [Timers -> Seq(0..MaxClock)]
         /\ calls'[current'] # <<>>
         /\ calls[current'] = <<>> => calls'[current'] = <<time>>
         /\ calls[current'] # <<>> => calls'[current'][1] = calls[current'][1]
         /\ \A t \in Timers \ {current'} : calls'[t] = calls[t]
<1>1. PICK t \in active :
        /\ Due(t) /\ StopAndAgain(t, Repeat(t)) /\ current' = t /\ current = 0
        /\ calls' = IF Len(calls[t]) < 2 THEN [calls EXCEPT ![t] = Append(@, time)] ELSE calls
  BY DEF CallTimer
<1>2. t \in Timers
  BY <1>1, CreatedAreTimers DEF IInv, HandleInv
<1>3. calls[t] \in Seq(0..MaxClock) /\ time \in 0..MaxClock
  <2>1. calls[t] \in Seq(0..MaxClock)
    BY <1>2 DEF WaitInv
  <2>2. time \in 0..MaxClock
    BY TimeAssumption DEF WaitInv
  <2>. QED
    BY <2>1, <2>2
<1>4. Append(calls[t], time) \in Seq(0..MaxClock) /\ Append(calls[t], time) # <<>>
  BY <1>3
<1>5. calls[t] # <<>> => Append(calls[t], time)[1] = calls[t][1]
  BY <1>3
<1>6. calls[t] = <<>> => Append(calls[t], time) = <<time>> /\ Len(calls[t]) < 2
  BY <1>3
<1>7. ~(Len(calls[t]) < 2) => calls[t] # <<>>
  BY <1>3
<1>. QED
  BY <1>1, <1>2, <1>3, <1>4, <1>5, <1>6, <1>7 DEF WaitInv

LEMMA WaitCreate ==
  ASSUME IInv, WaitInv, NEW opts \in Options, CreateTimer(opts)
  PROVE  WaitInv'
<1>1. /\ made < MaxTimers
      /\ made' = made + 1 /\ active' = active \cup {made + 1}
      /\ options' = [options EXCEPT ![made + 1] = opts]
      /\ UNCHANGED <<stopped, current, calls, time, clock>>
  BY DEF CreateTimer, StartUvTimer, TimerStart
<1>2. /\ Created' = Created \cup {made + 1} /\ made + 1 \notin Created
      /\ Created \subseteq Timers /\ made + 1 \in Timers
  BY <1>1, TimeAssumption DEF IInv, HandleInv, Created, Timers
<1>3. made + 1 \notin stopped
  BY <1>2 DEF IInv, OwnerInv, HandleInv
<1>4. calls[made + 1] = <<>>
  BY <1>2 DEF WaitInv
<1>5. \A t \in Created : options'[t] = options[t]
  BY <1>1, <1>2 DEF IInv, HandleInv
<1>. QED
  BY <1>1, <1>2, <1>3, <1>4, <1>5 DEF WaitInv, Waiting

LEMMA WaitStop ==
  ASSUME IInv, WaitInv, Stop
  PROVE  /\ WaitInv'
         /\ \E t \in Created : stopped' = stopped \cup {t} /\ active' = active \ {t}
<1>1. PICK t \in held : StopTimer(t)
  BY DEF Stop
<1>2. /\ stopped' = stopped \cup {t} /\ CloseTimer(t)
      /\ UNCHANGED <<made, options, current, calls, time, clock>>
  BY <1>1 DEF Stop, StopTimer, history
<1>3. active' = active \ {t} /\ t \in Created
  BY <1>2 DEF CloseTimer, IsClosing, Close, heap, IInv, HandleInv
<1>. QED
  BY <1>2, <1>3 DEF WaitInv, Waiting, Created

LEMMA WaitCall ==
  ASSUME IInv, WaitInv, CallTimer
  PROVE  /\ WaitInv'
         /\ active' = IF options[current'].type = "ONE_TIME" THEN active \ {current'} ELSE active
<1>1. UNCHANGED <<made, options, stopped, time, clock>>
  BY DEF CallTimer, timerVars
<1>2. /\ current' \in active /\ current = 0
      /\ StopAndAgain(current', Repeat(current'))
      /\ calls' \in [Timers -> Seq(0..MaxClock)]
      /\ calls'[current'] # <<>>
      /\ \A t \in Timers \ {current'} : calls'[t] = calls[t]
  BY CallHistory
<1>3. Created \subseteq Timers /\ active \subseteq Created
  BY CreatedAreTimers DEF IInv, HandleInv
<1>4. options[current'].type \in {"ONE_TIME", "REPEATED"}
  BY <1>2, <1>3 DEF IInv, HandleInv, Options, TimerTypes
<1>5. active' = IF options[current'].type = "ONE_TIME" THEN active \ {current'} ELSE active
  <2>1. CASE options[current'].type = "ONE_TIME"
    BY <1>2, <2>1 DEF StopAndAgain, Repeat
  <2>2. CASE options[current'].type = "REPEATED"
    <3>1. Repeat(current') # 0
      BY <2>2 DEF Repeat
    <3>2. active' = active \cup {current'}
      BY <1>2, <3>1 DEF StopAndAgain, TimerStart
    <3>. QED
      BY <1>2, <2>2, <3>2
  <2>. QED
    BY <1>4, <2>1, <2>2
<1>6. active' = Waiting'
  BY <1>1, <1>2, <1>3, <1>4, <1>5 DEF WaitInv, Waiting, Created
<1>. QED
  BY <1>1, <1>2, <1>3, <1>5, <1>6 DEF WaitInv, Created

LEMMA WaitReturn ==
  ASSUME IInv, WaitInv, CallbackReturns
  PROVE  WaitInv' /\ active' = active
<1>1. /\ current # 0 /\ current' = 0
      /\ UNCHANGED <<made, options, stopped, calls, time, clock>>
  BY DEF CallbackReturns, timerVars
<1>2. options[current].type = "ONE_TIME" => current \notin active
  BY <1>1 DEF WaitInv, Waiting
<1>3. active' = active
  BY <1>2 DEF CallbackReturns, CloseTimer, Close, heap
<1>. QED
  BY <1>1, <1>3 DEF WaitInv, Waiting, Created

LEMMA WaitQuiet ==
  ASSUME IInv, WaitInv,
         UNCHANGED <<active, made, options, stopped, current, calls>>,
         time' \in 0..clock', clock' \in 0..MaxClock
  PROVE  WaitInv'
  BY DEF WaitInv, Waiting, Created

(* The steps that create, call, return from and stop no timer. *)
Bookkeeping ==
  \/ Create \/ CreateWithoutCallback \/ StopAgain \/ Drop \/ DestroyLoop \/ Run
  \/ TimersDone \/ Poll \/ UvRunReturns \/ TimePasses \/ UNCHANGED vars

LEMMA BookkeepingKeeps ==
  ASSUME WaitInv, Bookkeeping
  PROVE  /\ UNCHANGED <<heap, made, options, stopped, current, history>>
         /\ time' \in 0..clock' /\ clock' \in 0..MaxClock /\ time <= time'
<1>. USE DEF WaitInv, heap, libuvVars, history, UpdateTime
<1>1. CASE Create
  BY <1>1 DEF Create
<1>2. CASE CreateWithoutCallback \/ StopAgain \/ Drop \/ DestroyLoop
  BY <1>2 DEF CreateWithoutCallback, StopAgain, Abort, Drop, DestroyLoop
<1>3. CASE Run \/ UvRunReturns
  BY <1>3 DEF Run, UvRunReturns, EnterUvRun
<1>4. CASE TimersDone \/ Poll
  BY <1>4 DEF TimersDone, Poll
<1>5. CASE TimePasses
  BY <1>5, TimeAssumption DEF TimePasses, Tick
<1>6. CASE UNCHANGED vars
  BY <1>6 DEF vars, members
<1>. QED
  BY <1>1, <1>2, <1>3, <1>4, <1>5, <1>6 DEF Bookkeeping

(* Every step is bookkeeping or one of the four. *)
LEMMA Steps ==
  ASSUME [Next]_vars
  PROVE  \/ \E opts \in Options : CreateTimer(opts)
         \/ Stop \/ CallTimer \/ CallbackReturns \/ Bookkeeping
  BY StartIsCreate DEF Next, User, RunStep, Bookkeeping

LEMMA NextWaitInv == IInv /\ WaitInv /\ [Next]_vars => WaitInv'
<1>. SUFFICES ASSUME IInv, WaitInv, [Next]_vars PROVE WaitInv'
  OBVIOUS
<1>1. CASE Bookkeeping
  BY <1>1, BookkeepingKeeps, WaitQuiet DEF heap, history
<1>. QED
  BY <1>1, Steps, WaitCreate, WaitStop, WaitCall, WaitReturn

LEMMA SpecWaitInv == Spec => []WaitInv
  BY InitWaitInv, NextWaitInv, SpecIInv, PTL DEF Spec

-----------------------------------------------------------------------------
(* The two flags, the heap and the closing handles of UvTimer and libuv    *)
(* implement the life of timers that TimerContract states.                 *)
THEOREM ImplementsTimerContract == Spec => ContractSpec
<1>1. EventLoopInit => Contract!Init
  BY TimeAssumption DEF EventLoopInit, Contract!Init, Waiting, Created, Timers
<1>2. IInv /\ WaitInv /\ WaitInv' /\ [Next]_vars => [Contract!Next]_(Contract!vars)
  <2>. SUFFICES ASSUME IInv, WaitInv, WaitInv', [Next]_vars
                PROVE  [Contract!Next]_(Contract!vars)
    OBVIOUS
  <2>. DEFINE kind == [t \in Timers |-> IF t \in Created THEN options[t].type ELSE "none"]
  <2>0. Waiting = active /\ Waiting' = active' /\ Created \subseteq Timers
    BY CreatedAreTimers DEF WaitInv
  <2>1. ASSUME NEW opts \in Options, CreateTimer(opts)
        PROVE  Contract!Next
    <3>1. /\ made < MaxTimers /\ made' = made + 1 /\ active' = active \cup {made + 1}
          /\ options' = [options EXCEPT ![made + 1] = opts] /\ current' = current
      BY <2>1 DEF CreateTimer, StartUvTimer, TimerStart
    <3>2. /\ Created' = Created \cup {made + 1} /\ made + 1 \notin Created
          /\ made + 1 \in Timers
      BY <3>1, TimeAssumption DEF IInv, HandleInv, Created, Timers
    <3>3. opts.type \in {"ONE_TIME", "REPEATED"}
      BY DEF Options, TimerTypes
    <3>4. options'[made + 1] = opts /\ \A t \in Created : options'[t] = options[t]
      BY <3>1, <3>2 DEF IInv, HandleInv
    <3>5. kind' = [kind EXCEPT ![made + 1] = opts.type]
      BY <2>0, <3>2, <3>4
    <3>6. PICK t \in Timers : t = made + 1
      BY <3>2
    <3>7. Contract!Set(t)
      BY <2>0, <3>1, <3>2, <3>3, <3>5, <3>6 DEF Contract!Set
    <3>. QED
      BY <3>7 DEF Contract!Next
  <2>2. CASE Stop
    <3>1. PICK t \in Created : active' = active \ {t}
      BY <2>2, WaitStop
    <3>2. /\ UNCHANGED <<made, options, current>> /\ options[t].type # "none"
      BY <2>0, <2>2 DEF Stop, IInv, HandleInv, Options, TimerTypes
    <3>3. Contract!Stop(t)
      BY <2>0, <3>1, <3>2 DEF Contract!Stop, Created
    <3>. QED
      BY <2>0, <3>3 DEF Contract!Next
  <2>3. CASE CallTimer
    <3>1. /\ current' \in active /\ current = 0 /\ UNCHANGED <<made, options>>
          /\ active' = IF options[current'].type = "ONE_TIME" THEN active \ {current'}
                       ELSE active
      BY <2>3, WaitCall, CallHistory DEF CallTimer, timerVars
    <3>2. current' \in Created
      BY <3>1 DEF IInv, HandleInv
    <3>3. kind[current'] = options[current'].type /\ kind' = kind
      BY <2>0, <3>1, <3>2 DEF Created
    <3>4. Contract!Call(current')
      BY <2>0, <3>1, <3>2, <3>3 DEF Contract!Call
    <3>. QED
      BY <2>0, <3>2, <3>4 DEF Contract!Next
  <2>4. CASE CallbackReturns
    <3>1. /\ current # 0 /\ current' = 0 /\ active' = active /\ UNCHANGED <<made, options>>
      BY <2>4, WaitReturn DEF CallbackReturns, timerVars
    <3>2. Contract!Return
      BY <2>0, <3>1 DEF Contract!Return, Created
    <3>. QED
      BY <3>2 DEF Contract!Next
  <2>5. CASE Bookkeeping
    BY <2>0, <2>5, BookkeepingKeeps DEF Contract!vars, heap, Created
  <2>. QED
    BY <2>1, <2>2, <2>3, <2>4, <2>5, Steps
<1>. QED
  BY <1>1, <1>2, SpecIInv, SpecWaitInv, PTL DEF Spec, ContractSpec, Contract!Spec

-----------------------------------------------------------------------------
(* Times are below TimeMax, so a sum of 64 bits overflows at most once.    *)
LEMMA SumOverflowsOnce ==
  ASSUME NEW n \in Nat \ {0}, NEW a \in Nat, a < 2 * n
  PROVE  a % n = IF a < n THEN a ELSE a - n
<1>1. ASSUME NEW b \in 0..(n - 1) PROVE b % n = b
  OBVIOUS
<1>2. CASE a < n
  BY <1>1, <1>2
<1>3. CASE a >= n
  <2>1. (a - n) % n = a - n
    BY <1>1, <1>3
  <2>2. a % n = (a - n) % n
    OBVIOUS
  <2>. QED
    BY <1>3, <2>1, <2>2
<1>. QED
  BY <1>2, <1>3

(* When a timer of this delay is due: the sum, or the largest time.        *)
DueFrom(start, delay) == IF start + delay > TimeMax THEN TimeMax ELSE start + delay

LEMMA DueAtIsClamped ==
  ASSUME time \in 0..MaxClock, NEW delay \in 0..TimeMax
  PROVE  DueAt(delay) = DueFrom(time, delay) /\ DueAt(delay) \in 0..TimeMax
<1>1. /\ time \in Nat /\ time < TimeMax /\ TimeMax \in Nat /\ TimeMax + 1 \in Nat \ {0}
      /\ time + delay \in Nat /\ time + delay < 2 * (TimeMax + 1)
  BY TimeAssumption
<1>2. (time + delay) % (TimeMax + 1) =
        IF time + delay < TimeMax + 1 THEN time + delay ELSE time + delay - (TimeMax + 1)
  <2>1. PICK n \in Nat \ {0}, a \in Nat : n = TimeMax + 1 /\ a = time + delay
    BY <1>1
  <2>2. a % n = IF a < n THEN a ELSE a - n
    BY <1>1, <2>1, SumOverflowsOnce
  <2>. QED
    BY <2>1, <2>2
<1>. QED
  BY <1>1, <1>2 DEF DueAt, DueFrom

(* Timers that wait for their first call: due as their creation has it, in *)
(* the order they were created in.                                         *)
Fresh(t) == t \in active /\ calls[t] = <<>>

DueInv ==
  /\ timeout \in [Timers -> 0..TimeMax]
  /\ startId \in [Timers -> Nat] /\ timerCounter \in Nat
  /\ asked \in [Timers -> 0..MaxClock] /\ armed \in [Timers -> 0..MaxClock]
  /\ \A t \in Created : armed[t] <= time
  /\ \A t \in Created : \A u \in Created : u < t => armed[u] <= armed[t]
  /\ \A t \in Created : Fresh(t) =>
       startId[t] < timerCounter /\ timeout[t] = DueFrom(armed[t], options[t].delay)
  /\ \A t \in Created : \A u \in Created :
       Fresh(t) /\ Fresh(u) /\ u < t => startId[u] < startId[t]
  /\ NotBeforeItIsDue
  /\ ShorterIsFirst

LEMMA InitDueInv == EventLoopInit => DueInv
  BY TimeAssumption
     DEF EventLoopInit, Init, DueInv, Created, Timers, NotBeforeItIsDue, ShorterIsFirst

LEMMA DueCreate ==
  ASSUME IInv, WaitInv, DueInv, NEW opts \in Options, CreateTimer(opts)
  PROVE  DueInv'
<1>. DEFINE new == made + 1
<1>1. /\ made < MaxTimers /\ made' = new /\ active' = active \cup {new}
      /\ options' = [options EXCEPT ![new] = opts]
      /\ timeout' = [timeout EXCEPT ![new] = DueAt(opts.delay)]
      /\ startId' = [startId EXCEPT ![new] = timerCounter]
      /\ timerCounter' = timerCounter + 1
      /\ asked' = [asked EXCEPT ![new] = clock]
      /\ armed' = [armed EXCEPT ![new] = time]
      /\ UNCHANGED <<calls, time, stopped>>
  BY DEF CreateTimer, StartUvTimer, TimerStart
<1>2. /\ Created' = Created \cup {new} /\ new \notin Created
      /\ Created \subseteq Timers /\ new \in Timers
      /\ \A t \in Created : t < new
  BY <1>1, TimeAssumption DEF IInv, HandleInv, Created, Timers
<1>3. opts.delay \in 0..TimeMax
  BY DEF Options
<1>4. time \in 0..MaxClock /\ clock \in 0..MaxClock
  BY TimeAssumption DEF WaitInv
<1>5. DueAt(opts.delay) = DueFrom(time, opts.delay) /\ DueAt(opts.delay) \in 0..TimeMax
  BY <1>3, <1>4, DueAtIsClamped
<1>6. /\ calls[new] = <<>>
      /\ options'[new] = opts /\ timeout'[new] = DueAt(opts.delay)
      /\ startId'[new] = timerCounter /\ armed'[new] = time
  BY <1>1, <1>2 DEF WaitInv, DueInv, IInv, HandleInv
<1>7. \A t \in Created :
        /\ options'[t] = options[t] /\ timeout'[t] = timeout[t]
        /\ startId'[t] = startId[t] /\ armed'[t] = armed[t]
        /\ Fresh(t)' <=> Fresh(t)
  BY <1>1, <1>2 DEF DueInv, IInv, HandleInv, Fresh
<1>8. /\ timeout' \in [Timers -> 0..TimeMax]
      /\ startId' \in [Timers -> Nat] /\ timerCounter' \in Nat
      /\ asked' \in [Timers -> 0..MaxClock] /\ armed' \in [Timers -> 0..MaxClock]
  BY <1>1, <1>2, <1>4, <1>5 DEF DueInv
<1>. HIDE DEF new
<1>9. /\ \A t \in Created' : armed'[t] <= time'
      /\ \A t \in Created' : \A u \in Created' : u < t => armed'[u] <= armed'[t]
  <2>1. \A t \in Created : armed[t] \in Nat /\ armed[t] <= time /\ t \in Nat
    BY <1>2 DEF DueInv, Created
  <2>2. new \in Nat
    BY <1>2, TimeAssumption DEF Timers
  <2>. QED
    BY <1>1, <1>2, <1>4, <1>6, <1>7, <2>1, <2>2 DEF DueInv
<1>10. \A t \in Created' : Fresh(t)' =>
         startId'[t] < timerCounter' /\ timeout'[t] = DueFrom(armed'[t], options'[t].delay)
  <2>1. ASSUME NEW t \in Created, Fresh(t)
        PROVE  startId'[t] < timerCounter' /\ timeout'[t] = DueFrom(armed'[t], options'[t].delay)
    <3>1. startId[t] \in Nat /\ startId[t] < timerCounter /\ timerCounter \in Nat
      BY <1>2, <2>1 DEF DueInv
    <3>. QED
      BY <1>1, <1>7, <2>1, <3>1 DEF DueInv
  <2>2. startId'[new] < timerCounter' /\ timeout'[new] = DueFrom(armed'[new], options'[new].delay)
    BY <1>1, <1>5, <1>6 DEF DueInv
  <2>. QED
    BY <1>2, <1>7, <2>1, <2>2
<1>11. \A t \in Created' : \A u \in Created' :
         Fresh(t)' /\ Fresh(u)' /\ u < t => startId'[u] < startId'[t]
  <2>1. \A t \in Created : t \in Nat /\ t < new
    BY <1>2 DEF Created
  <2>2. new \in Nat
    BY <1>2, TimeAssumption DEF Timers
  <2>3. ASSUME NEW t \in Created', NEW u \in Created', Fresh(t)', Fresh(u)', u < t
        PROVE  startId'[u] < startId'[t]
    <3>1. u \in Created
      BY <1>2, <2>1, <2>2, <2>3
    <3>2. CASE t \in Created
      BY <1>7, <2>3, <3>1, <3>2 DEF DueInv
    <3>3. CASE t = new
      BY <1>6, <1>7, <2>3, <3>1, <3>3 DEF DueInv
    <3>. QED
      BY <1>2, <3>2, <3>3
  <2>. QED
    BY <2>3
<1>12. NotBeforeItIsDue'
  BY <1>1, <1>2, <1>6, <1>7 DEF DueInv, NotBeforeItIsDue
<1>13. ShorterIsFirst'
  <2>1. ASSUME NEW t \in Created', NEW u \in Created', u < t,
               options'[u].delay <= options'[t].delay, calls'[t] # <<>>
        PROVE  calls'[u] # <<>> \/ u \in stopped'
    <3>1. t \in Created
      BY <1>1, <1>2, <1>6, <2>1
    <3>2. u \in Created
      BY <1>2, <2>1, <3>1, TimeAssumption DEF Created, Timers
    <3>. QED
      BY <1>1, <1>7, <2>1, <3>1, <3>2 DEF DueInv, ShorterIsFirst
  <2>. QED
    BY <2>1 DEF ShorterIsFirst
<1>. QED
  BY <1>8, <1>9, <1>10, <1>11, <1>12, <1>13 DEF DueInv

(* A step that starts no timer and calls none.                             *)
LEMMA DueQuiet ==
  ASSUME IInv, DueInv,
         UNCHANGED <<timeout, startId, timerCounter, made, options, history>>,
         active' \subseteq active, stopped \subseteq stopped',
         time \in 0..MaxClock, time' \in 0..MaxClock, time <= time'
  PROVE  DueInv'
<1>1. Created' = Created /\ UNCHANGED <<asked, armed, calls>>
  BY DEF Created, history
<1>2. \A t : Fresh(t)' => Fresh(t)
  BY <1>1 DEF Fresh
<1>3. \A t \in Created : armed[t] \in Nat /\ armed[t] <= time
  BY CreatedAreTimers, TimeAssumption DEF DueInv
<1>4. \A t \in Created : armed[t] <= time'
  BY <1>3, TimeAssumption
<1>5. NotBeforeItIsDue' /\ ShorterIsFirst'
  BY <1>1 DEF DueInv, NotBeforeItIsDue, ShorterIsFirst
<1>. QED
  BY <1>1, <1>2, <1>4, <1>5 DEF DueInv

LEMMA DueCall ==
  ASSUME IInv, WaitInv, DueInv, CallTimer
  PROVE  DueInv'
<1>. DEFINE c == current'
<1>1. /\ c \in active /\ Due(c) /\ StopAndAgain(c, Repeat(c))
      /\ calls'[c] # <<>>
      /\ calls[c] = <<>> => calls'[c] = <<time>>
      /\ calls[c] # <<>> => calls'[c][1] = calls[c][1]
      /\ \A t \in Timers \ {c} : calls'[t] = calls[t]
  BY CallHistory
<1>2. UNCHANGED <<made, options, stopped, time, asked, armed>> /\ Created' = Created
  BY DEF CallTimer, timerVars, Created
<1>3. active \subseteq Created /\ Created \subseteq Timers /\ c \in Created
  BY <1>1, CreatedAreTimers DEF IInv, HandleInv
<1>4. time \in 0..MaxClock
  BY TimeAssumption DEF WaitInv
<1>. HIDE DEF c
<1>5. /\ active' \subseteq active
      /\ timeout' \in [Timers -> 0..TimeMax] /\ startId' \in [Timers -> Nat]
      /\ timerCounter' \in Nat /\ timerCounter <= timerCounter'
      /\ \A t \in Timers \ {c} : timeout'[t] = timeout[t] /\ startId'[t] = startId[t]
  <2>1. CASE Repeat(c) = 0
    BY <1>1, <2>1 DEF StopAndAgain, DueInv
  <2>2. CASE Repeat(c) # 0
    <3>1. Repeat(c) = 1
      BY <2>2 DEF Repeat
    <3>2. DueAt(Repeat(c)) \in 0..TimeMax
      <4>1. 1 \in 0..TimeMax
        BY TimeAssumption
      <4>. QED
        BY <1>4, <3>1, <4>1, DueAtIsClamped
    <3>3. TimerStart(c, Repeat(c))
      BY <1>1, <2>2 DEF StopAndAgain
    <3>. QED
      BY <1>1, <1>3, <3>2, <3>3 DEF TimerStart, DueInv
  <2>. QED
    BY <2>1, <2>2
<1>6. \A t \in Created : Fresh(t)' => Fresh(t) /\ t # c
  BY <1>1, <1>3, <1>5 DEF Fresh
<1>7. \A t \in Created : Fresh(t)' =>
        startId'[t] < timerCounter' /\ timeout'[t] = DueFrom(armed'[t], options'[t].delay)
  <2>1. ASSUME NEW t \in Created, Fresh(t)'
        PROVE  startId'[t] < timerCounter' /\ timeout'[t] = DueFrom(armed'[t], options'[t].delay)
    <3>1. Fresh(t) /\ t \in Timers \ {c}
      BY <1>3, <1>6, <2>1
    <3>2. startId[t] < timerCounter /\ startId[t] \in Nat /\ timerCounter \in Nat
      BY <3>1 DEF DueInv
    <3>. QED
      BY <1>2, <1>5, <3>1, <3>2 DEF DueInv
  <2>. QED
    BY <2>1
<1>8. \A t \in Created : \A u \in Created :
        Fresh(t)' /\ Fresh(u)' /\ u < t => startId'[u] < startId'[t]
  BY <1>3, <1>5, <1>6 DEF DueInv
(* The timer that is called is fresh: it is due, and not by overflow.      *)
<1>9. calls[c] = <<>> => time >= armed[c] + options[c].delay
  <2>1. SUFFICES ASSUME calls[c] = <<>> PROVE time >= armed[c] + options[c].delay
    OBVIOUS
  <2>2. timeout[c] = DueFrom(armed[c], options[c].delay) /\ timeout[c] <= time
    BY <1>1, <1>3, <2>1 DEF Due, Fresh, DueInv
  <2>3. /\ armed[c] \in Nat /\ options[c].delay \in Nat /\ TimeMax \in Nat /\ time \in Nat
        /\ time < TimeMax
    BY <1>3, <1>4, TimeAssumption DEF DueInv, IInv, HandleInv, Options
  <2>. QED
    BY <2>2, <2>3 DEF DueFrom
<1>10. NotBeforeItIsDue'
  <2>1. ASSUME NEW t \in Created, calls'[t] # <<>>
        PROVE  calls'[t][1] >= armed[t] + options[t].delay
    <3>1. CASE t # c
      BY <1>1, <1>3, <2>1, <3>1 DEF DueInv, NotBeforeItIsDue
    <3>2. CASE t = c /\ calls[c] # <<>>
      BY <1>1, <2>1, <3>2 DEF DueInv, NotBeforeItIsDue
    <3>3. CASE t = c /\ calls[c] = <<>>
      BY <1>1, <1>9, <3>3
    <3>. QED
      BY <3>1, <3>2, <3>3
  <2>. QED
    BY <1>2, <2>1 DEF NotBeforeItIsDue
(* An earlier, shorter timer that is fresh too would come first.           *)
<1>11. ShorterIsFirst'
  <2>1. ASSUME NEW t \in Created, NEW u \in Created, u < t,
               options[u].delay <= options[t].delay, calls'[t] # <<>>
        PROVE  calls'[u] # <<>> \/ u \in stopped
    <3>1. CASE calls[t] # <<>>
      BY <1>1, <1>3, <2>1, <3>1 DEF DueInv, ShorterIsFirst
    <3>2. CASE calls[t] = <<>>
      <4>1. t = c /\ Fresh(t)
        BY <1>1, <1>3, <2>1, <3>2 DEF Fresh
      <4>2. u # t /\ calls'[u] = calls[u]
        BY <1>1, <1>3, <2>1, <4>1 DEF Created
      <4>3. SUFFICES ASSUME calls[u] = <<>>, u \notin stopped PROVE FALSE
        BY <4>2
      <4>4. Fresh(u)
        BY <2>1, <4>3 DEF WaitInv, Waiting, Fresh
      <4>5. startId[u] < startId[t] /\ armed[u] <= armed[t]
        BY <2>1, <4>1, <4>4 DEF DueInv
      <4>6. /\ timeout[u] = DueFrom(armed[u], options[u].delay)
            /\ timeout[t] = DueFrom(armed[t], options[t].delay)
        BY <2>1, <4>1, <4>4 DEF DueInv
      <4>7. /\ armed[u] \in Nat /\ armed[t] \in Nat /\ TimeMax \in Nat
            /\ options[u].delay \in Nat /\ options[t].delay \in Nat
            /\ startId[u] \in Nat /\ startId[t] \in Nat
        BY <1>3, <2>1, TimeAssumption DEF DueInv, IInv, HandleInv, Options
      <4>8. timeout[u] <= timeout[t] /\ timeout[u] \in Nat /\ timeout[t] \in Nat
        BY <2>1, <4>5, <4>6, <4>7 DEF DueFrom
      <4>9. Before(t, u)
        BY <1>1, <4>1, <4>4 DEF Due, Fresh
      <4>. QED
        BY <4>5, <4>7, <4>8, <4>9 DEF Before
    <3>. QED
      BY <3>1, <3>2
  <2>. QED
    BY <1>2, <2>1 DEF ShorterIsFirst
<1>12. /\ asked' \in [Timers -> 0..MaxClock] /\ armed' \in [Timers -> 0..MaxClock]
       /\ \A t \in Created' : armed'[t] <= time'
       /\ \A t \in Created' : \A u \in Created' : u < t => armed'[u] <= armed'[t]
  BY <1>2 DEF DueInv
<1>. QED
  BY <1>2, <1>5, <1>7, <1>8, <1>10, <1>11, <1>12 DEF DueInv

LEMMA NextDueInv == IInv /\ WaitInv /\ WaitInv' /\ DueInv /\ [Next]_vars => DueInv'
<1>. SUFFICES ASSUME IInv, WaitInv, WaitInv', DueInv, [Next]_vars PROVE DueInv'
  OBVIOUS
<1>0. time \in 0..MaxClock /\ time' \in 0..MaxClock
  BY TimeAssumption DEF WaitInv
<1>1. CASE Bookkeeping
  BY <1>0, <1>1, BookkeepingKeeps, DueQuiet DEF heap, history
<1>2. CASE Stop
  <2>1. UNCHANGED <<timeout, startId, timerCounter, made, options, history, time>>
    BY <1>2 DEF Stop, StopTimer, CloseTimer, Close, heap
  <2>2. active' \subseteq active /\ stopped \subseteq stopped'
    BY <1>2, WaitStop
  <2>. QED
    BY <1>0, <2>1, <2>2, DueQuiet
<1>3. CASE CallbackReturns
  <2>1. UNCHANGED <<timeout, startId, timerCounter, made, options, history, time, stopped>>
    BY <1>3 DEF CallbackReturns, CloseTimer, Close, heap, timerVars, history
  <2>2. active' \subseteq active
    BY <1>3, WaitReturn
  <2>. QED
    BY <1>0, <2>1, <2>2, DueQuiet
<1>. QED
  BY <1>1, <1>2, <1>3, Steps, DueCreate, DueCall

LEMMA SpecDueInv == Spec => []DueInv
  BY InitDueInv, NextDueInv, SpecIInv, SpecWaitInv, PTL DEF Spec

(* uv_timer.cc start on libuv's clamped sum: no first call before the      *)
(* delay is over by the loop's time, whatever the width of that time.      *)
THEOREM NoTimerIsEarly == Spec => []NotBeforeItIsDue
  BY SpecDueInv, PTL DEF DueInv

(* libuv's heap order with start_id as the tie-break: a timer is not       *)
(* overtaken by one created later with no shorter a delay.                 *)
THEOREM ShorterTimersAreFirst == Spec => []ShorterIsFirst
  BY SpecDueInv, PTL DEF DueInv

EnumInv ==
  /\ phase \in {"idle", "timers", "poll", "timersAgain"}
  /\ loop \in {"none", "open", "destroyed", "aborted"}

LEMMA NextEnumInv == EnumInv /\ [Next]_vars => EnumInv'
<1>. SUFFICES ASSUME EnumInv, [Next]_vars PROVE EnumInv'
  OBVIOUS
<1>. USE DEF EnumInv
<1>1. CASE Create
  BY <1>1 DEF Create, Providers
<1>2. CASE StartTimer
  BY <1>2 DEF StartTimer, SetTimeout, SetInterval, CreateTimer
<1>3. CASE CreateWithoutCallback \/ StopAgain
  BY <1>3 DEF CreateWithoutCallback, StopAgain, Abort
<1>4. CASE Stop \/ Drop
  BY <1>4 DEF Stop, Drop
<1>5. CASE DestroyLoop
  BY <1>5 DEF DestroyLoop
<1>6. CASE Run \/ UvRunReturns
  BY <1>6 DEF Run, UvRunReturns, EnterUvRun
<1>7. CASE CallTimer \/ CallbackReturns
  BY <1>7 DEF CallTimer, CallbackReturns
<1>8. CASE TimersDone \/ Poll
  BY <1>8 DEF TimersDone, Poll
<1>9. CASE TimePasses
  BY <1>9 DEF TimePasses
<1>10. CASE UNCHANGED vars
  BY <1>10 DEF vars, members
<1>. QED
  BY <1>1, <1>2, <1>3, <1>4, <1>5, <1>6, <1>7, <1>8, <1>9, <1>10 DEF Next, User, RunStep

(* Types, which put together what the other invariants say of each         *)
(* variable of UvTimer, UvEventLoop and libuv's loop.                      *)
THEOREM TypeCorrect == Spec => []TypeOK
<1>1. EventLoopInit => EnumInv
  BY DEF EventLoopInit, EnumInv
<1>2. IInv /\ WaitInv /\ DueInv /\ EnumInv => TypeOK
  <2>. SUFFICES ASSUME IInv, WaitInv, DueInv, EnumInv PROVE TypeOK
    OBVIOUS
  <2>1. /\ time \in 0..clock /\ clock \in 0..MaxClock
        /\ calls \in [Timers -> Seq(0..MaxClock)]
    BY DEF WaitInv
  <2>2. /\ timeout \in [Timers -> 0..TimeMax]
        /\ startId \in [Timers -> Nat] /\ timerCounter \in Nat
        /\ asked \in [Timers -> 0..MaxClock] /\ armed \in [Timers -> 0..MaxClock]
    BY DEF DueInv
  <2>3. /\ made \in 0..MaxTimers /\ options \in [Timers -> Options]
        /\ active \subseteq Created /\ closing \subseteq Created /\ closed \subseteq Created
        /\ held \subseteq Created /\ stopped \subseteq Created /\ self \subseteq Created
        /\ active \cap (closing \cup closed) = {} /\ closing \cap closed = {}
    BY DEF IInv, HandleInv, OwnerInv
  <2>4. current \in Created \cup {0}
    BY DEF IInv, CallbackInv
  <2>5. EnumInv
    OBVIOUS
  <2>. QED
    BY <2>1, <2>2, <2>3, <2>4, <2>5 DEF TypeOK, EnumInv
<1>. QED
  BY <1>1, <1>2, NextEnumInv, SpecIInv, SpecWaitInv, SpecDueInv, PTL DEF Spec
=============================================================================
