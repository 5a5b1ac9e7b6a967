--------------------------- MODULE TimerContract ---------------------------
(***************************************************************************)
(* What timers promise their user (event_loop.h, timer.h), without the     *)
(* loop behind them: a timer is called only while it waits, one at a time; *)
(* a one-time timer once; a stopped one never again.                       *)
(***************************************************************************)
CONSTANT Timers

VARIABLES
  kind,      \* each timer's type, or "none" before it is created
  waiting,   \* the timers that are still to be called
  calling    \* the timer whose callback is running, or 0

vars == <<kind, waiting, calling>>

Init ==
  /\ kind = [t \in Timers |-> "none"]
  /\ waiting = {}
  /\ calling = 0

(* Set a timeout or an interval, in a callback or outside. *)
Set(t) ==
  /\ kind[t] = "none"
  /\ \E type \in {"ONE_TIME", "REPEATED"} : kind' = [kind EXCEPT ![t] = type]
  /\ waiting' = waiting \cup {t}
  /\ UNCHANGED calling

(* Stop a timer, be it waiting, in its own callback, or over. *)
Stop(t) ==
  /\ kind[t] # "none"
  /\ waiting' = waiting \ {t}
  /\ UNCHANGED <<kind, calling>>

Call(t) ==
  /\ calling = 0
  /\ t \in waiting
  /\ calling' = t
  /\ waiting' = IF kind[t] = "ONE_TIME" THEN waiting \ {t} ELSE waiting
  /\ UNCHANGED kind

Return ==
  /\ calling # 0
  /\ calling' = 0
  /\ UNCHANGED <<kind, waiting>>

Next ==
  \/ \E t \in Timers : Set(t) \/ Stop(t) \/ Call(t)
  \/ Return

Spec == Init /\ [][Next]_vars
=============================================================================
