# dk_pull, specified in TLA+

dk_pull is a small C++17 library of pull-streams: a *sink* pulls values out of a
*source* by calling it with a callback, possibly through a *through*, and a
trampoline (`Looper`) keeps long runs of synchronous callbacks off the call
stack. Around it there is an event loop over libuv with timers. This directory
holds TLA+ modules for the parts that decide whether streams work, TLC
configurations that check them, and TLAPS proofs.

## 1. Inventory

Everything runs on the thread that calls it; there are no locks and no shared
state between threads. What is concurrent is *re-entrancy and lateness*: a
callback may run inside the call that registered it, inside one of its
descendants, or from the event loop long after the call has returned.

| Component | Code | State | Operations | Talks to |
|---|---|---|---|---|
| Looper | `dk_pull/looper/` | `nextCalled`, `looperFunctionReturned`, and the C++ stack | `Start`, the `next` closures of `makeNext` | calls the looper function; is called by whoever holds a `next` |
| Drain | `pull_stream/sinks/drain.h` | `onValue`, `onDone` | `Sink()` | makes a Looper; calls the source; calls `next` from the source's callback |
| Reduce, Collect | `sinks/reduce.h`, `sinks/collect.h` | `drain`, `accumulator`, and who owns the Reduce | `Sink()` | makes a Drain whose lambdas hold the Reduce weakly |
| AbortNow | `sinks/abort_now_sink.h` | none | the sink | one aborting call of the source |
| Values, Count, Empty | `pull_stream/sources/` | list; counter and maximum; none | the source closure | invoke the callback before they return |
| ProtocolChecker | `pull_stream/protocol_checker.h` | `i`, `latest`, `skipped`, `aborted`, `done`, `errors`, a counter per callback, three options | `Through()`'s two lambdas, `Terminate` | sits between a source and a sink |
| Pull, Link | `pull_stream/pull.h` | none | apply sink and through to source | |
| EndOrError | `types/end_or_error.*` | end / error / running | | every call and callback |
| UvTimer, Timer | `event/timer/` | `started`, `stopped`, `closed`, `self`, the libuv handle | `Create`/`start`, `Stop`, `close`, two libuv callbacks | libuv; the user's callback |
| UvEventLoop, EventLoop | `event/event_loop/` | the `uv_loop_t` | `Run`, `CreateTimer`, `SetTimeout`, `SetInterval`, destructor | libuv |
| SplitString | `common/split_string.cc` | none | pure function | |
| Finally, Uncopyable | `common/` | none | | unused / compile time |

What is hard, and what makes each part correct:

- **Looper**: `next` called at any depth or any time must never be lost, never
  cause an iteration nobody asked for, and never nest a second loop. The first
  iteration is special: `Start` does not mark it as running. An exception out of
  the loop leaves `looperFunctionReturned` false for ever.
- **ProtocolChecker**: one number (`latest`) stands for a set of callbacks that
  may come back in any order, twice or never; eager reports leave a handler
  half-way by exception. It should report exactly the departures from the
  protocol, and tell the sink the same end each time.
- **Sinks over sources**: one request outstanding, each value once and in order,
  one `onDone` at the end, nothing after it, and the objects the callbacks need
  still alive when a source answers late; and all of it again when `onValue`
  throws, when a source answers from a timer's callback, and when it is faulty.
- **Timers**: no callback after `Stop`, one-time timers fire once, `Run` returns
  exactly when every timer is closed, intervals keep their period.

The hazards are listed one by one, at their lines, in `PROJECT.json`.

## 2. Modules

| Module | Models | State |
|---|---|---|
| `Looper` | `looper.{h,cc}` | the two flags, the call stack as a sequence of frames, three history counters |
| `LooperContract` | what a Looper promises a client that uses each `next` once | two counters |
| `LooperProofs` | proofs about `Looper` | |
| `PullProtocol` | the pull-stream protocol between any sink and any source | two counters, aborted, ended |
| `ProtocolChecker` | `protocol_checker.h` | the class's members, the per-callback counters, histories |
| `CheckerProofs` | proofs about `ProtocolChecker` | |
| `Sources` | Values, Count, Empty | operators from a source's state and a request to an answer and its next state |
| `Pipeline` | `Pull(source, sink)` with Drain, Reduce/Collect, AbortNow; composes `Sources` and `Looper` | the Looper's, the source's, the sink's, its lifetime, and what the caller has seen |
| `PipelineProofs` | proofs about `Pipeline` | |
| `CheckedPipeline` | `Pull(source, checker, sink)`, with a source that may be faulty; composes `Pipeline` and `ProtocolChecker` | both |
| `CheckedProofs` | proofs about `CheckedPipeline` | |
| `TimedPipeline` | `Pull(source, sink)` over a source that answers from timers; composes `Pipeline` and `EventLoop` | both |
| `TimedProofs` | proofs about `TimedPipeline` | |
| `LibuvTimers` | the part of libuv the timers run on: `timer.c`, `uv_close`, `uv_backend_timeout` | clock, cached time, timer heap, closing handles |
| `EventLoop` | `uv_timer.cc`, `uv_event_loop.cc`, `event_loop.cc`, over `LibuvTimers` | UvTimer's members, who holds each timer, the stage of `Run`, histories |
| `TimerContract` | what timers promise their user | each timer's kind, whether it waits, which one is being called |
| `EventLoopProofs`, `TimerProofs` | proofs about `EventLoop` | |
| `SplitString` | `split_string.cc` | `full`, `result`, `prev_pos` |
| `SplitProofs` | proofs about `SplitString` | |
| `MC*` | the instances for TLC | |

**Looper.** A frame is `Start`, `Loop` (the `while` in a `next`) or `Body` (the
looper function). The client is the environment: it calls `next` whenever its
code runs (`NextWhileBusy`, `NextWhileIdle`: the two ways through the closure),
returns (`ReturnToStart`, `Iterate`, `LeaveLoop`) or throws (`Throw`, to a
looper function below that catches, or to the event loop). A step ends where
client code next gets control, so `nextCalled = true; if (...) return;` and the
first pass of the `while` are one step. `OneShot` restricts the client to one
use of each `next`, as Drain's; `wedged` records that an exception has unwound a
loop.

**ProtocolChecker.** The sink and the source are the environment. Every handler
ends in the call it forwards, so a synchronous answer or a re-entrant request is
the same sequence of steps as an asynchronous one, and a handler is one action.
`CallbackThrows` is the handler left by an eager report: after Invariant 5 the
counter has not been stepped, after 3 and 4 it has, and `latest`, `done` and the
sink's callback are left out. The variable `history` records what really
happened; the reference `Conforms` states the invariants of the checker's own
messages over that history, without the checker's variables. `Terminate` goes
through the requests after `latest` in ascending order (`Ascending`).

**Pipeline.** Drain's looper function is its one call of the source (`Ask`);
the answer (`AnswerRequest`) runs the sink's callback (`DrainCallback`): a value
goes to `onValue` and then to `next`, through `Looper!NextWhileBusy` or
`Looper!NextWhileIdle`; an end goes to `onDone`. `timing` says when the source
answers: `prompt`, before the looper function returns, as all of the
repository's sources do; `late`, then or at any time after, from an empty stack;
`timer`, the same here, and from a timer's callback in `TimedPipeline`. That
such a source answers each request, and once, is an assumption on code outside
the repository.

A Drain may be made without an `onValue`; its constructor then puts an empty
function there (`ConstructDrain`, the variable `onValue`), which never throws. A
null `onDone` becomes one that does nothing when it is called.

`OnValueThrows` is the user's `onValue`, or Reduce's reducer, throwing. Nothing in dk_pull
catches it, so it leaves the source, the looper (`Unwind`: `Looper!Throw` down
to the caller of `Pull`, or nothing if the answer came from the event loop).
The caller may then pull again (`Retry`, `RetryReduce`): Drain makes a new
Looper and goes on with what the source still has, Reduce fails
`CHECK(drain == nullptr)`. What the caller does (`CallerRetries`, `DropSink`) is
not code of dk_pull. `DropSink` is the caller letting go of its sink;
`AnswerNobody` is Reduce's failing `CHECK(self != nullptr)`. A failed `CHECK`
ends the process: `ProcessLives` guards everything else. The history `consumed`
is what `onValue` was given, `results` what `onDone` was, and Reduce's
accumulator, moved into its callback at the end, is left moved-from.

**CheckedPipeline.** Each `Ask` goes through the checker's request handler, each
answer through its callback handler, and `onDone` calls `Terminate` before
anything else happens, as `protocol_checker_test.cc` BasicTest,
`values_test.cc` and `collect_test.cc` do. The source may be faulty: up to
`MaxFaults` times it invokes a callback that it has invoked before, from within a
request or from the event loop (`AnswerAgain`). What the checker does not
report eagerly reaches the sink, whose `next` is then called a second time; what
it does is thrown at the source (`SourceCatches`): the call of the source that
has invoked the callback catches it, or it unwinds the looper, to an earlier call
of the source, still on the stack below the loop, that catches it, or to the end.
An earlier call that is left then returns, unanswered requests or not, and the
looper stays wedged.

**TimedPipeline.** A user's source over `EventLoop::SetTimeout`: request n sets
timer n (`TimedAsk`), whose callback answers the request (`TimedAnswer`). User
code makes the loop, pulls, and runs it (`LoopRuns`). The sink asks again from
within the callback, so that `SetTimeout` is called while libuv runs its timers,
and the Looper's frames stand on libuv's. The actions of both modules are used
as they are; the module only adds who may act when.

**LibuvTimers and EventLoop.** Timers are numbered in the order of their creation.
The heap is the set `active` with `timeout` and `startId`; `DueAt` adds in 64
bits and clamps. `time` is `loop->time`, which follows `clock` only where the
code calls `uv__update_time`. User code (`CreateTimer`, `Stop`, `Drop`,
`DestroyLoop`, `Run`) runs outside `Run`, and inside a callback (`current` is the
timer being called). One round of `uv_run` is `CallTimer`/`CallbackReturns` any
number of times, `TimersDone`, `Poll` (the poll, the closing of handles and
`uvCloseCallback`), the timers again, and `UvRunReturns`, after which `Run` looks
at `uv_loop_alive`. `StopTimer` is `uv_timer_stop` and `close` in one: both take
the timer out of the heap, and nothing runs between them. `closed`, `stopped`
and `self` are sets of timers. User code may break what dk_pull itself CHECKs,
and the process ends (`Abort`): a timer without callback
(`CreateWithoutCallback`), a second `Stop` (`StopAgain`), a loop destroyed too
early, a provider that does not exist (`Create`). It is assumed to keep libuv's
own rules: it does not call `Run` from a callback, and does not throw from one
(that would unwind libuv's C frames).

**TimerContract.** What `event_loop.h` and `timer.h` promise, without heap, flags
or handles: a timer waits from its creation; only a waiting timer is called, one
at a time; a one-time timer waits no longer once it is called, and a stopped
timer never again. `EventLoop` implements it with `Waiting` (what the user can
tell from creations, calls and stops) for the abstract set; that the heap holds
the same timers is what the refinement shows.

**SplitString.** One step per round of the loop; positions count from 0 as in the
code. The reference is not another splitter but what characterises the result:
the delimiters, with one boundary before and one after the string, are the
`Boundaries`; for each pair of neighbouring ones there is one token, in their
order, which is the text between them.

## 3. Runs

Run `tlc -config X.cfg M` for each run of `PROJECT.json`.

| Run | Question | Bounds |
|---|---|---|
| `looper_any` | Can any client, throwing ones included, grow the stack, lose a `next` or get an iteration for nothing? | 8 calls of `next`: the reachable flags and stacks repeat after 3 |
| `looper_oneshot` | Is each `next` of a one-shot client one iteration, at last? Does the Looper implement `LooperContract`? | 24 calls |
| `checker` | Does the checker report exactly what the protocol forbids, with null callbacks and without? Is Terminate's verdict right? Is a clean stream a run of `PullProtocol`? | 5 requests and callbacks in all, 2 invocations of one callback, 2 kinds of end, all 8 options |
| `checker_never_invoked` | finding 1 | 4 events |
| `checker_out_of_order` | finding 2 | 4 events |
| `pipeline` | Order, completeness, single `onDone`, one outstanding request, protocol, and eventual end, whatever the source's timing and with exceptions from `onValue`; does a stream stall, or Run return while one waits? With prompt sources: is the stream over when Pull returns, and is the Reduce still there? | Values of 0..4, Count up to 7 of a counter of 8, Empty; 12 calls of `next` (only the wrapping Count reaches the bound); 1 retry; 5 timers, delays of 0 and 1 ms, a clock up to 2 ms |
| `pipeline_lost_reduce` | finding 3 | as above, with timers only |
| `timers` | Are timers called in order, not early, not after Stop, not after being freed, and at last? Does Run return, and can the loop then be destroyed? Is this `TimerContract`? | 2 timers of either type, delays 0, 2 and one that overflows, a clock up to 2 ms, polls of at most 1 ms |
| `timers_delay` | finding 4 | 1 one-time timer, clock up to 4 ms |
| `timers_interval` | finding 5 | 1 interval, clock up to 4 ms |
| `split_string` | Is every string split into the right tokens? | strings of up to 6 of 3 characters |
| `checked_pipeline` | Does a checker report the faults of a source, and nothing else? Does an eager one keep them from the sink? | Values of 0..4, Count up to 3, all 8 options, 1 callback invoked twice |

Why the bounds suffice: five events (a request or a callback invocation counts
as one) hold two requests with a callback each and a further event out of turn,
enough to break each of the checker's properties in a faulty checker; for any
number of events its soundness and its completeness are proved. The Looper's and the pipeline's
control state does not depend on how many iterations there were, which the
proofs confirm for both. One callback invoked twice is enough for a second
outstanding request and a second `onDone`; one retry shows all that a further
connection does, as it starts from the same state. A timed stream has a timer
for each request, the last one included, hence five for four values; its source
sets only timers that are due within the clock's bound. `Ends` has two values in
`checker` so that the first end can be told from a later one; the two are
interchangeable, hence the symmetry. The order of timers is a matter of pairs,
so two are enough; a delay of 2 ms is longer than the longest poll, so that a
poll also ends with nothing due; `TimeMax` is beyond `MaxClock`, as 2^64 ms are
beyond any clock.

Deadlock checking is off everywhere: an idle looper, a silent stream and a
stream that is over really do stop, and so does a program whose user code does
nothing more.

**Fairness.** `looper_oneshot` assumes weak fairness of `Return`: a looper
function that was called returns. The pipelines assume weak fairness of the
code's own steps (a call that was made runs on) and of the source's answer,
which holds by itself for the repository's sources and is the assumption on
asynchronous ones; with `timer` it is not assumed, but follows from the next
two: user code runs the loop (`WF` of `LoopRuns`), and time passes. A faulty
source is not obliged to be. `timers` assumes that a `Run` that was called goes
on (callbacks return) and that time passes. There nothing obliges user code to
call `Run`, nor anywhere a client to call `next`, a caller to drop its sink, or
a sink to ask.

## 4. Findings

1. `Terminate` says a callback "was never invoked" of one that was, when
   callbacks came out of order (`checker_never_invoked`).
2. A request with a null callback makes the checker report a perfectly ordered
   source as out of order (`checker_out_of_order`).
3. `CHECK(self != nullptr)` in Reduce fails when the sink was a temporary and
   the source answers after `Pull` has returned (`pipeline_lost_reduce`).
4. A timer's delay is counted from the loop's cached time: created when the loop
   has been idle, or late in a long callback, it is called early, even at once
   (`timers_delay`).
5. An interval is called every millisecond after the first time, whatever its
   delay (`timers_interval`).

Not violations of anything stated, but worth knowing: an exception through the
Looper's loop silences it for good (`WedgedIsSilent`); `Count` with
`maximum = 2^64 - 1` never ends (`NeverEnds`); destroying a loop with an open
timer, or after a `Stop` with no `Run` after it, ends the process
(`DestroyLoop`'s `aborted`); callbacks that keep creating timers of 0 ms keep one
pass of libuv's timers going while every later timer starves; an `onValue` that
throws loses the value it was given but nothing else of a Drain's stream, while a
Reduce can then be used no more, and may have lost what it had accumulated; an
eager checker that refuses a callback repeated from within a request unwinds the
looper with its exception unless the call of the source that repeated it catches
it, and the stream then stops without `onDone`.

## 5. Proofs

`tlapm M.tla` checks each of these; they hold for every value of the constants
that satisfies the named assumptions of the modules, not only for the runs'.

**`LooperProofs`** proves `TypeOK`, `StackBounded`, `NoLostNext`,
`NoSpuriousIteration`, `WedgedIsSilent`, for one-shot clients `ExactlyOnce`, and
for those that do not throw the safety part of the refinement of
`LooperContract` (initial states map to initial states, steps to steps or
stutters). The inductive invariant lists the shapes the call stack can have with
the two flags: the properties speak of the flags, and a step's effect on them
depends on which frames are below. Assumption: none on the bound but that it is
a natural number.

**`CheckerProofs`** proves all of the checker's safety properties, for any
number of requests outstanding at once. `CleanMeansConforming` and
`ConformingMeansClean` are its soundness and its completeness. That the events so
far conform is not inductive: whether the next one does is decided by the code
from `aborted`, `done` and `latest`, so `HistoryInv` says what each of these
knows of the history (there has been an abort, an end, and `latest` is the number
of callbacks) and `CountersInv` what the per-callback counters add. Both hold
while nothing has been reported; `StickInv`, for `FirstEndSticks`, holds always.
The lemmas go from an unreported handler to the conditions in it
(`RequestReports`, `CallbackReports`), and from one more event to the larger
history (`TerminationGrows`, `CallbacksGrow`, `ConformsGrows`). `NewEvent` says
that the code's conditions on an event are the protocol's, read in one direction
for soundness, in the other for completeness. `LatestIsAllAnswered` and `TypeOK`
come from the same invariant.

Three action properties rest on it. `TerminateVerdict`: by `AscendingInterval`
the requests Terminate goes through are `latest + 1`, ..., `i - 1`, so that it
reports nothing exactly when there are none (and, if it enforces termination,
the stream is over). `NullCallbackIsReported`: `latest` never passes a request
with a null callback silently, as the next callback would then be two ahead of it,
which is Invariant 4. `CleanStepsFollowProtocol`: an unreported request is a pull
or an abort of `PullProtocol`, an unreported callback is its answer, and every
other step a stutter; the mapping counts events of the history, so the lemmas say
how those counts grow. With the initial states that gives, for whole runs,
`Spec /\ []Clean => Protocol!Spec`.

**`EventLoopProofs`** proves `NoUseAfterFree`, `QuietAfterStop` and
`DestroyAfterRunSucceeds`. The invariant is the life of a handle: in the heap, in
its callback, closing or closed (`HandleInv`), with `self` set until it is closed
and stopped timers closing or closed (`OwnerInv`). `CallbackInv` is what makes
it inductive: handles are not closed, and `Run` does not return, while a callback
runs.

**`TimerProofs`** builds on that invariant. `ImplementsTimerContract` is the
refinement of `TimerContract`, as a temporal theorem, `Spec => ContractSpec`: its
initial predicate, and each step is one of its steps or a stutter. `NotBeforeItIsDue` and
`ShorterIsFirst` rest on what the heap's keys say of the timers that have not
been called: `timeout` is the creation's cached time plus the delay, clamped,
and `startId` grows with the creation; the loop's time never goes back, so a
timer created later with no shorter a delay is behind in the heap's order. It
also proves `TypeOK`.

**`PipelineProofs`** proves all of `Pipeline`'s safety properties, for streams
of any length, any number of retries and every timing. The Looper in it is
unrestricted (`OneShot <- FALSE`): that Drain uses each `next` once is what has
to be shown. The proof goes the other way round: it assumes nothing, shows that
the requests made are at most the answers given, and so every step of the
pipeline is also a step of the one-shot Looper, whose invariant (`LooperProofs`,
instantiated) then gives the shapes of the stack. The inductive invariant has
one named part per idea: `AskInv` and `CountInv` relate calls of the source,
answers and iterations; `WaitInv` says that a stream that is not over waits for
an answer once the stack has unwound; `ContentInv` and `ResultInv` are about the
values; `PromptInv` about prompt sources. From it follow `TypeOK`,
`OneOutstandingRequest`, `ValuesInOrder`, `DoneMeansEverything`,
`OverWhenPullReturns`, `PromptReduceIsAlive`, `NeverStalls`, `QuietWhenOver`,
the refinement of `PullProtocol`, which is proved as a temporal theorem, and the
one thing a Looper is for: `StackBounded` of the Looper in a pipeline, whose
stack stays within four frames however long the stream is.

**`CheckedProofs`** does what `CheckerProofs` and `PipelineProofs` do at once,
with a source that may invoke callbacks twice, any number of times. The checker
in it is `CheckerProofs` instantiated (`Watcher`), whose step lemmas carry its
invariant over every step of the pipeline; a lemma for each handler (`RequestPasses`,
`CallbackPasses`, ...) says what the step then does to the
numbers the sink's half speaks of. The invariant of `PipelineProofs` cannot be
used as it is: a callback that an eager checker refuses is left by an exception,
which unwinds the looper though `onValue` has not thrown. Out of a loop that
wedges the looper, though an earlier call of the source may catch the exception
and go on; the stream stops there for good, which is the one thing a fault can
do to it. So `SinkInv` is that invariant without `WaitInv`, from which
`NeverStalls` would follow, and with a weaker `CountInv`. It holds while nothing has been repeated, or for ever if the checker is eager
(`Watched`); so does `SeesInv`, that the checker knows just what the sink does:
`latest` is the number of answers, `aborted` and `done` tell whether the sink has
aborted and the stream has ended. From these follow

- `VerdictIsRight`: at any time something has been reported exactly if a
  callback was repeated. From right to left this is the checker's work; from
  left to right it needs `SinkInv`, that sinks and sources themselves do nothing
  to report;
- `EagerShieldsSink`: one request outstanding, all values in order, one
  `onDone`, however often callbacks are repeated;
- `CheckerIsTransparent`: a run without a fault is a run of `Pipeline`, so all
  that `PipelineProofs` shows holds of it;
- `EagerStreamIsProtocol`: with an eager checker sink and source implement
  `PullProtocol`, faults or not.

On the way it is shown that no request of the repository's sinks is ever refused
by an eager checker (`RequestIsNotRefused`, `NoRequestIsRefused`); the action
`AskThrows` is there for what the code could do.

**`TimedProofs`** proves that the composition is one of both components:
`TimedSpec => Spec` and `TimedSpec => Loop!Spec`, by one step lemma each. So all
that is proved of pipelines and of event loops holds of pipelines on event
loops, and what remains is the relation of the two, `TimerInv`: timers and requests are
equally many, and the timer of an outstanding request is in the heap or in its
callback. With `NeverStalls` that is `NoStreamLeftBehind`. `TimersBelowAreRight`
and `TimersBelowKeepContract` carry the results of `EventLoopProofs` and
`TimerProofs` over: they instantiate `TimerProofs` (`Clock`) and show action by
action that the event loop below the pipeline is the one it speaks of. The
constants of `TimedPipeline` get the assumption that `LibuvTimers` and
`EventLoop` make of theirs (`TimedAssumption`).

**`SplitProofs`** proves `SplitsExactly` for strings of any length over any
alphabet. Between two rounds of the loop `prev_pos` is a boundary, and the
tokens between the boundaries up to it have been taken, each in its place
(`TokensUpTo`). What makes it inductive is that the next delimiter found is the
boundary next to `prev_pos`, so that there is exactly one boundary more before
it: the number of a token is the number of boundaries before its end, and no
induction over the string is needed.

**Model-checked only.** Liveness: `EveryNextIsServed`, `StreamEnds`,
`VerdictComes`, `TimersAreCalled` and `RunReturns`, which rest on fairness and
ENABLED, and, of the same kind, the fairness conjunct of the refinement of
`LooperContract`. All other properties that the passing runs check are proved.
The findings are counterexamples; there is nothing to prove about them.

## 6. Not modelled

- `Duplex`, `MakeDuplex` and `Link`: they do not compile when instantiated and
  nothing instantiates them.
- `Finally` and `Uncopyable`: a destructor that calls a function, which nothing
  uses, and deleted copy operations.
- A second connection of a sink whose stream is over, or is still running:
  connections are modelled one at a time, the second after an exception.
- A source that answers out of order under a Drain: Drain has one request
  outstanding, so there is no order to break (the checker has every such
  source); a source of the user's that throws of itself; direct users of a source
  that pass a null callback.
- A timer's callback that throws: the exception would unwind libuv's C frames,
  which is undefined. A pipeline on timers therefore has an `onValue` that does
  not throw.
- The rest of libuv, and zeromq, glog, gflags, gtest: third-party code. libuv's
  return codes are 0 wherever dk_pull's calls can get to.
- Build files, tests and the wording of messages.

## 7. Plan

Done, in order of importance: the Looper and its contract; the checker and the
protocol; the pipelines that compose sources, sinks, Looper and checker, with
exceptions, retries and faulty sources; timers, the event loop and their
contract; pipelines on event loops; SplitString; and proofs of every safety
property that the runs check, of the pipelines behind a checker and on an event
loop too.

Left:

1. The safety steps that liveness rests on, stated and proved where they do not
   need ENABLED: that each step of a stream brings it nearer to its end.
2. Null callbacks given to each source by a direct user.
