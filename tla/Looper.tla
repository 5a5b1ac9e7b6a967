------------------------------- MODULE Looper -------------------------------
(***************************************************************************)
(* dk_pull::looper::Looper (dk_pull/looper/looper.{h,cc}): a trampoline.   *)
(* A client hands it a looper function; every invocation of that function  *)
(* receives a closure `next`, and calling next asks for one more           *)
(* invocation.  next may be called inside the invocation that received it, *)
(* or later from the event loop, and the point of the class is that a      *)
(* million synchronous calls of next do not grow the call stack.           *)
(*                                                                         *)
(* The looper runs on one thread.  What is concurrent about it is          *)
(* re-entrancy, so the call stack is part of the state.  The client (the   *)
(* looper function and whoever kept a copy of next) is the environment: it *)
(* calls next, returns or throws in any order.                             *)
(***************************************************************************)
EXTENDS Naturals, Sequences

CONSTANTS
  OneShot,      \* TRUE: the client calls each next it was handed at most once
  MayThrow,     \* TRUE: the looper function may throw
  MaxRequests   \* bound: how many times the client calls next in all

ASSUME LooperAssumption ==
  /\ OneShot \in BOOLEAN
  /\ MayThrow \in BOOLEAN
  /\ MaxRequests \in Nat

VARIABLES
  nextCalled,               \* Looper::nextCalled
  looperFunctionReturned,   \* Looper::looperFunctionReturned
  stack,                    \* the C++ call stack, top last; <<>> is the event loop
  iterations,               \* history: looper function invocations, each handed a next
  requests,                 \* history: calls of next
  wedged                    \* history: an exception has unwound the loop of a next

flags == <<nextCalled, looperFunctionReturned>>
vars  == <<nextCalled, looperFunctionReturned, stack, iterations, requests, wedged>>

-----------------------------------------------------------------------------
(* Call frames: Looper::Start, the while loop inside a next, and the       *)
(* looper function itself, which is always called by one of the other two. *)
InStart == "Start"
InLoop  == "Loop"
InBody  == "Body"

Frames == {InStart, InLoop, InBody}

(* Client code runs: the looper function is on top, or the event loop is.  *)
ClientRuns == stack # <<>> => stack[Len(stack)] = InBody

(* The looper function was called by frame f. *)
BodyCalledFrom(f) ==
  /\ Len(stack) >= 2
  /\ stack[Len(stack)] = InBody
  /\ stack[Len(stack) - 1] = f

PopCallAndBody == SubSeq(stack, 1, Len(stack) - 2)

LoopOnStack == \E d \in 1..Len(stack) : stack[d] = InLoop

-----------------------------------------------------------------------------
Init ==
  /\ nextCalled = FALSE
  /\ looperFunctionReturned = TRUE
  /\ stack = <<>>
  /\ iterations = 0
  /\ requests = 0
  /\ wedged = FALSE

(* Looper::Start.  Every use in the repository creates a looper and starts *)
(* it once, from plain code.  Start does not touch the two flags, so the   *)
(* first invocation runs with looperFunctionReturned = TRUE.               *)
Start ==
  /\ iterations = 0
  /\ stack' = <<InStart, InBody>>
  /\ iterations' = 1
  /\ UNCHANGED <<flags, requests, wedged>>

MayCallNext ==
  /\ ClientRuns
  /\ iterations > 0
  /\ requests < MaxRequests
  /\ OneShot => requests < iterations

\* Mutant of NextWhileBusy: next tests the flag before it sets nextCalled.
NextWhileBusyDropped ==
  /\ MayCallNext
  /\ ~looperFunctionReturned
  /\ requests' = requests + 1
  /\ UNCHANGED <<flags, stack, iterations, wedged>>

(* next(), called while the loop of another next is waiting for the looper *)
(* function to return: leave a note for that loop.                         *)
NextWhileBusy ==
  /\ MayCallNext
  /\ ~looperFunctionReturned
  /\ nextCalled' = TRUE
  /\ requests' = requests + 1
  /\ UNCHANGED <<looperFunctionReturned, stack, iterations, wedged>>

\* Mutant of NextWhileIdle: the running loop is not marked.
NextWhileIdleUnmarked ==
  /\ MayCallNext
  /\ looperFunctionReturned
  /\ nextCalled' = FALSE
  /\ stack' = stack \o <<InLoop, InBody>>
  /\ iterations' = iterations + 1
  /\ requests' = requests + 1
  /\ UNCHANGED <<looperFunctionReturned, wedged>>

(* next(), called otherwise: it becomes the loop, and its first pass takes *)
(* back nextCalled and calls the looper function.                          *)
NextWhileIdle ==
  /\ MayCallNext
  /\ looperFunctionReturned
  /\ looperFunctionReturned' = FALSE
  /\ nextCalled' = FALSE
  /\ stack' = stack \o <<InLoop, InBody>>
  /\ iterations' = iterations + 1
  /\ requests' = requests + 1
  /\ UNCHANGED wedged

(* The looper function returns to Start, and Start to its caller. *)
ReturnToStart ==
  /\ BodyCalledFrom(InStart)
  /\ stack' = PopCallAndBody
  /\ UNCHANGED <<flags, iterations, requests, wedged>>

\* Mutant of Iterate: nextCalled is not taken back.
IterateKeepingNote ==
  /\ BodyCalledFrom(InLoop)
  /\ nextCalled
  /\ iterations' = iterations + 1
  /\ UNCHANGED <<flags, stack, requests, wedged>>

(* The looper function returns to the loop, which goes round again ... *)
Iterate ==
  /\ BodyCalledFrom(InLoop)
  /\ nextCalled
  /\ nextCalled' = FALSE
  /\ iterations' = iterations + 1
  /\ UNCHANGED <<looperFunctionReturned, stack, requests, wedged>>

\* Mutants of LeaveLoop: the flag is not restored; the loop runs once, an if.
LeaveLoopUnrestored ==
  /\ BodyCalledFrom(InLoop)
  /\ ~nextCalled
  /\ stack' = PopCallAndBody
  /\ UNCHANGED <<flags, iterations, requests, wedged>>

LeaveLoopAfterOnePass ==
  /\ BodyCalledFrom(InLoop)
  /\ looperFunctionReturned' = TRUE
  /\ stack' = PopCallAndBody
  /\ UNCHANGED <<nextCalled, iterations, requests, wedged>>

(* ... or ends: the next that became the loop returns to its caller. *)
LeaveLoop ==
  /\ BodyCalledFrom(InLoop)
  /\ ~nextCalled
  /\ looperFunctionReturned' = TRUE
  /\ stack' = PopCallAndBody
  /\ UNCHANGED <<nextCalled, iterations, requests, wedged>>

(* The looper function throws.  looper.cc catches nothing and restores no  *)
(* flag on the way out; the exception ends in a looper function below that *)
(* catches it, or in the event loop.                                       *)
Handlers == {0} \cup {d \in 1..Len(stack) : stack[d] = InBody}

\* Mutant of Throw: a guard object restores looperFunctionReturned.
ThrowRestoringFlag ==
  /\ MayThrow
  /\ stack # <<>>
  /\ \E n \in Handlers \ {Len(stack)} :
       /\ stack' = SubSeq(stack, 1, n)
       /\ wedged' = (wedged \/ \E d \in (n + 1)..Len(stack) : stack[d] = InLoop)
  /\ looperFunctionReturned' = TRUE
  /\ UNCHANGED <<nextCalled, iterations, requests>>

Throw ==
  /\ MayThrow
  /\ stack # <<>>
  /\ \E n \in Handlers \ {Len(stack)} :
       /\ stack' = SubSeq(stack, 1, n)
       /\ wedged' = (wedged \/ \E d \in (n + 1)..Len(stack) : stack[d] = InLoop)
  /\ UNCHANGED <<flags, iterations, requests>>

Return == ReturnToStart \/ Iterate \/ LeaveLoop

Next ==
  \/ Start
  \/ NextWhileBusy
  \/ NextWhileIdle
  \/ ReturnToStart
  \/ Iterate
  \/ LeaveLoop
  \/ Throw

Spec == Init /\ [][Next]_vars

(* A looper function that was called returns: Start and the loop are       *)
(* straight-line code on a running thread, and the client's function is    *)
(* assumed to terminate.  Nothing obliges the client to call next.         *)
FairSpec == Spec /\ WF_vars(Return)

-----------------------------------------------------------------------------
(* Types, and no more iterations than the bound on requests allows. *)
TypeOK ==
  /\ nextCalled \in BOOLEAN
  /\ looperFunctionReturned \in BOOLEAN
  /\ stack \in Seq(Frames)
  /\ iterations \in 0..(MaxRequests + 1)
  /\ requests \in 0..MaxRequests
  /\ wedged \in BOOLEAN

(* Stack safety, what looper_test.cc SyncTest runs a million iterations    *)
(* for: however next calls and iterations interleave, there is at most one *)
(* loop, and the looper function is re-entered at most once (from the      *)
(* first invocation, which Start does not mark as running).                *)
StackBounded ==
  stack \in { <<>>,
              <<InStart, InBody>>,
              <<InLoop, InBody>>,
              <<InStart, InBody, InLoop, InBody>> }

(* No lost wake-up: a call of next that only left a note left it for a     *)
(* loop that is still on the stack and will read it, and                   *)
(* looperFunctionReturned says truly whether there is such a loop.  The    *)
(* only exception is a looper that an exception has wedged.                *)
NoLostNext ==
  \/ wedged
  \/ /\ looperFunctionReturned = ~LoopOnStack
     /\ nextCalled => LoopOnStack

(* Every iteration but the first was asked for: the loop never invokes the *)
(* looper function without a call of next to account for it.               *)
NoSpuriousIteration == iterations <= requests + 1

(* For a client that calls each next once, the count is exact: each call   *)
(* of next is one iteration, neither dropped nor merged with another.      *)
ExactlyOnce ==
  (OneShot /\ ~wedged /\ iterations > 0) =>
     iterations = IF nextCalled THEN requests ELSE requests + 1

(* What an exception costs: once it has unwound the loop,                  *)
(* looperFunctionReturned stays false, so the looper never invokes its     *)
(* function again, whatever the client calls, and says nothing about it.   *)
WedgedIsSilent == [][wedged => wedged' /\ iterations' = iterations]_vars

(* Each call of next is eventually followed by its own iteration. *)
EveryNextIsServed ==
  \A n \in 1..MaxRequests : (requests >= n) ~> (iterations > n)

(* For one-shot clients that do not throw, the looper implements its       *)
(* contract: the two flags and the stack are hidden behind two counters.   *)
Contract == INSTANCE LooperContract

ContractSpec == Contract!Spec
=============================================================================
