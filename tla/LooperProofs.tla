---------------------------- MODULE LooperProofs ----------------------------
(***************************************************************************)
(* Proofs about Looper, for every bound and every kind of client: its      *)
(* safety properties from one inductive invariant, and the safety part of  *)
(* the refinement of LooperContract.                                       *)
(***************************************************************************)
EXTENDS Looper, SequenceTheorems, TLAPS

(* The call stacks without a loop, and those with one. *)
IdleStacks == { <<>>, <<InStart, InBody>> }
LoopStacks == { <<InLoop, InBody>>, <<InStart, InBody, InLoop, InBody>> }

TypeInv ==
  /\ nextCalled \in BOOLEAN
  /\ looperFunctionReturned \in BOOLEAN
  /\ stack \in IdleStacks \cup LoopStacks
  /\ iterations \in Nat
  /\ requests \in 0..MaxRequests
  /\ wedged \in BOOLEAN

(* The flag and the stack agree, and a wedged looper has no loop.  This is *)
(* what makes StackBounded inductive: a second loop would need the flag.   *)
FlagInv ==
  /\ ~wedged => (looperFunctionReturned <=> stack \in IdleStacks)
  /\ wedged => ~looperFunctionReturned /\ stack \in IdleStacks
  /\ nextCalled => ~looperFunctionReturned

BeforeStartInv ==
  iterations = 0 =>
    /\ stack = <<>>
    /\ requests = 0
    /\ looperFunctionReturned

(* A pending note is a request that has not been served yet. *)
CountInv ==
  /\ nextCalled => iterations <= requests
  /\ iterations <= requests + 1
  /\ (OneShot /\ ~wedged /\ iterations > 0) =>
        iterations = IF nextCalled THEN requests ELSE requests + 1

IInv == TypeInv /\ FlagInv /\ BeforeStartInv /\ CountInv

-----------------------------------------------------------------------------
LEMMA StacksAreSeqs ==
  /\ <<>> \in Seq(Frames)
  /\ <<InStart, InBody>> \in Seq(Frames)
  /\ <<InLoop, InBody>> \in Seq(Frames)
  /\ <<InStart, InBody, InLoop, InBody>> \in Seq(Frames)
  BY DEF Frames

(* What is left when the two top frames of each reachable stack are gone.  *)
LEMMA PopTwo ==
  /\ \A s : SubSeq(s, 1, 0) = <<>>
  /\ SubSeq(<<InStart, InBody, InLoop, InBody>>, 1, 2) = <<InStart, InBody>>
<1>1. \A s : SubSeq(s, 1, 0) = <<>>
  BY SubSeqEmpty
<1>2. SubSeq(<<InStart, InBody, InLoop, InBody>>, 1, 2) = <<InStart, InBody>>
  <2>. DEFINE s == <<InStart, InBody, InLoop, InBody>>
              t == SubSeq(s, 1, 2)
  <2>1. /\ t \in Seq(Frames)
        /\ Len(t) = 2
        /\ \A i \in 1..2 : t[i] = s[i]
    <3>1. \A i \in 1..2 : s[i] \in Frames
      BY DEF Frames
    <3>. HIDE DEF s
    <3>. QED
      BY <3>1, SubSeqProperties
  <2>2. Len(<<InStart, InBody>>) = 2 /\ \A i \in 1..2 : <<InStart, InBody>>[i] = s[i]
    OBVIOUS
  <2>. HIDE DEF t, s
  <2>3. t = <<InStart, InBody>>
    BY <2>1, <2>2, StacksAreSeqs, SeqEqual
  <2>. QED
    BY <2>3 DEF t, s
<1>. QED
  BY <1>1, <1>2

(* Which of the reachable stacks a body called from each frame leaves. *)
LEMMA PopFromStart ==
  ASSUME stack \in IdleStacks \cup LoopStacks, BodyCalledFrom(InStart)
  PROVE  stack = <<InStart, InBody>> /\ PopCallAndBody = <<>>
<1>1. stack = <<InStart, InBody>>
  BY DEF IdleStacks, LoopStacks, BodyCalledFrom, InStart, InBody, InLoop
<1>2. Len(stack) - 2 = 0
  BY <1>1
<1>. QED
  BY <1>1, <1>2, PopTwo DEF PopCallAndBody

LEMMA PopFromLoop ==
  ASSUME stack \in IdleStacks \cup LoopStacks, BodyCalledFrom(InLoop)
  PROVE  stack \in LoopStacks /\ PopCallAndBody \in IdleStacks
<1>1. stack \in LoopStacks
  BY DEF IdleStacks, LoopStacks, BodyCalledFrom, InStart, InBody, InLoop
<1>2. CASE stack = <<InLoop, InBody>>
  <2>1. Len(stack) - 2 = 0
    BY <1>2
  <2>. QED
    BY <1>1, <2>1, PopTwo DEF PopCallAndBody, IdleStacks
<1>3. CASE stack = <<InStart, InBody, InLoop, InBody>>
  <2>1. Len(stack) - 2 = 2
    BY <1>3
  <2>. QED
    BY <1>1, <1>3, <2>1, PopTwo DEF PopCallAndBody, IdleStacks
<1>. QED
  BY <1>1, <1>2, <1>3 DEF LoopStacks

LEMMA PushLoop ==
  ASSUME stack \in IdleStacks
  PROVE  stack \o <<InLoop, InBody>> \in LoopStacks
<1>. DEFINE two == <<InLoop, InBody>>
            t   == stack \o two
<1>1. CASE stack = <<>>
  BY <1>1, StacksAreSeqs, ConcatEmptySeq DEF LoopStacks
<1>2. CASE stack = <<InStart, InBody>>
  <2>1. Len(stack) = 2 /\ Len(two) = 2
    BY <1>2
  <2>2. /\ t \in Seq(Frames)
        /\ Len(t) = 4
        /\ \A i \in 1..4 : t[i] = IF i <= 2 THEN stack[i] ELSE two[i - 2]
    <3>1. stack \in Seq(Frames) /\ two \in Seq(Frames)
      BY <1>2, StacksAreSeqs
    <3>2. /\ t \in Seq(Frames)
          /\ Len(t) = Len(stack) + Len(two)
          /\ \A i \in 1..(Len(stack) + Len(two)) :
               t[i] = IF i <= Len(stack) THEN stack[i] ELSE two[i - Len(stack)]
      <4>. HIDE DEF two
      <4>. QED
        BY <3>1, ConcatProperties
    <3>. HIDE DEF two, t
    <3>3. Len(stack) + Len(two) = 4
      BY <2>1
    <3>. QED
      BY <2>1, <3>2, <3>3
  <2>. DEFINE four == <<InStart, InBody, InLoop, InBody>>
  <2>3. Len(four) = 4 /\ \A i \in 1..4 : four[i] = IF i <= 2 THEN stack[i] ELSE two[i - 2]
    BY <1>2
  <2>4. four \in Seq(Frames)
    BY StacksAreSeqs
  <2>. HIDE DEF t, four
  <2>5. t = four
    BY <2>2, <2>3, <2>4, SeqEqual
  <2>. QED
    BY <2>5 DEF t, four, LoopStacks
<1>. QED
  BY <1>1, <1>2 DEF IdleStacks

LEMMA StacksDistinct == IdleStacks \cap LoopStacks = {}
  BY DEF IdleStacks, LoopStacks, InStart, InBody, InLoop

(* An exception leaves a loop-free stack, and unwinds a loop if and only   *)
(* if there was one.                                                       *)
LEMMA ThrowUnwinds ==
  ASSUME stack \in IdleStacks \cup LoopStacks, wedged \in BOOLEAN, Throw
  PROVE  /\ stack # <<>>
         /\ stack' \in IdleStacks
         /\ wedged' = (wedged \/ stack \in LoopStacks)
<1>. PICK n \in Handlers \ {Len(stack)} :
       /\ stack' = SubSeq(stack, 1, n)
       /\ wedged' = (wedged \/ \E d \in (n + 1)..Len(stack) : stack[d] = InLoop)
  BY DEF Throw
<1>0. stack # <<>>
  BY DEF Throw
<1>1. CASE stack = <<InStart, InBody>>
  <2>1. n = 0
    BY <1>1 DEF Handlers, InStart, InBody
  <2>. QED
    BY <1>0, <1>1, <2>1, PopTwo, StacksDistinct DEF IdleStacks, InStart, InBody, InLoop
<1>2. CASE stack = <<InLoop, InBody>>
  <2>1. n = 0
    BY <1>2 DEF Handlers, InLoop, InBody
  <2>2. stack[1] = InLoop /\ 1 \in (n + 1)..Len(stack)
    BY <1>2, <2>1
  <2>. QED
    BY <1>0, <1>2, <2>1, <2>2, PopTwo DEF IdleStacks, LoopStacks
<1>3. CASE stack = <<InStart, InBody, InLoop, InBody>>
  <2>1. n = 0 \/ n = 2
    BY <1>3 DEF Handlers, InLoop, InBody, InStart
  <2>2. stack[3] = InLoop /\ 3 \in (n + 1)..Len(stack)
    BY <1>3, <2>1
  <2>. QED
    BY <1>0, <1>3, <2>1, <2>2, PopTwo DEF IdleStacks, LoopStacks
<1>. QED
  BY <1>0, <1>1, <1>2, <1>3 DEF IdleStacks, LoopStacks

-----------------------------------------------------------------------------
LEMMA InitIInv == Init => IInv
<1>. SUFFICES ASSUME Init PROVE IInv
  OBVIOUS
<1>1. stack \in IdleStacks
  BY DEF Init, IdleStacks
<1>2. TypeInv
  <2>1. nextCalled \in BOOLEAN /\ looperFunctionReturned \in BOOLEAN /\ wedged \in BOOLEAN
    BY DEF Init
  <2>2. iterations = 0 /\ requests = 0
    BY DEF Init
  <2>3. iterations \in Nat /\ requests \in 0..MaxRequests
    BY <2>2, LooperAssumption DEF LooperAssumption
  <2>. QED
    BY <1>1, <2>1, <2>3 DEF TypeInv
<1>3. FlagInv
  BY <1>1 DEF Init, FlagInv
<1>4. BeforeStartInv /\ CountInv
  <2>1. /\ ~nextCalled
        /\ iterations = 0
        /\ requests = 0
        /\ stack = <<>>
        /\ looperFunctionReturned
    BY DEF Init
  <2>. QED
    BY <2>1 DEF BeforeStartInv, CountInv
<1>. QED
  BY <1>2, <1>3, <1>4 DEF IInv

LEMMA NextIInv == IInv /\ [Next]_vars => IInv'
<1>. SUFFICES ASSUME IInv, [Next]_vars
              PROVE  IInv'
  OBVIOUS
<1>. USE LooperAssumption DEF IInv
<1>1. CASE Start
  <2>1. stack' \in IdleStacks /\ wedged' = wedged
    BY <1>1 DEF Start, IdleStacks
  <2>2. ~wedged /\ looperFunctionReturned /\ ~nextCalled /\ requests = 0
    BY <1>1 DEF Start, TypeInv, FlagInv, BeforeStartInv
  <2>3. TypeInv'
    BY <1>1, <2>1 DEF Start, TypeInv, flags
  <2>4. FlagInv'
    BY <1>1, <2>1, <2>2 DEF Start, FlagInv, TypeInv, flags
  <2>5. BeforeStartInv' /\ CountInv'
    BY <1>1, <2>2 DEF Start, BeforeStartInv, CountInv, flags
  <2>. QED
    BY <2>3, <2>4, <2>5
<1>2. CASE NextWhileBusy
  <2>1. TypeInv'
    BY <1>2 DEF NextWhileBusy, MayCallNext, TypeInv
  <2>2. FlagInv'
    BY <1>2 DEF NextWhileBusy, FlagInv
  <2>3. BeforeStartInv' /\ CountInv'
    BY <1>2 DEF NextWhileBusy, MayCallNext, TypeInv, BeforeStartInv, CountInv
  <2>. QED
    BY <2>1, <2>2, <2>3
<1>3. CASE NextWhileIdle
  <2>1. ~wedged /\ ~nextCalled /\ stack \in IdleStacks
    BY <1>3 DEF NextWhileIdle, FlagInv, TypeInv
  <2>2. stack' \in LoopStacks /\ stack' \notin IdleStacks
    BY <1>3, <2>1, PushLoop, StacksDistinct DEF NextWhileIdle
  <2>3. TypeInv'
    <3>1. /\ nextCalled' \in BOOLEAN
          /\ looperFunctionReturned' \in BOOLEAN
          /\ wedged' \in BOOLEAN
      BY <1>3 DEF NextWhileIdle, TypeInv
    <3>2. /\ iterations' = iterations + 1
          /\ requests' = requests + 1
          /\ requests < MaxRequests
      BY <1>3 DEF NextWhileIdle, MayCallNext
    <3>3. iterations \in Nat /\ requests \in 0..MaxRequests
      BY DEF TypeInv
    <3>4. iterations' \in Nat /\ requests' \in 0..MaxRequests
      BY <3>2, <3>3
    <3>. QED
      BY <2>2, <3>1, <3>4 DEF TypeInv
  <2>4. FlagInv'
    BY <1>3, <2>1, <2>2 DEF NextWhileIdle, FlagInv
  <2>5. BeforeStartInv' /\ CountInv'
    <3>1. /\ ~nextCalled'
          /\ iterations' = iterations + 1
          /\ requests' = requests + 1
          /\ wedged' = wedged
          /\ iterations > 0
      BY <1>3 DEF NextWhileIdle, MayCallNext
    <3>. QED
      BY <2>1, <3>1 DEF TypeInv, BeforeStartInv, CountInv
  <2>. QED
    BY <2>3, <2>4, <2>5
<1>4. CASE ReturnToStart
  <2>1. stack \in IdleStacks /\ stack' = <<>> /\ stack' \in IdleStacks
    BY <1>4, PopFromStart DEF ReturnToStart, IdleStacks, TypeInv
  <2>2. TypeInv' /\ FlagInv'
    BY <1>4, <2>1 DEF ReturnToStart, flags, TypeInv, FlagInv
  <2>3. BeforeStartInv' /\ CountInv'
    BY <1>4, <2>1 DEF ReturnToStart, flags, BeforeStartInv, CountInv
  <2>. QED
    BY <2>2, <2>3
<1>5. CASE Iterate
  <2>1. TypeInv'
    <3>1. /\ nextCalled' \in BOOLEAN
          /\ looperFunctionReturned' \in BOOLEAN
          /\ wedged' \in BOOLEAN
          /\ UNCHANGED <<stack, requests>>
      BY <1>5 DEF Iterate, TypeInv
    <3>2. iterations' = iterations + 1 /\ iterations \in Nat
      BY <1>5 DEF Iterate, TypeInv
    <3>3. iterations' \in Nat
      BY <3>2
    <3>. QED
      BY <3>1, <3>3 DEF TypeInv
  <2>2. FlagInv'
    BY <1>5 DEF Iterate, FlagInv
  <2>3. BeforeStartInv' /\ CountInv'
    <3>1. /\ nextCalled /\ ~nextCalled'
          /\ iterations' = iterations + 1
          /\ UNCHANGED <<requests, wedged>>
      BY <1>5 DEF Iterate
    <3>. QED
      BY <3>1 DEF TypeInv, BeforeStartInv, CountInv
  <2>. QED
    BY <2>1, <2>2, <2>3
<1>6. CASE LeaveLoop
  <2>1. stack \in LoopStacks /\ stack' \in IdleStacks
    BY <1>6, PopFromLoop DEF LeaveLoop, TypeInv
  <2>2. ~wedged
    BY <2>1, StacksDistinct DEF FlagInv
  <2>3. stack # <<>> /\ iterations # 0
    BY <2>1, StacksDistinct DEF BeforeStartInv, IdleStacks
  <2>4. TypeInv' /\ FlagInv'
    BY <1>6, <2>1, <2>2 DEF LeaveLoop, TypeInv, FlagInv
  <2>5. BeforeStartInv' /\ CountInv'
    BY <1>6, <2>3 DEF LeaveLoop, BeforeStartInv, CountInv
  <2>. QED
    BY <2>4, <2>5
<1>7. CASE Throw
  <2>1. /\ stack # <<>>
        /\ stack' \in IdleStacks
        /\ wedged' = (wedged \/ stack \in LoopStacks)
    BY <1>7, ThrowUnwinds DEF TypeInv
  <2>2. UNCHANGED <<nextCalled, looperFunctionReturned, iterations, requests>>
    BY <1>7 DEF Throw, flags
  <2>3. TypeInv' /\ FlagInv'
    BY <2>1, <2>2, StacksDistinct DEF TypeInv, FlagInv
  <2>4. BeforeStartInv'
    BY <2>1, <2>2 DEF BeforeStartInv
  <2>5. CountInv'
    BY <2>1, <2>2 DEF CountInv, TypeInv
  <2>. QED
    BY <2>3, <2>4, <2>5
<1>8. CASE UNCHANGED vars
  BY <1>8 DEF vars, TypeInv, FlagInv, BeforeStartInv, CountInv
<1>. QED
  BY <1>1, <1>2, <1>3, <1>4, <1>5, <1>6, <1>7, <1>8 DEF Next

LEMMA SpecIInv == Spec => []IInv
  BY InitIInv, NextIInv, PTL DEF Spec

-----------------------------------------------------------------------------
(* Every state of a looper is of the declared types, and the client never  *)
(* gets past its bound: looper.h's two flags and the stack built by        *)
(* Start and makeNext.                                                     *)
THEOREM TypeCorrect == Spec => []TypeOK
<1>1. IInv => TypeOK
  <2>1. IInv => stack \in Seq(Frames)
    BY StacksAreSeqs DEF IInv, TypeInv, IdleStacks, LoopStacks
  <2>2. IInv => iterations \in 0..(MaxRequests + 1)
    BY LooperAssumption DEF IInv, TypeInv, CountInv, LooperAssumption
  <2>. QED
    BY <2>1, <2>2 DEF IInv, TypeInv, TypeOK
<1>. QED
  BY <1>1, SpecIInv, PTL

(* Stack safety for every client and any number of iterations: makeNext's  *)
(* closure never nests a second loop, so the stack never exceeds the four  *)
(* frames it has when the first invocation calls next.                     *)
THEOREM StackSafety == Spec => []StackBounded
<1>1. IInv => StackBounded
  BY DEF IInv, TypeInv, IdleStacks, LoopStacks, StackBounded
<1>. QED
  BY <1>1, SpecIInv, PTL

(* A next that finds looperFunctionReturned false and just sets nextCalled *)
(* is read by a loop that is still running, unless an exception wedged it. *)
THEOREM NoLostWakeUp == Spec => []NoLostNext
<1>1. IInv => NoLostNext
  <2>1. stack \in IdleStacks => ~LoopOnStack
    BY DEF IdleStacks, LoopOnStack, InStart, InBody, InLoop
  <2>2. stack \in LoopStacks => LoopOnStack
    <3>1. ASSUME stack = <<InLoop, InBody>> PROVE LoopOnStack
      <4>1. 1 \in 1..Len(stack) /\ stack[1] = InLoop
        BY <3>1
      <4>. QED
        BY <4>1 DEF LoopOnStack
    <3>2. ASSUME stack = <<InStart, InBody, InLoop, InBody>> PROVE LoopOnStack
      <4>1. 3 \in 1..Len(stack) /\ stack[3] = InLoop
        BY <3>2
      <4>. QED
        BY <4>1 DEF LoopOnStack
    <3>. QED
      BY <3>1, <3>2 DEF LoopStacks
  <2>3. LoopOnStack \in BOOLEAN
    BY DEF LoopOnStack
  <2>. QED
    BY <2>1, <2>2, <2>3, StacksDistinct DEF IInv, TypeInv, FlagInv, NoLostNext
<1>. QED
  BY <1>1, SpecIInv, PTL

(* The loop in makeNext's closure runs the looper function only for a next *)
(* that was called.                                                        *)
THEOREM IterationsAreRequested == Spec => []NoSpuriousIteration
<1>1. IInv => NoSpuriousIteration
  BY DEF IInv, CountInv, NoSpuriousIteration
<1>. QED
  BY <1>1, SpecIInv, PTL

(* One iteration per next, exactly, for a client that uses each next once  *)
(* (drain.h calls next from the callback of the one request it made).      *)
THEOREM OneIterationPerNext == Spec => []ExactlyOnce
<1>1. IInv => ExactlyOnce
  BY DEF IInv, CountInv, ExactlyOnce
<1>. QED
  BY <1>1, SpecIInv, PTL

(* After an exception has unwound the loop, nothing makes looper.cc run    *)
(* the looper function again.                                              *)
THEOREM WedgedForever == Spec => WedgedIsSilent
<1>1. IInv /\ [Next]_vars => [wedged => wedged' /\ iterations' = iterations]_vars
  <2>. SUFFICES ASSUME IInv, Next, wedged
                PROVE  wedged' /\ iterations' = iterations
    OBVIOUS
  <2>1. ~looperFunctionReturned /\ stack \in IdleStacks
    BY DEF IInv, FlagInv
  <2>2. stack \notin LoopStacks
    BY <2>1, StacksDistinct
  <2>3. CASE Start
    BY <2>1, <2>3 DEF Start, IInv, BeforeStartInv
  <2>4. CASE NextWhileBusy
    BY <2>4 DEF NextWhileBusy
  <2>5. CASE NextWhileIdle
    BY <2>1, <2>5 DEF NextWhileIdle
  <2>6. CASE ReturnToStart
    BY <2>6 DEF ReturnToStart
  <2>7. CASE Iterate
    BY <2>2, <2>7, PopFromLoop DEF Iterate, IInv, TypeInv
  <2>8. CASE LeaveLoop
    BY <2>8 DEF LeaveLoop
  <2>9. CASE Throw
    BY <2>9, ThrowUnwinds DEF Throw, IInv, TypeInv
  <2>. QED
    BY <2>3, <2>4, <2>5, <2>6, <2>7, <2>8, <2>9 DEF Next
<1>. QED
  BY <1>1, SpecIInv, PTL DEF Spec, WedgedIsSilent

(* The safety half of the refinement: for one-shot clients that do not     *)
(* throw, every step of the two-flag mechanism is a step of LooperContract *)
(* or leaves its two counters alone.                                       *)
THEOREM ImplementsContract ==
  ASSUME OneShot, ~MayThrow
  PROVE  Spec => Contract!Init /\ [][Contract!Next]_(Contract!vars)
<1>. DEFINE Calm == ~wedged
<1>1. Init => Contract!Init /\ Calm
  BY DEF Init, Contract!Init
<1>2. Calm /\ [Next]_vars => Calm'
  BY DEF Next, vars, Start, NextWhileBusy, NextWhileIdle, ReturnToStart, Iterate,
         LeaveLoop, Throw
<1>3. IInv /\ Calm /\ [Next]_vars => [Contract!Next]_(Contract!vars)
  <2>. SUFFICES ASSUME IInv, Calm, [Next]_vars
                PROVE  [Contract!Next]_(Contract!vars)
    OBVIOUS
  <2>. USE DEF Contract!vars
  <2>1. CASE Start
    BY <2>1 DEF Start, Contract!Next, Contract!Begin
  <2>2. CASE NextWhileBusy
    <3>1. Contract!Request
      BY <2>2 DEF NextWhileBusy, MayCallNext, Contract!Request
    <3>. QED
      BY <3>1 DEF Contract!Next
  <2>3. CASE NextWhileIdle
    <3>1. Contract!Request
      BY <2>3 DEF NextWhileIdle, MayCallNext, Contract!Request
    <3>. QED
      BY <3>1 DEF Contract!Next
  <2>4. CASE ReturnToStart
    BY <2>4 DEF ReturnToStart
  <2>5. CASE Iterate
    <3>1. nextCalled /\ iterations' = iterations + 1 /\ requests' = requests
      BY <2>5 DEF Iterate
    <3>2. stack \in LoopStacks
      BY <2>5, PopFromLoop DEF Iterate, IInv, TypeInv
    <3>3. iterations # 0
      BY <3>2, StacksDistinct DEF IInv, BeforeStartInv, IdleStacks
    <3>4. iterations \in Nat
      BY DEF IInv, TypeInv
    <3>5. iterations = requests
      BY <3>1, <3>3, <3>4 DEF IInv, CountInv
    <3>6. Contract!Serve
      BY <3>1, <3>3, <3>4, <3>5 DEF Contract!Serve
    <3>. QED
      BY <3>6 DEF Contract!Next
  <2>6. CASE LeaveLoop
    BY <2>6 DEF LeaveLoop
  <2>7. CASE Throw
    BY <2>7 DEF Throw
  <2>8. CASE UNCHANGED vars
    BY <2>8 DEF vars
  <2>. QED
    BY <2>1, <2>2, <2>3, <2>4, <2>5, <2>6, <2>7, <2>8 DEF Next
<1>. QED
  BY <1>1, <1>2, <1>3, SpecIInv, PTL DEF Spec
=============================================================================
