--------------------------- MODULE PipelineProofs ---------------------------
(***************************************************************************)
(* Proofs about Pipeline, for sources of any length, any counter's width   *)
(* and any timing of the answers: its safety properties from one inductive *)
(* invariant, and the safety part of the refinement of PullProtocol.       *)
(*                                                                         *)
(* Drain calls each next at most once, so the looper it runs on is one     *)
(* with a one-shot client, and the invariant of LooperProofs for such      *)
(* clients is taken from there, with its exact count of iterations.        *)
(***************************************************************************)
EXTENDS Pipeline, SequenceTheorems, TLAPS

OneShotLooper == INSTANCE LooperProofs WITH OneShot <- TRUE, MayThrow <- TRUE

LEMMA LooperIsWellFormed == OneShotLooper!LooperAssumption
  BY PipelineAssumption DEF PipelineAssumption, OneShotLooper!LooperAssumption

-----------------------------------------------------------------------------
(* What a source answers, and what it still has to give then.              *)
Endless(s) == s.kind = "Count" /\ s.maximum = Modulus - 1

LEMMA KindsOfSources ==
  ASSUME NEW s \in SourceStates
  PROVE  \/ s.kind = "Values" /\ s.list \in Seq(Nat)
         \/ s.kind = "Count" /\ s.i \in 0..(Modulus - 1) /\ s.maximum \in 0..(Modulus - 1)
         \/ s.kind = "Empty"
  BY DEF SourceStates, ValuesStates, CountStates, EmptySource

(* Count's rest is a sequence of numbers, and empty past the maximum.      *)
UpTo(i, maximum) ==
  IF i > maximum THEN <<>> ELSE [n \in 1..(maximum + 1 - i) |-> i + n - 1]

LEMMA UpToIsASeq ==
  ASSUME NEW i \in Nat, NEW maximum \in Nat
  PROVE  /\ UpTo(i, maximum) \in Seq(Nat)
         /\ Len(UpTo(i, maximum)) = IF i > maximum THEN 0 ELSE maximum + 1 - i
         /\ \A n \in 1..Len(UpTo(i, maximum)) : UpTo(i, maximum)[n] = i + n - 1
<1>1. CASE i > maximum
  BY <1>1, EmptySeq DEF UpTo
<1>2. CASE ~(i > maximum)
  <2>. DEFINE rest == [n \in 1..(maximum + 1 - i) |-> i + n - 1]
  <2>1. maximum + 1 - i \in Nat
    BY <1>2
  <2>2. \A n \in 1..(maximum + 1 - i) : i + n - 1 \in Nat
    OBVIOUS
  <2>3. rest \in [1..(maximum + 1 - i) -> Nat]
    BY <2>2
  <2>4. rest \in Seq(Nat) /\ Len(rest) = maximum + 1 - i
    BY <2>1, <2>3
  <2>. QED
    BY <1>2, <2>4 DEF UpTo
<1>. QED
  BY <1>1, <1>2

(* A sequence is its first element and the rest. *)
LEMMA FirstAndRest ==
  ASSUME NEW S, NEW s \in Seq(S), NEW t \in Seq(S), NEW e \in S,
         Len(s) = 1 + Len(t), s[1] = e,
         \A n \in 1..Len(t) : t[n] = s[n + 1]
  PROVE  s = <<e>> \o t
<1>0. <<e>> \in Seq(S) /\ Len(<<e>>) = 1 /\ <<e>>[1] = e
  OBVIOUS
<1>1. PICK one \in Seq(S) : one = <<e>> /\ Len(one) = 1 /\ one[1] = e
  BY <1>0, Zenon
<1>2. /\ one \o t \in Seq(S)
      /\ Len(one \o t) = 1 + Len(t)
      /\ \A n \in 1..(1 + Len(t)) :
           (one \o t)[n] = IF n <= 1 THEN one[n] ELSE t[n - 1]
  BY <1>1, ConcatProperties
<1>3. Len(t) \in Nat
  OBVIOUS
<1>4. \A n \in 1..Len(s) : s[n] = (one \o t)[n]
  <2>. TAKE n \in 1..Len(s)
  <2>1. CASE n = 1
    BY <1>1, <1>2, <1>3, <2>1
  <2>2. CASE n > 1
    <3>1. n - 1 \in 1..Len(t) /\ (one \o t)[n] = t[n - 1]
      BY <1>2, <1>3, <2>2
    <3>2. t[n - 1] = s[(n - 1) + 1]
      BY <3>1
    <3>. QED
      BY <1>3, <3>1, <3>2
  <2>3. n = 1 \/ n > 1
    OBVIOUS
  <2>. QED
    BY <2>1, <2>2, <2>3
<1>5. s = one \o t
  BY <1>2, <1>4, SeqEqual
<1>. QED
  BY <1>1, <1>5

LEMMA UpToBegins ==
  ASSUME NEW i \in Nat, NEW maximum \in Nat, i <= maximum
  PROVE  UpTo(i, maximum) = <<i>> \o UpTo(i + 1, maximum)
<1>1. PICK s \in Seq(Nat) :
        /\ s = UpTo(i, maximum)
        /\ Len(s) = IF i > maximum THEN 0 ELSE maximum + 1 - i
        /\ \A n \in 1..Len(s) : s[n] = i + n - 1
  BY UpToIsASeq, Zenon
<1>2. PICK j \in Nat : j = i + 1
  OBVIOUS
<1>3. PICK t \in Seq(Nat) :
        /\ t = UpTo(j, maximum)
        /\ Len(t) = maximum - i
        /\ \A n \in 1..Len(t) : t[n] = i + n
  <2>1. PICK t \in Seq(Nat) :
          /\ t = UpTo(j, maximum)
          /\ Len(t) = IF j > maximum THEN 0 ELSE maximum + 1 - j
          /\ \A n \in 1..Len(t) : t[n] = j + n - 1
    BY UpToIsASeq, Zenon
  <2>. QED
    BY <1>2, <2>1
<1>4. Len(s) = 1 + Len(t) /\ s[1] = i
  BY <1>1, <1>3
<1>5. \A n \in 1..Len(t) : t[n] = s[n + 1]
  <2>. TAKE n \in 1..Len(t)
  <2>1. n + 1 \in 1..Len(s) /\ n \in Nat
    BY <1>4
  <2>2. s[n + 1] = i + (n + 1) - 1 /\ t[n] = i + n
    BY <1>1, <1>3, <2>1
  <2>. QED
    BY <2>1, <2>2
<1>6. s = <<i>> \o t
  BY <1>4, <1>5, FirstAndRest
<1>. QED
  BY <1>1, <1>2, <1>3, <1>6

LEMMA YieldOfKind ==
  ASSUME NEW s \in SourceStates
  PROVE  /\ s.kind = "Values" => Yield(s) = s.list
         /\ s.kind = "Count" => Yield(s) = UpTo(s.i, s.maximum)
         /\ s.kind = "Empty" => Yield(s) = <<>>
         /\ Yield(s) \in Seq(Nat)
<1>1. CASE s.kind = "Values" /\ s.list \in Seq(Nat)
  BY <1>1 DEF Yield
<1>2. CASE s.kind = "Count" /\ s.i \in 0..(Modulus - 1) /\ s.maximum \in 0..(Modulus - 1)
  <2>1. s.i \in Nat /\ s.maximum \in Nat
    BY <1>2, SourcesAssumption DEF SourcesAssumption
  <2>2. Yield(s) = UpTo(s.i, s.maximum)
    BY <1>2 DEF Yield, UpTo
  <2>. QED
    BY <1>2, <2>1, <2>2, UpToIsASeq
<1>3. CASE s.kind = "Empty"
  BY <1>3, EmptySeq DEF Yield
<1>. QED
  BY <1>1, <1>2, <1>3, KindsOfSources

(* An answer of each kind of source.                                       *)
LEMMA EndingAnswers ==
  ASSUME NEW s \in SourceStates, NEW abort \in {Running, End},
         IsSet(SourceAnswer(s, abort).done)
  PROVE  /\ SourceAnswer(s, abort).done = End
         /\ SourceAnswer(s, abort).source = s
         /\ ~IsSet(abort) => Yield(s) = <<>> /\ ~Endless(s)
<1>. USE SourcesAssumption DEF SourcesAssumption, IsSet, Answer
<1>1. CASE s.kind = "Values" /\ s.list \in Seq(Nat)
  BY <1>1, YieldOfKind DEF SourceAnswer, ValuesAnswer, Endless
<1>2. CASE s.kind = "Count" /\ s.i \in 0..(Modulus - 1) /\ s.maximum \in 0..(Modulus - 1)
  <2>1. SourceAnswer(s, abort) = CountAnswer(s, abort)
    BY <1>2 DEF SourceAnswer
  <2>2. Yield(s) = UpTo(s.i, s.maximum)
    BY <1>2, YieldOfKind
  <2>. QED
    BY <1>2, <2>1, <2>2 DEF CountAnswer, UpTo, Endless
<1>3. CASE s.kind = "Empty"
  <2>1. s = EmptySource
    BY <1>3 DEF SourceStates, ValuesStates, CountStates, EmptySource
  <2>. QED
    BY <1>3, <2>1, YieldOfKind DEF SourceAnswer, EmptyAnswer, Endless
<1>. QED
  BY <1>1, <1>2, <1>3, KindsOfSources

LEMMA ValueAnswers ==
  ASSUME NEW s \in SourceStates, NEW abort \in {Running, End},
         ~IsSet(SourceAnswer(s, abort).done)
  PROVE  /\ abort = Running
         /\ SourceAnswer(s, abort).value \in Nat
         /\ SourceAnswer(s, abort).source \in SourceStates
         /\ Endless(SourceAnswer(s, abort).source) <=> Endless(s)
         /\ ~Endless(s) => Yield(s) = <<SourceAnswer(s, abort).value>>
                                        \o Yield(SourceAnswer(s, abort).source)
<1>. USE SourcesAssumption DEF SourcesAssumption, IsSet, Answer
<1>1. CASE s.kind = "Values" /\ s.list \in Seq(Nat)
  <2>1. s \in ValuesStates
    BY <1>1 DEF SourceStates, ValuesStates, CountStates, EmptySource
  <2>2. /\ SourceAnswer(s, abort) = ValuesAnswer(s, abort)
        /\ Yield(s) = s.list
    BY <1>1, YieldOfKind DEF SourceAnswer
  <2>3. /\ abort = Running
        /\ s.list # <<>>
        /\ SourceAnswer(s, abort).value = Head(s.list)
        /\ SourceAnswer(s, abort).source = [s EXCEPT !.list = Tail(@)]
    BY <2>2 DEF ValuesAnswer
  <2>4. PICK list \in Seq(Nat), rest \in Seq(Nat), e \in Nat :
          /\ list = s.list /\ rest = Tail(list) /\ e = Head(list)
          /\ Len(rest) = Len(list) - 1
          /\ \A n \in 1..Len(rest) : rest[n] = list[n + 1]
    <3>1. PICK list \in Seq(Nat) : list = s.list /\ list # <<>>
      BY <1>1, <2>3
    <3>2. /\ Head(list) \in Nat /\ Tail(list) \in Seq(Nat)
          /\ Len(Tail(list)) = Len(list) - 1
          /\ \A n \in 1..Len(Tail(list)) : Tail(list)[n] = list[n + 1]
      BY <3>1, HeadTailProperties
    <3>. QED
      BY <3>1, <3>2, Zenon
  <2>5. s.list = <<e>> \o rest
    <3>1. Len(list) \in Nat \ {0} /\ list[1] = e
      BY <2>3, <2>4
    <3>. QED
      BY <2>4, <3>1, FirstAndRest
  <2>6. PICK t : t = [s EXCEPT !.list = Tail(@)]
    OBVIOUS
  <2>7. t \in ValuesStates /\ t \in SourceStates /\ t.kind = "Values" /\ t.list = rest
    BY <2>1, <2>4, <2>6 DEF ValuesStates, SourceStates
  <2>8. Yield(t) = rest
    BY <2>7, YieldOfKind
  <2>. QED
    BY <1>1, <2>2, <2>3, <2>4, <2>5, <2>6, <2>7, <2>8 DEF Endless
<1>2. CASE s.kind = "Count" /\ s.i \in 0..(Modulus - 1) /\ s.maximum \in 0..(Modulus - 1)
  <2>1. s \in CountStates
    BY <1>2 DEF SourceStates, ValuesStates, CountStates, EmptySource
  <2>2. /\ SourceAnswer(s, abort) = CountAnswer(s, abort)
        /\ Yield(s) = UpTo(s.i, s.maximum)
    BY <1>2, YieldOfKind DEF SourceAnswer
  <2>3. /\ abort = Running
        /\ s.i <= s.maximum
        /\ SourceAnswer(s, abort).value = s.i
        /\ SourceAnswer(s, abort).source = [s EXCEPT !.i = (@ + 1) % Modulus]
    BY <1>2, <2>2 DEF CountAnswer
  <2>4. PICK w \in 0..(Modulus - 1) : w = (s.i + 1) % Modulus
    BY <1>2
  <2>5. s.i + 1 < Modulus => w = s.i + 1
    BY <1>2, <2>4
  <2>6. PICK t : t = [s EXCEPT !.i = (@ + 1) % Modulus]
    OBVIOUS
  <2>7. /\ t \in CountStates /\ t \in SourceStates
        /\ t.kind = "Count" /\ t.i = w /\ t.maximum = s.maximum
    BY <2>1, <2>4, <2>6 DEF CountStates, SourceStates
  <2>8. Yield(t) = UpTo(w, s.maximum)
    BY <2>7, YieldOfKind
  <2>9. ~Endless(s) => UpTo(s.i, s.maximum) = <<s.i>> \o UpTo(w, s.maximum)
    <3>. SUFFICES ASSUME ~Endless(s) PROVE UpTo(s.i, s.maximum) = <<s.i>> \o UpTo(w, s.maximum)
      OBVIOUS
    <3>1. s.maximum < Modulus - 1 /\ s.i \in Nat /\ s.maximum \in Nat
      BY <1>2 DEF Endless
    <3>2. w = s.i + 1
      BY <2>3, <2>5, <3>1
    <3>. QED
      BY <2>3, <3>1, <3>2, UpToBegins
  <2>10. SourceAnswer(s, abort).value \in Nat /\ SourceAnswer(s, abort).source = t
    BY <1>2, <2>3, <2>6
  <2>11. Endless(t) <=> Endless(s)
    BY <1>2, <2>7 DEF Endless
  <2>. QED
    BY <2>2, <2>3, <2>7, <2>8, <2>9, <2>10, <2>11
<1>3. CASE s.kind = "Empty"
  BY <1>3 DEF SourceAnswer, EmptyAnswer
<1>. QED
  BY <1>1, <1>2, <1>3, KindsOfSources

-----------------------------------------------------------------------------
(* What Drain does to its looper, as steps of a looper with a one-shot     *)
(* client.                                                                 *)
LooperInv  == OneShotLooper!IInv
LooperStep == [OneShotLooper!Next]_(OneShotLooper!vars)

LEMMA LooperStarts ==
  ASSUME Looper!Start
  PROVE  /\ LooperStep
         /\ iterations = 0 /\ iterations' = 1
         /\ stack' # <<>>
         /\ UNCHANGED <<requests, wedged>>
<1>1. OneShotLooper!Start
  BY DEF Looper!Start, Looper!InStart, Looper!InBody, Looper!flags, OneShotLooper!Start,
         OneShotLooper!InStart, OneShotLooper!InBody, OneShotLooper!flags
<1>2. LooperStep
  BY <1>1 DEF LooperStep, OneShotLooper!Next
<1>. QED
  BY <1>2 DEF Looper!Start

LEMMA NextIsCalled ==
  ASSUME LooperInv, CallNext, requests < iterations
  PROVE  /\ LooperStep
         /\ requests' = requests + 1
         /\ wedged' = wedged
         /\ \/ /\ iterations' = iterations /\ stack' = stack
               /\ ~wedged => stack # <<>>
            \/ iterations' = iterations + 1 /\ stack' # <<>> /\ ~wedged
<1>0. Looper!MayCallNext => OneShotLooper!MayCallNext
  BY DEF Looper!MayCallNext, Looper!ClientRuns, Looper!InBody, OneShotLooper!MayCallNext,
         OneShotLooper!ClientRuns, OneShotLooper!InBody
<1>1. CASE Looper!NextWhileBusy
  <2>1. OneShotLooper!NextWhileBusy
    BY <1>0, <1>1 DEF Looper!NextWhileBusy, OneShotLooper!NextWhileBusy
  <2>2. LooperStep
    BY <2>1 DEF LooperStep, OneShotLooper!Next
  <2>3. ~wedged => stack # <<>>
    BY <1>1 DEF Looper!NextWhileBusy, LooperInv, OneShotLooper!IInv, OneShotLooper!FlagInv,
       OneShotLooper!IdleStacks
  <2>. QED
    BY <1>1, <2>2, <2>3 DEF Looper!NextWhileBusy
<1>2. CASE Looper!NextWhileIdle
  <2>1. OneShotLooper!NextWhileIdle
    BY <1>0, <1>2 DEF Looper!NextWhileIdle, Looper!InLoop, Looper!InBody,
       OneShotLooper!NextWhileIdle, OneShotLooper!InLoop, OneShotLooper!InBody
  <2>2. LooperStep
    BY <2>1 DEF LooperStep, OneShotLooper!Next
  <2>3. stack' # <<>>
    <3>1. stack \in OneShotLooper!IdleStacks
      BY <2>1 DEF LooperInv, OneShotLooper!IInv, OneShotLooper!FlagInv,
         OneShotLooper!NextWhileIdle
    <3>2. stack' \in OneShotLooper!LoopStacks
      BY <2>1, <3>1, LooperIsWellFormed, OneShotLooper!PushLoop
         DEF OneShotLooper!NextWhileIdle
    <3>. QED
      BY <3>2 DEF OneShotLooper!LoopStacks
  <2>4. ~wedged
    BY <2>1 DEF LooperInv, OneShotLooper!IInv, OneShotLooper!FlagInv,
       OneShotLooper!NextWhileIdle
  <2>. QED
    BY <1>2, <2>2, <2>3, <2>4 DEF Looper!NextWhileIdle
<1>. QED
  BY <1>1, <1>2 DEF CallNext

(* When the looper function has returned to whoever was not a looper, each *)
(* next that was called has been served.                                   *)
LEMMA LooperReturns ==
  ASSUME LooperInv, Looper!Return
  PROVE  /\ LooperStep
         /\ UNCHANGED <<requests, wedged>>
         /\ stack # <<>>
         /\ \/ /\ iterations' = iterations
               /\ stack' = <<>> /\ ~wedged => iterations = requests + 1
            \/ /\ iterations' = iterations + 1 /\ stack' = stack
               /\ ~wedged /\ iterations = requests
<1>. USE DEF LooperInv, OneShotLooper!IInv
<1>1. stack # <<>> => iterations > 0
  BY DEF OneShotLooper!BeforeStartInv, OneShotLooper!TypeInv
<1>2. CASE Looper!ReturnToStart
  <2>1. OneShotLooper!ReturnToStart
    BY <1>2 DEF Looper!ReturnToStart, Looper!BodyCalledFrom, Looper!PopCallAndBody,
       Looper!InStart, Looper!InBody, Looper!flags, OneShotLooper!ReturnToStart,
       OneShotLooper!BodyCalledFrom, OneShotLooper!PopCallAndBody, OneShotLooper!InStart,
       OneShotLooper!InBody, OneShotLooper!flags
  <2>2. LooperStep
    BY <2>1 DEF LooperStep, OneShotLooper!Next
  <2>3. stack # <<>> /\ stack \in OneShotLooper!IdleStacks
    BY <2>1, LooperIsWellFormed, OneShotLooper!PopFromStart
       DEF OneShotLooper!ReturnToStart, OneShotLooper!TypeInv, OneShotLooper!IdleStacks
  <2>4. ~wedged => ~nextCalled
    BY <2>3 DEF OneShotLooper!FlagInv
  <2>5. ~wedged => iterations = requests + 1
    BY <1>1, <2>3, <2>4 DEF OneShotLooper!CountInv
  <2>. QED
    BY <1>2, <2>2, <2>3, <2>5 DEF Looper!ReturnToStart
<1>3. CASE Looper!Iterate
  <2>1. OneShotLooper!Iterate
    BY <1>3 DEF Looper!Iterate, Looper!BodyCalledFrom, Looper!InLoop, Looper!InBody,
       OneShotLooper!Iterate, OneShotLooper!BodyCalledFrom, OneShotLooper!InLoop,
       OneShotLooper!InBody
  <2>2. LooperStep
    BY <2>1 DEF LooperStep, OneShotLooper!Next
  <2>3. stack # <<>>
    BY <2>1 DEF OneShotLooper!Iterate, OneShotLooper!BodyCalledFrom
  <2>4. stack \notin OneShotLooper!IdleStacks
    BY <2>1 DEF OneShotLooper!Iterate, OneShotLooper!BodyCalledFrom, OneShotLooper!IdleStacks,
       OneShotLooper!InStart, OneShotLooper!InBody, OneShotLooper!InLoop
  <2>5. ~wedged
    BY <2>4 DEF OneShotLooper!FlagInv
  <2>6. iterations = requests
    BY <1>1, <1>3, <2>3, <2>5 DEF OneShotLooper!CountInv, Looper!Iterate
  <2>. QED
    BY <1>3, <2>2, <2>3, <2>5, <2>6 DEF Looper!Iterate
<1>4. CASE Looper!LeaveLoop
  <2>1. OneShotLooper!LeaveLoop
    BY <1>4 DEF Looper!LeaveLoop, Looper!BodyCalledFrom, Looper!PopCallAndBody,
       Looper!InLoop, Looper!InBody, OneShotLooper!LeaveLoop,
       OneShotLooper!BodyCalledFrom, OneShotLooper!PopCallAndBody, OneShotLooper!InLoop,
       OneShotLooper!InBody
  <2>2. LooperStep
    BY <2>1 DEF LooperStep, OneShotLooper!Next
  <2>3. stack # <<>>
    BY <2>1 DEF OneShotLooper!LeaveLoop, OneShotLooper!BodyCalledFrom
  <2>4. ~wedged => iterations = requests + 1
    BY <1>1, <1>4, <2>3 DEF OneShotLooper!CountInv, Looper!LeaveLoop
  <2>. QED
    BY <1>4, <2>2, <2>3, <2>4 DEF Looper!LeaveLoop
<1>. QED
  BY <1>2, <1>3, <1>4 DEF Looper!Return

LEMMA LooperThrows ==
  ASSUME Looper!Throw
  PROVE  /\ LooperStep
         /\ stack # <<>>
         /\ UNCHANGED <<iterations, requests>>
<1>1. OneShotLooper!Throw
  BY DEF Looper!Throw, Looper!Handlers, Looper!InBody, Looper!InLoop, Looper!flags,
     OneShotLooper!Throw, OneShotLooper!Handlers, OneShotLooper!InBody,
     OneShotLooper!InLoop, OneShotLooper!flags
<1>2. LooperStep
  BY <1>1 DEF LooperStep, OneShotLooper!Next
<1>. QED
  BY <1>2 DEF Looper!Throw

LEMMA LooperUnwinds ==
  ASSUME Unwind
  PROVE  /\ LooperStep
         /\ stack' = <<>>
         /\ UNCHANGED <<iterations, requests>>
<1>1. CASE OnTopOfLooper /\ Looper!Throw /\ stack' = <<>>
  BY <1>1, LooperThrows
<1>2. CASE ~OnTopOfLooper /\ UNCHANGED looperVars
  BY <1>2 DEF OnTopOfLooper, looperVars, LooperStep, OneShotLooper!vars
<1>. QED
  BY <1>1, <1>2 DEF Unwind

-----------------------------------------------------------------------------
(* The inductive invariant. *)
TypeInv ==
  /\ source \in SourceStates
  /\ sink \in SinkKinds
  /\ sinkHeld \in BOOLEAN
  /\ asked \in Nat /\ answered \in Nat
  /\ consumed \in Seq(Nat) /\ accumulator \in Seq(Nat) /\ contents \in Seq(Nat)
  /\ threw \in BOOLEAN
  /\ retries \in 0..MaxRetries
  /\ before \in Nat
  /\ failedCheck \in {"none", "self", "drain"}
  /\ onValue \in Functions
  /\ timing \in Timings

(* AbortNow asks without a looper; the others ask once in each iteration,  *)
(* and have done so when nothing of them is on the stack.                  *)
AskInv ==
  /\ sink = "AbortNow" => iterations = 0 /\ asked <= 1 /\ ~threw
  /\ sink # "AbortNow" => /\ asked <= iterations /\ iterations <= asked + 1
                          /\ stack = <<>> => asked = iterations

(* next is called for each answer, except for the one that ends the stream *)
(* or that onValue throws at; no request comes after that.  With the       *)
(* looper's own count of iterations this leaves at most one outstanding.   *)
CountInv ==
  /\ answered <= asked
  /\ ~StreamOver => requests = answered
  /\ StreamOver => /\ answered = asked /\ requests < asked
                   /\ sink # "AbortNow" => asked = iterations
  /\ wedged => threw
  /\ threw => results = <<>> /\ stack = <<>>

ContentInv ==
  /\ ~NeverEnds => consumed \o Yield(source) = contents
  /\ sink # "Reduce" => accumulator = <<>>
  /\ sink = "Reduce" /\ ~StreamOver => accumulator = consumed

ResultInv ==
  /\ results \in {<<>>, <<[done |-> End, result |-> <<>>]>>,
                   <<[done |-> End, result |-> contents]>>}
  /\ results # <<>> /\ sink # "AbortNow" => consumed = contents
  /\ results # <<>> /\ sink = "Reduce" =>
        results = <<[done |-> End, result |-> contents]>>

(* With a prompt source nothing is left to come when Pull has returned.    *)
PromptInv ==
  timing = "prompt" =>
    /\ ~StreamOver /\ stack = <<>> /\ sink # "AbortNow" => asked = 0
    /\ ~StreamOver /\ sink = "Reduce" => sinkHeld
    /\ failedCheck # "self"

(* A stream that is not over waits for an answer, unless it is running.    *)
WaitInv == ~StreamOver /\ stack = <<>> /\ asked > 0 => answered < asked

IInv ==
  /\ LooperInv /\ TypeInv /\ AskInv /\ CountInv /\ WaitInv
  /\ ContentInv /\ ResultInv /\ PromptInv

-----------------------------------------------------------------------------
LEMMA CountsAreNumbers ==
  ASSUME LooperInv
  PROVE  iterations \in Nat /\ requests \in Nat
  BY PipelineAssumption
     DEF PipelineAssumption, LooperInv, OneShotLooper!IInv, OneShotLooper!TypeInv

(* At most one request is outstanding, and none when the stream is over.   *)
LEMMA Outstanding ==
  ASSUME IInv
  PROVE  /\ asked <= answered + 1
         /\ answered < asked => ~StreamOver
         /\ sink # "AbortNow" /\ asked < iterations => asked = answered /\ ~StreamOver
<1>. USE DEF IInv
<1>1. iterations \in Nat /\ requests \in Nat /\ asked \in Nat /\ answered \in Nat
  BY CountsAreNumbers DEF TypeInv
<1>2. answered < asked => ~StreamOver
  BY <1>1 DEF CountInv
<1>3. CASE sink = "AbortNow"
  BY <1>1, <1>2, <1>3 DEF AskInv
<1>4. CASE sink # "AbortNow" /\ StreamOver
  BY <1>1, <1>2, <1>4 DEF CountInv
<1>5. CASE sink # "AbortNow" /\ ~StreamOver
  <2>1. requests = answered /\ ~wedged
    BY <1>5 DEF CountInv, StreamOver
  <2>2. iterations > 0 => iterations = IF nextCalled THEN requests ELSE requests + 1
    BY <2>1 DEF LooperInv, OneShotLooper!IInv, OneShotLooper!CountInv
  <2>3. asked <= iterations /\ answered <= asked
    BY <1>5 DEF AskInv, CountInv
  <2>. QED
    BY <1>1, <1>2, <1>5, <2>1, <2>2, <2>3
<1>. QED
  BY <1>3, <1>4, <1>5

LEMMA LooperIsKept == LooperInv /\ (LooperStep \/ UNCHANGED looperVars) => LooperInv'
<1>1. UNCHANGED looperVars => LooperStep
  BY DEF looperVars, LooperStep, OneShotLooper!vars
<1>. QED
  BY <1>1, LooperIsWellFormed, OneShotLooper!NextIInv DEF LooperInv, LooperStep

LEMMA InitIInv == Init => IInv
<1>. SUFFICES ASSUME Init PROVE IInv
  OBVIOUS
<1>1. LooperInv
  <2>1. OneShotLooper!Init
    BY DEF Init, Looper!Init, OneShotLooper!Init
  <2>. QED
    BY <2>1, LooperIsWellFormed, OneShotLooper!InitIInv DEF LooperInv
<1>2. source \in SourceStates /\ contents = Yield(source) /\ contents \in Seq(Nat)
  BY PipelineAssumption, YieldOfKind DEF PipelineAssumption, Init
<1>3. TypeInv
  <2>1. sink \in SinkKinds /\ retries \in 0..MaxRetries
    BY PipelineAssumption DEF PipelineAssumption, Init
  <2>2. consumed \in Seq(Nat) /\ accumulator \in Seq(Nat)
    BY EmptySeq DEF Init, CreateReduce
  <2>. QED
    BY <1>2, <2>1, <2>2
       DEF Init, CreateReduce, CreateDrain, ConstructDrain, Functions, TypeInv
<1>4. AskInv /\ CountInv /\ WaitInv /\ PromptInv
  BY DEF Init, CreateReduce, Looper!Init, AskInv, CountInv, WaitInv, PromptInv, StreamOver
<1>5. ContentInv /\ ResultInv
  <2>1. consumed \o Yield(source) = contents
    BY <1>2, ConcatEmptySeq DEF Init
  <2>. QED
    BY <2>1 DEF Init, CreateReduce, ContentInv, ResultInv
<1>. QED
  BY <1>1, <1>3, <1>4, <1>5 DEF IInv

-----------------------------------------------------------------------------
(* The steps. *)
LEMMA ConnectKeeps ==
  ASSUME IInv, ConnectDrain \/ ConnectAbortNow
  PROVE  IInv'
<1>. USE DEF IInv
<1>1. iterations \in Nat /\ requests \in Nat /\ asked \in Nat /\ answered \in Nat
  BY CountsAreNumbers DEF TypeInv
<1>2. UNCHANGED <<source, sinkVars, answered, callerVars, connection>>
  BY DEF ConnectDrain, ConnectAbortNow
<1>3. LooperStep \/ UNCHANGED looperVars
  BY LooperStarts DEF ConnectDrain, ConnectAbortNow
<1>4. LooperInv'
  BY <1>3, LooperIsKept
<1>5. asked' \in Nat
  BY <1>1 DEF ConnectDrain, ConnectAbortNow
<1>6. TypeInv'
  BY <1>2, <1>5 DEF TypeInv, sinkVars, callerVars, connection
<1>7. asked = 0 /\ ~StreamOver /\ iterations = 0
  <2>1. CASE ConnectDrain
    <3>1. sink # "AbortNow" /\ iterations = 0
      BY <2>1, LooperStarts DEF ConnectDrain
    <3>2. asked = 0
      BY <1>1, <3>1 DEF AskInv
    <3>. QED
      BY <1>1, <3>1, <3>2 DEF CountInv
  <2>2. CASE ConnectAbortNow
    BY <1>1, <2>2 DEF ConnectAbortNow, AskInv, CountInv
  <2>. QED
    BY <2>1, <2>2
<1>8. UNCHANGED StreamOver
  BY <1>2 DEF StreamOver, sinkVars, callerVars
<1>9. AskInv' /\ CountInv' /\ WaitInv' /\ PromptInv'
  <2>1. CASE ConnectDrain
    <3>1. /\ sink # "AbortNow" /\ iterations' = 1 /\ stack' # <<>> /\ asked' = asked
          /\ UNCHANGED <<requests, wedged>>
      BY <2>1, LooperStarts DEF ConnectDrain
    <3>2. ~threw
      BY <1>7 DEF StreamOver
    <3>. QED
      BY <1>1, <1>2, <1>7, <1>8, <3>1, <3>2
         DEF AskInv, CountInv, WaitInv, PromptInv, sinkVars, callerVars, connection
  <2>2. CASE ConnectAbortNow
    <3>1. /\ sink = "AbortNow" /\ asked' = 1
          /\ UNCHANGED <<requests, iterations, wedged, stack>>
      BY <2>2 DEF ConnectAbortNow, looperVars
    <3>. QED
      BY <1>1, <1>2, <1>7, <1>8, <3>1
         DEF AskInv, CountInv, WaitInv, PromptInv, sinkVars, callerVars, connection
  <2>. QED
    BY <2>1, <2>2
<1>10. ContentInv' /\ ResultInv'
  BY <1>2, <1>8 DEF ContentInv, ResultInv, NeverEnds, Yield, sinkVars, callerVars, connection
<1>. QED
  BY <1>4, <1>6, <1>9, <1>10

LEMMA AskKeeps ==
  ASSUME IInv, Ask
  PROVE  IInv'
<1>. USE DEF IInv
<1>1. iterations \in Nat /\ requests \in Nat /\ asked \in Nat /\ answered \in Nat
  BY CountsAreNumbers DEF TypeInv
<1>2. /\ UNCHANGED <<looperVars, source, sinkVars, answered, callerVars, connection>>
      /\ asked' = asked + 1 /\ asked < iterations /\ stack # <<>>
  BY DEF Ask, OnTopOfLooper
<1>3. LooperInv'
  BY <1>2, LooperIsKept
<1>4. TypeInv'
  BY <1>1, <1>2 DEF TypeInv, sinkVars, callerVars, connection
<1>5. sink # "AbortNow" /\ asked = answered /\ ~StreamOver
  BY <1>1, <1>2, Outstanding DEF AskInv
<1>6. ~StreamOver'
  BY <1>2, <1>5 DEF StreamOver, sinkVars, callerVars
<1>7. AskInv' /\ CountInv' /\ WaitInv' /\ PromptInv'
  BY <1>1, <1>2, <1>5, <1>6
     DEF AskInv, CountInv, WaitInv, PromptInv, looperVars, sinkVars, callerVars, connection
<1>8. ContentInv' /\ ResultInv'
  BY <1>2, <1>5, <1>6
     DEF ContentInv, ResultInv, NeverEnds, Yield, sinkVars, callerVars, connection
<1>. QED
  BY <1>3, <1>4, <1>7, <1>8

(* The CHECKs end the process, and the caller lets go of the sink.         *)
LEMMA LeavingKeeps ==
  ASSUME IInv, AnswerNobody \/ RetryReduce \/ DropSink
  PROVE  IInv'
<1>. USE DEF IInv
<1>1. iterations \in Nat /\ requests \in Nat /\ asked \in Nat /\ answered \in Nat
  BY CountsAreNumbers DEF TypeInv
<1>2. /\ UNCHANGED <<looperVars, source, sink, consumed, accumulator, results, asked, answered>>
      /\ UNCHANGED <<threw, retries, before, connection>>
  BY DEF AnswerNobody, RetryReduce, DropSink, sinkVars, callerVars
<1>3. LooperInv'
  BY <1>2, LooperIsKept
<1>4. failedCheck' \in {"none", "self", "drain"} /\ sinkHeld' \in BOOLEAN
  BY DEF AnswerNobody, RetryReduce, DropSink, TypeInv, sinkVars, callerVars
<1>5. TypeInv'
  BY <1>2, <1>4 DEF TypeInv, connection
<1>6. UNCHANGED StreamOver
  BY <1>2 DEF StreamOver
<1>7. AskInv' /\ CountInv' /\ WaitInv' /\ ContentInv' /\ ResultInv'
  BY <1>2, <1>6
     DEF AskInv, CountInv, WaitInv, ContentInv, ResultInv, NeverEnds, Yield, looperVars,
         connection
<1>8. PromptInv'
  <2>1. CASE AnswerNobody
    <3>1. answered < asked /\ sink = "Reduce" /\ ~sinkHeld
      BY <2>1 DEF AnswerNobody, AnswerDue, ReduceIsGone
    <3>2. timing # "prompt"
      BY <3>1, Outstanding DEF PromptInv
    <3>. QED
      BY <1>2, <3>2 DEF PromptInv, connection
  <2>2. CASE RetryReduce
    <3>1. threw /\ failedCheck' = "drain" /\ UNCHANGED sinkHeld
      BY <2>2 DEF RetryReduce, CallerRetries, sinkVars
    <3>2. StreamOver
      BY <3>1 DEF StreamOver
    <3>. QED
      BY <1>2, <1>6, <3>1, <3>2 DEF PromptInv, connection
  <2>3. CASE DropSink
    <3>1. asked > 0 /\ stack = <<>> /\ UNCHANGED failedCheck
      BY <2>3 DEF DropSink, callerVars
    <3>2. timing = "prompt" /\ sink # "AbortNow" => StreamOver
      BY <1>1, <3>1 DEF PromptInv
    <3>. QED
      BY <1>2, <1>6, <3>1, <3>2 DEF PromptInv, connection, looperVars
  <2>. QED
    BY <2>1, <2>2, <2>3
<1>. QED
  BY <1>3, <1>5, <1>7, <1>8

LEMMA ReturnKeeps ==
  ASSUME IInv, Return
  PROVE  IInv'
<1>. USE DEF IInv
<1>1. iterations \in Nat /\ requests \in Nat /\ asked \in Nat /\ answered \in Nat
  BY CountsAreNumbers DEF TypeInv
<1>2. /\ UNCHANGED <<source, sinkVars, asked, answered, callerVars, connection>>
      /\ asked = iterations
      /\ timing = "prompt" => answered = asked \/ wedged
  BY DEF Return
<1>3. /\ LooperStep
      /\ UNCHANGED <<requests, wedged>>
      /\ stack # <<>>
      /\ \/ /\ iterations' = iterations
            /\ stack' = <<>> /\ ~wedged => iterations = requests + 1
         \/ /\ iterations' = iterations + 1 /\ stack' = stack
            /\ iterations = requests
  BY LooperReturns DEF Return
<1>4. LooperInv'
  BY <1>3, LooperIsKept
<1>5. TypeInv'
  BY <1>2 DEF TypeInv, sinkVars, callerVars, connection
<1>6. UNCHANGED StreamOver
  BY <1>2 DEF StreamOver, sinkVars, callerVars
<1>7. sink # "AbortNow"
  <2>1. stack = <<>> \/ iterations # 0
    BY DEF LooperInv, OneShotLooper!IInv, OneShotLooper!BeforeStartInv
  <2>. QED
    BY <1>3, <2>1 DEF AskInv
<1>8. AskInv'
  BY <1>1, <1>2, <1>3, <1>7 DEF AskInv, sinkVars, callerVars
<1>9. CountInv'
  <2>1. ~threw /\ ~wedged
    BY <1>3 DEF CountInv
  <2>2. StreamOver => iterations' = iterations
    BY <1>1, <1>3, <1>7, <2>1 DEF CountInv
  <2>. QED
    BY <1>2, <1>3, <1>6, <1>7, <2>1, <2>2 DEF CountInv, sinkVars, callerVars
<1>10. ContentInv' /\ ResultInv'
  BY <1>2, <1>6
     DEF ContentInv, ResultInv, NeverEnds, Yield, sinkVars, callerVars, connection
<1>11. ~StreamOver /\ stack' = <<>> => answered < asked
  <2>. SUFFICES ASSUME ~StreamOver, stack' = <<>> PROVE answered < asked
    OBVIOUS
  <2>1. requests = answered /\ ~wedged /\ answered <= asked
    BY DEF CountInv, StreamOver
  <2>. QED
    BY <1>1, <1>2, <1>3, <2>1
<1>12. PromptInv'
  <2>1. ~wedged
    BY <1>3 DEF CountInv
  <2>2. timing = "prompt" /\ stack' = <<>> => StreamOver
    BY <1>1, <1>2, <1>11, <2>1
  <2>. QED
    BY <1>2, <1>6, <2>2 DEF PromptInv, sinkVars, callerVars, connection
<1>13. WaitInv'
  BY <1>2, <1>6, <1>11 DEF WaitInv
<1>. QED
  BY <1>4, <1>5, <1>8, <1>9, <1>10, <1>12, <1>13

(* What is known when an answer is due. *)
LEMMA WhenAnswerIsDue ==
  ASSUME IInv, AnswerDue
  PROVE  /\ ~StreamOver /\ results = <<>> /\ ~threw /\ ~wedged
         /\ requests = answered /\ asked = answered + 1
         /\ sink # "AbortNow" => asked = iterations
<1>. USE DEF IInv
<1>1. iterations \in Nat /\ requests \in Nat /\ asked \in Nat /\ answered \in Nat
  BY CountsAreNumbers DEF TypeInv
<1>2. answered < asked /\ (stack # <<>> => asked = iterations)
  BY DEF AnswerDue, OnTopOfLooper
<1>3. ~StreamOver /\ asked = answered + 1
  BY <1>1, <1>2, Outstanding
<1>4. results = <<>> /\ ~threw
  BY <1>3 DEF StreamOver
<1>. QED
  BY <1>2, <1>3, <1>4 DEF CountInv, AskInv

(* A value moves from what the source has to give to what was consumed. *)
LEMMA ValueMoves ==
  ASSUME TypeInv, ContentInv, NEW answer, answer = SourceAnswer(source, AbortOfSink),
         ~IsSet(answer.done), source' = answer.source,
         consumed' = Append(consumed, answer.value), UNCHANGED contents
  PROVE  /\ sink # "AbortNow"
         /\ source' \in SourceStates /\ consumed' \in Seq(Nat) /\ answer.value \in Nat
         /\ ~NeverEnds' => consumed' \o Yield(source)' = contents'
<1>0. source \in SourceStates /\ consumed \in Seq(Nat) /\ AbortOfSink \in {Running, End}
  BY DEF TypeInv, AbortOfSink
<1>1. /\ AbortOfSink = Running
      /\ answer.value \in Nat
      /\ answer.source \in SourceStates
      /\ Endless(answer.source) <=> Endless(source)
      /\ ~Endless(source) => Yield(source) = <<answer.value>> \o Yield(answer.source)
  BY <1>0, ValueAnswers
<1>2. sink # "AbortNow"
  BY <1>1, SourcesAssumption DEF AbortOfSink, SourcesAssumption
<1>3. consumed' \in Seq(Nat)
  BY <1>0, <1>1
<1>4. PICK v \in Nat, rest \in Seq(Nat) : v = answer.value /\ rest = Yield(answer.source)
  BY <1>1, YieldOfKind
<1>5. Append(consumed, v) \o rest = consumed \o (<<v>> \o rest)
  <2>1. <<v>> \in Seq(Nat)
    OBVIOUS
  <2>2. Append(consumed, v) = consumed \o <<v>>
    BY <1>0, AppendIsConcat
  <2>. QED
    BY <1>0, <2>1, <2>2, ConcatAssociative
<1>6. /\ NeverEnds <=> Endless(source)
      /\ NeverEnds' <=> Endless(answer.source)
      /\ Yield(source)' = Yield(answer.source)
  BY DEF NeverEnds, Endless, Yield
<1>7. ~NeverEnds' => consumed' \o Yield(source)' = contents'
  BY <1>1, <1>4, <1>5, <1>6 DEF ContentInv
<1>. QED
  BY <1>1, <1>2, <1>3, <1>7

LEMMA OnValueThrowsKeeps ==
  ASSUME IInv, OnValueThrows
  PROVE  IInv'
<1>. USE DEF IInv
<1>1. iterations \in Nat /\ requests \in Nat /\ asked \in Nat /\ answered \in Nat
  BY CountsAreNumbers DEF TypeInv
<1>2. PICK answer :
        /\ answer = SourceAnswer(source, AbortOfSink)
        /\ ~IsSet(answer.done)
        /\ answered' = answered + 1 /\ source' = answer.source
        /\ consumed' = Append(consumed, answer.value)
  BY DEF OnValueThrows, Answered
<1>3. /\ AnswerDue /\ Unwind /\ threw'
      /\ accumulator' \in {accumulator, <<>>}
      /\ UNCHANGED <<asked, sink, sinkHeld, results, retries, before, failedCheck, connection>>
  BY DEF OnValueThrows
<1>4. /\ ~StreamOver /\ results = <<>> /\ ~threw
      /\ requests = answered /\ asked = answered + 1
      /\ sink # "AbortNow" => asked = iterations
  BY <1>3, WhenAnswerIsDue
<1>5. LooperStep /\ stack' = <<>> /\ UNCHANGED <<iterations, requests>>
  BY <1>3, LooperUnwinds
<1>6. LooperInv'
  BY <1>5, LooperIsKept
<1>7. /\ sink # "AbortNow"
      /\ source' \in SourceStates /\ consumed' \in Seq(Nat)
      /\ ~NeverEnds' => consumed' \o Yield(source)' = contents'
  BY <1>2, <1>3, ValueMoves DEF connection
<1>8. TypeInv'
  <2>1. accumulator' \in Seq(Nat)
    BY <1>3, EmptySeq DEF TypeInv
  <2>2. threw' \in BOOLEAN
    BY DEF OnValueThrows
  <2>3. answered' \in Nat
    BY <1>1, <1>2
  <2>. QED
    BY <1>3, <1>7, <2>1, <2>2, <2>3 DEF TypeInv, connection
<1>9. StreamOver'
  BY <1>3 DEF StreamOver
<1>10. AskInv' /\ CountInv' /\ WaitInv'
  BY <1>1, <1>2, <1>3, <1>4, <1>5, <1>7, <1>9 DEF AskInv, CountInv, WaitInv
<1>11. ContentInv' /\ ResultInv' /\ PromptInv'
  BY <1>3, <1>4, <1>7, <1>9 DEF ContentInv, ResultInv, PromptInv, connection
<1>. QED
  BY <1>6, <1>8, <1>10, <1>11

LEMMA RetryKeeps ==
  ASSUME IInv, Retry
  PROVE  IInv'
<1>. USE DEF IInv
<1>1. iterations \in Nat /\ requests \in Nat /\ asked \in Nat /\ answered \in Nat
  BY CountsAreNumbers DEF TypeInv
<1>2. /\ sink = "Drain" /\ threw /\ retries < MaxRetries
      /\ iterations' = 0 /\ requests' = 0 /\ stack' = <<>> /\ wedged' = FALSE
      /\ asked' = 0 /\ answered' = 0 /\ before' = before + asked
      /\ threw' = FALSE /\ retries' = retries + 1
      /\ UNCHANGED <<source, sinkVars, failedCheck, connection>>
  BY DEF Retry, CallerRetries, CreateLooper
<1>3. LooperInv'
  <2>1. OneShotLooper!Init'
    BY DEF Retry, CreateLooper, OneShotLooper!Init
  <2>2. (OneShotLooper!Init => OneShotLooper!IInv)'
    BY LooperIsWellFormed, OneShotLooper!InitIInv, PTL
  <2>. QED
    BY <2>1, <2>2 DEF LooperInv
<1>4. TypeInv'
  <2>1. before' \in Nat
    BY <1>1, <1>2 DEF TypeInv
  <2>2. retries' \in 0..MaxRetries
    BY <1>2, PipelineAssumption DEF PipelineAssumption, TypeInv
  <2>. QED
    BY <1>2, <2>1, <2>2 DEF TypeInv, sinkVars, connection
<1>5. results = <<>>
  BY <1>2 DEF CountInv
<1>6. ~StreamOver'
  BY <1>2, <1>5 DEF StreamOver, sinkVars
<1>7. AskInv' /\ CountInv' /\ WaitInv' /\ PromptInv'
  BY <1>2, <1>5, <1>6 DEF AskInv, CountInv, WaitInv, PromptInv, sinkVars, connection
<1>8. ContentInv' /\ ResultInv'
  BY <1>2, <1>5 DEF ContentInv, ResultInv, NeverEnds, Yield, sinkVars, connection
<1>. QED
  BY <1>3, <1>4, <1>7, <1>8

(* An answer, taken apart: a value is consumed and next is called, or the  *)
(* end is passed on and nothing more happens.                              *)
LEMMA AnswerIsValueOrEnd ==
  ASSUME TypeInv, ContentInv, AnswerRequest
  PROVE  /\ AnswerDue /\ answered' = answered + 1
         /\ UNCHANGED <<asked, sink, sinkHeld, callerVars, connection>>
         /\ \/ /\ CallNext
               /\ sink # "AbortNow"
               /\ source' \in SourceStates /\ consumed' \in Seq(Nat)
               /\ ~NeverEnds' => consumed' \o Yield(source)' = contents'
               /\ \E v \in Nat :
                    /\ consumed' = Append(consumed, v)
                    /\ accumulator' = IF sink = "Reduce" THEN Append(accumulator, v)
                                      ELSE accumulator
               /\ UNCHANGED results
            \/ /\ results' = Append(results, [done |-> End, result |-> accumulator])
               /\ accumulator' = <<>>
               /\ sink # "AbortNow" => Yield(source) = <<>> /\ ~NeverEnds
               /\ UNCHANGED <<looperVars, consumed, source>>
<1>1. PICK answer :
        /\ answer = SourceAnswer(source, AbortOfSink)
        /\ AnswerDue
        /\ answered' = answered + 1 /\ source' = answer.source
        /\ DrainCallback(answer.done, answer.value)
        /\ UNCHANGED <<asked, sink, sinkHeld, callerVars, connection>>
  BY DEF AnswerRequest, Answered
<1>2. CASE ~IsSet(answer.done) /\ OnValue(answer.value)
  <2>1. /\ consumed' = Append(consumed, answer.value)
        /\ accumulator' = IF sink = "Reduce" THEN Append(accumulator, answer.value)
                          ELSE accumulator
        /\ CallNext
        /\ UNCHANGED results
    BY <1>2 DEF OnValue, Reducer
  <2>2. /\ sink # "AbortNow"
        /\ source' \in SourceStates /\ consumed' \in Seq(Nat) /\ answer.value \in Nat
        /\ ~NeverEnds' => consumed' \o Yield(source)' = contents'
    BY <1>1, <1>2, <2>1, ValueMoves DEF connection
  <2>. QED
    BY <1>1, <2>1, <2>2
<1>3. CASE IsSet(answer.done) /\ OnDone(answer.done)
  <2>1. source \in SourceStates /\ AbortOfSink \in {Running, End}
    BY DEF TypeInv, AbortOfSink
  <2>2. /\ answer.done = End /\ answer.source = source
        /\ ~IsSet(AbortOfSink) => Yield(source) = <<>> /\ ~Endless(source)
    BY <1>1, <1>3, <2>1, EndingAnswers
  <2>3. sink # "AbortNow" => ~IsSet(AbortOfSink)
    BY DEF AbortOfSink, IsSet
  <2>4. NeverEnds <=> Endless(source)
    BY DEF NeverEnds, Endless
  <2>. QED
    BY <1>1, <1>3, <2>2, <2>3, <2>4 DEF OnDone
<1>. QED
  BY <1>1, <1>2, <1>3 DEF DrainCallback

LEMMA AnswerKeeps ==
  ASSUME IInv, AnswerRequest
  PROVE  IInv'
<1>. USE DEF IInv
<1>1. iterations \in Nat /\ requests \in Nat /\ asked \in Nat /\ answered \in Nat
  BY CountsAreNumbers DEF TypeInv
<1>2. /\ AnswerDue /\ answered' = answered + 1
      /\ UNCHANGED <<asked, sink, sinkHeld, callerVars, connection>>
  BY AnswerIsValueOrEnd
<1>3. /\ ~StreamOver /\ results = <<>> /\ ~threw /\ ~wedged
      /\ requests = answered /\ asked = answered + 1
      /\ sink # "AbortNow" => asked = iterations
  BY <1>2, WhenAnswerIsDue
<1>4. CASE /\ CallNext
           /\ sink # "AbortNow"
           /\ source' \in SourceStates /\ consumed' \in Seq(Nat)
           /\ ~NeverEnds' => consumed' \o Yield(source)' = contents'
           /\ \E v \in Nat :
                /\ consumed' = Append(consumed, v)
                /\ accumulator' = IF sink = "Reduce" THEN Append(accumulator, v)
                                  ELSE accumulator
           /\ UNCHANGED results
  <2>1. PICK v \in Nat :
          /\ consumed' = Append(consumed, v)
          /\ accumulator' = IF sink = "Reduce" THEN Append(accumulator, v) ELSE accumulator
    BY <1>4
  <2>2. /\ LooperStep
        /\ requests' = requests + 1 /\ wedged' = wedged
        /\ \/ iterations' = iterations /\ stack' = stack /\ stack # <<>>
           \/ iterations' = iterations + 1 /\ stack' # <<>>
    BY <1>1, <1>3, <1>4, NextIsCalled
  <2>3. LooperInv'
    BY <2>2, LooperIsKept
  <2>4. TypeInv'
    <3>1. accumulator' \in Seq(Nat)
      BY <2>1 DEF TypeInv
    <3>2. answered' \in Nat
      BY <1>1, <1>2
    <3>. QED
      BY <1>2, <1>4, <3>1, <3>2 DEF TypeInv, callerVars, connection
  <2>5. ~StreamOver'
    BY <1>2, <1>3, <1>4 DEF StreamOver, callerVars
  <2>6. AskInv' /\ WaitInv'
    BY <1>1, <1>2, <1>3, <1>4, <2>2 DEF AskInv, WaitInv, callerVars
  <2>7. CountInv'
    BY <1>1, <1>2, <1>3, <1>4, <2>2, <2>5 DEF CountInv, callerVars
  <2>8. ContentInv'
    BY <1>2, <1>3, <1>4, <2>1, <2>5 DEF ContentInv
  <2>9. ResultInv'
    BY <1>3, <1>4 DEF ResultInv
  <2>10. PromptInv'
    <3>1. stack' # <<>>
      BY <2>2
    <3>. QED
      BY <1>2, <1>3, <1>4, <3>1 DEF PromptInv, callerVars, connection
  <2>. QED
    BY <2>3, <2>4, <2>6, <2>7, <2>8, <2>9, <2>10
<1>5. CASE /\ results' = Append(results, [done |-> End, result |-> accumulator])
           /\ accumulator' = <<>>
           /\ sink # "AbortNow" => Yield(source) = <<>> /\ ~NeverEnds
           /\ UNCHANGED <<looperVars, consumed, source>>
  <2>1. LooperInv'
    BY <1>5, LooperIsKept
  <2>2. TypeInv'
    <3>1. answered' \in Nat
      BY <1>1, <1>2
    <3>. QED
      BY <1>2, <1>5, <3>1, EmptySeq DEF TypeInv, callerVars, connection
  <2>3. results' = <<[done |-> End, result |-> accumulator]>>
    BY <1>3, <1>5
  <2>4. results' # <<>> /\ StreamOver'
    BY <2>3 DEF StreamOver
  <2>5. AskInv' /\ CountInv' /\ WaitInv'
    BY <1>1, <1>2, <1>3, <1>5, <2>4 DEF AskInv, CountInv, WaitInv, looperVars, callerVars
  <2>6. sink # "AbortNow" => consumed = contents
    <3>1. consumed \in Seq(Nat)
      BY DEF TypeInv
    <3>. QED
      BY <1>5, <3>1, ConcatEmptySeq DEF ContentInv
  <2>7. accumulator = IF sink = "Reduce" THEN contents ELSE <<>>
    BY <1>3, <2>6 DEF ContentInv
  <2>8. ResultInv'
    BY <1>2, <1>5, <2>3, <2>6, <2>7 DEF ResultInv, connection
  <2>9. ContentInv'
    BY <1>2, <1>5, <2>4 DEF ContentInv, NeverEnds, Yield, connection
  <2>10. PromptInv'
    BY <1>2, <2>4 DEF PromptInv, callerVars, connection
  <2>. QED
    BY <2>1, <2>2, <2>5, <2>8, <2>9, <2>10
<1>. QED
  BY <1>4, <1>5, AnswerIsValueOrEnd

LEMMA NextIInv == IInv /\ [Next]_vars => IInv'
<1>. SUFFICES ASSUME IInv, [Next]_vars PROVE IInv'
  OBVIOUS
<1>1. CASE UNCHANGED vars
  <2>1. LooperInv'
    BY <1>1, LooperIsKept DEF IInv, vars
  <2>2. UNCHANGED StreamOver
    BY <1>1 DEF vars, StreamOver, sinkVars, callerVars
  <2>3. TypeInv' /\ AskInv' /\ CountInv' /\ WaitInv' /\ PromptInv'
    BY <1>1, <2>2 DEF IInv, vars, TypeInv, AskInv, CountInv, WaitInv, PromptInv, looperVars,
       sinkVars, callerVars, connection
  <2>4. ContentInv' /\ ResultInv'
    BY <1>1, <2>2 DEF IInv, vars, ContentInv, ResultInv, NeverEnds, Yield, looperVars,
       sinkVars, callerVars, connection
  <2>. QED
    BY <2>1, <2>3, <2>4 DEF IInv
<1>. QED
  BY <1>1, ConnectKeeps, AskKeeps, AnswerKeeps, LeavingKeeps, OnValueThrowsKeeps, RetryKeeps,
     ReturnKeeps DEF Next

LEMMA SpecIInv == Spec => []IInv
  BY InitIInv, NextIInv, PTL DEF Spec

-----------------------------------------------------------------------------
(* The state of a pipeline is of its types: the bound on the calls of next *)
(* aside, drain.h's and reduce.h's results are at most the whole stream,   *)
(* and no answer comes without its request.                                *)
THEOREM TypeCorrect == Spec => []TypeOK
<1>1. IInv => Looper!TypeOK
  <2>. SUFFICES ASSUME IInv PROVE Looper!TypeOK
    OBVIOUS
  <2>. USE DEF IInv, LooperInv, OneShotLooper!IInv
  <2>1. stack \in Seq(Looper!Frames)
    <3>1. Looper!Frames = OneShotLooper!Frames
      BY DEF Looper!Frames, Looper!InStart, Looper!InBody, Looper!InLoop,
         OneShotLooper!Frames, OneShotLooper!InStart, OneShotLooper!InBody,
         OneShotLooper!InLoop
    <3>2. stack \in Seq(OneShotLooper!Frames)
      BY LooperIsWellFormed, OneShotLooper!StacksAreSeqs
         DEF OneShotLooper!TypeInv, OneShotLooper!IdleStacks, OneShotLooper!LoopStacks
    <3>. QED
      BY <3>1, <3>2
  <2>2. iterations \in 0..(MaxRequests + 1) /\ requests \in 0..MaxRequests
    BY CountsAreNumbers, PipelineAssumption
       DEF PipelineAssumption, OneShotLooper!TypeInv, OneShotLooper!CountInv
  <2>. QED
    BY <2>1, <2>2 DEF Looper!TypeOK, OneShotLooper!TypeInv
<1>2. IInv => answered \in 0..asked
  BY DEF IInv, TypeInv, CountInv
<1>3. IInv => results \in Seq([done : {End}, result : {<<>>, contents}])
  <2>1. PICK R : R = [done : {End}, result : {<<>>, contents}]
    OBVIOUS
  <2>2. [done |-> End, result |-> <<>>] \in R /\ [done |-> End, result |-> contents] \in R
    BY <2>1
  <2>3. \A e \in R : <<e>> \in Seq(R)
    OBVIOUS
  <2>4. ResultInv => results \in Seq(R)
    BY <2>2, <2>3, EmptySeq DEF ResultInv
  <2>. QED
    BY <2>1, <2>4 DEF IInv
<1>4. IInv => TypeOK
  BY <1>1, <1>2, <1>3 DEF IInv, TypeInv, TypeOK
<1>. QED
  BY <1>4, SpecIInv, PTL

(* drain.h's callback calls next once per answer, so the looper never asks *)
(* the source again while a request is outstanding.                        *)
THEOREM OneRequestAtATime == Spec => []OneOutstandingRequest
<1>1. IInv => OneOutstandingRequest
  <2>. SUFFICES ASSUME IInv PROVE OneOutstandingRequest
    OBVIOUS
  <2>1. requests \in Nat /\ asked \in Nat /\ answered \in Nat
    BY CountsAreNumbers DEF IInv, TypeInv
  <2>2. asked <= answered + 1 /\ answered <= asked
    BY Outstanding DEF IInv, CountInv
  <2>3. requests <= answered
    BY <2>1 DEF IInv, CountInv
  <2>. QED
    BY <2>1, <2>2, <2>3 DEF OneOutstandingRequest
<1>. QED
  BY <1>1, SpecIInv, PTL

(* No value of values.h or count.cc is lost, repeated or reordered.        *)
THEOREM NothingIsLost == Spec => []ValuesInOrder
<1>1. IInv => ValuesInOrder
  BY DEF IInv, ContentInv, ValuesInOrder
<1>. QED
  BY <1>1, SpecIInv, PTL

(* When onDone is called, drain.h has consumed everything, and what        *)
(* reduce.h passes to its callback is the whole stream.                    *)
THEOREM DoneIsEverything == Spec => []DoneMeansEverything
<1>1. IInv => DoneMeansEverything
  BY DEF IInv, ResultInv, DoneMeansEverything
<1>. QED
  BY <1>1, SpecIInv, PTL

(* With values.h, count.cc and empty.h, which answer at once, a stream of  *)
(* any length is over when Pull returns ...                                *)
THEOREM PullReturnsWhenOver == Spec => []OverWhenPullReturns
<1>1. IInv => OverWhenPullReturns
  BY DEF IInv, TypeInv, PromptInv, OverWhenPullReturns
<1>. QED
  BY <1>1, SpecIInv, PTL

(* ... and reduce.h's CHECK(self != nullptr) never fails.                  *)
THEOREM ReduceIsAlive == Spec => []PromptReduceIsAlive
<1>1. IInv => PromptReduceIsAlive
  BY DEF IInv, PromptInv, PromptReduceIsAlive, ReduceOutlivesStream
<1>. QED
  BY <1>1, SpecIInv, PTL

(* looper.h's purpose: the call stack of a stream stays within four frames *)
(* of the looper, for streams of any length, values.h's and count.cc's     *)
(* which answer at once included, over exceptions and second connections.  *)
THEOREM StackStaysShallow == Spec => []Looper!StackBounded
<1>1. IInv => Looper!StackBounded
  BY DEF IInv, LooperInv, OneShotLooper!IInv, OneShotLooper!TypeInv,
     OneShotLooper!IdleStacks, OneShotLooper!LoopStacks, OneShotLooper!InStart,
     OneShotLooper!InBody, OneShotLooper!InLoop, Looper!StackBounded, Looper!InStart,
     Looper!InBody, Looper!InLoop
<1>. QED
  BY <1>1, SpecIInv, PTL

(* Whatever the timing of the answers against looper.cc's two flags, a     *)
(* stream that has come to rest is over or waits for an answer.            *)
THEOREM StreamsDoNotStall == Spec => []NeverStalls
<1>1. IInv => NeverStalls
  BY DEF IInv, WaitInv, NeverStalls
<1>. QED
  BY <1>1, SpecIInv, PTL

(* After onDone, or an exception out of onValue, the sink asks for nothing *)
(* and calls nothing, unless the caller pulls again.                       *)
THEOREM OverIsQuiet == Spec => QuietWhenOver
<1>1. IInv /\ [Next]_vars =>
        [StreamOver /\ retries' = retries => UNCHANGED <<asked, consumed, results>>]_vars
  <2>. SUFFICES ASSUME IInv, Next, StreamOver, retries' = retries
                PROVE  UNCHANGED <<asked, consumed, results>>
    OBVIOUS
  <2>1. iterations \in Nat /\ requests \in Nat /\ asked \in Nat /\ answered \in Nat
    BY CountsAreNumbers DEF IInv, TypeInv
  <2>2. ~AnswerDue
    BY WhenAnswerIsDue
  <2>3. CASE ConnectDrain
    BY <2>3 DEF ConnectDrain, sinkVars
  <2>4. CASE ConnectAbortNow
    BY <2>1, <2>4 DEF ConnectAbortNow, IInv, CountInv
  <2>5. CASE Ask
    <3>1. asked < iterations
      BY <2>5 DEF Ask
    <3>2. sink # "AbortNow"
      BY <2>1, <3>1 DEF IInv, AskInv
    <3>. QED
      BY <3>1, <3>2, Outstanding
  <2>6. CASE AnswerRequest
    BY <2>2, <2>6 DEF AnswerRequest
  <2>7. CASE AnswerNobody
    BY <2>2, <2>7 DEF AnswerNobody
  <2>8. CASE OnValueThrows
    BY <2>2, <2>8 DEF OnValueThrows
  <2>9. CASE Retry
    <3>1. retries' = retries + 1 /\ retries \in Nat
      BY <2>9 DEF Retry, IInv, TypeInv
    <3>. QED
      BY <3>1
  <2>10. CASE RetryReduce
    BY <2>10 DEF RetryReduce, sinkVars
  <2>11. CASE Return
    BY <2>11 DEF Return, sinkVars
  <2>12. CASE DropSink
    BY <2>12 DEF DropSink
  <2>. QED
    BY <2>3, <2>4, <2>5, <2>6, <2>7, <2>8, <2>9, <2>10, <2>11, <2>12 DEF Next
<1>. QED
  BY <1>1, SpecIInv, PTL DEF Spec, QuietWhenOver

(* Every sink of dk_pull keeps to the pull-stream protocol towards every   *)
(* source of it, and a second connection goes on where the first stopped.  *)
THEOREM ImplementsProtocol == Spec => ProtocolSpec
<1>1. Init => Protocol!Init
  BY DEF Init, Protocol!Init
<1>2. IInv /\ [Next]_vars => [Protocol!Next]_(Protocol!vars)
  <2>. SUFFICES ASSUME IInv, [Next]_vars
                PROVE  [Protocol!Next]_(Protocol!vars)
    OBVIOUS
  <2>0. /\ iterations \in Nat /\ requests \in Nat /\ asked \in Nat /\ answered \in Nat
        /\ before \in Nat
    BY CountsAreNumbers DEF IInv, TypeInv
  <2>. USE DEF Protocol!vars
  <2>1. CASE ConnectDrain
    BY <2>1 DEF ConnectDrain, sinkVars, callerVars
  <2>2. CASE ConnectAbortNow
    <3>1. Protocol!AbortStream
      BY <2>0, <2>2 DEF ConnectAbortNow, sinkVars, callerVars, Protocol!AbortStream
    <3>. QED
      BY <3>1 DEF Protocol!Next
  <2>3. CASE Ask
    <3>1. /\ asked' = asked + 1 /\ asked < iterations
          /\ UNCHANGED <<sinkVars, answered, callerVars>>
      BY <2>3 DEF Ask
    <3>2. sink # "AbortNow"
      BY <2>0, <3>1 DEF IInv, AskInv
    <3>3. results = <<>>
      BY <3>1, <3>2, Outstanding DEF StreamOver
    <3>4. Protocol!Pull
      BY <2>0, <3>1, <3>2, <3>3 DEF Protocol!Pull, sinkVars, callerVars
    <3>. QED
      BY <3>4 DEF Protocol!Next
  <2>4. CASE AnswerRequest
    <3>1. /\ AnswerDue /\ answered' = answered + 1
          /\ UNCHANGED <<asked, sink, before>>
      BY <2>4, AnswerIsValueOrEnd DEF IInv, callerVars
    <3>2. before + answered < before + asked /\ results = <<>>
      BY <2>0, <3>1, WhenAnswerIsDue DEF AnswerDue
    <3>3. \/ sink # "AbortNow" /\ UNCHANGED results
          \/ results' = Append(results, [done |-> End, result |-> accumulator])
      BY <2>4, AnswerIsValueOrEnd DEF IInv
    <3>4. Protocol!AnswerValue \/ Protocol!AnswerEnd
      BY <2>0, <3>1, <3>2, <3>3 DEF Protocol!AnswerValue, Protocol!AnswerEnd
    <3>. QED
      BY <3>4 DEF Protocol!Next
  <2>5. CASE AnswerNobody
    BY <2>5 DEF AnswerNobody, sinkVars
  <2>6. CASE OnValueThrows
    <3>1. /\ AnswerDue /\ answered' = answered + 1
          /\ UNCHANGED <<asked, sink, before, results>>
      BY <2>6 DEF OnValueThrows, Answered
    <3>2. before + answered < before + asked /\ results = <<>>
      BY <2>0, <3>1, WhenAnswerIsDue DEF AnswerDue
    <3>3. sink # "AbortNow"
      <4>1. ~IsSet(SourceAnswer(source, AbortOfSink).done)
        BY <2>6 DEF OnValueThrows
      <4>2. source \in SourceStates /\ AbortOfSink \in {Running, End}
        BY DEF IInv, TypeInv, AbortOfSink
      <4>3. AbortOfSink = Running
        BY <4>1, <4>2, ValueAnswers
      <4>. QED
        BY <4>3, SourcesAssumption DEF SourcesAssumption, AbortOfSink
    <3>4. Protocol!AnswerValue
      BY <2>0, <3>1, <3>2, <3>3 DEF Protocol!AnswerValue
    <3>. QED
      BY <3>4 DEF Protocol!Next
  <2>7. CASE Retry
    <3>1. /\ sink = "Drain" /\ threw
          /\ asked' = 0 /\ answered' = 0 /\ before' = before + asked
          /\ UNCHANGED <<sink, results>>
      BY <2>7 DEF Retry, CallerRetries, sinkVars
    <3>2. answered = asked
      BY <3>1 DEF IInv, CountInv, StreamOver
    <3>. QED
      BY <2>0, <3>1, <3>2
  <2>8. CASE RetryReduce
    BY <2>8 DEF RetryReduce, sinkVars
  <2>9. CASE Return
    BY <2>9 DEF Return, sinkVars, callerVars
  <2>10. CASE DropSink
    BY <2>10 DEF DropSink, callerVars
  <2>11. CASE UNCHANGED vars
    BY <2>11 DEF vars, sinkVars, callerVars
  <2>. QED
    BY <2>1, <2>2, <2>3, <2>4, <2>5, <2>6, <2>7, <2>8, <2>9, <2>10, <2>11 DEF Next
<1>. QED
  BY <1>1, <1>2, SpecIInv, PTL DEF Spec, ProtocolSpec, Protocol!Spec
=============================================================================
