-------------------------- MODULE ProtocolChecker --------------------------
(***************************************************************************)
(* dk_pull::pull_stream::ProtocolChecker (protocol_checker.h): a through   *)
(* that watches the requests going up to a source and the callbacks coming *)
(* back, and reports violations of the pull-stream protocol, by exception  *)
(* (notifyEagerly) or in a list that Terminate returns.                    *)
(*                                                                         *)
(* The sink and the source are the environment and do as they please.      *)
(* Every handler ends in the call it forwards (the source, or the sink's   *)
(* callback), so a source that answers before it returns, or a sink that   *)
(* requests again from its callback, gives the same steps in the same      *)
(* order as an asynchronous one, and a handler is one action.              *)
(***************************************************************************)
EXTENDS Naturals, Sequences, FiniteSets

CONSTANTS
  Running,         \* EndOrError::FALSE
  Ends,            \* the other EndOrErrors: TRUE, and the errors
  NullCallbacks,   \* TRUE: the sink may pass a null callback
  MaxInvocations,  \* bound: how often the source invokes one callback
  MaxEvents        \* bound: requests and callback invocations in all

ASSUME CheckerAssumption ==
  /\ Running \notin Ends
  /\ NullCallbacks \in BOOLEAN
  /\ MaxInvocations \in Nat
  /\ MaxEvents \in Nat

VARIABLES
  options,      \* forbidExtraRequests, enforceStreamTermination, notifyEagerly
  i,            \* the number of the next request
  latest,       \* the highest callback invoked in order
  skipped,      \* map: requests made with a null callback
  counter,      \* per request, how often its callback was invoked
  aborted,      \* the first abort, or Running
  done,         \* the first end, or Running
  errors,       \* the reports, when not eager
  thrown,       \* history: an exception has been thrown
  history,      \* history: requests and invocations, in order
  delivered,    \* history: what the sink's callbacks were told
  terminated    \* history: Terminate has been called

stream  == <<i, skipped, aborted>>
answers == <<latest, counter, done, delivered>>
vars    == <<options, stream, answers, errors, thrown, history, terminated>>

(* ProtocolChecker::Options; Create's default has all but notifyEagerly off. *)
Options == [forbidExtraRequests : BOOLEAN,
            enforceStreamTermination : BOOLEAN,
            notifyEagerly : BOOLEAN]

EndOrError == Ends \cup {Running}

Requests == 1..(i - 1)

(* A violation report: which invariant, about which callback (0: none). *)
Report(invariant, callback) == [invariant |-> invariant, callback |-> callback]

Reports == [invariant : 1..7, callback : Nat]

When(condition, report) == IF condition THEN <<report>> ELSE <<>>

-----------------------------------------------------------------------------
Init ==
  /\ options \in Options
  /\ i = 1
  /\ latest = 0
  /\ skipped = <<>>
  /\ counter = <<>>
  /\ aborted = Running
  /\ done = Running
  /\ errors = <<>>
  /\ thrown = FALSE
  /\ history = <<>>
  /\ delivered = <<>>
  /\ terminated = FALSE

(* notifyError for a handler that has found these violations: the first    *)
(* one is thrown, or all are appended.                                     *)
NotifyErrors(found) ==
  /\ errors' = IF options.notifyEagerly THEN errors ELSE errors \o found
  /\ thrown' = (thrown \/ (options.notifyEagerly /\ found # <<>>))

(* The handler runs to its end: nothing in it throws. *)
Completes(found) == options.notifyEagerly => found = <<>>

Log(event, n, end) ==
  history' = Append(history, [event |-> event, n |-> n, end |-> end])

-----------------------------------------------------------------------------
\* Mutant of RequestViolations: only done counts as termination.
RequestViolationsDoneOnly(abort) ==
  When(done # Running /\ abort = Running, Report(1, 0))

(* The sink calls the wrapped source: Through's outer lambda.              *)
RequestViolations(abort) ==
  LET late  == aborted # Running \/ done # Running
      extra == options.forbidExtraRequests
  IN  When(late /\ abort = Running, Report(1, 0))
        \o When(extra /\ aborted # Running, Report(6, 0))
        \o When(extra /\ done # Running, Report(6, 0))

FirstAbort(abort) == IF aborted = Running THEN abort ELSE aborted

RequestThrows(abort) ==
  /\ ~Completes(RequestViolations(abort))
  /\ NotifyErrors(RequestViolations(abort))
  /\ Log("request", i, abort)
  /\ UNCHANGED <<options, stream, answers, terminated>>

\* Mutant of RequestForwarded: the request number is not stepped.
RequestForwardedSameNumber(abort, null) ==
  /\ Completes(RequestViolations(abort))
  /\ NotifyErrors(RequestViolations(abort))
  /\ aborted' = FirstAbort(abort)
  /\ skipped' = IF null THEN [k \in DOMAIN skipped \cup {i} |-> TRUE] ELSE skipped
  /\ counter' = Append(counter, 0)
  /\ Log("request", i, abort)
  /\ UNCHANGED <<options, i, latest, done, delivered, terminated>>

RequestForwarded(abort, null) ==
  /\ Completes(RequestViolations(abort))
  /\ NotifyErrors(RequestViolations(abort))
  /\ aborted' = FirstAbort(abort)
  /\ i' = i + 1
  /\ skipped' = IF null THEN [k \in DOMAIN skipped \cup {i} |-> TRUE] ELSE skipped
  /\ counter' = Append(counter, 0)
  /\ Log("request", i, abort)
  /\ UNCHANGED <<options, latest, done, delivered, terminated>>

Request ==
  /\ Len(history) < MaxEvents
  /\ \E abort \in EndOrError :
       \/ RequestThrows(abort)
       \/ \E null \in {FALSE, NullCallbacks} : RequestForwarded(abort, null)

-----------------------------------------------------------------------------
\* Mutants of CallbackViolations: a callback that comes too early is let
\* through; the order is off by one; repeated callbacks are not noticed.
CallbackViolationsNoGap(k, d) ==
  When(d = Running /\ (aborted # Running \/ done # Running), Report(5, k))
    \o When(counter[k] > 0, Report(3, k))
    \o When(k < latest, Report(4, k))

CallbackViolationsOffByOne(k, d) ==
  When(d = Running /\ (aborted # Running \/ done # Running), Report(5, k))
    \o When(counter[k] > 0, Report(3, k))
    \o When(k < latest \/ k > latest, Report(4, k))

CallbackViolationsRepeats(k, d) ==
  When(d = Running /\ (aborted # Running \/ done # Running), Report(5, k))
    \o When(k < latest \/ k > latest + 1, Report(4, k))

(* The source invokes the callback the checker gave it for request k.      *)
CallbackViolations(k, d) ==
  When(d = Running /\ (aborted # Running \/ done # Running), Report(5, k))
    \o When(counter[k] > 0, Report(3, k))
    \o When(k < latest \/ k > latest + 1, Report(4, k))

\* Mutant of CallbackDone: the sink is told what the source said.
CallbackDoneAsAnswered(d) == d

CallbackDone(d) == IF done = Running THEN d ELSE done

(* Invariant 5 is tested before the counter is stepped, 3 and 4 after.     *)
CallbackThrows(k, d) ==
  LET found == CallbackViolations(k, d)
  IN  /\ ~Completes(found)
      /\ NotifyErrors(found)
      /\ counter' = IF found[1].invariant = 5 THEN counter
                    ELSE [counter EXCEPT ![k] = @ + 1]
      /\ Log("callback", k, d)
      /\ UNCHANGED <<options, stream, latest, done, delivered, terminated>>

CallbackCompletes(k, d) ==
  /\ Completes(CallbackViolations(k, d))
  /\ NotifyErrors(CallbackViolations(k, d))
  /\ counter' = [counter EXCEPT ![k] = @ + 1]
  /\ latest' = IF k \in {latest, latest + 1} THEN k ELSE latest
  /\ done' = CallbackDone(d)
  /\ delivered' = Append(delivered, CallbackDone(d))
  /\ Log("callback", k, d)
  /\ UNCHANGED <<options, stream, terminated>>

TimesInvoked(k) ==
  Cardinality({p \in DOMAIN history : history[p].event # "request" /\ history[p].n = k})

Callback ==
  /\ Len(history) < MaxEvents
  /\ \E k \in Requests \ DOMAIN skipped, d \in EndOrError :
       /\ TimesInvoked(k) < MaxInvocations
       /\ CallbackThrows(k, d) \/ CallbackCompletes(k, d)

(* For a null callback the source was given noop, which does nothing.      *)
Noop ==
  /\ Len(history) < MaxEvents
  /\ \E k \in DOMAIN skipped, d \in EndOrError :
       /\ TimesInvoked(k) < MaxInvocations
       /\ Log("noop", k, d)
  /\ UNCHANGED <<options, stream, answers, errors, thrown, terminated>>

-----------------------------------------------------------------------------
(* A finite set of numbers, in ascending order.                            *)
Ascending(S) ==
  [n \in 1..Cardinality(S) |-> CHOOSE k \in S : Cardinality({j \in S : j < k}) = n - 1]

\* Mutants of UnansweredRequests: the first one is forgotten; skipped requests
\* are let off.
UnansweredAfterTheFirst ==
  Ascending({k \in Requests : k > latest + 1 /\ (k \notin DOMAIN skipped \/ skipped[k])})

UnansweredNotSkipped == Ascending({k \in Requests : k > latest /\ k \notin DOMAIN skipped})

(* Terminate, called by a test or an onDone handler at any moment.  Its    *)
(* condition on skipped lets every k through: skipped[k] is never false.   *)
UnansweredRequests ==
  Ascending({k \in Requests : k > latest /\ (k \notin DOMAIN skipped \/ skipped[k])})

TerminateViolations ==
  [n \in DOMAIN UnansweredRequests |-> Report(2, UnansweredRequests[n])]
    \o When(options.enforceStreamTermination /\ done = Running /\ aborted = Running,
            Report(7, 0))

Terminate ==
  /\ ~terminated
  /\ terminated' = TRUE
  /\ NotifyErrors(TerminateViolations)
  /\ UNCHANGED <<options, stream, answers, history>>

Next ==
  \/ Request
  \/ Callback
  \/ Noop
  \/ Terminate

Spec == Init /\ [][Next]_vars

-----------------------------------------------------------------------------
TypeOK ==
  /\ options \in Options
  /\ i \in Nat \ {0}
  /\ latest \in 0..(i - 1)
  /\ skipped \in [DOMAIN skipped -> {TRUE}]
  /\ DOMAIN skipped \subseteq Requests
  /\ counter \in [Requests -> Nat]
  /\ aborted \in EndOrError
  /\ done \in EndOrError
  /\ errors \in Seq(Reports)
  /\ thrown \in BOOLEAN
  /\ delivered \in Seq(EndOrError)
  /\ terminated \in BOOLEAN

(* Nothing has been reported. *)
Clean == errors = <<>> /\ ~thrown

(*************************************************************************)
(* The reference: what the invariants say, in the words of the checker's *)
(* messages, of the whole history of requests and callbacks.             *)
(*************************************************************************)
IsRequest(p)  == history[p].event = "request"
IsCallback(p) == history[p].event = "callback"
IsAnswer(p)   == ~IsRequest(p)

(* Before event p the sink had aborted, or a callback had been told an end. *)
AbortedBefore(p) ==
  \E q \in 1..(p - 1) : IsRequest(q) /\ history[q].end # Running
EndedBefore(p) ==
  \E q \in 1..(p - 1) : IsCallback(q) /\ history[q].end # Running

CallbacksUpTo(p) == {q \in 1..p : IsCallback(q)}

ObeysInvariant(p) ==
  LET over == AbortedBefore(p) \/ EndedBefore(p)
  IN  /\ IsRequest(p) /\ history[p].end = Running => ~over        \* 1
      /\ IsRequest(p) /\ options.forbidExtraRequests => ~over     \* 6
      /\ IsCallback(p) /\ history[p].end = Running => ~over       \* 5
      /\ IsCallback(p) => history[p].n = Cardinality(CallbacksUpTo(p))  \* 3, 4

Conforms == \A p \in DOMAIN history : ObeysInvariant(p)

EveryRequestAnswered ==
  \A k \in Requests : \E p \in DOMAIN history : IsAnswer(p) /\ history[p].n = k

StreamOver == \E p \in DOMAIN history : history[p].event # "noop" /\ history[p].end # Running

(* The checker is sound: while it reports nothing, the source and the sink *)
(* have kept to the protocol, in every order of requests, callbacks and    *)
(* repeated callbacks, with or without null callbacks.                     *)
CleanMeansConforming == Clean => Conforms

(* It is complete, for sinks that always pass a callback: what it reports  *)
(* before Terminate is a departure from the protocol.                      *)
ConformingMeansClean == (Conforms /\ skipped = <<>> /\ ~terminated) => Clean

(* One number, latest, stands for the set of callbacks invoked so far:     *)
(* while nothing is reported those are exactly the first `latest` ones,    *)
(* each invoked once, whatever number of requests is outstanding.          *)
LatestIsAllAnswered ==
  Clean => \A k \in Requests : counter[k] = IF k <= latest THEN 1 ELSE 0

(* What the sink's callbacks are told of the end is sticky: after the      *)
(* first end, every callback is told that same end, even when the source   *)
(* answers with values again and the checker only collects errors.         *)
FirstEndSticks ==
  \A p, q \in DOMAIN delivered :
    (p < q /\ delivered[p] # Running) => delivered[q] = delivered[p]

(* Terminate's verdict.  If nothing had been reported before, it reports   *)
(* nothing exactly when each request has been answered and, if termination *)
(* is enforced, the stream is over.                                        *)
TerminateVerdict ==
  [][Terminate /\ Clean /\ skipped = <<>> =>
       (Clean' <=> /\ EveryRequestAnswered
                   /\ options.enforceStreamTermination => StreamOver)]_vars

(* A request with a null callback never passes: TestInvariant2 expects     *)
(* Terminate to report it, and nothing that happens on the stream meanwhile *)
(* can hide it.                                                            *)
NullCallbackIsReported == [][Terminate /\ skipped # <<>> => ~Clean']_vars

(* A stream the checker finds no fault with is a run of PullProtocol, in   *)
(* which requests are counted as the source sees them and answers as the   *)
(* sink's callbacks do.                                                    *)
Protocol == INSTANCE PullProtocol WITH
  asked    <- Cardinality({p \in DOMAIN history : IsRequest(p)}),
  pulls    <- Cardinality({p \in DOMAIN history : IsRequest(p) /\ history[p].end = Running}),
  answered <- Len(delivered),
  aborted  <- \E p \in DOMAIN history : IsRequest(p) /\ history[p].end # Running,
  ended    <- \E p \in DOMAIN delivered : delivered[p] # Running

CleanStepsFollowProtocol == [][Clean' => [Protocol!Next]_(Protocol!vars)]_vars

(* "Invariant 2 violated: callback k was never invoked" is reported by a   *)
(* Terminate called now only of a callback that was not invoked (exceptions *)
(* apart, which stop the checker in the middle of a callback).             *)
NeverInvokedIsTrue ==
  (~terminated /\ ~thrown) =>
    \A e \in DOMAIN TerminateViolations : TerminateViolations[e].invariant = 2 =>
      ~ \E p \in DOMAIN history :
          IsAnswer(p) /\ history[p].n = TerminateViolations[e].callback

(* "Invariant 4 violated: callback k invoked after callback l", or "before *)
(* callback l", is reported only of a source that has answered out of the  *)
(* order of the requests.                                                  *)
AnswersInOrder ==
  \A p \in DOMAIN history : IsAnswer(p) =>
    /\ \A k \in 1..(history[p].n - 1) :
         \E q \in 1..(p - 1) : IsAnswer(q) /\ history[q].n = k
    /\ \A q \in 1..(p - 1) : IsAnswer(q) => history[q].n <= history[p].n

OutOfOrderIsTrue ==
  (\E e \in DOMAIN errors : errors[e].invariant = 4) => ~AnswersInOrder
=============================================================================
