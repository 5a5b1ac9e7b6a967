--------------------------- MODULE CheckerProofs ---------------------------
(***************************************************************************)
(* Proofs about ProtocolChecker, for streams of any length, any number of  *)
(* outstanding requests and any kinds of end: while the checker reports    *)
(* nothing the stream conforms and is a run of PullProtocol; while it      *)
(* conforms nothing is reported (to sinks that pass no null callback);     *)
(* `latest` stands for the callbacks invoked; the first end sticks; and    *)
(* Terminate's verdict is right.                                           *)
(***************************************************************************)
EXTENDS ProtocolChecker, FiniteSetTheorems, SequenceTheorems, TLAPS

Events == [event : {"request", "callback", "noop"}, n : Nat, end : EndOrError]

TypeInv ==
  /\ options \in Options
  /\ i \in Nat /\ i > 0
  /\ latest \in 0..(i - 1)
  /\ counter \in Seq(Nat) /\ Len(counter) = i - 1
  /\ DOMAIN skipped \subseteq Requests
  /\ skipped \in [DOMAIN skipped -> {TRUE}]
  /\ aborted \in EndOrError
  /\ done \in EndOrError
  /\ history \in Seq(Events)
  /\ delivered \in Seq(EndOrError)
  /\ errors \in Seq(Reports)
  /\ thrown \in BOOLEAN
  /\ terminated \in BOOLEAN

(* Everything delivered so far is a value, or the end that `done` records. *)
StickInv ==
  /\ \A p \in DOMAIN delivered : delivered[p] # Running => delivered[p] = done
  /\ done # Running => \E p \in DOMAIN delivered : delivered[p] # Running
  /\ FirstEndSticks

(* noop is what the source invokes for a skipped request.                  *)
NoopInv == \A p \in DOMAIN history : history[p].event = "noop" => history[p].n \in DOMAIN skipped

(* What the checker's few variables say of a history it has not objected   *)
(* to.  Conforms alone is not inductive: whether the next event conforms   *)
(* depends on how aborted, done and latest reflect the events before it.   *)
Now == Len(history)

CountersInv ==
  /\ \A k \in Requests : counter[k] = IF k <= latest THEN 1 ELSE 0
  /\ \A k \in DOMAIN skipped : k > latest

HistoryInv ==
  /\ aborted # Running <=> AbortedBefore(Now + 1)
  /\ done # Running <=> EndedBefore(Now + 1)
  /\ Cardinality(CallbacksUpTo(Now)) = latest
  /\ Conforms

(* The callbacks in the history are those of the requests 1 to latest.     *)
AnswersInv ==
  /\ Len(delivered) = latest
  /\ \A k \in 1..latest : \E p \in DOMAIN history : IsCallback(p) /\ history[p].n = k
  /\ \A p \in DOMAIN history : IsCallback(p) => history[p].n <= latest

AskedEvents == {p \in DOMAIN history : IsRequest(p)}
PullEvents  == {p \in DOMAIN history : IsRequest(p) /\ history[p].end = Running}

AskedInv == Cardinality(AskedEvents) = i - 1

CleanInv == Clean => CountersInv /\ HistoryInv /\ AnswersInv /\ AskedInv

IInv == TypeInv /\ StickInv /\ NoopInv /\ CleanInv

-----------------------------------------------------------------------------
(* Reports put together by three conditional appends: their type, and what *)
(* it takes for there to be none.                                          *)
LEMMA WhenType ==
  ASSUME NEW c \in BOOLEAN, NEW r \in Reports
  PROVE  When(c, r) \in Seq(Reports) /\ (When(c, r) = <<>> <=> ~c)
  BY DEF When

LEMMA ThreeReports ==
  ASSUME NEW a \in Seq(Reports), NEW b \in Seq(Reports), NEW c \in Seq(Reports)
  PROVE  /\ a \o b \o c \in Seq(Reports)
         /\ a \o b \o c = <<>> => a = <<>> /\ b = <<>> /\ c = <<>>
<1>1. /\ a \o b \in Seq(Reports) /\ Len(a \o b) = Len(a) + Len(b)
      /\ a \o b \o c \in Seq(Reports) /\ Len(a \o b \o c) = Len(a) + Len(b) + Len(c)
  BY ConcatProperties
<1>2. /\ a \in Seq(Reports) => Len(a) \in Nat /\ (Len(a) = 0 <=> a = <<>>)
      /\ b \in Seq(Reports) => Len(b) \in Nat /\ (Len(b) = 0 <=> b = <<>>)
      /\ c \in Seq(Reports) => Len(c) \in Nat /\ (Len(c) = 0 <=> c = <<>>)
  BY EmptySeq, LenProperties
<1>3. a \o b \o c = <<>> => Len(a) + Len(b) + Len(c) = 0
  BY <1>1
<1>. QED
  BY <1>1, <1>2, <1>3

LEMMA ReportType ==
  ASSUME NEW n \in 1..7, NEW k \in Nat
  PROVE  Report(n, k) \in Reports
  BY DEF Report, Reports

(* What an unreported request and an unreported callback have in common    *)
(* with the conditions of the code.                                        *)
LEMMA RequestReports ==
  ASSUME NEW abort
  PROVE  /\ RequestViolations(abort) \in Seq(Reports)
         /\ RequestViolations(abort) = <<>> =>
              /\ abort = Running => aborted = Running /\ done = Running
              /\ options.forbidExtraRequests => aborted = Running /\ done = Running
<1>. DEFINE late  == aborted # Running \/ done # Running
            extra == options.forbidExtraRequests
            A == When(late /\ abort = Running, Report(1, 0))
            B == When(extra /\ aborted # Running, Report(6, 0))
            C == When(extra /\ done # Running, Report(6, 0))
<1>1. Report(1, 0) \in Reports /\ Report(6, 0) \in Reports
  BY ReportType
<1>2. A \in Seq(Reports) /\ (A = <<>> <=> ~(late /\ abort = Running))
  BY <1>1, WhenType
<1>3. B \in Seq(Reports) /\ (B = <<>> <=> ~(extra /\ aborted # Running))
  BY <1>1 DEF When
<1>4. C \in Seq(Reports) /\ (C = <<>> <=> ~(extra /\ done # Running))
  BY <1>1 DEF When
<1>5. RequestViolations(abort) = A \o B \o C
  BY DEF RequestViolations
<1>. HIDE DEF A, B, C
<1>6. /\ A \o B \o C \in Seq(Reports)
      /\ A \o B \o C = <<>> => A = <<>> /\ B = <<>> /\ C = <<>>
  BY <1>2, <1>3, <1>4, ThreeReports
<1>. QED
  BY <1>2, <1>3, <1>4, <1>5, <1>6

LEMMA CallbackReports ==
  ASSUME NEW k \in Nat, NEW d
  PROVE  /\ CallbackViolations(k, d) \in Seq(Reports)
         /\ CallbackViolations(k, d) = <<>> =>
              /\ d = Running => aborted = Running /\ done = Running
              /\ ~(counter[k] > 0)
              /\ ~(k < latest) /\ ~(k > latest + 1)
<1>. DEFINE late == d = Running /\ (aborted # Running \/ done # Running)
            again == counter[k] > 0
            misplaced == k < latest \/ k > latest + 1
            A == When(late, Report(5, k))
            B == When(again, Report(3, k))
            C == When(misplaced, Report(4, k))
<1>1. Report(5, k) \in Reports /\ Report(3, k) \in Reports /\ Report(4, k) \in Reports
  BY ReportType
<1>2. A \in Seq(Reports) /\ (A = <<>> <=> ~late)
  BY <1>1 DEF When
<1>3. B \in Seq(Reports) /\ (B = <<>> <=> ~again)
  BY <1>1 DEF When
<1>4. C \in Seq(Reports) /\ (C = <<>> <=> ~misplaced)
  BY <1>1 DEF When
<1>5. CallbackViolations(k, d) = A \o B \o C
  BY DEF CallbackViolations
<1>. HIDE DEF A, B, C
<1>6. /\ A \o B \o C \in Seq(Reports)
      /\ A \o B \o C = <<>> => A = <<>> /\ B = <<>> /\ C = <<>>
  BY <1>2, <1>3, <1>4, ThreeReports
<1>. QED
  BY <1>2, <1>3, <1>4, <1>5, <1>6

(* A handler that leaves the checker clean found nothing and began clean.  *)
LEMMA StaysClean ==
  ASSUME NEW found \in Seq(Reports), errors \in Seq(Reports),
         NotifyErrors(found)
  PROVE  /\ errors' \in Seq(Reports)
         /\ Clean' => Clean /\ found = <<>>
<1>1. errors \o found \in Seq(Reports) /\ Len(errors \o found) = Len(errors) + Len(found)
  BY ConcatProperties
<1>2. /\ Len(errors) \in Nat /\ (Len(errors) = 0 <=> errors = <<>>)
      /\ Len(found) \in Nat /\ (Len(found) = 0 <=> found = <<>>)
  BY EmptySeq, LenProperties
<1>3. errors \o found = <<>> => errors = <<>> /\ found = <<>>
  BY <1>1, <1>2
<1>4. CASE options.notifyEagerly
  BY <1>4 DEF NotifyErrors, Clean
<1>5. CASE ~options.notifyEagerly
  BY <1>1, <1>3, <1>5 DEF NotifyErrors, Clean
<1>. QED
  BY <1>4, <1>5

-----------------------------------------------------------------------------
(* One more event: what it leaves as it was, and what it adds.             *)
LEMMA HistoryGrows ==
  ASSUME history \in Seq(Events), NEW e \in Events, history' = Append(history, e)
  PROVE  /\ history' \in Seq(Events)
         /\ Now \in Nat /\ Now' = Now + 1
         /\ \A p \in 1..Now : history'[p] = history[p]
         /\ history'[Now + 1] = e
         /\ DOMAIN history = 1..Now /\ DOMAIN history' = 1..(Now + 1)
  BY AppendProperties, LenProperties DEF Now

LEMMA PrefixUntouched ==
  ASSUME history \in Seq(Events), NEW e \in Events, history' = Append(history, e),
         NEW p \in 1..(Now + 1)
  PROVE  /\ AbortedBefore(p)' <=> AbortedBefore(p)
         /\ EndedBefore(p)' <=> EndedBefore(p)
         /\ p <= Now => CallbacksUpTo(p)' = CallbacksUpTo(p)
<1>1. \A q \in 1..(p - 1) : q \in 1..Now /\ history'[q] = history[q]
  BY HistoryGrows
<1>2. AbortedBefore(p)' <=> AbortedBefore(p)
  BY <1>1 DEF AbortedBefore, IsRequest
<1>3. EndedBefore(p)' <=> EndedBefore(p)
  BY <1>1 DEF EndedBefore, IsCallback
<1>4. p <= Now => \A q \in 1..p : history'[q] = history[q]
  BY HistoryGrows
<1>5. p <= Now => CallbacksUpTo(p)' = CallbacksUpTo(p)
  BY <1>4 DEF CallbacksUpTo, IsCallback
<1>. QED
  BY <1>2, <1>3, <1>5

LEMMA TerminationGrows ==
  ASSUME history \in Seq(Events), NEW e \in Events, history' = Append(history, e)
  PROVE  /\ AbortedBefore(Now + 1)' <=>
              AbortedBefore(Now + 1) \/ (e.event = "request" /\ e.end # Running)
         /\ EndedBefore(Now + 1)' <=>
              EndedBefore(Now + 1) \/ (e.event = "callback" /\ e.end # Running)
<1>1. /\ Now \in Nat /\ Now' = Now + 1
      /\ \A q \in 1..Now : history'[q] = history[q]
      /\ history'[Now + 1] = e
  BY HistoryGrows
<1>2. /\ \A q : q \in 1..((Now' + 1) - 1) <=> q \in 1..Now \/ q = Now + 1
      /\ \A q : q \in 1..((Now + 1) - 1) <=> q \in 1..Now
  BY <1>1
<1>3. AbortedBefore(Now + 1)' <=>
        \E q : (q \in 1..Now \/ q = Now + 1)
               /\ history'[q].event = "request" /\ history'[q].end # Running
  BY <1>2, Zenon DEF AbortedBefore, IsRequest
<1>4. AbortedBefore(Now + 1) <=>
        \E q : q \in 1..Now /\ history[q].event = "request" /\ history[q].end # Running
  BY <1>2, Zenon DEF AbortedBefore, IsRequest
<1>5. EndedBefore(Now + 1)' <=>
        \E q : (q \in 1..Now \/ q = Now + 1)
               /\ history'[q].event = "callback" /\ history'[q].end # Running
  BY <1>2, Zenon DEF EndedBefore, IsCallback
<1>6. EndedBefore(Now + 1) <=>
        \E q : q \in 1..Now /\ history[q].event = "callback" /\ history[q].end # Running
  BY <1>2, Zenon DEF EndedBefore, IsCallback
<1>7. AbortedBefore(Now + 1)' <=>
        AbortedBefore(Now + 1) \/ (e.event = "request" /\ e.end # Running)
  BY <1>1, <1>3, <1>4
<1>8. EndedBefore(Now + 1)' <=>
        EndedBefore(Now + 1) \/ (e.event = "callback" /\ e.end # Running)
  BY <1>1, <1>5, <1>6
<1>. QED
  BY <1>7, <1>8

LEMMA CallbacksGrow ==
  ASSUME history \in Seq(Events), NEW e \in Events, history' = Append(history, e)
  PROVE  /\ Cardinality(CallbacksUpTo(Now)) \in Nat
         /\ CallbacksUpTo(Now)' = IF e.event = "callback"
                                  THEN CallbacksUpTo(Now) \cup {Now + 1}
                                  ELSE CallbacksUpTo(Now)
         /\ Cardinality(CallbacksUpTo(Now))' =
              IF e.event = "callback" THEN Cardinality(CallbacksUpTo(Now)) + 1
              ELSE Cardinality(CallbacksUpTo(Now))
<1>1. /\ Now \in Nat /\ Now' = Now + 1
      /\ \A q \in 1..Now : history'[q] = history[q]
      /\ history'[Now + 1] = e
  BY HistoryGrows
<1>2. CallbacksUpTo(Now) \subseteq 1..Now
  BY DEF CallbacksUpTo
<1>3. IsFiniteSet(CallbacksUpTo(Now)) /\ Cardinality(CallbacksUpTo(Now)) \in Nat
  <2>1. IsFiniteSet(1..Now)
    BY <1>1, FS_Interval
  <2>. QED
    BY <1>2, <2>1, FS_Subset, FS_CardinalityType
<1>4. 1..Now' = 1..Now \cup {Now + 1} /\ Now + 1 \notin 1..Now
  BY <1>1
<1>5. CallbacksUpTo(Now)' = IF e.event = "callback"
                            THEN CallbacksUpTo(Now) \cup {Now + 1}
                            ELSE CallbacksUpTo(Now)
  <2>1. CallbacksUpTo(Now)' = {q \in 1..Now' : history'[q].event = "callback"}
    BY DEF CallbacksUpTo, IsCallback
  <2>2. CallbacksUpTo(Now) = {q \in 1..Now : history[q].event = "callback"}
    BY DEF CallbacksUpTo, IsCallback
  <2>. HIDE DEF Now
  <2>. QED
    BY <1>1, <1>4, <2>1, <2>2
<1>6. Now + 1 \notin CallbacksUpTo(Now)
  BY <1>2, <1>4
<1>7. /\ IsFiniteSet(CallbacksUpTo(Now) \cup {Now + 1})
      /\ Cardinality(CallbacksUpTo(Now) \cup {Now + 1}) = Cardinality(CallbacksUpTo(Now)) + 1
  BY <1>3, <1>6, FS_AddElement
<1>. QED
  BY <1>3, <1>5, <1>7

LEMMA AskedGrow ==
  ASSUME history \in Seq(Events), NEW e \in Events, history' = Append(history, e)
  PROVE  /\ Cardinality(AskedEvents) \in Nat /\ Cardinality(PullEvents) \in Nat
         /\ Cardinality(AskedEvents)' =
              IF e.event = "request" THEN Cardinality(AskedEvents) + 1
              ELSE Cardinality(AskedEvents)
         /\ Cardinality(PullEvents)' =
              IF e.event = "request" /\ e.end = Running THEN Cardinality(PullEvents) + 1
              ELSE Cardinality(PullEvents)
<1>1. /\ Now \in Nat
      /\ \A q \in 1..Now : history'[q] = history[q]
      /\ history'[Now + 1] = e
      /\ DOMAIN history = 1..Now /\ DOMAIN history' = 1..(Now + 1)
  BY HistoryGrows
<1>2. 1..(Now + 1) = 1..Now \cup {Now + 1} /\ Now + 1 \notin 1..Now
  BY <1>1
<1>. HIDE DEF Now
<1>3. AskedEvents = {q \in 1..Now : history[q].event = "request"}
      /\ PullEvents = {q \in 1..Now : history[q].event = "request" /\ history[q].end = Running}
  BY <1>1 DEF AskedEvents, PullEvents, IsRequest
<1>4. AskedEvents' = {q \in 1..(Now + 1) : history'[q].event = "request"}
      /\ PullEvents' = {q \in 1..(Now + 1) :
                            history'[q].event = "request" /\ history'[q].end = Running}
  BY <1>1 DEF AskedEvents, PullEvents, IsRequest
<1>5. AskedEvents' = IF e.event = "request" THEN AskedEvents \cup {Now + 1} ELSE AskedEvents
  BY <1>1, <1>2, <1>3, <1>4
<1>6. PullEvents' = IF e.event = "request" /\ e.end = Running
                    THEN PullEvents \cup {Now + 1} ELSE PullEvents
  BY <1>1, <1>2, <1>3, <1>4
<1>7. /\ IsFiniteSet(AskedEvents) /\ Cardinality(AskedEvents) \in Nat
      /\ IsFiniteSet(PullEvents) /\ Cardinality(PullEvents) \in Nat
  <2>1. IsFiniteSet(1..Now)
    BY <1>1, FS_Interval
  <2>2. AskedEvents \subseteq 1..Now /\ PullEvents \subseteq 1..Now
    BY <1>3
  <2>. QED
    BY <2>1, <2>2, FS_Subset, FS_CardinalityType
<1>8. Now + 1 \notin AskedEvents /\ Now + 1 \notin PullEvents
  BY <1>2, <1>3
<1>9. /\ Cardinality(AskedEvents \cup {Now + 1}) = Cardinality(AskedEvents) + 1
      /\ Cardinality(PullEvents \cup {Now + 1}) = Cardinality(PullEvents) + 1
  BY <1>7, <1>8, FS_AddElement
<1>. QED
  BY <1>5, <1>6, <1>7, <1>9

(* The callbacks remain those of requests 1 to latest.                     *)
LEMMA CallbackKeepsAnswers ==
  ASSUME history \in Seq(Events), NEW e \in Events, history' = Append(history, e),
         AnswersInv, e.event = "callback", latest \in Nat,
         e.n = latest + 1, latest' = latest + 1,
         delivered \in Seq(EndOrError), NEW d \in EndOrError,
         delivered' = Append(delivered, d)
  PROVE  AnswersInv'
<1>1. /\ Now \in Nat
      /\ \A q \in 1..Now : history'[q] = history[q]
      /\ history'[Now + 1] = e
      /\ DOMAIN history = 1..Now /\ DOMAIN history' = 1..(Now + 1)
  BY HistoryGrows
<1>2. Len(delivered') = latest'
  BY AppendProperties DEF AnswersInv
<1>3. ASSUME NEW k \in 1..latest'
      PROVE  \E p \in DOMAIN history' : history'[p].event = "callback" /\ history'[p].n = k
  <2>1. CASE k = latest + 1
    <3>1. Now + 1 \in DOMAIN history'
      BY <1>1
    <3>2. history'[Now + 1].event = "callback" /\ history'[Now + 1].n = k
      BY <1>1, <2>1
    <3>. QED
      BY <3>1, <3>2
  <2>2. CASE k \in 1..latest
    BY <1>1, <2>2 DEF AnswersInv, IsCallback
  <2>. QED
    BY <2>1, <2>2
<1>4. \A p \in DOMAIN history' : history'[p].event = "callback" => history'[p].n <= latest'
  <2>1. ASSUME NEW p \in 1..Now, history[p].event = "callback"
        PROVE  history[p].n <= latest + 1
    <3>1. history[p] \in Events
      BY <1>1, ElementOfSeq DEF Now
    <3>2. history[p].n \in Nat
      BY <3>1 DEF Events
    <3>3. history[p].n <= latest
      BY <1>1, <2>1 DEF AnswersInv, IsCallback
    <3>. QED
      BY <3>2, <3>3
  <2>. QED
    BY <1>1, <2>1
<1>. QED
  BY <1>2, <1>3, <1>4 DEF AnswersInv, IsCallback

LEMMA OthersKeepAnswers ==
  ASSUME history \in Seq(Events), NEW e \in Events, history' = Append(history, e),
         AnswersInv, e.event # "callback", UNCHANGED <<latest, delivered>>
  PROVE  AnswersInv'
<1>1. /\ Now \in Nat
      /\ \A q \in 1..Now : history'[q] = history[q]
      /\ history'[Now + 1] = e
      /\ DOMAIN history = 1..Now /\ DOMAIN history' = 1..(Now + 1)
  BY HistoryGrows
<1>2. ASSUME NEW k \in 1..latest
      PROVE  \E p \in DOMAIN history' : history'[p].event = "callback" /\ history'[p].n = k
  BY <1>1 DEF AnswersInv, IsCallback
<1>3. \A p \in DOMAIN history' : history'[p].event = "callback" => history'[p].n <= latest
  BY <1>1 DEF AnswersInv, IsCallback
<1>. QED
  BY <1>2, <1>3 DEF AnswersInv, IsCallback

LEMMA EventKeepsNoops ==
  ASSUME history \in Seq(Events), NEW e \in Events, history' = Append(history, e),
         NoopInv, DOMAIN skipped \subseteq DOMAIN skipped',
         e.event = "noop" => e.n \in DOMAIN skipped'
  PROVE  NoopInv'
  BY HistoryGrows DEF NoopInv

(* A history that conforms goes on conforming if its new event does.       *)
LEMMA ConformsGrows ==
  ASSUME history \in Seq(Events), NEW e \in Events, history' = Append(history, e),
         options' = options, Conforms, ObeysInvariant(Now)'
  PROVE  Conforms'
<1>1. /\ Now \in Nat /\ Now' = Now + 1
      /\ \A q \in 1..Now : history'[q] = history[q]
      /\ DOMAIN history = 1..Now /\ DOMAIN history' = 1..(Now + 1)
  BY HistoryGrows
<1>2. ASSUME NEW p \in 1..Now
      PROVE  ObeysInvariant(p)'
  <2>1. ObeysInvariant(p)
    BY <1>1 DEF Conforms
  <2>2. /\ AbortedBefore(p)' <=> AbortedBefore(p)
        /\ EndedBefore(p)' <=> EndedBefore(p)
        /\ CallbacksUpTo(p)' = CallbacksUpTo(p)
    BY <1>1, PrefixUntouched
  <2>. QED
    BY <1>1, <2>1, <2>2 DEF ObeysInvariant, IsRequest, IsCallback
<1>3. ASSUME NEW p, p = Now + 1
      PROVE  ObeysInvariant(p)'
  <2>1. p = Now'
    BY <1>1, <1>3
  <2>. QED
    BY <2>1 DEF ObeysInvariant, IsRequest, IsCallback, AbortedBefore, EndedBefore,
                CallbacksUpTo
<1>. QED
  BY <1>1, <1>2, <1>3 DEF Conforms

(* What the checker's conditions on a new event say of the whole history:  *)
(* while aborted, done and latest stand for it, they are the protocol's.   *)
LEMMA NewEvent ==
  ASSUME history \in Seq(Events), NEW e \in Events, history' = Append(history, e),
         options' = options, HistoryInv
  PROVE  ObeysInvariant(Now)' <=>
           /\ e.event = "request" /\ e.end = Running => aborted = Running /\ done = Running
           /\ e.event = "request" /\ options.forbidExtraRequests
                => aborted = Running /\ done = Running
           /\ e.event = "callback" /\ e.end = Running => aborted = Running /\ done = Running
           /\ e.event = "callback" => e.n = latest + 1
<1>1. Now \in Nat /\ Now' = Now + 1 /\ history'[Now + 1] = e
  BY HistoryGrows
<1>2. /\ aborted # Running <=> AbortedBefore(Now + 1)
      /\ done # Running <=> EndedBefore(Now + 1)
  BY DEF HistoryInv
<1>3. ASSUME NEW p, p = Now + 1
      PROVE  /\ AbortedBefore(p)' <=> aborted # Running
             /\ EndedBefore(p)' <=> done # Running
  <2>1. p \in 1..(Now + 1)
    BY <1>1, <1>3
  <2>2. /\ AbortedBefore(p)' <=> AbortedBefore(p)
        /\ EndedBefore(p)' <=> EndedBefore(p)
    BY <2>1, PrefixUntouched
  <2>. QED
    BY <1>2, <1>3, <2>2
<1>4. /\ AbortedBefore(Now)' <=> aborted # Running
      /\ EndedBefore(Now)' <=> done # Running
  BY <1>1, <1>3 DEF AbortedBefore, EndedBefore, IsRequest, IsCallback
<1>5. e.event = "callback" => Cardinality(CallbacksUpTo(Now))' = latest + 1
  BY CallbacksGrow DEF HistoryInv
<1>. HIDE DEF Now
<1>6. history'[Now'] = e
  BY <1>1
<1>. QED
  BY <1>4, <1>5, <1>6 DEF ObeysInvariant, IsRequest, IsCallback

LEMMA NewEventObeys ==
  ASSUME history \in Seq(Events), NEW e \in Events, history' = Append(history, e),
         options' = options, HistoryInv,
         e.event = "request" /\ e.end = Running => aborted = Running /\ done = Running,
         e.event = "request" /\ options.forbidExtraRequests
            => aborted = Running /\ done = Running,
         e.event = "callback" /\ e.end = Running => aborted = Running /\ done = Running,
         e.event = "callback" => e.n = latest + 1
  PROVE  ObeysInvariant(Now)'
  BY NewEvent

(* HistoryInv is kept by one more request, callback or noop.               *)
LEMMA RequestKeepsHistory ==
  ASSUME history \in Seq(Events), HistoryInv,
         NEW e \in Events, e.event = "request", history' = Append(history, e),
         e.end = Running => aborted = Running /\ done = Running,
         options.forbidExtraRequests => aborted = Running /\ done = Running,
         aborted' = FirstAbort(e.end),
         UNCHANGED <<options, latest, done>>
  PROVE  HistoryInv'
<1>1. Conforms'
  BY NewEventObeys, ConformsGrows DEF HistoryInv
<1>2. Cardinality(CallbacksUpTo(Now))' = latest'
  BY CallbacksGrow DEF HistoryInv
<1>3. aborted' # Running <=> aborted # Running \/ e.end # Running
  BY DEF FirstAbort
<1>4. /\ AbortedBefore(Now + 1)' <=> aborted' # Running
      /\ EndedBefore(Now + 1)' <=> done' # Running
  BY <1>3, TerminationGrows DEF HistoryInv
<1>. QED
  BY <1>1, <1>2, <1>4 DEF HistoryInv

LEMMA CallbackKeepsHistory ==
  ASSUME history \in Seq(Events), HistoryInv,
         NEW e \in Events, e.event = "callback", history' = Append(history, e),
         e.end = Running => aborted = Running /\ done = Running,
         e.n = latest + 1, latest' = latest + 1,
         done' = CallbackDone(e.end),
         UNCHANGED <<options, aborted>>
  PROVE  HistoryInv'
<1>1. Conforms'
  BY NewEventObeys, ConformsGrows DEF HistoryInv
<1>2. Cardinality(CallbacksUpTo(Now))' = latest'
  BY CallbacksGrow DEF HistoryInv
<1>3. done' # Running <=> done # Running \/ e.end # Running
  BY DEF CallbackDone
<1>4. /\ AbortedBefore(Now + 1)' <=> aborted' # Running
      /\ EndedBefore(Now + 1)' <=> done' # Running
  BY <1>3, TerminationGrows DEF HistoryInv
<1>. QED
  BY <1>1, <1>2, <1>4 DEF HistoryInv

LEMMA NoopKeepsHistory ==
  ASSUME history \in Seq(Events), HistoryInv,
         NEW e \in Events, e.event = "noop", history' = Append(history, e),
         UNCHANGED <<options, latest, aborted, done>>
  PROVE  HistoryInv'
<1>1. Conforms'
  BY NewEventObeys, ConformsGrows DEF HistoryInv
<1>2. Cardinality(CallbacksUpTo(Now))' = latest'
  BY CallbacksGrow DEF HistoryInv
<1>3. /\ AbortedBefore(Now + 1)' <=> aborted' # Running
      /\ EndedBefore(Now + 1)' <=> done' # Running
  BY TerminationGrows DEF HistoryInv
<1>. QED
  BY <1>1, <1>2, <1>3 DEF HistoryInv

-----------------------------------------------------------------------------
(* Terminate's reports: the requests after latest, in ascending order, and *)
(* at most one more.                                                       *)
LEMMA AscendingInterval ==
  ASSUME NEW a \in Nat, NEW b \in Nat, a <= b
  PROVE  Ascending((a + 1)..b) = [n \in 1..(b - a) |-> a + n]
<1>. DEFINE S == (a + 1)..b
<1>1. Cardinality(S) = b - a
  <2>1. a + 1 \in Int /\ b \in Int /\ (a + 1 > b <=> a = b) /\ b - (a + 1) + 1 = b - a
    OBVIOUS
  <2>2. Cardinality(S) = IF a + 1 > b THEN 0 ELSE b - (a + 1) + 1
    BY <2>1, FS_Interval
  <2>. QED
    BY <2>1, <2>2
<1>2. ASSUME NEW k \in S
      PROVE  Cardinality({j \in S : j < k}) = (k - a) - 1
  <2>1. {j \in S : j < k} = (a + 1)..(k - 1)
    OBVIOUS
  <2>2. a + 1 \in Int /\ k - 1 \in Int /\ a + 1 <= (k - 1) + 1
    OBVIOUS
  <2>3. Cardinality((a + 1)..(k - 1)) = (k - a) - 1
    BY <2>2, FS_Interval
  <2>. QED
    BY <2>1, <2>3
<1>3. ASSUME NEW n \in 1..(b - a)
      PROVE  (CHOOSE k \in S : Cardinality({j \in S : j < k}) = n - 1) = a + n
  <2>. DEFINE nth(k) == Cardinality({j \in S : j < k}) = n - 1
  <2>1. a + n \in S
    OBVIOUS
  <2>. HIDE DEF S
  <2>2. nth(a + n) /\ \A k \in S : nth(k) => k = a + n
    <3>1. \A k \in S : k \in Int
      BY DEF S
    <3>. QED
      BY <1>2, <2>1, <3>1
  <2>. HIDE DEF nth
  <2>3. (CHOOSE k \in S : nth(k)) = a + n
    BY <2>1, <2>2
  <2>. QED
    BY <2>3 DEF nth
<1>. QED
  BY <1>1, <1>3 DEF Ascending

LEMMA UnansweredAreTheRest ==
  ASSUME TypeInv
  PROVE  UnansweredRequests = [n \in 1..(i - 1 - latest) |-> latest + n]
<1>1. i - 1 \in Nat /\ latest \in Nat /\ latest <= i - 1
  BY DEF TypeInv
<1>2. {k \in Requests : k > latest /\ (k \notin DOMAIN skipped \/ skipped[k])}
        = (latest + 1)..(i - 1)
  <2>1. \A k \in DOMAIN skipped : skipped[k]
    BY DEF TypeInv
  <2>. QED
    BY <1>1, <2>1 DEF Requests
<1>. QED
  BY <1>1, <1>2, AscendingInterval DEF UnansweredRequests

LEMMA TerminateReports ==
  ASSUME TypeInv
  PROVE  /\ TerminateViolations \in Seq(Reports)
         /\ TerminateViolations = <<>> <=>
              /\ latest = i - 1
              /\ ~(options.enforceStreamTermination /\ done = Running /\ aborted = Running)
<1>. DEFINE A == [n \in DOMAIN UnansweredRequests |-> Report(2, UnansweredRequests[n])]
            open == options.enforceStreamTermination /\ done = Running /\ aborted = Running
            B == When(open, Report(7, 0))
<1>1. i - 1 - latest \in Nat /\ latest \in Nat /\ i \in Nat
  BY DEF TypeInv
<1>2. A = [n \in 1..(i - 1 - latest) |-> Report(2, latest + n)]
  BY UnansweredAreTheRest
<1>3. A \in Seq(Reports) /\ Len(A) = i - 1 - latest
  <2>1. \A n \in 1..(i - 1 - latest) : Report(2, latest + n) \in Reports
    BY <1>1, ReportType
  <2>. QED
    BY <1>1, <1>2, <2>1
<1>4. B \in Seq(Reports) /\ (B = <<>> <=> ~open)
  <2>1. Report(7, 0) \in Reports
    BY ReportType
  <2>. QED
    BY <2>1 DEF When
<1>5. TerminateViolations = A \o B
  BY DEF TerminateViolations
<1>. HIDE DEF A, B, open
<1>6. A \o B \in Seq(Reports) /\ Len(A \o B) = Len(A) + Len(B)
  BY <1>3, <1>4, ConcatProperties
<1>7. /\ Len(A) \in Nat
      /\ Len(B) \in Nat /\ (Len(B) = 0 <=> B = <<>>)
      /\ (Len(A \o B) = 0 <=> A \o B = <<>>)
  BY <1>3, <1>4, <1>6, EmptySeq, LenProperties
<1>8. A \o B = <<>> <=> latest = i - 1 /\ B = <<>>
  BY <1>1, <1>3, <1>6, <1>7
<1>. QED
  BY <1>4, <1>5, <1>6, <1>8 DEF open

-----------------------------------------------------------------------------
LEMMA InitIInv == Init => IInv
<1>. SUFFICES ASSUME Init PROVE IInv
  OBVIOUS
<1>. USE DEF Init
<1>1. <<>> \in Seq(Events) /\ <<>> \in Seq(Reports) /\ <<>> \in Seq(Nat)
      /\ <<>> \in Seq(EndOrError) /\ Len(<<>>) = 0 /\ DOMAIN <<>> = {}
  OBVIOUS
<1>2. TypeInv
  <2>1. skipped \in [DOMAIN skipped -> {TRUE}]
    OBVIOUS
  <2>2. /\ DOMAIN skipped \subseteq Requests /\ Len(counter) = i - 1
        /\ i \in Nat /\ i > 0 /\ latest \in 0..(i - 1)
    BY <1>1
  <2>3. /\ aborted \in EndOrError /\ done \in EndOrError
        /\ thrown \in BOOLEAN /\ terminated \in BOOLEAN
    BY DEF EndOrError
  <2>. QED
    BY <1>1, <2>1, <2>2, <2>3, Zenon DEF TypeInv, Options, EndOrError, Requests
<1>3. StickInv
  BY <1>1 DEF StickInv, FirstEndSticks
<1>4. CountersInv
  BY <1>1 DEF CountersInv, Requests
<1>5. HistoryInv
  <2>1. Now = 0
    BY <1>1 DEF Now
  <2>2. CallbacksUpTo(Now) = {}
    BY <2>1 DEF CallbacksUpTo
  <2>3. ~AbortedBefore(Now + 1) /\ ~EndedBefore(Now + 1)
    BY <2>1 DEF AbortedBefore, EndedBefore
  <2>4. Conforms
    BY <1>1 DEF Conforms
  <2>. QED
    BY <2>2, <2>3, <2>4, FS_EmptySet DEF HistoryInv
<1>6. NoopInv /\ AnswersInv
  BY <1>1 DEF NoopInv, AnswersInv
<1>7. AskedInv
  <2>1. AskedEvents = {}
    BY <1>1 DEF AskedEvents
  <2>. QED
    BY <2>1, FS_EmptySet DEF AskedInv
<1>. QED
  BY <1>2, <1>3, <1>4, <1>5, <1>6, <1>7 DEF IInv, CleanInv

(* A handler left by an eager report: nothing but the log, the exception   *)
(* and at most a counter has changed, and the checker is not clean.        *)
LEMMA ThrowsIsNotClean ==
  ASSUME NEW found, ~Completes(found), NotifyErrors(found)
  PROVE  errors' = errors /\ ~Clean'
<1>1. options.notifyEagerly /\ found # <<>>
  BY DEF Completes
<1>2. errors' = errors /\ thrown' = TRUE
  BY <1>1, Zenon DEF NotifyErrors
<1>. QED
  BY <1>2 DEF Clean

LEMMA RequestThrowsStep ==
  ASSUME IInv, NEW abort \in EndOrError, RequestThrows(abort)
  PROVE  IInv'
<1>1. errors' = errors /\ ~Clean'
  BY ThrowsIsNotClean DEF RequestThrows
<1>2. UNCHANGED <<options, i, skipped, aborted, latest, counter, done, delivered, terminated>>
  BY DEF RequestThrows, stream, answers
<1>3. history' \in Seq(Events) /\ NoopInv'
  <2>. DEFINE e == [event |-> "request", n |-> i, end |-> abort]
  <2>1. e \in Events /\ e.event = "request" /\ history' = Append(history, e)
    BY DEF Events, IInv, TypeInv, RequestThrows, Log
  <2>. HIDE DEF e
  <2>. QED
    BY <1>2, <2>1, HistoryGrows, EventKeepsNoops DEF IInv, TypeInv
<1>4. TypeInv'
  <2>1. thrown' \in BOOLEAN
    BY DEF RequestThrows, NotifyErrors
  <2>. QED
  BY <1>1, <1>2, <1>3, <2>1 DEF IInv, TypeInv, Requests, Options, EndOrError, Reports
<1>5. StickInv'
  BY <1>2 DEF IInv, StickInv, FirstEndSticks
<1>. QED
  BY <1>1, <1>3, <1>4, <1>5 DEF IInv, CleanInv

LEMMA RequestForwardedStep ==
  ASSUME IInv, NEW abort \in EndOrError, NEW null \in BOOLEAN,
         RequestForwarded(abort, null)
  PROVE  IInv'
<1>. DEFINE e == [event |-> "request", n |-> i, end |-> abort]
<1>0. /\ UNCHANGED <<options, latest, done, delivered, terminated>>
      /\ NotifyErrors(RequestViolations(abort))
      /\ aborted' = FirstAbort(abort)
      /\ i' = i + 1
      /\ skipped' = IF null THEN [k \in DOMAIN skipped \cup {i} |-> TRUE] ELSE skipped
      /\ counter' = Append(counter, 0)
      /\ history' = Append(history, e)
  BY DEF RequestForwarded, Log
<1>1. e \in Events /\ e.event = "request" /\ e.end = abort
  BY DEF Events, IInv, TypeInv
<1>2. RequestViolations(abort) \in Seq(Reports)
  BY RequestReports
<1>3. /\ errors' \in Seq(Reports)
      /\ Clean' => Clean /\ RequestViolations(abort) = <<>>
  BY <1>0, <1>2, StaysClean DEF IInv, TypeInv
<1>4. /\ counter' \in Seq(Nat) /\ Len(counter') = i
      /\ \A k \in 1..(i - 1) : counter'[k] = counter[k]
      /\ counter'[i] = 0
  BY <1>0, AppendProperties DEF IInv, TypeInv
<1>5. /\ DOMAIN skipped' \subseteq DOMAIN skipped \cup {i}
      /\ DOMAIN skipped \subseteq DOMAIN skipped'
      /\ skipped' \in [DOMAIN skipped' -> {TRUE}]
  BY <1>0 DEF IInv, TypeInv
<1>6. Requests = 1..(i - 1) /\ Requests' = 1..i /\ i \in Nat /\ latest \in 0..(i - 1)
  BY <1>0 DEF Requests, IInv, TypeInv
<1>7. TypeInv'
  <2>1. i' \in Nat /\ i' > 0 /\ latest' \in 0..(i' - 1) /\ Len(counter') = i' - 1
    BY <1>0, <1>4, <1>6
  <2>2. DOMAIN skipped' \subseteq Requests'
    BY <1>5, <1>6 DEF IInv, TypeInv
  <2>3. aborted' \in EndOrError'
    BY <1>0 DEF FirstAbort, EndOrError, IInv, TypeInv
  <2>4. history' \in Seq(Events)
    BY <1>0, <1>1, HistoryGrows DEF IInv, TypeInv
  <2>5. thrown' \in BOOLEAN
    BY <1>0 DEF NotifyErrors
  <2>. QED
    BY <1>0, <1>3, <1>4, <1>5, <2>1, <2>2, <2>3, <2>4, <2>5
       DEF IInv, TypeInv, Options, EndOrError, Events, Reports
<1>8. StickInv'
  BY <1>0 DEF IInv, StickInv, FirstEndSticks
<1>9. ASSUME Clean'
      PROVE  CountersInv' /\ HistoryInv' /\ AnswersInv' /\ AskedInv'
  <2>1. /\ RequestViolations(abort) = <<>>
        /\ CountersInv /\ HistoryInv /\ AnswersInv /\ AskedInv
    BY <1>0, <1>3, <1>9 DEF IInv, CleanInv
  <2>2. CountersInv'
    <3>1. \A k \in 1..i : counter'[k] = IF k <= latest THEN 1 ELSE 0
      BY <1>4, <1>6, <2>1 DEF CountersInv
    <3>2. \A k \in DOMAIN skipped' : k > latest
      BY <1>5, <1>6, <2>1 DEF CountersInv
    <3>. QED
      BY <1>0, <1>6, <3>1, <3>2 DEF CountersInv
  <2>3. /\ abort = Running => aborted = Running /\ done = Running
        /\ options.forbidExtraRequests => aborted = Running /\ done = Running
    BY <2>1, RequestReports
  <2>4. HistoryInv'
    BY <1>0, <1>1, <2>1, <2>3, RequestKeepsHistory DEF IInv, TypeInv
  <2>5. AnswersInv'
    BY <1>0, <1>1, <2>1, OthersKeepAnswers DEF IInv, TypeInv
  <2>6. AskedInv'
    <3>1. Cardinality(AskedEvents)' = Cardinality(AskedEvents) + 1
      BY <1>0, <1>1, AskedGrow DEF IInv, TypeInv
    <3>2. Cardinality(AskedEvents)' = i' - 1
      BY <1>0, <1>6, <2>1, <3>1 DEF AskedInv
    <3>. QED
      BY <3>2 DEF AskedInv
  <2>. QED
    BY <2>2, <2>4, <2>5, <2>6
<1>10. NoopInv'
  BY <1>0, <1>1, <1>5, EventKeepsNoops DEF IInv, TypeInv
<1>. QED
  BY <1>7, <1>8, <1>9, <1>10 DEF IInv, CleanInv

LEMMA CallbackThrowsStep ==
  ASSUME IInv, NEW k \in Requests, NEW d \in EndOrError, CallbackThrows(k, d)
  PROVE  IInv'
<1>1. errors' = errors /\ ~Clean'
  BY ThrowsIsNotClean DEF CallbackThrows
<1>2. UNCHANGED <<options, i, skipped, aborted, latest, done, delivered, terminated>>
  BY DEF CallbackThrows, stream
<1>3. counter' \in Seq(Nat) /\ Len(counter') = Len(counter)
  <2>1. \/ counter' = counter
        \/ counter' = [counter EXCEPT ![k] = @ + 1]
    BY DEF CallbackThrows
  <2>2. counter \in Seq(Nat) /\ k \in 1..Len(counter)
    BY DEF IInv, TypeInv, Requests
  <2>. QED
    BY <2>1, <2>2
<1>4. history' \in Seq(Events) /\ NoopInv'
  <2>. DEFINE e == [event |-> "callback", n |-> k, end |-> d]
  <2>1. e \in Events /\ e.event = "callback" /\ history' = Append(history, e)
    BY DEF Events, Requests, IInv, TypeInv, CallbackThrows, Log
  <2>. HIDE DEF e
  <2>. QED
    BY <1>2, <2>1, HistoryGrows, EventKeepsNoops DEF IInv, TypeInv
<1>5. TypeInv'
  <2>1. thrown' \in BOOLEAN
    BY DEF CallbackThrows, NotifyErrors
  <2>. QED
  BY <1>1, <1>2, <1>3, <1>4, <2>1 DEF IInv, TypeInv, Requests, Options, EndOrError, Reports
<1>6. StickInv'
  BY <1>2 DEF IInv, StickInv, FirstEndSticks
<1>. QED
  BY <1>1, <1>4, <1>5, <1>6 DEF IInv, CleanInv

LEMMA CallbackCompletesStep ==
  ASSUME IInv, NEW k \in Requests \ DOMAIN skipped, NEW d \in EndOrError,
         CallbackCompletes(k, d)
  PROVE  IInv'
<1>. DEFINE e == [event |-> "callback", n |-> k, end |-> d]
<1>0. /\ UNCHANGED <<options, i, skipped, aborted, terminated>>
      /\ NotifyErrors(CallbackViolations(k, d))
      /\ counter' = [counter EXCEPT ![k] = @ + 1]
      /\ latest' = IF k \in {latest, latest + 1} THEN k ELSE latest
      /\ done' = CallbackDone(d)
      /\ delivered' = Append(delivered, CallbackDone(d))
      /\ history' = Append(history, e)
  BY DEF CallbackCompletes, Log, stream
<1>1. /\ k \in 1..(i - 1) /\ k \in Nat /\ k \notin DOMAIN skipped
      /\ i \in Nat /\ latest \in 0..(i - 1) /\ Requests = 1..(i - 1)
      /\ counter \in Seq(Nat) /\ Len(counter) = i - 1
  BY DEF Requests, IInv, TypeInv
<1>2. e \in Events /\ e.event = "callback" /\ e.end = d /\ e.n = k
  BY <1>1 DEF Events
<1>3. CallbackViolations(k, d) \in Seq(Reports)
  BY <1>1, CallbackReports
<1>4. /\ errors' \in Seq(Reports)
      /\ Clean' => Clean /\ CallbackViolations(k, d) = <<>>
  BY <1>0, <1>3, StaysClean DEF IInv, TypeInv
<1>5. CallbackDone(d) \in EndOrError
  BY DEF CallbackDone, IInv, TypeInv
<1>6. TypeInv'
  <2>1. latest' \in 0..(i' - 1)
    BY <1>0, <1>1
  <2>2. counter' \in Seq(Nat) /\ Len(counter') = i' - 1
    BY <1>0, <1>1
  <2>3. delivered' \in Seq(EndOrError)
    BY <1>0, <1>5, AppendProperties DEF IInv, TypeInv
  <2>4. history' \in Seq(Events)
    BY <1>0, <1>2, HistoryGrows DEF IInv, TypeInv
  <2>5. thrown' \in BOOLEAN
    BY <1>0 DEF NotifyErrors
  <2>. QED
    BY <1>0, <1>4, <1>5, <2>1, <2>2, <2>3, <2>4, <2>5
       DEF IInv, TypeInv, Options, EndOrError, Events, Reports, Requests
<1>7. StickInv'
  <2>1. /\ DOMAIN delivered' = 1..(Len(delivered) + 1) /\ Len(delivered) \in Nat
        /\ DOMAIN delivered = 1..Len(delivered)
        /\ \A p \in 1..Len(delivered) : delivered'[p] = delivered[p]
        /\ delivered'[Len(delivered) + 1] = done'
    BY <1>0, <1>5, AppendProperties, LenProperties DEF IInv, TypeInv
  <2>2. done # Running => done' = done
    BY <1>0 DEF CallbackDone
  <2>3. \A p \in 1..Len(delivered) : delivered[p] # Running => delivered[p] = done
    BY <2>1 DEF IInv, StickInv
  <2>4. \A p \in DOMAIN delivered' : delivered'[p] # Running => delivered'[p] = done'
    BY <2>1, <2>2, <2>3
  <2>5. ASSUME NEW p \in DOMAIN delivered', NEW q \in DOMAIN delivered',
               p < q, delivered'[p] # Running
        PROVE  delivered'[q] = delivered'[p]
    <3>1. p \in 1..Len(delivered) /\ delivered'[p] = delivered[p] /\ delivered[p] = done
      BY <2>1, <2>3, <2>5
    <3>2. delivered'[p] = done'
      BY <2>4, <2>5
    <3>3. CASE q = Len(delivered) + 1
      BY <2>1, <3>2, <3>3
    <3>4. CASE q \in 1..Len(delivered)
      <4>1. delivered[q] = delivered[p]
        BY <2>1, <2>5, <3>1, <3>4 DEF IInv, StickInv, FirstEndSticks
      <4>. QED
        BY <2>1, <3>1, <3>4, <4>1
    <3>. QED
      BY <2>1, <2>5, <3>3, <3>4
  <2>6. done' # Running => \E p \in DOMAIN delivered' : delivered'[p] # Running
    BY <2>1
  <2>. QED
    BY <2>4, <2>5, <2>6 DEF StickInv, FirstEndSticks
<1>8. ASSUME Clean'
      PROVE  CountersInv' /\ HistoryInv' /\ AnswersInv' /\ AskedInv'
  <2>1. /\ CallbackViolations(k, d) = <<>>
        /\ CountersInv /\ HistoryInv /\ AnswersInv /\ AskedInv
    BY <1>0, <1>4, <1>8 DEF IInv, CleanInv
  <2>2. /\ d = Running => aborted = Running /\ done = Running
        /\ ~(counter[k] > 0) /\ ~(k < latest) /\ ~(k > latest + 1)
    BY <1>1, <2>1, CallbackReports
  <2>3. counter[k] = IF k <= latest THEN 1 ELSE 0
    BY <1>1, <2>1 DEF CountersInv
  <2>4. k = latest + 1 /\ latest' = k
    BY <1>0, <1>1, <2>2, <2>3
  <2>5. CountersInv'
    <3>1. \A n \in 1..(i - 1) : counter'[n] = IF n <= latest' THEN 1 ELSE 0
      BY <1>0, <1>1, <2>1, <2>4 DEF CountersInv
    <3>2. \A n \in DOMAIN skipped : n \in Nat /\ n > latest /\ n # k
      BY <1>1, <2>1 DEF CountersInv, IInv, TypeInv
    <3>3. \A n \in DOMAIN skipped' : n > latest'
      BY <1>0, <1>1, <2>4, <3>2
    <3>. QED
      BY <1>0, <1>1, <3>1, <3>3 DEF CountersInv, Requests
  <2>6. HistoryInv'
    BY <1>0, <1>2, <2>1, <2>2, <2>4, CallbackKeepsHistory DEF IInv, TypeInv
  <2>7. AnswersInv'
    <3>1. /\ history \in Seq(Events) /\ delivered \in Seq(EndOrError)
          /\ latest \in Nat /\ e.n = latest + 1 /\ latest' = latest + 1
      BY <1>1, <1>2, <2>4 DEF IInv, TypeInv
    <3>. QED
      BY <1>0, <1>2, <1>5, <2>1, <3>1, CallbackKeepsAnswers
  <2>8. AskedInv'
    BY <1>0, <1>2, <2>1, AskedGrow DEF AskedInv, IInv, TypeInv
  <2>. QED
    BY <2>5, <2>6, <2>7, <2>8
<1>9. NoopInv'
  BY <1>0, <1>2, EventKeepsNoops DEF IInv, TypeInv
<1>. QED
  BY <1>6, <1>7, <1>8, <1>9 DEF IInv, CleanInv

LEMMA NoopStep ==
  ASSUME IInv, Noop
  PROVE  IInv'
<1>1. PICK k \in DOMAIN skipped, d \in EndOrError : Log("noop", k, d)
  BY DEF Noop
<1>. DEFINE e == [event |-> "noop", n |-> k, end |-> d]
<1>2. e \in Events /\ e.event = "noop" /\ history' = Append(history, e)
  BY <1>1 DEF Events, Log, Requests, IInv, TypeInv
<1>3. UNCHANGED <<options, i, skipped, aborted, latest, counter, done, delivered,
                  errors, thrown, terminated>>
  BY DEF Noop, stream, answers
<1>4. history' \in Seq(Events)
  BY <1>2, HistoryGrows DEF IInv, TypeInv
<1>5. TypeInv'
  BY <1>3, <1>4 DEF IInv, TypeInv, Requests, Options, EndOrError, Reports, Events
<1>6. StickInv'
  BY <1>3 DEF IInv, StickInv, FirstEndSticks
<1>7. ASSUME Clean'
      PROVE  CountersInv' /\ HistoryInv' /\ AnswersInv' /\ AskedInv'
  <2>1. CountersInv /\ HistoryInv /\ AnswersInv /\ AskedInv
    BY <1>3, <1>7 DEF IInv, CleanInv, Clean
  <2>2. CountersInv'
    BY <1>3, <2>1 DEF CountersInv, Requests
  <2>3. HistoryInv'
    BY <1>2, <1>3, <2>1, NoopKeepsHistory DEF IInv, TypeInv
  <2>4. AnswersInv'
    BY <1>2, <1>3, <2>1, OthersKeepAnswers DEF IInv, TypeInv
  <2>5. AskedInv'
    BY <1>2, <1>3, <2>1, AskedGrow DEF AskedInv, IInv, TypeInv
  <2>. QED
    BY <2>2, <2>3, <2>4, <2>5
<1>8. NoopInv'
  BY <1>2, <1>3, EventKeepsNoops DEF IInv, TypeInv
<1>. QED
  BY <1>5, <1>6, <1>7, <1>8 DEF IInv, CleanInv

LEMMA TerminateStep ==
  ASSUME IInv, Terminate
  PROVE  IInv'
<1>1. /\ UNCHANGED <<options, i, skipped, aborted, latest, counter, done, delivered, history>>
      /\ terminated' = TRUE /\ NotifyErrors(TerminateViolations)
  BY DEF Terminate, stream, answers
<1>2. TerminateViolations \in Seq(Reports)
  BY TerminateReports DEF IInv
<1>3. errors' \in Seq(Reports) /\ (Clean' => Clean)
  BY <1>1, <1>2, StaysClean DEF IInv, TypeInv
<1>4. TypeInv'
  <2>1. thrown' \in BOOLEAN
    BY <1>1 DEF NotifyErrors
  <2>. QED
    BY <1>1, <1>3, <2>1 DEF IInv, TypeInv, Requests, Options, EndOrError, Events
<1>5. StickInv' /\ NoopInv'
  BY <1>1 DEF IInv, StickInv, FirstEndSticks, NoopInv
<1>6. /\ CountersInv => CountersInv'
      /\ AnswersInv => AnswersInv'
      /\ AskedInv => AskedInv'
  BY <1>1 DEF CountersInv, Requests, AnswersInv, AskedInv, AskedEvents, IsRequest, IsCallback
<1>7. HistoryInv => HistoryInv'
  BY <1>1 DEF HistoryInv, Now, Conforms, ObeysInvariant, AbortedBefore, EndedBefore,
              CallbacksUpTo, IsRequest, IsCallback
<1>. QED
  BY <1>3, <1>4, <1>5, <1>6, <1>7 DEF IInv, CleanInv

LEMMA NextIInv == IInv /\ [Next]_vars => IInv'
<1>. SUFFICES ASSUME IInv, [Next]_vars PROVE IInv'
  OBVIOUS
<1>1. CASE Request
  <2>1. PICK abort \in EndOrError :
          \/ RequestThrows(abort)
          \/ \E null \in {FALSE, NullCallbacks} : RequestForwarded(abort, null)
    BY <1>1 DEF Request
  <2>2. {FALSE, NullCallbacks} \subseteq BOOLEAN
    BY CheckerAssumption
  <2>. QED
    BY <2>1, <2>2, RequestThrowsStep, RequestForwardedStep
<1>2. CASE Callback
  <2>1. PICK k \in Requests \ DOMAIN skipped, d \in EndOrError :
          CallbackThrows(k, d) \/ CallbackCompletes(k, d)
    BY <1>2 DEF Callback
  <2>. QED
    BY <2>1, CallbackThrowsStep, CallbackCompletesStep
<1>3. CASE Noop
  BY <1>3, NoopStep
<1>4. CASE Terminate
  BY <1>4, TerminateStep
<1>5. CASE UNCHANGED vars
  <2>1. UNCHANGED <<options, i, skipped, aborted, latest, counter, done, delivered,
                    errors, thrown, history, terminated>>
    BY <1>5 DEF vars, stream, answers
  <2>2. TypeInv'
    BY <2>1 DEF IInv, TypeInv, Requests, Options, EndOrError, Reports, Events
  <2>3. StickInv'
    BY <2>1 DEF IInv, StickInv, FirstEndSticks
  <2>4. CountersInv => CountersInv'
    BY <2>1 DEF CountersInv, Requests
  <2>5. HistoryInv => HistoryInv'
    BY <2>1 DEF HistoryInv, Now, Conforms, ObeysInvariant, AbortedBefore, EndedBefore,
                CallbacksUpTo, IsRequest, IsCallback
  <2>6. (AnswersInv => AnswersInv') /\ (AskedInv => AskedInv') /\ (NoopInv => NoopInv')
    BY <2>1 DEF AnswersInv, AskedInv, AskedEvents, NoopInv, IsRequest, IsCallback
  <2>7. CleanInv'
    BY <2>1, <2>4, <2>5, <2>6 DEF IInv, CleanInv, Clean
  <2>. QED
    BY <2>2, <2>3, <2>6, <2>7 DEF IInv
<1>. QED
  BY <1>1, <1>2, <1>3, <1>4, <1>5 DEF Next

LEMMA SpecIInv == Spec => []IInv
  BY InitIInv, NextIInv, PTL DEF Spec

-----------------------------------------------------------------------------
(* Soundness of the checker (protocol_checker.h Through): a stream it has  *)
(* reported nothing of conforms to the protocol, whatever the order,       *)
(* number and repetition of its callbacks, and with every set of options.  *)
THEOREM CheckerIsSound == Spec => []CleanMeansConforming
<1>1. IInv => CleanMeansConforming
  BY DEF IInv, CleanInv, HistoryInv, CleanMeansConforming
<1>. QED
  BY <1>1, SpecIInv, PTL

(* The one number `latest` is enough (protocol_checker.h, Through's inner  *)
(* lambda): while nothing is reported, callbacks 1 to latest have been     *)
(* invoked once and no other, for any number of outstanding requests.      *)
THEOREM LatestIsEnough == Spec => []LatestIsAllAnswered
<1>1. IInv => LatestIsAllAnswered
  BY DEF IInv, CleanInv, CountersInv, LatestIsAllAnswered
<1>. QED
  BY <1>1, SpecIInv, PTL

(* The sink is told one end and the same for ever (protocol_checker.h,     *)
(* `done` in the inner lambda), also by a source that goes on with values  *)
(* and also after a Terminate.                                             *)
THEOREM TheFirstEndSticks == Spec => []FirstEndSticks
<1>1. IInv => FirstEndSticks
  BY DEF IInv, StickInv
<1>. QED
  BY <1>1, SpecIInv, PTL

-----------------------------------------------------------------------------
(* Completeness.  The other way round, each condition of the code is one   *)
(* of the protocol's: a new event that obeys it is not reported.           *)
LEMMA NothingConcatenated == <<>> \o <<>> \o <<>> = <<>>
  OBVIOUS

LEMMA NoRequestReports ==
  ASSUME NEW abort,
         abort = Running => aborted = Running /\ done = Running,
         options.forbidExtraRequests => aborted = Running /\ done = Running
  PROVE  RequestViolations(abort) = <<>>
  BY NothingConcatenated DEF RequestViolations, When

LEMMA NoCallbackReports ==
  ASSUME NEW k, NEW d,
         d = Running => aborted = Running /\ done = Running,
         ~(counter[k] > 0), ~(k < latest), ~(k > latest + 1)
  PROVE  CallbackViolations(k, d) = <<>>
  BY NothingConcatenated DEF CallbackViolations, When

LEMMA NothingNotified ==
  ASSUME Clean, NotifyErrors(<<>>)
  PROVE  Clean'
<1>1. <<>> \o <<>> = <<>>
  OBVIOUS
<1>2. errors' = <<>>
  BY <1>1 DEF NotifyErrors, Clean
<1>3. ~thrown'
  BY Zenon DEF NotifyErrors, Clean
<1>. QED
  BY <1>2, <1>3 DEF Clean

(* What a conforming history says of the history one event shorter, and of *)
(* the new event.                                                          *)
LEMMA ConformsShrinks ==
  ASSUME history \in Seq(Events), NEW e \in Events, history' = Append(history, e),
         options' = options, Conforms'
  PROVE  Conforms /\ ObeysInvariant(Now)'
<1>1. /\ Now \in Nat /\ Now' = Now + 1
      /\ \A q \in 1..Now : history'[q] = history[q]
      /\ DOMAIN history = 1..Now /\ DOMAIN history' = 1..(Now + 1)
  BY HistoryGrows
<1>2. ASSUME NEW p \in 1..Now
      PROVE  ObeysInvariant(p)
  <2>1. ObeysInvariant(p)'
    BY <1>1 DEF Conforms
  <2>2. /\ AbortedBefore(p)' <=> AbortedBefore(p)
        /\ EndedBefore(p)' <=> EndedBefore(p)
        /\ CallbacksUpTo(p)' = CallbacksUpTo(p)
    BY <1>1, PrefixUntouched
  <2>. QED
    BY <1>1, <2>1, <2>2 DEF ObeysInvariant, IsRequest, IsCallback
<1>3. ASSUME NEW p, p = Now'
      PROVE  ObeysInvariant(p)'
  BY <1>1, <1>3 DEF Conforms
<1>4. ObeysInvariant(Now)'
  BY <1>3 DEF ObeysInvariant, IsRequest, IsCallback, AbortedBefore, EndedBefore,
              CallbacksUpTo
<1>. QED
  BY <1>1, <1>2, <1>4 DEF Conforms

LEMMA RequestStaysClean ==
  ASSUME IInv, ConformingMeansClean, NEW abort \in EndOrError,
         \/ RequestThrows(abort)
         \/ \E null \in BOOLEAN : RequestForwarded(abort, null)
  PROVE  ConformingMeansClean'
<1>. DEFINE e == [event |-> "request", n |-> i, end |-> abort]
<1>1. /\ options' = options /\ terminated' = terminated
      /\ history' = Append(history, e)
      /\ NotifyErrors(RequestViolations(abort))
      /\ ~Completes(RequestViolations(abort)) => skipped' = skipped
  BY DEF RequestThrows, RequestForwarded, Log, stream
<1>2. e \in Events /\ e.event = "request" /\ e.end = abort /\ history \in Seq(Events)
  BY DEF Events, IInv, TypeInv
<1>3. skipped' = <<>> => skipped = <<>>
  BY DEF RequestThrows, RequestForwarded, stream
<1>4. SUFFICES ASSUME Conforms', skipped' = <<>>, ~terminated'
               PROVE  Clean'
  BY DEF ConformingMeansClean
<1>5. Conforms /\ ObeysInvariant(Now)'
  BY <1>1, <1>2, <1>4, ConformsShrinks
<1>6. Clean /\ HistoryInv
  BY <1>1, <1>3, <1>4, <1>5 DEF ConformingMeansClean, IInv, CleanInv
<1>7. /\ abort = Running => aborted = Running /\ done = Running
      /\ options.forbidExtraRequests => aborted = Running /\ done = Running
  BY <1>1, <1>2, <1>5, <1>6, NewEvent
<1>8. RequestViolations(abort) = <<>>
  BY <1>7, NoRequestReports
<1>. QED
  BY <1>1, <1>6, <1>8, NothingNotified

LEMMA CallbackStaysClean ==
  ASSUME IInv, ConformingMeansClean, NEW k \in Requests, NEW d \in EndOrError,
         CallbackThrows(k, d) \/ CallbackCompletes(k, d)
  PROVE  ConformingMeansClean'
<1>. DEFINE e == [event |-> "callback", n |-> k, end |-> d]
<1>1. /\ options' = options /\ terminated' = terminated /\ skipped' = skipped
      /\ history' = Append(history, e)
      /\ NotifyErrors(CallbackViolations(k, d))
  BY DEF CallbackThrows, CallbackCompletes, Log, stream
<1>2. k \in Nat /\ latest \in Nat /\ history \in Seq(Events)
  BY DEF Requests, IInv, TypeInv
<1>3. e \in Events /\ e.event = "callback" /\ e.end = d /\ e.n = k
  BY <1>2 DEF Events
<1>4. SUFFICES ASSUME Conforms', skipped' = <<>>, ~terminated'
               PROVE  Clean'
  BY DEF ConformingMeansClean
<1>5. Conforms /\ ObeysInvariant(Now)'
  BY <1>1, <1>2, <1>3, <1>4, ConformsShrinks
<1>6. Clean /\ HistoryInv /\ CountersInv
  BY <1>1, <1>4, <1>5 DEF ConformingMeansClean, IInv, CleanInv
<1>7. (d = Running => aborted = Running /\ done = Running) /\ k = latest + 1
  BY <1>1, <1>2, <1>3, <1>5, <1>6, NewEvent
<1>8. counter[k] = 0
  BY <1>2, <1>6, <1>7 DEF CountersInv
<1>9. CallbackViolations(k, d) = <<>>
  BY <1>2, <1>7, <1>8, NoCallbackReports
<1>. QED
  BY <1>1, <1>6, <1>9, NothingNotified

LEMMA NextStaysClean ==
  IInv /\ ConformingMeansClean /\ [Next]_vars => ConformingMeansClean'
<1>. SUFFICES ASSUME IInv, ConformingMeansClean, [Next]_vars
              PROVE  ConformingMeansClean'
  OBVIOUS
<1>1. CASE Request
  <2>1. {FALSE, NullCallbacks} \subseteq BOOLEAN
    BY CheckerAssumption
  <2>2. PICK abort \in EndOrError :
          \/ RequestThrows(abort)
          \/ \E null \in BOOLEAN : RequestForwarded(abort, null)
    BY <1>1, <2>1 DEF Request
  <2>. QED
    BY <2>2, RequestStaysClean
<1>2. CASE Callback
  <2>1. PICK k \in Requests, d \in EndOrError :
          CallbackThrows(k, d) \/ CallbackCompletes(k, d)
    BY <1>2 DEF Callback
  <2>. QED
    BY <2>1, CallbackStaysClean
<1>3. CASE Noop
  <2>1. skipped' = skipped /\ skipped # <<>>
    BY <1>3 DEF Noop, stream
  <2>. QED
    BY <2>1 DEF ConformingMeansClean
<1>4. CASE Terminate
  BY <1>4 DEF Terminate, ConformingMeansClean
<1>5. CASE UNCHANGED vars
  BY <1>5 DEF vars, stream, answers, ConformingMeansClean, Clean, Conforms,
              ObeysInvariant, AbortedBefore, EndedBefore, CallbacksUpTo, IsRequest,
              IsCallback
<1>. QED
  BY <1>1, <1>2, <1>3, <1>4, <1>5 DEF Next

(* The checker is complete, for sinks that pass no null callback: before   *)
(* Terminate (protocol_checker.h, Through) it reports nothing of a source  *)
(* and a sink that keep to the protocol, in a stream of any length.        *)
THEOREM CheckerIsComplete == Spec => []ConformingMeansClean
<1>1. Init => ConformingMeansClean
  BY DEF Init, ConformingMeansClean, Clean
<1>. QED
  BY <1>1, SpecIInv, NextStaysClean, PTL DEF Spec

-----------------------------------------------------------------------------
(* Types of the checker's variables (protocol_checker.h, ProtocolChecker), *)
(* and that only requests made are skipped.                                *)
THEOREM TypeCorrect == Spec => []TypeOK
<1>1. ASSUME TypeInv
      PROVE  counter \in [Requests -> Nat]
  <2>1. counter \in [1..Len(counter) -> Nat]
    BY <1>1, LenProperties DEF TypeInv
  <2>. QED
    BY <1>1, <2>1 DEF TypeInv, Requests
<1>2. IInv => TypeOK
  <2>1. SUFFICES ASSUME TypeInv PROVE TypeOK
    BY DEF IInv
  <2>2. i \in Nat \ {0}
    BY <2>1 DEF TypeInv
  <2>. QED
    BY <1>1, <2>1, <2>2, Zenon DEF TypeInv, TypeOK
<1>. QED
  BY <1>2, SpecIInv, PTL

(* A Terminate that leaves the checker clean found it clean, and reported  *)
(* nothing.                                                                *)
LEMMA CleanTerminate ==
  ASSUME IInv, Terminate
  PROVE  Clean' <=> Clean /\ TerminateViolations = <<>>
<1>1. TerminateViolations \in Seq(Reports) /\ errors \in Seq(Reports)
  BY TerminateReports DEF IInv, TypeInv
<1>2. NotifyErrors(TerminateViolations)
  BY DEF Terminate
<1>3. Clean' => Clean /\ TerminateViolations = <<>>
  BY <1>1, <1>2, StaysClean
<1>4. Clean /\ TerminateViolations = <<>> => Clean'
  BY <1>2, NothingNotified
<1>. QED
  BY <1>3, <1>4

(* A request with a null callback is never forgotten (protocol_checker.h,  *)
(* skipped and Terminate): whatever comes after it, Terminate reports.     *)
THEOREM SkippedIsReported == Spec => NullCallbackIsReported
<1>1. ASSUME IInv, Terminate, skipped # <<>>
      PROVE  ~Clean'
  <2>1. PICK k : k \in DOMAIN skipped
    <3>1. skipped \in [DOMAIN skipped -> {TRUE}]
      BY <1>1 DEF IInv, TypeInv
    <3>2. DOMAIN skipped = {} => skipped = <<>>
      BY <3>1
    <3>. QED
      BY <1>1, <3>2
  <2>2. k \in 1..(i - 1) /\ i \in Nat /\ latest \in Nat
    BY <1>1, <2>1 DEF IInv, TypeInv, Requests
  <2>3. Clean => k > latest
    BY <1>1, <2>1 DEF IInv, CleanInv, CountersInv
  <2>4. Clean => TerminateViolations # <<>>
    BY <1>1, <2>2, <2>3, TerminateReports DEF IInv
  <2>. QED
    BY <1>1, <2>4, CleanTerminate
<1>2. IInv /\ [Next]_vars => [Terminate /\ skipped # <<>> => ~Clean']_vars
  BY <1>1
<1>. QED
  BY <1>2, SpecIInv, PTL DEF Spec, NullCallbackIsReported

(* The verdict of Terminate (protocol_checker.h) on a stream that had been *)
(* clean, of any length and with any number of requests outstanding: it    *)
(* finds fault exactly when a request is unanswered, or the stream should  *)
(* have been terminated and is not.                                        *)
THEOREM TerminateIsRight == Spec => TerminateVerdict
<1>. DEFINE answered == /\ EveryRequestAnswered
                        /\ options.enforceStreamTermination => StreamOver
<1>1. ASSUME IInv, Terminate, Clean, skipped = <<>>
      PROVE  Clean' <=> answered
  <2>1. TypeInv /\ HistoryInv /\ AnswersInv /\ NoopInv
    BY <1>1 DEF IInv, CleanInv
  <2>2. latest \in Nat /\ i \in Nat /\ latest <= i - 1
    BY <2>1 DEF TypeInv
  <2>3. \A p \in DOMAIN history : IsAnswer(p) <=> IsCallback(p)
    <3>1. \A p \in DOMAIN history : history[p].event # "noop"
      BY <1>1, <2>1 DEF NoopInv
    <3>2. \A p \in DOMAIN history : history[p] \in Events
      BY <2>1 DEF TypeInv
    <3>. QED
      BY <3>1, <3>2 DEF IsAnswer, IsRequest, IsCallback, Events
  <2>4. EveryRequestAnswered <=> latest = i - 1
    <3>1. ASSUME latest = i - 1
          PROVE  EveryRequestAnswered
      BY <2>1, <2>3, <3>1 DEF AnswersInv, EveryRequestAnswered, Requests
    <3>2. ASSUME EveryRequestAnswered, latest # i - 1
          PROVE  FALSE
      <4>1. i - 1 \in Requests
        BY <2>2, <3>2 DEF Requests
      <4>2. PICK p \in DOMAIN history : IsCallback(p) /\ history[p].n = i - 1
        BY <2>3, <3>2, <4>1 DEF EveryRequestAnswered
      <4>3. i - 1 <= latest
        BY <2>1, <4>2 DEF AnswersInv
      <4>. QED
        BY <2>2, <3>2, <4>3
    <3>. QED
      BY <3>1, <3>2
  <2>5. StreamOver <=> aborted # Running \/ done # Running
    <3>1. DOMAIN history = 1..Now /\ Now \in Nat /\ (Now + 1) - 1 = Now
      BY <2>1, LenProperties DEF TypeInv, Now
    <3>. HIDE DEF Now
    <3>2. StreamOver <=>
            \E p \in 1..Now : (IsRequest(p) \/ IsCallback(p)) /\ history[p].end # Running
      BY <2>3, <3>1 DEF StreamOver, IsRequest, IsCallback, IsAnswer
    <3>3. AbortedBefore(Now + 1) <=>
            \E p \in 1..Now : IsRequest(p) /\ history[p].end # Running
      BY <3>1 DEF AbortedBefore
    <3>4. EndedBefore(Now + 1) <=>
            \E p \in 1..Now : IsCallback(p) /\ history[p].end # Running
      BY <3>1 DEF EndedBefore
    <3>. QED
      BY <2>1, <3>2, <3>3, <3>4 DEF HistoryInv
  <2>6. TerminateViolations = <<>> <=>
          /\ latest = i - 1
          /\ ~(options.enforceStreamTermination /\ done = Running /\ aborted = Running)
    BY <2>1, TerminateReports
  <2>7. Clean' <=> TerminateViolations = <<>>
    BY <1>1, CleanTerminate
  <2>. QED
    BY <2>4, <2>5, <2>6, <2>7
<1>. HIDE DEF answered
<1>2. IInv /\ [Next]_vars =>
        [Terminate /\ Clean /\ skipped = <<>> => (Clean' <=> answered)]_vars
  BY <1>1
<1>3. Spec => [][Terminate /\ Clean /\ skipped = <<>> => (Clean' <=> answered)]_vars
  BY <1>2, SpecIInv, PTL DEF Spec
<1>. QED
  BY <1>3 DEF TerminateVerdict, answered

-----------------------------------------------------------------------------
(* A clean stream is a run of PullProtocol: what each handler that reports *)
(* nothing does to the protocol's variables.                               *)
View ==
  /\ (\E p \in DOMAIN history : IsRequest(p) /\ history[p].end # Running) <=> aborted # Running
  /\ (\E p \in DOMAIN delivered : delivered[p] # Running) <=> done # Running
  /\ Cardinality(AskedEvents) = i - 1
  /\ Len(delivered) = latest

LEMMA CleanView == IInv /\ Clean => View
<1>. SUFFICES ASSUME IInv, Clean PROVE View
  OBVIOUS
<1>1. HistoryInv /\ AnswersInv /\ AskedInv /\ StickInv /\ TypeInv
  BY DEF IInv, CleanInv
<1>2. DOMAIN history = 1..Now /\ Now \in Nat /\ (Now + 1) - 1 = Now
  BY <1>1, LenProperties DEF TypeInv, Now
<1>. HIDE DEF Now
<1>3. (\E p \in DOMAIN history : IsRequest(p) /\ history[p].end # Running) <=> aborted # Running
  BY <1>1, <1>2 DEF HistoryInv, AbortedBefore
<1>4. (\E p \in DOMAIN delivered : delivered[p] # Running) <=> done # Running
  BY <1>1 DEF StickInv
<1>. QED
  BY <1>1, <1>3, <1>4 DEF AskedInv, AnswersInv, View

LEMMA CleanViewNext == IInv' /\ Clean' => View'
  BY CleanView, PTL

LEMMA RequestIsPullOrAbort ==
  ASSUME IInv, IInv', Clean', NEW abort \in EndOrError, NEW null \in BOOLEAN,
         RequestForwarded(abort, null)
  PROVE  Protocol!Next
<1>. DEFINE e == [event |-> "request", n |-> i, end |-> abort]
<1>1. /\ UNCHANGED <<latest, done, delivered>> /\ i' = i + 1
      /\ NotifyErrors(RequestViolations(abort))
      /\ aborted' = FirstAbort(abort)
      /\ history' = Append(history, e)
  BY DEF RequestForwarded, Log
<1>2. Clean /\ RequestViolations(abort) = <<>>
  BY <1>1, StaysClean, RequestReports DEF IInv, TypeInv
<1>3. abort = Running => aborted = Running /\ done = Running
  BY <1>2, RequestReports
<1>4. e \in Events /\ history \in Seq(Events) /\ e.event = "request" /\ e.end = abort
  BY DEF Events, IInv, TypeInv
<1>. HIDE DEF e
<1>5. /\ Cardinality(AskedEvents)' = Cardinality(AskedEvents) + 1
      /\ Cardinality(PullEvents)' = IF abort = Running THEN Cardinality(PullEvents) + 1
                                    ELSE Cardinality(PullEvents)
  BY <1>1, <1>4, AskedGrow
<1>6. View /\ View'
  BY <1>2, CleanView, CleanViewNext
<1>7. CASE abort = Running
  <2>1. aborted' = Running
    BY <1>1, <1>3, <1>7 DEF FirstAbort
  <2>2. Protocol!Pull
    BY <1>1, <1>3, <1>5, <1>6, <1>7, <2>1
       DEF Protocol!Pull, View, AskedEvents, PullEvents
  <2>. QED
    BY <2>2 DEF Protocol!Next
<1>8. CASE abort # Running
  <2>1. aborted' # Running
    BY <1>1, <1>8 DEF FirstAbort
  <2>2. Protocol!AbortStream
    BY <1>1, <1>5, <1>6, <1>8, <2>1
       DEF Protocol!AbortStream, View, AskedEvents, PullEvents
  <2>. QED
    BY <2>2 DEF Protocol!Next
<1>. QED
  BY <1>7, <1>8

LEMMA CallbackIsAnswer ==
  ASSUME IInv, IInv', Clean', NEW k \in Requests, NEW d \in EndOrError,
         CallbackCompletes(k, d)
  PROVE  Protocol!Next
<1>. DEFINE e == [event |-> "callback", n |-> k, end |-> d]
<1>1. /\ UNCHANGED <<i, aborted>>
      /\ NotifyErrors(CallbackViolations(k, d))
      /\ latest' = IF k \in {latest, latest + 1} THEN k ELSE latest
      /\ done' = CallbackDone(d)
      /\ history' = Append(history, e)
  BY DEF CallbackCompletes, Log, stream
<1>2. k \in Nat /\ k <= i - 1 /\ latest \in Nat /\ i \in Nat
  BY DEF Requests, IInv, TypeInv
<1>3. Clean /\ CallbackViolations(k, d) = <<>>
  BY <1>1, <1>2, StaysClean, CallbackReports DEF IInv, TypeInv
<1>4. /\ d = Running => aborted = Running /\ done = Running
      /\ ~(counter[k] > 0) /\ ~(k < latest) /\ ~(k > latest + 1)
  BY <1>2, <1>3, CallbackReports
<1>5. counter[k] = IF k <= latest THEN 1 ELSE 0
  BY <1>3 DEF IInv, CleanInv, CountersInv
<1>6. k = latest + 1 /\ latest' = latest + 1
  BY <1>1, <1>2, <1>4, <1>5
<1>7. e \in Events /\ history \in Seq(Events) /\ e.event = "callback"
  BY <1>2 DEF Events, IInv, TypeInv
<1>. HIDE DEF e
<1>8. /\ Cardinality(AskedEvents)' = Cardinality(AskedEvents)
      /\ Cardinality(PullEvents)' = Cardinality(PullEvents)
  BY <1>1, <1>7, AskedGrow
<1>9. /\ View /\ View'
      /\ Len(delivered) < Cardinality(AskedEvents) /\ Len(delivered)' = Len(delivered) + 1
  <2>1. View /\ View'
    BY <1>3, CleanView, CleanViewNext
  <2>. QED
    BY <1>2, <1>6, <2>1 DEF View
<1>10. CASE done' = Running
  <2>1. d = Running /\ done = Running /\ aborted = Running
    BY <1>1, <1>4, <1>10 DEF CallbackDone
  <2>2. Protocol!AnswerValue
    BY <1>1, <1>8, <1>9, <1>10, <2>1
       DEF Protocol!AnswerValue, View, AskedEvents, PullEvents
  <2>. QED
    BY <2>2 DEF Protocol!Next
<1>11. CASE done' # Running
  <2>1. Protocol!AnswerEnd
    BY <1>1, <1>8, <1>9, <1>11
       DEF Protocol!AnswerEnd, View, AskedEvents, PullEvents
  <2>. QED
    BY <2>1 DEF Protocol!Next
<1>. QED
  BY <1>10, <1>11

LEMMA CleanStep ==
  ASSUME IInv, IInv', [Next]_vars, Clean'
  PROVE  [Protocol!Next]_(Protocol!vars)
<1>1. CASE Request
  <2>1. PICK abort \in EndOrError :
          \/ RequestThrows(abort)
          \/ \E null \in BOOLEAN : RequestForwarded(abort, null)
    BY <1>1, CheckerAssumption DEF Request
  <2>2. ~RequestThrows(abort)
    BY ThrowsIsNotClean DEF RequestThrows
  <2>. QED
    BY <2>1, <2>2, RequestIsPullOrAbort
<1>2. CASE Callback
  <2>1. PICK k \in Requests, d \in EndOrError :
          CallbackThrows(k, d) \/ CallbackCompletes(k, d)
    BY <1>2 DEF Callback
  <2>2. ~CallbackThrows(k, d)
    BY ThrowsIsNotClean DEF CallbackThrows
  <2>. QED
    BY <2>1, <2>2, CallbackIsAnswer
<1>3. CASE Noop
  <2>1. PICK k \in DOMAIN skipped, d \in EndOrError : Log("noop", k, d)
    BY <1>3 DEF Noop
  <2>. DEFINE e == [event |-> "noop", n |-> k, end |-> d]
  <2>2. /\ e \in Events /\ e.event = "noop" /\ history \in Seq(Events)
        /\ history' = Append(history, e)
    BY <2>1 DEF Events, Log, Requests, IInv, TypeInv
  <2>3. UNCHANGED <<aborted, done, delivered, errors, thrown>>
    BY <1>3 DEF Noop, stream, answers
  <2>. HIDE DEF e
  <2>4. UNCHANGED <<Cardinality(AskedEvents), Cardinality(PullEvents)>>
    BY <2>2, AskedGrow
  <2>5. View /\ View'
    BY <2>3, CleanView, CleanViewNext DEF Clean
  <2>. QED
    BY <2>3, <2>4, <2>5 DEF Protocol!vars, View, AskedEvents, PullEvents
<1>4. CASE Terminate \/ UNCHANGED vars
  <2>1. history' = history /\ delivered' = delivered
    BY <1>4 DEF Terminate, vars, answers
  <2>. QED
    BY <2>1 DEF Protocol!vars, IsRequest
<1>. QED
  BY <1>1, <1>2, <1>3, <1>4 DEF Next

(* A stream the checker finds no fault with (protocol_checker.h, Through)  *)
(* is a run of PullProtocol: each request is one of its pulls or aborts,   *)
(* each callback the answer that is due, and nothing else is a step of it. *)
THEOREM CleanStreamIsProtocol == Spec => CleanStepsFollowProtocol
<1>1. IInv /\ IInv' /\ [Next]_vars => [Clean' => [Protocol!Next]_(Protocol!vars)]_vars
  BY CleanStep
<1>. QED
  BY <1>1, SpecIInv, PTL DEF Spec, CleanStepsFollowProtocol

(* Put together, a run in which nothing is ever reported is a run of       *)
(* PullProtocol from its beginning, Terminate's verdict included.          *)
COROLLARY NeverReportedIsProtocol == Spec /\ []Clean => Protocol!Spec
<1>1. Init => Protocol!Init
  <2>1. SUFFICES ASSUME Init PROVE Protocol!Init
    OBVIOUS
  <2>2. DOMAIN history = {} /\ DOMAIN delivered = {} /\ Len(delivered) = 0
    BY <2>1 DEF Init
  <2>3. /\ {p \in DOMAIN history : IsRequest(p)} = {}
        /\ {p \in DOMAIN history : IsRequest(p) /\ history[p].end = Running} = {}
    BY <2>2
  <2>. QED
    BY <2>2, <2>3, FS_EmptySet DEF Protocol!Init
<1>2. IInv /\ IInv' /\ [Next]_vars /\ Clean' => [Protocol!Next]_(Protocol!vars)
  BY CleanStep
<1>. QED
  BY <1>1, <1>2, SpecIInv, PTL DEF Spec, Protocol!Spec
=============================================================================
