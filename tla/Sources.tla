------------------------------- MODULE Sources -------------------------------
(***************************************************************************)
(* The sources of dk_pull/pull_stream/sources: Values, Count and Empty.    *)
(* A source is a function from a request to an answer that changes the     *)
(* state its closure shares; each operator below gives both, for a request *)
(* that aborts with `abort` (Running: that asks for a value).              *)
(***************************************************************************)
EXTENDS Naturals, Sequences

CONSTANTS
  Running,    \* EndOrError::FALSE
  End,        \* EndOrError::TRUE
  NoValue,    \* T(), what an ending answer carries
  Modulus     \* Count's counter is of type uint64_t: 2^64, here a small number

ASSUME SourcesAssumption ==
  /\ Running # End
  /\ Modulus \in Nat \ {0}

(* EndOrError's operator bool: an end, or an error. *)
IsSet(endOrError) == endOrError # Running

(* What a source passes to a SourceCallback, and the state it is left in.  *)
Answer(done, value, source) == [done |-> done, value |-> value, source |-> source]

(* values.h: pops the front of its list.  An abort leaves the list alone.  *)
ValuesStates == [kind : {"Values"}, list : Seq(Nat)]

ValuesSource(list) == [kind |-> "Values", list |-> list]

\* Mutant of ValuesAnswer: the front is read and not popped.
ValuesAnswerUnpopped(s, abort) ==
  IF IsSet(abort) THEN Answer(abort, NoValue, s)
  ELSE IF s.list = <<>> THEN Answer(End, NoValue, s)
  ELSE Answer(Running, Head(s.list), s)

ValuesAnswer(s, abort) ==
  IF IsSet(abort) THEN Answer(abort, NoValue, s)
  ELSE IF s.list = <<>> THEN Answer(End, NoValue, s)
  ELSE Answer(Running, Head(s.list), [s EXCEPT !.list = Tail(@)])

(* count.cc: 0, 1, ..., maximum.                                           *)
CountStates ==
  [kind : {"Count"}, i : 0..(Modulus - 1), maximum : 0..(Modulus - 1)]

CountSource(maximum) == [kind |-> "Count", i |-> 0, maximum |-> maximum]

\* Mutant of CountAnswer: ends when the counter has reached the maximum.
CountAnswerExclusive(s, abort) ==
  IF IsSet(abort) THEN Answer(abort, 0, s)
  ELSE IF s.i >= s.maximum THEN Answer(End, 0, s)
  ELSE Answer(Running, s.i, [s EXCEPT !.i = (@ + 1) % Modulus])

CountAnswer(s, abort) ==
  IF IsSet(abort) THEN Answer(abort, 0, s)
  ELSE IF s.i > s.maximum THEN Answer(End, 0, s)
  ELSE Answer(Running, s.i, [s EXCEPT !.i = (@ + 1) % Modulus])

(* empty.h: ends at once, whatever the request.                            *)
EmptySource == [kind |-> "Empty"]

EmptyAnswer(s, abort) == Answer(End, NoValue, s)

SourceStates == ValuesStates \cup CountStates \cup {EmptySource}

SourceAnswer(s, abort) ==
  CASE s.kind = "Values" -> ValuesAnswer(s, abort)
    [] s.kind = "Count"  -> CountAnswer(s, abort)
    [] s.kind = "Empty"  -> EmptyAnswer(s, abort)
=============================================================================
