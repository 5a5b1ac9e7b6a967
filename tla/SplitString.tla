---------------------------- MODULE SplitString ----------------------------
(***************************************************************************)
(* dk_pull::common::SplitString (split_string.cc): the tokens between the  *)
(* delimiters of a string.  Strings are sequences of characters, counted   *)
(* from 0 as the code's positions are, so full[p + 1] is its character p.  *)
(* One step is one round of the code's loop.                               *)
(***************************************************************************)
EXTENDS Naturals, Sequences, FiniteSets

CONSTANTS
  Chars,      \* characters
  Delim,      \* the delimiter
  MaxLength   \* bound: the length of the string

ASSUME SplitAssumption ==
  /\ Delim \in Chars
  /\ MaxLength \in Nat

VARIABLES
  full,      \* the string
  result,    \* the tokens so far; whatever the vector held before the call
  prevPos,   \* where the next token starts
  pc         \* where the code is

vars == <<full, result, prevPos, pc>>

Strings == UNION {[1..n -> Chars] : n \in 0..MaxLength}

Init ==
  /\ full \in Strings
  /\ result \in {<<>>, << <<Delim>> >>}
  /\ prevPos = 0
  /\ pc = "clear"

Clear ==
  /\ pc = "clear"
  /\ result' = <<>>
  /\ pc' = IF full = <<>> THEN "done" ELSE "loop"
  /\ UNCHANGED <<full, prevPos>>

(* full.find(delim, prev_pos) *)
FoundAt(pos) ==
  /\ pos \in prevPos..(Len(full) - 1)
  /\ full[pos + 1] = Delim
  /\ \A p \in prevPos..(pos - 1) : full[p + 1] # Delim

NotFound == \A p \in prevPos..(Len(full) - 1) : full[p + 1] # Delim

\* Mutant of TakeToken: empty tokens are left out.
TakeTokenUnlessEmpty ==
  /\ pc = "loop"
  /\ \E pos \in 0..Len(full) :
       /\ FoundAt(pos)
       /\ result' = IF pos = prevPos THEN result
                    ELSE Append(result, SubSeq(full, prevPos + 1, pos))
       /\ prevPos' = pos + 1
  /\ UNCHANGED <<full, pc>>

TakeToken ==
  /\ pc = "loop"
  /\ \E pos \in 0..Len(full) :
       /\ FoundAt(pos)
       /\ result' = Append(result, SubSeq(full, prevPos + 1, pos))
       /\ prevPos' = pos + 1
  /\ UNCHANGED <<full, pc>>

(* What follows the last delimiter is a token too, also when it is empty. *)
TakeLast ==
  /\ pc = "loop" /\ NotFound
  /\ result' = Append(result, SubSeq(full, prevPos + 1, Len(full)))
  /\ pc' = "done"
  /\ UNCHANGED <<full, prevPos>>

Next == Clear \/ TakeToken \/ TakeLast

Spec == Init /\ [][Next]_vars

-----------------------------------------------------------------------------
(* Where one token ends and the next begins, counted from 1: the           *)
(* delimiters, and a boundary before and after the string.                 *)
Boundaries == {0, Len(full) + 1} \cup {p \in DOMAIN full : full[p] = Delim}

Before(p) == {q \in Boundaries : q < p}

Neighbours(a, b) == Before(b) = Before(a) \cup {a}

(* For each pair of neighbouring boundaries there is one token, in their   *)
(* order: what lies between them, if only the empty string, and no more    *)
(* tokens than that.  An empty string has none, whatever the vector held.  *)
SplitsExactly ==
  pc = "done" =>
    /\ full = <<>> => result = <<>>
    /\ full # <<>> =>
         /\ Len(result) = Cardinality(Boundaries) - 1
         /\ \A a, b \in Boundaries : Neighbours(a, b) =>
              result[Cardinality(Before(b))] = SubSeq(full, a + 1, b - 1)
=============================================================================
