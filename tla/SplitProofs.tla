----------------------------- MODULE SplitProofs -----------------------------
(***************************************************************************)
(* Proofs about SplitString, for strings of any length over any alphabet:  *)
(* the tokens are what lies between the delimiters, all of it, in order.   *)
(***************************************************************************)
EXTENDS SplitString, FiniteSetTheorems, SequenceTheorems, TLAPS

TypeInv ==
  /\ full \in Seq(Chars)
  /\ prevPos \in 0..Len(full)
  /\ pc \in {"clear", "loop", "done"}
  /\ pc = "clear" => prevPos = 0
  /\ pc # "clear" => result \in Seq(Seq(Chars))

(* The tokens up to position p are there: one for each pair of neighbouring *)
(* boundaries that ends there or before.                                   *)
TokensUpTo(p) ==
  /\ Len(result) = Cardinality(Before(p))
  /\ \A a, b \in Boundaries : Neighbours(a, b) /\ b <= p =>
       result[Cardinality(Before(b))] = SubSeq(full, a + 1, b - 1)

(* SplitsExactly says nothing of the loop.  Between two rounds, prevPos is *)
(* a boundary and the tokens before it have been taken.                    *)
LoopInv == pc = "loop" => full # <<>> /\ prevPos \in Boundaries /\ TokensUpTo(prevPos)

DoneInv ==
  pc = "done" => IF full = <<>> THEN result = <<>> ELSE TokensUpTo(Len(full) + 1)

IInv == TypeInv /\ LoopInv /\ DoneInv

-----------------------------------------------------------------------------
LEMMA StringType == Strings \subseteq Seq(Chars)
  BY SplitAssumption DEF Strings

LEMMA BoundariesFinite ==
  ASSUME TypeInv
  PROVE  /\ Boundaries \subseteq 0..(Len(full) + 1)
         /\ IsFiniteSet(Boundaries)
         /\ \A p \in Nat : IsFiniteSet(Before(p)) /\ Cardinality(Before(p)) \in Nat
<1>1. Boundaries \subseteq 0..(Len(full) + 1)
  BY DEF TypeInv, Boundaries
<1>2. IsFiniteSet(0..(Len(full) + 1))
  BY FS_Interval DEF TypeInv
<1>3. IsFiniteSet(Boundaries)
  BY <1>1, <1>2, FS_Subset
<1>4. \A p \in Nat : Before(p) \subseteq Boundaries
  BY DEF Before
<1>. QED
  BY <1>1, <1>3, <1>4, FS_Subset, FS_CardinalityType

LEMMA InBefore == \A p, q : q \in Before(p) <=> q \in Boundaries /\ q < p
  BY Zenon DEF Before

(* Two boundaries with no delimiter between them: the second is the next.  *)
LEMMA NextBoundary ==
  ASSUME TypeInv, NEW a \in Boundaries, NEW c \in Boundaries, a < c,
         \A q \in Boundaries : ~(a < q /\ q < c)
  PROVE  /\ Neighbours(a, c)
         /\ Cardinality(Before(c)) = Cardinality(Before(a)) + 1
         /\ \A b \in Boundaries : Neighbours(b, c) => b = a
         /\ \A b \in Boundaries : b <= c => b = c \/ b <= a
<1>1. Boundaries \subseteq Nat
  BY BoundariesFinite DEF TypeInv
<1>2. Before(c) = Before(a) \cup {a} /\ a \notin Before(a)
  <2>1. a \in Nat /\ c \in Nat /\ a \notin Before(a)
    BY <1>1 DEF Before
  <2>2. ASSUME NEW q
        PROVE  q \in Before(c) <=> q \in Before(a) \/ q = a
    <3>1. CASE q \in Boundaries
      <4>1. q \in Nat /\ (q < c <=> q < a \/ q = a)
        BY <1>1, <2>1, <3>1
      <4>. QED
        BY <3>1, <4>1, InBefore
    <3>2. CASE q \notin Boundaries
      BY <3>2, InBefore
    <3>. QED
      BY <3>1, <3>2
  <2>. QED
    BY <2>1, <2>2
<1>3. IsFiniteSet(Before(a)) /\ Cardinality(Before(a)) \in Nat
  BY <1>1, BoundariesFinite
<1>4. Cardinality(Before(a) \cup {a}) = Cardinality(Before(a)) + 1
  BY <1>2, <1>3, FS_AddElement
<1>5. ASSUME NEW b \in Boundaries, Neighbours(b, c)
      PROVE  b = a
  <2>1. a \in Before(b) \cup {b} /\ b \in Before(a) \cup {a}
    BY <1>2, <1>5 DEF Neighbours
  <2>. QED
    BY <1>1, <2>1 DEF Before
<1>6. \A b \in Boundaries : b <= c => b = c \/ b <= a
  BY <1>1
<1>. QED
  BY <1>2, <1>4, <1>5, <1>6 DEF Neighbours

(* One more token, for the boundary c that follows prevPos.                *)
LEMMA OneMoreToken ==
  ASSUME IInv, pc = "loop", full' = full,
         NEW c \in Boundaries, prevPos < c, \A q \in Boundaries : ~(prevPos < q /\ q < c),
         result' = Append(result, SubSeq(full, prevPos + 1, c - 1))
  PROVE  result' \in Seq(Seq(Chars)) /\ TokensUpTo(c)'
<1>1. /\ TypeInv /\ prevPos \in Boundaries /\ TokensUpTo(prevPos)
      /\ result \in Seq(Seq(Chars)) /\ full \in Seq(Chars)
  BY DEF IInv, LoopInv, TypeInv
<1>2. Boundaries \subseteq 0..(Len(full) + 1) /\ Boundaries' = Boundaries
  BY <1>1, BoundariesFinite DEF Boundaries
<1>. DEFINE token == SubSeq(full, prevPos + 1, c - 1)
<1>3. token \in Seq(Chars)
  <2>1. c - 1 \in 0..Len(full) /\ prevPos + 1 \in 1..(Len(full) + 1)
    BY <1>1, <1>2 DEF TypeInv
  <2>. QED
    BY <1>1, <2>1, SubSeqProperties
<1>. HIDE DEF token
<1>4. /\ result' \in Seq(Seq(Chars)) /\ Len(result') = Len(result) + 1
      /\ \A n \in 1..Len(result) : result'[n] = result[n]
      /\ result'[Len(result) + 1] = token
  BY <1>1, <1>3, AppendProperties DEF token
<1>5. /\ Neighbours(prevPos, c)
      /\ Cardinality(Before(c)) = Cardinality(Before(prevPos)) + 1
      /\ \A b \in Boundaries : Neighbours(b, c) => b = prevPos
      /\ \A b \in Boundaries : b <= c => b = c \/ b <= prevPos
  BY <1>1, NextBoundary
<1>6. Before(c)' = Before(c) /\ \A b : Before(b)' = Before(b)
  BY <1>2 DEF Before
<1>7. ASSUME NEW a \in Boundaries, NEW b \in Boundaries, Neighbours(a, b), b <= c
      PROVE  result'[Cardinality(Before(b))] = SubSeq(full, a + 1, b - 1)
  <2>1. CASE b = c
    <3>1. a = prevPos
      BY <1>5, <1>7, <2>1
    <3>2. Cardinality(Before(b)) = Len(result) + 1
      BY <1>1, <1>5, <2>1 DEF TokensUpTo
    <3>. QED
      BY <1>4, <2>1, <3>1, <3>2 DEF token
  <2>2. CASE b <= prevPos
    <3>1. result[Cardinality(Before(b))] = SubSeq(full, a + 1, b - 1)
      BY <1>1, <1>7, <2>2 DEF TokensUpTo
    <3>2. Cardinality(Before(b)) \in 1..Len(result)
      <4>1. a \in Nat /\ b \in Nat /\ prevPos \in Nat
        BY <1>1, <1>2 DEF TypeInv
      <4>2. Before(b) \subseteq Before(prevPos) /\ a \in Before(b)
        <5>1. \A q \in Boundaries : q \in Nat
          BY <1>1, <1>2 DEF TypeInv
        <5>2. Before(b) \subseteq Before(prevPos)
          <6>1. \A q \in Boundaries : q < b => q < prevPos
            BY <2>2, <4>1, <5>1
          <6>. QED
            BY <6>1, InBefore
        <5>. QED
          BY <1>7, <5>2 DEF Neighbours
      <4>3. IsFiniteSet(Before(prevPos)) /\ IsFiniteSet(Before(b))
            /\ Cardinality(Before(b)) \in Nat
        BY <1>1, <4>1, BoundariesFinite
      <4>4. Cardinality(Before(b)) <= Cardinality(Before(prevPos))
        BY <4>2, <4>3, FS_Subset
      <4>5. Cardinality(Before(b)) # 0
        BY <4>2, <4>3, FS_EmptySet
      <4>. QED
        BY <1>1, <4>3, <4>4, <4>5 DEF TokensUpTo
    <3>. QED
      BY <1>4, <3>1, <3>2
  <2>. QED
    BY <1>5, <1>7, <2>1, <2>2
<1>8. Len(result') = Cardinality(Before(c))
  BY <1>1, <1>4, <1>5 DEF TokensUpTo
<1>. QED
  BY <1>2, <1>4, <1>6, <1>7, <1>8 DEF TokensUpTo, Neighbours

LEMMA InitIInv == Init => IInv
<1>. SUFFICES ASSUME Init PROVE IInv
  OBVIOUS
<1>1. full \in Seq(Chars)
  BY StringType DEF Init
<1>. QED
  BY <1>1, LenProperties DEF Init, IInv, TypeInv, LoopInv, DoneInv

LEMMA ClearStep ==
  ASSUME IInv, Clear
  PROVE  IInv'
<1>1. /\ full' = full /\ prevPos' = prevPos /\ result' = <<>>
      /\ pc' = IF full = <<>> THEN "done" ELSE "loop"
  BY DEF Clear
<1>2. prevPos = 0
  BY DEF Clear, IInv, TypeInv
<1>3. Before(0) = {} /\ Boundaries' = Boundaries /\ 0 \in Boundaries
  <2>1. \A q \in Boundaries : q \in Nat
    BY BoundariesFinite DEF IInv, TypeInv
  <2>. QED
    BY <1>1, <2>1 DEF Before, Boundaries
<1>4. TypeInv'
  BY <1>1 DEF IInv, TypeInv
<1>5. TokensUpTo(0)'
  <2>1. Before(0)' = {} /\ Cardinality({}) = 0 /\ Len(<<>>) = 0
    BY <1>3, FS_EmptySet DEF Before
  <2>2. ASSUME NEW a \in Boundaries, NEW b \in Boundaries, b <= 0
        PROVE  ~Neighbours(a, b)'
    <3>1. b = 0
      BY <2>2, BoundariesFinite DEF IInv, TypeInv
    <3>. QED
      BY <2>1, <3>1 DEF Neighbours
  <2>. QED
    BY <1>1, <1>3, <2>1, <2>2 DEF TokensUpTo
<1>. QED
  BY <1>1, <1>2, <1>3, <1>4, <1>5 DEF IInv, LoopInv, DoneInv, TokensUpTo, Clear

(* The delimiter found is the next boundary.                               *)
LEMMA TakeTokenStep ==
  ASSUME IInv, TakeToken
  PROVE  IInv'
<1>1. PICK pos \in 0..Len(full) :
        /\ FoundAt(pos)
        /\ result' = Append(result, SubSeq(full, prevPos + 1, pos))
        /\ prevPos' = pos + 1
  BY DEF TakeToken
<1>2. pc = "loop" /\ pc' = pc /\ full' = full /\ TypeInv /\ full # <<>>
  BY DEF TakeToken, IInv, LoopInv
<1>3. /\ Len(full) \in Nat /\ DOMAIN full = 1..Len(full)
      /\ prevPos \in Nat /\ prevPos <= pos /\ pos < Len(full)
  BY <1>1, <1>2, LenProperties DEF FoundAt, TypeInv
<1>4. pos + 1 \in Boundaries /\ prevPos < pos + 1 /\ (pos + 1) - 1 = pos
  BY <1>1, <1>3 DEF FoundAt, Boundaries
<1>5. ASSUME NEW q \in Boundaries, prevPos < q, q < pos + 1
      PROVE  FALSE
  <2>1. q \in 1..Len(full) /\ full[q] = Delim
    BY <1>2, <1>3, <1>5, BoundariesFinite DEF Boundaries
  <2>2. q - 1 \in prevPos..(pos - 1) /\ (q - 1) + 1 = q
    BY <1>3, <1>5, <2>1
  <2>. QED
    BY <1>1, <2>1, <2>2 DEF FoundAt
<1>6. result' \in Seq(Seq(Chars)) /\ TokensUpTo(pos + 1)'
  BY <1>1, <1>2, <1>4, <1>5, OneMoreToken
<1>7. TypeInv'
  BY <1>1, <1>2, <1>3, <1>6 DEF TypeInv
<1>8. LoopInv'
  <2>1. prevPos' \in Boundaries'
    BY <1>1, <1>2, <1>4 DEF Boundaries
  <2>2. TokensUpTo(prevPos)'
    BY <1>1, <1>6 DEF TokensUpTo
  <2>. QED
    BY <1>2, <2>1, <2>2 DEF LoopInv
<1>. QED
  BY <1>2, <1>7, <1>8 DEF IInv, DoneInv

(* Without a delimiter ahead, the next boundary is the end of the string.  *)
LEMMA TakeLastStep ==
  ASSUME IInv, TakeLast
  PROVE  IInv'
<1>1. /\ NotFound
      /\ result' = Append(result, SubSeq(full, prevPos + 1, Len(full)))
      /\ pc = "loop" /\ pc' = "done" /\ full' = full /\ prevPos' = prevPos
  BY DEF TakeLast
<1>2. TypeInv /\ full # <<>>
  BY <1>1 DEF IInv, LoopInv
<1>3. /\ Len(full) \in Nat /\ DOMAIN full = 1..Len(full)
      /\ prevPos \in Nat /\ prevPos <= Len(full)
  BY <1>2, LenProperties DEF TypeInv
<1>4. /\ Len(full) + 1 \in Boundaries /\ prevPos < Len(full) + 1
      /\ (Len(full) + 1) - 1 = Len(full)
  BY <1>3 DEF Boundaries
<1>5. ASSUME NEW q \in Boundaries, prevPos < q, q < Len(full) + 1
      PROVE  FALSE
  <2>1. q \in 1..Len(full) /\ full[q] = Delim
    BY <1>2, <1>3, <1>5, BoundariesFinite DEF Boundaries
  <2>2. q - 1 \in prevPos..(Len(full) - 1) /\ (q - 1) + 1 = q
    BY <1>3, <1>5, <2>1
  <2>. QED
    BY <1>1, <2>1, <2>2 DEF NotFound
<1>6. result' \in Seq(Seq(Chars)) /\ TokensUpTo(Len(full) + 1)'
  BY <1>1, <1>2, <1>4, <1>5, OneMoreToken
<1>7. TypeInv'
  BY <1>1, <1>2, <1>6 DEF TypeInv
<1>8. DoneInv'
  BY <1>1, <1>2, <1>6 DEF DoneInv, TokensUpTo
<1>. QED
  BY <1>1, <1>7, <1>8 DEF IInv, LoopInv

LEMMA NextIInv == IInv /\ [Next]_vars => IInv'
<1>. SUFFICES ASSUME IInv, [Next]_vars PROVE IInv'
  OBVIOUS
<1>1. CASE UNCHANGED vars
  <2>1. full' = full /\ result' = result /\ prevPos' = prevPos /\ pc' = pc
    BY <1>1 DEF vars
  <2>2. \A p : TokensUpTo(p)' <=> TokensUpTo(p)
    BY <2>1 DEF TokensUpTo, Neighbours, Before, Boundaries
  <2>3. Boundaries' = Boundaries
    BY <2>1 DEF Boundaries
  <2>. QED
    BY <2>1, <2>2, <2>3 DEF IInv, TypeInv, LoopInv, DoneInv
<1>. QED
  BY <1>1, ClearStep, TakeTokenStep, TakeLastStep DEF Next

(* SplitString (split_string.cc, DoSplitString) returns the empty list for *)
(* the empty string, and of every other string, however long, the tokens   *)
(* between its delimiters: one more than there are delimiters, each in its *)
(* place, empty ones included.                                             *)
THEOREM SplitStringIsExact == Spec => []SplitsExactly
<1>1. ASSUME IInv, pc = "done", full # <<>>
      PROVE  Len(result) = Cardinality(Boundaries) - 1
  <2>1. TypeInv /\ TokensUpTo(Len(full) + 1) /\ Len(full) \in Nat
    BY <1>1 DEF IInv, DoneInv, TypeInv
  <2>. DEFINE e == Len(full) + 1
  <2>2. Boundaries = Before(e) \cup {e} /\ e \notin Before(e)
    <3>1. Boundaries \subseteq 0..e /\ e \in Boundaries
      BY <2>1, BoundariesFinite DEF Boundaries
    <3>2. ASSUME NEW q
          PROVE  q \in Boundaries <=> q \in Before(e) \/ q = e
      <4>1. q \in Boundaries => q < e \/ q = e
        BY <2>1, <3>1
      <4>. QED
        BY <3>1, <4>1, InBefore
    <3>3. e \notin Before(e)
      BY <2>1 DEF Before
    <3>. QED
      BY <3>2, <3>3
  <2>3. IsFiniteSet(Before(e)) /\ Cardinality(Before(e)) \in Nat
    BY <2>1, BoundariesFinite
  <2>4. Cardinality(Boundaries) = Cardinality(Before(e)) + 1
    BY <2>2, <2>3, FS_AddElement
  <2>. QED
    BY <2>1, <2>3, <2>4 DEF TokensUpTo
<1>2. ASSUME IInv, pc = "done", full # <<>>, NEW a \in Boundaries, NEW b \in Boundaries,
             Neighbours(a, b)
      PROVE  result[Cardinality(Before(b))] = SubSeq(full, a + 1, b - 1)
  <2>1. TypeInv /\ TokensUpTo(Len(full) + 1)
    BY <1>2 DEF IInv, DoneInv
  <2>2. b <= Len(full) + 1
    BY <2>1, BoundariesFinite DEF TypeInv
  <2>. QED
    BY <1>2, <2>1, <2>2 DEF TokensUpTo
<1>3. IInv => SplitsExactly
  BY <1>1, <1>2 DEF SplitsExactly, IInv, DoneInv
<1>. QED
  BY <1>3, InitIInv, NextIInv, PTL DEF Spec
=============================================================================
