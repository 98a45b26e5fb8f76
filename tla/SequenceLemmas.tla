--------------------------- MODULE SequenceLemmas ---------------------------
(***************************************************************************)
(* Facts about sequences and sets of numbers that the proofs of several    *)
(* components need.                                                        *)
(***************************************************************************)
EXTENDS Integers, Sequences, SequencesExt, SequenceTheorems, FiniteSetTheorems,
        NaturalsInduction, WellFoundedInduction, TLAPS

\* A function on 1 .. n is a sequence of length n.
LEMMA FunctionIsSeq ==
  ASSUME NEW S, NEW n \in Nat, NEW s \in [1 .. n -> S]
  PROVE  s \in Seq(S) /\ Len(s) = n
<1>1. s \in Seq(S)
  BY SeqDef, Zenon
<1>2. DOMAIN s = 1 .. Len(s) /\ DOMAIN s = 1 .. n /\ Len(s) \in Nat
  BY <1>1, LenProperties
<1> QED
  BY <1>1, <1>2

\* The first h elements of a sequence.
LEMMA Prefix ==
  ASSUME NEW S, NEW s \in Seq(S), NEW h \in Nat, h <= Len(s)
  PROVE  /\ SubSeq(s, 1, h) \in Seq(S) /\ Len(SubSeq(s, 1, h)) = h
         /\ \A j \in 1 .. h : SubSeq(s, 1, h)[j] = s[j]
<1>1. \A j \in 1 .. h : s[j] \in S
  OBVIOUS
<1>2. SubSeq(s, 1, h) = [j \in 1 .. h |-> s[j]]
  OBVIOUS
<1>3. [j \in 1 .. h |-> s[j]] \in [1 .. h -> S]
  BY <1>1
<1>4. SubSeq(s, 1, h) \in Seq(S) /\ Len(SubSeq(s, 1, h)) = h
  BY <1>2, <1>3, FunctionIsSeq
<1> QED
  BY <1>2, <1>4

\* The elements of a sequence after the first p.
LEMMA Suffix ==
  ASSUME NEW S, NEW s \in Seq(S), NEW p \in Nat, p <= Len(s)
  PROVE  /\ SubSeq(s, p + 1, Len(s)) \in Seq(S)
         /\ Len(SubSeq(s, p + 1, Len(s))) = Len(s) - p
         /\ \A j \in 1 .. Len(s) - p : SubSeq(s, p + 1, Len(s))[j] = s[p + j] /\ p + j \in 1 .. Len(s)
<1>1. PICK c \in Nat : c = Len(s)
  OBVIOUS
<1>2. PICK d \in Nat : d = c - p
  <2>1. c - p \in Nat
    BY <1>1
  <2> QED
    BY <2>1
<1>3. SubSeq(s, p + 1, c) = [j \in 1 .. d |-> s[p + j]]
  BY <1>1, <1>2
<1>4. \A j \in 1 .. d : p + j \in 1 .. c
  BY <1>1, <1>2
<1>5. [j \in 1 .. d |-> s[p + j]] \in [1 .. d -> S]
  <2>1. \A j \in 1 .. d : s[p + j] \in S
    BY <1>1, <1>4
  <2> QED
    BY <2>1
<1>6. SubSeq(s, p + 1, c) \in Seq(S) /\ Len(SubSeq(s, p + 1, c)) = d
  BY <1>3, <1>5, FunctionIsSeq
<1> QED
  BY <1>1, <1>2, <1>3, <1>4, <1>6

\* A sequence without its last element.
LEMMA FrontParts ==
  ASSUME NEW S, NEW s \in Seq(S), NEW m \in Nat, m + 1 = Len(s)
  PROVE  Front(s) \in Seq(S) /\ Len(Front(s)) = m /\ \A j \in 1 .. m : Front(s)[j] = s[j]
<1>1. m = Len(s) - 1 /\ m <= Len(s)
  OBVIOUS
<1>2. SubSeq(s, 1, m) \in Seq(S) /\ Len(SubSeq(s, 1, m)) = m /\ \A j \in 1 .. m : SubSeq(s, 1, m)[j] = s[j]
  BY <1>1, Prefix
<1> QED
  BY <1>1, <1>2 DEF Front

\* The elements of a concatenation.
LEMMA ConcatParts ==
  ASSUME NEW S, NEW s \in Seq(S), NEW t \in Seq(S)
  PROVE  /\ s \o t \in Seq(S) /\ Len(s \o t) = Len(s) + Len(t)
         /\ \A j \in 1 .. Len(s) : (s \o t)[j] = s[j]
         /\ \A j \in 1 .. Len(t) : (s \o t)[Len(s) + j] = t[j]
         /\ \A j \in Len(s) + 1 .. Len(s) + Len(t) :
              (s \o t)[j] = t[j - Len(s)] /\ j - Len(s) \in 1 .. Len(t)
<1>1. PICK p \in Nat, q \in Nat : p = Len(s) /\ q = Len(t)
  OBVIOUS
<1>2. /\ s \o t \in Seq(S) /\ Len(s \o t) = p + q
      /\ \A j \in 1 .. p + q : (s \o t)[j] = IF j <= p THEN s[j] ELSE t[j - p]
  BY <1>1, ConcatProperties
<1>3. \A j \in 1 .. p : j \in 1 .. p + q /\ j <= p
  OBVIOUS
<1>4. \A j \in p + 1 .. p + q : j \in 1 .. p + q /\ ~(j <= p) /\ j - p \in 1 .. q
  OBVIOUS
<1>5. \A j \in 1 .. q : p + j \in 1 .. p + q /\ ~(p + j <= p) /\ (p + j) - p = j
  OBVIOUS
<1> QED
  BY <1>1, <1>2, <1>3, <1>4, <1>5

\* The range of a sequence.
LEMMA ToSetRange ==
  ASSUME NEW S, NEW s \in Seq(S)
  PROVE  ToSet(s) = {s[i] : i \in 1 .. Len(s)}
BY DEF ToSet

\* A set of naturals has a least element.
LEMMA LeastNat ==
  ASSUME NEW S \in SUBSET Nat, S # {}
  PROVE  \E x \in S : \A y \in S : x <= y
<1> DEFINE R == OpToRel(<, Nat)
<1>1. IsWellFoundedOn(R, Nat)
  BY NatLessThanWellFounded
<1>2. \E x \in S : \A y \in S : ~(<<y, x>> \in R)
  <2> HIDE DEF R
  <2> QED BY <1>1, WFMin
<1>3. \A x, y \in Nat : <<y, x>> \in R <=> y < x
  BY DEF OpToRel
<1> HIDE DEF R
<1>4. PICK x \in S : \A y \in S : ~(<<y, x>> \in R)
  BY <1>2
<1>5. ASSUME NEW y \in S PROVE x <= y
  <2>1. x \in Nat /\ y \in Nat
    OBVIOUS
  <2>2. ~(y < x)
    BY <1>3, <1>4, <2>1
  <2> QED BY <2>1, <2>2
<1> QED
  BY <1>5

\* A bounded set of naturals has a greatest element, which is its Max.
LEMMA MaxNat ==
  ASSUME NEW n \in Nat, NEW S \in SUBSET (0 .. n), S # {}
  PROVE  Max(S) \in S /\ \A y \in S : y <= Max(S)
<1> DEFINE T == {n - x : x \in S}
<1>1. T \in SUBSET Nat /\ T # {}
  <2>1. \A x \in S : n - x \in Nat
    OBVIOUS
  <2> QED BY <2>1
<1>2. PICK z \in T : \A y \in T : z <= y
  <2> HIDE DEF T
  <2> QED BY <1>1, LeastNat
<1>3. PICK x \in S : z = n - x
  OBVIOUS
<1>4. \A y \in S : x >= y
  <2> TAKE y \in S
  <2>1. n - y \in T
    OBVIOUS
  <2>2. z <= n - y /\ y \in Nat /\ x \in Nat
    <3> HIDE DEF T
    <3> QED BY <1>2, <2>1
  <2> QED BY <1>3, <2>2
<1>5. \E k \in S : \A y \in S : k >= y
  BY <1>4
<1>6. Max(S) \in S /\ \A y \in S : Max(S) >= y
  BY <1>5 DEF Max
<1> QED
  BY <1>6
=============================================================================
