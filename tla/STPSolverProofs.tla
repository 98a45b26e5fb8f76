-------------------------- MODULE STPSolverProofs --------------------------
(***************************************************************************)
(* Proofs about STPSolver: what it undoes by the times of its edges is     *)
(* what was done since (STPStructure), for every set of atoms, over the    *)
(* integers and over the reals, whatever the search finds.                 *)
(***************************************************************************)
EXTENDS STPSolver, SequenceLemmas, FiniteSetTheorems, SequenceTheorems, TLAPS

\* The store: edges come in pairs, an atom's and its negation.
EdgeType == [from : Vertex, to : Vertex, cost : Int \X Int]
Plain(e) == e.cost[2] = 0
StoreInv ==
  /\ IsFiniteSet(DOMAIN neg)
  /\ \A e \in DOMAIN neg :
       /\ e \in EdgeType /\ neg[e] \in DOMAIN neg /\ neg[neg[e]] = e /\ neg[e] # e
       /\ \/ Plain(e) /\ neg[e] = NegatedEdge(e)
          \/ Plain(neg[e]) /\ e = NegatedEdge(neg[e])
  /\ DOMAIN edgeOf \subseteq DOMAIN Atom /\ \A a \in DOMAIN edgeOf : edgeOf[a] \in DOMAIN neg
  /\ DOMAIN leqOf \subseteq DOMAIN neg /\ \A e \in DOMAIN leqOf : leqOf[e] \in DOMAIN edgeOf

\* The edges E of the graph and the deductions D are in the order of their times T, a
\* deduction has the time of the edge that gave it, the clock shows the time of the last
\* edge, and no other edge has a time.
Increasing(E, T) ==
  /\ \A i \in 1 .. Len(E) : T[E[i]] > 0
  /\ \A i, j \in 1 .. Len(E) : i < j => T[E[i]] < T[E[j]]
Monotone(D, T) == \A i, j \in 1 .. Len(D) : i <= j => T[D[i]] <= T[D[j]]
AtEdge(t, E, T) == \E k \in 1 .. Len(E) : t = T[E[k]]
Clock(E, T, now) == Len(E) > 0 => now = T[E[Len(E)]]
Timed(E, D, T, N, now) ==
  /\ E \in Seq(N) /\ D \in Seq(N) /\ T \in [N -> 0 .. MaxTime] /\ now \in 0 .. MaxTime
  /\ Increasing(E, T) /\ Monotone(D, T) /\ Clock(E, T, now)
  /\ \A i \in 1 .. Len(D) : AtEdge(T[D[i]], E, T)
  /\ \A e \in N : T[e] # 0 =>
       (\E k \in 1 .. Len(E) : E[k] = e) \/ (\E k \in 1 .. Len(D) : D[k] = e)

\* The first backtrack point is before every edge, each other at the time of an edge.
Points(B, E, T) ==
  /\ B \in Seq(Nat)
  /\ \A i, j \in 1 .. Len(B) : i <= j => B[i] <= B[j]
  /\ (Len(B) = 0) <=> (Len(E) = 0)
  /\ \A k \in 1 .. Len(E) : B[1] < T[E[k]]
  /\ \A i \in 2 .. Len(B) : AtEdge(B[i], E, T)

\* An edge of the graph belongs to a literal told, and is older than the points pushed
\* after that literal.
Owners(A, E, T, B, L) ==
  /\ A \in [Range(E) -> Literal]
  /\ L \in Seq(Literal) /\ Len(L) = Len(B)
  /\ \A e \in DOMAIN A : \E j \in 1 .. Len(L) : A[e] = L[j]
  /\ \A i \in 1 .. Len(B) : \A e \in DOMAIN A :
       T[e] <= B[i] <=> \E j \in 1 .. i - 1 : A[e] = L[j]

\* The limits cut the deductions handed out; none precede the first literal.
Handed(H, lim, L) ==
  /\ H \in Seq(Literal) /\ lim \in Seq(Nat) /\ Len(lim) = Len(L)
  /\ \A i \in 1 .. Len(lim) : lim[i] <= Len(H)
  /\ \A i, j \in 1 .. Len(lim) : i <= j => lim[i] <= lim[j]
  /\ Len(lim) > 0 => lim[1] = 0
  /\ Len(lim) = 0 => Len(H) = 0

\* The inconsistency was met while some literal was asserted that is still told.
Conflicting(l, b, L) ==
  /\ l \in Literal \cup {none} /\ b \in Nat
  /\ l # none => b \in 1 .. Len(L)

\* The inductive invariant.
GraphInv == Timed(addedEdges, deductions, setTime, DOMAIN neg, timestamp)
STPInv ==
  /\ StoreInv /\ GraphInv
  /\ Points(backtrack_points, addedEdges, setTime)
  /\ Owners(asgn, addedEdges, setTime, backtrack_points, told)
  /\ Handed(th_deductions, deductions_lim, told)
  /\ Conflicting(inv_asgn, inv_bpoint, told)
  /\ thrown \in {"no", "overflow", "underflow"}

-----------------------------------------------------------------------------
\* The negation of an edge.
LEMMA NegationFacts ==
  ASSUME NEW e \in EdgeType, NEW f \in EdgeType, Plain(e), Plain(f)
  PROVE  /\ NegatedEdge(e) \in EdgeType /\ NegatedEdge(e) # e
         /\ NegatedEdge(e) = NegatedEdge(f) => e = f
         /\ Plain(NegatedEdge(e)) => NegatedEdge(NegatedEdge(e)) = e
<1>1. PICK c \in Int, d \in Int : e.cost = <<c, 0>> /\ f.cost = <<d, 0>>
  <2>1. e.cost \in Int \X Int /\ f.cost \in Int \X Int
    BY DEF EdgeType
  <2>2. e.cost = <<e.cost[1], e.cost[2]>> /\ f.cost = <<f.cost[1], f.cost[2]>>
    BY <2>1
  <2> QED
    BY <2>1, <2>2 DEF Plain
<1>2. e = [from |-> e.from, to |-> e.to, cost |-> <<c, 0>>]
  BY <1>1 DEF EdgeType
<1>3. f = [from |-> f.from, to |-> f.to, cost |-> <<d, 0>>]
  BY <1>1 DEF EdgeType
<1>4. CASE RealLogic
  <2>1. /\ NegatedEdge(e) = [from |-> e.to, to |-> e.from, cost |-> <<-c, -1>>]
        /\ NegatedEdge(f) = [from |-> f.to, to |-> f.from, cost |-> <<-d, -1>>]
    BY <1>1, <1>4 DEF NegatedEdge, Negate
  <2>2. ~Plain(NegatedEdge(e))
    BY <2>1 DEF Plain
  <2>3. NegatedEdge(e) \in EdgeType
    BY <2>1 DEF EdgeType
  <2>4. ASSUME NegatedEdge(e) = NegatedEdge(f) PROVE e = f
    <3>1. e.to = f.to /\ e.from = f.from /\ <<-c, -1>> = <<-d, -1>>
      BY <2>1, <2>4
    <3>2. c = d
      BY <3>1
    <3> QED BY <1>2, <1>3, <3>1, <3>2
  <2> QED BY <2>2, <2>3, <2>4
<1>5. CASE ~RealLogic
  <2>1. /\ NegatedEdge(e) = [from |-> e.to, to |-> e.from, cost |-> <<-(c + 1), 0>>]
        /\ NegatedEdge(f) = [from |-> f.to, to |-> f.from, cost |-> <<-(d + 1), 0>>]
    BY <1>1, <1>5 DEF NegatedEdge, Negate
  <2>2. NegatedEdge(e) # e
    <3>1. <<-(c + 1), 0>> # <<c, 0>>
      OBVIOUS
    <3> QED BY <1>1, <2>1, <3>1
  <2>3. NegatedEdge(e) \in EdgeType
    BY <2>1 DEF EdgeType
  <2>4. ASSUME NegatedEdge(e) = NegatedEdge(f) PROVE e = f
    <3>1. e.to = f.to /\ e.from = f.from /\ <<-(c + 1), 0>> = <<-(d + 1), 0>>
      BY <2>1, <2>4
    <3>2. c = d
      BY <3>1
    <3> QED BY <1>2, <1>3, <3>1, <3>2
  <2>5. NegatedEdge(NegatedEdge(e)) = e
    <3>1. NegatedEdge(NegatedEdge(e)) =
            [from |-> e.from, to |-> e.to, cost |-> <<-((-(c + 1)) + 1), 0>>]
      BY <2>1, <1>5 DEF NegatedEdge, Negate
    <3>2. -((-(c + 1)) + 1) = c
      OBVIOUS
    <3> QED BY <1>2, <3>1, <3>2
  <2> QED BY <2>2, <2>3, <2>4, <2>5
<1> QED
  BY <1>4, <1>5

\* The edge of an atom.
LEMMA AtomEdgeFacts ==
  ASSUME NEW a \in DOMAIN Atom
  PROVE  AtomEdge(a) \in EdgeType /\ Plain(AtomEdge(a))
<1>1. Atom[a] \in [y : Vertex, x : Vertex, c : Int]
  BY AtomAssumption
<1>2. PICK c \in Int : getValue(Atom[a].c) = <<c, 0>>
  <2>1. MinInt .. MaxInt \subseteq Int /\ MinInt \in Int
    BY BoundAssumption DEF MinInt
  <2> QED BY <1>1, <2>1 DEF getValue
<1>3. AtomEdge(a) = [from |-> Atom[a].y, to |-> Atom[a].x, cost |-> <<c, 0>>]
  BY <1>2 DEF AtomEdge
<1> QED
  BY <1>1, <1>3 DEF EdgeType, Plain

\* SetToSeq lists elements of a finite set.
LEMMA SetToSeqParts ==
  ASSUME NEW S, IsFiniteSet(S)
  PROVE  SetToSeq(S) \in Seq(S)
<1>1. Cardinality(S) \in Nat /\ ExistsBijection(1 .. Cardinality(S), S)
  BY FS_CardinalityType
<1>2. \E f \in [1 .. Cardinality(S) -> S] : IsInjective(f)
  BY <1>1 DEF ExistsBijection, Bijection, Injection, IsInjective
<1>3. SetToSeq(S) \in [1 .. Cardinality(S) -> S]
  BY <1>2 DEF SetToSeq
<1> QED
  BY <1>1, <1>3, FunctionIsSeq
-----------------------------------------------------------------------------
\* What removeAfter(p) does.  The first h elements of s are those set by time p.
Cuts(s, T, p, h) ==
  h \in 0 .. Len(s) /\ \A i \in 1 .. Len(s) : T[s[i]] <= p <=> i <= h

\* The loops stop at the right place, because the times are in order.
LEMMA CutAt ==
  ASSUME NEW N, NEW s \in Seq(N), NEW T \in [N -> 0 .. MaxTime], Monotone(s, T),
         NEW p \in Nat, NEW S \in SUBSET (0 .. Len(s)), 0 \in S,
         \A i \in 1 .. Len(s) : i \in S <=> T[s[i]] <= p
  PROVE  Cuts(s, T, p, Max(S))
<1> DEFINE h == Max(S)
<1>1. DOMAIN s = 1 .. Len(s) /\ Len(s) \in Nat
  OBVIOUS
<1>2. \A i \in 1 .. Len(s) : T[s[i]] \in Nat
  <2>1. \A i \in 1 .. Len(s) : T[s[i]] \in 0 .. MaxTime
    OBVIOUS
  <2> QED BY <2>1, BoundAssumption
<1>3. h \in S /\ \A y \in S : y <= h
  <2>1. S # {}
    OBVIOUS
  <2> QED BY <1>1, <2>1, MaxNat
<1>4. h \in 0 .. Len(s)
  BY <1>1, <1>3
<1>5. ASSUME NEW i \in 1 .. Len(s), T[s[i]] <= p PROVE i <= h
  <2>1. i \in S
    BY <1>1, <1>5
  <2> QED BY <1>3, <2>1
<1>6. ASSUME NEW i \in 1 .. Len(s), i <= h PROVE T[s[i]] <= p
  <2>1. h \in 1 .. Len(s) /\ T[s[h]] <= p
    <3>1. h # 0
      BY <1>4, <1>6
    <3> HIDE DEF h
    <3>2. h \in 1 .. Len(s)
      BY <1>1, <1>4, <3>1
    <3> QED BY <1>3, <3>2
  <2> HIDE DEF h
  <2>2. T[s[i]] <= T[s[h]]
    BY <1>6, <2>1 DEF Monotone
  <2> QED BY <1>2, <2>1, <2>2
<1> QED
  BY <1>4, <1>5, <1>6 DEF Cuts

\* Times in strict order are in order.
LEMMA IncreasingMonotone ==
  ASSUME NEW N, NEW E \in Seq(N), NEW T \in [N -> 0 .. MaxTime], Increasing(E, T)
  PROVE  Monotone(E, T)
<1>1. \A i \in 1 .. Len(E) : T[E[i]] \in 0 .. MaxTime
  OBVIOUS
<1>2. \A i \in 1 .. Len(E) : T[E[i]] \in Nat
  BY <1>1, BoundAssumption
<1>3. ASSUME NEW i \in 1 .. Len(E), NEW j \in 1 .. Len(E), i <= j PROVE T[E[i]] <= T[E[j]]
  <2>1. CASE i = j
    BY <1>2, <2>1
  <2>2. CASE i < j
    BY <1>2, <2>2 DEF Increasing
  <2> QED BY <1>3, <2>1, <2>2
<1> QED
  BY <1>3 DEF Monotone

\* The times after removeAfter(p).
UpTo(T, N, p) == [e \in N |-> IF T[e] > p THEN 0 ELSE T[e]]

\* The edges and deductions cut off are exactly those with a later time.
LEMMA GoneIsLater ==
  ASSUME NEW N, NEW E, NEW D, NEW T, NEW now, Timed(E, D, T, N, now), NEW p \in Nat,
         NEW h, Cuts(E, T, p, h), NEW d, Cuts(D, T, p, d), NEW e \in N
  PROVE  T[e] > p <=> e \in {E[i] : i \in h + 1 .. Len(E)} \cup {D[i] : i \in d + 1 .. Len(D)}
<1>1. /\ T[e] \in Nat /\ E \in Seq(N) /\ D \in Seq(N)
      /\ \A x \in N : T[x] \in Nat
  BY BoundAssumption DEF Timed
<1>2. /\ h \in Nat /\ d \in Nat /\ Len(E) \in Nat /\ Len(D) \in Nat
      /\ \A i \in 1 .. Len(E) : E[i] \in N
      /\ \A i \in 1 .. Len(D) : D[i] \in N
  BY <1>1 DEF Cuts
<1>3. ASSUME T[e] > p
      PROVE e \in {E[i] : i \in h + 1 .. Len(E)} \cup {D[i] : i \in d + 1 .. Len(D)}
  <2>1. T[e] # 0
    BY <1>1, <1>3
  <2>2. (\E k \in 1 .. Len(E) : E[k] = e) \/ (\E k \in 1 .. Len(D) : D[k] = e)
    BY <2>1 DEF Timed
  <2>3. ASSUME NEW k \in 1 .. Len(E), E[k] = e PROVE k \in h + 1 .. Len(E)
    <3>1. ~(k <= h)
      BY <1>1, <1>3, <2>3 DEF Cuts
    <3> QED BY <1>2, <3>1
  <2>4. ASSUME NEW k \in 1 .. Len(D), D[k] = e PROVE k \in d + 1 .. Len(D)
    <3>1. ~(k <= d)
      BY <1>1, <1>3, <2>4 DEF Cuts
    <3> QED BY <1>2, <3>1
  <2> QED BY <2>2, <2>3, <2>4
<1>4. ASSUME NEW i \in h + 1 .. Len(E), E[i] = e PROVE T[e] > p
  <2>1. i \in 1 .. Len(E) /\ ~(i <= h)
    BY <1>2
  <2> QED BY <1>1, <1>4, <2>1 DEF Cuts
<1>5. ASSUME NEW i \in d + 1 .. Len(D), D[i] = e PROVE T[e] > p
  <2>1. i \in 1 .. Len(D) /\ ~(i <= d)
    BY <1>2
  <2> QED BY <1>1, <1>5, <2>1 DEF Cuts
<1> QED
  BY <1>3, <1>4, <1>5

\* What is left of the graph is in order again.
LEMMA CutTimed ==
  ASSUME NEW N, NEW E, NEW D, NEW T, NEW now, Timed(E, D, T, N, now), NEW p \in Nat,
         NEW h, Cuts(E, T, p, h), NEW d, Cuts(D, T, p, d)
  PROVE  /\ Timed(SubSeq(E, 1, h), SubSeq(D, 1, d), UpTo(T, N, p), N,
                  IF h = 0 THEN now ELSE T[E[h]])
         /\ \A t \in Nat : t <= p /\ AtEdge(t, E, T) => AtEdge(t, SubSeq(E, 1, h), UpTo(T, N, p))
<1> DEFINE E2 == SubSeq(E, 1, h)
           D2 == SubSeq(D, 1, d)
           T2 == UpTo(T, N, p)
           n2 == IF h = 0 THEN now ELSE T[E[h]]
<1>1. /\ E \in Seq(N) /\ D \in Seq(N) /\ T \in [N -> 0 .. MaxTime] /\ now \in 0 .. MaxTime
      /\ Len(E) \in Nat /\ Len(D) \in Nat /\ MaxTime \in Nat
  BY BoundAssumption DEF Timed
<1>2. /\ h \in Nat /\ d \in Nat /\ h <= Len(E) /\ d <= Len(D)
  BY <1>1 DEF Cuts
<1>3. E2 \in Seq(N) /\ Len(E2) = h /\ \A j \in 1 .. h : E2[j] = E[j]
  BY <1>1, <1>2, Prefix
<1>4. D2 \in Seq(N) /\ Len(D2) = d /\ \A j \in 1 .. d : D2[j] = D[j]
  BY <1>1, <1>2, Prefix
<1>5. /\ T2 \in [N -> 0 .. MaxTime]
      /\ \A e \in N : T2[e] = IF T[e] > p THEN 0 ELSE T[e]
  BY <1>1 DEF UpTo
<1>6. \A j \in 1 .. h : j \in 1 .. Len(E) /\ E[j] \in N /\ T[E[j]] <= p /\ T2[E[j]] = T[E[j]]
  <2> TAKE j \in 1 .. h
  <2>1. j \in 1 .. Len(E) /\ j <= h
    BY <1>1, <1>2
  <2>2. E[j] \in N /\ T[E[j]] <= p
    BY <1>1, <2>1 DEF Cuts
  <2>3. T[E[j]] \in Nat
    BY <1>1, <2>2
  <2> QED BY <1>5, <2>1, <2>2, <2>3
<1>7. \A j \in 1 .. d : j \in 1 .. Len(D) /\ D[j] \in N /\ T[D[j]] <= p /\ T2[D[j]] = T[D[j]]
  <2> TAKE j \in 1 .. d
  <2>1. j \in 1 .. Len(D) /\ j <= d
    BY <1>1, <1>2
  <2>2. D[j] \in N /\ T[D[j]] <= p
    BY <1>1, <2>1 DEF Cuts
  <2>3. T[D[j]] \in Nat
    BY <1>1, <2>2
  <2> QED BY <1>5, <2>1, <2>2, <2>3
<1> HIDE DEF E2, D2, T2
<1>8. n2 \in 0 .. MaxTime
  <2>1. CASE h = 0
    BY <1>1, <2>1
  <2>2. CASE h # 0
    <3>1. h \in 1 .. h
      BY <1>2, <2>2
    <3>2. E[h] \in N
      BY <1>6, <3>1
    <3> QED BY <1>1, <2>2, <3>2
  <2> QED BY <2>1, <2>2
<1>9. Increasing(E2, T2)
  <2>1. Increasing(E, T)
    BY DEF Timed
  <2>2. \A i \in 1 .. h : E2[i] = E[i] /\ T2[E2[i]] = T[E[i]] /\ T[E[i]] > 0
    BY <1>3, <1>6, <2>1 DEF Increasing
  <2>3. ASSUME NEW i \in 1 .. h, NEW j \in 1 .. h, i < j PROVE T2[E2[i]] < T2[E2[j]]
    <3>1. T[E[i]] < T[E[j]]
      BY <1>6, <2>1, <2>3 DEF Increasing
    <3> QED BY <2>2, <3>1
  <2> QED BY <1>3, <2>2, <2>3 DEF Increasing
<1>10. Monotone(D2, T2)
  <2>1. Monotone(D, T)
    BY DEF Timed
  <2>2. \A i \in 1 .. d : T2[D2[i]] = T[D[i]]
    BY <1>4, <1>7
  <2>3. ASSUME NEW i \in 1 .. d, NEW j \in 1 .. d, i <= j PROVE T2[D2[i]] <= T2[D2[j]]
    <3>1. T[D[i]] <= T[D[j]]
      BY <1>7, <2>1, <2>3 DEF Monotone
    <3> QED BY <2>2, <3>1
  <2> QED BY <1>4, <2>3 DEF Monotone
<1>11. Clock(E2, T2, n2)
  <2>1. SUFFICES ASSUME h > 0 PROVE n2 = T2[E2[h]]
    BY <1>3 DEF Clock
  <2>2. h \in 1 .. h /\ h # 0
    BY <1>2, <2>1
  <2> QED BY <1>3, <1>6, <2>2
<1>12. ASSUME NEW t \in Nat, t <= p, AtEdge(t, E, T) PROVE AtEdge(t, E2, T2)
  <2>1. PICK k \in 1 .. Len(E) : t = T[E[k]]
    BY <1>12 DEF AtEdge
  <2>2. k <= h
    BY <1>12, <2>1 DEF Cuts
  <2>3. k \in 1 .. h
    BY <1>1, <1>2, <2>1, <2>2
  <2> QED BY <1>3, <1>6, <2>1, <2>3 DEF AtEdge
<1>13. ASSUME NEW i \in 1 .. Len(D2) PROVE AtEdge(T2[D2[i]], E2, T2)
  <2>1. i \in 1 .. d
    BY <1>4
  <2>2. T2[D2[i]] = T[D[i]] /\ T[D[i]] <= p /\ i \in 1 .. Len(D) /\ D[i] \in N
    BY <1>4, <1>7, <2>1
  <2>3. T[D[i]] \in Nat /\ AtEdge(T[D[i]], E, T)
    <3>1. T[D[i]] \in 0 .. MaxTime
      BY <1>1, <2>2
    <3> QED BY <1>1, <2>2, <3>1 DEF Timed
  <2> QED BY <1>12, <2>2, <2>3
<1>14. ASSUME NEW e \in N, T2[e] # 0
       PROVE (\E k \in 1 .. Len(E2) : E2[k] = e) \/ (\E k \in 1 .. Len(D2) : D2[k] = e)
  <2>1. T[e] # 0 /\ ~(T[e] > p) /\ T[e] \in Nat
    BY <1>1, <1>5, <1>14
  <2>2. (\E k \in 1 .. Len(E) : E[k] = e) \/ (\E k \in 1 .. Len(D) : D[k] = e)
    BY <2>1 DEF Timed
  <2>3. ASSUME NEW k \in 1 .. Len(E), E[k] = e PROVE k \in 1 .. Len(E2) /\ E2[k] = e
    <3>1. k <= h
      BY <2>1, <2>3 DEF Cuts
    <3>2. k \in 1 .. h
      BY <1>1, <1>2, <3>1
    <3> QED BY <1>3, <2>3, <3>2
  <2>4. ASSUME NEW k \in 1 .. Len(D), D[k] = e PROVE k \in 1 .. Len(D2) /\ D2[k] = e
    <3>1. k <= d
      BY <2>1, <2>4 DEF Cuts
    <3>2. k \in 1 .. d
      BY <1>1, <1>2, <3>1
    <3> QED BY <1>4, <2>4, <3>2
  <2> QED BY <2>2, <2>3, <2>4
<1>15. Timed(E2, D2, T2, N, n2)
  BY <1>3, <1>4, <1>5, <1>8, <1>9, <1>10, <1>11, <1>13, <1>14 DEF Timed
<1> QED
  BY <1>12, <1>15 DEF E2, D2, T2

\* What is left of the backtrack points fits what is left of the graph.
LEMMA CutPoints ==
  ASSUME NEW N, NEW E, NEW D, NEW T, NEW now, Timed(E, D, T, N, now),
         NEW B, Points(B, E, T), NEW m \in 1 .. Len(B),
         NEW h, Cuts(E, T, B[m], h), NEW d, Cuts(D, T, B[m], d)
  PROVE  Points(SubSeq(B, 1, m - 1), SubSeq(E, 1, h), UpTo(T, N, B[m]))
<1> DEFINE p == B[m]
           E2 == SubSeq(E, 1, h)
           B2 == SubSeq(B, 1, m - 1)
           T2 == UpTo(T, N, p)
<1>1. /\ E \in Seq(N) /\ T \in [N -> 0 .. MaxTime] /\ Len(E) \in Nat /\ MaxTime \in Nat
      /\ B \in Seq(Nat) /\ Len(B) \in Nat
  BY BoundAssumption DEF Timed, Points
<1>2. p \in Nat /\ m - 1 \in Nat /\ m - 1 <= Len(B) /\ h \in Nat /\ h <= Len(E)
  BY <1>1 DEF Cuts
<1>3. B2 \in Seq(Nat) /\ Len(B2) = m - 1 /\ \A j \in 1 .. m - 1 : B2[j] = B[j]
  BY <1>1, <1>2, Prefix
<1>4. E2 \in Seq(N) /\ Len(E2) = h /\ \A j \in 1 .. h : E2[j] = E[j]
  BY <1>1, <1>2, Prefix
<1>5. \A j \in 1 .. h : j \in 1 .. Len(E) /\ T2[E2[j]] = T[E[j]] /\ T[E[j]] \in Nat
  <2> TAKE j \in 1 .. h
  <2>1. j \in 1 .. Len(E) /\ j <= h
    BY <1>1, <1>2
  <2>2. E[j] \in N /\ T[E[j]] <= p
    <3>1. E[j] \in N
      BY <1>1, <2>1
    <3>2. T[E[j]] <= p
      BY <2>1 DEF Cuts
    <3> QED BY <3>1, <3>2
  <2>3. T[E[j]] \in Nat
    BY <1>1, <2>2
  <2>4. T2[E[j]] = T[E[j]]
    BY <1>2, <2>2, <2>3 DEF UpTo
  <2> QED BY <1>4, <2>1, <2>3, <2>4
<1>6. \A t \in Nat : t <= p /\ AtEdge(t, E, T) => AtEdge(t, E2, T2)
  BY <1>2, CutTimed
<1>7. \A i, j \in 1 .. Len(B) : i <= j => B[i] <= B[j]
  BY DEF Points
<1>8. \A j \in 1 .. m - 1 : j \in 1 .. Len(B) /\ B[j] \in Nat /\ B[j] <= p
  <2> TAKE j \in 1 .. m - 1
  <2>1. j \in 1 .. Len(B) /\ j <= m
    BY <1>1, <1>2
  <2> QED BY <1>1, <1>7, <2>1
<1> HIDE DEF E2, B2, T2, p
<1>9. \A i, j \in 1 .. Len(B2) : i <= j => B2[i] <= B2[j]
  BY <1>3, <1>7, <1>8
<1>10. (m = 1) <=> (h = 0)
  <2>1. ASSUME m = 1, h # 0 PROVE FALSE
    <3>1. 1 \in 1 .. h /\ 1 \in 1 .. Len(E) /\ 1 <= h
      BY <1>1, <1>2, <2>1
    <3>2. T[E[1]] <= p /\ T[E[1]] \in Nat
      BY <1>5, <3>1 DEF Cuts, p
    <3>3. B[1] < T[E[1]]
      BY <3>1 DEF Points
    <3> QED BY <1>2, <2>1, <3>2, <3>3 DEF p
  <2>2. ASSUME m # 1, h = 0 PROVE FALSE
    <3>1. m \in 2 .. Len(B)
      BY <1>1, <2>2
    <3>2. AtEdge(p, E, T)
      BY <3>1 DEF Points, p
    <3>3. PICK k \in 1 .. Len(E2) : p = T2[E2[k]]
      <4>1. AtEdge(p, E2, T2)
        BY <1>2, <1>6, <3>2
      <4> QED BY <4>1 DEF AtEdge
    <3> QED BY <1>4, <2>2, <3>3
  <2> QED BY <2>1, <2>2
<1>11. (Len(B2) = 0) <=> (Len(E2) = 0)
  BY <1>3, <1>4, <1>10
<1>12. \A k \in 1 .. Len(E2) : B2[1] < T2[E2[k]]
  <2> TAKE k \in 1 .. Len(E2)
  <2>1. k \in 1 .. h /\ h # 0
    BY <1>2, <1>4
  <2>2. 1 \in 1 .. m - 1
    BY <1>2, <1>10, <2>1
  <2>3. B[1] < T[E[k]]
    BY <1>5, <2>1 DEF Points
  <2> QED BY <1>3, <1>5, <2>1, <2>2, <2>3
<1>13. \A i \in 2 .. Len(B2) : AtEdge(B2[i], E2, T2)
  <2> TAKE i \in 2 .. Len(B2)
  <2>1. i \in 1 .. m - 1 /\ i \in 2 .. Len(B)
    BY <1>1, <1>2, <1>3
  <2>2. AtEdge(B[i], E, T)
    BY <2>1 DEF Points
  <2>3. B2[i] = B[i] /\ B[i] \in Nat /\ B[i] <= p
    BY <1>3, <1>8, <2>1
  <2> QED BY <1>6, <2>2, <2>3
<1>14. Points(B2, E2, T2)
  BY <1>3, <1>9, <1>11, <1>12, <1>13 DEF Points
<1> QED
  BY <1>14 DEF E2, B2, T2, p

\* What is left of the graph belongs to the literals that are left.
LEMMA CutOwners ==
  ASSUME NEW N, NEW E, NEW D, NEW T, NEW now, Timed(E, D, T, N, now),
         NEW B, Points(B, E, T), NEW m \in 1 .. Len(B),
         NEW A, NEW L, Owners(A, E, T, B, L),
         NEW h, Cuts(E, T, B[m], h),
         NEW A2, A2 = [e \in DOMAIN A \ {E[i] : i \in h + 1 .. Len(E)} |-> A[e]]
  PROVE  Owners(A2, SubSeq(E, 1, h), UpTo(T, N, B[m]), SubSeq(B, 1, m - 1), SubSeq(L, 1, m - 1))
<1> DEFINE p == B[m]
           E2 == SubSeq(E, 1, h)
           B2 == SubSeq(B, 1, m - 1)
           L2 == SubSeq(L, 1, m - 1)
           T2 == UpTo(T, N, p)
           G == {E[i] : i \in h + 1 .. Len(E)}
<1>1. /\ E \in Seq(N) /\ T \in [N -> 0 .. MaxTime] /\ Len(E) \in Nat /\ MaxTime \in Nat
      /\ B \in Seq(Nat) /\ Len(B) \in Nat
      /\ L \in Seq(Literal) /\ Len(L) = Len(B) /\ A \in [Range(E) -> Literal]
  BY BoundAssumption DEF Timed, Points, Owners
<1>2. p \in Nat /\ m - 1 \in Nat /\ m - 1 <= Len(B) /\ h \in Nat /\ h <= Len(E)
  BY <1>1 DEF Cuts
<1>3. B2 \in Seq(Nat) /\ Len(B2) = m - 1 /\ \A j \in 1 .. m - 1 : B2[j] = B[j]
  BY <1>1, <1>2, Prefix
<1>4. E2 \in Seq(N) /\ Len(E2) = h /\ \A j \in 1 .. h : E2[j] = E[j]
  BY <1>1, <1>2, Prefix
<1>5. L2 \in Seq(Literal) /\ Len(L2) = m - 1 /\ \A j \in 1 .. m - 1 : L2[j] = L[j]
  BY <1>1, <1>2, Prefix
<1>6. /\ DOMAIN E = 1 .. Len(E) /\ DOMAIN E2 = 1 .. h
      /\ \A i \in 1 .. Len(E) : E[i] \in N /\ T[E[i]] \in Nat /\ (T[E[i]] <= p <=> i <= h)
  <2>1. \A i \in 1 .. Len(E) : E[i] \in N /\ T[E[i]] \in 0 .. MaxTime
    BY <1>1
  <2>2. \A i \in 1 .. Len(E) : T[E[i]] <= p <=> i <= h
    BY DEF Cuts
  <2>3. DOMAIN E = 1 .. Len(E) /\ DOMAIN E2 = 1 .. h
    <3> HIDE DEF E2
    <3> QED BY <1>1, <1>4
  <2> QED BY <1>1, <2>1, <2>2, <2>3
<1>0. A2 = [e \in DOMAIN A \ G |-> A[e]]
  OBVIOUS
<1> HIDE DEF E2, B2, L2, T2, p, G
<1>7. Range(E2) = Range(E) \ G
  <2>1. ASSUME NEW e \in Range(E2) PROVE e \in Range(E) /\ e \notin G
    <3>1. PICK i \in 1 .. h : e = E[i]
      BY <1>4, <1>6 DEF Range
    <3>2. i \in 1 .. Len(E) /\ i <= h
      BY <1>1, <1>2
    <3>3. ASSUME NEW k \in h + 1 .. Len(E), E[k] = e PROVE FALSE
      <4>1. k \in 1 .. Len(E) /\ ~(k <= h)
        BY <1>1, <1>2
      <4>2. T[E[i]] <= p
        BY <1>6, <3>2
      <4>3. ~(T[E[k]] <= p)
        BY <1>6, <4>1
      <4> QED BY <3>1, <3>3, <4>2, <4>3
    <3> QED BY <1>6, <3>1, <3>2, <3>3 DEF Range, G
  <2>2. ASSUME NEW e \in Range(E), e \notin G PROVE e \in Range(E2)
    <3>1. PICK i \in 1 .. Len(E) : e = E[i]
      BY <1>6 DEF Range
    <3>2. ~(i \in h + 1 .. Len(E))
      BY <2>2, <3>1 DEF G
    <3>3. i \in 1 .. h
      BY <1>1, <1>2, <3>1, <3>2
    <3> QED BY <1>4, <1>6, <3>1, <3>3 DEF Range
  <2> QED BY <2>1, <2>2
<1>8. DOMAIN A = Range(E)
  BY <1>1
<1>9. /\ A2 \in [Range(E2) -> Literal]
      /\ \A e \in Range(E2) : A2[e] = A[e] /\ e \in DOMAIN A
  BY <1>0, <1>1, <1>7, <1>8
<1>10. ASSUME NEW e \in Range(E2)
       PROVE  T2[e] = T[e] /\ T[e] <= p /\ e \in DOMAIN A
  <2>1. PICK i \in 1 .. h : e = E[i]
    BY <1>4, <1>6 DEF Range
  <2>2. i \in 1 .. Len(E) /\ i <= h
    BY <1>1, <1>2
  <2>3. e \in N /\ T[e] <= p /\ T[e] \in Nat
    BY <1>6, <2>1, <2>2
  <2>4. T2[e] = T[e]
    BY <1>2, <2>3 DEF T2, UpTo
  <2> QED BY <1>9, <2>3, <2>4
<1>11. ASSUME NEW e \in DOMAIN A, NEW i \in 1 .. Len(B)
       PROVE  T[e] <= B[i] <=> \E j \in 1 .. i - 1 : A[e] = L[j]
  BY DEF Owners
<1>12. ASSUME NEW e \in DOMAIN A2 PROVE \E j \in 1 .. Len(L2) : A2[e] = L2[j]
  <2>1. e \in Range(E2)
    BY <1>9
  <2>2. T[e] <= B[m] /\ e \in DOMAIN A
    BY <1>10, <2>1 DEF p
  <2>3. PICK j \in 1 .. m - 1 : A[e] = L[j]
    BY <1>11, <2>2
  <2> QED BY <1>5, <1>9, <2>1, <2>3
<1>13. ASSUME NEW i \in 1 .. Len(B2), NEW e \in DOMAIN A2
       PROVE  T2[e] <= B2[i] <=> \E j \in 1 .. i - 1 : A2[e] = L2[j]
  <2>1. e \in Range(E2)
    BY <1>9
  <2>2. i \in 1 .. m - 1 /\ i \in 1 .. Len(B)
    BY <1>1, <1>2, <1>3
  <2>3. T[e] <= B[i] <=> \E j \in 1 .. i - 1 : A[e] = L[j]
    BY <1>10, <1>11, <2>1, <2>2
  <2>4. \A j \in 1 .. i - 1 : L2[j] = L[j]
    BY <1>2, <1>5, <2>2
  <2> QED BY <1>3, <1>9, <1>10, <2>1, <2>2, <2>3, <2>4
<1>14. Owners(A2, E2, T2, B2, L2)
  BY <1>3, <1>5, <1>9, <1>12, <1>13 DEF Owners
<1> QED
  BY <1>14 DEF E2, B2, L2, T2, p

-----------------------------------------------------------------------------
\* What asserting a literal does.  Nothing is set later than the clock shows.
LEMMA NothingLater ==
  ASSUME NEW N, NEW E, NEW D, NEW T, NEW now, Timed(E, D, T, N, now)
  PROVE  /\ \A e \in N : T[e] \in Nat /\ T[e] <= now
         /\ (\E e \in N : T[e] # 0) => Len(E) > 0 /\ AtEdge(now, E, T)
<1>1. /\ E \in Seq(N) /\ D \in Seq(N) /\ T \in [N -> 0 .. MaxTime] /\ now \in 0 .. MaxTime
      /\ Len(E) \in Nat /\ Len(D) \in Nat /\ MaxTime \in Nat
  BY BoundAssumption DEF Timed
<1>2. Monotone(E, T)
  BY <1>1, IncreasingMonotone DEF Timed
<1>3. \A e \in N : T[e] \in Nat
  BY <1>1
<1>4. ASSUME NEW k \in 1 .. Len(E)
      PROVE  T[E[k]] <= now /\ Len(E) > 0 /\ AtEdge(now, E, T)
  <2>1. Len(E) \in 1 .. Len(E) /\ Len(E) > 0 /\ k <= Len(E)
    BY <1>1
  <2>2. now = T[E[Len(E)]]
    BY <2>1 DEF Timed, Clock
  <2>3. T[E[k]] <= T[E[Len(E)]]
    BY <1>2, <2>1 DEF Monotone
  <2> QED BY <2>1, <2>2, <2>3 DEF AtEdge
<1>5. ASSUME NEW e \in N, T[e] # 0 PROVE \E k \in 1 .. Len(E) : T[e] = T[E[k]]
  <2>1. (\E k \in 1 .. Len(E) : E[k] = e) \/ (\E k \in 1 .. Len(D) : D[k] = e)
    BY <1>5 DEF Timed
  <2>2. CASE \E k \in 1 .. Len(E) : E[k] = e
    BY <2>2
  <2>3. CASE \E k \in 1 .. Len(D) : D[k] = e
    <3>1. PICK k \in 1 .. Len(D) : D[k] = e
      BY <2>3
    <3>2. AtEdge(T[D[k]], E, T)
      BY DEF Timed
    <3> QED BY <3>1, <3>2 DEF AtEdge
  <2> QED BY <2>1, <2>2, <2>3
<1>6. ASSUME NEW e \in N PROVE T[e] <= now
  <2>1. CASE T[e] = 0
    BY <1>1, <2>1
  <2>2. CASE T[e] # 0
    BY <1>4, <1>5, <2>2
  <2> QED BY <2>1, <2>2
<1> QED
  BY <1>3, <1>4, <1>5, <1>6

\* No backtrack point is later than the clock shows.
LEMMA PointsPast ==
  ASSUME NEW N, NEW E, NEW D, NEW T, NEW now, Timed(E, D, T, N, now),
         NEW B, Points(B, E, T)
  PROVE  \A i \in 1 .. Len(B) : B[i] \in Nat /\ B[i] <= now
<1>1. /\ E \in Seq(N) /\ T \in [N -> 0 .. MaxTime] /\ now \in Nat /\ MaxTime \in Nat
      /\ B \in Seq(Nat) /\ Len(B) \in Nat /\ Len(E) \in Nat
  BY BoundAssumption DEF Timed, Points
<1>2. \A k \in 1 .. Len(E) : T[E[k]] \in Nat /\ T[E[k]] <= now
  <2>1. \A k \in 1 .. Len(E) : E[k] \in N
    BY <1>1
  <2> QED BY <2>1, NothingLater
<1> TAKE i \in 1 .. Len(B)
<1>3. B[i] \in Nat
  BY <1>1
<1>4. CASE i = 1
  <2>1. Len(E) # 0
    BY <1>1 DEF Points
  <2>2. 1 \in 1 .. Len(E)
    BY <1>1, <2>1
  <2>3. B[1] < T[E[1]]
    BY <2>2 DEF Points
  <2> QED BY <1>1, <1>2, <1>3, <1>4, <2>2, <2>3
<1>5. CASE i # 1
  <2>1. i \in 2 .. Len(B)
    BY <1>1, <1>5
  <2>2. AtEdge(B[i], E, T)
    BY <2>1 DEF Points
  <2> QED BY <1>2, <1>3, <2>2 DEF AtEdge
<1> QED
  BY <1>4, <1>5

\* A point pushed when the graph has an edge, and the graph stays.
LEMMA PushPoints ==
  ASSUME NEW N, NEW E, NEW D, NEW T, NEW now, Timed(E, D, T, N, now),
         NEW B, Points(B, E, T), AtEdge(now, E, T)
  PROVE  Points(Append(B, now), E, T)
<1> DEFINE B2 == Append(B, now)
<1>1. /\ now \in Nat /\ MaxTime \in Nat /\ E \in Seq(N)
      /\ B \in Seq(Nat) /\ Len(B) \in Nat /\ Len(E) \in Nat
  BY BoundAssumption DEF Timed, Points
<1>2. /\ B2 \in Seq(Nat) /\ Len(B2) = Len(B) + 1 /\ B2[Len(B) + 1] = now
      /\ \A i \in 1 .. Len(B) : B2[i] = B[i]
  BY <1>1
<1>3. \A i \in 1 .. Len(B) : B[i] \in Nat /\ B[i] <= now
  BY PointsPast
<1>4. Len(E) # 0 /\ Len(B) # 0
  <2>1. Len(E) # 0
    BY <1>1 DEF AtEdge
  <2> QED BY <2>1 DEF Points
<1> HIDE DEF B2
<1>5. \A i, j \in 1 .. Len(B2) : i <= j => B2[i] <= B2[j]
  <2> TAKE i, j \in 1 .. Len(B2)
  <2>1. CASE j \in 1 .. Len(B)
    <3>1. i <= j => i \in 1 .. Len(B)
      BY <1>1, <1>2, <2>1
    <3> QED BY <1>2, <2>1, <3>1 DEF Points
  <2>2. CASE j = Len(B) + 1
    <3>1. i \in 1 .. Len(B) \/ i = Len(B) + 1
      BY <1>1, <1>2
    <3>2. B2[j] = now
      BY <1>2, <2>2
    <3>3. CASE i \in 1 .. Len(B)
      <4>1. B2[i] = B[i] /\ B[i] <= now
        BY <1>2, <1>3, <3>3
      <4> QED BY <3>2, <4>1
    <3>4. CASE i = Len(B) + 1
      BY <1>1, <1>2, <3>2, <3>4
    <3> QED BY <3>1, <3>3, <3>4
  <2> QED BY <1>1, <1>2, <2>1, <2>2
<1>6. \A k \in 1 .. Len(E) : B2[1] < T[E[k]]
  <2>1. 1 \in 1 .. Len(B)
    BY <1>1, <1>4
  <2> QED BY <1>2, <2>1 DEF Points
<1>7. \A i \in 2 .. Len(B2) : AtEdge(B2[i], E, T)
  <2> TAKE i \in 2 .. Len(B2)
  <2>1. i \in 2 .. Len(B) \/ i = Len(B) + 1
    BY <1>1, <1>2
  <2>2. ASSUME i \in 2 .. Len(B) PROVE B2[i] = B[i] /\ AtEdge(B[i], E, T)
    <3>1. i \in 1 .. Len(B)
      BY <1>1, <2>2
    <3> QED BY <1>2, <2>2, <3>1 DEF Points
  <2> QED BY <1>2, <2>1, <2>2
<1>8. Points(B2, E, T)
  BY <1>1, <1>2, <1>4, <1>5, <1>6, <1>7 DEF Points
<1> QED
  BY <1>8 DEF B2

\* A literal told that adds no edge.
LEMMA PushOwners ==
  ASSUME NEW N, NEW E, NEW D, NEW T, NEW now, Timed(E, D, T, N, now),
         NEW B, Points(B, E, T), NEW A, NEW L, Owners(A, E, T, B, L), NEW l \in Literal
  PROVE  Owners(A, E, T, Append(B, now), Append(L, l))
<1> DEFINE B2 == Append(B, now)
           L2 == Append(L, l)
<1>1. /\ now \in Nat /\ E \in Seq(N) /\ B \in Seq(Nat) /\ Len(B) \in Nat
      /\ L \in Seq(Literal) /\ Len(L) = Len(B) /\ A \in [Range(E) -> Literal]
  BY BoundAssumption DEF Timed, Points, Owners
<1>2. /\ B2 \in Seq(Nat) /\ Len(B2) = Len(B) + 1 /\ B2[Len(B) + 1] = now
      /\ \A i \in 1 .. Len(B) : B2[i] = B[i]
  BY <1>1
<1>3. /\ L2 \in Seq(Literal) /\ Len(L2) = Len(B) + 1
      /\ \A i \in 1 .. Len(B) : L2[i] = L[i]
  BY <1>1
<1>4. \A e \in DOMAIN A : T[e] <= now
  <2>1. \A e \in DOMAIN A : e \in N
    BY <1>1 DEF Range
  <2> QED BY <2>1, NothingLater
<1>5. \A e \in DOMAIN A : \E j \in 1 .. Len(B) : A[e] = L[j]
  BY <1>1 DEF Owners
<1> HIDE DEF B2, L2
<1>6. ASSUME NEW e \in DOMAIN A PROVE \E j \in 1 .. Len(L2) : A[e] = L2[j]
  <2>1. PICK j \in 1 .. Len(B) : A[e] = L[j]
    BY <1>5
  <2>2. j \in 1 .. Len(L2)
    BY <1>1, <1>3
  <2> QED BY <1>3, <2>1, <2>2
<1>7. ASSUME NEW i \in 1 .. Len(B2), NEW e \in DOMAIN A
      PROVE  T[e] <= B2[i] <=> \E j \in 1 .. i - 1 : A[e] = L2[j]
  <2>1. CASE i \in 1 .. Len(B)
    <3>1. T[e] <= B[i] <=> \E j \in 1 .. i - 1 : A[e] = L[j]
      BY <2>1 DEF Owners
    <3>2. \A j \in 1 .. i - 1 : j \in 1 .. Len(B)
      BY <1>1, <2>1
    <3>3. \A j \in 1 .. i - 1 : L2[j] = L[j]
      BY <1>3, <3>2
    <3> QED BY <1>2, <2>1, <3>1, <3>3
  <2>2. CASE i = Len(B) + 1
    <3>1. PICK j \in 1 .. Len(B) : A[e] = L[j]
      BY <1>5
    <3>2. j \in 1 .. i - 1 /\ A[e] = L2[j]
      BY <1>1, <1>3, <2>2, <3>1
    <3> QED BY <1>2, <1>4, <2>2, <3>2
  <2> QED BY <1>1, <1>2, <2>1, <2>2
<1>8. Owners(A, E, T, B2, L2)
  BY <1>1, <1>2, <1>3, <1>6, <1>7 DEF Owners
<1> QED
  BY <1>8 DEF B2, L2

\* The times once e and the deductions F are set.
SetAt(T, N, e, F, t) == [f \in N |-> IF f = e \/ f \in Range(F) THEN t ELSE T[f]]

\* A new edge e with the deductions F it gives.
LEMMA AddTimed ==
  ASSUME NEW N, NEW E, NEW D, NEW T, NEW now, Timed(E, D, T, N, now), now < MaxTime,
         NEW e \in N, T[e] = 0, NEW F \in Seq(N), \A i \in 1 .. Len(F) : T[F[i]] = 0
  PROVE  /\ Timed(Append(E, e), D \o F, SetAt(T, N, e, F, now + 1), N, now + 1)
         /\ \A f \in N : T[f] # 0 => SetAt(T, N, e, F, now + 1)[f] = T[f]
<1> DEFINE E2 == Append(E, e)
           D2 == D \o F
           T2 == SetAt(T, N, e, F, now + 1)
<1>1. /\ E \in Seq(N) /\ D \in Seq(N) /\ T \in [N -> 0 .. MaxTime] /\ now \in 0 .. MaxTime
      /\ Len(E) \in Nat /\ Len(D) \in Nat /\ Len(F) \in Nat /\ MaxTime \in Nat /\ now \in Nat
  BY BoundAssumption DEF Timed
<1>2. now + 1 \in 0 .. MaxTime /\ now + 1 > 0
  BY <1>1
<1>3. /\ E2 \in Seq(N) /\ Len(E2) = Len(E) + 1 /\ E2[Len(E) + 1] = e
      /\ \A i \in 1 .. Len(E) : E2[i] = E[i]
  BY <1>1
<1>4. /\ D2 \in Seq(N) /\ Len(D2) = Len(D) + Len(F)
      /\ \A j \in 1 .. Len(D) : D2[j] = D[j]
      /\ \A j \in 1 .. Len(F) : D2[Len(D) + j] = F[j]
      /\ \A j \in Len(D) + 1 .. Len(D) + Len(F) :
           D2[j] = F[j - Len(D)] /\ j - Len(D) \in 1 .. Len(F)
  BY <1>1, ConcatParts
<1>5. Range(F) = {F[i] : i \in 1 .. Len(F)}
  <2>1. DOMAIN F = 1 .. Len(F)
    OBVIOUS
  <2> QED BY <2>1 DEF Range
<1>6. /\ T2 \in [N -> 0 .. MaxTime]
      /\ T2[e] = now + 1
      /\ \A i \in 1 .. Len(F) : F[i] \in N /\ T2[F[i]] = now + 1
      /\ \A f \in N : T2[f] = T[f] \/ (f = e \/ \E i \in 1 .. Len(F) : f = F[i])
  <2>1. \A i \in 1 .. Len(F) : F[i] \in N /\ F[i] \in Range(F)
    BY <1>5
  <2>2. T2 \in [N -> 0 .. MaxTime]
    BY <1>1, <1>2 DEF SetAt
  <2>3. \A f \in N : T2[f] = IF f = e \/ f \in Range(F) THEN now + 1 ELSE T[f]
    BY DEF SetAt
  <2> HIDE DEF T2
  <2> QED BY <1>5, <2>1, <2>2, <2>3
<1>7. \A f \in N : T[f] # 0 => T2[f] = T[f]
  <2> HIDE DEF T2
  <2> TAKE f \in N
  <2> HAVE T[f] # 0
  <2>1. f # e /\ \A i \in 1 .. Len(F) : f # F[i]
    OBVIOUS
  <2> QED BY <1>6, <2>1
<1>8. \A f \in N : T[f] \in Nat /\ T[f] <= now
  BY NothingLater
<1>9. \A i \in 1 .. Len(E) : E[i] \in N /\ T[E[i]] > 0 /\ T2[E[i]] = T[E[i]] /\ T2[E[i]] <= now
  <2> HIDE DEF T2
  <2>1. \A i \in 1 .. Len(E) : E[i] \in N /\ T[E[i]] > 0
    BY <1>1 DEF Timed, Increasing
  <2>2. \A i \in 1 .. Len(E) : T[E[i]] # 0
    BY <1>8, <2>1
  <2> QED BY <1>7, <1>8, <2>1, <2>2
<1>10. \A i \in 1 .. Len(D) : D[i] \in N /\ AtEdge(T[D[i]], E, T) /\ T[D[i]] # 0
  <2> TAKE i \in 1 .. Len(D)
  <2>1. D[i] \in N
    BY <1>1
  <2>2. AtEdge(T[D[i]], E, T)
    BY DEF Timed
  <2>3. PICK k \in 1 .. Len(E) : T[D[i]] = T[E[k]]
    BY <2>2 DEF AtEdge
  <2>4. T[E[k]] # 0
    BY <1>8, <1>9
  <2> QED BY <2>1, <2>2, <2>3, <2>4
<1>11. \A i \in 1 .. Len(D) : T2[D[i]] = T[D[i]] /\ T2[D[i]] <= now
  BY <1>7, <1>8, <1>10
<1> HIDE DEF E2, D2, T2
<1>12. Increasing(E2, T2)
  <2>1. \A i \in 1 .. Len(E2) : i \in 1 .. Len(E) \/ i = Len(E) + 1
    BY <1>1, <1>3
  <2>2. ASSUME NEW i \in 1 .. Len(E2) PROVE T2[E2[i]] > 0
    <3>1. CASE i \in 1 .. Len(E)
      BY <1>3, <1>9, <3>1
    <3>2. CASE i = Len(E) + 1
      BY <1>2, <1>3, <1>6, <3>2
    <3> QED BY <2>1, <3>1, <3>2
  <2>3. ASSUME NEW i \in 1 .. Len(E2), NEW j \in 1 .. Len(E2), i < j
        PROVE  T2[E2[i]] < T2[E2[j]]
    <3>1. i \in 1 .. Len(E)
      BY <1>1, <1>3, <2>3
    <3>2. CASE j \in 1 .. Len(E)
      <4>1. T[E[i]] < T[E[j]]
        BY <2>3, <3>1, <3>2 DEF Timed, Increasing
      <4> QED BY <1>3, <1>9, <3>1, <3>2, <4>1
    <3>3. CASE j = Len(E) + 1
      <4>1. T2[E2[j]] = now + 1
        BY <1>3, <1>6, <3>3
      <4>2. T2[E2[i]] = T[E[i]] /\ T[E[i]] <= now /\ T[E[i]] \in Nat
        BY <1>3, <1>8, <1>9, <3>1
      <4> QED BY <1>1, <4>1, <4>2
    <3> QED BY <2>1, <3>2, <3>3
  <2> QED BY <2>2, <2>3 DEF Increasing
<1>13. Monotone(D2, T2)
  <2>1. \A i \in 1 .. Len(D2) : i \in 1 .. Len(D) \/ i \in Len(D) + 1 .. Len(D) + Len(F)
    BY <1>1, <1>4
  <2>2. \A i \in Len(D) + 1 .. Len(D) + Len(F) : T2[D2[i]] = now + 1
    <3> TAKE i \in Len(D) + 1 .. Len(D) + Len(F)
    <3>1. D2[i] = F[i - Len(D)] /\ i - Len(D) \in 1 .. Len(F)
      BY <1>4
    <3> QED BY <1>6, <3>1
  <2>3. ASSUME NEW i \in 1 .. Len(D2), NEW j \in 1 .. Len(D2), i <= j
        PROVE  T2[D2[i]] <= T2[D2[j]]
    <3>1. CASE j \in 1 .. Len(D)
      <4>1. i \in 1 .. Len(D)
        BY <1>1, <2>3, <3>1
      <4>2. T[D[i]] <= T[D[j]]
        BY <2>3, <3>1, <4>1 DEF Timed, Monotone
      <4> QED BY <1>4, <1>11, <3>1, <4>1, <4>2
    <3>2. CASE j \in Len(D) + 1 .. Len(D) + Len(F)
      <4>1. T2[D2[j]] = now + 1
        BY <2>2, <3>2
      <4>2. CASE i \in 1 .. Len(D)
        <5>1. T2[D2[i]] = T[D[i]] /\ T[D[i]] <= now /\ T[D[i]] \in Nat
          BY <1>4, <1>8, <1>10, <1>11, <4>2
        <5> QED BY <1>1, <4>1, <5>1
      <4>3. CASE i \in Len(D) + 1 .. Len(D) + Len(F)
        BY <1>1, <2>2, <4>1, <4>3
      <4> QED BY <2>1, <4>2, <4>3
    <3> QED BY <2>1, <3>1, <3>2
  <2> QED BY <2>3 DEF Monotone
<1>14. Clock(E2, T2, now + 1)
  BY <1>3, <1>6 DEF Clock
<1>15. ASSUME NEW i \in 1 .. Len(D2) PROVE AtEdge(T2[D2[i]], E2, T2)
  <2>1. i \in 1 .. Len(D) \/ i \in Len(D) + 1 .. Len(D) + Len(F)
    BY <1>1, <1>4
  <2>2. CASE i \in 1 .. Len(D)
    <3>1. PICK k \in 1 .. Len(E) : T[D[i]] = T[E[k]]
      BY <1>10, <2>2 DEF AtEdge
    <3>2. k \in 1 .. Len(E2)
      BY <1>1, <1>3
    <3>3. T2[E2[k]] = T[E[k]]
      BY <1>3, <1>9
    <3>4. T2[D2[i]] = T[D[i]]
      BY <1>4, <1>11, <2>2
    <3> QED BY <3>1, <3>2, <3>3, <3>4 DEF AtEdge
  <2>3. CASE i \in Len(D) + 1 .. Len(D) + Len(F)
    <3>1. T2[D2[i]] = now + 1
      <4>1. D2[i] = F[i - Len(D)] /\ i - Len(D) \in 1 .. Len(F)
        BY <1>4, <2>3
      <4> QED BY <1>6, <4>1
    <3>2. Len(E) + 1 \in 1 .. Len(E2) /\ T2[E2[Len(E) + 1]] = now + 1
      BY <1>1, <1>3, <1>6
    <3> QED BY <3>1, <3>2 DEF AtEdge
  <2> QED BY <2>1, <2>2, <2>3
<1>16. ASSUME NEW f \in N, T2[f] # 0
       PROVE (\E k \in 1 .. Len(E2) : E2[k] = f) \/ (\E k \in 1 .. Len(D2) : D2[k] = f)
  <2>1. CASE f = e
    <3>1. Len(E) + 1 \in 1 .. Len(E2)
      BY <1>1, <1>3
    <3> QED BY <1>3, <2>1, <3>1
  <2>2. CASE \E i \in 1 .. Len(F) : f = F[i]
    <3>1. PICK i \in 1 .. Len(F) : f = F[i]
      BY <2>2
    <3>2. Len(D) + i \in 1 .. Len(D2)
      BY <1>1, <1>4
    <3> QED BY <1>4, <3>1, <3>2
  <2>3. CASE T2[f] = T[f]
    <3>1. (\E k \in 1 .. Len(E) : E[k] = f) \/ (\E k \in 1 .. Len(D) : D[k] = f)
      BY <1>16, <2>3 DEF Timed
    <3>2. \A k \in 1 .. Len(E) : k \in 1 .. Len(E2)
      BY <1>1, <1>3
    <3>3. \A k \in 1 .. Len(D) : k \in 1 .. Len(D2)
      BY <1>1, <1>4
    <3> QED BY <1>3, <1>4, <3>1, <3>2, <3>3
  <2> QED BY <1>6, <2>1, <2>2, <2>3
<1>17. Timed(E2, D2, T2, N, now + 1)
  BY <1>2, <1>3, <1>4, <1>6, <1>12, <1>13, <1>14, <1>15, <1>16 DEF Timed
<1> QED
  BY <1>7, <1>17 DEF E2, D2, T2

\* A point pushed before a new edge.
LEMMA AddPoints ==
  ASSUME NEW N, NEW E, NEW D, NEW T, NEW now, Timed(E, D, T, N, now),
         NEW B, Points(B, E, T), NEW e \in N,
         NEW T2, T2[e] = now + 1, \A f \in N : T[f] # 0 => T2[f] = T[f]
  PROVE  Points(Append(B, now), Append(E, e), T2)
<1> DEFINE B2 == Append(B, now)
           E2 == Append(E, e)
<1>1. /\ now \in Nat /\ MaxTime \in Nat /\ E \in Seq(N)
      /\ B \in Seq(Nat) /\ Len(B) \in Nat /\ Len(E) \in Nat
  BY BoundAssumption DEF Timed, Points
<1>2. /\ B2 \in Seq(Nat) /\ Len(B2) = Len(B) + 1 /\ B2[Len(B) + 1] = now
      /\ \A i \in 1 .. Len(B) : B2[i] = B[i]
  BY <1>1
<1>3. /\ E2 \in Seq(N) /\ Len(E2) = Len(E) + 1 /\ E2[Len(E) + 1] = e
      /\ \A i \in 1 .. Len(E) : E2[i] = E[i]
  BY <1>1
<1>4. \A i \in 1 .. Len(B) : B[i] \in Nat /\ B[i] <= now
  BY PointsPast
<1>5. \A i \in 1 .. Len(E) :
        /\ E[i] \in N /\ T[E[i]] \in Nat /\ T[E[i]] <= now /\ T2[E2[i]] = T[E[i]]
  <2> TAKE i \in 1 .. Len(E)
  <2>1. E[i] \in N /\ T[E[i]] > 0
    BY <1>1 DEF Timed, Increasing
  <2>2. T[E[i]] \in Nat /\ T[E[i]] <= now
    BY <2>1, NothingLater
  <2>3. T2[E[i]] = T[E[i]]
    <3>1. T[E[i]] # 0
      BY <2>1, <2>2
    <3> QED BY <2>1, <3>1
  <2> QED BY <1>3, <2>1, <2>2, <2>3
<1> HIDE DEF B2, E2
<1>6. \A i, j \in 1 .. Len(B2) : i <= j => B2[i] <= B2[j]
  <2> TAKE i, j \in 1 .. Len(B2)
  <2>1. CASE j \in 1 .. Len(B)
    <3>1. i <= j => i \in 1 .. Len(B)
      BY <1>1, <1>2, <2>1
    <3> QED BY <1>2, <2>1, <3>1 DEF Points
  <2>2. CASE j = Len(B) + 1
    <3>1. i \in 1 .. Len(B) \/ i = Len(B) + 1
      BY <1>1, <1>2
    <3>2. B2[j] = now
      BY <1>2, <2>2
    <3>3. CASE i \in 1 .. Len(B)
      <4>1. B2[i] = B[i] /\ B[i] <= now
        BY <1>2, <1>4, <3>3
      <4> QED BY <3>2, <4>1
    <3>4. CASE i = Len(B) + 1
      BY <1>1, <1>2, <3>2, <3>4
    <3> QED BY <3>1, <3>3, <3>4
  <2> QED BY <1>1, <1>2, <2>1, <2>2
<1>7. ASSUME NEW k \in 1 .. Len(E2) PROVE B2[1] < T2[E2[k]]
  <2>1. CASE k = Len(E) + 1
    <3>1. T2[E2[k]] = now + 1
      BY <1>3, <2>1
    <3>2. B2[1] \in Nat /\ B2[1] <= now
      <4>1. CASE Len(B) = 0
        BY <1>1, <1>2, <4>1
      <4>2. CASE Len(B) # 0
        <5>1. 1 \in 1 .. Len(B)
          BY <1>1, <4>2
        <5> QED BY <1>2, <1>4, <5>1
      <4> QED BY <4>1, <4>2
    <3> QED BY <1>1, <3>1, <3>2
  <2>2. CASE k \in 1 .. Len(E)
    <3>1. Len(E) # 0 /\ Len(B) # 0
      <4>1. Len(E) # 0
        BY <1>1, <2>2
      <4> QED BY <4>1 DEF Points
    <3>2. 1 \in 1 .. Len(B)
      BY <1>1, <3>1
    <3>3. B[1] < T[E[k]]
      BY <2>2 DEF Points
    <3>4. B2[1] = B[1] /\ T2[E2[k]] = T[E[k]]
      BY <1>2, <1>5, <2>2, <3>2
    <3> QED BY <3>3, <3>4
  <2> QED BY <1>1, <1>3, <2>1, <2>2
<1>8. ASSUME NEW t, AtEdge(t, E, T) PROVE AtEdge(t, E2, T2)
  <2>1. PICK k \in 1 .. Len(E) : t = T[E[k]]
    BY <1>8 DEF AtEdge
  <2>2. k \in 1 .. Len(E2)
    BY <1>1, <1>3
  <2> QED BY <1>5, <2>1, <2>2 DEF AtEdge
<1>9. ASSUME NEW i \in 2 .. Len(B2) PROVE AtEdge(B2[i], E2, T2)
  <2>1. CASE i \in 2 .. Len(B)
    <3>1. i \in 1 .. Len(B)
      BY <1>1, <2>1
    <3>2. B2[i] = B[i] /\ AtEdge(B[i], E, T)
      BY <1>2, <2>1, <3>1 DEF Points
    <3> QED BY <1>8, <3>2
  <2>2. CASE i = Len(B) + 1
    <3>1. Len(B) # 0
      BY <1>1, <2>2
    <3>2. Len(E) # 0
      BY <3>1 DEF Points
    <3>3. Len(E) > 0 /\ Len(E) \in 1 .. Len(E)
      BY <1>1, <3>2
    <3>4. now = T[E[Len(E)]]
      BY <3>3 DEF Timed, Clock
    <3>5. AtEdge(now, E, T)
      BY <3>3, <3>4 DEF AtEdge
    <3> QED BY <1>2, <1>8, <2>2, <3>5
  <2> QED BY <1>1, <1>2, <2>1, <2>2
<1>10. ~(Len(B2) = 0) /\ ~(Len(E2) = 0)
  BY <1>1, <1>2, <1>3
<1>11. Points(B2, E2, T2)
  BY <1>2, <1>6, <1>7, <1>9, <1>10 DEF Points
<1> QED
  BY <1>11 DEF B2, E2

\* A literal told whose edge is added.
LEMMA AddOwners ==
  ASSUME NEW N, NEW E, NEW D, NEW T, NEW now, Timed(E, D, T, N, now),
         NEW B, Points(B, E, T), NEW A, NEW L, Owners(A, E, T, B, L),
         NEW l \in Literal, \A j \in 1 .. Len(L) : L[j] # l, NEW e \in N, T[e] = 0,
         NEW T2, T2[e] = now + 1, \A f \in N : T[f] # 0 => T2[f] = T[f],
         NEW A2, A2 \in [Range(E) \cup {e} -> Literal], A2[e] = l,
         \A f \in Range(E) : f # e => A2[f] = A[f]
  PROVE  Owners(A2, Append(E, e), T2, Append(B, now), Append(L, l))
<1> DEFINE E2 == Append(E, e)
           B2 == Append(B, now)
           L2 == Append(L, l)
<1>1. /\ now \in Nat /\ E \in Seq(N) /\ B \in Seq(Nat) /\ Len(B) \in Nat /\ Len(E) \in Nat
      /\ L \in Seq(Literal) /\ Len(L) = Len(B) /\ A \in [Range(E) -> Literal]
  BY BoundAssumption DEF Timed, Points, Owners
<1>2. /\ B2 \in Seq(Nat) /\ Len(B2) = Len(B) + 1 /\ B2[Len(B) + 1] = now
      /\ \A i \in 1 .. Len(B) : B2[i] = B[i]
  BY <1>1
<1>3. /\ L2 \in Seq(Literal) /\ Len(L2) = Len(B) + 1 /\ L2[Len(B) + 1] = l
      /\ \A i \in 1 .. Len(B) : L2[i] = L[i]
  BY <1>1
<1>4. /\ E2 \in Seq(N) /\ Len(E2) = Len(E) + 1 /\ E2[Len(E) + 1] = e
      /\ \A i \in 1 .. Len(E) : E2[i] = E[i]
      /\ DOMAIN E = 1 .. Len(E) /\ DOMAIN E2 = 1 .. Len(E) + 1
  BY <1>1
<1>5. \A f \in Range(E) : f \in N /\ f # e /\ T[f] \in Nat /\ T[f] <= now /\ T2[f] = T[f]
  <2> TAKE f \in Range(E)
  <2>1. PICK i \in 1 .. Len(E) : f = E[i]
    BY <1>4 DEF Range
  <2>2. f \in N /\ T[f] > 0
    BY <1>1, <2>1 DEF Timed, Increasing
  <2>3. T[f] \in Nat /\ T[f] <= now
    BY <2>2, NothingLater
  <2>4. T[f] # 0
    BY <2>2, <2>3
  <2> QED BY <2>2, <2>3, <2>4
<1> HIDE DEF B2, L2, E2
<1>6. Range(E2) = Range(E) \cup {e}
  <2>1. ASSUME NEW f \in Range(E2) PROVE f \in Range(E) \cup {e}
    <3>1. PICK i \in 1 .. Len(E) + 1 : f = E2[i]
      BY <1>4 DEF Range
    <3>2. i \in 1 .. Len(E) \/ i = Len(E) + 1
      BY <1>1
    <3> QED BY <1>4, <3>1, <3>2 DEF Range
  <2>2. ASSUME NEW f \in Range(E) PROVE f \in Range(E2)
    <3>1. PICK i \in 1 .. Len(E) : f = E[i]
      BY <1>4 DEF Range
    <3>2. i \in 1 .. Len(E) + 1 /\ E2[i] = f
      BY <1>1, <1>4, <3>1
    <3> QED BY <1>4, <3>2 DEF Range
  <2>3. e \in Range(E2)
    <3>1. Len(E) + 1 \in 1 .. Len(E) + 1
      BY <1>1
    <3> QED BY <1>4, <3>1 DEF Range
  <2> QED BY <2>1, <2>2, <2>3
<1>7. /\ A2 \in [Range(E2) -> Literal] /\ A2[e] = l
      /\ \A f \in Range(E) : A2[f] = A[f]
  BY <1>1, <1>5, <1>6
<1>8. DOMAIN A = Range(E)
  BY <1>1
<1>9. ASSUME NEW f \in DOMAIN A2 PROVE \E j \in 1 .. Len(L2) : A2[f] = L2[j]
  <2>1. f \in Range(E) \/ f = e
    BY <1>6, <1>7
  <2>2. CASE f = e
    <3>1. Len(B) + 1 \in 1 .. Len(L2)
      BY <1>1, <1>3
    <3> QED BY <1>3, <1>7, <2>2, <3>1
  <2>3. CASE f \in Range(E)
    <3>1. PICK j \in 1 .. Len(B) : A[f] = L[j]
      BY <1>1, <1>8, <2>3 DEF Owners
    <3>2. j \in 1 .. Len(L2)
      BY <1>1, <1>3
    <3> QED BY <1>3, <1>7, <2>3, <3>1, <3>2
  <2> QED BY <2>1, <2>2, <2>3
<1>10. \A i \in 1 .. Len(B) : B[i] \in Nat /\ B[i] <= now
  BY PointsPast
<1>11. \A i \in 1 .. Len(B2) : B2[i] \in Nat /\ B2[i] <= now
  <2> TAKE i \in 1 .. Len(B2)
  <2>1. CASE i \in 1 .. Len(B)
    BY <1>2, <1>10, <2>1
  <2>2. CASE i = Len(B) + 1
    BY <1>1, <1>2, <2>2
  <2> QED BY <1>1, <1>2, <2>1, <2>2
<1>12. ASSUME NEW i \in 1 .. Len(B2), NEW f \in DOMAIN A2
       PROVE  T2[f] <= B2[i] <=> \E j \in 1 .. i - 1 : A2[f] = L2[j]
  <2>1. f \in Range(E) \/ f = e
    BY <1>6, <1>7
  <2>2. \A j \in 1 .. i - 1 : j \in 1 .. Len(B)
    BY <1>1, <1>2
  <2>3. CASE f = e
    <3>1. ~(T2[f] <= B2[i])
      <4>1. T2[f] = now + 1 /\ B2[i] \in Nat /\ B2[i] <= now
        BY <1>11, <2>3
      <4> QED BY <1>1, <4>1
    <3>2. \A j \in 1 .. i - 1 : L2[j] # l
      BY <1>1, <1>3, <2>2
    <3> QED BY <1>7, <2>3, <3>1, <3>2
  <2>4. CASE f \in Range(E) /\ i \in 1 .. Len(B)
    <3>1. T[f] <= B[i] <=> \E j \in 1 .. i - 1 : A[f] = L[j]
      BY <1>8, <2>4 DEF Owners
    <3>2. T2[f] = T[f] /\ A2[f] = A[f] /\ B2[i] = B[i]
      BY <1>2, <1>5, <1>7, <2>4
    <3>3. \A j \in 1 .. i - 1 : L2[j] = L[j]
      BY <1>3, <2>2
    <3> QED BY <3>1, <3>2, <3>3
  <2>5. CASE f \in Range(E) /\ i = Len(B) + 1
    <3>1. PICK j \in 1 .. Len(B) : A[f] = L[j]
      BY <1>1, <1>8, <2>5 DEF Owners
    <3>2. j \in 1 .. i - 1 /\ A2[f] = L2[j]
      BY <1>1, <1>3, <1>7, <2>5, <3>1
    <3>3. T2[f] <= B2[i]
      BY <1>2, <1>5, <2>5
    <3> QED BY <3>2, <3>3
  <2>6. i \in 1 .. Len(B) \/ i = Len(B) + 1
    BY <1>1, <1>2
  <2> QED BY <2>1, <2>3, <2>4, <2>5, <2>6
<1>13. Owners(A2, E2, T2, B2, L2)
  BY <1>2, <1>3, <1>7, <1>9, <1>12 DEF Owners
<1> QED
  BY <1>13 DEF B2, L2, E2

\* The deductions handed out: a literal told, and literals taken back.
LEMMA PushHanded ==
  ASSUME NEW H, NEW lim, NEW L, Handed(H, lim, L), NEW l \in Literal,
         NEW H2 \in Seq(Literal), Len(H) <= Len(H2), L \in Seq(Literal)
  PROVE  Handed(H2, Append(lim, Len(H)), Append(L, l))
<1> DEFINE l2 == Append(lim, Len(H))
<1>1. /\ H \in Seq(Literal) /\ lim \in Seq(Nat) /\ Len(lim) = Len(L)
      /\ Len(lim) \in Nat /\ Len(H) \in Nat /\ Len(H2) \in Nat
  BY DEF Handed
<1>2. /\ l2 \in Seq(Nat) /\ Len(l2) = Len(lim) + 1 /\ l2[Len(lim) + 1] = Len(H)
      /\ \A i \in 1 .. Len(lim) : l2[i] = lim[i]
  BY <1>1, AppendProperties
<1>3. Len(Append(L, l)) = Len(l2)
  BY <1>1, <1>2
<1>4. \A i \in 1 .. Len(lim) : lim[i] \in Nat /\ lim[i] <= Len(H)
  BY <1>1 DEF Handed
<1> HIDE DEF l2
<1>5. \A i \in 1 .. Len(l2) : l2[i] \in Nat /\ l2[i] <= Len(H)
  <2> TAKE i \in 1 .. Len(l2)
  <2>1. CASE i \in 1 .. Len(lim)
    BY <1>2, <1>4, <2>1
  <2>2. CASE i = Len(lim) + 1
    BY <1>1, <1>2, <2>2
  <2> QED BY <1>1, <1>2, <2>1, <2>2
<1>6. \A i \in 1 .. Len(l2) : l2[i] <= Len(H2)
  BY <1>1, <1>5
<1>7. \A i, j \in 1 .. Len(l2) : i <= j => l2[i] <= l2[j]
  <2> TAKE i, j \in 1 .. Len(l2)
  <2>1. CASE j \in 1 .. Len(lim)
    <3>1. i <= j => i \in 1 .. Len(lim)
      BY <1>1, <1>2, <2>1
    <3> QED BY <1>2, <2>1, <3>1 DEF Handed
  <2>2. CASE j = Len(lim) + 1
    BY <1>2, <1>5, <2>2
  <2> QED BY <1>1, <1>2, <2>1, <2>2
<1>8. l2[1] = 0
  <2>1. CASE Len(lim) = 0
    <3>1. Len(H) = 0
      BY <2>1 DEF Handed
    <3> QED BY <1>2, <2>1, <3>1
  <2>2. CASE Len(lim) # 0
    <3>1. 1 \in 1 .. Len(lim) /\ Len(lim) > 0
      BY <1>1, <2>2
    <3> QED BY <1>2, <3>1 DEF Handed
  <2> QED BY <2>1, <2>2
<1>9. ~(Len(l2) = 0)
  BY <1>1, <1>2
<1>10. Handed(H2, l2, Append(L, l))
  BY <1>2, <1>3, <1>6, <1>7, <1>8, <1>9 DEF Handed
<1> QED
  BY <1>10 DEF l2

LEMMA CutHanded ==
  ASSUME NEW H, NEW lim, NEW L, Handed(H, lim, L), L \in Seq(Literal), NEW m \in 1 .. Len(L)
  PROVE  Handed(SubSeq(H, 1, lim[m]), SubSeq(lim, 1, m - 1), SubSeq(L, 1, m - 1))
<1> DEFINE l2 == SubSeq(lim, 1, m - 1)
           H2 == SubSeq(H, 1, lim[m])
           L2 == SubSeq(L, 1, m - 1)
<1>1. /\ H \in Seq(Literal) /\ lim \in Seq(Nat) /\ Len(lim) = Len(L)
      /\ Len(lim) \in Nat /\ Len(H) \in Nat
  BY DEF Handed
<1>2. /\ m - 1 \in Nat /\ m - 1 <= Len(lim) /\ m \in 1 .. Len(lim)
  BY <1>1
<1>3. lim[m] \in Nat /\ lim[m] <= Len(H)
  BY <1>1, <1>2 DEF Handed
<1>4. l2 \in Seq(Nat) /\ Len(l2) = m - 1 /\ \A j \in 1 .. m - 1 : l2[j] = lim[j]
  BY <1>1, <1>2, Prefix
<1>5. Len(L2) = m - 1
  BY <1>1, <1>2, Prefix
<1>6. H2 \in Seq(Literal) /\ Len(H2) = lim[m]
  BY <1>1, <1>3, Prefix
<1> HIDE DEF l2, H2, L2
<1>7. \A j \in 1 .. m - 1 : j \in 1 .. Len(lim) /\ j <= m
  BY <1>1, <1>2
<1>8. \A j \in 1 .. Len(l2) : l2[j] <= Len(H2)
  <2> TAKE j \in 1 .. Len(l2)
  <2>1. j \in 1 .. m - 1
    BY <1>4
  <2>2. lim[j] <= lim[m]
    BY <1>2, <1>7, <2>1 DEF Handed
  <2> QED BY <1>4, <1>6, <2>1, <2>2
<1>9. \A i, j \in 1 .. Len(l2) : i <= j => l2[i] <= l2[j]
  <2> TAKE i, j \in 1 .. Len(l2)
  <2>1. i \in 1 .. m - 1 /\ j \in 1 .. m - 1
    BY <1>4
  <2> QED BY <1>4, <1>7, <2>1 DEF Handed
<1>10. Len(l2) > 0 => l2[1] = 0
  <2> HAVE Len(l2) > 0
  <2>1. 1 \in 1 .. m - 1 /\ Len(lim) > 0
    BY <1>1, <1>2, <1>4
  <2> QED BY <1>4, <2>1 DEF Handed
<1>11. Len(l2) = 0 => Len(H2) = 0
  <2> HAVE Len(l2) = 0
  <2>1. m = 1 /\ Len(lim) > 0
    BY <1>1, <1>2, <1>4
  <2> QED BY <1>6, <2>1 DEF Handed
<1>12. Handed(H2, l2, L2)
  BY <1>4, <1>5, <1>6, <1>8, <1>9, <1>10, <1>11 DEF Handed
<1> QED
  BY <1>12 DEF l2, H2, L2

\* The values of a function on a finite set.
LEMMA ImageFinite ==
  ASSUME NEW S, IsFiniteSet(S), NEW g
  PROVE  IsFiniteSet({g[x] : x \in S})
<1> DEFINE T == {g[x] : x \in S}
           f == [x \in S |-> g[x]]
<1>1. f \in Surjection(S, T)
  BY DEF Surjection
<1> HIDE DEF f, T
<1>2. IsFiniteSet(T)
  BY <1>1, FS_Surjection
<1> QED
  BY <1>2 DEF T

\* The literals of deduced edges.
LEMMA EdgeDeductionsParts ==
  ASSUME StoreInv, NEW F \in Seq(DOMAIN neg), NEW ds
  PROVE  SetToSeq(EdgeDeductions(ds, F)) \in Seq(Literal)
<1> DEFINE P == {g \in Range(F) : g \in DOMAIN leqOf}
           Q == {g \in Range(F) : neg[g] \in DOMAIN leqOf}
           fp == [f \in P |-> <<leqOf[f], TRUE>>]
           fq == [f \in Q |-> <<leqOf[neg[f]], FALSE>>]
           X == {fp[f] : f \in P}
           Y == {fq[f] : f \in Q}
<1>1. Range(F) \subseteq DOMAIN neg
  BY DEF Range
<1>2. IsFiniteSet(P) /\ IsFiniteSet(Q)
  <2>1. P \subseteq DOMAIN neg /\ Q \subseteq DOMAIN neg
    BY <1>1
  <2>2. IsFiniteSet(DOMAIN neg)
    BY DEF StoreInv
  <2> HIDE DEF P, Q
  <2> QED BY <2>1, <2>2, FS_Subset
<1>3. IsFiniteSet(X) /\ IsFiniteSet(Y)
  <2> HIDE DEF P, Q, fp, fq
  <2> QED BY <1>2, ImageFinite
<1>4. EdgeLiterals(F) = X \cup Y
  BY DEF EdgeLiterals
<1>5. EdgeLiterals(F) \subseteq Literal
  <2>1. \A e \in DOMAIN leqOf : leqOf[e] \in DOMAIN Atom
    BY DEF StoreInv
  <2>2. ASSUME NEW f \in P PROVE fp[f] \in Literal
    BY <2>1 DEF Literal
  <2>3. ASSUME NEW f \in Q PROVE fq[f] \in Literal
    BY <2>1 DEF Literal
  <2> HIDE DEF P, Q, fp, fq
  <2> QED BY <1>4, <2>2, <2>3
<1> HIDE DEF X, Y
<1>6. IsFiniteSet(EdgeLiterals(F))
  BY <1>3, <1>4, FS_Union
<1>7. EdgeDeductions(ds, F) \subseteq EdgeLiterals(F)
  BY DEF EdgeDeductions
<1>8. IsFiniteSet(EdgeDeductions(ds, F)) /\ EdgeDeductions(ds, F) \subseteq Literal
  BY <1>5, <1>6, <1>7, FS_Subset
<1>9. SetToSeq(EdgeDeductions(ds, F)) \in Seq(EdgeDeductions(ds, F))
  BY <1>8, SetToSeqParts
<1> QED
  BY <1>8, <1>9

-----------------------------------------------------------------------------
\* Without literals told there is nothing in the graph.
LEMMA NothingTold ==
  ASSUME STPInv, told = <<>>
  PROVE  /\ addedEdges = <<>> /\ deductions = <<>> /\ backtrack_points = <<>>
         /\ deductions_lim = <<>> /\ th_deductions = <<>>
         /\ inv_asgn = none /\ DOMAIN asgn = {}
         /\ \A e \in DOMAIN neg : setTime[e] = 0
<1>1. /\ addedEdges \in Seq(DOMAIN neg) /\ deductions \in Seq(DOMAIN neg)
      /\ backtrack_points \in Seq(Nat) /\ deductions_lim \in Seq(Nat)
      /\ th_deductions \in Seq(Literal)
      /\ Len(told) = Len(backtrack_points) /\ Len(deductions_lim) = Len(told)
  BY DEF STPInv, GraphInv, Timed, Points, Owners, Handed
<1>2. Len(backtrack_points) = 0 /\ Len(deductions_lim) = 0
  BY <1>1
<1>3. Len(addedEdges) = 0
  BY <1>2 DEF STPInv, Points
<1>4. Len(th_deductions) = 0
  BY <1>2 DEF STPInv, Handed
<1>5. Len(deductions) = 0
  <2> SUFFICES ASSUME Len(deductions) # 0 PROVE FALSE
    OBVIOUS
  <2>1. 1 \in 1 .. Len(deductions)
    BY <1>1
  <2>2. AtEdge(setTime[deductions[1]], addedEdges, setTime)
    BY <2>1 DEF STPInv, GraphInv, Timed
  <2> QED BY <1>3, <2>2 DEF AtEdge
<1>6. /\ addedEdges = <<>> /\ deductions = <<>> /\ backtrack_points = <<>>
      /\ deductions_lim = <<>> /\ th_deductions = <<>>
  BY <1>1, <1>2, <1>3, <1>4, <1>5, EmptySeq
<1>7. inv_asgn = none
  BY DEF STPInv, Conflicting
<1>8. DOMAIN asgn = {}
  BY <1>6 DEF STPInv, Owners, Range
<1>9. \A e \in DOMAIN neg : setTime[e] = 0
  BY <1>3, <1>5 DEF STPInv, GraphInv, Timed
<1> QED
  BY <1>6, <1>7, <1>8, <1>9

LEMMA InitFits == Init => STPInv
<1> SUFFICES ASSUME Init PROVE STPInv
  OBVIOUS
<1> USE DEF Init
<1>1. DOMAIN neg = {} /\ DOMAIN edgeOf = {} /\ DOMAIN leqOf = {} /\ DOMAIN setTime = {}
  OBVIOUS
<1>2. StoreInv
  BY <1>1, FS_EmptySet DEF StoreInv
<1>3. GraphInv
  <2>1. setTime \in [{} -> 0 .. MaxTime]
    OBVIOUS
  <2>2. timestamp \in 0 .. MaxTime
    BY BoundAssumption
  <2> QED BY <1>1, <2>1, <2>2 DEF GraphInv, Timed, Increasing, Monotone, Clock
<1>4. Points(backtrack_points, addedEdges, setTime)
  BY DEF Points
<1>5. Owners(asgn, addedEdges, setTime, backtrack_points, told)
  <2>1. Range(addedEdges) = {}
    BY DEF Range
  <2>2. asgn \in [{} -> Literal]
    OBVIOUS
  <2> QED BY <2>1, <2>2 DEF Owners
<1>6. Handed(th_deductions, deductions_lim, told)
  BY DEF Handed
<1>7. Conflicting(inv_asgn, inv_bpoint, told)
  <2>1. SizeMax \in Nat
    BY BoundAssumption DEF SizeMax
  <2> QED BY <2>1 DEF Conflicting
<1> QED
  BY <1>2, <1>3, <1>4, <1>5, <1>6, <1>7 DEF STPInv

\* An atom declared: its edge and the negation are both new or both known.
LEMMA DeclareFits ==
  ASSUME STPInv, NEW a \in DOMAIN Atom, DeclareAtom(a)
  PROVE  STPInv'
<1> DEFINE e == AtomEdge(a)
           n == NegatedEdge(e)
<1>1. e \in EdgeType /\ Plain(e)
  BY AtomEdgeFacts
<1>2. n \in EdgeType /\ n # e /\ (Plain(n) => NegatedEdge(n) = e)
  BY <1>1, NegationFacts
<1>3. told = <<>> /\ thrown = "no"
  BY DEF DeclareAtom
<1>4. /\ addedEdges = <<>> /\ deductions = <<>> /\ backtrack_points = <<>>
      /\ DOMAIN asgn = {}
  BY <1>3, NothingTold
<1>5. /\ UNCHANGED <<asgn, addedEdges, deductions, timestamp, inv_asgn, inv_bpoint,
                     backtrack_points, th_deductions, deductions_lim, told, thrown>>
      /\ DOMAIN edgeOf' = DOMAIN edgeOf \cup {a}
      /\ \A b \in DOMAIN edgeOf' : edgeOf'[b] = IF b = a THEN e ELSE edgeOf[b]
      /\ DOMAIN leqOf' = DOMAIN leqOf \cup {e}
      /\ \A f \in DOMAIN leqOf' : leqOf'[f] = IF f = e THEN a ELSE leqOf[f]
  BY DEF DeclareAtom, tsolverVars
<1>6. IsFiniteSet(DOMAIN neg)
  BY DEF STPInv, StoreInv
<1>7. \A f \in DOMAIN neg :
        /\ f \in EdgeType /\ neg[f] \in DOMAIN neg /\ neg[neg[f]] = f /\ neg[f] # f
        /\ \/ Plain(f) /\ neg[f] = NegatedEdge(f)
           \/ Plain(neg[f]) /\ f = NegatedEdge(neg[f])
  BY DEF STPInv, StoreInv
<1>8. setTime \in [DOMAIN neg -> 0 .. MaxTime] /\ timestamp \in 0 .. MaxTime
  BY DEF STPInv, GraphInv, Timed
<1>9. /\ IsFiniteSet(DOMAIN neg') /\ DOMAIN neg \subseteq DOMAIN neg' /\ e \in DOMAIN neg'
      /\ setTime' \in [DOMAIN neg' -> 0 .. MaxTime]
      /\ \A f \in DOMAIN neg' : setTime'[f] = 0
      /\ \A f \in DOMAIN neg' :
           /\ f \in EdgeType /\ neg'[f] \in DOMAIN neg' /\ neg'[neg'[f]] = f /\ neg'[f] # f
           /\ \/ Plain(f) /\ neg'[f] = NegatedEdge(f)
              \/ Plain(neg'[f]) /\ f = NegatedEdge(neg'[f])
  <2>1. CASE e \in DOMAIN neg
    <3>1. neg' = neg /\ setTime' = setTime
      BY <2>1 DEF DeclareAtom
    <3>2. \A f \in DOMAIN neg : setTime[f] = 0
      BY <1>3, NothingTold
    <3> QED BY <1>6, <1>7, <1>8, <2>1, <3>1, <3>2
  <2>2. CASE e \notin DOMAIN neg
    <3>1. n \notin DOMAIN neg
      <4> SUFFICES ASSUME n \in DOMAIN neg PROVE FALSE
        OBVIOUS
      <4>1. neg[n] \in DOMAIN neg /\ neg[n] \in EdgeType
        BY <1>7
      <4>2. CASE Plain(n) /\ neg[n] = NegatedEdge(n)
        BY <1>2, <2>2, <4>1, <4>2
      <4>3. CASE Plain(neg[n]) /\ n = NegatedEdge(neg[n])
        <5>1. NegatedEdge(e) = NegatedEdge(neg[n])
          BY <4>3
        <5>2. e = neg[n]
          <6> HIDE DEF e
          <6> QED BY <1>1, <4>1, <4>3, <5>1, NegationFacts
        <5> QED BY <2>2, <4>1, <5>2
      <4> QED BY <1>7, <4>2, <4>3
    <3> HIDE DEF e, n
    <3>2. /\ neg' = [f \in DOMAIN neg \cup {e, n} |->
                       IF f = e THEN n ELSE IF f = n THEN e ELSE neg[f]]
          /\ setTime' = [f \in DOMAIN neg \cup {e, n} |->
                           IF f \in DOMAIN neg THEN setTime[f] ELSE 0]
      BY <2>2 DEF DeclareAtom, e, n
    <3>3. DOMAIN neg' = DOMAIN neg \cup {e, n}
      BY <3>2
    <3>4. /\ neg'[e] = n /\ neg'[n] = e
          /\ \A f \in DOMAIN neg : neg'[f] = neg[f] /\ f # e /\ f # n
      BY <1>2, <2>2, <3>1, <3>2
    <3>5. IsFiniteSet(DOMAIN neg')
      <4>1. IsFiniteSet(DOMAIN neg \cup {e})
        BY <1>6, FS_AddElement
      <4>2. IsFiniteSet((DOMAIN neg \cup {e}) \cup {n})
        BY <4>1, FS_AddElement
      <4>3. DOMAIN neg' = (DOMAIN neg \cup {e}) \cup {n}
        BY <3>3
      <4> QED BY <4>2, <4>3
    <3>6. \A f \in DOMAIN neg' : setTime'[f] = 0
      <4>1. \A f \in DOMAIN neg : setTime[f] = 0
        BY <1>3, NothingTold
      <4> QED BY <3>2, <3>3, <4>1
    <3>7. setTime' \in [DOMAIN neg' -> 0 .. MaxTime]
      <4>1. setTime' = [f \in DOMAIN neg' |-> setTime'[f]]
        BY <3>2, <3>3
      <4>2. 0 \in 0 .. MaxTime
        BY BoundAssumption
      <4> QED BY <3>6, <4>1, <4>2
    <3>8. ASSUME NEW f \in DOMAIN neg'
          PROVE  /\ f \in EdgeType /\ neg'[f] \in DOMAIN neg' /\ neg'[neg'[f]] = f /\ neg'[f] # f
                 /\ \/ Plain(f) /\ neg'[f] = NegatedEdge(f)
                    \/ Plain(neg'[f]) /\ f = NegatedEdge(neg'[f])
      <4>1. n = NegatedEdge(e)
        BY DEF n
      <4>2. CASE f = e
        BY <1>1, <1>2, <3>3, <3>4, <4>1, <4>2
      <4>3. CASE f = n
        BY <1>1, <1>2, <3>3, <3>4, <4>1, <4>3
      <4>4. CASE f \in DOMAIN neg
        BY <1>7, <3>3, <3>4, <4>4
      <4> QED BY <3>3, <4>2, <4>3, <4>4
    <3> QED BY <3>3, <3>5, <3>6, <3>7, <3>8
  <2> QED BY <2>1, <2>2
<1> HIDE DEF e, n
<1>10. StoreInv'
  <2>1. /\ DOMAIN edgeOf \subseteq DOMAIN Atom /\ \A b \in DOMAIN edgeOf : edgeOf[b] \in DOMAIN neg
        /\ DOMAIN leqOf \subseteq DOMAIN neg /\ \A f \in DOMAIN leqOf : leqOf[f] \in DOMAIN edgeOf
    BY DEF STPInv, StoreInv
  <2>2. DOMAIN edgeOf' \subseteq DOMAIN Atom /\ \A b \in DOMAIN edgeOf' : edgeOf'[b] \in DOMAIN neg'
    BY <1>5, <1>9, <2>1
  <2>3. DOMAIN leqOf' \subseteq DOMAIN neg' /\ \A f \in DOMAIN leqOf' : leqOf'[f] \in DOMAIN edgeOf'
    BY <1>5, <1>9, <2>1
  <2> QED BY <1>9, <2>2, <2>3 DEF StoreInv
<1>11. GraphInv'
  <2>1. addedEdges' = <<>> /\ deductions' = <<>> /\ timestamp' \in 0 .. MaxTime
    BY <1>4, <1>5, <1>8
  <2> QED BY <1>9, <2>1 DEF GraphInv, Timed, Increasing, Monotone, Clock
<1>12. Points(backtrack_points, addedEdges, setTime)'
  BY <1>4, <1>5 DEF Points
<1>13. Owners(asgn, addedEdges, setTime, backtrack_points, told)'
  <2>1. asgn \in [Range(addedEdges) -> Literal]
    BY DEF STPInv, Owners
  <2> QED BY <1>3, <1>4, <1>5, <2>1 DEF Owners
<1>14. Handed(th_deductions, deductions_lim, told)'
  BY <1>5 DEF STPInv
<1>15. Conflicting(inv_asgn, inv_bpoint, told)'
  BY <1>5 DEF STPInv
<1> QED
  BY <1>3, <1>5, <1>10, <1>11, <1>12, <1>13, <1>14, <1>15 DEF STPInv

\* A literal whose edge, or whose negation, is known: only a point is pushed.
LEMMA AssertKnownFits ==
  ASSUME STPInv, NEW l \in Literal, AssertLit(l), AssertKnown(l) \/ AssertConflict(l)
  PROVE  STPInv'
<1>1. /\ backtrack_points' = Append(backtrack_points, timestamp)
      /\ deductions_lim' = Append(deductions_lim, Len(th_deductions))
      /\ told' = Append(told, l)
      /\ UNCHANGED <<edgeOf, leqOf, neg>> /\ l[1] \in DOMAIN edgeOf
  BY DEF AssertLit, PushBacktrackPoint, storeVars
<1>2. /\ UNCHANGED <<setTime, asgn, addedEdges, deductions, timestamp, th_deductions, thrown>>
  BY DEF AssertKnown, AssertConflict, graphVars
<1>3. /\ Timed(addedEdges, deductions, setTime, DOMAIN neg, timestamp)
      /\ Points(backtrack_points, addedEdges, setTime)
      /\ Owners(asgn, addedEdges, setTime, backtrack_points, told)
      /\ Handed(th_deductions, deductions_lim, told)
      /\ Conflicting(inv_asgn, inv_bpoint, told)
      /\ StoreInv /\ thrown \in {"no", "overflow", "underflow"}
  BY DEF STPInv, GraphInv
<1>4. Edge(l) \in DOMAIN neg /\ neg[Edge(l)] \in DOMAIN neg
  <2>1. edgeOf[l[1]] \in DOMAIN neg
    BY <1>1, <1>3 DEF StoreInv
  <2> QED BY <1>3, <2>1 DEF Edge, StoreInv
<1>5. \E e \in DOMAIN neg : setTime[e] # 0
  BY <1>4 DEF AssertKnown, AssertConflict, isTrue
<1>6. AtEdge(timestamp, addedEdges, setTime)
  BY <1>3, <1>5, NothingLater
<1>7. Points(backtrack_points', addedEdges, setTime)
  BY <1>1, <1>3, <1>6, PushPoints
<1>8. Owners(asgn, addedEdges, setTime, backtrack_points', told')
  BY <1>1, <1>3, PushOwners
<1>9. Handed(th_deductions, deductions_lim', told')
  <2>1. th_deductions \in Seq(Literal) /\ told \in Seq(Literal)
    BY <1>3 DEF Handed, Owners
  <2>2. Len(th_deductions) <= Len(th_deductions)
    BY <2>1
  <2> QED BY <1>1, <1>3, <2>1, <2>2, PushHanded
<1>10. Conflicting(inv_asgn', inv_bpoint', told')
  <2>1. told \in Seq(Literal) /\ backtrack_points \in Seq(Nat) /\ Len(told) = Len(backtrack_points)
    BY <1>3 DEF Owners, Points
  <2>2. Len(told') = Len(told) + 1 /\ Len(told) \in Nat
    BY <1>1, <2>1
  <2>3. inv_asgn = none /\ inv_bpoint \in Nat
    BY <1>3 DEF AssertLit, Conflicting
  <2>4. CASE inv_asgn' = inv_asgn /\ inv_bpoint' = inv_bpoint
    BY <2>3, <2>4 DEF Conflicting
  <2>5. CASE inv_asgn' = l /\ inv_bpoint' = Len(backtrack_points) + 1
    <3>1. inv_bpoint' \in 1 .. Len(told')
      BY <2>1, <2>2, <2>5
    <3> QED BY <2>5, <3>1 DEF Conflicting
  <2> QED BY <2>4, <2>5 DEF AssertKnown, AssertConflict
<1>11. StoreInv'
  BY <1>1, <1>3 DEF StoreInv, NegatedEdge, Negate, Plain
<1> QED
  BY <1>1, <1>2, <1>3, <1>7, <1>8, <1>9, <1>10, <1>11 DEF STPInv, GraphInv

\* A new literal: its edge is set now, with the edges the search finds.
LEMMA AssertNewFits ==
  ASSUME STPInv, NEW l \in Literal, AssertLit(l), AssertNew(l)
  PROVE  STPInv'
<1> DEFINE N     == DOMAIN neg
           e     == Edge(l)
           graph == Append(addedEdges, e)
           times == [setTime EXCEPT ![e] = timestamp + 1]
           a     == dfsSearch(e.from, graph, FALSE)
           b     == dfsSearch(e.to, graph, TRUE)
           C     == Consequences(e, times, a, b)
           first == IF neg[e] \in DOMAIN leqOf
                    THEN Append(th_deductions, <<leqOf[neg[e]], FALSE>>) ELSE th_deductions
<1>1. /\ backtrack_points' = Append(backtrack_points, timestamp)
      /\ deductions_lim' = Append(deductions_lim, Len(th_deductions))
      /\ told' = Append(told, l)
      /\ UNCHANGED <<edgeOf, leqOf, neg>> /\ l[1] \in DOMAIN edgeOf
      /\ thrown = "no" /\ inv_asgn = none
      /\ \A i \in DOMAIN told : told[i][1] # l[1]
  BY DEF AssertLit, PushBacktrackPoint, storeVars
<1>2. /\ setTime[e] = 0 /\ timestamp < MaxTime /\ timestamp' = timestamp + 1
      /\ addedEdges' = graph
      /\ asgn' = [f \in DOMAIN asgn \cup {e} |-> IF f = e THEN l ELSE asgn[f]]
      /\ UNCHANGED <<inv_asgn, inv_bpoint>>
  BY DEF AssertNew, isTrue
<1>3. \/ /\ thrown' = "overflow" /\ setTime' = times
         /\ UNCHANGED <<deductions, th_deductions>>
      \/ /\ setTime' = [f \in DOMAIN times |->
                          IF f \in Range(SetToSeq(C)) THEN timestamp + 1 ELSE times[f]]
         /\ deductions' = deductions \o SetToSeq(C)
         /\ th_deductions' = first \o SetToSeq(EdgeDeductions(first, SetToSeq(C)))
         /\ UNCHANGED thrown
  BY DEF AssertNew
<1>4. /\ Timed(addedEdges, deductions, setTime, N, timestamp)
      /\ Points(backtrack_points, addedEdges, setTime)
      /\ Owners(asgn, addedEdges, setTime, backtrack_points, told)
      /\ Handed(th_deductions, deductions_lim, told)
      /\ Conflicting(inv_asgn, inv_bpoint, told)
      /\ StoreInv
  BY DEF STPInv, GraphInv
<1>5. e \in N
  <2>1. edgeOf[l[1]] \in N
    BY <1>1, <1>4 DEF StoreInv
  <2> QED BY <1>4, <2>1 DEF Edge, StoreInv
<1>6. C \subseteq N /\ \A f \in C : f # e /\ times[f] = 0
  BY DEF Consequences, Candidates
<1> HIDE DEF e, a, b, C
<1>7. /\ setTime \in [N -> 0 .. MaxTime] /\ timestamp \in Nat /\ timestamp + 1 \in Nat
      /\ deductions \in Seq(N)
      /\ told \in Seq(Literal) /\ th_deductions \in Seq(Literal)
  BY <1>4, BoundAssumption DEF Timed, Owners, Handed
<1>8. SetToSeq(C) \in Seq(C)
  <2>1. IsFiniteSet(N)
    BY <1>4 DEF StoreInv
  <2>2. IsFiniteSet(C)
    BY <1>6, <2>1, FS_Subset
  <2> QED BY <2>2, SetToSeqParts
<1>9. PICK F \in Seq(N) :
        /\ \A i \in 1 .. Len(F) : F[i] \in C
        /\ setTime' = SetAt(setTime, N, e, F, timestamp + 1)
        /\ deductions' = deductions \o F
        /\ th_deductions' \in Seq(Literal) /\ Len(th_deductions) <= Len(th_deductions')
        /\ thrown' \in {"no", "overflow", "underflow"}
  <2>1. CASE /\ thrown' = "overflow" /\ setTime' = times
             /\ UNCHANGED <<deductions, th_deductions>>
    <3>1. times = SetAt(setTime, N, e, <<>>, timestamp + 1)
      <4>1. Range(<<>>) = {}
        BY DEF Range
      <4> QED BY <1>5, <1>7, <4>1 DEF SetAt
    <3>2. deductions \o <<>> = deductions
      BY <1>7
    <3>3. <<>> \in Seq(N) /\ Len(<<>>) = 0
      OBVIOUS
    <3>4. Len(th_deductions) <= Len(th_deductions)
      BY <1>7
    <3>5. PICK F : F = <<>>
      OBVIOUS
    <3>6. F \in Seq(N) /\ \A i \in 1 .. Len(F) : F[i] \in C
      BY <3>3, <3>5
    <3>7. setTime' = SetAt(setTime, N, e, F, timestamp + 1) /\ deductions' = deductions \o F
      BY <2>1, <3>1, <3>2, <3>5
    <3>8. th_deductions' \in Seq(Literal) /\ Len(th_deductions) <= Len(th_deductions')
      BY <1>7, <2>1, <3>4
    <3> HIDE DEF times, N
    <3> QED BY <2>1, <3>6, <3>7, <3>8
  <2>2. CASE /\ setTime' = [f \in DOMAIN times |->
                              IF f \in Range(SetToSeq(C)) THEN timestamp + 1 ELSE times[f]]
             /\ deductions' = deductions \o SetToSeq(C)
             /\ th_deductions' = first \o SetToSeq(EdgeDeductions(first, SetToSeq(C)))
             /\ UNCHANGED thrown
    <3>1. PICK F : F = SetToSeq(C)
      OBVIOUS
    <3>2. F \in Seq(N) /\ \A i \in 1 .. Len(F) : F[i] \in C
      BY <1>6, <1>8, <3>1
    <3>3. [f \in DOMAIN times |-> IF f \in Range(F) THEN timestamp + 1 ELSE times[f]]
            = SetAt(setTime, N, e, F, timestamp + 1)
      <4>1. /\ DOMAIN times = N
            /\ \A f \in N : times[f] = IF f = e THEN timestamp + 1 ELSE setTime[f]
        BY <1>5, <1>7
      <4> HIDE DEF times
      <4> QED BY <4>1 DEF SetAt
    <3>4. first \in Seq(Literal) /\ Len(th_deductions) <= Len(first)
      <4>1. CASE neg[e] \in DOMAIN leqOf
        <5>1. leqOf[neg[e]] \in DOMAIN Atom
          BY <1>4, <4>1 DEF StoreInv
        <5>2. <<leqOf[neg[e]], FALSE>> \in Literal
          BY <5>1 DEF Literal
        <5>3. first = Append(th_deductions, <<leqOf[neg[e]], FALSE>>)
          BY <4>1
        <5>4. Len(th_deductions) \in Nat
          BY <1>7
        <5> HIDE DEF first
        <5>5. Len(first) = Len(th_deductions) + 1 /\ first \in Seq(Literal)
          BY <1>7, <5>2, <5>3, AppendProperties
        <5> QED BY <5>4, <5>5
      <4>2. CASE neg[e] \notin DOMAIN leqOf
        BY <1>7, <4>2
      <4> QED BY <4>1, <4>2
    <3> HIDE DEF first
    <3>5. SetToSeq(EdgeDeductions(first, F)) \in Seq(Literal)
      BY <1>4, <3>2, EdgeDeductionsParts
    <3>6. PICK X \in Seq(Literal) : X = SetToSeq(EdgeDeductions(first, F))
      BY <3>5
    <3>7. first \o X \in Seq(Literal) /\ Len(first \o X) = Len(first) + Len(X)
      BY <3>4, ConcatParts
    <3>8. Len(first) \in Nat /\ Len(X) \in Nat /\ Len(th_deductions) \in Nat
      BY <1>7, <3>4
    <3>9. th_deductions' = first \o X
      BY <2>2, <3>1, <3>6
    <3>10. th_deductions' \in Seq(Literal) /\ Len(th_deductions) <= Len(th_deductions')
      <4>1. Len(th_deductions) <= Len(first) + Len(X)
        BY <3>4, <3>8
      <4> QED BY <3>7, <3>9, <4>1
    <3>11. setTime' = SetAt(setTime, N, e, F, timestamp + 1) /\ deductions' = deductions \o F
      BY <2>2, <3>1, <3>3
    <3>12. thrown' = "no"
      BY <1>1, <2>2
    <3> HIDE DEF N, times
    <3> QED BY <3>2, <3>10, <3>11, <3>12
  <2> QED BY <1>3, <2>1, <2>2
<1>10. \A i \in 1 .. Len(F) : setTime[F[i]] = 0
  <2> TAKE i \in 1 .. Len(F)
  <2>1. F[i] # e /\ times[F[i]] = 0 /\ F[i] \in N
    BY <1>6, <1>9
  <2> QED BY <1>7, <2>1
<1> HIDE DEF N, times, first
<1>11. /\ Timed(graph, deductions \o F, SetAt(setTime, N, e, F, timestamp + 1), N, timestamp + 1)
       /\ \A f \in N : setTime[f] # 0 => SetAt(setTime, N, e, F, timestamp + 1)[f] = setTime[f]
  BY <1>2, <1>4, <1>5, <1>10, AddTimed
<1>12. setTime'[e] = timestamp + 1
  BY <1>5, <1>9 DEF SetAt
<1>13. \A f \in N : setTime[f] # 0 => setTime'[f] = setTime[f]
  BY <1>9, <1>11
<1>14. Timed(addedEdges', deductions', setTime', N, timestamp')
  BY <1>2, <1>9, <1>11
<1>15. Points(backtrack_points', addedEdges', setTime')
  BY <1>1, <1>2, <1>4, <1>5, <1>12, <1>13, AddPoints
<1>16. \A j \in 1 .. Len(told) : told[j] # l
  <2>1. DOMAIN told = 1 .. Len(told)
    BY <1>7
  <2> QED BY <1>1, <2>1
<1>17. Owners(asgn', addedEdges', setTime', backtrack_points', told')
  <2>1. asgn \in [Range(addedEdges) -> Literal]
    BY <1>4 DEF Owners
  <2>2. PICK A2, T2, B2, L2, E2 :
          /\ A2 = asgn' /\ T2 = setTime' /\ B2 = backtrack_points' /\ L2 = told'
          /\ E2 = addedEdges'
    OBVIOUS
  <2>3. /\ A2 \in [Range(addedEdges) \cup {e} -> Literal] /\ A2[e] = l
        /\ \A f \in Range(addedEdges) : f # e => A2[f] = asgn[f]
    BY <1>2, <2>1, <2>2
  <2>4. T2[e] = timestamp + 1 /\ \A f \in N : setTime[f] # 0 => T2[f] = setTime[f]
    BY <1>12, <1>13, <2>2
  <2>5. Owners(A2, Append(addedEdges, e), T2, Append(backtrack_points, timestamp), Append(told, l))
    <3>1. setTime[e] = 0
      BY <1>2
    <3>2. Timed(addedEdges, deductions, setTime, N, timestamp)
      BY <1>4
    <3>3. Points(backtrack_points, addedEdges, setTime)
      BY <1>4
    <3>4. Owners(asgn, addedEdges, setTime, backtrack_points, told)
      BY <1>4
    <3>5. T2[e] = timestamp + 1
      BY <2>4
    <3>6. \A f \in N : setTime[f] # 0 => T2[f] = setTime[f]
      BY <2>4
    <3>7. A2 \in [Range(addedEdges) \cup {e} -> Literal]
      BY <2>3
    <3>8. A2[e] = l
      BY <2>3
    <3>9. \A f \in Range(addedEdges) : f # e => A2[f] = asgn[f]
      BY <2>3
    <3> HIDE DEF graph
    <3> QED BY <1>5, <1>16, <3>1, <3>2, <3>3, <3>4, <3>5, <3>6, <3>7, <3>8, <3>9, AddOwners, SMTT(60)
  <2> QED BY <1>1, <1>2, <2>2, <2>5
<1>18. Handed(th_deductions', deductions_lim', told')
  BY <1>1, <1>4, <1>7, <1>9, PushHanded
<1>19. Conflicting(inv_asgn', inv_bpoint', told')
  BY <1>1, <1>2, <1>4 DEF Conflicting
<1>20. StoreInv'
  BY <1>1, <1>4 DEF StoreInv, NegatedEdge, Negate, Plain
<1>21. N = DOMAIN neg'
  BY <1>1 DEF N
<1> QED
  BY <1>9, <1>14, <1>15, <1>17, <1>18, <1>19, <1>20, <1>21 DEF STPInv, GraphInv

\* Explaining and building a model leave the graph alone; the pop that ends getReasonFor
\* sets the clock to the time it shows.
LEMMA QueryFits ==
  ASSUME STPInv,
         \/ GetConflict \/ ComputeModel \/ \E l \in Literal : GetReasonFor(l)
  PROVE  STPInv'
<1>1. UNCHANGED <<edgeOf, leqOf, neg, setTime, asgn, addedEdges, deductions, inv_asgn,
                  backtrack_points, th_deductions, deductions_lim, told>>
  BY DEF GetConflict, ComputeModel, GetReasonFor, storeVars, graphVars, tsolverVars
<1>2. thrown' \in {"no", "overflow", "underflow"}
  BY DEF GetConflict, ComputeModel, GetReasonFor, Explain, STPInv
<1>3. timestamp' = timestamp
  <2>1. CASE GetConflict \/ ComputeModel
    BY <2>1 DEF GetConflict, ComputeModel, graphVars
  <2>2. CASE \E l \in Literal : GetReasonFor(l)
    <3>1. PICK l \in Literal : l \in Range(th_deductions)
      BY <2>2 DEF GetReasonFor
    <3>2. timestamp' = setTime[Last(addedEdges)]
      BY <2>2 DEF GetReasonFor
    <3>3. told # <<>>
      <4> SUFFICES ASSUME told = <<>> PROVE FALSE
        OBVIOUS
      <4>1. th_deductions = <<>>
        BY NothingTold
      <4> QED BY <3>1, <4>1 DEF Range
    <3>4. /\ addedEdges \in Seq(DOMAIN neg) /\ told \in Seq(Literal)
          /\ Len(told) = Len(backtrack_points)
      BY DEF STPInv, GraphInv, Timed, Owners
    <3>5. Len(told) # 0
      BY <3>3, <3>4, EmptySeq
    <3>6. Len(addedEdges) # 0
      BY <3>4, <3>5 DEF STPInv, Points
    <3>7. Len(addedEdges) > 0
      BY <3>4, <3>6
    <3>8. timestamp = setTime[addedEdges[Len(addedEdges)]]
      BY <3>7 DEF STPInv, GraphInv, Timed, Clock
    <3> QED BY <3>2, <3>8 DEF Last
  <2> QED BY <2>1, <2>2
<1>4. Conflicting(inv_asgn', inv_bpoint', told')
  <2>1. CASE GetConflict \/ ComputeModel
    BY <1>1, <2>1 DEF GetConflict, ComputeModel, STPInv, Conflicting
  <2>2. CASE \E l \in Literal : GetReasonFor(l)
    <3>1. inv_asgn = none /\ inv_bpoint' = 0
      BY <2>2 DEF GetReasonFor
    <3> QED BY <1>1, <3>1 DEF Conflicting
  <2> QED BY <2>1, <2>2
<1>5. StoreInv'
  BY <1>1 DEF STPInv, StoreInv, NegatedEdge, Negate, Plain
<1> QED
  BY <1>1, <1>2, <1>3, <1>4, <1>5 DEF STPInv, GraphInv

\* Backtracking.
LEMMA PopFits ==
  ASSUME STPInv, NEW i \in 1 .. Len(backtrack_points), PopBacktrackPoints(i)
  PROVE  STPInv'
<1> DEFINE n == Len(backtrack_points)
           m == n - i + 1
           p == backtrack_points[m]
           N == DOMAIN neg
           S == {k \in DOMAIN addedEdges : setTime[addedEdges[k]] <= p} \cup {0}
           h == Max(S)
           R == {k \in DOMAIN deductions : setTime[deductions[k]] <= p} \cup {0}
           d == Max(R)
           gone == {addedEdges[k] : k \in h + 1 .. Len(addedEdges)}
           goneD == {deductions[k] : k \in d + 1 .. Len(deductions)}
<1>1. /\ Timed(addedEdges, deductions, setTime, N, timestamp)
      /\ Points(backtrack_points, addedEdges, setTime)
      /\ Owners(asgn, addedEdges, setTime, backtrack_points, told)
      /\ Handed(th_deductions, deductions_lim, told)
      /\ Conflicting(inv_asgn, inv_bpoint, told)
      /\ StoreInv /\ thrown \in {"no", "overflow", "underflow"}
  BY DEF STPInv, GraphInv
<1>2. /\ addedEdges \in Seq(N) /\ deductions \in Seq(N) /\ setTime \in [N -> 0 .. MaxTime]
      /\ backtrack_points \in Seq(Nat) /\ told \in Seq(Literal) /\ Len(told) = n /\ n \in Nat
      /\ Len(deductions_lim) = n
  BY <1>1 DEF Timed, Points, Owners, Handed
<1>3. m \in 1 .. n /\ m - 1 = n - i /\ m - 1 \in Nat /\ m - 1 <= n
  BY <1>2
<1>4. p \in Nat
  <2> HIDE DEF m
  <2> QED BY <1>2, <1>3
<1>5. Cuts(addedEdges, setTime, p, h)
  <2>1. Monotone(addedEdges, setTime)
    BY <1>1, <1>2, IncreasingMonotone DEF Timed
  <2>2. /\ S \in SUBSET (0 .. Len(addedEdges)) /\ 0 \in S
        /\ \A k \in 1 .. Len(addedEdges) : k \in S <=> setTime[addedEdges[k]] <= p
    <3>1. DOMAIN addedEdges = 1 .. Len(addedEdges) /\ Len(addedEdges) \in Nat
      BY <1>2
    <3> HIDE DEF p, N
    <3> QED BY <3>1
  <2> HIDE DEF p, N, S
  <2> QED BY <1>2, <1>4, <2>1, <2>2, CutAt
<1>6. Cuts(deductions, setTime, p, d)
  <2>1. Monotone(deductions, setTime)
    BY <1>1 DEF Timed
  <2>2. /\ R \in SUBSET (0 .. Len(deductions)) /\ 0 \in R
        /\ \A k \in 1 .. Len(deductions) : k \in R <=> setTime[deductions[k]] <= p
    <3>1. DOMAIN deductions = 1 .. Len(deductions) /\ Len(deductions) \in Nat
      BY <1>2
    <3> HIDE DEF p, N
    <3> QED BY <3>1
  <2> HIDE DEF p, N, R
  <2> QED BY <1>2, <1>4, <2>1, <2>2, CutAt
<1>7. h \in Nat /\ h <= Len(addedEdges) /\ d \in Nat /\ d <= Len(deductions)
  <2> HIDE DEF h, d, p
  <2> QED BY <1>2, <1>5, <1>6 DEF Cuts
<1>8. addedEdges # <<>>
  <2>1. Len(addedEdges) # 0
    BY <1>1, <1>2 DEF Points
  <2> QED BY <2>1
<1>9. KeptEdges(p) = SubSeq(addedEdges, 1, h) /\ KeptDeductions(p) = SubSeq(deductions, 1, d)
  BY DEF KeptEdges, KeptDeductions
<1>10. /\ Len(SubSeq(addedEdges, 1, h)) = h /\ Len(SubSeq(deductions, 1, d)) = d
       /\ SubSeq(addedEdges, 1, h) \in Seq(N)
       /\ \A k \in 1 .. h : SubSeq(addedEdges, 1, h)[k] = addedEdges[k]
  <2> HIDE DEF h, d, p, N
  <2> QED BY <1>2, <1>7, Prefix
<1>11. removeAfter(p)
  BY <1>2 DEF PopBacktrackPoints
<1>12. /\ backtrack_points' = SubSeq(backtrack_points, 1, m - 1)
       /\ th_deductions' = SubSeq(th_deductions, 1, deductions_lim[m])
       /\ deductions_lim' = SubSeq(deductions_lim, 1, m - 1)
       /\ told' = SubSeq(told, 1, m - 1)
       /\ UNCHANGED <<edgeOf, leqOf, neg, thrown>>
  BY <1>3 DEF PopBacktrackPoints, storeVars
<1>13. \/ inv_bpoint > m - 1 /\ inv_bpoint' = 0 /\ inv_asgn' = none
       \/ ~(inv_bpoint > m - 1) /\ inv_bpoint' = inv_bpoint /\ inv_asgn' = inv_asgn
  BY <1>3 DEF PopBacktrackPoints
<1> HIDE DEF m, p, N, h, d
<1>14. /\ addedEdges' = SubSeq(addedEdges, 1, h)
       /\ deductions' = SubSeq(deductions, 1, d)
       /\ timestamp' = IF SubSeq(addedEdges, 1, h) = <<>> THEN timestamp
                       ELSE setTime[Last(SubSeq(addedEdges, 1, h))]
       /\ asgn' = [f \in DOMAIN asgn \ gone |-> asgn[f]]
       /\ setTime' = [f \in DOMAIN setTime |-> IF f \in gone \cup goneD THEN 0 ELSE setTime[f]]
  BY <1>8, <1>9, <1>10, <1>11 DEF removeAfter
<1>15. timestamp' = IF h = 0 THEN timestamp ELSE setTime[addedEdges[h]]
  <2>1. CASE h = 0
    BY <1>10, <1>14, <2>1, EmptySeq
  <2>2. CASE h # 0
    <3>1. SubSeq(addedEdges, 1, h) # <<>>
      BY <1>10, <2>2
    <3>2. h \in 1 .. h
      BY <1>7, <2>2
    <3>3. Last(SubSeq(addedEdges, 1, h)) = addedEdges[h]
      BY <1>10, <3>2 DEF Last
    <3> QED BY <1>14, <2>2, <3>1, <3>3
  <2> QED BY <2>1, <2>2
<1>16. setTime' = UpTo(setTime, N, p)
  <2>1. \A f \in N : setTime[f] > p <=> f \in gone \cup goneD
    BY <1>1, <1>4, <1>5, <1>6, GoneIsLater
  <2>2. DOMAIN setTime = N
    BY <1>2
  <2> HIDE DEF gone, goneD
  <2> QED BY <1>14, <2>1, <2>2 DEF UpTo
<1>17. Timed(addedEdges', deductions', setTime', N, timestamp')
  BY <1>1, <1>4, <1>5, <1>6, <1>14, <1>15, <1>16, CutTimed
<1>18. Points(backtrack_points', addedEdges', setTime')
  <2>1. Points(SubSeq(backtrack_points, 1, m - 1), SubSeq(addedEdges, 1, h), UpTo(setTime, N, p))
    BY <1>1, <1>3, <1>5, <1>6, CutPoints DEF p
  <2> QED BY <1>12, <1>14, <1>16, <2>1
<1>19. Owners(asgn', addedEdges', setTime', backtrack_points', told')
  <2>1. PICK A2 : A2 = asgn'
    OBVIOUS
  <2>2. A2 = [f \in DOMAIN asgn \ {addedEdges[k] : k \in h + 1 .. Len(addedEdges)} |-> asgn[f]]
    BY <1>14, <2>1
  <2>3. Owners(A2, SubSeq(addedEdges, 1, h), UpTo(setTime, N, p),
               SubSeq(backtrack_points, 1, m - 1), SubSeq(told, 1, m - 1))
    BY <1>1, <1>3, <1>5, <2>2, CutOwners DEF p
  <2> QED BY <1>12, <1>14, <1>16, <2>1, <2>3
<1>20. Handed(th_deductions', deductions_lim', told')
  BY <1>1, <1>2, <1>3, <1>12, CutHanded
<1>21. Conflicting(inv_asgn', inv_bpoint', told')
  <2>1. Len(told') = m - 1
    BY <1>2, <1>3, <1>12, Prefix
  <2>2. CASE inv_bpoint' = 0 /\ inv_asgn' = none
    BY <2>2 DEF Conflicting
  <2>3. CASE ~(inv_bpoint > m - 1) /\ inv_bpoint' = inv_bpoint /\ inv_asgn' = inv_asgn
    BY <1>1, <1>3, <2>1, <2>3 DEF Conflicting
  <2> QED BY <1>13, <2>2, <2>3
<1>22. StoreInv'
  BY <1>1, <1>12 DEF StoreInv, NegatedEdge, Negate, Plain
<1>23. N = DOMAIN neg' /\ thrown' \in {"no", "overflow", "underflow"}
  BY <1>1, <1>12 DEF N
<1> QED
  BY <1>17, <1>18, <1>19, <1>20, <1>21, <1>22, <1>23 DEF STPInv, GraphInv

\* The solver emptied: deductions and inv_asgn are not reset, and need not be.
LEMMA ClearFits ==
  ASSUME STPInv, ClearSolver
  PROVE  STPInv'
<1>1. told = <<>>
  BY DEF ClearSolver
<1>2. deductions = <<>> /\ inv_asgn = none
  BY <1>1, NothingTold
<1>3. /\ edgeOf' = <<>> /\ leqOf' = <<>> /\ neg' = <<>> /\ setTime' = <<>> /\ asgn' = <<>>
      /\ addedEdges' = <<>> /\ timestamp' = 0 /\ deductions' = <<>>
      /\ backtrack_points' = <<>> /\ th_deductions' = <<>> /\ deductions_lim' = <<>>
      /\ told' = <<>> /\ inv_asgn' = none /\ inv_bpoint' = inv_bpoint /\ thrown' = thrown
  BY <1>1, <1>2 DEF ClearSolver
<1>4. DOMAIN neg' = {} /\ DOMAIN edgeOf' = {} /\ DOMAIN leqOf' = {}
  BY <1>3
<1>5. StoreInv'
  BY <1>4, FS_EmptySet DEF StoreInv
<1>6. GraphInv'
  <2>1. setTime' \in [{} -> 0 .. MaxTime]
    BY <1>3
  <2>2. timestamp' \in 0 .. MaxTime
    BY <1>3, BoundAssumption
  <2> QED BY <1>3, <1>4, <2>1, <2>2 DEF GraphInv, Timed, Increasing, Monotone, Clock
<1>7. Points(backtrack_points, addedEdges, setTime)'
  BY <1>3 DEF Points
<1>8. Owners(asgn, addedEdges, setTime, backtrack_points, told)'
  <2>1. Range(addedEdges') = {}
    BY <1>3 DEF Range
  <2>2. asgn' \in [{} -> Literal]
    BY <1>3
  <2> QED BY <1>3, <2>1, <2>2 DEF Owners
<1>9. Handed(th_deductions, deductions_lim, told)'
  BY <1>3 DEF Handed
<1>10. Conflicting(inv_asgn, inv_bpoint, told)'
  BY <1>3 DEF Conflicting, STPInv
<1>11. (thrown \in {"no", "overflow", "underflow"})'
  BY <1>3 DEF STPInv
<1> QED
  BY <1>5, <1>6, <1>7, <1>8, <1>9, <1>10, <1>11 DEF STPInv

LEMMA NextFits == STPInv /\ [Next]_vars => STPInv'
<1> SUFFICES ASSUME STPInv, [Next]_vars PROVE STPInv'
  OBVIOUS
<1>1. CASE \E a \in DOMAIN Atom : DeclareAtom(a)
  BY <1>1, DeclareFits
<1>2. CASE \E l \in Literal : AssertLit(l)
  <2>1. PICK l \in Literal : AssertLit(l)
    BY <1>2
  <2>2. AssertKnown(l) \/ AssertConflict(l) \/ AssertNew(l)
    BY <2>1 DEF AssertLit
  <2> QED BY <2>1, <2>2, AssertKnownFits, AssertNewFits
<1>3. CASE GetConflict \/ ComputeModel \/ \E l \in Literal : GetReasonFor(l)
  BY <1>3, QueryFits
<1>4. CASE \E i \in 1 .. Len(backtrack_points) : PopBacktrackPoints(i)
  BY <1>4, PopFits
<1>5. CASE ClearSolver
  BY <1>5, ClearFits
<1>6. CASE UNCHANGED vars
  <2>1. UNCHANGED <<edgeOf, leqOf, neg, setTime, asgn, addedEdges, deductions, timestamp,
                    inv_asgn, inv_bpoint, backtrack_points, th_deductions, deductions_lim,
                    told, thrown>>
    BY <1>6 DEF vars, storeVars, graphVars, tsolverVars
  <2>2. StoreInv'
    BY <2>1 DEF STPInv, StoreInv, NegatedEdge, Negate, Plain
  <2> QED BY <2>1, <2>2 DEF STPInv, GraphInv
<1> QED
  BY <1>1, <1>2, <1>3, <1>4, <1>5, <1>6 DEF Next

\* The invariant gives what removeAfter relies on.
LEMMA InvStructure == STPInv => STPStructure
<1> SUFFICES ASSUME STPInv PROVE STPStructure
  OBVIOUS
<1>1. /\ Timed(addedEdges, deductions, setTime, DOMAIN neg, timestamp)
      /\ Points(backtrack_points, addedEdges, setTime)
      /\ Owners(asgn, addedEdges, setTime, backtrack_points, told)
      /\ Handed(th_deductions, deductions_lim, told)
      /\ Conflicting(inv_asgn, inv_bpoint, told)
      /\ StoreInv /\ thrown \in {"no", "overflow", "underflow"}
  BY DEF STPInv, GraphInv
<1>2. /\ addedEdges \in Seq(DOMAIN neg) /\ deductions \in Seq(DOMAIN neg)
      /\ backtrack_points \in Seq(Nat) /\ told \in Seq(Literal) /\ th_deductions \in Seq(Literal)
      /\ Len(backtrack_points) = Len(told) /\ Len(deductions_lim) = Len(told)
  BY <1>1 DEF Timed, Points, Owners, Handed
<1>3. /\ DOMAIN addedEdges = 1 .. Len(addedEdges) /\ DOMAIN deductions = 1 .. Len(deductions)
      /\ DOMAIN backtrack_points = 1 .. Len(backtrack_points)
  BY <1>2
<1>4. TypeOK
  <2>1. /\ DOMAIN edgeOf \subseteq DOMAIN Atom /\ Range(edgeOf) \subseteq DOMAIN neg
        /\ DOMAIN leqOf \subseteq DOMAIN neg /\ Range(leqOf) \subseteq DOMAIN edgeOf
        /\ \A e \in DOMAIN neg : neg[e] \in DOMAIN neg /\ neg[neg[e]] = e /\ neg[e] # e
    BY <1>1 DEF StoreInv, Range
  <2>2. setTime \in [DOMAIN neg -> 0 .. MaxTime] /\ timestamp \in 0 .. MaxTime
    BY <1>1 DEF Timed
  <2>3. asgn \in [Range(addedEdges) -> Literal]
    BY <1>1 DEF Owners
  <2>4. Range(deductions) \subseteq DOMAIN neg
    BY <1>2 DEF Range
  <2>5. Range(told) \cup Range(th_deductions) \subseteq Literal
    BY <1>2 DEF Range
  <2>6. inv_asgn \in Literal \cup {none}
    BY <1>1 DEF Conflicting
  <2> QED BY <1>1, <1>2, <2>1, <2>2, <2>3, <2>4, <2>5, <2>6 DEF TypeOK
<1>5. TimesInOrder
  <2>1. \A i, j \in DOMAIN addedEdges : i < j => setTime[addedEdges[i]] < setTime[addedEdges[j]]
    BY <1>1, <1>3 DEF Timed, Increasing
  <2>2. ASSUME NEW i \in DOMAIN deductions, NEW j \in DOMAIN deductions, i < j
        PROVE  setTime[deductions[i]] <= setTime[deductions[j]]
    <3>1. i <= j
      BY <1>3, <2>2
    <3> QED BY <1>1, <1>3, <3>1 DEF Timed, Monotone
  <2>3. ASSUME addedEdges # <<>> PROVE timestamp = setTime[Last(addedEdges)]
    <3>1. Len(addedEdges) > 0
      BY <1>2, <2>3, EmptySeq
    <3> QED BY <1>1, <3>1 DEF Timed, Clock, Last
  <2>4. ASSUME NEW i \in DOMAIN backtrack_points, NEW e \in DOMAIN asgn
        PROVE  setTime[e] <= backtrack_points[i] <=> asgn[e] \in {told[j] : j \in 1 .. i - 1}
    <3>1. setTime[e] <= backtrack_points[i] <=> \E j \in 1 .. i - 1 : asgn[e] = told[j]
      BY <1>1, <1>3 DEF Owners
    <3> QED BY <3>1
  <2> QED BY <2>1, <2>2, <2>3, <2>4 DEF TimesInOrder
<1>6. StartsClean
  <2> SUFFICES ASSUME told = <<>>
               PROVE  /\ addedEdges = <<>> /\ deductions = <<>> /\ asgn = <<>>
                      /\ inv_asgn = none /\ th_deductions = <<>>
                      /\ \A e \in DOMAIN neg : setTime[e] = 0
    BY DEF StartsClean
  <2>1. /\ addedEdges = <<>> /\ deductions = <<>> /\ inv_asgn = none /\ th_deductions = <<>>
        /\ DOMAIN asgn = {} /\ \A e \in DOMAIN neg : setTime[e] = 0
    BY NothingTold
  <2>2. asgn = <<>>
    <3>1. asgn \in [{} -> Literal]
      BY <1>1, <2>1 DEF Owners
    <3> QED BY <3>1
  <2> QED BY <2>1, <2>2
<1> QED
  BY <1>4, <1>5, <1>6 DEF STPStructure

-----------------------------------------------------------------------------
\* Through every sequence of declarations, assertions, explanations, backtracking and
\* clearing, the edges of the graph, the deductions and the backtrack points stay in the
\* order of their times, each point is at an edge, each edge belongs to a literal told
\* before the points that keep it, and nothing without an entry in these lists has a time.
THEOREM STPInvariant == Spec => []STPInv
<1>1. Init => STPInv
  BY InitFits
<1>2. STPInv /\ [Next]_vars => STPInv'
  BY NextFits
<1> QED
  BY <1>1, <1>2, PTL DEF Spec

\* Undoing by time undoes what was done since the point, and nothing of the past is left
\* once every point is popped, for every set of atoms over the integers and the reals.
THEOREM STPStaysInOrder == Spec => []STPStructure
<1>1. STPInv => STPStructure
  BY InvStructure
<1> QED
  BY <1>1, STPInvariant, PTL
=============================================================================
