------------------------ MODULE TSolverHandlerProofs ------------------------
(***************************************************************************)
(* Proof that the solvers of a schedule follow the trail of the SAT solver *)
(* (InSync), for every schedule, whatever atoms the solvers take and       *)
(* whatever they find inconsistent.                                        *)
(***************************************************************************)
EXTENDS TSolverHandler, SequenceLemmas, FiniteSetTheorems, SequenceTheorems, TLAPS

\* The number of elements of P among the first n numbers.
Hits(P, n) == Cardinality(P \cap (1 .. n))

\* The positions of a trail t whose literals are declared, and those a solver takes.
DeclaredAt(t) == {i \in 1 .. Len(t) : isDeclared(var(t[i]))}
TakenAt(s, t) == {i \in 1 .. Len(t) : var(t[i]) \in Valid[s]}

Point == [told : Nat, lim : Nat, last : Nat]
SolverState == [told : Seq(Lit), points : Seq(Point), ded : Seq(Lit), next : Nat,
                has : BOOLEAN, expl : SUBSET Lit]

\* A solver with the state S was told the first n literals of t that it takes.
ToldUpTo(s, S, t, n) ==
  /\ Len(S.told) = Hits(TakenAt(s, t), n)
  /\ \A i \in 1 .. n : i \in TakenAt(s, t) => S.told[Hits(TakenAt(s, t), i)] = t[i]

\* It has a point for each declared literal, with the number of literals told before.
PointsFit(s, S, t, n) ==
  /\ Len(S.points) = Hits(DeclaredAt(t), n)
  /\ \A i \in 0 .. n : Hits(DeclaredAt(t), i) < Hits(DeclaredAt(t), n) =>
       S.points[Hits(DeclaredAt(t), i) + 1].told = Hits(TakenAt(s, t), i)

\* The points cut the literals and the deductions in order.
LimitsFit(S) ==
  /\ S.next <= Len(S.ded)
  /\ \A p \in 1 .. Len(S.points) :
       /\ S.points[p].told <= Len(S.told) /\ S.points[p].lim <= Len(S.ded)
       /\ S.points[p].last <= S.points[p].lim
  /\ \A p, q \in 1 .. Len(S.points) : p <= q =>
       S.points[p].told <= S.points[q].told /\ S.points[p].lim <= S.points[q].lim

\* The deductions follow, and are about different atoms.
ToldBy(S, k) == {S.told[j] : j \in 1 .. k}
Follows(s, S, i) ==
  \E p \in 1 .. Len(S.points) :
    MadeAfter(S, p, i) /\ S.ded[i] \in Implied(s, ToldBy(S, ToldBefore(S, p)))
DeductionsFit(s, S) ==
  /\ \A i \in 1 .. Len(S.ded) : Follows(s, S, i)
  /\ \A i, j \in 1 .. Len(S.ded) : var(S.ded[i]) = var(S.ded[j]) => i = j
  /\ Len(S.ded) > 0 => s \in Deducers

SolverFits(s, S, t, n) ==
  S \in SolverState /\ PointsFit(s, S, t, n) /\ LimitsFit(S) /\ DeductionsFit(s, S)

\* What deduceTheory has collected has no value and comes from deductions handed out.
Collected ==
  /\ ~deducing => deds = <<>>
  /\ deducing => answer = "SAT" /\ stack = Len(trail)
  /\ \A k \in 1 .. Len(deds) :
       /\ ~Valued(deds[k])
       /\ \E s \in Solver : \E j \in 1 .. solvers[s].next : deds[k] = solvers[s].ded[j]
  /\ \A j, k \in 1 .. Len(deds) : var(deds[j]) = var(deds[k]) => j = k

\* A solver after n literals of t, the last of which may have failed.
InStep(s, S, t, n, a) ==
  /\ SolverFits(s, S, t, n)
  /\ ToldUpTo(s, S, t, n) \/ (a = "UNSAT" /\ n > 0 /\ ToldUpTo(s, S, t, n - 1))

\* The inductive invariant.
HandlerInv ==
  /\ trail \in Seq(Lit) /\ stack \in 0 .. Len(trail) /\ answer \in {"SAT", "UNSAT"}
  /\ deducing \in BOOLEAN /\ deds \in Seq(Lit) /\ TrailDistinct /\ Collected
  /\ DOMAIN solvers = Solver
  /\ \A s \in Solver : InStep(s, solvers[s], trail, stack, answer)

-----------------------------------------------------------------------------
\* Counting.
LEMMA HitsType ==
  ASSUME NEW P, NEW n \in Nat
  PROVE  IsFiniteSet(P \cap (1 .. n)) /\ Hits(P, n) \in Nat
<1>1. IsFiniteSet(1 .. n)
  BY FS_Interval
<1>2. P \cap (1 .. n) \in SUBSET (1 .. n)
  OBVIOUS
<1>3. IsFiniteSet(P \cap (1 .. n))
  BY <1>1, <1>2, FS_Subset
<1> QED
  BY <1>3, FS_CardinalityType DEF Hits

LEMMA HitsStep ==
  ASSUME NEW P, NEW n \in Nat
  PROVE  /\ Hits(P, 0) = 0
         /\ n + 1 \in P => Hits(P, n + 1) = Hits(P, n) + 1
         /\ n + 1 \notin P => Hits(P, n + 1) = Hits(P, n)
<1>1. Hits(P, 0) = 0
  <2>1. P \cap (1 .. 0) = {}
    OBVIOUS
  <2> QED BY <2>1, FS_EmptySet DEF Hits
<1>2. 1 .. n + 1 = (1 .. n) \cup {n + 1} /\ n + 1 \notin 1 .. n
  OBVIOUS
<1>3. CASE n + 1 \in P
  <2>1. P \cap (1 .. n + 1) = (P \cap (1 .. n)) \cup {n + 1} /\ n + 1 \notin P \cap (1 .. n)
    BY <1>2, <1>3
  <2> QED BY <1>1, <1>3, <2>1, HitsType, FS_AddElement DEF Hits
<1>4. CASE n + 1 \notin P
  <2>1. P \cap (1 .. n + 1) = P \cap (1 .. n)
    BY <1>2, <1>4
  <2> QED BY <1>1, <1>4, <2>1 DEF Hits
<1> QED
  BY <1>3, <1>4

\* Where one counter stands still, so does that of a subset.
LEMMA HitsOrder ==
  ASSUME NEW P, NEW m \in Nat, NEW n \in Nat, m <= n, NEW Q \in SUBSET P
  PROVE  /\ Hits(P, m) <= Hits(P, n)
         /\ Hits(P, m) = Hits(P, n) => Hits(Q, m) = Hits(Q, n)
<1>1. P \cap (1 .. m) \in SUBSET (P \cap (1 .. n))
  OBVIOUS
<1>2. IsFiniteSet(P \cap (1 .. n))
  BY HitsType
<1>3. Hits(P, m) <= Hits(P, n)
  BY <1>1, <1>2, FS_Subset DEF Hits
<1>4. ASSUME Hits(P, m) = Hits(P, n) PROVE Hits(Q, m) = Hits(Q, n)
  <2>1. P \cap (1 .. m) = P \cap (1 .. n)
    BY <1>1, <1>2, <1>4, FS_Subset DEF Hits
  <2>2. Q \cap (1 .. m) = Q \cap (1 .. n)
    BY <2>1
  <2> QED BY <2>2 DEF Hits
<1> QED
  BY <1>3, <1>4

LEMMA HitsMonotone ==
  ASSUME NEW P, NEW m \in Nat, NEW n \in Nat, m <= n
  PROVE  Hits(P, m) <= Hits(P, n)
<1>1. P \in SUBSET P
  OBVIOUS
<1> QED
  BY <1>1, HitsOrder

\* The elements between two numbers.
LEMMA HitsBetween ==
  ASSUME NEW P, NEW m \in Nat, NEW n \in Nat, m <= n
  PROVE  Cardinality(P \cap (m + 1 .. n)) = Hits(P, n) - Hits(P, m)
<1> DEFINE A == P \cap (1 .. m)
           B == P \cap (m + 1 .. n)
<1>1. P \cap (1 .. n) = A \cup B /\ A \cap B = {}
  OBVIOUS
<1>2. IsFiniteSet(A) /\ Hits(P, m) = Cardinality(A) /\ Cardinality(A) \in Nat
  BY HitsType DEF Hits
<1>3. IsFiniteSet(B) /\ Cardinality(B) \in Nat
  <2>1. IsFiniteSet(m + 1 .. n)
    BY FS_Interval
  <2>2. IsFiniteSet(B)
    BY <2>1, FS_Subset
  <2> QED BY <2>2, FS_CardinalityType
<1>4. Hits(P, n) = Cardinality(A \cup B)
  BY <1>1 DEF Hits
<1> HIDE DEF A, B
<1>5. Cardinality(A \cup B) = Cardinality(A) + Cardinality(B) - 0
  <2>1. Cardinality(A \cap B) = 0
    BY <1>1, FS_EmptySet
  <2> QED BY <1>2, <1>3, <2>1, FS_Union
<1>6. Cardinality(B) = Hits(P, n) - Hits(P, m)
  BY <1>2, <1>3, <1>4, <1>5
<1> QED
  BY <1>6 DEF B

\* Counters of two trails that begin alike.
LEMMA HitsAgree ==
  ASSUME NEW t \in Seq(Lit), NEW u \in Seq(Lit), NEW n \in Nat, n <= Len(t), n <= Len(u),
         \A i \in 1 .. n : t[i] = u[i], NEW k \in 0 .. n, NEW s
  PROVE  /\ Hits(DeclaredAt(t), k) = Hits(DeclaredAt(u), k)
         /\ Hits(TakenAt(s, t), k) = Hits(TakenAt(s, u), k)
<1>1. \A i \in 1 .. k : t[i] = u[i] /\ i \in 1 .. Len(t) /\ i \in 1 .. Len(u)
  OBVIOUS
<1>2. DeclaredAt(t) \cap (1 .. k) = DeclaredAt(u) \cap (1 .. k)
  BY <1>1 DEF DeclaredAt
<1>3. TakenAt(s, t) \cap (1 .. k) = TakenAt(s, u) \cap (1 .. k)
  BY <1>1 DEF TakenAt
<1> QED
  BY <1>2, <1>3 DEF Hits

\* The counters of the specification.
LEMMA HitsCount ==
  ASSUME trail \in Seq(Lit), NEW n \in 0 .. Len(trail), NEW s
  PROVE  /\ Declared(1, n) = Hits(DeclaredAt(trail), n)
         /\ Taken(s, n) = Hits(TakenAt(s, trail), n)
<1>1. \A i \in 1 .. n : i \in 1 .. Len(trail)
  OBVIOUS
<1>2. {i \in 1 .. n : isDeclared(var(trail[i]))} = DeclaredAt(trail) \cap (1 .. n)
  BY <1>1 DEF DeclaredAt
<1>3. {i \in 1 .. n : var(trail[i]) \in Valid[s]} = TakenAt(s, trail) \cap (1 .. n)
  BY <1>1 DEF TakenAt
<1> QED
  BY <1>2, <1>3 DEF Hits, Declared, Taken

LEMMA DeclaredBetween ==
  ASSUME trail \in Seq(Lit), NEW n \in 0 .. Len(trail), NEW m \in 0 .. n
  PROVE  Declared(m + 1, n) = Hits(DeclaredAt(trail), n) - Hits(DeclaredAt(trail), m)
<1>1. \A i \in m + 1 .. n : i \in 1 .. Len(trail)
  OBVIOUS
<1>2. {i \in m + 1 .. n : isDeclared(var(trail[i]))} = DeclaredAt(trail) \cap (m + 1 .. n)
  BY <1>1 DEF DeclaredAt
<1>3. Cardinality(DeclaredAt(trail) \cap (m + 1 .. n))
        = Hits(DeclaredAt(trail), n) - Hits(DeclaredAt(trail), m)
  BY HitsBetween
<1> QED
  BY <1>2, <1>3 DEF Declared

LEMMA TakenIsDeclared ==
  ASSUME NEW s \in Solver, NEW t
  PROVE  TakenAt(s, t) \in SUBSET DeclaredAt(t)
BY DEF TakenAt, DeclaredAt, isDeclared

-----------------------------------------------------------------------------
\* A trail that is cut or extended past what the solvers have seen.
LEMMA TrailChange ==
  ASSUME NEW t \in Seq(Lit), NEW u \in Seq(Lit), NEW n \in Nat, n <= Len(t), n <= Len(u),
         \A i \in 1 .. n : t[i] = u[i], NEW s, NEW S, NEW m \in 0 .. n
  PROVE  /\ SolverFits(s, S, t, n) => SolverFits(s, S, u, n)
         /\ ToldUpTo(s, S, t, m) => ToldUpTo(s, S, u, m)
<1>1. \A k \in 0 .. n : /\ Hits(DeclaredAt(t), k) = Hits(DeclaredAt(u), k)
                        /\ Hits(TakenAt(s, t), k) = Hits(TakenAt(s, u), k)
  BY HitsAgree
<1>2. ASSUME PointsFit(s, S, t, n) PROVE PointsFit(s, S, u, n)
  BY <1>1, <1>2 DEF PointsFit
<1>3. ASSUME ToldUpTo(s, S, t, m) PROVE ToldUpTo(s, S, u, m)
  <2>1. \A i \in 1 .. m : /\ i \in TakenAt(s, u) <=> i \in TakenAt(s, t)
                          /\ t[i] = u[i] /\ i \in 0 .. n
    BY DEF TakenAt
  <2>2. \A i \in 1 .. m : Hits(TakenAt(s, t), i) = Hits(TakenAt(s, u), i)
    BY <1>1, <2>1
  <2>3. Hits(TakenAt(s, t), m) = Hits(TakenAt(s, u), m)
    BY <1>1
  <2> QED BY <1>3, <2>1, <2>2, <2>3 DEF ToldUpTo
<1> QED
  BY <1>2, <1>3 DEF SolverFits

\* A solver that only explains, or hands out a deduction.
LEMMA SameParts ==
  ASSUME NEW s, NEW t, NEW n, NEW S, SolverFits(s, S, t, n), NEW S2 \in SolverState,
         S2.told = S.told, S2.points = S.points, S2.ded = S.ded, S2.next <= Len(S.ded)
  PROVE  /\ SolverFits(s, S2, t, n)
         /\ \A m : ToldUpTo(s, S, t, m) => ToldUpTo(s, S2, t, m)
<1>1. PointsFit(s, S2, t, n) /\ LimitsFit(S2)
  BY DEF SolverFits, PointsFit, LimitsFit
<1>2. DeductionsFit(s, S2)
  <2>1. \A k : ToldBy(S2, k) = ToldBy(S, k)
    BY DEF ToldBy
  <2>2. \A p : ToldBefore(S2, p) = ToldBefore(S, p)
    BY DEF ToldBefore
  <2>3. \A p, i : MadeAfter(S2, p, i) <=> MadeAfter(S, p, i)
    BY DEF MadeAfter
  <2>4. \A i : Follows(s, S, i) => Follows(s, S2, i)
    BY <2>1, <2>2, <2>3 DEF Follows
  <2> QED BY <2>4 DEF SolverFits, DeductionsFit
<1>3. \A m : ToldUpTo(s, S, t, m) => ToldUpTo(s, S2, t, m)
  BY DEF ToldUpTo
<1> QED
  BY <1>1, <1>2, <1>3 DEF SolverFits

\* A literal that no solver is declared for.
LEMMA NotDeclared ==
  ASSUME NEW s \in Solver, NEW t \in Seq(Lit), NEW n \in Nat, n < Len(t), NEW S,
         n + 1 \notin DeclaredAt(t), SolverFits(s, S, t, n), ToldUpTo(s, S, t, n)
  PROVE  SolverFits(s, S, t, n + 1) /\ ToldUpTo(s, S, t, n + 1)
<1>1. n + 1 \notin TakenAt(s, t)
  BY TakenIsDeclared
<1>2. /\ Hits(DeclaredAt(t), n + 1) = Hits(DeclaredAt(t), n)
      /\ Hits(TakenAt(s, t), n + 1) = Hits(TakenAt(s, t), n)
      /\ Hits(DeclaredAt(t), n) \in Nat
  BY <1>1, HitsStep, HitsType
<1>3. \A i \in 0 .. n + 1 : i \in 0 .. n \/ i = n + 1
  OBVIOUS
<1>4. PointsFit(s, S, t, n + 1)
  <2>1. ASSUME NEW i \in 0 .. n + 1, Hits(DeclaredAt(t), i) < Hits(DeclaredAt(t), n + 1)
        PROVE  i \in 0 .. n /\ Hits(DeclaredAt(t), i) < Hits(DeclaredAt(t), n)
    BY <1>2, <1>3, <2>1
  <2> QED BY <1>2, <2>1 DEF SolverFits, PointsFit
<1>5. ToldUpTo(s, S, t, n + 1)
  BY <1>1, <1>2, <1>3 DEF ToldUpTo
<1> QED
  BY <1>4, <1>5 DEF SolverFits

\* A deduction is about an atom its solver takes.
LEMMA ImpliedTaken ==
  ASSUME NEW s \in Solver, NEW T, NEW d \in Implied(s, T)
  PROVE  d \in Lit /\ var(d) \in Valid[s]
<1>1. PICK c \in Inconsistent[s] : -d \in c /\ d \in Lit
  BY DEF Implied
<1>2. var(-d) \in Valid[s]
  BY <1>1, ScheduleAssumption
<1>3. d \in Int
  BY <1>1, ScheduleAssumption DEF Lit
<1>4. var(-d) = var(d)
  BY <1>3 DEF var
<1> QED
  BY <1>1, <1>2, <1>4

\* The literal told next, at the place the counter says.
LEMMA ToldNext ==
  ASSUME NEW s \in Solver, NEW t \in Seq(Lit), NEW n \in Nat, n < Len(t),
         NEW S \in SolverState, ToldUpTo(s, S, t, n),
         NEW S2, \/ n + 1 \notin TakenAt(s, t) /\ S2.told = S.told
                 \/ n + 1 \in TakenAt(s, t) /\ S2.told = Append(S.told, t[n + 1])
  PROVE  ToldUpTo(s, S2, t, n + 1)
<1> DEFINE T == TakenAt(s, t)
<1>1. \A i \in 1 .. n + 1 : i \in 1 .. n \/ i = n + 1
  OBVIOUS
<1>2. Hits(T, n) \in Nat /\ \A i \in 1 .. n : Hits(T, i) \in Nat /\ Hits(T, i) <= Hits(T, n)
  <2>1. \A i \in 1 .. n : i \in Nat /\ i <= n
    OBVIOUS
  <2> HIDE DEF T
  <2> QED BY <2>1, HitsType, HitsMonotone
<1>3. CASE n + 1 \notin T /\ S2.told = S.told
  <2>1. Hits(T, n + 1) = Hits(T, n)
    BY <1>3, HitsStep
  <2> QED BY <1>1, <1>3, <2>1 DEF ToldUpTo
<1>4. CASE n + 1 \in T /\ S2.told = Append(S.told, t[n + 1])
  <2>1. Hits(T, n + 1) = Hits(T, n) + 1
    BY <1>4, HitsStep
  <2>2. S.told \in Seq(Lit) /\ Len(S.told) = Hits(T, n) /\ t[n + 1] \in Lit
    BY DEF SolverState, ToldUpTo
  <2>3. Len(S2.told) = Hits(T, n) + 1 /\ S2.told[Hits(T, n) + 1] = t[n + 1]
    BY <1>2, <1>4, <2>2
  <2>4. \A j \in 1 .. Hits(T, n) : S2.told[j] = S.told[j]
    BY <1>2, <1>4, <2>2
  <2>5. ASSUME NEW i \in 1 .. n, i \in T PROVE S2.told[Hits(T, i)] = t[i]
    <3>1. PICK k \in Nat : i = k + 1
      <4>1. i - 1 \in Nat /\ i = (i - 1) + 1
        OBVIOUS
      <4> QED BY <4>1
    <3>2. Hits(T, i) >= 1
      <4>1. Hits(T, k + 1) = Hits(T, k) + 1 /\ Hits(T, k) \in Nat
        BY <2>5, <3>1, HitsStep, HitsType
      <4> QED BY <3>1, <4>1
    <3>3. Hits(T, i) \in 1 .. Hits(T, n)
      BY <1>2, <3>2
    <3> QED BY <2>4, <2>5, <3>3 DEF ToldUpTo
  <2> QED BY <1>1, <2>1, <2>3, <2>5 DEF ToldUpTo
<1> QED
  BY <1>3, <1>4

\* A backtrack point, and what a solver may do with a literal after it: at most add to
\* what it was told and deduce one literal from that.
Pushed(S) == [told |-> Len(S.told), lim |-> Len(S.ded), last |-> S.next]
LEMMA PushFits ==
  ASSUME NEW s \in Solver, NEW t \in Seq(Lit), NEW n \in Nat, n < Len(t),
         n + 1 \in DeclaredAt(t), NEW S, SolverFits(s, S, t, n), ToldUpTo(s, S, t, n),
         NEW S2 \in SolverState, S2.points = Append(S.points, Pushed(S)), S2.next = S.next,
         Len(S.told) <= Len(S2.told), \A j \in 1 .. Len(S.told) : S2.told[j] = S.told[j],
         \/ S2.ded = S.ded
         \/ \E d \in Lit : /\ S2.ded = Append(S.ded, d) /\ s \in Deducers
                           /\ d \in Implied(s, ToldBy(S2, Len(S2.told)))
                           /\ \A i \in 1 .. Len(S.ded) : var(S.ded[i]) # var(d)
  PROVE  SolverFits(s, S2, t, n + 1)
<1> DEFINE D == DeclaredAt(t)
           T == TakenAt(s, t)
           B == S.points
           B2 == S2.points
           L == Len(S.points)
<1>1. /\ S \in SolverState /\ S.told \in Seq(Lit) /\ B \in Seq(Point) /\ S.ded \in Seq(Lit)
      /\ S.next \in Nat /\ L \in Nat /\ Len(S.told) \in Nat /\ Len(S.ded) \in Nat
      /\ S2.told \in Seq(Lit) /\ S2.ded \in Seq(Lit) /\ Len(S2.told) \in Nat /\ Len(S2.ded) \in Nat
  BY DEF SolverFits, SolverState
<1>2. Pushed(S) \in Point
  BY <1>1 DEF Pushed, Point
<1>3. /\ B2 \in Seq(Point) /\ Len(B2) = L + 1 /\ B2[L + 1] = Pushed(S)
      /\ \A p \in 1 .. L : B2[p] = B[p]
  BY <1>1, <1>2
<1>4. /\ Pushed(S).told = Len(S.told) /\ Pushed(S).lim = Len(S.ded) /\ Pushed(S).last = S.next
  BY DEF Pushed
<1>5. /\ Len(S.ded) <= Len(S2.ded)
      /\ \A i \in 1 .. Len(S.ded) : S2.ded[i] = S.ded[i]
  <2>1. \A q \in Seq(Lit), d \in Lit : /\ Len(Append(q, d)) = Len(q) + 1 /\ Len(q) \in Nat
                                       /\ \A i \in 1 .. Len(q) : Append(q, d)[i] = q[i]
    OBVIOUS
  <2>2. S2.ded = S.ded \/ \E d \in Lit : S2.ded = Append(S.ded, d)
    OBVIOUS
  <2>3. S.ded \in Seq(Lit) /\ Len(S.ded) \in Nat
    BY <1>1
  <2> QED BY <2>1, <2>2, <2>3
<1>6. \A p \in 1 .. L : B[p] \in Point /\ B[p].told \in Nat /\ B[p].lim \in Nat /\ B[p].last \in Nat
  <2>1. \A p \in 1 .. L : B[p] \in Point
    BY <1>1
  <2> QED BY <2>1 DEF Point
<1>7. \A p \in 1 .. L + 1 : p \in 1 .. L \/ p = L + 1
  BY <1>1
<1> HIDE DEF B, B2, L
<1>8. PointsFit(s, S2, t, n + 1)
  <2>1. L = Hits(D, n) /\ Hits(D, n + 1) = Hits(D, n) + 1 /\ Len(S.told) = Hits(T, n)
    BY HitsStep DEF SolverFits, PointsFit, ToldUpTo, L
  <2>2. ASSUME NEW i \in 0 .. n + 1, Hits(D, i) < Hits(D, n + 1)
        PROVE  B2[Hits(D, i) + 1].told = Hits(T, i)
    <3>1. i \in 0 .. n
      <4>1. n + 1 \in Nat
        OBVIOUS
      <4>2. Hits(D, n + 1) \in Nat
        BY <4>1, HitsType
      <4>3. i # n + 1
        BY <2>2, <4>2
      <4> QED BY <4>3
    <3>2. Hits(D, i) \in Nat /\ Hits(D, n) \in Nat /\ i \in Nat /\ i <= n
      <4>1. i \in Nat /\ i <= n
        BY <3>1
      <4> QED BY <4>1, HitsType
    <3>3. CASE Hits(D, i) < Hits(D, n)
      <4>1. B[Hits(D, i) + 1].told = Hits(T, i)
        BY <3>1, <3>3 DEF SolverFits, PointsFit, B
      <4>2. Hits(D, i) + 1 \in 1 .. L
        BY <2>1, <3>2, <3>3
      <4> QED BY <1>3, <4>1, <4>2
    <3>4. CASE Hits(D, i) = Hits(D, n)
      <4>1. Hits(T, i) = Hits(T, n)
        BY <3>2, <3>4, TakenIsDeclared, HitsOrder
      <4> QED BY <1>3, <1>4, <2>1, <3>4, <4>1
    <3>5. Hits(D, i) < Hits(D, n) + 1
      BY <2>1, <2>2
    <3> QED BY <3>2, <3>3, <3>4, <3>5
  <2>3. Len(B2) = Hits(D, n + 1)
    BY <1>3, <2>1
  <2> QED BY <2>2, <2>3 DEF PointsFit, B2
<1>9. LimitsFit(S2)
  <2>1. /\ S.next <= Len(S.ded)
        /\ \A p \in 1 .. L : B[p].told <= Len(S.told) /\ B[p].lim <= Len(S.ded) /\ B[p].last <= B[p].lim
        /\ \A p, q \in 1 .. L : p <= q => B[p].told <= B[q].told /\ B[p].lim <= B[q].lim
    BY DEF SolverFits, LimitsFit, B, L
  <2>2. S2.next <= Len(S2.ded)
    BY <1>1, <1>5, <2>1
  <2>3. ASSUME NEW p \in 1 .. L + 1
        PROVE  B2[p].told <= Len(S2.told) /\ B2[p].lim <= Len(S2.ded) /\ B2[p].last <= B2[p].lim
    <3>1. CASE p \in 1 .. L
      <4>1. B2[p] = B[p] /\ B[p].told \in Nat /\ B[p].lim \in Nat
        BY <1>3, <1>6, <3>1
      <4>2. B[p].told <= Len(S.told) /\ B[p].lim <= Len(S.ded) /\ B[p].last <= B[p].lim
        BY <2>1, <3>1
      <4> DEFINE told == B[p].told
                 lim == B[p].lim
      <4>3. told \in Nat /\ lim \in Nat /\ told <= Len(S.told) /\ lim <= Len(S.ded)
        BY <4>1, <4>2
      <4>4. /\ Len(S.told) \in Nat /\ Len(S2.told) \in Nat /\ Len(S.ded) \in Nat /\ Len(S2.ded) \in Nat
            /\ Len(S.told) <= Len(S2.told) /\ Len(S.ded) <= Len(S2.ded)
        BY <1>1, <1>5
      <4> HIDE DEF told, lim
      <4>5. told <= Len(S2.told) /\ lim <= Len(S2.ded)
        BY <4>3, <4>4
      <4>6. B[p].told <= Len(S2.told) /\ B[p].lim <= Len(S2.ded)
        BY <4>5 DEF told, lim
      <4> QED BY <4>1, <4>2, <4>6
    <3>2. CASE p = L + 1
      BY <1>3, <1>4, <1>5, <2>1, <3>2
    <3> QED BY <1>7, <3>1, <3>2
  <2>4. ASSUME NEW p \in 1 .. L + 1, NEW q \in 1 .. L + 1, p <= q
        PROVE  B2[p].told <= B2[q].told /\ B2[p].lim <= B2[q].lim
    <3>1. CASE q \in 1 .. L
      <4>1. p \in 1 .. L
        BY <1>1, <2>4, <3>1
      <4> QED BY <1>3, <2>1, <2>4, <3>1, <4>1
    <3>2. CASE q = L + 1 /\ p \in 1 .. L
      BY <1>3, <1>4, <2>1, <3>2
    <3>3. CASE q = L + 1 /\ p = L + 1
      BY <1>1, <1>3, <1>4, <3>3
    <3> QED BY <1>7, <3>1, <3>2, <3>3
  <2> QED BY <1>3, <2>2, <2>3, <2>4 DEF LimitsFit, B2
<1>10. ASSUME NEW i \in 1 .. Len(S.ded) PROVE Follows(s, S2, i)
  <2>1. PICK p \in 1 .. L : /\ MadeAfter(S, p, i)
                            /\ S.ded[i] \in Implied(s, ToldBy(S, ToldBefore(S, p)))
    BY DEF SolverFits, DeductionsFit, Follows, L
  <2>2. p \in 1 .. L + 1 /\ p < L + 1 /\ p # L + 1
    BY <1>1
  <2>3. /\ MadeAfter(S2, p, i) /\ ToldBefore(S2, p) = ToldBefore(S, p)
        /\ ToldBefore(S, p) \in 0 .. Len(S.told)
    <3>1. B[p].lim < i /\ B2[p] = B[p]
      BY <1>3, <2>1 DEF MadeAfter, B
    <3>2. CASE p = L
      <4>1. ToldBefore(S, p) = Len(S.told)
        BY <3>2 DEF ToldBefore, L
      <4>2. ToldBefore(S2, p) = Len(S.told)
        BY <1>3, <1>4, <2>2, <3>2 DEF ToldBefore, B2
      <4>3. i <= B2[p + 1].lim
        BY <1>1, <1>3, <1>4, <3>2
      <4> QED BY <1>1, <3>1, <4>1, <4>2, <4>3 DEF MadeAfter, B2
    <3>3. CASE p < L
      <4>1. p + 1 \in 1 .. L
        BY <1>1, <3>3
      <4>2. B2[p + 1] = B[p + 1] /\ B[p + 1].told \in Nat
        BY <1>3, <1>6, <4>1
      <4>3. ToldBefore(S, p) = B[p + 1].told /\ B[p + 1].told <= Len(S.told)
        BY <3>3, <4>1 DEF ToldBefore, L, B, SolverFits, LimitsFit
      <4>4. ToldBefore(S2, p) = B2[p + 1].told
        BY <1>3, <2>2 DEF ToldBefore, B2
      <4>5. i <= B[p + 1].lim
        BY <2>1, <3>3 DEF MadeAfter, B, L
      <4> QED BY <1>1, <3>1, <4>2, <4>3, <4>4, <4>5 DEF MadeAfter, B2
    <3> QED BY <1>1, <3>2, <3>3
  <2>4. ToldBy(S2, ToldBefore(S, p)) = ToldBy(S, ToldBefore(S, p))
    <3>1. \A j \in 1 .. ToldBefore(S, p) : S2.told[j] = S.told[j]
      BY <1>1, <2>3
    <3> QED BY <3>1 DEF ToldBy
  <2>5. S2.ded[i] \in Implied(s, ToldBy(S2, ToldBefore(S2, p)))
    BY <1>5, <2>1, <2>3, <2>4
  <2>6. p \in 1 .. Len(S2.points)
    BY <1>3, <2>2 DEF B2
  <2> QED BY <2>3, <2>5, <2>6 DEF Follows
<1>11. /\ \A i, j \in 1 .. Len(S.ded) : var(S.ded[i]) = var(S.ded[j]) => i = j
       /\ Len(S.ded) > 0 => s \in Deducers
  BY DEF SolverFits, DeductionsFit
<1>12. ASSUME S2.ded = S.ded PROVE DeductionsFit(s, S2)
  BY <1>10, <1>11, <1>12 DEF DeductionsFit
<1>13. ASSUME NEW d \in Lit, S2.ded = Append(S.ded, d), s \in Deducers,
              d \in Implied(s, ToldBy(S2, Len(S2.told))),
              \A i \in 1 .. Len(S.ded) : var(S.ded[i]) # var(d)
       PROVE  DeductionsFit(s, S2)
  <2>1. /\ Len(S2.ded) = Len(S.ded) + 1 /\ S2.ded[Len(S.ded) + 1] = d
        /\ \A i \in 1 .. Len(S.ded) + 1 : i \in 1 .. Len(S.ded) \/ i = Len(S.ded) + 1
    <3>1. \A q \in Seq(Lit) : /\ Len(Append(q, d)) = Len(q) + 1 /\ Append(q, d)[Len(q) + 1] = d
                              /\ \A i \in 1 .. Len(q) + 1 : i \in 1 .. Len(q) \/ i = Len(q) + 1
      BY <1>13
    <3>2. S.ded \in Seq(Lit) /\ S2.ded = Append(S.ded, d)
      BY <1>1, <1>13
    <3> QED BY <3>1, <3>2
  <2>2. Follows(s, S2, Len(S.ded) + 1)
    <3>1. L + 1 \in 1 .. Len(S2.points) /\ L + 1 = Len(S2.points)
      BY <1>1, <1>3 DEF B2
    <3>2. ToldBefore(S2, L + 1) = Len(S2.told)
      BY <3>1 DEF ToldBefore
    <3>3. MadeAfter(S2, L + 1, Len(S.ded) + 1)
      BY <1>1, <1>3, <1>4, <3>1 DEF MadeAfter, B2
    <3> QED BY <1>13, <2>1, <3>1, <3>2, <3>3 DEF Follows
  <2>3. \A i \in 1 .. Len(S2.ded) : Follows(s, S2, i)
    BY <1>10, <2>1, <2>2
  <2>4. ASSUME NEW i \in 1 .. Len(S2.ded), NEW j \in 1 .. Len(S2.ded),
               var(S2.ded[i]) = var(S2.ded[j])
        PROVE  i = j
    <3>1. CASE i \in 1 .. Len(S.ded) /\ j \in 1 .. Len(S.ded)
      BY <1>5, <1>11, <2>4, <3>1
    <3>2. CASE i \in 1 .. Len(S.ded) /\ j = Len(S.ded) + 1
      BY <1>5, <1>13, <2>1, <2>4, <3>2
    <3>3. CASE j \in 1 .. Len(S.ded) /\ i = Len(S.ded) + 1
      BY <1>5, <1>13, <2>1, <2>4, <3>3
    <3> QED BY <2>1, <3>1, <3>2, <3>3
  <2> QED BY <1>13, <2>3, <2>4 DEF DeductionsFit
<1> QED
  BY <1>8, <1>9, <1>12, <1>13 DEF SolverFits

\* Popping back to the first m literals.
LEMMA PopFits ==
  ASSUME NEW s \in Solver, NEW t \in Seq(Lit), NEW n \in Nat, n <= Len(t), NEW m \in Nat, m < n,
         NEW S, SolverFits(s, S, t, n), NEW w \in {n, n - 1}, ToldUpTo(s, S, t, w),
         NEW c, c = Hits(DeclaredAt(t), n) - Hits(DeclaredAt(t), m)
  PROVE  /\ SolverFits(s, popBacktrackPoints(s, S, c), t, m)
         /\ ToldUpTo(s, popBacktrackPoints(s, S, c), t, m)
<1> DEFINE D == DeclaredAt(t)
           T == TakenAt(s, t)
           B == S.points
           L == Len(S.points)
           K == Hits(D, m)
<1>1. /\ S \in SolverState /\ S.told \in Seq(Lit) /\ B \in Seq(Point) /\ S.ded \in Seq(Lit)
      /\ S.next \in Nat /\ L \in Nat /\ Len(S.told) \in Nat /\ Len(S.ded) \in Nat
      /\ S.has \in BOOLEAN /\ S.expl \in SUBSET Lit
  BY DEF SolverFits, SolverState
<1>2. \A p \in 1 .. L : B[p] \in Point /\ B[p].told \in Nat /\ B[p].lim \in Nat /\ B[p].last \in Nat
  <2>1. \A p \in 1 .. L : B[p] \in Point
    BY <1>1
  <2> QED BY <2>1 DEF Point
<1>3. /\ S.next <= Len(S.ded)
      /\ \A p \in 1 .. L : B[p].told <= Len(S.told) /\ B[p].lim <= Len(S.ded) /\ B[p].last <= B[p].lim
      /\ \A p, q \in 1 .. L : p <= q => B[p].told <= B[q].told /\ B[p].lim <= B[q].lim
  BY DEF SolverFits, LimitsFit
<1>4. L = Hits(D, n) /\ K \in Nat /\ K <= L /\ c = L - K /\ c \in Nat
  <2>1. L = Hits(D, n)
    BY DEF SolverFits, PointsFit
  <2>2. K \in Nat /\ K <= Hits(D, n) /\ Hits(D, n) \in Nat
    <3>1. m <= n
      OBVIOUS
    <3> QED BY <3>1, HitsType, HitsMonotone
  <2> HIDE DEF L, K, D
  <2>3. c = Hits(D, n) - K
    BY DEF D, K
  <2> QED BY <2>1, <2>2, <2>3
<1>5. w \in Nat /\ m <= w /\ w <= n
  OBVIOUS
<1>6. /\ Len(S.told) = Hits(T, w) /\ \A i \in 1 .. w : i \in T => S.told[Hits(T, i)] = t[i]
      /\ Hits(T, m) \in Nat /\ Hits(T, w) \in Nat /\ Hits(T, m) <= Hits(T, w)
  BY <1>5, HitsType, HitsMonotone DEF ToldUpTo
<1>7. \A i \in 1 .. m : i \in 1 .. w /\ i \in Nat /\ Hits(T, i) \in Nat /\ Hits(T, i) <= Hits(T, m)
  <2>1. \A i \in 1 .. m : i \in 1 .. w /\ i \in Nat /\ i <= m
    BY <1>5
  <2> HIDE DEF T
  <2> QED BY <2>1, HitsType, HitsMonotone
<1>8. \A i \in 0 .. m : Hits(D, i) < K => B[Hits(D, i) + 1].told = Hits(T, i)
  <2> TAKE i \in 0 .. m
  <2> HAVE Hits(D, i) < K
  <2>1. i \in 0 .. n /\ i \in Nat
    OBVIOUS
  <2>2. Hits(D, i) \in Nat
    BY <2>1, HitsType
  <2>3. Hits(D, i) < Hits(D, n)
    BY <1>4, <2>2
  <2> QED BY <2>1, <2>3 DEF SolverFits, PointsFit
<1> HIDE DEF D, T, B, L, K
<1>9. CASE c = 0
  <2>1. popBacktrackPoints(s, S, c) = S
    BY <1>9 DEF popBacktrackPoints
  <2>2. Hits(D, m) = Hits(D, n) /\ Hits(D, n) \in Nat
    <3>1. Hits(D, m) = K
      BY DEF K
    <3> QED BY <1>1, <1>4, <1>9, <3>1
  <2>3. Hits(T, m) = Hits(T, n) /\ Hits(T, m) = Hits(T, w)
    <3>1. m <= n /\ T \in SUBSET D
      BY TakenIsDeclared DEF T, D
    <3>2. Hits(T, m) = Hits(T, n)
      BY <2>2, <3>1, HitsOrder
    <3>3. Hits(T, w) <= Hits(T, n)
      BY <1>5, HitsMonotone
    <3> QED BY <1>6, <3>2, <3>3
  <2>4. PointsFit(s, S, t, m)
    <3>1. Len(S.points) = Hits(DeclaredAt(t), m)
      BY <1>4, <2>2 DEF D, L
    <3> QED BY <1>8, <3>1 DEF PointsFit, K, B, D, T
  <2>5. ToldUpTo(s, S, t, m)
    BY <1>6, <1>7, <2>3 DEF ToldUpTo, T
  <2> QED BY <2>1, <2>4, <2>5 DEF SolverFits
<1>10. CASE c # 0
  <2> DEFINE point == B[K + 1]
             S2 == popBacktrackPoints(s, S, c)
  <2>1. K + 1 \in 1 .. L /\ L - c + 1 = K + 1 /\ L - c = K
    <3>1. \A a, b \in Nat : b - a \in Nat /\ b - a # 0 =>
            a + 1 \in 1 .. b /\ b - (b - a) + 1 = a + 1 /\ b - (b - a) = a
      OBVIOUS
    <3>2. L \in Nat
      BY <1>1
    <3> QED BY <1>4, <1>10, <3>1, <3>2
  <2>2. S2 = [S EXCEPT !.points = SubSeq(B, 1, K), !.told = SubSeq(S.told, 1, point.told),
                       !.ded = SubSeq(S.ded, 1, point.lim), !.next = point.last,
                       !.has = @ /\ s \notin Forgets, !.expl = IF s \in Forgets THEN {} ELSE @]
    BY <1>10, <2>1 DEF popBacktrackPoints, B, L
  <2>3. /\ point.told \in Nat /\ point.lim \in Nat /\ point.last \in Nat
        /\ point.told <= Len(S.told) /\ point.lim <= Len(S.ded) /\ point.last <= point.lim
    BY <1>2, <1>3, <2>1
  <2>4. point.told = Hits(T, m)
    <3>0. Hits(D, m) = K
      BY DEF K
    <3>1. m \in 0 .. n /\ Hits(D, m) < Hits(D, n)
      <4>1. K \in Nat /\ L \in Nat /\ K + 1 <= L
        BY <1>1, <1>4, <2>1
      <4>2. K < L
        BY <4>1
      <4>3. m \in 0 .. n
        OBVIOUS
      <4> QED BY <1>4, <3>0, <4>2, <4>3
    <3> QED BY <3>1 DEF SolverFits, PointsFit, K, B, D, T
  <2> HIDE DEF point
  <2>5. PICK B2 \in Seq(Point), told2 \in Seq(Lit), ded2 \in Seq(Lit) :
          B2 = SubSeq(B, 1, K) /\ told2 = SubSeq(S.told, 1, point.told) /\ ded2 = SubSeq(S.ded, 1, point.lim)
    <3>0. Len(B) = L
      BY DEF B, L
    <3>1. SubSeq(B, 1, K) \in Seq(Point)
      BY <1>1, <1>4, <3>0, Prefix
    <3>2. SubSeq(S.told, 1, point.told) \in Seq(Lit)
      BY <1>1, <2>3, Prefix
    <3>3. SubSeq(S.ded, 1, point.lim) \in Seq(Lit)
      BY <1>1, <2>3, Prefix
    <3> QED BY <3>1, <3>2, <3>3
  <2>6. /\ Len(B2) = K /\ \A p \in 1 .. K : B2[p] = B[p] /\ p \in 1 .. L
        /\ Len(told2) = point.told /\ \A j \in 1 .. point.told : told2[j] = S.told[j]
        /\ Len(ded2) = point.lim /\ \A j \in 1 .. point.lim : ded2[j] = S.ded[j] /\ j \in 1 .. Len(S.ded)
    <3>0. Len(B) = L
      BY DEF B, L
    <3>1. Len(B2) = K /\ \A p \in 1 .. K : B2[p] = B[p]
      BY <1>1, <1>4, <2>5, <3>0, Prefix
    <3>a. ASSUME NEW q \in Seq(Lit), NEW h \in Nat, h <= Len(q)
          PROVE  Len(SubSeq(q, 1, h)) = h /\ \A j \in 1 .. h : SubSeq(q, 1, h)[j] = q[j]
      BY <3>a, Prefix
    <3>b. S.told \in Seq(Lit) /\ point.told \in Nat /\ point.told <= Len(S.told)
      BY <1>1, <2>3
    <3>c. S.ded \in Seq(Lit) /\ point.lim \in Nat /\ point.lim <= Len(S.ded)
      BY <1>1, <2>3
    <3>2. Len(told2) = point.told /\ \A j \in 1 .. point.told : told2[j] = S.told[j]
      BY <2>5, <3>a, <3>b
    <3>3. Len(ded2) = point.lim /\ \A j \in 1 .. point.lim : ded2[j] = S.ded[j]
      BY <2>5, <3>a, <3>c
    <3>4. \A p \in 1 .. K : p \in 1 .. L
      BY <1>1, <1>4
    <3>5. \A j \in 1 .. point.lim : j \in 1 .. Len(S.ded)
      BY <1>1, <2>3
    <3> QED BY <3>1, <3>2, <3>3, <3>4, <3>5
  <2>7. /\ S2 \in SolverState /\ S2.points = B2 /\ S2.told = told2 /\ S2.ded = ded2
        /\ S2.next = point.last
    <3>1. (S.has /\ s \notin Forgets) \in BOOLEAN
      OBVIOUS
    <3>2. (IF s \in Forgets THEN {} ELSE S.expl) \in SUBSET Lit
      BY <1>1
    <3> QED BY <1>1, <2>2, <2>3, <2>5, <3>1, <3>2 DEF SolverState
  <2> HIDE DEF S2
  <2>8. PointsFit(s, S2, t, m)
    <3>1. ASSUME NEW i \in 0 .. m, Hits(D, i) < K PROVE B2[Hits(D, i) + 1].told = Hits(T, i)
      <4>1. i \in Nat
        OBVIOUS
      <4>2. Hits(D, i) \in Nat
        BY <4>1, HitsType
      <4>3. Hits(D, i) + 1 \in 1 .. K
        BY <1>4, <3>1, <4>2
      <4> QED BY <1>8, <2>6, <3>1, <4>3
    <3> QED BY <2>6, <2>7, <3>1 DEF PointsFit, D, T, K
  <2>9. LimitsFit(S2)
    <3>1. ASSUME NEW p \in 1 .. K
          PROVE  B2[p].told <= Len(told2) /\ B2[p].lim <= Len(ded2) /\ B2[p].last <= B2[p].lim
      <4>1. p \in 1 .. L /\ B2[p] = B[p] /\ p <= K + 1
        BY <1>4, <2>6
      <4>2. B[p].told <= point.told /\ B[p].lim <= point.lim /\ B[p].last <= B[p].lim
        BY <1>3, <2>1, <4>1 DEF point
      <4> QED BY <2>6, <4>1, <4>2
    <3>2. ASSUME NEW p \in 1 .. K, NEW q \in 1 .. K, p <= q
          PROVE  B2[p].told <= B2[q].told /\ B2[p].lim <= B2[q].lim
      BY <1>3, <2>6, <3>2
    <3> QED BY <2>3, <2>6, <2>7, <3>1, <3>2 DEF LimitsFit
  <2>10. ToldUpTo(s, S2, t, m)
    <3>1. ASSUME NEW i \in 1 .. m, i \in T PROVE told2[Hits(T, i)] = t[i]
      <4>1. S.told[Hits(T, i)] = t[i]
        BY <1>6, <1>7, <3>1
      <4>2. PICK k \in Nat : i = k + 1
        <5>1. i - 1 \in Nat /\ i = (i - 1) + 1
          OBVIOUS
        <5> QED BY <5>1
      <4>3. Hits(T, k + 1) = Hits(T, k) + 1 /\ Hits(T, k) \in Nat
        BY <3>1, <4>2, HitsStep, HitsType
      <4>4. Hits(T, i) \in 1 .. point.told
        BY <1>7, <2>4, <4>2, <4>3
      <4> QED BY <2>6, <4>1, <4>4
    <3> QED BY <2>4, <2>6, <2>7, <3>1 DEF ToldUpTo, T
  <2>11. ASSUME NEW i \in 1 .. point.lim PROVE Follows(s, S2, i)
    <3>1. PICK p \in 1 .. L : /\ MadeAfter(S, p, i)
                              /\ S.ded[i] \in Implied(s, ToldBy(S, ToldBefore(S, p)))
      BY <2>6 DEF SolverFits, DeductionsFit, Follows, L
    <3>2. B[p].lim < i /\ (p < L => i <= B[p + 1].lim) /\ i <= point.lim /\ i \in Nat
      BY <2>3, <3>1 DEF MadeAfter, B, L
    <3>3. p \in 1 .. K
      <4>1. ASSUME K + 1 <= p PROVE FALSE
        <5>1. point.lim <= B[p].lim
          BY <1>3, <2>1, <4>1 DEF point
        <5>2. point.lim \in Nat /\ B[p].lim \in Nat /\ i \in Nat /\ B[p].lim < i /\ i <= point.lim
          BY <1>2, <2>3, <3>2
        <5> QED BY <5>1, <5>2
      <4> QED BY <1>1, <1>4, <4>1
    <3>4. p < L /\ p + 1 \in 1 .. L /\ p + 1 <= K + 1
      <4>1. K \in Nat /\ L \in Nat /\ K + 1 <= L
        BY <1>1, <1>4, <2>1
      <4> QED BY <3>3, <4>1
    <3>5. ToldBefore(S, p) = B[p + 1].told /\ B[p + 1].told <= point.told /\ B[p + 1].told \in Nat
      <4>1. ToldBefore(S, p) = B[p + 1].told
        BY <3>4 DEF ToldBefore, B, L
      <4>2. B[p + 1].told <= point.told
        BY <1>3, <2>1, <3>4 DEF point
      <4> QED BY <1>2, <3>4, <4>1, <4>2
    <3>6. ToldBefore(S2, p) = B[p + 1].told
      <4>1. CASE p = K
        BY <2>6, <2>7, <4>1 DEF ToldBefore, point
      <4>2. CASE p # K
        <5>1. p + 1 \in 1 .. K
          BY <1>4, <3>3, <4>2
        <5> QED BY <2>6, <2>7, <4>2, <5>1 DEF ToldBefore
      <4> QED BY <4>1, <4>2
    <3>7. MadeAfter(S2, p, i)
      <4>1. B2[p].lim < i
        BY <2>6, <3>2, <3>3
      <4>2. ASSUME p < K PROVE i <= B2[p + 1].lim
        <5>1. p + 1 \in 1 .. K
          BY <1>4, <3>3, <4>2
        <5> QED BY <2>6, <3>2, <3>4, <5>1
      <4> QED BY <2>6, <2>7, <4>1, <4>2 DEF MadeAfter
    <3>8. ToldBy(S2, B[p + 1].told) = ToldBy(S, B[p + 1].told)
      <4>1. \A j \in 1 .. B[p + 1].told : told2[j] = S.told[j]
        <5>0. \A a, b \in Nat : a <= b => \A j \in 1 .. a : j \in 1 .. b
          OBVIOUS
        <5>1. \A j \in 1 .. B[p + 1].told : j \in 1 .. point.told
          BY <2>3, <3>5, <5>0
        <5> QED BY <2>6, <5>1
      <4> QED BY <2>7, <4>1 DEF ToldBy
    <3>9. S2.ded[i] \in Implied(s, ToldBy(S2, ToldBefore(S2, p)))
      BY <2>6, <2>7, <3>1, <3>5, <3>6, <3>8
    <3>10. p \in 1 .. Len(S2.points)
      BY <2>6, <2>7, <3>3
    <3> QED BY <3>7, <3>9, <3>10 DEF Follows
  <2>12. DeductionsFit(s, S2)
    <3>1. /\ \A i, j \in 1 .. Len(S.ded) : var(S.ded[i]) = var(S.ded[j]) => i = j
          /\ Len(S.ded) > 0 => s \in Deducers
      BY DEF SolverFits, DeductionsFit
    <3>2. \A i, j \in 1 .. point.lim : var(ded2[i]) = var(ded2[j]) => i = j
      BY <2>6, <3>1
    <3>3. point.lim > 0 => s \in Deducers
      BY <1>1, <2>3, <3>1
    <3> QED BY <2>6, <2>7, <2>11, <3>2, <3>3 DEF DeductionsFit
  <2> QED BY <2>7, <2>8, <2>9, <2>10, <2>12 DEF SolverFits, S2
<1> QED
  BY <1>9, <1>10

-----------------------------------------------------------------------------
\* A solver before it is told anything.
LEMMA ClearedFits ==
  ASSUME NEW s \in Solver, NEW t, t = <<>>
  PROVE  SolverFits(s, TSolver, t, 0) /\ ToldUpTo(s, TSolver, t, 0)
<1>1. TSolver \in SolverState
  BY DEF TSolver, SolverState
<1>2. TSolver.points = <<>> /\ TSolver.told = <<>> /\ TSolver.ded = <<>> /\ TSolver.next = 0
  BY DEF TSolver
<1>3. Hits(DeclaredAt(t), 0) = 0 /\ Hits(TakenAt(s, t), 0) = 0
  BY HitsStep
<1>4. PointsFit(s, TSolver, t, 0)
  <2>1. \A i \in 0 .. 0 : ~(Hits(DeclaredAt(t), i) < Hits(DeclaredAt(t), 0))
    BY <1>3
  <2> QED BY <1>2, <1>3, <2>1 DEF PointsFit
<1>5. LimitsFit(TSolver) /\ DeductionsFit(s, TSolver)
  BY <1>2 DEF LimitsFit, DeductionsFit
<1>6. ToldUpTo(s, TSolver, t, 0)
  BY <1>2, <1>3 DEF ToldUpTo
<1> QED
  BY <1>1, <1>4, <1>5, <1>6 DEF SolverFits

\* One solver of TSolverHandler::assertLit.
Outcomes(s, S, l) ==
  IF var(l) \in Valid[s] THEN assertLit(s, pushBacktrackPoint(S), l)
  ELSE {[S |-> pushBacktrackPoint(S), ok |-> TRUE]}

LEMMA AssertOne ==
  ASSUME NEW s \in Solver, NEW t \in Seq(Lit), NEW n \in Nat, n < Len(t),
         n + 1 \in DeclaredAt(t), NEW S, SolverFits(s, S, t, n), ToldUpTo(s, S, t, n),
         NEW o \in Outcomes(s, S, t[n + 1])
  PROVE  /\ SolverFits(s, o.S, t, n + 1)
         /\ ToldUpTo(s, o.S, t, n + 1) \/ (~o.ok /\ ToldUpTo(s, o.S, t, n))
<1> DEFINE l == t[n + 1]
           P == pushBacktrackPoint(S)
<1>1. /\ S \in SolverState /\ S.told \in Seq(Lit) /\ S.points \in Seq(Point) /\ S.ded \in Seq(Lit)
      /\ S.next \in Nat /\ S.has \in BOOLEAN /\ S.expl \in SUBSET Lit /\ l \in Lit
      /\ Len(S.told) \in Nat /\ Len(S.ded) \in Nat
  BY DEF SolverFits, SolverState
<1>2. Pushed(S) \in Point
  BY <1>1 DEF Pushed, Point
<1>3. P = [S EXCEPT !.points = Append(S.points, Pushed(S))]
  BY DEF pushBacktrackPoint, Pushed
<1>4. /\ P \in SolverState /\ P.points = Append(S.points, Pushed(S)) /\ P.told = S.told
      /\ P.ded = S.ded /\ P.next = S.next /\ P.has = S.has /\ P.expl = S.expl
  <2>1. Append(S.points, Pushed(S)) \in Seq(Point)
    BY <1>1, <1>2
  <2> QED BY <1>1, <1>3, <2>1 DEF SolverState
<1>5. n + 1 \in TakenAt(s, t) <=> var(l) \in Valid[s]
  BY DEF TakenAt
<1>6. /\ Append(S.told, l) \in Seq(Lit) /\ Len(Append(S.told, l)) = Len(S.told) + 1
      /\ \A j \in 1 .. Len(S.told) : Append(S.told, l)[j] = S.told[j]
      /\ Append(S.told, l)[Len(S.told) + 1] = l
  BY <1>1
<1> HIDE DEF P, l
<1>7. CASE var(l) \notin Valid[s]
  <2>1. o.S = P
    BY <1>7 DEF Outcomes, P, l
  <2>2. SolverFits(s, P, t, n + 1)
    BY <1>1, <1>4, PushFits
  <2>3. ToldUpTo(s, P, t, n + 1)
    BY <1>1, <1>4, <1>5, <1>7, ToldNext
  <2> QED BY <2>1, <2>2, <2>3
<1>8. ASSUME NEW S2 \in SolverState, S2.points = P.points, S2.next = P.next,
             S2.told = Append(S.told, l), var(l) \in Valid[s],
             \/ S2.ded = S.ded
             \/ \E d \in Lit : /\ S2.ded = Append(S.ded, d) /\ s \in Deducers
                               /\ d \in Implied(s, Range(S.told) \cup {l})
                               /\ \A i \in 1 .. Len(S.ded) : var(S.ded[i]) # var(d)
      PROVE  SolverFits(s, S2, t, n + 1) /\ ToldUpTo(s, S2, t, n + 1)
  <2>1. ToldUpTo(s, S2, t, n + 1)
    BY <1>1, <1>5, <1>8, ToldNext DEF l
  <2>2. ToldBy(S2, Len(S2.told)) = Range(S.told) \cup {l}
    <3>1. DOMAIN S.told = 1 .. Len(S.told) /\ Len(S2.told) = Len(S.told) + 1
      BY <1>1, <1>6, <1>8
    <3>2. 1 .. Len(S.told) + 1 = (1 .. Len(S.told)) \cup {Len(S.told) + 1}
      BY <1>1
    <3> QED BY <1>6, <1>8, <3>1, <3>2 DEF ToldBy, Range
  <2>3. Len(S.told) <= Len(S2.told) /\ \A j \in 1 .. Len(S.told) : S2.told[j] = S.told[j]
    BY <1>1, <1>6, <1>8
  <2>4. S2.points = Append(S.points, Pushed(S)) /\ S2.next = S.next
    BY <1>4, <1>8
  <2>5. \/ S2.ded = S.ded
        \/ \E d \in Lit : /\ S2.ded = Append(S.ded, d) /\ s \in Deducers
                          /\ d \in Implied(s, ToldBy(S2, Len(S2.told)))
                          /\ \A i \in 1 .. Len(S.ded) : var(S.ded[i]) # var(d)
    BY <1>8, <2>2
  <2> QED BY <2>1, <2>3, <2>4, <2>5, PushFits
<1>9. CASE var(l) \in Valid[s]
  <2> DEFINE T == Range(P.told) \cup {l}
             taken == [P EXCEPT !.told = Append(@, l), !.expl = {}]
             known == [P EXCEPT !.told = Append(@, l)]
             new == {d \in Implied(s, T) : var(d) \notin {var(k) : k \in Known(P) \cup {l}}}
  <2>1. \/ o = [S |-> known, ok |-> TRUE] \/ o = [S |-> taken, ok |-> TRUE]
        \/ \E c \in Found(s, T) : o = [S |-> Failed(P, c), ok |-> FALSE]
        \/ s \in Deducers /\ \E d \in new : o = [S |-> [taken EXCEPT !.ded = Append(@, d)], ok |-> TRUE]
    BY <1>9 DEF Outcomes, assertLit, P, l
  <2>2. /\ known \in SolverState /\ known.points = P.points /\ known.next = P.next
        /\ known.told = Append(S.told, l) /\ known.ded = S.ded
    BY <1>4, <1>6 DEF SolverState
  <2>3. /\ taken \in SolverState /\ taken.points = P.points /\ taken.next = P.next
        /\ taken.told = Append(S.told, l) /\ taken.ded = S.ded
    BY <1>4, <1>6 DEF SolverState
  <2>4. CASE o = [S |-> known, ok |-> TRUE]
    <3>1. o.S = known
      BY <2>4
    <3> HIDE DEF known
    <3>2. SolverFits(s, known, t, n + 1) /\ ToldUpTo(s, known, t, n + 1)
      BY <1>8, <1>9, <2>2
    <3> QED BY <3>1, <3>2
  <2>5. CASE o = [S |-> taken, ok |-> TRUE]
    <3>1. o.S = taken
      BY <2>5
    <3> HIDE DEF taken
    <3>2. SolverFits(s, taken, t, n + 1) /\ ToldUpTo(s, taken, t, n + 1)
      BY <1>8, <1>9, <2>3
    <3> QED BY <3>1, <3>2
  <2>6. ASSUME NEW c \in Found(s, T), o = [S |-> Failed(P, c), ok |-> FALSE]
        PROVE  SolverFits(s, o.S, t, n + 1) /\ ToldUpTo(s, o.S, t, n) /\ ~o.ok
    <3>1. c \in SUBSET Lit
      <4>1. T \in SUBSET Lit
        BY <1>1, <1>4 DEF Range
      <4> QED BY <4>1, <2>6 DEF Found
    <3>2. PICK F : F = Failed(P, c)
      OBVIOUS
    <3>3. /\ F \in SolverState /\ F.points = P.points /\ F.next = P.next /\ F.told = S.told
          /\ F.ded = S.ded
      BY <1>4, <3>1, <3>2 DEF Failed, SolverState
    <3>4. SolverFits(s, F, t, n + 1)
      <4>1. F.points = Append(S.points, Pushed(S)) /\ F.next = S.next
        BY <1>4, <3>3
      <4>2. Len(S.told) <= Len(F.told) /\ \A j \in 1 .. Len(S.told) : F.told[j] = S.told[j]
        BY <1>1, <3>3
      <4> QED BY <3>3, <4>1, <4>2, PushFits
    <3>5. ToldUpTo(s, F, t, n)
      BY <3>3 DEF ToldUpTo
    <3>6. o.S = F /\ ~o.ok
      BY <2>6, <3>2
    <3> QED BY <3>4, <3>5, <3>6
  <2>7. ASSUME s \in Deducers, NEW d \in new,
               o = [S |-> [taken EXCEPT !.ded = Append(@, d)], ok |-> TRUE]
        PROVE  SolverFits(s, o.S, t, n + 1) /\ ToldUpTo(s, o.S, t, n + 1)
    <3>1. d \in Implied(s, Range(S.told) \cup {l}) /\ var(d) \notin {var(k) : k \in Known(P) \cup {l}}
      BY <1>4, <2>7
    <3>2. d \in Lit
      BY <3>1, ImpliedTaken
    <3>3. \A i \in 1 .. Len(S.ded) : var(S.ded[i]) # var(d)
      <4>1. \A i \in 1 .. Len(S.ded) : S.ded[i] \in Known(P)
        BY <1>1, <1>4 DEF Known, Range
      <4> QED BY <3>1, <4>1
    <3>4. Append(S.ded, d) \in Seq(Lit)
      BY <1>1, <3>2
    <3>5. PICK F : F = [taken EXCEPT !.ded = Append(@, d)]
      OBVIOUS
    <3> HIDE DEF taken
    <3>6. /\ F \in SolverState /\ F.points = P.points /\ F.next = P.next
          /\ F.told = Append(S.told, l) /\ F.ded = Append(S.ded, d)
      BY <2>3, <3>4, <3>5 DEF SolverState
    <3>7. SolverFits(s, F, t, n + 1) /\ ToldUpTo(s, F, t, n + 1)
      BY <1>8, <1>9, <2>7, <3>1, <3>2, <3>3, <3>6
    <3>8. o.S = F
      BY <2>7, <3>5
    <3> QED BY <3>7, <3>8
  <2> QED BY <2>1, <2>4, <2>5, <2>6, <2>7
<1> QED
  BY <1>7, <1>9

-----------------------------------------------------------------------------
\* The solvers and what they deduce.
LEMMA LitNegated ==
  ASSUME NEW l \in Lit
  PROVE  -l \in Lit
<1>1. \A v \in Var : v \in Int /\ -(-v) = v
  BY ScheduleAssumption
<1> QED
  BY <1>1 DEF Lit

LEMMA Scheduled ==
  /\ Len(Schedule) \in Nat
  /\ \A i \in 1 .. Len(Schedule) : Schedule[i] \in Solver
  /\ \A s \in Solver : \E i \in 1 .. Len(Schedule) : Schedule[i] = s
<1>1. Schedule \in Seq(Solver)
  BY DeducerAssumption
<1>2. DOMAIN Schedule = 1 .. Len(Schedule) /\ Len(Schedule) \in Nat
  BY <1>1
<1> QED
  BY <1>2 DEF Solver, Range

LEMMA DeducersDisjoint ==
  ASSUME NEW s \in Solver, NEW r \in Solver, s # r, s \in Deducers, r \in Deducers
  PROVE  Valid[s] \cap Valid[r] = {}
<1>1. PICK i \in 1 .. Len(Schedule), j \in 1 .. Len(Schedule) : Schedule[i] = s /\ Schedule[j] = r
  BY Scheduled
<1>2. CASE j < i
  <2>1. j \in 1 .. i - 1
    BY <1>2, Scheduled
  <2> QED BY <1>1, <2>1, DeducerAssumption
<1>3. CASE i < j
  <2>1. i \in 1 .. j - 1
    BY <1>3, Scheduled
  <2> QED BY <1>1, <2>1, DeducerAssumption
<1>4. i # j
  BY <1>1
<1> QED
  BY <1>2, <1>3, <1>4, Scheduled

LEMMA DeductionTaken ==
  ASSUME NEW s \in Solver, NEW S, NEW t, NEW n, SolverFits(s, S, t, n), NEW i \in 1 .. Len(S.ded)
  PROVE  /\ S.ded[i] \in Lit /\ var(S.ded[i]) \in Valid[s] /\ s \in Deducers
         /\ Len(S.points) > 0
<1>1. S.ded \in Seq(Lit) /\ S.points \in Seq(Point)
  BY DEF SolverFits, SolverState
<1>2. Len(S.ded) > 0 /\ s \in Deducers /\ Follows(s, S, i)
  <2>1. Len(S.ded) > 0
    BY <1>1
  <2> QED BY <2>1 DEF SolverFits, DeductionsFit
<1>3. PICK p \in 1 .. Len(S.points) : S.ded[i] \in Implied(s, ToldBy(S, ToldBefore(S, p)))
  BY <1>2 DEF Follows
<1>4. S.ded[i] \in Lit /\ var(S.ded[i]) \in Valid[s]
  BY <1>3, ImpliedTaken
<1> QED
  BY <1>1, <1>2, <1>3, <1>4

-----------------------------------------------------------------------------
\* The initial state and the steps.
LEMMA InitFits ==
  ASSUME Init
  PROVE  HandlerInv
<1>1. trail \in Seq(Lit) /\ Len(trail) = 0 /\ deds \in Seq(Lit) /\ Len(deds) = 0 /\ stack = 0
  BY DEF Init
<1>2. ASSUME NEW s \in Solver PROVE InStep(s, solvers[s], trail, stack, answer)
  <2>1. solvers[s] = TSolver /\ trail = <<>>
    BY DEF Init
  <2> QED BY <1>1, <2>1, ClearedFits DEF InStep
<1>3. DOMAIN solvers = Solver
  BY DEF Init
<1>4. TrailDistinct /\ Collected
  BY <1>1 DEF Init, TrailDistinct, Collected
<1>5. answer \in {"SAT", "UNSAT"} /\ stack \in 0 .. Len(trail)
  BY <1>1 DEF Init
<1>6. deducing \in BOOLEAN
  BY Zenon DEF Init
<1> QED
  BY <1>1, <1>2, <1>3, <1>4, <1>5, <1>6 DEF HandlerInv

\* Nothing is collected outside of deduceTheory.
LEMMA NotDeducing ==
  ASSUME Collected, ~deducing, ~deducing', deds' = deds
  PROVE  Collected' /\ deds = <<>>
<1>1. deds = <<>> /\ deds' = <<>> /\ Len(deds') = 0
  BY DEF Collected
<1> QED
  BY <1>1 DEF Collected

LEMMA AssertNextFits ==
  ASSUME HandlerInv, AssertNext
  PROVE  HandlerInv'
<1>1. /\ trail \in Seq(Lit) /\ stack \in Nat /\ stack < Len(trail) /\ Len(trail) \in Nat
      /\ answer = "SAT" /\ Collected /\ DOMAIN solvers = Solver
      /\ stack' = stack + 1 /\ trail' = trail /\ deducing' = deducing /\ deds' = deds
  BY DEF HandlerInv, AssertNext
<1>2. ~deducing
  BY <1>1 DEF Collected
<1>3. Collected'
  BY <1>1, <1>2, NotDeducing
<1>4. \A s \in Solver : /\ SolverFits(s, solvers[s], trail, stack)
                        /\ ToldUpTo(s, solvers[s], trail, stack)
  BY <1>1 DEF HandlerInv, InStep
<1>5. stack + 1 \in DeclaredAt(trail) <=> isDeclared(var(trail[stack + 1]))
  BY <1>1 DEF DeclaredAt
<1>6. /\ DOMAIN solvers' = Solver /\ answer' \in {"SAT", "UNSAT"}
      /\ \A s \in Solver : InStep(s, solvers'[s], trail, stack + 1, answer')
  <2>1. CASE ~isDeclared(var(trail[stack + 1]))
    <3>1. solvers' = solvers /\ answer' = answer
      BY <2>1 DEF AssertNext
    <3>2. \A s \in Solver : /\ SolverFits(s, solvers[s], trail, stack + 1)
                            /\ ToldUpTo(s, solvers[s], trail, stack + 1)
      BY <1>1, <1>4, <1>5, <2>1, NotDeclared
    <3> QED BY <1>1, <3>1, <3>2 DEF InStep
  <2>2. CASE isDeclared(var(trail[stack + 1]))
    <3> DEFINE l == trail[stack + 1]
    <3>1. PICK o \in [Solver -> UNION {Told(s, l) : s \in Solver}] :
            /\ \A s \in Solver : o[s] \in Told(s, l)
            /\ solvers' = [s \in Solver |-> o[s].S]
            /\ answer' = IF \A s \in Solver : o[s].ok THEN "SAT" ELSE "UNSAT"
      BY <2>2 DEF AssertNext
    <3>2. ASSUME NEW s \in Solver PROVE InStep(s, solvers'[s], trail, stack + 1, answer')
      <4>1. o[s] \in Outcomes(s, solvers[s], trail[stack + 1])
        BY <3>1 DEF Told, Outcomes
      <4>2. /\ SolverFits(s, o[s].S, trail, stack + 1)
            /\ \/ ToldUpTo(s, o[s].S, trail, stack + 1)
               \/ ~o[s].ok /\ ToldUpTo(s, o[s].S, trail, stack)
        BY <1>1, <1>4, <1>5, <2>2, <4>1, AssertOne
      <4>3. solvers'[s] = o[s].S /\ (~o[s].ok => answer' = "UNSAT")
        BY <3>1
      <4>4. (stack + 1) - 1 = stack /\ stack + 1 > 0
        BY <1>1
      <4> QED BY <4>2, <4>3, <4>4 DEF InStep
    <3> QED BY <3>1, <3>2
  <2> QED BY <2>1, <2>2
<1>7. TrailDistinct' /\ (trail \in Seq(Lit))' /\ (stack \in 0 .. Len(trail))'
  BY <1>1 DEF HandlerInv, TrailDistinct
<1>8. (deducing \in BOOLEAN)' /\ (deds \in Seq(Lit))'
  BY <1>1 DEF HandlerInv
<1> QED
  BY <1>1, <1>3, <1>6, <1>7, <1>8 DEF HandlerInv

\* Steps that change no more of a solver than its explanation.
LEMMA SolversKeep ==
  ASSUME HandlerInv, UNCHANGED <<trail, stack, deducing, deds>>, answer' \in {"SAT", "UNSAT"},
         answer' = answer \/ (answer = "SAT" /\ ~deducing), DOMAIN solvers' = Solver,
         \A s \in Solver :
           /\ solvers'[s] \in SolverState /\ solvers'[s].told = solvers[s].told
           /\ solvers'[s].points = solvers[s].points /\ solvers'[s].ded = solvers[s].ded
           /\ solvers'[s].next = solvers[s].next
  PROVE  HandlerInv'
<1>1. ASSUME NEW s \in Solver PROVE InStep(s, solvers'[s], trail, stack, answer')
  <2>1. InStep(s, solvers[s], trail, stack, answer')
    BY DEF HandlerInv, InStep
  <2>2. SolverFits(s, solvers[s], trail, stack) /\ solvers[s].next <= Len(solvers[s].ded)
    BY <2>1 DEF InStep, SolverFits, LimitsFit
  <2>3. /\ SolverFits(s, solvers'[s], trail, stack)
        /\ \A m : ToldUpTo(s, solvers[s], trail, m) => ToldUpTo(s, solvers'[s], trail, m)
    BY <2>2, SameParts
  <2> QED BY <2>1, <2>3 DEF InStep
<1>2. Collected'
  <2>1. Collected
    BY DEF HandlerInv
  <2>2. \A k \in 1 .. Len(deds) :
          \E s \in Solver : \E j \in 1 .. solvers'[s].next : deds[k] = solvers'[s].ded[j]
    BY <2>1 DEF Collected
  <2>3. (deducing => answer = "SAT" /\ stack = Len(trail))' /\ (~deducing => deds = <<>>)'
    BY <2>1 DEF Collected
  <2>4. \A k \in 1 .. Len(deds) : ~\E i \in 1 .. Len(trail) : var(trail[i]) = var(deds[k])
    BY <2>1 DEF Collected, Valued
  <2>5. \A j, k \in 1 .. Len(deds) : var(deds[j]) = var(deds[k]) => j = k
    BY <2>1 DEF Collected
  <2> QED BY <2>2, <2>3, <2>4, <2>5 DEF Collected, Valued
<1>3. TrailDistinct'
  BY DEF HandlerInv, TrailDistinct
<1> QED
  BY <1>1, <1>2, <1>3 DEF HandlerInv

\* An inconsistent set found among literals told.
LEMMA FoundLits ==
  ASSUME NEW s, NEW T \in SUBSET Lit, NEW c \in Found(s, T)
  PROVE  c \in SUBSET Lit
BY DEF Found

LEMMA ToldLits ==
  ASSUME HandlerInv, NEW s \in Solver
  PROVE  solvers[s] \in SolverState /\ Range(solvers[s].told) \in SUBSET Lit
<1>1. solvers[s] \in SolverState
  BY DEF HandlerInv, InStep, SolverFits
<1>2. solvers[s].told \in Seq(Lit)
  BY <1>1 DEF SolverState
<1> QED
  BY <1>1, <1>2 DEF Range

LEMMA CheckFits ==
  ASSUME HandlerInv, Check
  PROVE  HandlerInv'
<1>1. PICK k \in 1 .. Len(Schedule), o \in [Solver -> UNION {check(s, solvers[s]) : s \in Solver}] :
        /\ \A i \in 1 .. k : o[Schedule[i]] \in check(Schedule[i], solvers[Schedule[i]])
        /\ solvers' = [s \in Solver |-> IF \E i \in 1 .. k : Schedule[i] = s THEN o[s].S ELSE solvers[s]]
        /\ answer' = IF o[Schedule[k]].ok THEN "SAT" ELSE "UNSAT"
  BY DEF Check
<1>2. UNCHANGED <<trail, stack, deducing, deds>> /\ answer = "SAT" /\ ~deducing
  BY DEF Check
<1>3. ASSUME NEW s \in Solver
      PROVE  /\ solvers'[s] \in SolverState /\ solvers'[s].told = solvers[s].told
             /\ solvers'[s].points = solvers[s].points /\ solvers'[s].ded = solvers[s].ded
             /\ solvers'[s].next = solvers[s].next
  <2>1. solvers[s] \in SolverState /\ Range(solvers[s].told) \in SUBSET Lit
    BY ToldLits
  <2>2. CASE ~\E i \in 1 .. k : Schedule[i] = s
    BY <1>1, <2>1, <2>2
  <2>3. CASE \E i \in 1 .. k : Schedule[i] = s
    <3>1. o[s] \in check(s, solvers[s]) /\ solvers'[s] = o[s].S
      BY <1>1, <2>3
    <3>2. PICK S : S = solvers[s] /\ S \in SolverState
      BY <2>1
    <3>3. CASE o[s] = [S |-> [S EXCEPT !.expl = {}], ok |-> TRUE]
      <4>1. o[s].S = [S EXCEPT !.expl = {}] /\ {} \in SUBSET Lit
        BY <3>3
      <4> QED BY <3>1, <3>2, <4>1 DEF SolverState
    <3>4. ASSUME NEW c \in Found(s, Range(S.told)), o[s] = [S |-> Failed(S, c), ok |-> FALSE]
          PROVE  /\ solvers'[s] \in SolverState /\ solvers'[s].told = solvers[s].told
                 /\ solvers'[s].points = solvers[s].points /\ solvers'[s].ded = solvers[s].ded
                 /\ solvers'[s].next = solvers[s].next
      <4>1. c \in SUBSET Lit
        BY <2>1, <3>2, FoundLits
      <4>2. PICK F : F = Failed(S, c)
        OBVIOUS
      <4>3. /\ F \in SolverState /\ F.told = S.told /\ F.points = S.points /\ F.ded = S.ded
            /\ F.next = S.next
        BY <3>2, <4>1, <4>2 DEF Failed, SolverState
      <4>4. solvers'[s] = F
        BY <3>1, <3>4, <4>2
      <4> QED BY <3>2, <4>3, <4>4
    <3> QED BY <3>1, <3>2, <3>3, <3>4 DEF check
  <2> QED BY <2>2, <2>3
<1>4. DOMAIN solvers' = Solver /\ answer' \in {"SAT", "UNSAT"}
  BY <1>1
<1> QED
  BY <1>2, <1>3, <1>4, SolversKeep

LEMMA StatesSolvers ==
  ASSUME HandlerInv
  PROVE  /\ DOMAIN solvers = Solver /\ answer \in {"SAT", "UNSAT"}
         /\ \A s \in Solver : solvers[s] \in SolverState
BY DEF HandlerInv, InStep, SolverFits

LEMMA GetConflictFits ==
  ASSUME HandlerInv, GetConflict
  PROVE  HandlerInv'
<1>1. UNCHANGED <<trail, stack, solvers, answer, deducing, deds>>
  BY DEF GetConflict
<1> QED
  BY <1>1, StatesSolvers, SolversKeep

\* An explained literal leaves its solver as it was, but for the explanation.
LEMMA ReasonKeeps ==
  ASSUME NEW s, NEW S \in SolverState, NEW c \in SUBSET Lit
  PROVE  LET S2 == popBacktrackPoints(s, Failed(pushBacktrackPoint(S), c), 1)
         IN  /\ S2 \in SolverState /\ S2.told = S.told /\ S2.points = S.points
             /\ S2.ded = S.ded /\ S2.next = S.next
<1> DEFINE P == Failed(pushBacktrackPoint(S), c)
           S2 == popBacktrackPoints(s, P, 1)
<1>1. /\ S.told \in Seq(Lit) /\ S.points \in Seq(Point) /\ S.ded \in Seq(Lit) /\ S.next \in Nat
      /\ Len(S.told) \in Nat /\ Len(S.ded) \in Nat /\ Len(S.points) \in Nat
  BY DEF SolverState
<1>2. Pushed(S) \in Point
  BY <1>1 DEF Pushed, Point
<1>3. PICK B \in Seq(Point) : B = Append(S.points, Pushed(S))
  <2>1. Append(S.points, Pushed(S)) \in Seq(Point)
    BY <1>1, <1>2
  <2> QED BY <2>1
<1>4. P = [S EXCEPT !.points = B, !.has = TRUE, !.expl = c]
  BY <1>3 DEF Failed, pushBacktrackPoint, Pushed, SolverState
<1>5. /\ P.points = B /\ P.told = S.told /\ P.ded = S.ded /\ P.has = TRUE /\ P.expl = c
      /\ P \in SolverState
  BY <1>4 DEF SolverState
<1>6. Len(B) = Len(S.points) + 1 /\ B[Len(B)] = Pushed(S) /\ \A p \in 1 .. Len(S.points) : B[p] = S.points[p]
  BY <1>1, <1>2, <1>3
<1>7. Len(B) - 1 + 1 = Len(B) /\ Len(B) - 1 = Len(S.points)
  BY <1>1, <1>6
<1>8. SubSeq(B, 1, Len(S.points)) = S.points
  <2>1. /\ SubSeq(B, 1, Len(S.points)) \in Seq(Point) /\ Len(SubSeq(B, 1, Len(S.points))) = Len(S.points)
        /\ \A p \in 1 .. Len(S.points) : SubSeq(B, 1, Len(S.points))[p] = B[p]
    <3>1. Len(S.points) <= Len(B)
      BY <1>1, <1>6
    <3> QED BY <1>1, <3>1, Prefix
  <2> QED BY <1>1, <1>6, <2>1, SeqEqual
<1>9. SubSeq(S.told, 1, Len(S.told)) = S.told /\ SubSeq(S.ded, 1, Len(S.ded)) = S.ded
  <2>1. ASSUME NEW q \in Seq(Lit) PROVE SubSeq(q, 1, Len(q)) = q
    <3>1. /\ SubSeq(q, 1, Len(q)) \in Seq(Lit) /\ Len(SubSeq(q, 1, Len(q))) = Len(q)
          /\ \A i \in 1 .. Len(q) : SubSeq(q, 1, Len(q))[i] = q[i]
      BY Prefix
    <3> QED BY <3>1, SeqEqual
  <2> QED BY <1>1, <2>1
<1> HIDE DEF P
<1>10. S2 = [P EXCEPT !.points = SubSeq(B, 1, Len(S.points)), !.told = SubSeq(S.told, 1, Len(S.told)),
                      !.ded = SubSeq(S.ded, 1, Len(S.ded)), !.next = S.next,
                      !.has = @ /\ s \notin Forgets, !.expl = IF s \in Forgets THEN {} ELSE @]
  <2>1. P.points[Len(P.points) - 1 + 1] = Pushed(S) /\ Len(P.points) - 1 = Len(S.points)
    BY <1>5, <1>6, <1>7
  <2>2. Pushed(S).told = Len(S.told) /\ Pushed(S).lim = Len(S.ded) /\ Pushed(S).last = S.next
    BY DEF Pushed
  <2>3. 1 # 0
    OBVIOUS
  <2> QED BY <1>5, <2>1, <2>2, <2>3 DEF popBacktrackPoints
<1>11. (P.has /\ s \notin Forgets) \in BOOLEAN /\ (IF s \in Forgets THEN {} ELSE P.expl) \in SUBSET Lit
  BY <1>5
<1>12. /\ S2 \in SolverState /\ S2.told = S.told /\ S2.points = S.points
       /\ S2.ded = S.ded /\ S2.next = S.next
  BY <1>1, <1>5, <1>8, <1>9, <1>10, <1>11 DEF SolverState
<1> QED
  BY <1>12 DEF P

LEMMA GetReasonFits ==
  ASSUME HandlerInv, NEW l \in Lit, GetReason(l)
  PROVE  HandlerInv'
<1> DEFINE s == getReasoningSolverFor(l)
           P == pushBacktrackPoint(solvers[s])
           conflicts == Found(s, Range(P.told) \cup {-l})
<1>1. UNCHANGED <<trail, stack, answer, deducing, deds>>
  BY DEF GetReason
<1>2. DOMAIN solvers = Solver /\ \A r \in Solver : solvers[r] \in SolverState
  BY StatesSolvers
<1>3. CASE UNCHANGED solvers
  BY <1>1, <1>3, StatesSolvers, SolversKeep
<1>4. ASSUME NEW c \in conflicts,
             solvers' = [solvers EXCEPT ![s] = popBacktrackPoints(s, Failed(P, c), 1)]
      PROVE  HandlerInv'
  <2>1. CASE s \notin Solver
    <3>1. DOMAIN solvers' = Solver /\ \A r \in Solver : solvers'[r] = solvers[r]
      BY <1>2, <1>4, <2>1
    <3> QED BY <1>1, <1>2, <3>1, StatesSolvers, SolversKeep
  <2>2. CASE s \in Solver
    <3>1. c \in SUBSET Lit
      <4>1. P.told = solvers[s].told
        BY <1>2, <2>2 DEF pushBacktrackPoint, SolverState
      <4>2. Range(P.told) \cup {-l} \in SUBSET Lit
        BY <2>2, <4>1, ToldLits, LitNegated
      <4> QED BY <1>4, <4>2, FoundLits
    <3> HIDE DEF s
    <3>2. PICK F : F = popBacktrackPoints(s, Failed(P, c), 1)
      OBVIOUS
    <3>3. /\ F \in SolverState /\ F.told = solvers[s].told /\ F.points = solvers[s].points
          /\ F.ded = solvers[s].ded /\ F.next = solvers[s].next
      BY <1>2, <2>2, <3>1, <3>2, ReasonKeeps
    <3>4. DOMAIN solvers' = Solver /\ \A r \in Solver : solvers'[r] = IF r = s THEN F ELSE solvers[r]
      BY <1>2, <1>4, <3>2
    <3> QED BY <1>1, <1>2, <3>3, <3>4, StatesSolvers, SolversKeep
  <2> QED BY <2>1, <2>2
<1> QED
  BY <1>3, <1>4 DEF GetReason

\* A new literal on the trail, seen by no solver yet.
LEMMA EnqueueFits ==
  ASSUME HandlerInv, NEW l \in Lit, Enqueue(l)
  PROVE  HandlerInv'
<1>1. /\ trail \in Seq(Lit) /\ Len(trail) \in Nat /\ stack = Len(trail) /\ Collected
      /\ trail' = Append(trail, l) /\ UNCHANGED <<stack, solvers, answer, deducing, deds>> /\ ~deducing
  BY DEF HandlerInv, Enqueue
<1>2. /\ trail' \in Seq(Lit) /\ Len(trail') = Len(trail) + 1 /\ trail'[Len(trail) + 1] = l
      /\ \A i \in 1 .. Len(trail) : trail'[i] = trail[i]
  BY <1>1
<1>3. Collected'
  BY <1>1, NotDeducing
<1>4. TrailDistinct'
  <2>1. \A i \in 1 .. Len(trail) : var(trail[i]) # var(l)
    BY DEF Enqueue, Valued
  <2>2. \A i \in 1 .. Len(trail) + 1 : i \in 1 .. Len(trail) \/ i = Len(trail) + 1
    BY <1>1
  <2>3. TrailDistinct
    BY DEF HandlerInv
  <2> QED BY <1>2, <2>1, <2>2, <2>3 DEF TrailDistinct
<1>5. ASSUME NEW s \in Solver PROVE InStep(s, solvers[s], trail', stack, answer)
  <2>1. InStep(s, solvers[s], trail, stack, answer)
    BY DEF HandlerInv
  <2>2. SolverFits(s, solvers[s], trail', stack)
    <3>1. stack \in 0 .. stack /\ stack <= Len(trail) /\ stack <= Len(trail')
      BY <1>1, <1>2
    <3> QED BY <1>1, <1>2, <2>1, <3>1, TrailChange DEF InStep
  <2>3. ASSUME NEW m \in 0 .. stack, ToldUpTo(s, solvers[s], trail, m)
        PROVE  ToldUpTo(s, solvers[s], trail', m)
    <3>1. stack <= Len(trail) /\ stack <= Len(trail') /\ stack \in Nat
      BY <1>1, <1>2
    <3> QED BY <1>1, <1>2, <2>3, <3>1, TrailChange
  <2>4. stack \in 0 .. stack /\ (stack > 0 => stack - 1 \in 0 .. stack)
    BY <1>1
  <2> QED BY <2>1, <2>2, <2>3, <2>4 DEF InStep
<1>6. (stack \in 0 .. Len(trail))'
  BY <1>1, <1>2
<1>7. DOMAIN solvers = Solver /\ answer \in {"SAT", "UNSAT"} /\ deducing \in BOOLEAN /\ deds \in Seq(Lit)
  BY DEF HandlerInv
<1> QED
  BY <1>1, <1>2, <1>3, <1>4, <1>5, <1>6, <1>7 DEF HandlerInv

LEMMA DeduceTheoryFits ==
  ASSUME HandlerInv, DeduceTheory
  PROVE  HandlerInv'
<1>1. UNCHANGED <<trail, stack, solvers, answer, deds>> /\ answer = "SAT" /\ stack = Len(trail)
  BY DEF DeduceTheory
<1>2. deducing' \in BOOLEAN
  <2>1. deducing' = TRUE
    BY DEF DeduceTheory
  <2> QED BY <2>1, Zenon
<1>3. Collected' /\ TrailDistinct'
  <2>1. deducing'
    BY DEF DeduceTheory
  <2> QED BY <1>1, <2>1 DEF HandlerInv, Collected, TrailDistinct, Valued
<1> QED
  BY <1>1, <1>2, <1>3 DEF HandlerInv

LEMMA GetDeductionFits ==
  ASSUME HandlerInv, GetDeduction
  PROVE  HandlerInv'
<1>1. PICK i \in 1 .. Len(Schedule) :
        /\ Pending(Schedule[i])
        /\ solvers' = [solvers EXCEPT ![Schedule[i]].next = @ + 1]
        /\ deds' = LET d == solvers[Schedule[i]].ded[solvers[Schedule[i]].next + 1]
                   IN  IF Valued(d) THEN deds ELSE Append(deds, d)
  BY DEF GetDeduction
<1>2. PICK s \in Solver : s = Schedule[i]
  BY Scheduled
<1>3. PICK S \in SolverState : S = solvers[s]
  BY StatesSolvers
<1>4. PICK d : d = S.ded[S.next + 1]
  OBVIOUS
<1>5. /\ UNCHANGED <<trail, stack, answer, deducing>> /\ deducing /\ DOMAIN solvers = Solver
      /\ Collected /\ trail \in Seq(Lit) /\ deds \in Seq(Lit) /\ Len(deds) \in Nat
  BY DEF GetDeduction, HandlerInv
<1>6. PICK F : /\ F = [S EXCEPT !.next = S.next + 1]
               /\ DOMAIN solvers' = Solver /\ solvers'[s] = F
               /\ \A r \in Solver : r # s => solvers'[r] = solvers[r]
  <2>1. PICK F : F = [S EXCEPT !.next = S.next + 1]
    OBVIOUS
  <2>2. solvers' = [solvers EXCEPT ![s] = [S EXCEPT !.next = S.next + 1]]
    BY <1>1, <1>2, <1>3
  <2>3. solvers' = [solvers EXCEPT ![s] = F]
    BY <2>1, <2>2
  <2>4. DOMAIN solvers' = Solver /\ solvers'[s] = F /\ \A r \in Solver : r # s => solvers'[r] = solvers[r]
    BY <1>5, <2>3
  <2> QED BY <2>1, <2>4
<1>7. /\ S.ded \in Seq(Lit) /\ S.next \in Nat /\ Len(S.ded) \in Nat /\ S.next < Len(S.ded)
      /\ S.next + 1 \in 1 .. Len(S.ded)
  <2>1. S.ded \in Seq(Lit) /\ S.next \in Nat /\ S.next < Len(S.ded)
    BY <1>1, <1>2, <1>3 DEF SolverState, Pending
  <2> QED BY <2>1
<1>8. /\ solvers'[s] \in SolverState /\ solvers'[s].told = S.told /\ solvers'[s].points = S.points
      /\ solvers'[s].ded = S.ded /\ solvers'[s].next = S.next + 1
  <2>1. S.next + 1 \in Nat
    BY <1>7
  <2>2. /\ F \in SolverState /\ F.told = S.told /\ F.points = S.points
        /\ F.ded = S.ded /\ F.next = S.next + 1
    BY <1>6, <2>1 DEF SolverState
  <2> QED BY <1>6, <2>2
<1>9. \A r \in Solver : InStep(r, solvers[r], trail, stack, answer)
  BY DEF HandlerInv
<1>10. ASSUME NEW r \in Solver PROVE InStep(r, solvers'[r], trail, stack, answer)
  <2>1. CASE r # s
    BY <1>6, <1>9, <2>1
  <2>2. CASE r = s
    <3>1. InStep(s, S, trail, stack, answer) /\ S.next + 1 <= Len(S.ded)
      BY <1>3, <1>7, <1>9
    <3>2. SolverFits(s, S, trail, stack)
      BY <3>1 DEF InStep
    <3>3. /\ SolverFits(s, solvers'[s], trail, stack)
          /\ \A m : ToldUpTo(s, S, trail, m) => ToldUpTo(s, solvers'[s], trail, m)
      BY <1>8, <3>1, <3>2, SameParts
    <3> QED BY <2>2, <3>1, <3>3 DEF InStep
  <2> QED BY <2>1, <2>2
<1>11. d \in Lit /\ var(d) \in Valid[s] /\ s \in Deducers
  <2>1. SolverFits(s, S, trail, stack)
    BY <1>3, <1>9 DEF InStep
  <2> QED BY <1>4, <1>7, <2>1, DeductionTaken
<1>12. deds' = IF Valued(d) THEN deds ELSE Append(deds, d)
  BY <1>1, <1>2, <1>3, <1>4
\* A literal collected earlier is another deduction of the same solver, or one of a
\* solver with other atoms.
<1>13. ASSUME NEW k \in 1 .. Len(deds) PROVE var(deds[k]) # var(d)
  <2>0. PICK r \in Solver : \E j \in 1 .. solvers[r].next : deds[k] = solvers[r].ded[j]
    BY <1>5 DEF Collected
  <2>1. PICK j \in 1 .. solvers[r].next : deds[k] = solvers[r].ded[j]
    BY <2>0
  <2>2. solvers[r].next <= Len(solvers[r].ded) /\ SolverFits(r, solvers[r], trail, stack)
    BY <1>9 DEF InStep, SolverFits, LimitsFit
  <2>3. solvers[r].next \in Nat /\ Len(solvers[r].ded) \in Nat
    <3>1. PICK R \in SolverState : R = solvers[r]
      BY StatesSolvers
    <3>2. R.next \in Nat /\ R.ded \in Seq(Lit)
      BY DEF SolverState
    <3> QED BY <3>1, <3>2
  <2>4. j \in 1 .. Len(solvers[r].ded)
    BY <2>2, <2>3
  <2>5. CASE r = s
    <3>1. \A a, b \in 1 .. Len(S.ded) : var(S.ded[a]) = var(S.ded[b]) => a = b
      BY <1>3, <2>2, <2>5 DEF SolverFits, DeductionsFit
    <3>2. j # S.next + 1
      BY <1>3, <1>7, <2>5
    <3> QED BY <1>3, <1>4, <1>7, <2>1, <2>4, <2>5, <3>1, <3>2
  <2>6. CASE r # s
    <3>1. var(deds[k]) \in Valid[r] /\ r \in Deducers
      BY <2>1, <2>2, <2>4, DeductionTaken
    <3> QED BY <1>11, <2>6, <3>1, DeducersDisjoint
  <2> QED BY <2>5, <2>6
<1>14. ASSUME NEW k \in 1 .. Len(deds)
       PROVE  /\ ~Valued(deds[k])
              /\ \E r \in Solver : \E j \in 1 .. solvers'[r].next : deds[k] = solvers'[r].ded[j]
  <2>0. PICK r \in Solver : \E j \in 1 .. solvers[r].next : deds[k] = solvers[r].ded[j]
    BY <1>5 DEF Collected
  <2>1. PICK j \in 1 .. solvers[r].next : deds[k] = solvers[r].ded[j]
    BY <2>0
  <2>2. j \in 1 .. solvers'[r].next /\ solvers'[r].ded = solvers[r].ded
    <3>1. CASE r = s
      <4>1. j \in 1 .. S.next /\ solvers'[r].next = S.next + 1 /\ solvers'[r].ded = solvers[r].ded
        BY <1>3, <1>8, <3>1
      <4>2. j \in 1 .. S.next + 1
        BY <1>7, <4>1
      <4> QED BY <4>1, <4>2
    <3>2. CASE r # s
      BY <1>6, <3>2
    <3> QED BY <3>1, <3>2
  <2> QED BY <1>5, <2>1, <2>2 DEF Collected
<1>15. \A a, b \in 1 .. Len(deds) : var(deds[a]) = var(deds[b]) => a = b
  BY <1>5 DEF Collected
<1>16. deducing' /\ answer' = "SAT" /\ stack' = Len(trail')
  BY <1>5 DEF Collected
<1>17. Collected' /\ deds' \in Seq(Lit)
  <2>1. CASE Valued(d)
    <3>1. deds' = deds
      BY <1>12, <2>1
    <3> QED BY <1>5, <1>14, <1>15, <1>16, <3>1 DEF Collected, Valued
  <2>2. CASE ~Valued(d)
    <3>1. deds' = Append(deds, d)
      BY <1>12, <2>2
    <3>2. /\ deds' \in Seq(Lit) /\ Len(deds') = Len(deds) + 1 /\ deds'[Len(deds) + 1] = d
          /\ \A k \in 1 .. Len(deds) : deds'[k] = deds[k]
      BY <1>5, <1>11, <3>1
    <3>3. \A k \in 1 .. Len(deds) + 1 : k \in 1 .. Len(deds) \/ k = Len(deds) + 1
      BY <1>5
    <3>4. \E r \in Solver : \E j \in 1 .. solvers'[r].next : d = solvers'[r].ded[j]
      <4>1. S.next + 1 \in 1 .. solvers'[s].next /\ solvers'[s].ded[S.next + 1] = d
        BY <1>4, <1>7, <1>8
      <4> QED BY <4>1
    <3>5. \A a, b \in 1 .. Len(deds') : var(deds'[a]) = var(deds'[b]) => a = b
      BY <1>13, <1>15, <3>2, <3>3
    <3>6. \A k \in 1 .. Len(deds') :
            /\ ~\E a \in 1 .. Len(trail) : var(trail[a]) = var(deds'[k])
            /\ \E r \in Solver : \E j \in 1 .. solvers'[r].next : deds'[k] = solvers'[r].ded[j]
      <4>1. \A k \in 1 .. Len(deds) : ~\E a \in 1 .. Len(trail) : var(trail[a]) = var(deds[k])
        BY <1>14 DEF Valued
      <4>2. ~\E a \in 1 .. Len(trail) : var(trail[a]) = var(d)
        BY <2>2 DEF Valued
      <4>3. ASSUME NEW k \in 1 .. Len(deds)
            PROVE  /\ ~\E a \in 1 .. Len(trail) : var(trail[a]) = var(deds'[k])
                   /\ \E r \in Solver : \E j \in 1 .. solvers'[r].next : deds'[k] = solvers'[r].ded[j]
        <5>1. deds'[k] = deds[k]
          BY <3>2
        <5>2. \E r \in Solver : \E j \in 1 .. solvers'[r].next : deds[k] = solvers'[r].ded[j]
          BY <1>14
        <5> QED BY <4>1, <5>1, <5>2
      <4> QED BY <3>2, <3>3, <3>4, <4>2, <4>3
    <3> QED BY <1>5, <1>16, <3>2, <3>5, <3>6 DEF Collected, Valued
  <2> QED BY <2>1, <2>2
<1>18. TrailDistinct' /\ (stack \in 0 .. Len(trail))'
  BY <1>5 DEF HandlerInv, TrailDistinct
<1>19. answer' \in {"SAT", "UNSAT"} /\ deducing' \in BOOLEAN
  BY <1>5 DEF HandlerInv
<1> QED
  BY <1>5, <1>6, <1>10, <1>17, <1>18, <1>19 DEF HandlerInv

LEMMA EnqueueDeductionsFits ==
  ASSUME HandlerInv, EnqueueDeductions
  PROVE  HandlerInv'
<1>1. /\ trail \in Seq(Lit) /\ Len(trail) \in Nat /\ deds \in Seq(Lit) /\ Len(deds) \in Nat
      /\ trail' = trail \o deds /\ UNCHANGED <<stack, solvers, answer>> /\ deducing /\ Collected
  BY DEF HandlerInv, EnqueueDeductions
<1>2. stack = Len(trail)
  BY <1>1 DEF Collected
<1>3. /\ trail' \in Seq(Lit) /\ Len(trail') = Len(trail) + Len(deds)
      /\ \A i \in 1 .. Len(trail) : trail'[i] = trail[i]
      /\ \A i \in Len(trail) + 1 .. Len(trail) + Len(deds) :
           trail'[i] = deds[i - Len(trail)] /\ i - Len(trail) \in 1 .. Len(deds)
  BY <1>1, ConcatParts
<1>4. TrailDistinct'
  <2> DEFINE N == Len(trail)
             Old == 1 .. N
             New == N + 1 .. N + Len(deds)
  <2>1. \A i \in 1 .. Len(trail') : i \in Old \/ i \in New
    BY <1>1, <1>3
  <2>2. \A i, j \in Old : var(trail[i]) = var(trail[j]) => i = j
    BY DEF HandlerInv, TrailDistinct
  <2>3. \A i \in Old, k \in 1 .. Len(deds) : var(trail[i]) # var(deds[k])
    BY <1>1 DEF Collected, Valued
  <2>4. \A j, k \in 1 .. Len(deds) : var(deds[j]) = var(deds[k]) => j = k
    BY <1>1 DEF Collected
  <2>5. \A i, j \in New : i - N = j - N => i = j
    BY <1>1
  <2>6. \A i, j \in New : var(trail'[i]) = var(trail'[j]) => i = j
    BY <1>3, <2>4, <2>5
  <2>7. \A i \in Old, j \in New : var(trail'[i]) # var(trail'[j])
    BY <1>3, <2>3
  <2>8. \A i, j \in Old : var(trail'[i]) = var(trail'[j]) => i = j
    BY <1>3, <2>2
  <2> HIDE DEF Old, New
  <2> QED BY <2>1, <2>6, <2>7, <2>8 DEF TrailDistinct
<1>5. ASSUME NEW s \in Solver PROVE InStep(s, solvers[s], trail', stack, answer)
  <2>1. InStep(s, solvers[s], trail, stack, answer)
    BY DEF HandlerInv
  <2>2. stack <= Len(trail) /\ stack <= Len(trail') /\ stack \in Nat
    BY <1>1, <1>2, <1>3
  <2>3. \A i \in 1 .. stack : trail[i] = trail'[i]
    BY <1>2, <1>3
  <2>4. stack \in 0 .. stack /\ (stack > 0 => stack - 1 \in 0 .. stack)
    BY <2>2
  <2>5. \A m \in 0 .. stack : /\ SolverFits(s, solvers[s], trail, stack) => SolverFits(s, solvers[s], trail', stack)
                              /\ ToldUpTo(s, solvers[s], trail, m) => ToldUpTo(s, solvers[s], trail', m)
    BY <1>1, <1>3, <2>2, <2>3, TrailChange
  <2> QED BY <2>1, <2>4, <2>5 DEF InStep
<1>6. (stack \in 0 .. Len(trail))'
  BY <1>1, <1>2, <1>3
<1>7. DOMAIN solvers = Solver /\ answer \in {"SAT", "UNSAT"}
  BY DEF HandlerInv
<1>8. deducing' = FALSE /\ deds' = <<>>
  BY DEF EnqueueDeductions
<1>9. deducing' \in BOOLEAN
  BY <1>8, Zenon
<1>10. deds' \in Seq(Lit) /\ Len(deds') = 0
  BY <1>8
<1>11. Collected'
  BY <1>8, <1>10 DEF Collected
<1> QED
  BY <1>1, <1>3, <1>4, <1>5, <1>6, <1>7, <1>9, <1>10, <1>11 DEF HandlerInv

LEMMA BacktrackFits ==
  ASSUME HandlerInv, NEW m \in 0 .. Len(trail), NEW n \in 0 .. Len(trail), Backtrack(n, m)
  PROVE  HandlerInv'
<1>1. /\ trail \in Seq(Lit) /\ Len(trail) \in Nat /\ stack \in 0 .. Len(trail) /\ Collected
      /\ ~deducing /\ n < stack /\ n <= m /\ stack' = n /\ answer' = "SAT"
      /\ trail' = SubSeq(trail, 1, m) /\ UNCHANGED <<deducing, deds>>
      /\ solvers' = [s \in Solver |-> popBacktrackPoints(s, solvers[s], Declared(n + 1, stack))]
  BY DEF HandlerInv, Backtrack
<1>2. /\ trail' \in Seq(Lit) /\ Len(trail') = m /\ \A i \in 1 .. m : trail'[i] = trail[i]
  BY <1>1, Prefix
<1>3. Collected'
  BY <1>1, NotDeducing
<1>4. TrailDistinct'
  <2>1. \A i \in 1 .. m : i \in 1 .. Len(trail)
    BY <1>1
  <2> QED BY <1>2, <2>1 DEF HandlerInv, TrailDistinct
<1>5. Declared(n + 1, stack) = Hits(DeclaredAt(trail), stack) - Hits(DeclaredAt(trail), n)
  <2>1. n \in 0 .. stack
    BY <1>1
  <2> QED BY <1>1, <2>1, DeclaredBetween
<1>6. ASSUME NEW s \in Solver PROVE InStep(s, solvers'[s], trail', n, answer')
  <2>1. PICK w \in {stack, stack - 1} : ToldUpTo(s, solvers[s], trail, w)
    BY DEF HandlerInv, InStep
  <2>2. SolverFits(s, solvers[s], trail, stack)
    BY DEF HandlerInv, InStep
  <2>3. solvers'[s] = popBacktrackPoints(s, solvers[s], Declared(n + 1, stack))
    BY <1>1
  <2>4. stack \in Nat /\ n \in Nat /\ n < stack /\ stack <= Len(trail)
    BY <1>1
  <2>5. SolverFits(s, solvers'[s], trail, n) /\ ToldUpTo(s, solvers'[s], trail, n)
    BY <1>1, <1>5, <2>1, <2>2, <2>3, <2>4, PopFits
  <2>6. n <= Len(trail) /\ n <= Len(trail') /\ n \in 0 .. n
    BY <1>1, <1>2
  <2>7. \A i \in 1 .. n : trail[i] = trail'[i]
    BY <1>1, <1>2
  <2>8. SolverFits(s, solvers'[s], trail', n) /\ ToldUpTo(s, solvers'[s], trail', n)
    BY <1>1, <1>2, <2>4, <2>5, <2>6, <2>7, TrailChange
  <2> QED BY <2>8 DEF InStep
<1>7. DOMAIN solvers' = Solver /\ answer' \in {"SAT", "UNSAT"} /\ (stack \in 0 .. Len(trail))'
  BY <1>1, <1>2
<1>8. (deducing \in BOOLEAN)' /\ (deds \in Seq(Lit))'
  BY <1>1 DEF HandlerInv
<1> QED
  BY <1>1, <1>2, <1>3, <1>4, <1>6, <1>7, <1>8 DEF HandlerInv

LEMMA ClearFits ==
  ASSUME HandlerInv, Clear
  PROVE  HandlerInv'
<1>1. /\ stack = 0 /\ trail = <<>> /\ UNCHANGED <<trail, stack, answer, deducing, deds>>
      /\ solvers' = [s \in Solver |-> TSolver] /\ Collected /\ deds \in Seq(Lit) /\ Len(deds) \in Nat
  BY DEF HandlerInv, Clear
<1>2. Len(deds) = 0
  <2>1. SUFFICES ASSUME Len(deds) # 0 PROVE FALSE
    OBVIOUS
  <2>2. 1 \in 1 .. Len(deds)
    BY <1>1, <2>1
  <2>0. PICK s \in Solver : \E j \in 1 .. solvers[s].next : deds[1] = solvers[s].ded[j]
    BY <1>1, <2>2 DEF Collected
  <2>3. PICK j \in 1 .. solvers[s].next : deds[1] = solvers[s].ded[j]
    BY <2>0
  <2>4. SolverFits(s, solvers[s], trail, 0) /\ solvers[s] \in SolverState
    BY <1>1 DEF HandlerInv, InStep, SolverFits
  <2>5. j \in 1 .. Len(solvers[s].ded)
    <3>1. solvers[s].next \in Nat /\ solvers[s].next <= Len(solvers[s].ded) /\ Len(solvers[s].ded) \in Nat
      BY <2>4 DEF SolverState, SolverFits, LimitsFit
    <3> QED BY <3>1
  <2>6. Len(solvers[s].points) > 0
    BY <2>4, <2>5, DeductionTaken
  <2>7. Len(solvers[s].points) = Hits(DeclaredAt(trail), 0)
    BY <2>4 DEF SolverFits, PointsFit
  <2>8. Hits(DeclaredAt(trail), 0) = 0
    BY HitsStep
  <2> QED BY <2>6, <2>7, <2>8
<1>3. Collected' /\ TrailDistinct'
  BY <1>1, <1>2 DEF HandlerInv, Collected, TrailDistinct
<1>4. ASSUME NEW s \in Solver PROVE InStep(s, solvers'[s], trail, 0, answer)
  <2>1. solvers'[s] = TSolver
    BY <1>1
  <2> QED BY <1>1, <2>1, ClearedFits DEF InStep
<1>5. DOMAIN solvers' = Solver
  BY <1>1
<1> QED
  BY <1>1, <1>3, <1>4, <1>5 DEF HandlerInv

LEMMA NextFits ==
  ASSUME HandlerInv, [Next]_vars
  PROVE  HandlerInv'
<1>1. CASE UNCHANGED vars
  <2>1. UNCHANGED <<trail, stack, solvers, answer, deducing, deds>>
    BY <1>1 DEF vars
  <2> QED BY <2>1, StatesSolvers, SolversKeep
<1>2. CASE Next
  BY <1>2, AssertNextFits, CheckFits, GetConflictFits, ClearFits, DeduceTheoryFits,
     GetDeductionFits, EnqueueDeductionsFits, EnqueueFits, GetReasonFits, BacktrackFits DEF Next
<1> QED
  BY <1>1, <1>2

\* The handler's invariant: the points of every solver stand where the trail says, cut its
\* literals and deductions in order, and the deductions collected by deduceTheory have no
\* value yet and differ in their atoms.
THEOREM HandlerInvariant == Spec => []HandlerInv
<1>1. Init => HandlerInv
  BY InitFits
<1>2. HandlerInv /\ [Next]_vars => HandlerInv'
  BY NextFits
<1> QED
  BY <1>1, <1>2, PTL DEF Spec

LEMMA InvInSync ==
  ASSUME HandlerInv
  PROVE  InSync
<1>1. /\ trail \in Seq(Lit) /\ stack \in 0 .. Len(trail) /\ Len(trail) \in Nat
      /\ \A s \in Solver : InStep(s, solvers[s], trail, stack, answer)
  BY DEF HandlerInv
<1>2. TypeOK
  <2>1. ASSUME NEW s \in Solver
        PROVE  solvers[s].next \in 0 .. Len(solvers[s].ded) /\ solvers[s].expl \subseteq Lit
    <3>1. solvers[s] \in SolverState /\ solvers[s].next <= Len(solvers[s].ded)
      BY <1>1 DEF InStep, SolverFits, LimitsFit
    <3> QED BY <3>1 DEF SolverState
  <2> QED BY <2>1 DEF HandlerInv, TypeOK
<1>3. SolversInSync
  <2>1. ASSUME NEW s \in Solver, NEW n \in 0 .. Len(trail), ToldUpTo(s, solvers[s], trail, n)
        PROVE  Holds(s, n)
    <3>1. \A i \in 1 .. n : i \in 0 .. Len(trail) /\ i \in 1 .. Len(trail)
      BY <1>1
    <3>2. \A i \in 1 .. n : Taken(s, i) = Hits(TakenAt(s, trail), i)
      BY <1>1, <3>1, HitsCount
    <3>3. Taken(s, n) = Hits(TakenAt(s, trail), n)
      BY <1>1, HitsCount
    <3>4. \A i \in 1 .. n : i \in TakenAt(s, trail) <=> var(trail[i]) \in Valid[s]
      BY <3>1 DEF TakenAt
    <3> QED BY <2>1, <3>2, <3>3, <3>4 DEF ToldUpTo, Holds
  <2>2. ASSUME NEW s \in Solver
        PROVE  /\ Len(solvers[s].points) = Declared(1, stack)
               /\ Holds(s, stack) \/ (answer = "UNSAT" /\ Holds(s, stack - 1))
    <3>1. Len(solvers[s].points) = Hits(DeclaredAt(trail), stack)
      BY <1>1 DEF InStep, SolverFits, PointsFit
    <3>2. Len(solvers[s].points) = Declared(1, stack)
      BY <1>1, <3>1, HitsCount
    <3>3. CASE ToldUpTo(s, solvers[s], trail, stack)
      BY <1>1, <2>1, <3>2, <3>3
    <3>4. CASE answer = "UNSAT" /\ stack > 0 /\ ToldUpTo(s, solvers[s], trail, stack - 1)
      <4>1. stack - 1 \in 0 .. Len(trail)
        BY <1>1, <3>4
      <4> QED BY <2>1, <3>2, <3>4, <4>1
    <3> QED BY <1>1, <3>3, <3>4 DEF InStep
  <2> QED BY <2>2 DEF SolversInSync
<1>4. TrailDistinct
  BY DEF HandlerInv
<1>5. DeductionsFollow
  <2>1. \A s \in Solver : \A i \in 1 .. Len(solvers[s].ded) : Follows(s, solvers[s], i)
    BY <1>1 DEF InStep, SolverFits, DeductionsFit
  <2> QED BY <2>1 DEF Follows, ToldBy, DeductionsFollow
<1> QED
  BY <1>2, <1>3, <1>4, <1>5 DEF InSync

\* Every solver of the schedule has one backtrack point per declared literal of the stack
\* and holds the literals it takes, in their order; a deduction goes with its premises;
\* and no variable is enqueued twice, although handleSat does not look (THandler::backtrack,
\* TSolver::popBacktrackPoints, CoreSMTSolver::deduceTheory).
THEOREM SolversStayInSync == Spec => []InSync
<1>1. HandlerInv => InSync
  BY InvInSync
<1> QED
  BY <1>1, HandlerInvariant, PTL
=============================================================================
