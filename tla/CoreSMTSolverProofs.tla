------------------------ MODULE CoreSMTSolverProofs ------------------------
(***************************************************************************)
(* Proofs about CoreSMTSolver: the search is sound (SearchSound) and the   *)
(* theory solvers follow the trail (TheoryFollows), for every theory, every *)
(* set of clauses and assumptions and all bounds.                          *)
(*                                                                         *)
(* First the parts of the invariant, as predicates of a trail, its levels  *)
(* and reasons and the stack of the theory, and what the steps of the      *)
(* search do to them: taking back a part of the trail, enqueueing a        *)
(* literal, beginning a level, resolving with a reason.                    *)
(***************************************************************************)
EXTENDS CoreSMTSolver, SequenceLemmas, FiniteSetTheorems, NaturalsInduction,
        WellFoundedInduction, TLAPS

Implied(c, M) == \A m \in M : c \cap m # {}

\* The limits of the decision levels cut the trail t into intervals, and a variable
\* of t has the level of the interval it is in.
Lims(t, lim) ==
  /\ lim \in Seq(Nat)
  /\ \A k \in 1 .. Len(lim) : lim[k] <= Len(t)
  /\ \A j, k \in 1 .. Len(lim) : j <= k => lim[j] <= lim[k]
Distinct(t) == \A i, j \in 1 .. Len(t) : var(t[i]) = var(t[j]) => i = j
Levels(t, lim, lev) ==
  /\ lev \in [Var -> Nat]
  /\ \A i \in 1 .. Len(t) :
       /\ lev[var(t[i])] <= Len(lim)
       /\ \A k \in 1 .. Len(lim) : k <= lev[var(t[i])] <=> lim[k] < i
TrailFits(t, lim, lev) == t \in Seq(Lit) /\ Distinct(t) /\ Lims(t, lim) /\ Levels(t, lim, lev)

\* A literal of level zero is in every model in M.
Zero(t, lev, M) ==
  \A i \in 1 .. Len(t) : lev[var(t[i])] = 0 => \A m \in M : t[i] \in m

\* A literal without a reason is the first of its level, and an assumption as long
\* as there are some.
Decided(t, lim, lev, rs, as) ==
  \A i \in 1 .. Len(t) :
    lev[var(t[i])] > 0 /\ rs[var(t[i])] = CRef_Undef =>
      /\ i = lim[lev[var(t[i])]] + 1
      /\ lev[var(t[i])] <= Len(as) => t[i] = as[lev[var(t[i])]]

\* A reason holds in every model in M and implies its literal when it was enqueued.
FalseBefore(t, n, l) == \E j \in 1 .. n : t[j] = -l
Justifies(r, t, n, l, M) ==
  /\ r \subseteq Lit /\ l \in r /\ Implied(r, M)
  /\ \A k \in r \ {l} : FalseBefore(t, n, k)
Justified(t, rs, M) ==
  /\ DOMAIN rs = Var
  /\ \A i \in 1 .. Len(t) :
       rs[var(t[i])] \notin {CRef_Undef, CRef_Fake} => Justifies(rs[var(t[i])], t, i - 1, t[i], M)

\* The theory refutes -l together with the first n literals it has been told.
Explained(st, l, n) ==
  \E t \in TheoryConflict :
    /\ -l \in t
    /\ \A k \in t \ {-l} : \E j \in 1 .. n : j <= Len(st) /\ st[j] = k
Deduced(t, st, lev, rs) ==
  \A i \in 1 .. Len(t) :
    lev[var(t[i])] > 0 /\ rs[var(t[i])] = CRef_Fake => Explained(st, t[i], i - 1)

\* The theory solvers know a prefix of the trail; they have a backtrack point for
\* each of its atoms, which tells how many deductions were made before the atom.
StackFits(st, t) ==
  st \in Seq(Lit) /\ Len(st) <= Len(t) /\ \A i \in 1 .. Len(st) : st[i] = t[i]
AtomsUpTo(st, n) == {j \in 1 .. n : var(st[j]) \in TheoryVar}
Count(st, n) == Cardinality(AtomsUpTo(st, n))
Point == [lim : Nat, last : Nat]
PointsFit(st, pts, ded) ==
  /\ pts \in Seq(Point) /\ ded \in Seq(Lit)
  /\ Len(pts) = Count(st, Len(st))
  /\ \A k \in 1 .. Len(pts) : pts[k].lim <= Len(ded)
  /\ \A j, k \in 1 .. Len(pts) : j <= k => pts[j].lim <= pts[k].lim
  /\ \A i \in AtomsUpTo(st, Len(st)) :
       \A d \in 1 .. pts[Count(st, i)].lim : Explained(st, ded[d], i - 1)
  /\ \A d \in 1 .. Len(ded) : Explained(st, ded[d], Len(st))

-----------------------------------------------------------------------------
\* What the proofs use of literals.
LEMMA LitFacts ==
  \A l \in Lit : l \in Int /\ l # 0 /\ var(l) \in Var /\ -l \in Lit /\ var(-l) = var(l)
                 /\ -(-l) = l /\ -l # l
BY VarAssumption DEF Lit, var

\* Two literals of one variable are equal or negations of each other.
LEMMA SameVar ==
  \A l, k \in Lit : var(l) = var(k) => k = l \/ k = -l
BY VarAssumption DEF Lit, var

\* Negation of integers.
LEMMA NegInt == \A l \in Int : -(-l) = l /\ -l \in Int
OBVIOUS

\* Lit is finite.
LEMMA LitFinite == \A c \in SUBSET Lit : IsFiniteSet(c)
<1> DEFINE N == {-v : v \in Var}
           f == [x \in Var |-> -x]
<1>1. IsFiniteSet(Var) /\ Var \subseteq Nat
  BY VarAssumption
<1>2. f \in Surjection(Var, N)
  BY DEF Surjection
<1>3. IsFiniteSet(N)
  BY <1>1, <1>2, FS_Surjection DEF ExistsSurjection
<1>4. IsFiniteSet(Var \cup N)
  BY <1>1, <1>3, FS_Union
<1>5. IsFiniteSet(Lit)
  BY <1>4 DEF Lit
<1> QED
  BY <1>5, FS_Subset

\* A set with one element.
LEMMA OneElement ==
  ASSUME NEW c \in SUBSET Lit, Cardinality(c) = 1
  PROVE  \E l \in c : c = {l}
<1>1. IsFiniteSet(c)
  BY LitFinite
<1>2. \E x : c = {x}
  BY <1>1, FS_Singleton, Zenon
<1> QED
  BY <1>2

\* Least(c) is an element of c.
LEMMA LeastIn ==
  ASSUME NEW c \in SUBSET Lit, c # {}
  PROVE  Least(c) \in c
<1> DEFINE T == {Code(l) : l \in c}
<1>1. \A l \in c : Code(l) \in Nat
  <2>1. \A l \in c : var(l) \in Nat
    BY VarAssumption, LitFacts
  <2> QED BY <2>1 DEF Code
<1>2. T \in SUBSET Nat /\ T # {}
  BY <1>1
<1>3. PICK z \in T : \A y \in T : z <= y
  <2> HIDE DEF T
  <2> QED BY <1>2, LeastNat
<1>4. PICK l \in c : z = Code(l)
  OBVIOUS
<1>5. \A k \in c : Code(l) <= Code(k)
  BY <1>3, <1>4
<1> QED
  BY <1>5 DEF Least

\* What MaxLevel computes for literals whose levels are at most n.
LEMMA MaxLevelFacts ==
  ASSUME NEW n \in Nat, NEW c, \A l \in c : level[var(l)] \in 0 .. n
  PROVE  /\ MaxLevel(c) \in 0 .. n
         /\ \A l \in c : level[var(l)] <= MaxLevel(c)
         /\ MaxLevel(c) > 0 => \E l \in c : level[var(l)] = MaxLevel(c)
<1> DEFINE S == {0} \cup {level[var(l)] : l \in c}
<1>1. S \in SUBSET (0 .. n) /\ S # {}
  OBVIOUS
<1>2. Max(S) \in S /\ \A y \in S : y <= Max(S)
  <2> HIDE DEF S
  <2> QED BY <1>1, MaxNat
<1>3. MaxLevel(c) = Max(S)
  BY DEF MaxLevel
<1>4. \A l \in c : level[var(l)] \in S
  OBVIOUS
<1>5. Max(S) = 0 \/ \E l \in c : level[var(l)] = Max(S)
  BY <1>2
<1> HIDE DEF S
<1> QED
  BY <1>1, <1>2, <1>3, <1>4, <1>5

\* LastSeen finds the last position of the trail that makes a literal of S false.
LEMMA LastSeenFacts ==
  ASSUME NEW S, trail \in Seq(Lit), \E i \in 1 .. Len(trail) : -trail[i] \in S
  PROVE  /\ LastSeen(S) \in 1 .. Len(trail)
         /\ -trail[LastSeen(S)] \in S
         /\ \A j \in 1 .. Len(trail) : -trail[j] \in S => j <= LastSeen(S)
<1> DEFINE T == {i \in 1 .. Len(trail) : -trail[i] \in S}
<1>1. PICK n \in Nat : n = Len(trail)
  OBVIOUS
<1>2. T \in SUBSET (0 .. n) /\ T # {}
  BY <1>1
<1>3. Max(T) \in T /\ \A y \in T : y <= Max(T)
  <2> HIDE DEF T
  <2> QED BY <1>2, MaxNat
<1>4. LastSeen(S) = Max(T)
  BY DEF LastSeen
<1> QED
  BY <1>3, <1>4

-----------------------------------------------------------------------------
\* What the models of the theory and its conflicts say about each other.
LEMMA ModelFacts ==
  ASSUME NEW m \in TheoryModel
  PROVE  /\ \A l \in Lit : l \in m <=> -l \notin m
         /\ \A t \in TheoryConflict : ~(t \subseteq m)
BY TheoryAssumption

\* A conflict of the theory is made of literals of its atoms.
LEMMA ConflictFacts ==
  ASSUME NEW t \in TheoryConflict
  PROVE  \A l \in t : l \in Lit /\ var(l) \in TheoryVar
BY TheoryAssumption

\* The clause that forbids a set of literals holds their negations and nothing else.
LEMMA NegatedIn ==
  ASSUME NEW t \in SUBSET Lit
  PROVE  /\ Negated(t) \subseteq Lit
         /\ \A k \in Lit : k \in Negated(t) <=> -k \in t
<1>1. \A k \in t : k \in Lit /\ -k \in Lit /\ -(-k) = k
  BY LitFacts
<1>2. Negated(t) \subseteq Lit
  BY <1>1 DEF Negated
<1>3. ASSUME NEW k \in Lit, k \in Negated(t) PROVE -k \in t
  BY <1>1, <1>3 DEF Negated
<1>4. ASSUME NEW k \in Lit, -k \in t PROVE k \in Negated(t)
  <2>1. k = -(-k)
    BY LitFacts
  <2> QED BY <1>4, <2>1 DEF Negated
<1> QED
  BY <1>2, <1>3, <1>4

\* The clause of a theory conflict holds in every model.
LEMMA NegatedConflict ==
  ASSUME NEW t \in TheoryConflict, NEW M \in SUBSET TheoryModel
  PROVE  /\ Negated(t) \subseteq Lit /\ Implied(Negated(t), M)
         /\ \A k \in Lit : k \in Negated(t) <=> -k \in t
         /\ \A k \in Negated(t) : k \in Lit /\ var(k) \in TheoryVar /\ -k \in t
<1>1. t \in SUBSET Lit
  BY ConflictFacts
<1>2. Negated(t) \subseteq Lit /\ \A k \in Lit : k \in Negated(t) <=> -k \in t
  BY <1>1, NegatedIn
<1>3. \A k \in Negated(t) : k \in Lit /\ -k \in t /\ var(-k) \in TheoryVar /\ var(-k) = var(k)
  BY <1>2, ConflictFacts, LitFacts
<1>4. ASSUME NEW m \in M PROVE Negated(t) \cap m # {}
  <2>1. ~(t \subseteq m) /\ \A l \in Lit : l \in m <=> -l \notin m
    BY ModelFacts
  <2>2. PICK k \in t : k \notin m
    BY <2>1
  <2>3. k \in Lit /\ -k \in Lit /\ -(-k) = k
    BY <1>1, LitFacts
  <2>4. -k \in m /\ -k \in Negated(t)
    BY <1>2, <2>1, <2>2, <2>3
  <2> QED BY <2>4
<1> QED
  BY <1>2, <1>3, <1>4 DEF Implied

-----------------------------------------------------------------------------
\* A part of the trail taken back.  u and w are what is left of the trail t and of
\* its limits lim.
Cut(u, w, t, lim) ==
  /\ StackFits(u, t)
  /\ w \in Seq(Nat) /\ Len(w) <= Len(lim)
  /\ \A k \in 1 .. Len(w) : w[k] = lim[k] /\ lim[k] <= Len(u)
  /\ Len(w) < Len(lim) => Len(u) <= lim[Len(w) + 1]

\* Limits and levels still fit what is left of the trail.
LEMMA CutFits ==
  ASSUME NEW t, NEW lim, NEW lev, NEW u, NEW w,
         TrailFits(t, lim, lev), Cut(u, w, t, lim)
  PROVE  TrailFits(u, w, lev)
<1> USE DEF TrailFits, Cut, StackFits
<1>1. Len(u) \in Nat /\ Len(t) \in Nat /\ Len(w) \in Nat /\ Len(lim) \in Nat
  BY DEF Lims
<1>2. Distinct(u)
  BY <1>1 DEF Distinct
<1>3. Lims(u, w)
  <2>1. \A k \in 1 .. Len(w) : k \in 1 .. Len(lim)
    BY <1>1
  <2>2. \A j, k \in 1 .. Len(w) : j <= k => w[j] <= w[k]
    BY <2>1 DEF Lims
  <2>3. \A k \in 1 .. Len(w) : w[k] <= Len(u)
    OBVIOUS
  <2> QED BY <2>2, <2>3 DEF Lims
<1>4. ASSUME NEW i \in 1 .. Len(u)
      PROVE  /\ lev[var(u[i])] <= Len(w)
             /\ \A k \in 1 .. Len(w) : k <= lev[var(u[i])] <=> w[k] < i
  <2>1. u[i] = t[i] /\ i \in 1 .. Len(t)
    BY <1>1
  <2>2. lev[var(t[i])] \in Nat
    BY <2>1, LitFacts DEF Levels
  <2>3. CASE Len(w) = Len(lim)
    BY <1>1, <2>1, <2>2, <2>3 DEF Levels
  <2>4. CASE Len(w) < Len(lim)
    <3>1. PICK k \in 1 .. Len(lim) : k = Len(w) + 1
      BY <1>1, <2>4
    <3>2. lim[k] \in Nat /\ ~(lim[k] < i)
      BY <1>1, <2>4, <3>1 DEF Lims
    <3>3. ~(k <= lev[var(t[i])])
      BY <2>1, <3>2 DEF Levels
    <3>4. lev[var(u[i])] <= Len(w)
      BY <1>1, <2>1, <2>2, <3>1, <3>3
    <3> QED BY <1>1, <2>1, <2>2, <3>4 DEF Levels
  <2> QED BY <1>1, <2>3, <2>4
<1>5. Levels(u, w, lev)
  BY <1>4 DEF Levels
<1> QED
  BY <1>2, <1>3, <1>5

\* What is left of level zero is still in every model.
LEMMA CutZero ==
  ASSUME NEW t, NEW lev, NEW u, NEW M, t \in Seq(Lit), StackFits(u, t), Zero(t, lev, M)
  PROVE  Zero(u, lev, M)
<1>1. Len(u) \in Nat /\ Len(t) \in Nat
  BY DEF StackFits
<1>2. \A i \in 1 .. Len(u) : i \in 1 .. Len(t) /\ u[i] = t[i]
  BY <1>1 DEF StackFits
<1> QED
  BY <1>2 DEF Zero

\* A literal without a reason is still the first of its level.
LEMMA CutDecided ==
  ASSUME NEW t, NEW lim, NEW lev, NEW u, NEW w, NEW rs, NEW as,
         TrailFits(t, lim, lev), Cut(u, w, t, lim), Decided(t, lim, lev, rs, as)
  PROVE  Decided(u, w, lev, rs, as)
<1> TrailFits(u, w, lev)
  BY CutFits
<1>1. Len(u) \in Nat /\ Len(t) \in Nat /\ Len(w) \in Nat
  BY DEF StackFits, Cut, TrailFits
<1>2. SUFFICES ASSUME NEW i \in 1 .. Len(u), lev[var(u[i])] > 0, rs[var(u[i])] = CRef_Undef
               PROVE  /\ i = w[lev[var(u[i])]] + 1
                      /\ lev[var(u[i])] <= Len(as) => u[i] = as[lev[var(u[i])]]
  BY DEF Decided
<1>3. i \in 1 .. Len(t) /\ u[i] = t[i]
  BY <1>1 DEF StackFits, Cut
<1>4. lev[var(u[i])] \in Nat /\ lev[var(u[i])] <= Len(w)
  BY <1>3, LitFacts DEF TrailFits, Levels
<1>5. lev[var(u[i])] \in 1 .. Len(w)
  BY <1>1, <1>2, <1>4
<1>6. w[lev[var(u[i])]] = lim[lev[var(u[i])]]
  BY <1>5 DEF Cut
<1> QED
  BY <1>2, <1>3, <1>6 DEF Decided

\* What a reason and an explanation say depends on the literals before only.
LEMMA JustifiesBefore ==
  ASSUME NEW t, NEW u, NEW n \in Nat, NEW r, NEW l, NEW M,
         \A j \in 1 .. n : u[j] = t[j], Justifies(r, t, n, l, M)
  PROVE  Justifies(r, u, n, l, M)
BY DEF Justifies, FalseBefore

\* What the theory refutes with n literals it refutes with more.
LEMMA ExplainedBefore ==
  ASSUME NEW st, NEW su, NEW l, NEW n \in Nat, NEW k \in Nat, n <= k,
         \A j \in 1 .. n : j <= Len(st) => j <= Len(su) /\ su[j] = st[j],
         Explained(st, l, n)
  PROVE  Explained(su, l, k)
<1>1. PICK c \in TheoryConflict :
         -l \in c /\ \A q \in c \ {-l} : \E j \in 1 .. n : j <= Len(st) /\ st[j] = q
  BY DEF Explained
<1>2. \A q \in c \ {-l} : \E j \in 1 .. k : j <= Len(su) /\ su[j] = q
  BY <1>1
<1> QED
  BY <1>1, <1>2 DEF Explained

\* The reasons of what is left of the trail still imply their literals.
LEMMA CutJustified ==
  ASSUME NEW t, NEW u, NEW rs, NEW M, t \in Seq(Lit), StackFits(u, t), Justified(t, rs, M)
  PROVE  Justified(u, rs, M)
<1>1. Len(u) \in Nat /\ Len(t) \in Nat
  BY DEF StackFits
<1>2. SUFFICES ASSUME NEW i \in 1 .. Len(u), rs[var(u[i])] \notin {CRef_Undef, CRef_Fake}
               PROVE  Justifies(rs[var(u[i])], u, i - 1, u[i], M)
  BY DEF Justified
<1>3. i \in 1 .. Len(t) /\ u[i] = t[i] /\ i - 1 \in Nat /\ \A j \in 1 .. i - 1 : u[j] = t[j]
  BY <1>1 DEF StackFits
<1>4. Justifies(rs[var(t[i])], t, i - 1, t[i], M)
  BY <1>2, <1>3 DEF Justified
<1> QED
  BY <1>3, <1>4, JustifiesBefore

\* su is what is left of the stack st of the theory, which is no shorter than the
\* trail that is left, if st was as long.
LEMMA CutDeduced ==
  ASSUME NEW t, NEW u, NEW lev, NEW rs, NEW st, NEW su, t \in Seq(Lit), st \in Seq(Lit),
         StackFits(u, t), StackFits(su, st), Len(su) < Len(st) => Len(u) <= Len(su),
         Deduced(t, st, lev, rs)
  PROVE  Deduced(u, su, lev, rs)
<1>1. Len(u) \in Nat /\ Len(t) \in Nat /\ Len(st) \in Nat /\ Len(su) \in Nat
  BY DEF StackFits
<1>2. SUFFICES ASSUME NEW i \in 1 .. Len(u), lev[var(u[i])] > 0, rs[var(u[i])] = CRef_Fake
               PROVE  Explained(su, u[i], i - 1)
  BY DEF Deduced
<1>3. i \in 1 .. Len(t) /\ u[i] = t[i] /\ i - 1 \in Nat
  BY <1>1 DEF StackFits
<1>4. Explained(st, u[i], i - 1)
  BY <1>2, <1>3 DEF Deduced
<1>5. \A j \in 1 .. i - 1 : j <= Len(st) => j <= Len(su) /\ su[j] = st[j]
  BY <1>1 DEF StackFits
<1> QED
  BY <1>3, <1>4, <1>5, ExplainedBefore

-----------------------------------------------------------------------------
\* All that holds of a trail t, its limits, levels and reasons, under the assumptions
\* as, the models M and the stack st of the theory.
TrailHolds(t, lim, lev, rs, as, M, st) ==
  /\ TrailFits(t, lim, lev)
  /\ Zero(t, lev, M)
  /\ Decided(t, lim, lev, rs, as)
  /\ Justified(t, rs, M)
  /\ Deduced(t, st, lev, rs)

\* All that holds of the trail holds of what cancelUntil leaves of it, if the stack of the
\* theory is cut only above it.
LEMMA CutHolds ==
  ASSUME NEW M, NEW u, NEW w, NEW su, Cut(u, w, trail, trail_lim), stack \in Seq(Lit),
         TrailHolds(trail, trail_lim, level, reason, assumptions, M, stack),
         StackFits(su, stack), Len(su) < Len(stack) => Len(u) <= Len(su)
  PROVE  TrailHolds(u, w, level, reason, assumptions, M, su)
<1>1. TrailFits(trail, trail_lim, level) /\ Zero(trail, level, M)
      /\ Decided(trail, trail_lim, level, reason, assumptions)
      /\ Justified(trail, reason, M) /\ Deduced(trail, stack, level, reason)
  BY DEF TrailHolds
<1>2. StackFits(u, trail) /\ trail \in Seq(Lit)
  BY <1>1 DEF Cut, TrailFits
<1>3. TrailFits(u, w, level)
  BY <1>1, CutFits
<1>4. Zero(u, level, M)
  BY <1>1, <1>2, CutZero
<1>5. Decided(u, w, level, reason, assumptions)
  BY <1>1, CutDecided
<1>6. Justified(u, reason, M)
  BY <1>1, <1>2, CutJustified
<1>7. Deduced(u, su, level, reason)
  BY <1>1, <1>2, CutDeduced
<1> QED
  BY <1>3, <1>4, <1>5, <1>6, <1>7 DEF TrailHolds

\* A new level begins at the end of the trail.
LEMMA LevelHolds ==
  ASSUME NEW t, NEW lim, NEW lev, NEW rs, NEW as, NEW M, NEW st,
         TrailHolds(t, lim, lev, rs, as, M, st)
  PROVE  TrailHolds(t, Append(lim, Len(t)), lev, rs, as, M, st)
<1>1. TrailFits(t, lim, lev) /\ Decided(t, lim, lev, rs, as)
  BY DEF TrailHolds
<1>2. PICK n \in Nat : n = Len(t)
  BY <1>1 DEF TrailFits
<1>3. PICK w : w = Append(lim, n)
  OBVIOUS
<1>4. PICK h \in Nat : h = Len(lim)
  BY <1>1 DEF TrailFits, Lims
<1>5. /\ w \in Seq(Nat) /\ Len(w) = h + 1 /\ w[h + 1] = n
      /\ \A k \in 1 .. h : w[k] = lim[k] /\ lim[k] \in Nat
  BY <1>1, <1>3, <1>4 DEF TrailFits, Lims
<1>6. \A k \in 1 .. h + 1 : k \in 1 .. h \/ k = h + 1
  OBVIOUS
<1>7. Lims(t, w)
  <2>1. \A k \in 1 .. h + 1 : w[k] <= n
    BY <1>1, <1>2, <1>4, <1>5, <1>6 DEF TrailFits, Lims
  <2>2. \A j, k \in 1 .. h + 1 : j <= k => w[j] <= w[k]
    <3> SUFFICES ASSUME NEW j \in 1 .. h + 1, NEW k \in 1 .. h + 1, j <= k PROVE w[j] <= w[k]
      OBVIOUS
    <3>1. CASE k = h + 1
      BY <2>1, <1>5, <3>1
    <3>2. CASE k \in 1 .. h /\ j \in 1 .. h
      BY <1>1, <1>4, <1>5, <3>2 DEF TrailFits, Lims
    <3> QED BY <1>6, <3>1, <3>2
  <2> QED BY <1>2, <1>5, <2>1, <2>2 DEF Lims
<1>8. \A i \in 1 .. Len(t) : lev[var(t[i])] \in Nat /\ lev[var(t[i])] <= h
  BY <1>1, <1>4, LitFacts DEF TrailFits, Levels
<1>9. Levels(t, w, lev)
  <2>1. ASSUME NEW i \in 1 .. Len(t), NEW k \in 1 .. h + 1
        PROVE  k <= lev[var(t[i])] <=> w[k] < i
    <3>1. CASE k = h + 1
      BY <1>2, <1>5, <1>8, <3>1
    <3>2. CASE k \in 1 .. h
      BY <1>1, <1>4, <1>5, <3>2 DEF TrailFits, Levels
    <3> QED BY <1>6, <3>1, <3>2
  <2>2. \A i \in 1 .. Len(t) : lev[var(t[i])] <= h + 1
    BY <1>8
  <2> QED BY <1>1, <1>5, <2>1, <2>2 DEF TrailFits, Levels
<1>10. Decided(t, w, lev, rs, as)
  <2> SUFFICES ASSUME NEW i \in 1 .. Len(t), lev[var(t[i])] > 0, rs[var(t[i])] = CRef_Undef
               PROVE  /\ i = w[lev[var(t[i])]] + 1
                      /\ lev[var(t[i])] <= Len(as) => t[i] = as[lev[var(t[i])]]
    BY DEF Decided
  <2>1. lev[var(t[i])] \in 1 .. h
    BY <1>8
  <2> QED BY <1>1, <1>5, <2>1 DEF Decided
<1> QED
  BY <1>1, <1>2, <1>3, <1>7, <1>9, <1>10 DEF TrailHolds, TrailFits

\* u is the trail t with l enqueued.
Extends(u, t, l) ==
  /\ u \in Seq(Lit) /\ Len(u) = Len(t) + 1
  /\ \A i \in 1 .. Len(t) : u[i] = t[i]
  /\ u[Len(t) + 1] = l

\* uncheckedEnqueue extends the trail by one literal.
LEMMA AppendExtends ==
  ASSUME NEW t \in Seq(Lit), NEW l \in Lit
  PROVE  Extends(Append(t, l), t, l)
BY DEF Extends

Fresh(t, l) == l \in Lit /\ \A i \in 1 .. Len(t) : var(t[i]) # var(l)

\* What may be enqueued with the reason from, at the level of the limits lim.
MayEnqueue(t, lim, l, from, as, M, st) ==
  /\ Fresh(t, l)
  /\ Len(lim) = 0 => \A m \in M : l \in m
  /\ Len(lim) > 0 /\ from = CRef_Undef =>
       Len(t) = lim[Len(lim)] /\ (Len(lim) <= Len(as) => l = as[Len(lim)])
  /\ from \notin {CRef_Undef, CRef_Fake} => Justifies(from, t, Len(t), l, M)
  /\ Len(lim) > 0 /\ from = CRef_Fake => Explained(st, l, Len(t))

\* All that holds of the trail holds after uncheckedEnqueue of a literal that may be enqueued.
LEMMA EnqueueHolds ==
  ASSUME NEW t, NEW lim, NEW lev, NEW rs, NEW as, NEW M, NEW st, NEW l, NEW from, NEW u,
         TrailHolds(t, lim, lev, rs, as, M, st), MayEnqueue(t, lim, l, from, as, M, st),
         Extends(u, t, l)
  PROVE  TrailHolds(u, lim, [lev EXCEPT ![var(l)] = Len(lim)], [rs EXCEPT ![var(l)] = from],
                    as, M, st)
<1>1. TrailFits(t, lim, lev) /\ Zero(t, lev, M) /\ Decided(t, lim, lev, rs, as)
      /\ Justified(t, rs, M) /\ Deduced(t, st, lev, rs)
  BY DEF TrailHolds
<1>2. PICK n \in Nat : n = Len(t)
  BY <1>1 DEF TrailFits
<1>3. PICK h \in Nat : h = Len(lim)
  BY <1>1 DEF TrailFits, Lims
<1>4. PICK lev2 : lev2 = [lev EXCEPT ![var(l)] = h]
  OBVIOUS
<1>5. PICK rs2 : rs2 = [rs EXCEPT ![var(l)] = from]
  OBVIOUS
<1>6. l \in Lit /\ var(l) \in Var /\ lev \in [Var -> Nat] /\ DOMAIN rs = Var
  BY <1>1, LitFacts DEF MayEnqueue, Fresh, TrailFits, Levels, Justified
<1>7. /\ u \in Seq(Lit) /\ Len(u) = n + 1 /\ u[n + 1] = l
      /\ \A i \in 1 .. n : u[i] = t[i] /\ t[i] \in Lit /\ var(t[i]) \in Var /\ var(t[i]) # var(l)
  BY <1>1, <1>2, LitFacts DEF MayEnqueue, Fresh, TrailFits, Extends
<1>8. /\ lev2 \in [Var -> Nat] /\ lev2[var(l)] = h
      /\ \A i \in 1 .. n : lev2[var(t[i])] = lev[var(t[i])] /\ lev[var(t[i])] \in Nat
  BY <1>4, <1>6, <1>7
<1>9. /\ DOMAIN rs2 = Var /\ rs2[var(l)] = from
      /\ \A i \in 1 .. n : rs2[var(t[i])] = rs[var(t[i])]
  BY <1>5, <1>6, <1>7
<1>10. \A i \in 1 .. n + 1 : i \in 1 .. n \/ i = n + 1
  OBVIOUS
<1>11. TrailFits(u, lim, lev2)
  <2>1. Distinct(u)
    <3> SUFFICES ASSUME NEW i \in 1 .. n + 1, NEW j \in 1 .. n + 1, var(u[i]) = var(u[j])
                 PROVE  i = j
      BY <1>7 DEF Distinct
    <3>1. CASE i \in 1 .. n /\ j \in 1 .. n
      BY <1>1, <1>2, <1>7, <3>1 DEF TrailFits, Distinct
    <3> QED BY <1>7, <1>10, <3>1
  <2>2. Lims(u, lim)
    BY <1>1, <1>2, <1>7 DEF TrailFits, Lims
  <2>3. ASSUME NEW i \in 1 .. n + 1
        PROVE  /\ lev2[var(u[i])] <= h
               /\ \A k \in 1 .. h : k <= lev2[var(u[i])] <=> lim[k] < i
    <3>1. CASE i \in 1 .. n
      BY <1>1, <1>2, <1>3, <1>7, <1>8, <3>1 DEF TrailFits, Levels
    <3>2. CASE i = n + 1
      BY <1>1, <1>2, <1>3, <1>7, <1>8, <3>2 DEF TrailFits, Lims
    <3> QED BY <1>10, <3>1, <3>2
  <2> QED BY <1>3, <1>7, <1>8, <2>1, <2>2, <2>3 DEF TrailFits, Levels
<1>12. Zero(u, lev2, M)
  <2> SUFFICES ASSUME NEW i \in 1 .. n + 1, lev2[var(u[i])] = 0, NEW m \in M PROVE u[i] \in m
    BY <1>7 DEF Zero
  <2>1. CASE i \in 1 .. n
    BY <1>1, <1>2, <1>7, <1>8, <2>1 DEF Zero
  <2>2. CASE i = n + 1
    BY <1>3, <1>7, <1>8, <2>2 DEF MayEnqueue
  <2> QED BY <1>10, <2>1, <2>2
<1>13. Decided(u, lim, lev2, rs2, as)
  <2> SUFFICES ASSUME NEW i \in 1 .. n + 1, lev2[var(u[i])] > 0, rs2[var(u[i])] = CRef_Undef
               PROVE  /\ i = lim[lev2[var(u[i])]] + 1
                      /\ lev2[var(u[i])] <= Len(as) => u[i] = as[lev2[var(u[i])]]
    BY <1>7 DEF Decided
  <2>1. CASE i \in 1 .. n
    <3>1. u[i] = t[i] /\ lev2[var(u[i])] = lev[var(t[i])] /\ rs2[var(u[i])] = rs[var(t[i])]
      BY <1>7, <1>8, <1>9, <2>1
    <3>2. i \in 1 .. Len(t) /\ lev[var(t[i])] > 0 /\ rs[var(t[i])] = CRef_Undef
      BY <1>2, <2>1, <3>1
    <3>3. /\ i = lim[lev[var(t[i])]] + 1
          /\ lev[var(t[i])] <= Len(as) => t[i] = as[lev[var(t[i])]]
      BY <1>1, <3>2 DEF Decided
    <3> QED BY <3>1, <3>3
  <2>2. CASE i = n + 1
    BY <1>2, <1>3, <1>7, <1>8, <1>9, <2>2 DEF MayEnqueue
  <2> QED BY <1>10, <2>1, <2>2
<1>14. Justified(u, rs2, M)
  <2> SUFFICES ASSUME NEW i \in 1 .. n + 1, rs2[var(u[i])] \notin {CRef_Undef, CRef_Fake}
               PROVE  Justifies(rs2[var(u[i])], u, i - 1, u[i], M)
    BY <1>7, <1>9 DEF Justified
  <2>1. CASE i \in 1 .. n
    <3>1. Justifies(rs[var(t[i])], t, i - 1, t[i], M)
      BY <1>1, <1>2, <1>7, <1>9, <2>1 DEF Justified
    <3>2. i - 1 \in Nat /\ \A j \in 1 .. i - 1 : u[j] = t[j]
      BY <1>7, <2>1
    <3>3. Justifies(rs[var(t[i])], u, i - 1, t[i], M)
      BY <3>1, <3>2, JustifiesBefore
    <3> QED BY <1>7, <1>9, <2>1, <3>3
  <2>2. CASE i = n + 1
    <3>1. Justifies(from, t, n, l, M)
      BY <1>2, <1>7, <1>9, <2>2 DEF MayEnqueue
    <3>2. Justifies(from, u, n, l, M)
      BY <1>7, <3>1, JustifiesBefore
    <3>3. i - 1 = n
      BY <2>2
    <3> QED BY <1>7, <1>9, <2>2, <3>2, <3>3
  <2> QED BY <1>10, <2>1, <2>2
<1>15. Deduced(u, st, lev2, rs2)
  <2> SUFFICES ASSUME NEW i \in 1 .. n + 1, lev2[var(u[i])] > 0, rs2[var(u[i])] = CRef_Fake
               PROVE  Explained(st, u[i], i - 1)
    BY <1>7 DEF Deduced
  <2>1. CASE i \in 1 .. n
    BY <1>1, <1>2, <1>7, <1>8, <1>9, <2>1 DEF Deduced
  <2>2. CASE i = n + 1
    <3>1. i - 1 = n
      BY <2>2
    <3> QED BY <1>2, <1>3, <1>7, <1>8, <1>9, <2>2, <3>1 DEF MayEnqueue
  <2> QED BY <1>10, <2>1, <2>2
<1> QED
  BY <1>3, <1>4, <1>5, <1>11, <1>12, <1>13, <1>14, <1>15 DEF TrailHolds

\* Fewer models, a longer stack of the theory, and reasons that are forgotten at level
\* zero or belong to variables that are not on the trail.
LEMMA FewerModelsHold ==
  ASSUME NEW t, NEW lim, NEW lev, NEW rs, NEW as, NEW M, NEW st, NEW M2 \in SUBSET M,
         TrailHolds(t, lim, lev, rs, as, M, st)
  PROVE  TrailHolds(t, lim, lev, rs, as, M2, st)
<1>1. Zero(t, lev, M2)
  BY DEF TrailHolds, Zero
<1>2. Justified(t, rs, M2)
  BY DEF TrailHolds, Justified, Justifies, Implied
<1> QED
  BY <1>1, <1>2 DEF TrailHolds

\* The theory may be told more of the trail.
LEMMA LongerStackHolds ==
  ASSUME NEW t, NEW lim, NEW lev, NEW rs, NEW as, NEW M, NEW st, NEW su, su \in Seq(Lit),
         TrailHolds(t, lim, lev, rs, as, M, st), StackFits(st, su)
  PROVE  TrailHolds(t, lim, lev, rs, as, M, su)
<1>1. ASSUME NEW i \in 1 .. Len(t), Explained(st, t[i], i - 1)
      PROVE  Explained(su, t[i], i - 1)
  <2>1. i - 1 \in Nat /\ Len(st) \in Nat /\ Len(su) \in Nat /\ i - 1 <= i - 1
    BY DEF StackFits, TrailHolds, TrailFits
  <2>2. \A j \in 1 .. i - 1 : j <= Len(st) => j <= Len(su) /\ su[j] = st[j]
    BY <2>1 DEF StackFits
  <2> QED BY <1>1, <2>1, <2>2, ExplainedBefore
<1> QED
  BY <1>1 DEF TrailHolds, Deduced

\* simplify and the end of a level may forget reasons: only level zero and variables that are
\* off the trail lose theirs.
LEMMA OtherReasonsHold ==
  ASSUME NEW t, NEW lim, NEW lev, NEW rs, NEW as, NEW M, NEW st, NEW rs2, DOMAIN rs2 = Var,
         TrailHolds(t, lim, lev, rs, as, M, st),
         \A i \in 1 .. Len(t) : \/ rs2[var(t[i])] = rs[var(t[i])]
                                \/ rs2[var(t[i])] = CRef_Undef /\ lev[var(t[i])] = 0
  PROVE  TrailHolds(t, lim, lev, rs2, as, M, st)
<1>1. \A i \in 1 .. Len(t) : lev[var(t[i])] \in Nat
  BY LitFacts DEF TrailHolds, TrailFits, Levels
<1>2. Decided(t, lim, lev, rs2, as)
  <2> SUFFICES ASSUME NEW i \in 1 .. Len(t), lev[var(t[i])] > 0, rs2[var(t[i])] = CRef_Undef
               PROVE  /\ i = lim[lev[var(t[i])]] + 1
                      /\ lev[var(t[i])] <= Len(as) => t[i] = as[lev[var(t[i])]]
    BY DEF Decided
  <2>1. rs[var(t[i])] = CRef_Undef
    OBVIOUS
  <2> QED BY <2>1 DEF TrailHolds, Decided
<1>3. Justified(t, rs2, M)
  BY DEF TrailHolds, Justified
<1>4. Deduced(t, st, lev, rs2)
  BY <1>1 DEF TrailHolds, Deduced
<1> QED
  BY <1>2, <1>3, <1>4 DEF TrailHolds

\* Without decision levels everything is of level zero, and neither the assumptions
\* nor the stack matter.
LEMMA AllZero ==
  ASSUME NEW t, NEW lim, NEW lev, TrailFits(t, lim, lev), Len(lim) = 0
  PROVE  \A i \in 1 .. Len(t) : lev[var(t[i])] = 0
BY LitFacts DEF TrailFits, Levels

\* At level zero nothing is decided and nothing has to be explained.
LEMMA NoLevels ==
  ASSUME NEW t, NEW lim, NEW lev, TrailFits(t, lim, lev), Len(lim) = 0
  PROVE  \A rs, as, st : Decided(t, lim, lev, rs, as) /\ Deduced(t, st, lev, rs)
<1>1. \A i \in 1 .. Len(t) : lev[var(t[i])] = 0
  BY AllZero
<1> TAKE rs, as, st
<1>2. Decided(t, lim, lev, rs, as)
  BY <1>1 DEF Decided
<1>3. Deduced(t, st, lev, rs)
  BY <1>1 DEF Deduced
<1> QED
  BY <1>2, <1>3

\* At level zero a literal that is implied, or deduced by the theory, is in every model.
LEMMA UnitZero ==
  ASSUME NEW t, NEW lim, NEW lev, NEW M \in SUBSET TheoryModel, NEW r, NEW l,
         TrailFits(t, lim, lev), Len(lim) = 0, Zero(t, lev, M),
         Justifies(r, t, Len(t), l, M)
  PROVE  \A m \in M : l \in m
<1>1. \A i \in 1 .. Len(t) : lev[var(t[i])] = 0 /\ t[i] \in Lit
  BY AllZero DEF TrailFits
<1> TAKE m \in M
<1>2. \A k \in Lit : k \in m <=> -k \notin m
  BY ModelFacts
<1>3. PICK k \in r : k \in m
  BY DEF Justifies, Implied
<1>4. CASE k = l
  BY <1>3, <1>4
<1>5. CASE k # l
  <2>1. PICK j \in 1 .. Len(t) : t[j] = -k
    BY <1>5 DEF Justifies, FalseBefore
  <2>2. -k \in m
    BY <1>1, <2>1 DEF Zero
  <2> QED BY <1>2, <1>3, <2>2 DEF Justifies
<1> QED
  BY <1>4, <1>5

\* A literal the theory deduces at level zero is in every model.
LEMMA DeducedZero ==
  ASSUME NEW t, NEW lim, NEW lev, NEW M \in SUBSET TheoryModel, NEW st, NEW l \in Lit, NEW n \in Nat,
         TrailFits(t, lim, lev), Len(lim) = 0, Zero(t, lev, M), StackFits(st, t),
         Explained(st, l, n)
  PROVE  \A m \in M : l \in m
<1>1. \A i \in 1 .. Len(t) : lev[var(t[i])] = 0
  BY AllZero
<1> TAKE m \in M
<1>2. /\ \A k \in Lit : k \in m <=> -k \notin m
      /\ \A c \in TheoryConflict : ~(c \subseteq m)
  BY ModelFacts
<1>3. PICK c \in TheoryConflict :
         -l \in c /\ \A q \in c \ {-l} : \E j \in 1 .. n : j <= Len(st) /\ st[j] = q
  BY DEF Explained
<1>4. Len(st) \in Nat /\ Len(t) \in Nat /\ \A j \in 1 .. Len(st) : j \in 1 .. Len(t) /\ st[j] = t[j]
  BY DEF StackFits, TrailFits
<1>5. \A q \in c \ {-l} : q \in m
  <2> TAKE q \in c \ {-l}
  <2>1. PICK j \in 1 .. n : j <= Len(st) /\ st[j] = q
    BY <1>3
  <2>2. j \in 1 .. Len(st)
    BY <1>4, <2>1
  <2> QED BY <1>1, <1>4, <2>1, <2>2 DEF Zero
<1>6. -l \notin m
  BY <1>2, <1>3, <1>5
<1> QED
  BY <1>2, <1>6

-----------------------------------------------------------------------------
\* The number of atoms among the first n literals of the stack.
LEMMA CountNat ==
  ASSUME NEW st, NEW n \in Nat
  PROVE  IsFiniteSet(AtomsUpTo(st, n)) /\ Count(st, n) \in Nat /\ Count(st, n) <= n
<1>1. IsFiniteSet(1 .. n) /\ Cardinality(1 .. n) = n
  BY FS_Interval
<1>2. AtomsUpTo(st, n) \in SUBSET (1 .. n)
  BY DEF AtomsUpTo
<1>3. IsFiniteSet(AtomsUpTo(st, n)) /\ Cardinality(AtomsUpTo(st, n)) <= n
  BY <1>1, <1>2, FS_Subset
<1> QED
  BY <1>3, FS_CardinalityType DEF Count

\* The next literal of the stack counts if it is an atom.
LEMMA CountStep ==
  ASSUME NEW st, NEW n \in Nat
  PROVE  Count(st, n + 1) = Count(st, n) + (IF var(st[n + 1]) \in TheoryVar THEN 1 ELSE 0)
<1>1. IsFiniteSet(AtomsUpTo(st, n)) /\ Count(st, n) \in Nat
  BY CountNat
<1>2. CASE var(st[n + 1]) \in TheoryVar
  <2>1. AtomsUpTo(st, n + 1) = AtomsUpTo(st, n) \cup {n + 1}
    BY <1>2 DEF AtomsUpTo
  <2>2. n + 1 \notin AtomsUpTo(st, n)
    BY DEF AtomsUpTo
  <2>3. Cardinality(AtomsUpTo(st, n) \cup {n + 1}) = Cardinality(AtomsUpTo(st, n)) + 1
    BY <1>1, <2>2, FS_AddElement
  <2> QED BY <1>2, <2>1, <2>3 DEF Count
<1>3. CASE var(st[n + 1]) \notin TheoryVar
  <2>1. AtomsUpTo(st, n + 1) = AtomsUpTo(st, n)
    BY <1>3 DEF AtomsUpTo
  <2> QED BY <1>1, <1>3, <2>1 DEF Count
<1> QED
  BY <1>2, <1>3

\* A longer prefix of the stack has as many atoms or more.
LEMMA CountMonotone ==
  ASSUME NEW st, NEW n \in Nat, NEW k \in Nat, n <= k
  PROVE  Count(st, n) <= Count(st, k)
<1>1. IsFiniteSet(AtomsUpTo(st, k)) /\ AtomsUpTo(st, n) \in SUBSET AtomsUpTo(st, k)
  BY CountNat DEF AtomsUpTo
<1> QED
  BY <1>1, FS_Subset DEF Count

\* Equal prefixes have the same atoms.
LEMMA CountSame ==
  ASSUME NEW st, NEW su, NEW n \in Nat, \A j \in 1 .. n : su[j] = st[j]
  PROVE  AtomsUpTo(su, n) = AtomsUpTo(st, n) /\ Count(su, n) = Count(st, n)
BY DEF AtomsUpTo, Count

\* The atom at position i is the Count(st, i)-th one.
LEMMA CountAtom ==
  ASSUME NEW st, NEW i \in Nat, NEW n \in Nat, n < i, var(st[i]) \in TheoryVar
  PROVE  Count(st, n) < Count(st, i)
<1>1. PICK h \in Nat : i = h + 1
  <2>1. i - 1 \in Nat /\ i = (i - 1) + 1
    OBVIOUS
  <2> QED BY <2>1
<1>2. Count(st, n) <= Count(st, h)
  BY <1>1, CountMonotone
<1>3. Count(st, i) = Count(st, h) + 1
  BY <1>1, CountStep
<1>4. Count(st, n) \in Nat /\ Count(st, h) \in Nat
  BY CountNat
<1> QED
  BY <1>2, <1>3, <1>4

\* The first atom after position n is the next one.
LEMMA NextAtom ==
  ASSUME NEW st, NEW n \in Nat, NEW k \in Nat, n <= k, Count(st, n) # Count(st, k)
  PROVE  \E i \in n + 1 .. k : /\ var(st[i]) \in TheoryVar
                               /\ Count(st, i) = Count(st, n) + 1
                               /\ \A j \in n + 1 .. i - 1 : var(st[j]) \notin TheoryVar
<1> DEFINE S == {j \in n + 1 .. k : var(st[j]) \in TheoryVar}
<1>1. S # {}
  <2> SUFFICES ASSUME S = {} PROVE FALSE
    OBVIOUS
  <2>1. AtomsUpTo(st, n) = AtomsUpTo(st, k)
    BY DEF AtomsUpTo
  <2> QED BY <2>1 DEF Count
<1>2. S \in SUBSET Nat
  OBVIOUS
<1>3. PICK i \in S : \A j \in S : i <= j
  <2> HIDE DEF S
  <2> QED BY <1>1, <1>2, LeastNat
<1>4. i \in n + 1 .. k /\ var(st[i]) \in TheoryVar
  OBVIOUS
<1>5. \A j \in n + 1 .. i - 1 : var(st[j]) \notin TheoryVar
  BY <1>3, <1>4
<1>6. PICK h \in Nat : i = h + 1 /\ n <= h
  <2>1. i - 1 \in Nat /\ i = (i - 1) + 1 /\ n <= i - 1
    BY <1>4
  <2> QED BY <2>1
<1>7. AtomsUpTo(st, n) = AtomsUpTo(st, h)
  BY <1>5, <1>6 DEF AtomsUpTo
<1>8. Count(st, i) = Count(st, n) + 1
  BY <1>4, <1>6, <1>7, CountStep DEF Count
<1> QED
  BY <1>4, <1>5, <1>8

\* If the count stays the same no literal in between is an atom.
LEMMA NoAtoms ==
  ASSUME NEW st, NEW n \in Nat, NEW k \in Nat, n <= k, Count(st, n) = Count(st, k)
  PROVE  \A j \in n + 1 .. k : var(st[j]) \notin TheoryVar
<1> SUFFICES ASSUME NEW j \in n + 1 .. k, var(st[j]) \in TheoryVar PROVE FALSE
  OBVIOUS
<1>1. j \in Nat /\ n < j /\ j <= k
  OBVIOUS
<1>2. Count(st, n) < Count(st, j) /\ Count(st, j) <= Count(st, k)
  BY <1>1, CountAtom, CountMonotone
<1>3. Count(st, n) \in Nat /\ Count(st, k) \in Nat /\ Count(st, j) \in Nat
  BY <1>1, CountNat
<1> QED
  BY <1>2, <1>3

\* An explanation is made of atoms.
LEMMA ExplainedByAtoms ==
  ASSUME NEW st, NEW l, NEW n \in Nat, NEW k \in Nat, n <= k,
         \A j \in n + 1 .. k : var(st[j]) \notin TheoryVar, Explained(st, l, k)
  PROVE  Explained(st, l, n)
<1>1. PICK c \in TheoryConflict :
         -l \in c /\ \A q \in c \ {-l} : \E j \in 1 .. k : j <= Len(st) /\ st[j] = q
  BY DEF Explained
<1>2. \A q \in c \ {-l} : \E j \in 1 .. n : j <= Len(st) /\ st[j] = q
  <2> TAKE q \in c \ {-l}
  <2>1. PICK j \in 1 .. k : j <= Len(st) /\ st[j] = q
    BY <1>1
  <2>2. var(st[j]) \in TheoryVar
    BY <2>1, ConflictFacts
  <2>3. j \in 1 .. n
    BY <2>2
  <2> QED BY <2>1, <2>3
<1> QED
  BY <1>1, <1>2 DEF Explained

\* The deductions that are left with the first `left' backtrack points.
Kept(pts, ded, left) ==
  IF left = Len(pts) THEN ded ELSE SubSeq(ded, 1, pts[left + 1].lim)

\* The points and deductions that are left when the theory goes back to the first n
\* literals of its stack.
Popped(st, pts, ded, n, left, ded2) ==
  /\ left \in 0 .. Len(pts) /\ (left # Len(pts) => left + 1 \in 1 .. Len(pts))
  /\ ded2 \in Seq(Lit) /\ Len(ded2) <= Len(ded)
  /\ \A d \in 1 .. Len(ded2) : ded2[d] = ded[d] /\ Explained(st, ded2[d], n)
  /\ \A k \in 1 .. left : pts[k].lim <= Len(ded2)

\* What popBacktrackPoints keeps when the points of the first n literals stay: the deductions
\* made before the first point that goes.
LEMMA PopFacts ==
  ASSUME NEW st \in Seq(Lit), NEW pts, NEW ded, PointsFit(st, pts, ded), NEW n \in 0 .. Len(st)
  PROVE  Popped(st, pts, ded, n, Count(st, n), Kept(pts, ded, Count(st, n)))
<1> PICK left : left = Count(st, n)
  OBVIOUS
<1> PICK ded2 : ded2 = Kept(pts, ded, left)
  OBVIOUS
<1>1. /\ pts \in Seq(Point) /\ ded \in Seq(Lit)
      /\ Len(pts) \in Nat /\ Len(ded) \in Nat /\ Len(st) \in Nat /\ n \in Nat
  BY DEF PointsFit
<1>2. PICK e \in Nat : e = Len(st)
  BY <1>1
<1>3. n <= e /\ n \in Nat
  BY <1>2
<1>4. left \in Nat /\ left <= Len(pts) /\ Len(pts) = Count(st, e)
  BY <1>2, <1>3, CountNat, CountMonotone DEF PointsFit
<1>5. \A k \in 1 .. Len(pts) : pts[k] \in Point
  BY <1>1, ElementOfSeq, Zenon
<1>6. \A k \in 1 .. Len(pts) : pts[k].lim \in Nat /\ pts[k].lim <= Len(ded)
  BY <1>5 DEF PointsFit, Point
<1>7. CASE left = Len(pts)
  <2>1. ded2 = ded
    BY <1>7 DEF Kept
  <2>2. \A j \in n + 1 .. e : var(st[j]) \notin TheoryVar
    BY <1>2, <1>3, <1>4, <1>7, NoAtoms
  <2>3. \A d \in 1 .. Len(ded) : Explained(st, ded[d], n)
    <3> TAKE d \in 1 .. Len(ded)
    <3>1. Explained(st, ded[d], e)
      BY <1>2 DEF PointsFit
    <3> QED BY <1>3, <2>2, <3>1, ExplainedByAtoms
  <2> QED BY <1>1, <1>4, <1>6, <1>7, <2>1, <2>3 DEF Popped
<1>8. CASE left # Len(pts)
  <2>1. left + 1 \in 1 .. Len(pts)
    BY <1>1, <1>4, <1>8
  <2>2. PICK h : h = pts[left + 1].lim
    OBVIOUS
  <2>3. h \in Nat /\ h <= Len(ded)
    BY <1>6, <2>1, <2>2
  <2>4. ded2 = SubSeq(ded, 1, h)
    BY <1>8, <2>2 DEF Kept
  <2>5. ded2 \in Seq(Lit) /\ Len(ded2) = h /\ \A j \in 1 .. h : ded2[j] = ded[j]
    <3>1. ded \in Seq(Lit)
      BY <1>1
    <3>2. /\ SubSeq(ded, 1, h) \in Seq(Lit) /\ Len(SubSeq(ded, 1, h)) = h
          /\ \A j \in 1 .. h : SubSeq(ded, 1, h)[j] = ded[j]
      BY <2>3, <3>1, Prefix
    <3> QED BY <2>4, <3>2
  <2>6. PICK i \in n + 1 .. e : /\ var(st[i]) \in TheoryVar
                                /\ Count(st, i) = left + 1
                                /\ \A j \in n + 1 .. i - 1 : var(st[j]) \notin TheoryVar
    BY <1>3, <1>4, <1>8, NextAtom
  <2>7. i \in AtomsUpTo(st, Len(st)) /\ i - 1 \in Nat /\ n <= i - 1
    BY <1>2, <1>3, <2>6 DEF AtomsUpTo
  <2>8. \A d \in 1 .. h : Explained(st, ded[d], n)
    <3> TAKE d \in 1 .. h
    <3>1. Explained(st, ded[d], i - 1)
      BY <2>2, <2>6, <2>7 DEF PointsFit
    <3> QED BY <1>3, <2>6, <2>7, <3>1, ExplainedByAtoms
  <2>9. \A k \in 1 .. left : pts[k].lim <= h
    <3> TAKE k \in 1 .. left
    <3>1. k \in 1 .. Len(pts) /\ k <= left + 1
      BY <1>1, <1>4
    <3> QED BY <2>1, <2>2, <3>1 DEF PointsFit
  <2>10. \A d \in 1 .. Len(ded2) : ded2[d] = ded[d] /\ Explained(st, ded2[d], n)
    BY <2>5, <2>8
  <2>11. left \in 0 .. Len(pts)
    BY <1>1, <1>4
  <2>12. Len(ded2) <= Len(ded) /\ \A k \in 1 .. left : pts[k].lim <= Len(ded2)
    BY <2>3, <2>5, <2>9
  <2> QED BY <2>1, <2>5, <2>10, <2>11, <2>12 DEF Popped
<1> QED
  BY <1>7, <1>8

\* The elements of a sequence of backtrack points.
LEMMA PointsElements ==
  ASSUME NEW pts \in Seq(Point)
  PROVE  /\ Len(pts) \in Nat
         /\ \A k \in 1 .. Len(pts) : pts[k] \in Point /\ pts[k].lim \in Nat
                                     /\ pts[k].last \in Nat
<1>2. Len(pts) \in Nat /\ \A k \in 1 .. Len(pts) : pts[k] \in Point
  BY ElementOfSeq, LenProperties, Zenon
<1> QED
  BY <1>2 DEF Point

\* The elements of an appended sequence.
LEMMA AppendParts ==
  ASSUME NEW S, NEW s \in Seq(S), NEW x \in S
  PROVE  /\ Append(s, x) \in Seq(S) /\ Len(Append(s, x)) = Len(s) + 1
         /\ \A i \in 1 .. Len(s) : Append(s, x)[i] = s[i]
         /\ Append(s, x)[Len(s) + 1] = x
OBVIOUS

\* A theory solver that has been told nothing.
LEMMA NoPoints == PointsFit(<<>>, <<>>, <<>>)
<1>1. AtomsUpTo(<<>>, 0) = {}
  BY DEF AtomsUpTo
<1>2. Count(<<>>, 0) = 0
  BY <1>1, FS_EmptySet DEF Count
<1>3. <<>> \in Seq(Point) /\ <<>> \in Seq(Lit)
  BY EmptySeq, Zenon
<1>4. Len(<<>>) = 0
  OBVIOUS
<1> QED
  BY <1>1, <1>2, <1>3, <1>4 DEF PointsFit

\* The literal l is asserted; x is the new backtrack point.
LEMMA AssertKeepsPoints ==
  ASSUME NEW st \in Seq(Lit), NEW pts, NEW ded, PointsFit(st, pts, ded), NEW l \in Lit,
         NEW x \in Point, x.lim = Len(ded)
  PROVE  PointsFit(Append(st, l), IF var(l) \in TheoryVar THEN Append(pts, x) ELSE pts, ded)
<1>1. PICK e \in Nat : e = Len(st)
  OBVIOUS
<1>2. PICK s2 : s2 = Append(st, l)
  OBVIOUS
<1>3. s2 \in Seq(Lit) /\ Len(s2) = e + 1 /\ s2[e + 1] = l /\ \A j \in 1 .. e : s2[j] = st[j]
  BY <1>1, <1>2
<1>4. PICK p2 : p2 = IF var(l) \in TheoryVar THEN Append(pts, x) ELSE pts
  OBVIOUS
<1>5. pts \in Seq(Point) /\ Len(pts) \in Nat /\ Len(pts) = Count(st, e) /\ ded \in Seq(Lit)
  BY <1>1, PointsElements DEF PointsFit
<1>6. /\ p2 \in Seq(Point) /\ \A k \in 1 .. Len(pts) : p2[k] = pts[k]
      /\ Len(p2) = Len(pts) + (IF var(l) \in TheoryVar THEN 1 ELSE 0)
      /\ var(l) \in TheoryVar => p2[Len(pts) + 1] = x
  <2>2. /\ Append(pts, x) \in Seq(Point)
        /\ Len(Append(pts, x)) = Len(pts) + 1
        /\ \A i \in 1 .. Len(pts) : Append(pts, x)[i] = pts[i]
        /\ Append(pts, x)[Len(pts) + 1] = x
    BY <1>5, AppendParts
  <2>3. CASE var(l) \in TheoryVar
    BY <1>4, <2>2, <2>3
  <2>4. CASE var(l) \notin TheoryVar
    BY <1>4, <1>5, <2>4
  <2> QED BY <2>3, <2>4
<1>7. AtomsUpTo(s2, e) = AtomsUpTo(st, e) /\ Count(s2, e) = Count(st, e)
  BY <1>3, CountSame
<1>8. Count(s2, e + 1) = Len(p2)
  <2>1. Count(s2, e + 1) = Count(s2, e) + (IF var(s2[e + 1]) \in TheoryVar THEN 1 ELSE 0)
    BY CountStep
  <2> QED BY <1>3, <1>5, <1>6, <1>7, <2>1
<1>9. /\ \A k \in 1 .. Len(p2) : p2[k].lim <= Len(ded)
      /\ \A j, k \in 1 .. Len(p2) : j <= k => p2[j].lim <= p2[k].lim
  <2>1. \A k \in 1 .. Len(p2) : \/ k \in 1 .. Len(pts) /\ p2[k] = pts[k]
                                \/ p2[k] = x /\ k = Len(pts) + 1
    BY <1>5, <1>6
  <2>2. \A k \in 1 .. Len(p2) : p2[k].lim \in Nat /\ p2[k].lim <= Len(ded)
    <3>1. \A k \in 1 .. Len(pts) : pts[k].lim \in Nat /\ pts[k].lim <= Len(ded)
      BY <1>5, PointsElements DEF PointsFit
    <3>2. x.lim \in Nat /\ x.lim <= Len(ded)
      BY <1>5
    <3> QED BY <2>1, <3>1, <3>2
  <2>3. ASSUME NEW j \in 1 .. Len(p2), NEW k \in 1 .. Len(p2), j <= k PROVE p2[j].lim <= p2[k].lim
    <3>1. CASE k \in 1 .. Len(pts) /\ p2[k] = pts[k]
      <4>1. j \in 1 .. Len(pts) /\ p2[j] = pts[j]
        BY <1>5, <1>6, <2>3, <3>1
      <4> QED BY <2>3, <3>1, <4>1 DEF PointsFit
    <3>2. CASE p2[k] = x
      BY <2>2, <3>2
    <3> QED BY <2>1, <3>1, <3>2
  <2> QED BY <2>2, <2>3
<1>10. ASSUME NEW q, NEW n \in Nat, n <= e, Explained(st, q, n) PROVE Explained(s2, q, n)
  <2>1. \A j \in 1 .. n : j <= Len(st) => j <= Len(s2) /\ s2[j] = st[j]
    BY <1>1, <1>3, <1>10
  <2>2. n <= n
    OBVIOUS
  <2> QED BY <1>10, <2>1, <2>2, ExplainedBefore
<1>11. ASSUME NEW d \in 1 .. Len(ded) PROVE Explained(s2, ded[d], e) /\ Explained(s2, ded[d], e + 1)
  <2>1. Explained(st, ded[d], e)
    BY <1>1 DEF PointsFit
  <2>2. Explained(s2, ded[d], e)
    BY <1>10, <2>1
  <2>3. \A j \in 1 .. e : j <= Len(s2) => j <= Len(s2) /\ s2[j] = s2[j]
    OBVIOUS
  <2>4. e + 1 \in Nat /\ e <= e + 1
    OBVIOUS
  <2>5. Explained(s2, ded[d], e + 1)
    BY <2>2, <2>3, <2>4, ExplainedBefore
  <2> QED BY <2>2, <2>5
<1>12. ASSUME NEW i \in AtomsUpTo(s2, e + 1), NEW d \in 1 .. p2[Count(s2, i)].lim
       PROVE  Explained(s2, ded[d], i - 1)
  <2>1. CASE i = e + 1
    <3>1. var(l) \in TheoryVar
      BY <1>3, <2>1 DEF AtomsUpTo
    <3>2. Count(s2, i) = Len(pts) + 1 /\ p2[Count(s2, i)] = x
      BY <1>6, <1>8, <2>1, <3>1
    <3>3. d \in 1 .. Len(ded) /\ i - 1 = e
      BY <2>1, <3>2
    <3> QED BY <1>11, <3>3
  <2>2. CASE i # e + 1
    <3>1. i \in AtomsUpTo(st, e) /\ i \in Nat /\ i <= e /\ i > 0
      BY <1>7, <2>2 DEF AtomsUpTo
    <3>2. Count(s2, i) = Count(st, i)
      <4>1. \A j \in 1 .. i : s2[j] = st[j]
        BY <1>3, <3>1
      <4> QED BY <3>1, <4>1, CountSame
    <3>3. Count(st, i) \in 1 .. Len(pts)
      <4>1. Count(st, i) <= Count(st, e)
        BY <3>1, CountMonotone
      <4>2. Count(st, 0) < Count(st, i)
        BY <3>1, CountAtom DEF AtomsUpTo
      <4>3. Count(st, i) \in Nat /\ Count(st, 0) \in Nat
        BY <3>1, CountNat
      <4> QED BY <1>5, <4>1, <4>2, <4>3
    <3>4. d \in 1 .. pts[Count(st, i)].lim
      BY <1>6, <3>2, <3>3
    <3>5. Explained(st, ded[d], i - 1)
      BY <1>1, <3>1, <3>4 DEF PointsFit
    <3>6. i - 1 \in Nat /\ i - 1 <= e
      BY <3>1
    <3> QED BY <1>10, <3>5, <3>6
  <2> QED BY <2>1, <2>2
<1> QED
  BY <1>2, <1>3, <1>4, <1>5, <1>6, <1>8, <1>9, <1>11, <1>12 DEF PointsFit

\* Deductions that the stack explains may be stored.
LEMMA DeduceKeepsPoints ==
  ASSUME NEW st \in Seq(Lit), NEW pts, NEW ded, PointsFit(st, pts, ded), NEW more \in Seq(Lit),
         \A d \in 1 .. Len(more) : Explained(st, more[d], Len(st))
  PROVE  PointsFit(st, pts, ded \o more)
<1>1. PICK h \in Nat : h = Len(ded)
  BY DEF PointsFit
<1>1a. PICK g \in Nat : g = Len(more)
  OBVIOUS
<1>2. PICK d2 : d2 = ded \o more
  OBVIOUS
<1>3. d2 \in Seq(Lit) /\ Len(d2) = h + g /\ (\A j \in 1 .. h : d2[j] = ded[j])
      /\ \A j \in h + 1 .. h + g : d2[j] = more[j - h]
  BY <1>1, <1>1a, <1>2, ConcatParts DEF PointsFit
<1>4. pts \in Seq(Point) /\ Len(pts) = Count(st, Len(st)) /\ Len(pts) \in Nat
  BY PointsElements DEF PointsFit
<1>5. \A k \in 1 .. Len(pts) : pts[k].lim <= h /\ pts[k].lim <= h + g /\ pts[k].lim \in Nat
  BY <1>1, <1>4, PointsElements DEF PointsFit
<1>6. ASSUME NEW d \in 1 .. h + g PROVE Explained(st, d2[d], Len(st))
  <2>1. CASE d \in 1 .. h
    BY <1>1, <1>3, <2>1 DEF PointsFit
  <2>2. CASE d \notin 1 .. h
    <3>1. d \in h + 1 .. h + g /\ d - h \in 1 .. g
      BY <2>2
    <3> QED BY <1>1a, <1>3, <3>1
  <2> QED BY <2>1, <2>2
<1>7. ASSUME NEW i \in AtomsUpTo(st, Len(st)), NEW d \in 1 .. pts[Count(st, i)].lim
      PROVE  Explained(st, d2[d], i - 1)
  <2>1. PICK e \in Nat : e = Len(st)
    OBVIOUS
  <2>2. i \in Nat /\ 0 < i /\ i <= e /\ var(st[i]) \in TheoryVar
    BY <2>1 DEF AtomsUpTo
  <2>3. Count(st, i) <= Count(st, e) /\ Count(st, 0) < Count(st, i)
    BY <2>2, CountMonotone, CountAtom
  <2>4. Count(st, i) \in Nat /\ Count(st, 0) \in Nat
    BY <2>2, CountNat
  <2>5. Count(st, i) \in 1 .. Len(pts)
    BY <1>4, <2>1, <2>3, <2>4
  <2>6. d \in 1 .. h
    BY <1>5, <2>5
  <2>7. Explained(st, ded[d], i - 1)
    BY DEF PointsFit
  <2> QED BY <1>3, <2>6, <2>7
<1> QED
  BY <1>2, <1>3, <1>4, <1>5, <1>6, <1>7 DEF PointsFit

\* The number of an atom of the stack.
LEMMA AtomNumber ==
  ASSUME NEW st, NEW e \in Nat, NEW n \in Nat, n <= e, NEW i \in AtomsUpTo(st, e)
  PROVE  /\ i \in Nat /\ i > 0 /\ i - 1 \in Nat /\ Count(st, i) \in 1 .. Count(st, e)
         /\ i <= n => i \in AtomsUpTo(st, n) /\ Count(st, i) \in 1 .. Count(st, n)
         /\ n < i => Count(st, n) < Count(st, i)
<1>1. i \in Nat /\ 0 < i /\ i <= e /\ i - 1 \in Nat /\ var(st[i]) \in TheoryVar
  BY DEF AtomsUpTo
<1>2. Count(st, i) <= Count(st, e) /\ Count(st, 0) < Count(st, i)
  BY <1>1, CountMonotone, CountAtom
<1>3. Count(st, i) \in Nat /\ Count(st, 0) \in Nat /\ Count(st, e) \in Nat /\ Count(st, n) \in Nat
  BY <1>1, CountNat
<1>4. ASSUME i <= n PROVE i \in AtomsUpTo(st, n) /\ Count(st, i) <= Count(st, n)
  BY <1>1, <1>4, CountMonotone DEF AtomsUpTo
<1>5. ASSUME n < i PROVE Count(st, n) < Count(st, i)
  BY <1>1, <1>5, CountAtom
<1> QED
  BY <1>1, <1>2, <1>3, <1>4, <1>5

\* The theory goes back to the first literals su of its stack.
LEMMA PopKeepsPoints ==
  ASSUME NEW st \in Seq(Lit), NEW pts, NEW ded, PointsFit(st, pts, ded),
         NEW su, StackFits(su, st), NEW left, left = Count(st, Len(su)), NEW ded2,
         ded2 = Kept(pts, ded, left)
  PROVE  PointsFit(su, SubSeq(pts, 1, left), ded2)
<1>1. PICK e \in Nat : e = Len(st)
  OBVIOUS
<1>2. PICK n \in Nat : n = Len(su)
  BY DEF StackFits
<1>3. n <= e /\ n \in 0 .. Len(st) /\ \A j \in 1 .. n : su[j] = st[j]
  BY <1>1, <1>2 DEF StackFits
<1>4. /\ left \in 0 .. Len(pts)
      /\ ded2 \in Seq(Lit) /\ Len(ded2) <= Len(ded)
      /\ \A d \in 1 .. Len(ded2) : ded2[d] = ded[d] /\ Explained(st, ded2[d], n)
      /\ \A k \in 1 .. left : pts[k].lim <= Len(ded2)
  <2>1. n \in 0 .. Len(st) /\ left = Count(st, n)
    BY <1>2, <1>3
  <2>2. Popped(st, pts, ded, n, left, ded2)
    BY <2>1, PopFacts
  <2> QED BY <2>2 DEF Popped
<1>5. pts \in Seq(Point) /\ Len(pts) \in Nat /\ left \in Nat /\ left <= Len(pts)
  BY <1>4 DEF PointsFit
<1>6. PICK p2 : p2 = SubSeq(pts, 1, left)
  OBVIOUS
<1>7. p2 \in Seq(Point) /\ Len(p2) = left /\ \A k \in 1 .. left : p2[k] = pts[k]
  BY <1>5, <1>6, Prefix
<1>8. left = Count(su, n) /\ AtomsUpTo(su, n) = AtomsUpTo(st, n)
  BY <1>2, <1>3, CountSame
<1>9. \A q : \A k \in Nat : k <= n /\ Explained(st, q, k) => Explained(su, q, k)
  <2> SUFFICES ASSUME NEW q, NEW k \in Nat, k <= n, Explained(st, q, k) PROVE Explained(su, q, k)
    OBVIOUS
  <2>1. \A j \in 1 .. k : j <= Len(st) => j <= Len(su) /\ su[j] = st[j]
    BY <1>2, <1>3
  <2>2. k <= k
    OBVIOUS
  <2> QED BY <2>1, <2>2, ExplainedBefore
<1>10. \A d \in 1 .. Len(ded2) : Explained(su, ded2[d], n)
  <2>1. n <= n
    OBVIOUS
  <2> QED BY <1>4, <1>9, <2>1
<1>11. ASSUME NEW i \in AtomsUpTo(su, n), NEW d \in 1 .. p2[Count(su, i)].lim
       PROVE  Explained(su, ded2[d], i - 1)
  <2>1. i \in AtomsUpTo(st, n) /\ i <= n /\ i \in AtomsUpTo(st, e)
    BY <1>3, <1>8 DEF AtomsUpTo
  <2>2. i \in Nat /\ i > 0 /\ i - 1 \in Nat /\ Count(st, i) \in 1 .. Count(st, n)
    BY <1>3, <2>1, AtomNumber
  <2>3. Count(su, i) = Count(st, i)
    <3>1. \A j \in 1 .. i : su[j] = st[j]
      BY <1>3, <2>1, <2>2
    <3> QED BY <2>2, <3>1, CountSame
  <2>4. Count(st, i) \in 1 .. left
    BY <1>2, <2>2
  <2>5. p2[Count(su, i)] = pts[Count(st, i)]
    BY <1>7, <2>3, <2>4
  <2>6. pts[Count(st, i)].lim \in Nat /\ pts[Count(st, i)].lim <= Len(ded2)
    BY <1>4, <1>5, <2>4, PointsElements
  <2>7. Explained(st, ded[d], i - 1)
    BY <1>1, <2>1, <2>5 DEF PointsFit
  <2>8. d \in 1 .. Len(ded2)
    BY <1>4, <2>5, <2>6
  <2>9. Explained(st, ded2[d], i - 1) /\ i - 1 <= n
    BY <1>4, <2>1, <2>2, <2>7, <2>8
  <2> QED BY <1>9, <2>2, <2>9
<1>12. /\ \A k \in 1 .. left : p2[k].lim <= Len(ded2)
       /\ \A j, k \in 1 .. left : j <= k => p2[j].lim <= p2[k].lim
  <2>1. \A k \in 1 .. left : k \in 1 .. Len(pts) /\ p2[k] = pts[k]
    BY <1>5, <1>7
  <2> QED BY <1>4, <2>1 DEF PointsFit
<1> QED
  BY <1>2, <1>4, <1>6, <1>7, <1>8, <1>10, <1>11, <1>12 DEF PointsFit

\* The theory goes back and is told the same literals again; x is its new point.
LEMMA ReassertKeepsPoints ==
  ASSUME NEW st \in Seq(Lit), NEW pts, NEW ded, PointsFit(st, pts, ded),
         NEW n \in 0 .. Len(st), NEW left, left = Count(st, n), NEW ded2,
         ded2 = Kept(pts, ded, left),
         NEW x \in Point, x.lim = Len(ded2), NEW p2 \in Seq(Point),
         Len(p2) = Len(pts), \A k \in 1 .. Len(pts) : p2[k] = pts[k] \/ k > left,
         \A k \in 1 .. Len(pts) : p2[k] = x \/ k <= left
  PROVE  PointsFit(st, p2, ded2)
<1>1. PICK e \in Nat : e = Len(st)
  OBVIOUS
<1>2. n \in Nat /\ n <= e
  BY <1>1
<1>3. /\ left \in 0 .. Len(pts)
      /\ ded2 \in Seq(Lit) /\ Len(ded2) <= Len(ded)
      /\ \A d \in 1 .. Len(ded2) : ded2[d] = ded[d] /\ Explained(st, ded2[d], n)
      /\ \A k \in 1 .. left : pts[k].lim <= Len(ded2)
  <2>1. Popped(st, pts, ded, n, left, ded2)
    BY PopFacts
  <2> QED BY <2>1 DEF Popped
<1>4. pts \in Seq(Point) /\ Len(pts) \in Nat /\ left \in Nat /\ Len(pts) = Count(st, e)
  BY <1>1, <1>3 DEF PointsFit
<1>5. \A k \in 1 .. Len(pts) : pts[k] \in Point /\ pts[k].lim \in Nat
  BY <1>4, PointsElements
<1>7. \A k \in 1 .. Len(pts) : p2[k] = IF k <= left THEN pts[k] ELSE x
  BY <1>4
<1>8. \A k \in 1 .. Len(pts) : p2[k].lim \in Nat /\ p2[k].lim <= Len(ded2)
  <2> TAKE k \in 1 .. Len(pts)
  <2>1. CASE k <= left
    <3>1. k \in 1 .. left
      BY <1>4, <2>1
    <3> QED BY <1>3, <1>5, <1>7, <2>1, <3>1
  <2>2. CASE ~(k <= left)
    BY <1>3, <1>7, <2>2
  <2> QED BY <2>1, <2>2
<1>9. \A j, k \in 1 .. Len(pts) : j <= k => p2[j].lim <= p2[k].lim
  <2> SUFFICES ASSUME NEW j \in 1 .. Len(pts), NEW k \in 1 .. Len(pts), j <= k
               PROVE  p2[j].lim <= p2[k].lim
    OBVIOUS
  <2>1. CASE k <= left
    <3>1. j <= left
      BY <1>4, <2>1
    <3>2. pts[j].lim <= pts[k].lim
      BY DEF PointsFit
    <3> QED BY <1>7, <2>1, <3>1, <3>2
  <2>2. CASE ~(k <= left)
    BY <1>7, <1>8, <2>2
  <2> QED BY <2>1, <2>2
<1>10. ASSUME NEW d \in 1 .. Len(ded2), NEW k \in Nat, n <= k PROVE Explained(st, ded2[d], k)
  <2>1. Explained(st, ded2[d], n)
    BY <1>3
  <2>2. \A j \in 1 .. n : j <= Len(st) => j <= Len(st) /\ st[j] = st[j]
    OBVIOUS
  <2> QED BY <1>2, <1>10, <2>1, <2>2, ExplainedBefore
<1>11. ASSUME NEW i \in AtomsUpTo(st, e), NEW d \in 1 .. p2[Count(st, i)].lim
       PROVE  Explained(st, ded2[d], i - 1)
  <2>1. /\ i \in Nat /\ i > 0 /\ i - 1 \in Nat /\ Count(st, i) \in 1 .. Count(st, e)
        /\ i <= n => Count(st, i) \in 1 .. Count(st, n)
        /\ n < i => Count(st, n) < Count(st, i)
    BY <1>2, AtomNumber
  <2>2. Count(st, i) \in 1 .. Len(pts)
    BY <1>4, <2>1
  <2>3. d \in 1 .. Len(ded2)
    <3>1. p2[Count(st, i)].lim \in Nat /\ p2[Count(st, i)].lim <= Len(ded2)
      BY <1>8, <2>2
    <3>2. Len(ded2) \in Nat
      BY <1>3
    <3> QED BY <3>1, <3>2
  <2>4. CASE i <= n
    <3>1. p2[Count(st, i)] = pts[Count(st, i)]
      BY <1>7, <2>1, <2>2, <2>4
    <3>2. Explained(st, ded[d], i - 1)
      BY <1>1, <3>1 DEF PointsFit
    <3> QED BY <1>3, <2>3, <3>2
  <2>5. CASE n < i
    <3>1. n <= i - 1
      BY <1>2, <2>1, <2>5
    <3> QED BY <1>10, <2>1, <2>3, <3>1
  <2>6. i <= n \/ n < i
    BY <1>2, <2>1
  <2> QED BY <2>4, <2>5, <2>6
<1> QED
  BY <1>1, <1>2, <1>3, <1>4, <1>8, <1>9, <1>10, <1>11 DEF PointsFit

-----------------------------------------------------------------------------
\* The theory solvers know the atoms of their stack.
StackKnown ==
  \A i \in 1 .. Len(stack) : var(stack[i]) \in TheoryVar <=> var(stack[i]) \in declared

\* What holds of the theory solvers apart from the trail.
TheoryHolds ==
  /\ stack \in Seq(Lit) /\ PointsFit(stack, points, th_deductions) /\ deductions_next \in Nat

\* THandler::backtrack counts the points of the atoms above n.
LEMMA PointsAboveCounts ==
  ASSUME TheoryHolds, StackKnown, NEW n \in Nat, NEW e, e = (IF n < Len(stack) THEN n ELSE Len(stack))
  PROVE  Len(points) - PointsAbove(n) = Count(stack, e)
<1>1. PICK s : s = stack
  OBVIOUS
<1>2. PICK k \in Nat : k = Len(s)
  BY <1>1 DEF TheoryHolds
<1>3. e \in Nat /\ e <= k
  BY <1>1, <1>2
<1> DEFINE A == {i \in n + 1 .. k : var(s[i]) \in TheoryVar}
<1>4. PointsAbove(n) = Cardinality(A)
  <2>1. \A i \in n + 1 .. k : var(s[i]) \in TheoryVar <=> var(s[i]) \in declared
    BY <1>1, <1>2 DEF StackKnown
  <2>2. {i \in n + 1 .. Len(stack) : var(stack[i]) \in declared} = A
    BY <1>1, <1>2, <2>1
  <2> QED BY <2>2 DEF PointsAbove
<1>5. AtomsUpTo(s, k) = AtomsUpTo(s, e) \cup A /\ AtomsUpTo(s, e) \cap A = {}
  BY <1>1, <1>2, <1>3 DEF AtomsUpTo
<1>6. IsFiniteSet(AtomsUpTo(s, e)) /\ IsFiniteSet(AtomsUpTo(s, k))
  BY <1>2, <1>3, CountNat
<1>7. A \in SUBSET AtomsUpTo(s, k)
  BY <1>5
<1> HIDE DEF A
<1>8. IsFiniteSet(A) /\ Cardinality(A) \in Nat
  BY <1>6, <1>7, FS_Subset, FS_CardinalityType
<1>9. Cardinality(AtomsUpTo(s, e) \cup A) =
        Cardinality(AtomsUpTo(s, e)) + Cardinality(A) - Cardinality(AtomsUpTo(s, e) \cap A)
  BY <1>6, <1>8, FS_Union
<1>10. Cardinality(AtomsUpTo(s, e) \cap A) = 0
  BY <1>5, FS_EmptySet
<1>11. Len(points) = Count(s, k)
  BY <1>1, <1>2 DEF TheoryHolds, PointsFit
<1>12. Count(s, e) \in Nat
  BY <1>3, CountNat
<1>13. Count(s, k) = Count(s, e) + Cardinality(A)
  BY <1>5, <1>8, <1>9, <1>10, <1>12 DEF Count
<1> QED
  BY <1>1, <1>4, <1>8, <1>11, <1>12, <1>13

\* THandler::backtrack leaves a state of the theory that fits its shorter stack.
LEMMA BacktrackKeeps ==
  ASSUME TheoryHolds, StackKnown, NEW n \in Nat, Backtrack(n)
  PROVE  /\ TheoryHolds' /\ StackFits(stack', stack)
         /\ Len(stack') = (IF n < Len(stack) THEN n ELSE Len(stack))
         /\ declared' = declared /\ StackKnown'
         /\ Len(th_deductions') <= Len(th_deductions)
         /\ \A d \in 1 .. Len(th_deductions') : th_deductions'[d] = th_deductions[d]
<1>1. PICK e : e = (IF n < Len(stack) THEN n ELSE Len(stack))
  OBVIOUS
<1>2. PICK left : left = Len(points) - PointsAbove(n)
  OBVIOUS
<1>3. left = Count(stack, e)
  BY <1>1, <1>2, PointsAboveCounts
<1>4. stack \in Seq(Lit) /\ Len(stack) \in Nat /\ e \in Nat /\ e <= Len(stack)
  BY <1>1 DEF TheoryHolds
<1>5. stack' = SubSeq(stack, 1, e) /\ PopTo(left) /\ declared' = declared
  BY <1>1, <1>2 DEF Backtrack
<1>6. stack' \in Seq(Lit) /\ Len(stack') = e /\ \A j \in 1 .. e : stack'[j] = stack[j]
  BY <1>4, <1>5, Prefix
<1>7. StackFits(stack', stack)
  BY <1>4, <1>6 DEF StackFits
<1>8. points' = SubSeq(points, 1, left) /\ th_deductions' = Kept(points, th_deductions, left)
  BY <1>5 DEF PopTo, Kept
<1>9. PointsFit(stack, points, th_deductions) /\ left = Count(stack, Len(stack'))
  BY <1>3, <1>6 DEF TheoryHolds
<1>10. PointsFit(stack', points', th_deductions')
  BY <1>4, <1>7, <1>8, <1>9, PopKeepsPoints
<1>11. /\ left # Len(points) => left + 1 \in 1 .. Len(points)
       /\ Len(th_deductions') <= Len(th_deductions)
       /\ \A d \in 1 .. Len(th_deductions') : th_deductions'[d] = th_deductions[d]
  <2>1. e \in 0 .. Len(stack)
    BY <1>4
  <2>2. PICK d2 : d2 = th_deductions'
    OBVIOUS
  <2>3. d2 = Kept(points, th_deductions, left)
    BY <1>8, <2>2
  <2>4. /\ left # Len(points) => left + 1 \in 1 .. Len(points)
        /\ Len(d2) <= Len(th_deductions)
        /\ \A d \in 1 .. Len(d2) : d2[d] = th_deductions[d]
    <3>1. Popped(stack, points, th_deductions, e, left, d2)
      BY <1>3, <1>4, <1>9, <2>1, <2>3, PopFacts
    <3> QED BY <3>1 DEF Popped
  <2> QED BY <2>2, <2>4
<1>12. deductions_next' \in Nat
  <2>1. CASE left = Len(points)
    BY <1>5, <2>1 DEF PopTo, TheoryHolds
  <2>2. CASE left # Len(points)
    <3>1. deductions_next' = points[left + 1].last
      BY <1>5, <2>2 DEF PopTo
    <3>2. points \in Seq(Point) /\ left + 1 \in 1 .. Len(points)
      BY <1>9, <1>11, <2>2 DEF PointsFit
    <3>3. points[left + 1].last \in Nat
      BY <3>2, PointsElements
    <3> QED BY <3>1, <3>3
  <2> QED BY <2>1, <2>2
<1>13. StackKnown'
  BY <1>4, <1>5, <1>6 DEF StackKnown
<1> QED
  BY <1>1, <1>5, <1>6, <1>7, <1>10, <1>11, <1>12, <1>13 DEF TheoryHolds

\* Undoing a part of the stack and asserting it again loses deductions and nothing else.
LEMMA ReassertKeeps ==
  ASSUME TheoryHolds, StackKnown, NEW n \in Nat, Reassert(n)
  PROVE  /\ TheoryHolds' /\ stack' = stack /\ declared' = declared
         /\ Len(th_deductions') <= Len(th_deductions)
         /\ \A d \in 1 .. Len(th_deductions') : th_deductions'[d] = th_deductions[d]
<1>1. PICK e : e = (IF n < Len(stack) THEN n ELSE Len(stack))
  OBVIOUS
<1>2. PICK left : left = Len(points) - PointsAbove(n)
  OBVIOUS
<1>3. left = Count(stack, e)
  BY <1>1, <1>2, PointsAboveCounts
<1>4. stack \in Seq(Lit) /\ Len(stack) \in Nat /\ e \in 0 .. Len(stack)
  BY <1>1 DEF TheoryHolds
<1>5. PointsFit(stack, points, th_deductions)
  BY DEF TheoryHolds
<1>6. PICK ded : ded = Kept(points, th_deductions, left)
  OBVIOUS
<1>7. PICK next : next = IF left = Len(points) THEN deductions_next ELSE points[left + 1].last
  OBVIOUS
<1>8. PICK x : x = [lim |-> Len(ded), last |-> next]
  OBVIOUS
<1>9. /\ points' = [i \in 1 .. Len(points) |-> IF i <= left THEN points[i] ELSE x]
      /\ th_deductions' = ded /\ deductions_next' = next /\ stack' = stack /\ declared' = declared
  BY <1>2, <1>6, <1>7, <1>8 DEF Reassert, Kept
<1>10. /\ left # Len(points) => left + 1 \in 1 .. Len(points)
       /\ ded \in Seq(Lit) /\ Len(ded) <= Len(th_deductions)
       /\ \A d \in 1 .. Len(ded) : ded[d] = th_deductions[d]
  <2>1. Popped(stack, points, th_deductions, e, left, ded)
    BY <1>3, <1>4, <1>5, <1>6, PopFacts
  <2> QED BY <2>1 DEF Popped
<1>11. next \in Nat
  <2>1. CASE left = Len(points)
    BY <1>7, <2>1 DEF TheoryHolds
  <2>2. CASE left # Len(points)
    <3>1. points \in Seq(Point) /\ left + 1 \in 1 .. Len(points)
      BY <1>5, <1>10, <2>2 DEF PointsFit
    <3> QED BY <1>7, <2>2, <3>1, PointsElements
  <2> QED BY <2>1, <2>2
<1>12. x \in Point /\ x.lim = Len(ded)
  BY <1>8, <1>10, <1>11 DEF Point
<1>13. PointsFit(stack, points', ded)
  <2>1. PICK h \in Nat : h = Len(points)
    BY <1>5, PointsElements DEF PointsFit
  <2>2. left \in Nat
    BY <1>3, <1>4, CountNat
  <2>3. PICK p2 : p2 = points'
    OBVIOUS
  <2>4. \A k \in 1 .. h : points[k] \in Point
    BY <1>5, <2>1, PointsElements DEF PointsFit
  <2>5. p2 \in [1 .. h -> Point]
    BY <1>9, <1>12, <2>1, <2>3, <2>4
  <2>6. p2 \in Seq(Point) /\ Len(p2) = Len(points)
    BY <2>1, <2>5, FunctionIsSeq
  <2>7. /\ \A k \in 1 .. Len(points) : p2[k] = points[k] \/ k > left
        /\ \A k \in 1 .. Len(points) : p2[k] = x \/ k <= left
    BY <1>9, <2>1, <2>2, <2>3
  <2> QED BY <1>3, <1>4, <1>5, <1>6, <1>12, <2>3, <2>6, <2>7, ReassertKeepsPoints
<1> QED
  BY <1>4, <1>9, <1>10, <1>11, <1>13 DEF TheoryHolds

\* What assertLit of l deduces is a sequence of literals that the longer stack explains.
LEMMA DeductionFacts ==
  ASSUME TheoryHolds, StackKnown, NEW l \in Lit, var(l) \in TheoryVar <=> var(l) \in declared,
         NEW ded \in Deductions(l), NEW st \in Seq(Lit), Len(st) = Len(stack) + 1,
         st[Len(stack) + 1] = l, \A i \in 1 .. Len(stack) : st[i] = stack[i]
  PROVE  /\ ded \in Seq(Lit)
         /\ \A d \in 1 .. Len(ded) : Explained(st, ded[d], Len(st)) /\ var(ded[d]) \in declared
<1>1. PICK from : from = IF var(l) \in declared THEN Deducible(l) ELSE {}
  OBVIOUS
<1>2. from \subseteq Lit /\ from \subseteq Deducible(l)
  BY <1>1 DEF Deducible
<1>3. IsFiniteSet(from)
  BY <1>2, LitFinite
<1>4. PICK g \in Nat : g = Cardinality(from)
  BY <1>3, FS_CardinalityType
<1>5. PICK n \in 0 .. g : ded \in [1 .. n -> from]
  BY <1>1, <1>4 DEF Deductions
<1>6. ded \in Seq(from)
  BY <1>5, FunctionIsSeq
<1>7. ded \in Seq(Lit)
  <2>1. ded \in [1 .. n -> Lit]
    BY <1>2, <1>5
  <2> QED BY <2>1, FunctionIsSeq
<1>8. ASSUME NEW d \in 1 .. Len(ded) PROVE Explained(st, ded[d], Len(st)) /\ var(ded[d]) \in declared
  <2>1. PICK k : k = ded[d]
    OBVIOUS
  <2>2. k \in Deducible(l)
    BY <1>2, <1>6, <2>1
  <2>3. PICK t \in TheoryConflict : -k \in t /\ t \ {-k} \subseteq Told(Len(stack)) \cup {l}
    BY <2>2 DEF Deducible
  <2>4. PICK e \in Nat : e = Len(stack)
    BY DEF TheoryHolds
  <2>5. ASSUME NEW q \in t \ {-k} PROVE \E j \in 1 .. e + 1 : j <= Len(st) /\ st[j] = q
    <3>1. CASE q = l
      <4>1. e + 1 \in 1 .. e + 1 /\ e + 1 <= Len(st) /\ st[e + 1] = q
        BY <2>4, <3>1
      <4> QED BY <4>1
    <3>2. CASE q \in Told(e)
      <4>1. PICK j \in 1 .. e : stack[j] = q
        BY <3>2 DEF Told
      <4>2. j \in 1 .. e + 1 /\ j <= Len(st) /\ st[j] = q
        BY <2>4, <4>1
      <4> QED BY <4>2
    <3> QED BY <2>3, <2>4, <3>1, <3>2
  <2>6. Explained(st, k, Len(st))
    BY <2>3, <2>4, <2>5 DEF Explained
  <2> QED BY <2>1, <2>2, <2>6 DEF Deducible
<1> QED
  BY <1>7, <1>8

\* assertLit of a literal whose atom is known if it is one of the theory.
LEMMA AssertKeeps ==
  ASSUME TheoryHolds, StackKnown, NEW l \in Lit, var(l) \in TheoryVar <=> var(l) \in declared,
         AssertLit(l)
  PROVE  /\ TheoryHolds' /\ StackKnown' /\ StackFits(stack, stack')
         /\ \A d \in 1 .. Len(th_deductions') :
              \/ d \in 1 .. Len(th_deductions) /\ th_deductions'[d] = th_deductions[d]
              \/ var(th_deductions'[d]) \in declared
<1>1. PICK x : x = LimPoint
  OBVIOUS
<1>2. stack \in Seq(Lit) /\ PointsFit(stack, points, th_deductions) /\ Len(th_deductions) \in Nat
      /\ th_deductions \in Seq(Lit)
  BY DEF TheoryHolds, PointsFit
<1>3. x \in Point /\ x.lim = Len(th_deductions)
  BY <1>1, <1>2 DEF LimPoint, Point, TheoryHolds
<1>4. points' = IF var(l) \in TheoryVar THEN Append(points, x) ELSE points
  BY <1>1 DEF AssertLit
<1>5. stack' = Append(stack, l)
  BY DEF AssertLit
<1>6. PointsFit(stack', points', th_deductions)
  BY <1>2, <1>3, <1>4, <1>5, AssertKeepsPoints
<1>7. /\ stack' \in Seq(Lit) /\ Len(stack') = Len(stack) + 1
      /\ \A i \in 1 .. Len(stack) : stack'[i] = stack[i]
      /\ stack'[Len(stack) + 1] = l
  BY <1>2, <1>5, AppendParts
<1>7a. PICK ded \in Deductions(l) : th_deductions' = th_deductions \o ded
  BY DEF AssertLit
<1>7b. PICK st \in Seq(Lit) : st = stack'
  BY <1>7
<1>7c. Len(st) = Len(stack) + 1 /\ st[Len(stack) + 1] = l /\ \A i \in 1 .. Len(stack) : st[i] = stack[i]
  BY <1>7, <1>7b
<1>7d. ded \in Seq(Lit) /\ \A d \in 1 .. Len(ded) : Explained(st, ded[d], Len(st)) /\ var(ded[d]) \in declared
  BY <1>7c, DeductionFacts
<1>7e. PointsFit(st, points', th_deductions \o ded)
  <2>1. PICK pts : pts = points'
    OBVIOUS
  <2>2. PointsFit(st, pts, th_deductions)
    BY <1>6, <1>7b, <2>1
  <2> QED BY <1>7d, <2>1, <2>2, DeduceKeepsPoints
<1>8. TheoryHolds'
  BY <1>7, <1>7a, <1>7b, <1>7e DEF AssertLit, TheoryHolds
<1>9. StackKnown'
  <2>1. declared' = declared
    BY DEF AssertLit
  <2>2. PICK e \in Nat : e = Len(stack)
    BY <1>2
  <2>3. \A i \in 1 .. e + 1 : i \in 1 .. e \/ i = e + 1
    OBVIOUS
  <2> QED BY <1>7, <2>1, <2>2, <2>3 DEF StackKnown
<1>10. StackFits(stack, stack')
  BY <1>2, <1>7 DEF StackFits
<1>11. ASSUME NEW d \in 1 .. Len(th_deductions')
       PROVE  \/ d \in 1 .. Len(th_deductions) /\ th_deductions'[d] = th_deductions[d]
              \/ var(th_deductions'[d]) \in declared
  <2>1. PICK h \in Nat, g \in Nat : h = Len(th_deductions) /\ g = Len(ded)
    BY <1>2, <1>7d
  <2>2. Len(th_deductions') = h + g /\ (\A j \in 1 .. h : th_deductions'[j] = th_deductions[j])
        /\ \A j \in h + 1 .. h + g : th_deductions'[j] = ded[j - h]
    BY <1>2, <1>7a, <1>7d, <2>1, ConcatParts
  <2>3. CASE d \in 1 .. h
    BY <2>1, <2>2, <2>3
  <2>4. CASE d \notin 1 .. h
    <3>1. d \in h + 1 .. h + g /\ d - h \in 1 .. g
      BY <2>2, <2>4
    <3> QED BY <1>7d, <2>1, <2>2, <3>1
  <2> QED BY <2>3, <2>4
<1> QED
  BY <1>8, <1>9, <1>10, <1>11

-----------------------------------------------------------------------------
\* Resolution of two clauses on the literal q.
LEMMA Resolve ==
  ASSUME NEW M \in SUBSET TheoryModel, NEW A, NEW r, NEW q \in Lit,
         Implied(A, M), Implied(r, M)
  PROVE  Implied((A \ {-q}) \cup (r \ {q}), M)
<1> SUFFICES ASSUME NEW m \in M PROVE ((A \ {-q}) \cup (r \ {q})) \cap m # {}
  BY DEF Implied
<1>1. q \in m <=> -q \notin m
  BY ModelFacts
<1>2. A \cap m # {} /\ r \cap m # {}
  BY DEF Implied
<1> QED
  BY <1>1, <1>2

\* A literal that is false at level zero can be left out of a clause.
LEMMA DropZero ==
  ASSUME NEW t \in Seq(Lit), NEW lev, NEW M \in SUBSET TheoryModel, NEW A \in SUBSET Lit, NEW B,
         Zero(t, lev, M), Implied(A, M),
         \A l \in A : l \in B \/ \E j \in 1 .. Len(t) : t[j] = -l /\ lev[var(t[j])] = 0
  PROVE  Implied(B, M)
<1> SUFFICES ASSUME NEW m \in M PROVE B \cap m # {}
  BY DEF Implied
<1>1. \A l \in Lit : l \in m <=> -l \notin m
  BY ModelFacts
<1>2. PICK l \in A : l \in m
  BY DEF Implied
<1>3. CASE l \in B
  BY <1>2, <1>3
<1>4. CASE \E j \in 1 .. Len(t) : t[j] = -l /\ lev[var(t[j])] = 0
  <2>1. -l \in m
    BY <1>4 DEF Zero
  <2> QED BY <1>1, <1>2, <2>1
<1> QED
  BY <1>3, <1>4

\* The position at which a literal became false.
LEMMA LastSeenOne ==
  ASSUME trail \in Seq(Lit), Distinct(trail), NEW l \in Lit, NEW j \in 1 .. Len(trail), trail[j] = -l
  PROVE  LastSeen({l}) = j
<1>1. -trail[j] \in {l}
  BY LitFacts
<1>2. LastSeen({l}) \in 1 .. Len(trail) /\ -trail[LastSeen({l})] \in {l}
  BY <1>1, LastSeenFacts
<1>3. PICK k \in 1 .. Len(trail) : k = LastSeen({l})
  BY <1>2
<1>4. -trail[k] = -trail[j] /\ trail[k] \in Lit /\ trail[j] \in Lit
  BY <1>1, <1>2, <1>3
<1>5. trail[k] = trail[j]
  BY <1>4, LitFacts
<1> QED
  BY <1>3, <1>5 DEF Distinct

\* Minimization: what CoreSMTSolver::litRedundant removes from the learnt clause
\* follows from the rest of it.
LEMMA MinimizedImplied ==
  ASSUME NEW M \in SUBSET TheoryModel, trail \in Seq(Lit), Distinct(trail), Zero(trail, level, M),
         Justified(trail, reason, M), seen \in SUBSET Lit,
         \A l \in seen : FalseBefore(trail, Len(trail), l), Implied(seen \cup {-p}, M)
  PROVE  Implied(Minimized \cup {-p}, M)
<1> SUFFICES ASSUME NEW m \in M, (Minimized \cup {-p}) \cap m = {} PROVE FALSE
  BY DEF Implied
<1>1. \A l \in Lit : l \in m <=> -l \notin m
  BY ModelFacts
<1> DEFINE Bad == {j \in 1 .. Len(trail) : /\ -trail[j] \in m
                                           /\ \E R \in SUBSET (1 .. Len(trail)) : j \in R /\ Closed(R)}
<1>2. ASSUME NEW k \in Lit, k \in m, NEW j \in 1 .. Len(trail), trail[j] = -k,
             NEW R \in SUBSET (1 .. Len(trail)), LastSeen({k}) \in R, Closed(R)
      PROVE  j \in Bad
  <2>1. LastSeen({k}) = j
    BY <1>2, LastSeenOne
  <2>2. -trail[j] = k
    BY <1>2, LitFacts
  <2> QED BY <1>2, <2>1, <2>2
<1>3. ASSUME NEW k \in seen, k \in m, NEW j \in 1 .. Len(trail), trail[j] = -k PROVE j \in Bad
  <2>1. litRedundant(k)
    BY <1>3 DEF Minimized
  <2>2. PICK R \in SUBSET (1 .. Len(trail)) : LastSeen({k}) \in R /\ Closed(R)
    BY <2>1 DEF litRedundant
  <2> QED BY <1>2, <1>3, <2>2
<1>4. Bad # {}
  <2>1. PICK k \in seen : k \in m
    BY DEF Implied
  <2>2. PICK j \in 1 .. Len(trail) : trail[j] = -k
    BY DEF FalseBefore
  <2> QED BY <1>3, <2>1, <2>2
<1>5. Bad \in SUBSET Nat
  OBVIOUS
<1>6. PICK j \in Bad : \A i \in Bad : j <= i
  <2> HIDE DEF Bad
  <2> QED BY <1>4, <1>5, LeastNat
<1>7. j \in 1 .. Len(trail) /\ -trail[j] \in m
  OBVIOUS
<1>8. PICK R \in SUBSET (1 .. Len(trail)) : j \in R /\ Closed(R)
  OBVIOUS
<1>9. PICK r : r = reason[var(trail[j])]
  OBVIOUS
<1>10. /\ r \notin {CRef_Undef, CRef_Fake}
       /\ \A l \in r \ {trail[j]} : level[var(l)] = 0 \/ l \in seen \/ LastSeen({l}) \in R
  BY <1>8, <1>9 DEF Closed
<1>11. Justifies(r, trail, j - 1, trail[j], M)
  BY <1>7, <1>9, <1>10 DEF Justified
<1>12. trail[j] \in Lit /\ trail[j] \notin m
  BY <1>1, <1>7
<1>13. PICK k \in r : k \in m /\ k # trail[j] /\ k \in Lit
  BY <1>11, <1>12 DEF Justifies, Implied
<1>14. PICK i \in 1 .. j - 1 : trail[i] = -k
  BY <1>11, <1>13 DEF Justifies, FalseBefore
<1>15. i \in 1 .. Len(trail) /\ i < j
  BY <1>7, <1>14
<1>16. CASE level[var(k)] = 0
  <2>1. var(trail[i]) = var(k)
    BY <1>13, <1>14, LitFacts
  <2>2. -k \in m
    BY <1>14, <1>15, <1>16, <2>1 DEF Zero
  <2> QED BY <1>1, <1>13, <2>2
<1>17. CASE k \in seen
  <2>1. i \in Bad
    BY <1>3, <1>13, <1>14, <1>15, <1>17
  <2> HIDE DEF Bad
  <2> QED BY <1>6, <1>5, <1>15, <2>1
<1>18. CASE LastSeen({k}) \in R
  <2>1. i \in Bad
    BY <1>2, <1>8, <1>13, <1>14, <1>15, <1>18
  <2> HIDE DEF Bad
  <2> QED BY <1>6, <1>5, <1>15, <2>1
<1> QED
  BY <1>10, <1>13, <1>16, <1>17, <1>18

\* A literal that became false at a level that is kept is still false.
LEMMA FalseAfterCut ==
  ASSUME NEW t, NEW lim, NEW lev, NEW u, NEW w, NEW l,
         TrailFits(t, lim, lev), Cut(u, w, t, lim),
         Len(u) = IF Len(w) < Len(lim) THEN lim[Len(w) + 1] ELSE Len(t),
         NEW j \in 1 .. Len(t), t[j] = -l, lev[var(t[j])] <= Len(w)
  PROVE  FalseBefore(u, Len(u), l)
<1>1. Len(u) \in Nat /\ Len(t) \in Nat /\ Len(w) \in Nat /\ Len(lim) \in Nat
  BY DEF TrailFits, Lims, Cut, StackFits
<1>2. lev[var(t[j])] \in Nat
  BY LitFacts DEF TrailFits, Levels
<1>3. j <= Len(u)
  <2>1. CASE Len(w) < Len(lim)
    <3>1. PICK k \in 1 .. Len(lim) : k = Len(w) + 1
      BY <1>1, <2>1
    <3>2. ~(k <= lev[var(t[j])])
      BY <1>1, <1>2, <3>1
    <3>3. ~(lim[k] < j) /\ lim[k] \in Nat
      BY <3>2 DEF TrailFits, Levels, Lims
    <3> QED BY <2>1, <3>1, <3>3
  <2>2. CASE ~(Len(w) < Len(lim))
    BY <2>2
  <2> QED BY <2>1, <2>2
<1>4. j \in 1 .. Len(u) /\ u[j] = t[j]
  BY <1>1, <1>3 DEF Cut, StackFits
<1> QED
  BY <1>4 DEF FalseBefore

-----------------------------------------------------------------------------
\* No search is under way.
Outside == pc = "idle" \/ after = "add"

\* The theory atoms of a clause.
AtomsIn(c) == {v \in TheoryVar : v \in Vars(c)}

\* The atoms that the clauses and level zero mention.
Mentioned ==
  {v \in Var : \/ \E i \in 1 .. Len(trail) : var(trail[i]) = v /\ level[v] = 0
               \/ \E c \in clauses : v \in Vars(c)}

\* Where the solver is: outside a search nothing is decided and the theory has been told
\* nothing, and the data of a phase is empty in the others.
PhaseInv ==
  /\ pc \in {"idle", "propagate", "conflict", "consistent", "analyze", "learn", "loop",
             "checkTheory", "deduce", "split", "decide", "final"}
  /\ after = "add" => pc \in {"idle", "propagate", "conflict"}
  /\ Outside => trail_lim = <<>> /\ stack = <<>>
  /\ visit # {} => pc = "propagate"
  /\ pc # "split" => splits = <<>> /\ propData = <<>>

\* The trail fits its limits, levels and reasons; level zero follows from what was given.
TrailInv == TrailHolds(trail, trail_lim, level, reason, assumptions, GivenModel, stack)

\* The theory has been told a prefix of the trail, and its backtrack points fit it.
TheoryInv == TheoryHolds /\ StackFits(stack, trail)

\* Every clause kept follows from what was given, and watches two of its literals.
ClauseInv ==
  /\ given \subseteq SUBSET Lit
  /\ DOMAIN watched = clauses \cup learnts
  /\ \A c \in clauses \cup learnts : c \subseteq Lit /\ Implied(c, GivenModel)
  /\ \A c \in clauses \cup learnts :
       watched[c] \in Seq(c) /\ Len(watched[c]) = 2

\* The levels below the current one have been propagated, so a clause that propagate finds
\* falsified has a literal of the current level; nothing is left to propagate when the
\* theory is called.
QueueInv ==
  /\ qhead \in 0 .. Len(trail)
  /\ decisionLevel > 0 => trail_lim[decisionLevel] <= qhead
  /\ visit \subseteq DOMAIN watched
  /\ visit # {} => qhead > 0 /\ (decisionLevel > 0 => trail_lim[decisionLevel] < qhead)
  /\ \A c \in visit : watched[c][1] = -trail[qhead] \/ watched[c][2] = -trail[qhead]
  /\ \/ pc \in {"consistent", "decide"}
     \/ pc = "checkTheory" /\ after # "start"
     \/ pc = "deduce" /\ after # "start" /\ Len(stack) = Len(trail)
     \/ pc = "split" /\ after # "propagate"
     => qhead = Len(trail)
  /\ pc = "split" /\ after # "propagate" => propData = <<>>

\* The theory solvers know the atoms of the trail and of all clauses while they search;
\* between searches the learnt clauses mention no atom that the next call would not declare.
KnownInv ==
  /\ declared \subseteq TheoryVar
  /\ Outside => \A c \in learnts : AtomsIn(c) \subseteq Mentioned
  /\ ~Outside =>
       /\ \A i \in 1 .. Len(trail) : var(trail[i]) \in TheoryVar => var(trail[i]) \in declared
       /\ \A c \in clauses \cup learnts : AtomsIn(c) \subseteq declared
       /\ decision \cap TheoryVar \subseteq declared
       /\ \A d \in 1 .. Len(th_deductions) : var(th_deductions[d]) \in declared
       /\ \A k \in 1 .. Len(splits) : AtomsIn(splits[k]) \subseteq declared
       /\ \A v \in declared : v \in Mentioned \/ \E k \in 1 .. Len(splits) : v \in Vars(splits[k])

\* The lemmas that wait to be handled, and the literals that wait to be enqueued.
SplitInv ==
  /\ splits \in Seq(SplitClause)
  /\ propData \in Seq(Lit \X SUBSET Lit)
  /\ \A k \in 1 .. Len(propData) :
       /\ Justifies(propData[k][2], trail, Len(trail), propData[k][1], GivenModel)
       /\ AtomsIn(propData[k][2]) \subseteq declared

\* Every literal of c is false; one of them has the current level.
AllFalse(c) == \A l \in c : FalseBefore(trail, Len(trail), l)
AtCurrentLevel(c) == \E l \in c : level[var(l)] = decisionLevel

\* The clause analyze works on is implied and false, and one literal of it is of the current
\* level: resolving it with reasons ends at a clause that asserts one literal.
AnalyzeInv ==
  /\ pc = "conflict" =>
       /\ confl \subseteq Lit /\ Implied(confl, GivenModel) /\ AllFalse(confl)
       /\ decisionLevel > 0 => AtCurrentLevel(confl)
  /\ pc = "analyze" =>
       /\ decisionLevel > 0
       /\ confl \subseteq Lit /\ Implied(confl, GivenModel) /\ seen \subseteq Lit
       /\ Implied(seen \cup (confl \ {p}), GivenModel)
       /\ AllFalse(seen \cup (confl \ {p})) /\ AtCurrentLevel(seen \cup (confl \ {p}))
       /\ \A l \in seen : level[var(l)] > 0
  /\ pc = "learn" =>
       /\ decisionLevel > 0 /\ p \in Lit /\ seen \subseteq Lit
       /\ Implied(seen \cup {-p}, GivenModel) /\ AllFalse(seen)
       /\ \A l \in seen : level[var(l)] > 0 /\ level[var(l)] < decisionLevel
       /\ \A i \in 1 .. Len(trail) : var(trail[i]) = var(p) => trail_lim[decisionLevel] < i
       /\ var(p) \in TheoryVar => var(p) \in declared

\* analyzeFinal: a model that agrees with the assumptions has a marked literal.
FinalInv ==
  pc = "final" =>
    /\ decisionLevel < Len(assumptions)
    /\ seen \subseteq Lit /\ AllFalse(seen) /\ conflict \subseteq Lit
    /\ \A m \in GivenModel : Range(assumptions) \subseteq m => seen \cap m # {}

\* The answer unsat is right, and stays right until it is withdrawn.
AnswerInv ==
  /\ assumptions \in Seq({l \in Lit : var(l) \notin TheoryVar})
  /\ decision \subseteq Var
  /\ ~ok /\ conflict_frame = 0 => GivenModel = {}
  /\ UnsatCorrect

\* The inductive invariant.
SearchInv ==
  /\ PhaseInv /\ TrailInv /\ TheoryInv /\ ClauseInv /\ QueueInv /\ KnownInv /\ SplitInv
  /\ AnalyzeInv /\ FinalInv /\ AnswerInv

-----------------------------------------------------------------------------
\* What steps that leave a part of the state alone keep.
LEMMA GivenFacts ==
  /\ GivenModel \in SUBSET TheoryModel
  /\ \A c \in given : Implied(c, GivenModel)
  /\ given' = given => GivenModel' = GivenModel
BY DEF GivenModel, Implied

\* The trail.
LEMMA TrailSame ==
  ASSUME TrailInv, UNCHANGED <<given, trail, trail_lim, level, reason, assumptions, stack>>
  PROVE  TrailInv'
BY GivenFacts DEF TrailInv

\* The theory solvers.
LEMMA TheorySame ==
  ASSUME TheoryInv, UNCHANGED <<stack, points, th_deductions, trail>>, deductions_next' \in Nat
  PROVE  TheoryInv'
BY DEF TheoryInv, TheoryHolds

\* The clauses.
LEMMA ClauseSame ==
  ASSUME ClauseInv, UNCHANGED clauseVars
  PROVE  ClauseInv'
BY GivenFacts DEF ClauseInv, clauseVars

\* The answer and what it rests on.
LEMMA AnswerSame ==
  ASSUME AnswerInv, UNCHANGED <<given, assumptions, decision, ok, conflict_frame, answer>>
  PROVE  AnswerInv'
BY GivenFacts DEF AnswerInv, UnsatCorrect

\* No lemma waits to be handled.
LEMMA NoSplits ==
  ASSUME splits' = <<>>, propData' = <<>>
  PROVE  SplitInv'
BY DEF SplitInv

\* The lemmas that wait to be handled.
LEMMA SplitSame ==
  ASSUME SplitInv, UNCHANGED <<given, trail, declared, splits, propData>>
  PROVE  SplitInv'
BY GivenFacts DEF SplitInv

\* The atoms the theory solvers know.
LEMMA KnownSame ==
  ASSUME KnownInv, Outside' <=> Outside,
         UNCHANGED <<trail, level, clauses, learnts, declared, decision, th_deductions, splits>>
  PROVE  KnownInv'
BY DEF KnownInv, Mentioned

\* The values of literals, as positions of the trail.
LEMMA ValueFacts ==
  ASSUME trail \in Seq(Lit)
  PROVE  /\ \A l : True(l) <=> \E j \in 1 .. Len(trail) : trail[j] = l
         /\ \A l : False(l) <=> FalseBefore(trail, Len(trail), l)
         /\ \A l \in Lit : Unassigned(l) <=> Fresh(trail, l)
<1>1. Range(trail) = {trail[j] : j \in 1 .. Len(trail)}
  BY DEF Range
<1>2. \A l : True(l) <=> \E j \in 1 .. Len(trail) : trail[j] = l
  BY <1>1 DEF True
<1>3. \A l : False(l) <=> FalseBefore(trail, Len(trail), l)
  BY <1>1 DEF False, FalseBefore
<1>4. ASSUME NEW l \in Lit, Unassigned(l) PROVE Fresh(trail, l)
  <2> SUFFICES ASSUME NEW i \in 1 .. Len(trail), var(trail[i]) = var(l) PROVE FALSE
    BY DEF Fresh
  <2>1. trail[i] \in Lit
    OBVIOUS
  <2>2. trail[i] = l \/ trail[i] = -l
    BY <2>1, SameVar
  <2> QED BY <1>2, <1>3, <1>4, <2>2 DEF Unassigned, FalseBefore
<1>5. ASSUME NEW l \in Lit, Fresh(trail, l) PROVE Unassigned(l)
  <2> SUFFICES ASSUME NEW i \in 1 .. Len(trail), trail[i] = l \/ trail[i] = -l PROVE FALSE
    BY <1>2, <1>3 DEF Unassigned, FalseBefore
  <2>1. var(trail[i]) = var(l)
    BY LitFacts
  <2> QED BY <1>5, <2>1 DEF Fresh
<1> QED
  BY <1>2, <1>3, <1>4, <1>5

-----------------------------------------------------------------------------
\* Steps that move on without touching the trail or the theory.
LEMMA PropagateNextKeeps == SearchInv /\ PropagateNext => SearchInv'
<1> SUFFICES ASSUME SearchInv, PropagateNext PROVE SearchInv'
  OBVIOUS
<1> USE DEF SearchInv
<1>1. /\ pc = "propagate" /\ visit = {} /\ qhead < Len(trail) /\ qhead' = qhead + 1
      /\ visit' = {c \in DOMAIN watched : -trail[qhead + 1] \in Range(watched[c])}
      /\ UNCHANGED <<theoryVars, clauseVars, trail, trail_lim, level, reason,
                     resultVars, splitVars, analyzeVars, callVars, pc, after>>
  BY DEF PropagateNext
<1>2. /\ UNCHANGED <<stack, points, th_deductions, deductions_next, declared>>
      /\ UNCHANGED <<given, clauses, learnts, watched, splits, propData, decision, assumptions>>
      /\ UNCHANGED <<ok, conflict_frame, answer, model, conflict, confl, p, seen>>
      /\ UNCHANGED <<trail, trail_lim, level, reason, pc, after>>
  BY <1>1 DEF theoryVars, clauseVars, splitVars, callVars, resultVars, analyzeVars
<1>3. PhaseInv'
  BY <1>1, <1>2 DEF PhaseInv, Outside
<1>4. TrailInv' /\ ClauseInv' /\ AnswerInv'
  BY <1>1, <1>2, TrailSame, ClauseSame, AnswerSame
<1>5. TheoryInv'
  BY <1>2, TheorySame DEF TheoryInv, TheoryHolds
<1>6. SplitInv' /\ KnownInv'
  BY <1>2, SplitSame, KnownSame DEF Outside
<1>7. AnalyzeInv' /\ FinalInv'
  BY <1>1, <1>2 DEF AnalyzeInv, FinalInv
<1>8. QueueInv'
  <2>1. trail \in Seq(Lit) /\ Len(trail) \in Nat /\ qhead \in Nat /\ trail_lim \in Seq(Nat)
    BY DEF TrailInv, TrailHolds, TrailFits, Lims, QueueInv
  <2>2. qhead' \in 0 .. Len(trail') /\ qhead' > 0
    BY <1>1, <1>2, <2>1
  <2>3. decisionLevel' > 0 => trail_lim'[decisionLevel'] < qhead'
    <3> SUFFICES ASSUME Len(trail_lim) > 0 PROVE trail_lim[Len(trail_lim)] < qhead + 1
      BY <1>1, <1>2 DEF decisionLevel
    <3>1. Len(trail_lim) \in 1 .. Len(trail_lim)
      BY <2>1
    <3>2. trail_lim[Len(trail_lim)] \in Nat
      BY <2>1, <3>1
    <3> QED BY <2>1, <3>2 DEF QueueInv, decisionLevel
  <2>4. visit' \subseteq DOMAIN watched'
    BY <1>1, <1>2
  <2>5. ASSUME NEW c \in visit' PROVE watched'[c][1] = -trail'[qhead'] \/ watched'[c][2] = -trail'[qhead']
    <3>1. c \in DOMAIN watched /\ -trail[qhead + 1] \in Range(watched[c])
      BY <1>1
    <3>2. watched[c] \in Seq(c) /\ Len(watched[c]) = 2
      BY <3>1 DEF ClauseInv
    <3>3. PICK k \in DOMAIN watched[c] : watched[c][k] = -trail[qhead + 1]
      BY <3>1 DEF Range
    <3>4. k \in 1 .. 2
      BY <3>2, <3>3
    <3> QED BY <1>1, <1>2, <3>3, <3>4
  <2>6. decisionLevel' > 0 => trail_lim'[decisionLevel'] <= qhead'
    <3>1. decisionLevel' > 0 => trail_lim[Len(trail_lim)] \in Nat
      BY <1>2, <2>1 DEF decisionLevel
    <3> QED BY <1>1, <1>2, <2>1, <2>3, <3>1 DEF decisionLevel
  <2> QED BY <1>1, <1>2, <2>2, <2>3, <2>4, <2>5, <2>6 DEF QueueInv
<1> QED
  BY <1>3, <1>4, <1>5, <1>6, <1>7, <1>8

\* Only where the search is changes.
OnlyPhase ==
  UNCHANGED <<theoryVars, clauseVars, trailVars, visit, resultVars, splitVars, analyzeVars,
              decision, assumptions>>

\* A step that only moves on keeps everything that does not depend on the phase.
LEMMA OnlyPhaseKeeps ==
  ASSUME SearchInv, OnlyPhase, Outside' <=> Outside
  PROVE  TrailInv' /\ TheoryInv' /\ ClauseInv' /\ KnownInv' /\ SplitInv' /\ AnswerInv'
<1> USE DEF SearchInv
<1>2. /\ UNCHANGED <<stack, points, th_deductions, deductions_next, declared>>
      /\ UNCHANGED <<given, clauses, learnts, watched, splits, propData, decision, assumptions>>
      /\ UNCHANGED <<ok, conflict_frame, answer, model, conflict, confl, p, seen>>
      /\ UNCHANGED <<trail, trail_lim, level, reason>>
  BY DEF OnlyPhase, theoryVars, clauseVars, splitVars, resultVars, analyzeVars, trailVars
<1>4. TrailInv' /\ ClauseInv' /\ AnswerInv'
  BY <1>2, TrailSame, ClauseSame, AnswerSame DEF OnlyPhase
<1>5. TheoryInv'
  BY <1>2, TheorySame DEF TheoryInv, TheoryHolds
<1>6. SplitInv' /\ KnownInv'
  BY <1>2, SplitSame, KnownSame
<1> QED
  BY <1>4, <1>5, <1>6

\* Where the search goes from where, when nothing else changes.
Moves ==
  \/ PropagateDone \/ SearchLoop \/ EarlyPruning \/ TheorySat \/ DeduceDone \/ SplitDone
  \/ CompleteCall

\* The steps that move on keep the invariant.
LEMMA MovesKeep == SearchInv /\ Moves => SearchInv'
<1> SUFFICES ASSUME SearchInv, Moves PROVE SearchInv'
  OBVIOUS
<1> USE DEF SearchInv
<1>1. /\ OnlyPhase
      /\ UNCHANGED <<visit, trail, trail_lim, stack, qhead, watched, splits, propData>>
  BY DEF Moves, PropagateDone, SearchLoop, EarlyPruning, TheorySat, DeduceDone, SplitDone, CompleteCall,
         OnlyPhase, callVars, trailVars, theoryVars, clauseVars, splitVars
<1>2. /\ pc \in {"propagate", "loop", "consistent", "checkTheory", "deduce", "split", "decide"}
      /\ pc' \in {"idle", "propagate", "consistent", "checkTheory", "deduce", "loop", "decide"}
      /\ pc' = "idle" => after = "add"
      /\ after = "add" => pc = "propagate"
      /\ after' = after \/ after' \in {"search", "pruning", "complete"}
      /\ after' = after \/ pc \in {"loop", "consistent", "decide"}
  BY DEF Moves, PropagateDone, SearchLoop, EarlyPruning, TheorySat, DeduceDone, SplitDone, CompleteCall,
         PhaseInv
<1>3. pc = "propagate" => (after = "add" <=> pc' = "idle") /\ after' = after /\ (pc' # "idle" => pc' = "consistent")
  BY DEF Moves, PropagateDone, SearchLoop, EarlyPruning, TheorySat, DeduceDone, SplitDone, CompleteCall
<1>4. Outside' <=> Outside
  BY <1>2, <1>3 DEF Outside
<1>5. TrailInv' /\ TheoryInv' /\ ClauseInv' /\ KnownInv' /\ SplitInv' /\ AnswerInv'
  BY <1>1, <1>4, OnlyPhaseKeeps
<1>6. pc = "propagate" => visit = {} /\ qhead = Len(trail)
  BY DEF Moves, PropagateDone, SearchLoop, EarlyPruning, TheorySat, DeduceDone, SplitDone, CompleteCall
<1>7. pc = "split" => splits = <<>> /\ propData = <<>>
  BY DEF Moves, PropagateDone, SearchLoop, EarlyPruning, TheorySat, DeduceDone, SplitDone, CompleteCall
<1>8. PhaseInv'
  BY <1>1, <1>2, <1>3, <1>4, <1>6, <1>7 DEF PhaseInv, Outside
<1>9. AnalyzeInv' /\ FinalInv'
  BY <1>2 DEF AnalyzeInv, FinalInv
<1>10. \/ pc' \in {"consistent", "decide"}
       \/ pc' = "checkTheory" /\ after' # "start"
       \/ pc' = "deduce" /\ after' # "start" /\ Len(stack) = Len(trail)
       => qhead = Len(trail)
  BY <1>6 DEF Moves, PropagateDone, SearchLoop, EarlyPruning, TheorySat, DeduceDone, SplitDone, CompleteCall,
         QueueInv, TheoryInv, StackFits, TrailInv, TrailHolds, TrailFits
<1>11. visit' = {}
  BY <1>1, <1>2, <1>6 DEF PhaseInv
<1>12. QueueInv'
  BY <1>1, <1>2, <1>10, <1>11 DEF QueueInv, decisionLevel
<1> QED
  BY <1>5, <1>8, <1>9, <1>12

\* restoreOK withdraws an answer that depended on assumptions.
LEMMA RestoreOKKeeps == SearchInv /\ RestoreOK => SearchInv'
<1> SUFFICES ASSUME SearchInv, RestoreOK PROVE SearchInv'
  OBVIOUS
<1> USE DEF SearchInv
<1>1. /\ pc = "idle" /\ ok' = TRUE /\ conflict_frame' = 0 /\ answer' = "none"
      /\ UNCHANGED <<stack, points, th_deductions, deductions_next, declared>>
      /\ UNCHANGED <<given, clauses, learnts, watched, splits, propData, decision, assumptions>>
      /\ UNCHANGED <<trail, trail_lim, level, reason, qhead, visit, pc, after>>
  BY DEF RestoreOK, theoryVars, clauseVars, trailVars, splitVars, callVars
<1>2. TrailInv' /\ ClauseInv' /\ SplitInv'
  BY <1>1, TrailSame, ClauseSame, SplitSame DEF clauseVars
<1>3. TheoryInv'
  BY <1>1, TheorySame DEF TheoryInv, TheoryHolds
<1>4. KnownInv'
  BY <1>1, KnownSame DEF Outside
<1>5. PhaseInv' /\ QueueInv'
  BY <1>1 DEF PhaseInv, Outside, QueueInv, decisionLevel
<1>6. AnalyzeInv' /\ FinalInv'
  BY <1>1 DEF AnalyzeInv, FinalInv
<1>7. AnswerInv'
  BY <1>1 DEF AnswerInv, UnsatCorrect
<1> QED
  BY <1>2, <1>3, <1>4, <1>5, <1>6, <1>7

\* A clause that is false at level zero leaves no model.
LEMMA FalseAtZero ==
  ASSUME SearchInv, NEW c \in SUBSET Lit, NEW M \in SUBSET GivenModel, Implied(c, M), AllFalse(c),
         \A l \in c : level[var(l)] = 0
  PROVE  M = {}
<1> SUFFICES ASSUME NEW m \in M PROVE FALSE
  OBVIOUS
<1>1. m \in TheoryModel /\ m \in GivenModel
  BY GivenFacts
<1>2. PICK l \in c : l \in m
  BY DEF Implied
<1>3. PICK j \in 1 .. Len(trail) : trail[j] = -l
  BY DEF AllFalse, FalseBefore
<1>4. level[var(trail[j])] = 0
  BY <1>3, LitFacts
<1>5. -l \in m
  BY <1>1, <1>3, <1>4 DEF SearchInv, TrailInv, TrailHolds, Zero
<1> QED
  BY <1>1, <1>2, <1>5, ModelFacts

\* The levels of the literals on the trail, and of the literals they make false.
LEMMA TrailLevels ==
  ASSUME SearchInv
  PROVE  /\ trail \in Seq(Lit) /\ Len(trail) \in Nat /\ decisionLevel \in Nat
         /\ trail_lim \in Seq(Nat) /\ stack \in Seq(Lit) /\ Len(stack) \in Nat /\ Len(stack) <= Len(trail)
         /\ \A i \in 1 .. Len(trail) : trail[i] \in Lit /\ level[var(trail[i])] \in 0 .. decisionLevel
         /\ \A k \in 1 .. decisionLevel : trail_lim[k] \in 0 .. Len(trail)
<1>1. TrailFits(trail, trail_lim, level) /\ StackFits(stack, trail)
  BY DEF SearchInv, TrailInv, TrailHolds, TheoryInv
<1>2. trail \in Seq(Lit) /\ Len(trail) \in Nat /\ decisionLevel \in Nat /\ trail_lim \in Seq(Nat)
      /\ stack \in Seq(Lit) /\ Len(stack) \in Nat /\ Len(stack) <= Len(trail)
  BY <1>1 DEF TrailFits, Lims, decisionLevel, StackFits
<1>3. \A i \in 1 .. Len(trail) : trail[i] \in Lit /\ level[var(trail[i])] \in 0 .. decisionLevel
  BY <1>1, <1>2, LitFacts DEF TrailFits, Levels, decisionLevel
<1>4. \A k \in 1 .. decisionLevel : trail_lim[k] \in 0 .. Len(trail)
  BY <1>1, <1>2 DEF TrailFits, Lims, decisionLevel
<1> QED
  BY <1>2, <1>3, <1>4

\* A falsified literal has one of the current levels.
LEMMA FalseLevels ==
  ASSUME SearchInv, NEW c \in SUBSET Lit, AllFalse(c)
  PROVE  \A l \in c : level[var(l)] \in 0 .. decisionLevel
<1> TAKE l \in c
<1>1. PICK j \in 1 .. Len(trail) : trail[j] = -l
  BY DEF AllFalse, FalseBefore
<1> QED
  BY <1>1, TrailLevels, LitFacts

\* A conflict while a clause is added: there is no model.
LEMMA AddConflictKeeps == SearchInv /\ AddConflict => SearchInv'
<1> SUFFICES ASSUME SearchInv, AddConflict PROVE SearchInv'
  OBVIOUS
<1>1. /\ pc = "conflict" /\ after = "add" /\ ok' = FALSE /\ pc' = "idle"
      /\ UNCHANGED <<stack, points, th_deductions, deductions_next, declared>>
      /\ UNCHANGED <<given, clauses, learnts, watched, splits, propData, decision, assumptions>>
      /\ UNCHANGED <<trail, trail_lim, level, reason, qhead, visit, after, conflict_frame, answer>>
  BY DEF AddConflict, theoryVars, clauseVars, trailVars, splitVars, callVars
<1>2. GivenModel = {}
  <2>1. confl \in SUBSET Lit /\ Implied(confl, GivenModel) /\ AllFalse(confl)
    BY <1>1 DEF SearchInv, AnalyzeInv
  <2>2. decisionLevel = 0
    BY <1>1 DEF SearchInv, PhaseInv, Outside, decisionLevel
  <2>3. \A l \in confl : level[var(l)] = 0
    BY <2>1, <2>2, FalseLevels
  <2> QED BY <2>1, <2>3, FalseAtZero
<1> USE DEF SearchInv
<1>3. TrailInv' /\ ClauseInv' /\ SplitInv'
  BY <1>1, TrailSame, ClauseSame, SplitSame DEF clauseVars
<1>4. TheoryInv'
  BY <1>1, TheorySame DEF TheoryInv, TheoryHolds
<1>5. KnownInv'
  BY <1>1, KnownSame DEF Outside
<1>6. PhaseInv' /\ QueueInv'
  BY <1>1 DEF PhaseInv, Outside, QueueInv, decisionLevel
<1>7. AnalyzeInv' /\ FinalInv'
  BY <1>1 DEF AnalyzeInv, FinalInv
<1>8. AnswerInv'
  BY <1>1, <1>2, GivenFacts DEF AnswerInv, UnsatCorrect
<1> QED
  BY <1>3, <1>4, <1>5, <1>6, <1>7, <1>8

\* analyze starts from a falsified clause that has a literal of the current level.
LEMMA AnalyzeBeginKeeps == SearchInv /\ AnalyzeBegin => SearchInv'
<1> SUFFICES ASSUME SearchInv, AnalyzeBegin PROVE SearchInv'
  OBVIOUS
<1>1. /\ pc = "conflict" /\ after # "add" /\ decisionLevel > 0
      /\ pc' = "analyze" /\ p' = 0 /\ seen' = {}
      /\ UNCHANGED <<stack, points, th_deductions, deductions_next, declared>>
      /\ UNCHANGED <<given, clauses, learnts, watched, splits, propData, decision, assumptions>>
      /\ UNCHANGED <<trail, trail_lim, level, reason, qhead, visit, after, ok, conflict_frame, answer, confl>>
  BY DEF AnalyzeBegin, theoryVars, clauseVars, trailVars, splitVars, callVars, resultVars
<1> USE DEF SearchInv
<1>3. TrailInv' /\ ClauseInv' /\ SplitInv' /\ AnswerInv'
  BY <1>1, TrailSame, ClauseSame, SplitSame, AnswerSame DEF clauseVars
<1>4. TheoryInv'
  BY <1>1, TheorySame DEF TheoryInv, TheoryHolds
<1>5. KnownInv'
  BY <1>1, KnownSame DEF Outside
<1>6. PhaseInv' /\ QueueInv'
  BY <1>1 DEF PhaseInv, Outside, QueueInv, decisionLevel
<1>7. FinalInv'
  BY <1>1 DEF FinalInv
<1>8. AnalyzeInv'
  <2>1. /\ confl \subseteq Lit /\ Implied(confl, GivenModel) /\ AllFalse(confl)
        /\ AtCurrentLevel(confl)
    BY <1>1 DEF AnalyzeInv
  <2>2. seen' \cup (confl' \ {p'}) = confl
    BY <1>1, <2>1, LitFacts
  <2>3. GivenModel' = GivenModel
    BY <1>1, GivenFacts
  <2> QED BY <1>1, <2>1, <2>2, <2>3 DEF AnalyzeInv, AllFalse, AtCurrentLevel, decisionLevel
<1> QED
  BY <1>3, <1>4, <1>5, <1>6, <1>7, <1>8

\* An assumption that is already true opens an empty level.
LEMMA AssumeTrueKeeps == SearchInv /\ AssumeTrue => SearchInv'
<1> SUFFICES ASSUME SearchInv, AssumeTrue PROVE SearchInv'
  OBVIOUS
<1>1. /\ pc = "decide" /\ trail_lim' = Append(trail_lim, Len(trail))
      /\ UNCHANGED <<stack, points, th_deductions, deductions_next, declared>>
      /\ UNCHANGED <<given, clauses, learnts, watched, splits, propData, decision, assumptions>>
      /\ UNCHANGED <<trail, level, reason, qhead, visit, pc, after, ok, conflict_frame, answer>>
  BY DEF AssumeTrue, theoryVars, clauseVars, splitVars, callVars, resultVars
<1> USE DEF SearchInv
<1>3. ClauseInv' /\ SplitInv' /\ AnswerInv'
  BY <1>1, ClauseSame, SplitSame, AnswerSame DEF clauseVars
<1>4. TheoryInv'
  BY <1>1, TheorySame DEF TheoryInv, TheoryHolds
<1>5. KnownInv'
  BY <1>1, KnownSame DEF Outside
<1>6. TrailInv'
  BY <1>1, LevelHolds, GivenFacts DEF TrailInv
<1>7. AnalyzeInv' /\ FinalInv'
  BY <1>1 DEF AnalyzeInv, FinalInv
<1>8. PhaseInv'
  BY <1>1 DEF PhaseInv, Outside
<1>9. QueueInv'
  <2>1. qhead = Len(trail) /\ visit = {}
    BY <1>1 DEF QueueInv, PhaseInv
  <2>2. decisionLevel' = decisionLevel + 1 /\ trail_lim'[decisionLevel + 1] = Len(trail)
    BY <1>1, TrailLevels DEF decisionLevel
  <2> QED BY <1>1, <2>1, <2>2, TrailLevels DEF QueueInv
<1> QED
  BY <1>3, <1>4, <1>5, <1>6, <1>7, <1>8, <1>9

\* analyzeFinal starts from a false assumption.
LEMMA FinalBeginKeeps == SearchInv /\ FinalBegin => SearchInv'
<1> SUFFICES ASSUME SearchInv, FinalBegin PROVE SearchInv'
  OBVIOUS
<1>1. /\ pc = "decide" /\ decisionLevel < Len(assumptions) /\ False(assumed)
      /\ conflict' = {-assumed} /\ seen' = {assumed} /\ pc' = "final"
      /\ UNCHANGED <<stack, points, th_deductions, deductions_next, declared>>
      /\ UNCHANGED <<given, clauses, learnts, watched, splits, propData, decision, assumptions>>
      /\ UNCHANGED <<trail, trail_lim, level, reason, qhead, visit, after, ok, conflict_frame, answer>>
  BY DEF FinalBegin, theoryVars, clauseVars, splitVars, callVars, trailVars
<1> USE DEF SearchInv
<1>3. TrailInv' /\ ClauseInv' /\ SplitInv' /\ AnswerInv'
  BY <1>1, TrailSame, ClauseSame, SplitSame, AnswerSame DEF clauseVars
<1>4. TheoryInv'
  BY <1>1, TheorySame DEF TheoryInv, TheoryHolds
<1>5. KnownInv'
  BY <1>1, KnownSame DEF Outside, PhaseInv
<1>7. AnalyzeInv'
  BY <1>1 DEF AnalyzeInv
<1>8. PhaseInv'
  BY <1>1 DEF PhaseInv, Outside
<1>9. QueueInv'
  BY <1>1 DEF QueueInv, decisionLevel
<1>10. FinalInv'
  <2>1. PICK k : k = decisionLevel + 1
    OBVIOUS
  <2>2. k \in 1 .. Len(assumptions) /\ assumptions \in Seq({l \in Lit : var(l) \notin TheoryVar})
    BY <1>1, <2>1, TrailLevels DEF AnswerInv
  <2>3. assumed = assumptions[k] /\ assumed \in Lit /\ assumed \in Range(assumptions)
    BY <2>1, <2>2 DEF assumed, Range
  <2>4. PICK j \in 1 .. Len(trail) : trail[j] = -assumed
    BY <1>1, TrailLevels, ValueFacts DEF FalseBefore
  <2>5. seen' \subseteq Lit /\ conflict' \subseteq Lit /\ AllFalse(seen')
    BY <1>1, <2>3, <2>4, LitFacts DEF AllFalse, FalseBefore
  <2>6. \A m \in GivenModel : Range(assumptions) \subseteq m => seen' \cap m # {}
    BY <1>1, <2>3
  <2> QED BY <1>1, <2>5, <2>6, GivenFacts DEF FinalInv, AllFalse, decisionLevel
<1> QED
  BY <1>3, <1>4, <1>5, <1>7, <1>8, <1>9, <1>10

-----------------------------------------------------------------------------
\* What a literal enqueued at the current level keeps.
LEMMA MentionedGrows ==
  ASSUME clauses \subseteq clauses',
         \A i \in 1 .. Len(trail) : level[var(trail[i])] = 0 =>
           \E j \in 1 .. Len(trail') : trail'[j] = trail[i] /\ level'[var(trail[i])] = 0
  PROVE  Mentioned \subseteq Mentioned'
<1> SUFFICES ASSUME NEW v \in Mentioned PROVE v \in Mentioned'
  OBVIOUS
<1>1. CASE \E i \in 1 .. Len(trail) : var(trail[i]) = v /\ level[v] = 0
  <2>1. PICK i \in 1 .. Len(trail) : var(trail[i]) = v /\ level[v] = 0
    BY <1>1
  <2>2. PICK j \in 1 .. Len(trail') : trail'[j] = trail[i] /\ level'[var(trail[i])] = 0
    BY <2>1
  <2>3. var(trail'[j]) = v /\ level'[v] = 0
    BY <2>1, <2>2
  <2> QED BY <2>3 DEF Mentioned
<1>2. CASE \E c \in clauses : v \in Vars(c)
  BY <1>2 DEF Mentioned, Vars
<1> QED
  BY <1>1, <1>2 DEF Mentioned

\* uncheckedEnqueue at the current level.
LEMMA EnqueueKeepsTrail ==
  ASSUME SearchInv, NEW l, NEW from, EnqueueOn(trail, l, from, decisionLevel),
         UNCHANGED <<given, trail_lim, assumptions, stack>>,
         MayEnqueue(trail, trail_lim, l, from, assumptions, GivenModel, stack)
  PROVE  /\ TrailInv' /\ Extends(trail', trail, l) /\ l \in Lit
         /\ \A i \in 1 .. Len(trail) :
              i \in 1 .. Len(trail') /\ trail'[i] = trail[i] /\ level'[var(trail[i])] = level[var(trail[i])]
         /\ \A i \in 1 .. Len(trail') : i \in 1 .. Len(trail) \/ trail'[i] = l
         /\ level'[var(l)] = decisionLevel
         /\ StackFits(stack, trail')
<1>1. /\ trail' = Append(trail, l) /\ level' = [level EXCEPT ![var(l)] = Len(trail_lim)]
      /\ reason' = [reason EXCEPT ![var(l)] = from]
  BY DEF EnqueueOn, decisionLevel
<1>2. l \in Lit /\ \A i \in 1 .. Len(trail) : var(trail[i]) # var(l)
  BY DEF MayEnqueue, Fresh
<1>3. Extends(trail', trail, l)
  BY <1>1, <1>2, TrailLevels, AppendExtends
<1>4. TrailInv'
  <2>1. TrailHolds(trail', trail_lim, level', reason', assumptions, GivenModel, stack)
    BY <1>1, <1>3, EnqueueHolds DEF SearchInv, TrailInv
  <2> QED BY <2>1, GivenFacts DEF TrailInv
<1>5. level \in [Var -> Nat] /\ var(l) \in Var
  BY <1>2, LitFacts DEF SearchInv, TrailInv, TrailHolds, TrailFits, Levels
<1>6. \A i \in 1 .. Len(trail) : level'[var(trail[i])] = level[var(trail[i])]
  BY <1>1, <1>2, <1>5, TrailLevels, LitFacts
<1>7. PICK n \in Nat : n = Len(trail)
  BY TrailLevels
<1>8. trail' \in Seq(Lit) /\ Len(trail') = n + 1 /\ trail'[n + 1] = l /\ \A i \in 1 .. n : trail'[i] = trail[i]
  BY <1>3, <1>7 DEF Extends
<1>9. StackFits(stack, trail')
  BY <1>7, <1>8, TrailLevels DEF SearchInv, TheoryInv, StackFits
<1>10. level'[var(l)] = decisionLevel
  BY <1>1, <1>5 DEF decisionLevel
<1> QED
  BY <1>2, <1>3, <1>4, <1>6, <1>7, <1>8, <1>9, <1>10

\* A clause whose other literals are false may enqueue its last one.
LEMMA ClauseMayEnqueue ==
  ASSUME SearchInv, NEW c, NEW l, Fresh(trail, l), Justifies(c, trail, Len(trail), l, GivenModel)
  PROVE  /\ MayEnqueue(trail, trail_lim, l, c, assumptions, GivenModel, stack)
         /\ c # CRef_Undef /\ c # CRef_Fake
<1>1. c # CRef_Undef /\ c # CRef_Fake
  BY LitFacts DEF Justifies, CRef_Undef, CRef_Fake
<1>2. Len(trail_lim) = 0 => \A m \in GivenModel : l \in m
  BY UnitZero, GivenFacts DEF SearchInv, TrailInv, TrailHolds
<1> QED
  BY <1>1, <1>2 DEF MayEnqueue

\* The clause that propagate visits, and its first two literals.
LEMMA VisitFacts ==
  ASSUME SearchInv, pc = "propagate", NEW c \in visit
  PROVE  /\ c \in clauses \cup learnts /\ c \in DOMAIN watched /\ c \subseteq Lit /\ Implied(c, GivenModel)
         /\ falseLit \in c /\ First(c) \in c /\ falseLit = -trail[qhead]
         /\ qhead \in 1 .. Len(trail) /\ FalseBefore(trail, Len(trail), falseLit)
<1>1. c \in clauses \cup learnts /\ c \in DOMAIN watched
  BY DEF SearchInv, QueueInv, ClauseInv
<1>2. c \subseteq Lit /\ Implied(c, GivenModel) /\ watched[c] \in Seq(c) /\ Len(watched[c]) = 2
  BY <1>1 DEF SearchInv, ClauseInv
<1>3. watched[c][1] \in c /\ watched[c][2] \in c
  BY <1>2
<1>4. qhead \in 1 .. Len(trail) /\ falseLit = -trail[qhead]
  BY TrailLevels DEF SearchInv, QueueInv, falseLit
<1>5. watched[c][1] = falseLit \/ watched[c][2] = falseLit
  BY <1>4 DEF SearchInv, QueueInv
<1>6. falseLit \in c /\ First(c) \in c
  BY <1>3, <1>5 DEF First
<1>7. FalseBefore(trail, Len(trail), falseLit)
  BY <1>4, TrailLevels, LitFacts DEF FalseBefore
<1> QED
  BY <1>1, <1>2, <1>4, <1>6, <1>7

\* A clause gets two other watched literals.
LEMMA WatchKeeps ==
  ASSUME SearchInv, NEW c \in clauses \cup learnts, NEW a \in c, NEW b \in c,
         watched' = [watched EXCEPT ![c] = <<a, b>>], UNCHANGED <<given, clauses, learnts>>
  PROVE  /\ ClauseInv' /\ DOMAIN watched' = DOMAIN watched
         /\ \A d \in DOMAIN watched : d # c => watched'[d] = watched[d]
<1>1. DOMAIN watched = clauses \cup learnts
  BY DEF SearchInv, ClauseInv
<1>2. DOMAIN watched' = DOMAIN watched /\ watched'[c] = <<a, b>>
      /\ \A d \in DOMAIN watched : d # c => watched'[d] = watched[d]
  BY <1>1
<1>3. <<a, b>> \in Seq(c) /\ Len(<<a, b>>) = 2
  OBVIOUS
<1>4. ASSUME NEW d \in clauses \cup learnts PROVE watched'[d] \in Seq(d) /\ Len(watched'[d]) = 2
  <2>1. CASE d = c
    BY <1>2, <1>3, <2>1
  <2>2. CASE d # c
    <3>1. d \in clauses \cup learnts
      BY <2>2
    <3>2. watched'[d] = watched[d]
      BY <1>1, <1>2, <2>2, <3>1
    <3>3. d \subseteq Lit /\ Implied(d, GivenModel) /\ watched[d] \in Seq(d) /\ Len(watched[d]) = 2
      BY <3>1 DEF SearchInv, ClauseInv
    <3> QED BY <3>2, <3>3
  <2> QED BY <2>1, <2>2
<1> QED
  BY <1>1, <1>2, <1>4, GivenFacts DEF SearchInv, ClauseInv

\* The parts that no visit of a clause changes.
VisitFrame ==
  /\ UNCHANGED <<stack, points, th_deductions, deductions_next, declared>>
  /\ UNCHANGED <<given, clauses, learnts, splits, propData, decision, assumptions>>
  /\ UNCHANGED <<trail_lim, after, ok, conflict_frame, answer>>

\* propagate leaves a clause, or finds it another literal to watch.
LEMMA VisitClauseKeeps ==
  ASSUME SearchInv, pc = "propagate", NEW c \in visit, VisitFrame, UNCHANGED confl,
         VisitBlocked(c) \/ VisitSatisfied(c) \/ VisitNewWatch(c)
  PROVE  SearchInv'
<1>1. /\ UNCHANGED <<trail, level, reason, qhead, pc>> /\ visit' = visit \ {c}
      /\ UNCHANGED <<stack, points, th_deductions, deductions_next, declared>>
      /\ UNCHANGED <<given, clauses, learnts, splits, propData, decision, assumptions>>
      /\ UNCHANGED <<trail_lim, after, ok, conflict_frame, answer>>
  BY DEF VisitBlocked, VisitSatisfied, VisitNewWatch, VisitFrame
<1>2. ClauseInv' /\ DOMAIN watched' = DOMAIN watched
      /\ \A d \in DOMAIN watched : d # c => watched'[d] = watched[d]
  <2>1. CASE VisitBlocked(c)
    BY <1>1, <2>1, ClauseSame DEF VisitBlocked, clauseVars, SearchInv
  <2>2. CASE VisitSatisfied(c)
    BY <1>1, <2>2, VisitFacts, WatchKeeps DEF VisitSatisfied
  <2>3. CASE VisitNewWatch(c)
    <3>1. PICK l \in NewWatches(c) : watched' = [watched EXCEPT ![c] = <<First(c), l>>]
      BY <2>3 DEF VisitNewWatch
    <3>2. l \in c
      BY DEF NewWatches
    <3> QED BY <1>1, <3>1, <3>2, VisitFacts, WatchKeeps
  <2> QED BY <2>1, <2>2, <2>3
<1> USE DEF SearchInv
<1>3. TrailInv' /\ SplitInv' /\ AnswerInv'
  BY <1>1, TrailSame, SplitSame, AnswerSame
<1>4. TheoryInv'
  BY <1>1, TheorySame DEF TheoryInv, TheoryHolds
<1>5. KnownInv'
  BY <1>1, KnownSame DEF Outside
<1>6. PhaseInv'
  BY <1>1 DEF PhaseInv, Outside
<1>7. AnalyzeInv' /\ FinalInv'
  BY <1>1 DEF AnalyzeInv, FinalInv
<1>8. QueueInv'
  <2>1. \A d \in visit' : watched'[d] = watched[d]
    BY <1>1, <1>2 DEF QueueInv
  <2> QED BY <1>1, <1>2, <2>1 DEF QueueInv, decisionLevel
<1> QED
  BY <1>2, <1>3, <1>4, <1>5, <1>6, <1>7, <1>8

\* When no literal can replace the false one, all but the first are false.
LEMMA OthersFalse ==
  ASSUME SearchInv, pc = "propagate", NEW c \in visit, NewWatches(c) = {}
  PROVE  \A k \in c \ {First(c)} : FalseBefore(trail, Len(trail), k)
<1> TAKE k \in c \ {First(c)}
<1>1. CASE k = falseLit
  BY <1>1, VisitFacts
<1>2. CASE k # falseLit
  <2>1. False(k)
    BY <1>2 DEF NewWatches
  <2> QED BY <2>1, TrailLevels, ValueFacts
<1> QED
  BY <1>1, <1>2

\* propagate finds that a clause implies its first literal.
LEMMA VisitUnitKeeps ==
  ASSUME SearchInv, pc = "propagate", NEW c \in visit, VisitFrame, UNCHANGED confl, VisitUnit(c)
  PROVE  SearchInv'
<1> DEFINE l == First(c)
<1>1. /\ Unassigned(l) /\ NewWatches(c) = {} /\ visit' = visit \ {c}
      /\ watched' = [watched EXCEPT ![c] = <<l, falseLit>>]
      /\ EnqueueOn(trail, l, c, decisionLevel)
      /\ UNCHANGED <<qhead, pc>>
      /\ UNCHANGED <<stack, points, th_deductions, deductions_next, declared>>
      /\ UNCHANGED <<given, clauses, learnts, splits, propData, decision, assumptions>>
      /\ UNCHANGED <<trail_lim, after, ok, conflict_frame, answer>>
  BY DEF VisitUnit, VisitFrame
<1>2. /\ c \in clauses \cup learnts /\ c \subseteq Lit /\ Implied(c, GivenModel)
      /\ falseLit \in c /\ l \in c /\ qhead \in 1 .. Len(trail)
  BY VisitFacts
<1>3. Fresh(trail, l)
  BY <1>1, <1>2, TrailLevels, ValueFacts
<1>4. Justifies(c, trail, Len(trail), l, GivenModel)
  BY <1>1, <1>2, OthersFalse DEF Justifies
<1> HIDE DEF l
<1>5. /\ TrailInv' /\ l \in Lit
      /\ \A i \in 1 .. Len(trail) :
           i \in 1 .. Len(trail') /\ trail'[i] = trail[i] /\ level'[var(trail[i])] = level[var(trail[i])]
      /\ \A i \in 1 .. Len(trail') : i \in 1 .. Len(trail) \/ trail'[i] = l
      /\ StackFits(stack, trail')
      /\ Len(trail') = Len(trail) + 1
  BY <1>1, <1>3, <1>4, ClauseMayEnqueue, EnqueueKeepsTrail DEF Extends
<1>6. ClauseInv' /\ DOMAIN watched' = DOMAIN watched
      /\ \A d \in DOMAIN watched : d # c => watched'[d] = watched[d]
  BY <1>1, <1>2, WatchKeeps
<1>7. TheoryInv'
  BY <1>1, <1>5 DEF SearchInv, TheoryInv, TheoryHolds
<1>8. Mentioned \subseteq Mentioned'
  BY <1>1, <1>5, MentionedGrows
<1> USE DEF SearchInv
<1>9. KnownInv'
  <2>1. Outside' <=> Outside
    BY <1>1 DEF Outside
  <2>2. CASE Outside
    BY <1>1, <1>8, <2>1, <2>2 DEF KnownInv
  <2>3. CASE ~Outside
    <3>1. var(l) \in TheoryVar => var(l) \in declared
      BY <1>2, <2>3 DEF KnownInv, AtomsIn, Vars
    <3>2. \A i \in 1 .. Len(trail') : var(trail'[i]) \in TheoryVar => var(trail'[i]) \in declared
      BY <1>5, <2>3, <3>1 DEF KnownInv
    <3> QED BY <1>1, <1>8, <2>1, <2>3, <3>2 DEF KnownInv
  <2> QED BY <2>2, <2>3
<1>10. PhaseInv' /\ AnalyzeInv' /\ FinalInv'
  BY <1>1 DEF PhaseInv, Outside, AnalyzeInv, FinalInv
<1>11. SplitInv' /\ AnswerInv'
  <2>1. splits' = <<>> /\ propData' = <<>>
    BY <1>1 DEF PhaseInv
  <2>2. SplitInv'
    BY <2>1, NoSplits
  <2> QED BY <1>1, <2>2, AnswerSame
<1>12. QueueInv'
  <2>1. \A d \in visit' : watched'[d] = watched[d]
    BY <1>1, <1>6 DEF QueueInv
  <2>2. trail'[qhead] = trail[qhead]
    BY <1>2, <1>5
  <2> QED BY <1>1, <1>2, <1>5, <1>6, <2>1, <2>2, TrailLevels DEF QueueInv, decisionLevel
<1> QED
  BY <1>5, <1>6, <1>7, <1>9, <1>10, <1>11, <1>12

\* propagate finds a falsified clause.
LEMMA VisitConflictKeeps ==
  ASSUME SearchInv, pc = "propagate", NEW c \in visit, VisitFrame, VisitConflict(c)
  PROVE  SearchInv'
<1>1. /\ False(First(c)) /\ NewWatches(c) = {} /\ visit' = {}
      /\ watched' = [watched EXCEPT ![c] = <<First(c), falseLit>>]
      /\ qhead' = Len(trail) /\ confl' = c /\ pc' = "conflict" /\ UNCHANGED <<trail, level, reason>>
      /\ UNCHANGED <<stack, points, th_deductions, deductions_next, declared>>
      /\ UNCHANGED <<given, clauses, learnts, splits, propData, decision, assumptions>>
      /\ UNCHANGED <<trail_lim, after, ok, conflict_frame, answer>>
  BY DEF VisitConflict, VisitFrame
<1>2. /\ c \in clauses \cup learnts /\ c \subseteq Lit /\ Implied(c, GivenModel)
      /\ falseLit \in c /\ First(c) \in c /\ qhead \in 1 .. Len(trail) /\ falseLit = -trail[qhead]
  BY VisitFacts
<1>3. AllFalse(c)
  BY <1>1, OthersFalse, TrailLevels, ValueFacts DEF AllFalse
<1>4. decisionLevel > 0 => AtCurrentLevel(c)
  <2> SUFFICES ASSUME decisionLevel > 0 PROVE level[var(falseLit)] = decisionLevel
    BY <1>2 DEF AtCurrentLevel
  <2>1. trail[qhead] \in Lit /\ level[var(trail[qhead])] \in 0 .. decisionLevel
    BY <1>2, TrailLevels
  <2>2. trail_lim[decisionLevel] < qhead /\ decisionLevel \in 1 .. decisionLevel
    BY TrailLevels DEF SearchInv, QueueInv
  <2>3. decisionLevel <= level[var(trail[qhead])]
    BY <1>2, <2>2 DEF SearchInv, TrailInv, TrailHolds, TrailFits, Levels, decisionLevel
  <2>4. var(falseLit) = var(trail[qhead])
    BY <1>2, <2>1, LitFacts
  <2> QED BY <2>1, <2>3, <2>4, TrailLevels
<1>5. ClauseInv' /\ DOMAIN watched' = DOMAIN watched
  BY <1>1, <1>2, WatchKeeps
<1> USE DEF SearchInv
<1>6. TrailInv' /\ SplitInv' /\ AnswerInv'
  BY <1>1, TrailSame, SplitSame, AnswerSame
<1>7. TheoryInv'
  BY <1>1, TheorySame DEF TheoryInv, TheoryHolds
<1>8. KnownInv'
  BY <1>1, KnownSame DEF Outside
<1>9. PhaseInv' /\ FinalInv'
  BY <1>1 DEF PhaseInv, Outside, FinalInv
<1>10. AnalyzeInv'
  BY <1>1, <1>2, <1>3, <1>4, GivenFacts DEF AnalyzeInv, AllFalse, AtCurrentLevel, decisionLevel
<1>11. QueueInv'
  BY <1>1, <1>5, TrailLevels DEF QueueInv, decisionLevel
<1> QED
  BY <1>5, <1>6, <1>7, <1>8, <1>9, <1>10, <1>11

\* propagate visits the next watcher.
LEMMA PropagateVisitKeeps ==
  ASSUME SearchInv, NEW c \in visit, PropagateVisit(c)
  PROVE  SearchInv'
<1>1. pc = "propagate" /\ VisitFrame
  BY DEF PropagateVisit, VisitFrame, theoryVars, resultVars, splitVars, callVars
<1>2. CASE UNCHANGED confl /\ (VisitBlocked(c) \/ VisitSatisfied(c) \/ VisitNewWatch(c))
  BY <1>1, <1>2, VisitClauseKeeps
<1>3. CASE UNCHANGED confl /\ VisitUnit(c)
  BY <1>1, <1>3, VisitUnitKeeps
<1>4. CASE VisitConflict(c)
  BY <1>1, <1>4, VisitConflictKeeps
<1> QED
  BY <1>2, <1>3, <1>4 DEF PropagateVisit

-----------------------------------------------------------------------------
\* Going back.
LEMMA KnownStack == SearchInv => StackKnown
<1> SUFFICES ASSUME SearchInv, NEW i \in 1 .. Len(stack)
             PROVE  var(stack[i]) \in TheoryVar <=> var(stack[i]) \in declared
  BY DEF StackKnown
<1>1. ~Outside
  BY DEF SearchInv, PhaseInv
<1>2. i \in 1 .. Len(trail) /\ stack[i] = trail[i]
  BY TrailLevels DEF SearchInv, TheoryInv, StackFits
<1> QED
  BY <1>1, <1>2 DEF SearchInv, KnownInv

\* CoreSMTSolver::cancelUntil(lev): u is what is left of the trail.
LEMMA CancelFacts ==
  ASSUME SearchInv, NEW lev \in 0 .. decisionLevel, CancelUntil(lev), NEW u,
         u = SubSeq(trail, 1, EndOf(lev))
  PROVE  /\ Cut(u, trail_lim', trail, trail_lim) /\ Len(trail_lim') = lev
         /\ Len(u) = IF lev < Len(trail_lim) THEN trail_lim[lev + 1] ELSE Len(trail)
         /\ TheoryHolds' /\ StackFits(stack', u) /\ declared' = declared
         /\ TrailHolds(u, trail_lim', level, reason, assumptions, GivenModel, stack')
         /\ Len(th_deductions') <= Len(th_deductions)
         /\ \A d \in 1 .. Len(th_deductions') : th_deductions'[d] = th_deductions[d]
         /\ qhead' \in 0 .. Len(u) /\ (lev > 0 => trail_lim'[lev] <= qhead')
<1>1. PICK h \in Nat : h = Len(trail_lim)
  BY TrailLevels DEF decisionLevel
<1>2. PICK e : e = EndOf(lev)
  OBVIOUS
<1>3. lev \in Nat /\ lev <= h /\ e = IF lev < h THEN trail_lim[lev + 1] ELSE Len(trail)
  BY <1>1, <1>2, TrailLevels DEF EndOf, decisionLevel
<1>4. e \in Nat /\ e <= Len(trail)
  <2>1. lev < h => lev + 1 \in 1 .. decisionLevel
    BY <1>1, <1>3 DEF decisionLevel
  <2> QED BY <1>3, <2>1, TrailLevels
<1>5. u \in Seq(Lit) /\ Len(u) = e /\ \A j \in 1 .. e : u[j] = trail[j]
  BY <1>2, <1>4, TrailLevels, Prefix
<1>6. trail_lim' \in Seq(Nat) /\ Len(trail_lim') = lev /\ \A k \in 1 .. lev : trail_lim'[k] = trail_lim[k]
  <2>1. trail_lim' = SubSeq(trail_lim, 1, lev)
    BY <1>1, <1>3 DEF CancelUntil, decisionLevel
  <2> QED BY <1>1, <1>3, <2>1, TrailLevels, Prefix
<1>7. \A k \in 1 .. lev : trail_lim[k] <= e
  <2> TAKE k \in 1 .. lev
  <2>1. k \in 1 .. Len(trail_lim)
    BY <1>1, <1>3
  <2>2. CASE lev < h
    <3>1. lev + 1 \in 1 .. Len(trail_lim) /\ k <= lev + 1
      BY <1>1, <1>3, <2>2
    <3> QED BY <1>3, <2>1, <2>2, <3>1 DEF SearchInv, TrailInv, TrailHolds, TrailFits, Lims
  <2>3. CASE ~(lev < h)
    BY <1>3, <2>1, <2>3 DEF SearchInv, TrailInv, TrailHolds, TrailFits, Lims
  <2> QED BY <2>2, <2>3
<1>8. Cut(u, trail_lim', trail, trail_lim)
  <2>1. StackFits(u, trail)
    BY <1>4, <1>5 DEF StackFits
  <2>2. Len(trail_lim') < Len(trail_lim) => Len(u) <= trail_lim[Len(trail_lim') + 1]
    BY <1>1, <1>3, <1>4, <1>5, <1>6
  <2> QED BY <1>1, <1>3, <1>5, <1>6, <1>7, <2>1, <2>2 DEF Cut
<1>9. /\ TheoryHolds' /\ StackFits(stack', stack) /\ declared' = declared
      /\ Len(stack') = (IF e < Len(stack) THEN e ELSE Len(stack))
      /\ Len(th_deductions') <= Len(th_deductions)
      /\ \A d \in 1 .. Len(th_deductions') : th_deductions'[d] = th_deductions[d]
  <2>1. CASE lev < h
    <3>1. Backtrack(e)
      BY <1>1, <1>2, <2>1 DEF CancelUntil, decisionLevel
    <3> QED BY <1>4, <3>1, KnownStack, BacktrackKeeps DEF SearchInv, TheoryInv
  <2>2. CASE ~(lev < h)
    <3>1. UNCHANGED theoryVars
      BY <1>1, <2>2 DEF CancelUntil, decisionLevel
    <3>2. TheoryHolds' /\ declared' = declared /\ th_deductions' = th_deductions /\ stack' = stack
      BY <3>1 DEF SearchInv, TheoryInv, TheoryHolds, theoryVars
    <3>3. StackFits(stack', stack)
      BY <3>2, TrailLevels DEF StackFits
    <3>4. Len(stack') = (IF e < Len(stack) THEN e ELSE Len(stack))
      BY <1>3, <2>2, <3>2, TrailLevels
    <3>5. Len(th_deductions) <= Len(th_deductions)
      BY DEF SearchInv, TheoryInv, TheoryHolds, PointsFit
    <3> QED BY <3>2, <3>3, <3>4, <3>5
  <2> QED BY <2>1, <2>2
<1>10. StackFits(stack', u)
  <2>1. Len(stack') <= e /\ Len(stack') \in Nat /\ Len(stack') <= Len(stack)
    BY <1>4, <1>9, TrailLevels DEF StackFits
  <2>2. ASSUME NEW j \in 1 .. Len(stack') PROVE stack'[j] = u[j]
    <3>1. j \in 1 .. Len(stack) /\ j \in 1 .. e
      BY <1>4, <2>1, TrailLevels
    <3> QED BY <1>5, <1>9, <3>1 DEF StackFits, SearchInv, TheoryInv
  <2> QED BY <1>5, <1>9, <2>1, <2>2 DEF StackFits
<1>11. TrailHolds(u, trail_lim', level, reason, assumptions, GivenModel, stack')
  <2>1. Len(stack') < Len(stack) => Len(u) <= Len(stack')
    BY <1>4, <1>5, <1>9, TrailLevels
  <2>2. TrailHolds(trail, trail_lim, level, reason, assumptions, GivenModel, stack)
    BY DEF SearchInv, TrailInv
  <2>3. PICK w : w = trail_lim'
    OBVIOUS
  <2>4. PICK su : su = stack'
    OBVIOUS
  <2>5. /\ stack \in Seq(Lit) /\ Cut(u, w, trail, trail_lim) /\ StackFits(su, stack)
        /\ Len(su) < Len(stack) => Len(u) <= Len(su)
    BY <1>8, <1>9, <2>1, <2>3, <2>4, TrailLevels
  <2>6. TrailHolds(u, w, level, reason, assumptions, GivenModel, su)
    BY <2>2, <2>5, CutHolds
  <2> QED BY <2>3, <2>4, <2>6
<1>12. qhead' \in 0 .. Len(u) /\ (lev > 0 => trail_lim'[lev] <= qhead')
  <2>1. CASE lev < h
    <3>1. qhead' = e
      BY <1>1, <1>3, <2>1 DEF CancelUntil, decisionLevel
    <3>2. lev > 0 => lev \in 1 .. lev
      BY <1>3
    <3>3. lev > 0 => trail_lim'[lev] = trail_lim[lev] /\ trail_lim[lev] <= e
      BY <1>6, <1>7, <3>2
    <3>4. qhead' \in 0 .. Len(u)
      BY <1>4, <1>5, <3>1
    <3> QED BY <3>1, <3>3, <3>4
  <2>2. CASE ~(lev < h)
    <3>1. qhead' = qhead /\ lev = h /\ e = Len(trail)
      BY <1>1, <1>3, <2>2 DEF CancelUntil, decisionLevel
    <3> QED BY <1>1, <1>3, <1>5, <1>6, <3>1 DEF SearchInv, QueueInv, decisionLevel
  <2> QED BY <2>1, <2>2
<1> QED
  BY <1>1, <1>3, <1>5, <1>6, <1>8, <1>9, <1>10, <1>11, <1>12

\* Level zero stays when the search goes back.
LEMMA ZeroStays ==
  ASSUME SearchInv, NEW u, NEW w, Cut(u, w, trail, trail_lim),
         Len(u) = IF Len(w) < Len(trail_lim) THEN trail_lim[Len(w) + 1] ELSE Len(trail),
         NEW i \in 1 .. Len(trail), level[var(trail[i])] <= Len(w)
  PROVE  i \in 1 .. Len(u) /\ u[i] = trail[i]
<1>1. TrailFits(trail, trail_lim, level)
  BY DEF SearchInv, TrailInv, TrailHolds
<1>2. PICK l : l = -trail[i]
  OBVIOUS
<1>3. trail[i] = -l
  BY <1>2, TrailLevels, LitFacts
<1>4. FalseBefore(u, Len(u), l)
  BY <1>1, <1>3, FalseAfterCut
<1>5. PICK j \in 1 .. Len(u) : u[j] = trail[i]
  BY <1>3, <1>4 DEF FalseBefore
<1>6. j \in 1 .. Len(trail) /\ u[j] = trail[j]
  BY TrailLevels DEF Cut, StackFits
<1>7. i = j
  BY <1>1, <1>5, <1>6 DEF TrailFits, Distinct
<1> QED
  BY <1>5, <1>7

\* A restart goes back to level zero.
LEMMA RestartKeeps == SearchInv /\ Restart => SearchInv'
<1> SUFFICES ASSUME SearchInv, Restart PROVE SearchInv'
  OBVIOUS
<1>1. /\ pc = "consistent" /\ trail' = SubSeq(trail, 1, EndOf(0)) /\ CancelUntil(0)
      /\ pc' = "checkTheory" /\ after' = "start"
      /\ UNCHANGED <<given, clauses, learnts, watched, splits, propData, decision, assumptions>>
      /\ UNCHANGED <<level, reason, visit, ok, conflict_frame, answer>>
  BY DEF Restart, clauseVars, splitVars, resultVars
<1>2. /\ Cut(trail', trail_lim', trail, trail_lim) /\ Len(trail_lim') = 0
      /\ Len(trail') = IF 0 < Len(trail_lim) THEN trail_lim[0 + 1] ELSE Len(trail)
      /\ TheoryHolds' /\ StackFits(stack', trail') /\ declared' = declared
      /\ TrailHolds(trail', trail_lim', level, reason, assumptions, GivenModel, stack')
      /\ Len(th_deductions') <= Len(th_deductions)
      /\ \A d \in 1 .. Len(th_deductions') : th_deductions'[d] = th_deductions[d]
      /\ qhead' \in 0 .. Len(trail')
  <2>1. 0 \in 0 .. decisionLevel
    BY TrailLevels
  <2> QED BY <1>1, <2>1, CancelFacts
<1>3. Mentioned \subseteq Mentioned'
  <2>1. ASSUME NEW i \in 1 .. Len(trail), level[var(trail[i])] = 0
        PROVE  i \in 1 .. Len(trail') /\ trail'[i] = trail[i]
    BY <1>2, <2>1, ZeroStays
  <2> QED BY <1>1, <2>1, MentionedGrows
<1>4. ~Outside /\ ~Outside' /\ visit = {} /\ splits = <<>> /\ propData = <<>>
  BY <1>1 DEF SearchInv, PhaseInv, Outside
<1>5. TrailInv' /\ TheoryInv'
  BY <1>1, <1>2, GivenFacts DEF TrailInv, TheoryInv
<1>6. ClauseInv' /\ AnswerInv' /\ SplitInv'
  BY <1>1, <1>4, ClauseSame, AnswerSame, NoSplits DEF SearchInv, clauseVars
<1>7. PhaseInv' /\ AnalyzeInv' /\ FinalInv'
  BY <1>1, <1>4 DEF PhaseInv, AnalyzeInv, FinalInv, Outside
<1>8. QueueInv'
  <2>1. pc' = "checkTheory" /\ after' = "start" /\ visit' = {} /\ Len(trail_lim') = 0 /\ qhead' \in 0 .. Len(trail')
    BY <1>1, <1>2, <1>4
  <2> QED BY <2>1 DEF QueueInv, decisionLevel
<1>9. KnownInv'
  <2>1. \A i \in 1 .. Len(trail') : i \in 1 .. Len(trail) /\ trail'[i] = trail[i]
    BY <1>2, TrailLevels DEF Cut, StackFits
  <2>2. \A d \in 1 .. Len(th_deductions') : d \in 1 .. Len(th_deductions)
    BY <1>2 DEF SearchInv, TheoryInv, TheoryHolds, PointsFit
  <2> QED BY <1>1, <1>2, <1>3, <1>4, <2>1, <2>2 DEF SearchInv, KnownInv
<1> QED
  BY <1>5, <1>6, <1>7, <1>8, <1>9 DEF SearchInv

\* The end of solve keeps level zero and what it says about the atoms.
LEMMA ReturnKeeps ==
  ASSUME SearchInv, NEW result, Return(result), ~Outside, pc # "split",
         UNCHANGED <<given, clauses, learnts, watched, splits, propData, decision, assumptions, after>>,
         ~ok' /\ conflict_frame' = 0 => GivenModel = {}, UnsatCorrect'
  PROVE  SearchInv'
<1>1. /\ pc' = "idle" /\ trail' = SubSeq(trail, 1, EndOf(0)) /\ trail_lim' = <<>>
      /\ qhead' = IF decisionLevel > 0 THEN trail_lim[1] ELSE qhead
      /\ Backtrack(0) /\ visit' = {} /\ UNCHANGED <<level, reason>>
  BY DEF Return
<1>2. PICK e : e = EndOf(0)
  OBVIOUS
<1>3. e = (IF decisionLevel > 0 THEN trail_lim[1] ELSE Len(trail)) /\ e \in Nat /\ e <= Len(trail)
  <2>1. decisionLevel > 0 => 1 \in 1 .. decisionLevel
    BY TrailLevels
  <2> QED BY <1>2, <2>1, TrailLevels DEF EndOf
<1>4. trail' \in Seq(Lit) /\ Len(trail') = e /\ \A j \in 1 .. e : trail'[j] = trail[j]
  BY <1>1, <1>2, <1>3, TrailLevels, Prefix
<1>5. StackFits(trail', trail)
  BY <1>3, <1>4 DEF StackFits
<1>6. trail_lim' \in Seq(Nat) /\ Len(trail_lim') = 0
  BY <1>1
<1>7. Cut(trail', trail_lim', trail, trail_lim)
  <2>1. Len(trail_lim) > 0 => Len(trail') <= trail_lim[1]
    BY <1>3, <1>4 DEF decisionLevel
  <2> QED BY <1>5, <1>6, <2>1, TrailLevels DEF Cut, decisionLevel
<1>8. StackFits(stack, stack) /\ ~(Len(stack) < Len(stack))
  BY TrailLevels DEF StackFits
<1>9. TrailHolds(trail', trail_lim', level, reason, assumptions, GivenModel, stack)
  <2>1. PICK u : u = trail'
    OBVIOUS
  <2>2. PICK w : w = trail_lim'
    OBVIOUS
  <2>3. Cut(u, w, trail, trail_lim) /\ stack \in Seq(Lit)
        /\ TrailHolds(trail, trail_lim, level, reason, assumptions, GivenModel, stack)
    BY <1>7, <2>1, <2>2, TrailLevels DEF SearchInv, TrailInv
  <2>4. TrailHolds(u, w, level, reason, assumptions, GivenModel, stack)
    BY <1>8, <2>3, CutHolds
  <2> QED BY <2>1, <2>2, <2>4
<1>10. TrailInv'
  <2>1. TrailFits(trail', trail_lim', level)
    BY <1>9 DEF TrailHolds
  <2>2. Decided(trail', trail_lim', level, reason, assumptions) /\ Deduced(trail', stack', level, reason)
    BY <1>6, <2>1, NoLevels
  <2> QED BY <1>1, <1>9, <2>2, GivenFacts DEF TrailInv, TrailHolds
<1>11. /\ TheoryHolds' /\ Len(stack') = 0 /\ declared' = declared
       /\ Len(th_deductions') <= Len(th_deductions)
       /\ \A d \in 1 .. Len(th_deductions') : th_deductions'[d] = th_deductions[d]
  <2>1. TheoryHolds /\ StackKnown
    BY KnownStack DEF SearchInv, TheoryInv
  <2>2. Len(stack') = (IF 0 < Len(stack) THEN 0 ELSE Len(stack))
    BY <1>1, <2>1, BacktrackKeeps
  <2>3. Len(stack') = 0
    BY <2>2, TrailLevels
  <2> QED BY <1>1, <2>1, <2>3, BacktrackKeeps
<1>12. stack' = <<>>
  BY <1>11 DEF TheoryHolds
<1>13. TheoryInv'
  BY <1>3, <1>4, <1>11 DEF TheoryInv, TheoryHolds, StackFits
<1>14. ClauseInv'
  BY ClauseSame DEF SearchInv, clauseVars
<1>15. splits' = <<>> /\ propData' = <<>>
  BY DEF SearchInv, PhaseInv
<1>16. SplitInv'
  BY <1>15, NoSplits
<1>17. PhaseInv' /\ AnalyzeInv' /\ FinalInv'
  BY <1>1, <1>12, <1>15 DEF PhaseInv, Outside, AnalyzeInv, FinalInv
<1>18. QueueInv'
  <2>1. qhead' \in 0 .. Len(trail')
    BY <1>1, <1>3, <1>4 DEF SearchInv, QueueInv
  <2>2. pc' = "idle" /\ visit' = {} /\ Len(trail_lim') = 0
    BY <1>1, <1>6
  <2> QED BY <2>1, <2>2 DEF QueueInv, decisionLevel
<1>19. Mentioned \subseteq Mentioned'
  <2>1. Len(trail') = IF Len(trail_lim') < Len(trail_lim) THEN trail_lim[Len(trail_lim') + 1] ELSE Len(trail)
    BY <1>3, <1>4, <1>6 DEF decisionLevel
  <2>2. ASSUME NEW i \in 1 .. Len(trail), level[var(trail[i])] = 0
        PROVE  i \in 1 .. Len(trail') /\ trail'[i] = trail[i]
    BY <1>6, <1>7, <2>1, <2>2, ZeroStays
  <2> QED BY <1>1, <2>2, MentionedGrows
<1>20. KnownInv'
  <2>1. Outside'
    BY <1>1 DEF Outside
  <2>2. splits = <<>>
    BY <1>15
  <2>3. \A c \in learnts : AtomsIn(c) \subseteq Mentioned
    BY <2>2 DEF SearchInv, KnownInv
  <2> QED BY <1>11, <1>19, <2>1, <2>3 DEF SearchInv, KnownInv
<1>21. AnswerInv'
  BY GivenFacts DEF SearchInv, AnswerInv
<1> QED
  BY <1>10, <1>13, <1>14, <1>16, <1>17, <1>18, <1>20, <1>21 DEF SearchInv

\* Where solve may return from.
LEMMA ReturnPhase ==
  ASSUME SearchInv, pc \in {"loop", "conflict", "checkTheory", "deduce", "final"}, pc = "conflict" => after # "add"
  PROVE  ~Outside /\ pc # "split"
BY DEF SearchInv, PhaseInv, Outside

\* search returns because opensmt::stop is set.
LEMMA SearchStoppedKeeps == SearchInv /\ SearchStopped => SearchInv'
<1> SUFFICES ASSUME SearchInv, SearchStopped PROVE SearchInv'
  OBVIOUS
<1>1. /\ pc = "loop" /\ Return("undef")
      /\ UNCHANGED <<given, clauses, learnts, watched, splits, propData, decision, assumptions, after>>
  BY DEF SearchStopped, clauseVars, splitVars, callVars
<1>2. ok' /\ UnsatCorrect'
  BY <1>1 DEF Return, UnsatCorrect
<1> QED
  BY <1>1, <1>2, ReturnPhase, ReturnKeeps

\* search returns sat.
LEMMA SearchSatKeeps == SearchInv /\ SearchSat => SearchInv'
<1> SUFFICES ASSUME SearchInv, SearchSat PROVE SearchInv'
  OBVIOUS
<1>1. /\ pc = "deduce" /\ Return("sat")
      /\ UNCHANGED <<given, clauses, learnts, watched, splits, propData, decision, assumptions, after>>
  BY DEF SearchSat, clauseVars, splitVars, callVars
<1>2. ok' /\ UnsatCorrect'
  BY <1>1 DEF Return, UnsatCorrect
<1> QED
  BY <1>1, <1>2, ReturnPhase, ReturnKeeps

\* A conflict at level zero: there is no model.
LEMMA ZeroLevelConflictKeeps == SearchInv /\ ZeroLevelConflict => SearchInv'
<1> SUFFICES ASSUME SearchInv, ZeroLevelConflict PROVE SearchInv'
  OBVIOUS
<1>1. /\ pc = "conflict" /\ after # "add" /\ decisionLevel = 0 /\ Return("unsat")
      /\ UNCHANGED <<given, clauses, learnts, watched, splits, propData, decision, assumptions, after>>
  BY DEF ZeroLevelConflict, clauseVars, splitVars, callVars
<1>2. confl \in SUBSET Lit /\ Implied(confl, GivenModel) /\ AllFalse(confl)
  BY <1>1 DEF SearchInv, AnalyzeInv
<1>3. \A l \in confl : level[var(l)] = 0
  BY <1>1, <1>2, FalseLevels
<1>4. GivenModel = {}
  BY <1>2, <1>3, FalseAtZero
<1>5. UnsatCorrect'
  BY <1>1, <1>4, GivenFacts DEF UnsatCorrect
<1> QED
  BY <1>1, <1>4, <1>5, ReturnPhase, ReturnKeeps

\* The literals of a theory conflict are on the trail.
LEMMA ConflictOnTrail ==
  ASSUME SearchInv, NEW t \in Conflicts
  PROVE  /\ t \in TheoryConflict /\ t \in SUBSET Lit
         /\ \A l \in t : \E j \in 1 .. Len(trail) : trail[j] = l
         /\ \A l \in t : level[var(l)] \in 0 .. decisionLevel
<1>1. t \in TheoryConflict /\ t \subseteq Told(Len(stack))
  BY DEF Conflicts
<1>2. t \in SUBSET Lit
  BY <1>1, ConflictFacts
<1>3. ASSUME NEW l \in t PROVE \E j \in 1 .. Len(trail) : trail[j] = l
  <2>1. PICK j \in 1 .. Len(stack) : stack[j] = l
    BY <1>1 DEF Told
  <2>2. j \in 1 .. Len(trail) /\ stack[j] = trail[j]
    BY TrailLevels DEF SearchInv, TheoryInv, StackFits
  <2> QED BY <2>1, <2>2
<1>4. \A l \in t : level[var(l)] \in 0 .. decisionLevel
  BY <1>3, TrailLevels
<1> QED
  BY <1>1, <1>2, <1>3, <1>4

\* A conflict of the theory at level zero: there is no model.
LEMMA TheoryUnsatZeroKeeps ==
  ASSUME SearchInv, NEW t \in TheoryConflict, TheoryUnsatZero(t)
  PROVE  SearchInv'
<1>1. /\ pc = "checkTheory" /\ t \in Conflicts /\ (decisionLevel = 0 \/ MaxLevel(t) = 0) /\ Return("unsat")
      /\ UNCHANGED <<given, clauses, learnts, watched, splits, propData, decision, assumptions, after>>
  BY DEF TheoryUnsatZero, clauseVars, splitVars, callVars
<1>2. /\ t \in SUBSET Lit /\ \A l \in t : \E j \in 1 .. Len(trail) : trail[j] = l
      /\ \A l \in t : level[var(l)] \in 0 .. decisionLevel
  BY <1>1, ConflictOnTrail
<1>3. \A l \in t : level[var(l)] = 0
  <2>1. \A l \in t : level[var(l)] <= MaxLevel(t)
    BY <1>2, MaxLevelFacts, TrailLevels
  <2> QED BY <1>1, <1>2, <2>1
<1>4. GivenModel = {}
  <2> SUFFICES ASSUME NEW m \in GivenModel PROVE FALSE
    OBVIOUS
  <2>1. \A l \in t : l \in m
    BY <1>2, <1>3 DEF SearchInv, TrailInv, TrailHolds, Zero
  <2> QED BY <2>1, GivenFacts, ModelFacts
<1>5. UnsatCorrect'
  BY <1>1, <1>4, GivenFacts DEF UnsatCorrect
<1> QED
  BY <1>1, <1>4, <1>5, ReturnPhase, ReturnKeeps

\* analyzeFinal ends: every model contradicts an assumption.
LEMMA FinalDoneKeeps == SearchInv /\ FinalDone => SearchInv'
<1> SUFFICES ASSUME SearchInv, FinalDone PROVE SearchInv'
  OBVIOUS
<1>1. /\ pc = "final" /\ seen = {} /\ conflict_frame' = ConflictFrame /\ Return("unsat")
      /\ UNCHANGED <<given, clauses, learnts, watched, splits, propData, decision, assumptions, after>>
  BY DEF FinalDone, clauseVars, splitVars, callVars
<1>2. \A m \in GivenModel : ~(Range(assumptions) \subseteq m)
  BY <1>1 DEF SearchInv, FinalInv
<1>3. UnsatCorrect'
  BY <1>1, <1>2, GivenFacts DEF UnsatCorrect
<1>4. conflict_frame' # 0
  <2>1. PICK n \in Nat : n = Len(assumptions)
    BY DEF SearchInv, AnswerInv
  <2>2. ASSUME NEW v PROVE assumptions_order(v) \in 0 .. n
    <3>1. PICK i : assumptions_order(v) = Cardinality({j \in Active : j < i})
      BY DEF assumptions_order
    <3>2. {j \in Active : j < i} \in SUBSET (1 .. n)
      BY <2>1 DEF Active
    <3>3. IsFiniteSet(1 .. n) /\ Cardinality(1 .. n) = n
      BY FS_Interval
    <3>4. IsFiniteSet({j \in Active : j < i}) /\ Cardinality({j \in Active : j < i}) <= n
      BY <3>2, <3>3, FS_Subset
    <3> QED BY <3>1, <3>4, FS_CardinalityType
  <2>3. PICK S : S = {0} \cup {assumptions_order(l) : l \in {k \in conflict : k > 0}}
    OBVIOUS
  <2>4. S \in SUBSET (0 .. n) /\ S # {}
    BY <2>2, <2>3
  <2>5. Max(S) \in 0 .. n
    BY <2>4, MaxNat
  <2> QED BY <1>1, <2>3, <2>5 DEF ConflictFrame
<1> QED
  BY <1>1, <1>3, <1>4, ReturnPhase, ReturnKeeps

\* Clauses are removed, and reasons of level zero forgotten.
LEMMA SimplifyKeeps == SearchInv /\ Simplify => SearchInv'
<1> SUFFICES ASSUME SearchInv, Simplify PROVE SearchInv'
  OBVIOUS
<1>1. PICK gone : gone = {c \in learnts : Satisfied(c)}
  OBVIOUS
<1>2. /\ pc = "consistent" /\ decisionLevel = 0 /\ clauses' = clauses /\ learnts' = learnts \ gone
      /\ watched' = [c \in DOMAIN watched \ (gone \ clauses) |-> watched[c]]
      /\ DOMAIN reason' = Var
      /\ \A v \in Var : reason'[v] = CRef_Undef \/ reason'[v] = reason[v]
      /\ UNCHANGED <<stack, points, th_deductions, deductions_next, declared>>
      /\ UNCHANGED <<given, splits, propData, decision, assumptions>>
      /\ UNCHANGED <<trail, trail_lim, level, qhead, visit, pc, after, ok, conflict_frame, answer>>
  BY <1>1 DEF Simplify, remove_satisfied, Detached, theoryVars, resultVars, splitVars, callVars
<1>3. TrailInv'
  <2>1. \A i \in 1 .. Len(trail) : level[var(trail[i])] = 0 /\ var(trail[i]) \in Var
    BY <1>2, TrailLevels, LitFacts
  <2>2. TrailHolds(trail, trail_lim, level, reason, assumptions, GivenModel, stack)
    BY DEF SearchInv, TrailInv
  <2>3. PICK rs2 : rs2 = reason'
    OBVIOUS
  <2>4. DOMAIN rs2 = Var
    BY <1>2, <2>3
  <2>5. \A i \in 1 .. Len(trail) : \/ rs2[var(trail[i])] = reason[var(trail[i])]
                                   \/ rs2[var(trail[i])] = CRef_Undef /\ level[var(trail[i])] = 0
    BY <1>2, <2>1, <2>3
  <2>6. TrailHolds(trail, trail_lim, level, rs2, assumptions, GivenModel, stack)
    BY <2>2, <2>4, <2>5, OtherReasonsHold
  <2> QED BY <1>2, <2>3, <2>6, GivenFacts DEF TrailInv
<1>4. clauses' \cup learnts' \subseteq clauses \cup learnts /\ DOMAIN watched' = clauses' \cup learnts'
      /\ \A c \in DOMAIN watched' : watched'[c] = watched[c]
  BY <1>1, <1>2 DEF SearchInv, ClauseInv
<1>5. ClauseInv'
  BY <1>2, <1>4, GivenFacts DEF SearchInv, ClauseInv
<1>6. visit = {} /\ splits = <<>> /\ propData = <<>> /\ ~Outside /\ ~Outside'
  BY <1>2 DEF SearchInv, PhaseInv, Outside
<1>7. KnownInv'
  BY <1>2, <1>4, <1>6 DEF SearchInv, KnownInv, Mentioned
<1>8. TheoryInv'
  BY <1>2, TheorySame DEF SearchInv, TheoryInv, TheoryHolds
<1>9. SplitInv' /\ AnswerInv'
  BY <1>2, <1>6, NoSplits, AnswerSame DEF SearchInv
<1>10. PhaseInv' /\ AnalyzeInv' /\ FinalInv'
  BY <1>2, <1>6 DEF SearchInv, PhaseInv, Outside, AnalyzeInv, FinalInv
<1>11. QueueInv'
  BY <1>2, <1>6 DEF SearchInv, QueueInv, decisionLevel
<1> QED
  BY <1>3, <1>5, <1>7, <1>8, <1>9, <1>10, <1>11 DEF SearchInv

\* reduceDB removes learnt clauses.
LEMMA ReduceDBKeeps == SearchInv /\ ReduceDB => SearchInv'
<1> SUFFICES ASSUME SearchInv, ReduceDB PROVE SearchInv'
  OBVIOUS
<1>1. PICK gone \in SUBSET Reducible : learnts' = learnts \ gone /\ watched' = Detached(gone \ clauses)
  BY DEF ReduceDB
<1>2. /\ pc = "consistent" /\ clauses' = clauses
      /\ watched' = [c \in DOMAIN watched \ (gone \ clauses) |-> watched[c]]
      /\ UNCHANGED <<stack, points, th_deductions, deductions_next, declared>>
      /\ UNCHANGED <<given, splits, propData, decision, assumptions>>
      /\ UNCHANGED <<trail, trail_lim, level, reason, qhead, visit, pc, after, ok, conflict_frame, answer>>
  BY <1>1 DEF ReduceDB, Detached, theoryVars, resultVars, splitVars, callVars, trailVars
<1>3. TrailInv'
  BY <1>2, TrailSame DEF SearchInv
<1>4. clauses' \cup learnts' \subseteq clauses \cup learnts /\ DOMAIN watched' = clauses' \cup learnts'
      /\ \A c \in DOMAIN watched' : watched'[c] = watched[c]
  BY <1>1, <1>2 DEF SearchInv, ClauseInv, Reducible
<1>5. ClauseInv'
  BY <1>2, <1>4, GivenFacts DEF SearchInv, ClauseInv
<1>6. visit = {} /\ splits = <<>> /\ propData = <<>> /\ ~Outside /\ ~Outside'
  BY <1>2 DEF SearchInv, PhaseInv, Outside
<1>7. KnownInv'
  BY <1>2, <1>4, <1>6 DEF SearchInv, KnownInv, Mentioned
<1>8. TheoryInv'
  BY <1>2, TheorySame DEF SearchInv, TheoryInv, TheoryHolds
<1>9. SplitInv' /\ AnswerInv'
  BY <1>2, <1>6, NoSplits, AnswerSame DEF SearchInv
<1>10. PhaseInv' /\ AnalyzeInv' /\ FinalInv'
  BY <1>2, <1>6 DEF SearchInv, PhaseInv, Outside, AnalyzeInv, FinalInv
<1>11. QueueInv'
  BY <1>2, <1>6 DEF SearchInv, QueueInv, decisionLevel
<1> QED
  BY <1>3, <1>5, <1>7, <1>8, <1>9, <1>10, <1>11 DEF SearchInv

-----------------------------------------------------------------------------
\* The theory is told a literal, and deduces others, or refutes the trail.
LEMMA TheoryAssertKeeps == SearchInv /\ TheoryAssert => SearchInv'
<1> SUFFICES ASSUME SearchInv, TheoryAssert PROVE SearchInv'
  OBVIOUS
<1>1. PICK l : l = trail[Len(stack) + 1]
  OBVIOUS
<1>2. /\ pc = "checkTheory" /\ Len(stack) < Len(trail) /\ AssertLit(l)
      /\ UNCHANGED <<given, clauses, learnts, watched, splits, propData, decision, assumptions>>
      /\ UNCHANGED <<trail, trail_lim, level, reason, qhead, visit, pc, after, ok, conflict_frame, answer>>
  BY <1>1 DEF TheoryAssert, clauseVars, resultVars, splitVars, callVars, trailVars
<1>3. UNCHANGED <<deductions_next, declared>> /\ stack' = Append(stack, l)
  BY <1>2 DEF AssertLit
<1>4. ~Outside /\ ~Outside' /\ visit = {} /\ splits = <<>> /\ propData = <<>>
  BY <1>2 DEF SearchInv, PhaseInv, Outside
<1>5. PICK n \in Nat : n = Len(stack)
  BY TrailLevels
<1>6. n + 1 \in 1 .. Len(trail)
  BY <1>2, <1>5, TrailLevels
<1>7. l \in Lit /\ (var(l) \in TheoryVar <=> var(l) \in declared)
  BY <1>1, <1>4, <1>5, <1>6, TrailLevels DEF SearchInv, KnownInv
<1>8. /\ TheoryHolds' /\ StackFits(stack, stack')
      /\ \A d \in 1 .. Len(th_deductions') :
           \/ d \in 1 .. Len(th_deductions) /\ th_deductions'[d] = th_deductions[d]
           \/ var(th_deductions'[d]) \in declared
  BY <1>2, <1>7, KnownStack, AssertKeeps DEF SearchInv, TheoryInv
<1>9. PICK su : su = stack'
  OBVIOUS
<1>10. su \in Seq(Lit) /\ Len(su) = n + 1 /\ su[n + 1] = l /\ \A i \in 1 .. n : su[i] = stack[i]
  BY <1>3, <1>5, <1>7, <1>9, AppendParts, TrailLevels
<1>11. StackFits(su, trail)
  BY <1>1, <1>5, <1>6, <1>10 DEF SearchInv, TheoryInv, StackFits
<1>12. TheoryInv'
  BY <1>2, <1>8, <1>9, <1>11 DEF TheoryInv
<1>13. TrailInv'
  <2>1. TrailHolds(trail, trail_lim, level, reason, assumptions, GivenModel, stack)
    BY DEF SearchInv, TrailInv
  <2>2. StackFits(stack, su) /\ su \in Seq(Lit)
    BY <1>8, <1>9, <1>10
  <2>3. TrailHolds(trail, trail_lim, level, reason, assumptions, GivenModel, su)
    BY <2>1, <2>2, LongerStackHolds
  <2> QED BY <1>2, <1>9, <2>3, GivenFacts DEF TrailInv
<1>14. ClauseInv' /\ AnswerInv' /\ SplitInv'
  BY <1>2, <1>4, ClauseSame, AnswerSame, NoSplits DEF SearchInv, clauseVars
<1>15. KnownInv'
  <2>1. \A d \in 1 .. Len(th_deductions') : var(th_deductions'[d]) \in declared
    BY <1>4, <1>8 DEF SearchInv, KnownInv
  <2> QED BY <1>2, <1>3, <1>4, <2>1 DEF SearchInv, KnownInv, Mentioned
<1>16. PhaseInv' /\ AnalyzeInv' /\ FinalInv'
  BY <1>2, <1>4 DEF SearchInv, PhaseInv, Outside, AnalyzeInv, FinalInv
<1>17. QueueInv'
  BY <1>2, <1>4 DEF SearchInv, QueueInv, decisionLevel
<1> QED
  BY <1>12, <1>13, <1>14, <1>15, <1>16, <1>17 DEF SearchInv

\* What going back to level lev without more keeps during a search.
LEMMA CancelKeeps ==
  ASSUME SearchInv, NEW lev \in 0 .. decisionLevel, CancelUntil(lev), NEW u,
         u = SubSeq(trail, 1, EndOf(lev)), ~Outside
  PROVE  /\ \A i \in 1 .. Len(u) : i \in 1 .. Len(trail) /\ u[i] = trail[i]
         /\ \A i \in 1 .. Len(trail) : level[var(trail[i])] <= lev => i \in 1 .. Len(u) /\ u[i] = trail[i]
         /\ \A l \in Lit : (\E i \in 1 .. Len(trail) : trail[i] = -l) /\ level[var(l)] <= lev => FalseBefore(u, Len(u), l)
         /\ \A d \in 1 .. Len(th_deductions') : var(th_deductions'[d]) \in declared
<1>1. PICK w : w = trail_lim'
  OBVIOUS
<1>2. /\ Cut(u, w, trail, trail_lim) /\ Len(w) = lev
      /\ Len(u) = IF lev < Len(trail_lim) THEN trail_lim[lev + 1] ELSE Len(trail)
      /\ Len(th_deductions') <= Len(th_deductions)
      /\ \A d \in 1 .. Len(th_deductions') : th_deductions'[d] = th_deductions[d]
  BY <1>1, CancelFacts
<1>3. \A i \in 1 .. Len(u) : i \in 1 .. Len(trail) /\ u[i] = trail[i]
  BY <1>2, TrailLevels DEF Cut, StackFits
<1>4. ASSUME NEW i \in 1 .. Len(trail), level[var(trail[i])] <= lev
      PROVE  i \in 1 .. Len(u) /\ u[i] = trail[i]
  BY <1>2, <1>4, ZeroStays
<1>5. ASSUME NEW l \in Lit, \E i \in 1 .. Len(trail) : trail[i] = -l, level[var(l)] <= lev
      PROVE  FalseBefore(u, Len(u), l)
  <2>1. PICK i \in 1 .. Len(trail) : trail[i] = -l
    BY <1>5
  <2>2. level[var(trail[i])] <= lev
    BY <1>5, <2>1, LitFacts
  <2> QED BY <1>4, <2>1, <2>2 DEF FalseBefore
<1>6. \A d \in 1 .. Len(th_deductions') : d \in 1 .. Len(th_deductions)
  BY <1>2 DEF SearchInv, TheoryInv, TheoryHolds, PointsFit
<1>7. \A d \in 1 .. Len(th_deductions') : var(th_deductions'[d]) \in declared
  BY <1>2, <1>6 DEF SearchInv, KnownInv
<1> QED
  BY <1>3, <1>4, <1>5, <1>7

\* A theory solver reports a conflict; the search goes back to its highest level.
LEMMA TheoryUnsatKeeps ==
  ASSUME SearchInv, NEW t \in TheoryConflict, TheoryUnsat(t)
  PROVE  SearchInv'
<1>1. PICK lev : lev = MaxLevel(t)
  OBVIOUS
<1>2. /\ pc = "checkTheory" /\ t \in Conflicts /\ decisionLevel > 0 /\ lev > 0
      /\ trail' = SubSeq(trail, 1, EndOf(lev)) /\ CancelUntil(lev)
      /\ confl' = Negated(t) /\ p' = 0 /\ seen' = {} /\ pc' = "analyze"
      /\ UNCHANGED <<given, clauses, learnts, watched, splits, propData, decision, assumptions>>
      /\ UNCHANGED <<level, reason, visit, after, ok, conflict_frame, answer>>
  BY <1>1 DEF TheoryUnsat, ConflictLevel, clauseVars, resultVars, splitVars, callVars
<1>3. ~Outside /\ ~Outside' /\ visit = {} /\ splits = <<>> /\ propData = <<>>
  BY <1>2 DEF SearchInv, PhaseInv, Outside
<1>4. /\ t \in SUBSET Lit /\ \A l \in t : \E j \in 1 .. Len(trail) : trail[j] = l
      /\ \A l \in t : level[var(l)] \in 0 .. decisionLevel
  BY <1>2, ConflictOnTrail
<1>5. lev \in 0 .. decisionLevel /\ (\A l \in t : level[var(l)] <= lev) /\ \E l \in t : level[var(l)] = lev
  BY <1>1, <1>2, <1>4, MaxLevelFacts, TrailLevels
<1>6. PICK u : u = trail'
  OBVIOUS
<1>7. /\ Len(trail_lim') = lev /\ TheoryHolds' /\ StackFits(stack', u) /\ declared' = declared
      /\ TrailHolds(u, trail_lim', level, reason, assumptions, GivenModel, stack')
      /\ qhead' \in 0 .. Len(u) /\ (lev > 0 => trail_lim'[lev] <= qhead')
  BY <1>2, <1>5, <1>6, CancelFacts
<1>8. /\ \A i \in 1 .. Len(u) : i \in 1 .. Len(trail) /\ u[i] = trail[i]
      /\ \A i \in 1 .. Len(trail) : level[var(trail[i])] <= lev => i \in 1 .. Len(u) /\ u[i] = trail[i]
      /\ \A l \in Lit : (\E i \in 1 .. Len(trail) : trail[i] = -l) /\ level[var(l)] <= lev => FalseBefore(u, Len(u), l)
      /\ \A d \in 1 .. Len(th_deductions') : var(th_deductions'[d]) \in declared
  BY <1>2, <1>3, <1>5, <1>6, CancelKeeps
<1>9. TrailInv' /\ TheoryInv'
  BY <1>2, <1>6, <1>7, GivenFacts DEF TrailInv, TheoryInv
<1>10. ClauseInv' /\ AnswerInv' /\ SplitInv'
  BY <1>2, <1>3, ClauseSame, AnswerSame, NoSplits DEF SearchInv, clauseVars
<1>11. PhaseInv' /\ FinalInv'
  BY <1>2, <1>3 DEF SearchInv, PhaseInv, FinalInv, Outside
<1>12. QueueInv'
  <2>1. pc' = "analyze" /\ visit' = {} /\ Len(trail_lim') = lev /\ qhead' \in 0 .. Len(trail')
        /\ (lev > 0 => trail_lim'[lev] <= qhead')
    BY <1>2, <1>3, <1>6, <1>7
  <2> QED BY <2>1 DEF QueueInv, decisionLevel
<1>13. Mentioned \subseteq Mentioned'
  <2>1. \A i \in 1 .. Len(trail) : level[var(trail[i])] = 0 => level[var(trail[i])] <= lev
    BY <1>5
  <2> QED BY <1>2, <1>6, <1>8, <2>1, MentionedGrows
<1>14. KnownInv'
  BY <1>2, <1>3, <1>6, <1>7, <1>8, <1>13 DEF SearchInv, KnownInv
<1>15. AnalyzeInv'
  <2>1. /\ Negated(t) \subseteq Lit /\ Implied(Negated(t), GivenModel)
        /\ \A k \in Lit : k \in Negated(t) <=> -k \in t
        /\ \A k \in Negated(t) : k \in Lit /\ -k \in t
    BY NegatedConflict, GivenFacts
  <2>2. seen' \cup (confl' \ {p'}) = Negated(t)
    BY <1>2, <2>1, LitFacts
  <2>3. ASSUME NEW k \in Negated(t) PROVE FalseBefore(u, Len(u), k)
    <3>1. k \in Lit /\ -k \in t
      BY <2>1
    <3>2. level[var(k)] <= lev
      BY <1>5, <3>1, LitFacts
    <3> QED BY <1>4, <1>8, <3>1, <3>2
  <2>4. \E k \in Negated(t) : level[var(k)] = lev
    <3>1. PICK l \in t : level[var(l)] = lev
      BY <1>5
    <3>2. l \in Lit /\ -l \in Lit /\ -(-l) = l /\ var(-l) = var(l)
      BY <1>4, LitFacts
    <3> QED BY <2>1, <3>1, <3>2
  <2>5. AllFalse(Negated(t))' /\ AtCurrentLevel(Negated(t))'
    BY <1>2, <1>6, <1>7, <2>3, <2>4 DEF AllFalse, AtCurrentLevel, decisionLevel
  <2>6. decisionLevel' > 0 /\ GivenModel' = GivenModel
    BY <1>2, <1>7, GivenFacts DEF decisionLevel
  <2> QED BY <1>2, <2>1, <2>2, <2>5, <2>6 DEF AnalyzeInv
<1> QED
  BY <1>9, <1>10, <1>11, <1>12, <1>14, <1>15 DEF SearchInv

\* The search takes the next deduction of the theory, which is enqueued if it is not assigned.
LEMMA DeduceNextKeeps == SearchInv /\ DeduceNext => SearchInv'
<1> SUFFICES ASSUME SearchInv, DeduceNext PROVE SearchInv'
  OBVIOUS
<1>1. PICK l : l = th_deductions[deductions_next + 1]
  OBVIOUS
<1>2. /\ pc = "deduce" /\ deductions_next < Len(th_deductions) /\ deductions_next' = deductions_next + 1
      /\ IF Unassigned(l) THEN EnqueueOn(trail, l, CRef_Fake, decisionLevel)
                          ELSE UNCHANGED <<trail, level, reason>>
      /\ UNCHANGED <<stack, points, th_deductions, declared>>
      /\ UNCHANGED <<given, clauses, learnts, watched, splits, propData, decision, assumptions>>
      /\ UNCHANGED <<trail_lim, qhead, visit, pc, after, ok, conflict_frame, answer>>
  BY <1>1 DEF DeduceNext, clauseVars, resultVars, splitVars, callVars
<1>3. ~Outside /\ ~Outside' /\ visit = {} /\ splits = <<>> /\ propData = <<>>
  BY <1>2 DEF SearchInv, PhaseInv, Outside
<1>4. /\ deductions_next \in Nat /\ th_deductions \in Seq(Lit)
      /\ \A d \in 1 .. Len(th_deductions) : Explained(stack, th_deductions[d], Len(stack))
  BY DEF SearchInv, TheoryInv, TheoryHolds, PointsFit
<1>5. deductions_next + 1 \in 1 .. Len(th_deductions) /\ deductions_next' \in Nat
  BY <1>2, <1>4
<1>6. l \in Lit /\ Explained(stack, l, Len(stack)) /\ var(l) \in declared
  BY <1>1, <1>3, <1>4, <1>5 DEF SearchInv, KnownInv
<1>7. ClauseInv' /\ AnswerInv' /\ SplitInv'
  BY <1>2, <1>3, ClauseSame, AnswerSame, NoSplits DEF SearchInv, clauseVars
<1>8. PhaseInv' /\ AnalyzeInv' /\ FinalInv'
  BY <1>2, <1>3 DEF SearchInv, PhaseInv, AnalyzeInv, FinalInv, Outside
<1>9. CASE ~Unassigned(l)
  <2>1. UNCHANGED <<trail, level, reason>>
    BY <1>2, <1>9
  <2>2. TrailInv' /\ TheoryInv' /\ KnownInv'
    BY <1>2, <1>3, <1>5, <2>1, TrailSame, TheorySame, KnownSame DEF SearchInv
  <2>3. QueueInv'
    BY <1>2, <1>3, <2>1 DEF SearchInv, QueueInv, decisionLevel
  <2> QED BY <1>7, <1>8, <2>2, <2>3 DEF SearchInv
<1>10. CASE Unassigned(l)
  <2>1. EnqueueOn(trail, l, CRef_Fake, decisionLevel) /\ Fresh(trail, l)
    BY <1>2, <1>6, <1>10, TrailLevels, ValueFacts
  <2>2. MayEnqueue(trail, trail_lim, l, CRef_Fake, assumptions, GivenModel, stack)
    <3>1. Explained(stack, l, Len(trail))
      <4>1. \A j \in 1 .. Len(stack) : j <= Len(stack) => j <= Len(stack) /\ stack[j] = stack[j]
        OBVIOUS
      <4> QED BY <1>6, <4>1, ExplainedBefore, TrailLevels
    <3>2. Len(trail_lim) = 0 => \A m \in GivenModel : l \in m
      BY <1>6, DeducedZero, GivenFacts, TrailLevels DEF SearchInv, TrailInv, TrailHolds, TheoryInv
    <3> QED BY <2>1, <3>1, <3>2 DEF MayEnqueue, CRef_Fake, CRef_Undef
  <2>3. /\ TrailInv' /\ Extends(trail', trail, l)
        /\ \A i \in 1 .. Len(trail) :
             i \in 1 .. Len(trail') /\ trail'[i] = trail[i] /\ level'[var(trail[i])] = level[var(trail[i])]
        /\ \A i \in 1 .. Len(trail') : i \in 1 .. Len(trail) \/ trail'[i] = l
        /\ StackFits(stack, trail')
    BY <1>2, <2>1, <2>2, EnqueueKeepsTrail
  <2>4. TheoryInv'
    BY <1>2, <1>5, <2>3 DEF SearchInv, TheoryInv, TheoryHolds
  <2>5. Mentioned \subseteq Mentioned'
    BY <1>2, <2>3, MentionedGrows
  <2>6. KnownInv'
    <3>1. \A i \in 1 .. Len(trail') : var(trail'[i]) \in TheoryVar => var(trail'[i]) \in declared
      BY <1>3, <1>6, <2>3 DEF SearchInv, KnownInv
    <3> QED BY <1>2, <1>3, <2>5, <3>1 DEF SearchInv, KnownInv
  <2>7. QueueInv'
    <3>1. Len(trail') = Len(trail) + 1 /\ qhead \in 0 .. Len(trail) /\ Len(stack') # Len(trail')
      BY <1>2, <2>3, TrailLevels DEF Extends, SearchInv, QueueInv
    <3>2. pc' = "deduce" /\ visit' = {} /\ UNCHANGED <<trail_lim, qhead>> /\ qhead' \in 0 .. Len(trail')
      BY <1>2, <1>3, <3>1, TrailLevels
    <3> QED BY <3>1, <3>2 DEF SearchInv, QueueInv, decisionLevel
  <2> QED BY <1>7, <1>8, <2>3, <2>4, <2>6, <2>7 DEF SearchInv
<1> QED
  BY <1>9, <1>10

-----------------------------------------------------------------------------
\* Splitting on demand.
LEMMA JustifiesLonger ==
  ASSUME NEW t, NEW u, NEW n \in Nat, NEW k \in Nat, n <= k, NEW r, NEW l, NEW M,
         \A j \in 1 .. n : u[j] = t[j], Justifies(r, t, n, l, M)
  PROVE  Justifies(r, u, k, l, M)
<1>1. \A x : FalseBefore(t, n, x) => FalseBefore(u, k, x)
  BY DEF FalseBefore
<1> QED
  BY <1>1 DEF Justifies

\* The theory sends lemmas.
LEMMA TheorySplitKeeps ==
  ASSUME SearchInv, NEW S \in SUBSET SplitClause, TheorySplit(S)
  PROVE  SearchInv'
<1>1. /\ pc = "checkTheory" /\ after = "complete"
      /\ declared' = declared \cup (TheoryVar \cap UNION {Vars(c) : c \in S})
      /\ deductions_next' = Len(th_deductions) /\ propData' = <<>> /\ pc' = "split"
      /\ UNCHANGED <<stack, points, th_deductions>>
      /\ UNCHANGED <<given, clauses, learnts, watched, decision, assumptions>>
      /\ UNCHANGED <<trail, trail_lim, level, reason, qhead, visit, after, ok, conflict_frame, answer>>
  BY DEF TheorySplit, clauseVars, resultVars, callVars, trailVars
<1>2. splits' \in [1 .. Cardinality(S) -> S] /\ Range(splits') = S
  BY DEF TheorySplit
<1>3. ~Outside /\ ~Outside' /\ visit = {} /\ splits = <<>>
  BY <1>1 DEF SearchInv, PhaseInv, Outside
<1>4. Cardinality(S) \in Nat
  <2>1. IsFiniteSet(Lit)
    BY LitFinite
  <2>2. IsFiniteSet(SUBSET Lit)
    BY <2>1, FS_SUBSET
  <2>3. S \subseteq SUBSET Lit
    BY ClauseAssumption
  <2>4. IsFiniteSet(S)
    BY <2>2, <2>3, FS_Subset
  <2> QED BY <2>4, FS_CardinalityType
<1>5. PICK sq : sq = splits'
  OBVIOUS
<1>6. PICK n \in Nat : n = Cardinality(S)
  BY <1>4
<1>7. sq \in [1 .. n -> S] /\ sq \in Seq(SplitClause) /\ Len(sq) = n /\ \A k \in 1 .. n : sq[k] \in S
  BY <1>2, <1>5, <1>6
<1>8. \A c \in S : \E k \in 1 .. n : sq[k] = c
  BY <1>2, <1>5, <1>7 DEF Range
<1>9. TrailInv' /\ ClauseInv' /\ AnswerInv'
  BY <1>1, TrailSame, ClauseSame, AnswerSame DEF SearchInv, clauseVars
<1>10. TheoryInv'
  <2>1. deductions_next' \in Nat
    BY <1>1 DEF SearchInv, TheoryInv, TheoryHolds, PointsFit
  <2> QED BY <1>1, <2>1, TheorySame DEF SearchInv
<1>11. SplitInv'
  BY <1>1, <1>5, <1>7 DEF SplitInv
<1>12. PhaseInv' /\ AnalyzeInv' /\ FinalInv'
  BY <1>1, <1>3 DEF SearchInv, PhaseInv, Outside, AnalyzeInv, FinalInv
<1>13. QueueInv'
  <2>1. qhead = Len(trail)
    BY <1>1 DEF SearchInv, QueueInv
  <2> QED BY <1>1, <1>3, <2>1 DEF SearchInv, QueueInv, decisionLevel
<1>14. KnownInv'
  <2>1. Mentioned' = Mentioned
    BY <1>1 DEF Mentioned
  <2>0. declared' = declared \cup (TheoryVar \cap UNION {Vars(c) : c \in S})
    BY <1>1
  <2>2. declared \subseteq declared' /\ declared' \subseteq TheoryVar
    <3>1. declared \subseteq TheoryVar
      BY DEF SearchInv, KnownInv
    <3> QED BY <2>0, <3>1
  <2>3. ASSUME NEW k \in 1 .. Len(sq) PROVE AtomsIn(sq[k]) \subseteq declared'
    <3>1. sq[k] \in S
      BY <1>7
    <3> QED BY <2>0, <3>1 DEF AtomsIn
  <2>4. ASSUME NEW v \in declared' PROVE v \in Mentioned' \/ \E k \in 1 .. Len(sq) : v \in Vars(sq[k])
    <3>1. CASE v \in declared
      BY <1>3, <2>1, <3>1 DEF SearchInv, KnownInv
    <3>2. CASE v \notin declared
      <4>1. PICK c \in S : v \in Vars(c)
        BY <1>1, <3>2
      <4> QED BY <1>7, <1>8, <4>1
    <3> QED BY <3>1, <3>2
  <2>5. /\ \A i \in 1 .. Len(trail) : var(trail[i]) \in TheoryVar => var(trail[i]) \in declared
        /\ \A c \in clauses \cup learnts : AtomsIn(c) \subseteq declared
        /\ decision \cap TheoryVar \subseteq declared
        /\ \A d \in 1 .. Len(th_deductions) : var(th_deductions[d]) \in declared
    BY <1>3 DEF SearchInv, KnownInv
  <2> QED BY <1>1, <1>3, <1>5, <2>2, <2>3, <2>4, <2>5 DEF KnownInv
<1> QED
  BY <1>9, <1>10, <1>11, <1>12, <1>13, <1>14 DEF SearchInv

\* The next lemma to handle and the ones after it.
LEMMA SplitHead ==
  ASSUME SearchInv, pc = "split", splits # <<>>, NEW c, c = Head(splits), NEW rest, rest = Tail(splits)
  PROVE  /\ c \in SplitClause /\ c \in SUBSET Lit /\ Implied(c, GivenModel) /\ Vars(c) \subseteq Var
         /\ AtomsIn(c) \subseteq declared /\ ~Outside
         /\ rest \in Seq(SplitClause)
         /\ \A k \in 1 .. Len(rest) : AtomsIn(rest[k]) \subseteq declared
         /\ \A v \in declared : v \in Mentioned \/ v \in Vars(c) \/ \E k \in 1 .. Len(rest) : v \in Vars(rest[k])
<1>1. splits \in Seq(SplitClause) /\ ~Outside
  BY DEF SearchInv, SplitInv, PhaseInv, Outside
<1>2. PICK n \in Nat : n = Len(splits)
  BY <1>1
<1>3. n > 0 /\ c = splits[1] /\ rest \in Seq(SplitClause) /\ Len(rest) = n - 1
      /\ \A k \in 1 .. n - 1 : rest[k] = splits[k + 1]
  BY <1>1, <1>2
<1>4. c \in SplitClause /\ c \in SUBSET Lit /\ Implied(c, GivenModel)
  BY <1>1, <1>2, <1>3, ClauseAssumption, GivenFacts DEF Implied
<1>5. Vars(c) \subseteq Var
  BY <1>4, LitFacts DEF Vars
<1>6. AtomsIn(c) \subseteq declared /\ \A k \in 1 .. Len(rest) : AtomsIn(rest[k]) \subseteq declared
  BY <1>1, <1>2, <1>3 DEF SearchInv, KnownInv
<1>7. ASSUME NEW v \in declared, v \notin Mentioned, v \notin Vars(c)
      PROVE  \E k \in 1 .. Len(rest) : v \in Vars(rest[k])
  <2>1. PICK j \in 1 .. n : v \in Vars(splits[j])
    BY <1>1, <1>2, <1>7 DEF SearchInv, KnownInv
  <2>2. j # 1
    BY <1>3, <1>7, <2>1
  <2>3. PICK k \in 1 .. n - 1 : j = k + 1
    BY <2>2
  <2> QED BY <1>3, <2>1, <2>3
<1> QED
  BY <1>1, <1>3, <1>4, <1>5, <1>6, <1>7

\* A clause is attached.
LEMMA AttachKeeps ==
  ASSUME SearchInv, NEW c \in SUBSET Lit, Implied(c, GivenModel), NEW a \in c, NEW b \in c, NEW pair, pair = <<a, b>>,
         watched' = Attached(c, pair), given' = given,
         clauses' \cup learnts' = (clauses \cup learnts) \cup {c}
  PROVE  ClauseInv' /\ DOMAIN watched \subseteq DOMAIN watched'
<1>1. DOMAIN watched = clauses \cup learnts
  BY DEF SearchInv, ClauseInv
<1>2. DOMAIN watched' = (clauses \cup learnts) \cup {c} /\ watched'[c] = pair
      /\ \A d \in DOMAIN watched : d # c => watched'[d] = watched[d]
  BY <1>1 DEF Attached
<1>3. pair \in Seq(c) /\ Len(pair) = 2
  OBVIOUS
<1>4. ASSUME NEW d \in clauses' \cup learnts'
      PROVE  d \subseteq Lit /\ Implied(d, GivenModel) /\ watched'[d] \in Seq(d) /\ Len(watched'[d]) = 2
  <2>1. CASE d = c
    BY <1>2, <1>3, <2>1
  <2>2. CASE d # c
    <3>1. d \in clauses \cup learnts
      BY <2>2
    <3>2. watched'[d] = watched[d]
      BY <1>1, <1>2, <2>2, <3>1
    <3>3. d \subseteq Lit /\ Implied(d, GivenModel) /\ watched[d] \in Seq(d) /\ Len(watched[d]) = 2
      BY <3>1 DEF SearchInv, ClauseInv
    <3> QED BY <3>2, <3>3
  <2> QED BY <2>1, <2>2
<1> QED
  BY <1>1, <1>2, <1>4, GivenFacts DEF SearchInv, ClauseInv

\* A lemma that implies nothing is attached.
LEMMA SplitAttachKeeps == SearchInv /\ SplitAttach => SearchInv'
<1> SUFFICES ASSUME SearchInv, SplitAttach PROVE SearchInv'
  OBVIOUS
<1>1. PICK c : c = Head(splits)
  OBVIOUS
<1>2. PICK rest : rest = Tail(splits)
  OBVIOUS
<1>3. /\ pc = "split" /\ splits # <<>> /\ splits' = rest /\ decision' = decision \cup Vars(c)
      /\ clauses' = clauses \cup {c}
      /\ \E w \in SplitWatches(c) : watched' = Attached(c, w)
      /\ UNCHANGED <<stack, points, th_deductions, deductions_next, declared>>
      /\ UNCHANGED <<given, learnts, propData, assumptions>>
      /\ UNCHANGED <<trail, trail_lim, level, reason, qhead, visit, pc, after, ok, conflict_frame, answer>>
  BY <1>1, <1>2 DEF SplitAttach, theoryVars, resultVars, trailVars
<1>4. /\ c \in SplitClause /\ c \in SUBSET Lit /\ Implied(c, GivenModel) /\ Vars(c) \subseteq Var
      /\ AtomsIn(c) \subseteq declared /\ ~Outside
      /\ rest \in Seq(SplitClause)
      /\ \A k \in 1 .. Len(rest) : AtomsIn(rest[k]) \subseteq declared
      /\ \A v \in declared : v \in Mentioned \/ v \in Vars(c) \/ \E k \in 1 .. Len(rest) : v \in Vars(rest[k])
  BY <1>1, <1>2, <1>3, SplitHead
<1>5. PICK pair \in SplitWatches(c) : watched' = Attached(c, pair)
  BY <1>3
<1>6. \E a, b \in c : pair = <<a, b>>
  BY DEF SplitWatches, Unknown
<1>7. ClauseInv' /\ DOMAIN watched \subseteq DOMAIN watched'
  BY <1>3, <1>4, <1>5, <1>6, AttachKeeps
<1>8. TrailInv' /\ TheoryInv'
  BY <1>3, TrailSame, TheorySame DEF SearchInv, TheoryInv, TheoryHolds
<1>9. visit = {} /\ ~Outside'
  BY <1>3, <1>4 DEF SearchInv, PhaseInv, Outside
<1>10. PhaseInv' /\ AnalyzeInv' /\ FinalInv'
  BY <1>3, <1>4, <1>9 DEF SearchInv, PhaseInv, Outside, AnalyzeInv, FinalInv
<1>11. QueueInv'
  BY <1>3, <1>9 DEF SearchInv, QueueInv, decisionLevel
<1>12. AnswerInv'
  BY <1>3, <1>4, GivenFacts DEF SearchInv, AnswerInv, UnsatCorrect
<1>13. SplitInv'
  BY <1>3, <1>4, GivenFacts DEF SearchInv, SplitInv
<1>14. KnownInv'
  <2>1. Mentioned \subseteq Mentioned' /\ \A v \in declared : v \in Vars(c) => v \in Mentioned'
    BY <1>3, <1>4 DEF Mentioned
  <2>2. decision' \cap TheoryVar \subseteq declared
    BY <1>3, <1>4 DEF SearchInv, KnownInv, AtomsIn
  <2> QED BY <1>3, <1>4, <1>9, <2>1, <2>2 DEF SearchInv, KnownInv
<1> QED
  BY <1>7, <1>8, <1>10, <1>11, <1>12, <1>13, <1>14 DEF SearchInv

\* A literal that a lemma implies is enqueued.
LEMMA SplitEnqueueKeeps == SearchInv /\ SplitEnqueue => SearchInv'
<1> SUFFICES ASSUME SearchInv, SplitEnqueue PROVE SearchInv'
  OBVIOUS
<1>1. PICK d : d = Head(propData)
  OBVIOUS
<1>2. PICK l : l = d[1]
  OBVIOUS
<1>3. PICK c : c = d[2]
  OBVIOUS
<1>4. /\ pc = "split" /\ splits = <<>> /\ propData # <<>> /\ propData' = Tail(propData)
      /\ IF Unassigned(l) THEN EnqueueOn(trail, l, c, decisionLevel)
                          ELSE UNCHANGED <<trail, level, reason>>
      /\ UNCHANGED <<stack, points, th_deductions, deductions_next, declared>>
      /\ UNCHANGED <<given, clauses, learnts, watched, splits, decision, assumptions>>
      /\ UNCHANGED <<trail_lim, qhead, visit, pc, after, ok, conflict_frame, answer>>
  BY <1>1, <1>2, <1>3 DEF SplitEnqueue, theoryVars, clauseVars, resultVars, callVars
<1>5. propData \in Seq(Lit \X SUBSET Lit) /\ after = "propagate"
  BY <1>4 DEF SearchInv, SplitInv, QueueInv
<1>6. PICK n \in Nat : n = Len(propData)
  BY <1>5
<1>7. PICK pd : pd = propData'
  OBVIOUS
<1>8. n > 0 /\ d = propData[1] /\ pd \in Seq(Lit \X SUBSET Lit) /\ Len(pd) = n - 1
      /\ \A k \in 1 .. n - 1 : pd[k] = propData[k + 1]
  BY <1>1, <1>4, <1>5, <1>6, <1>7
<1>9. /\ Justifies(c, trail, Len(trail), l, GivenModel) /\ AtomsIn(c) \subseteq declared
      /\ l \in Lit
      /\ \A k \in 1 .. n - 1 :
           /\ Justifies(pd[k][2], trail, Len(trail), pd[k][1], GivenModel)
           /\ AtomsIn(pd[k][2]) \subseteq declared
  <2>1. \A k \in 1 .. n :
          /\ Justifies(propData[k][2], trail, Len(trail), propData[k][1], GivenModel)
          /\ AtomsIn(propData[k][2]) \subseteq declared
    BY <1>6 DEF SearchInv, SplitInv
  <2>2. 1 \in 1 .. n /\ \A k \in 1 .. n - 1 : k + 1 \in 1 .. n
    BY <1>8
  <2>3. /\ Justifies(c, trail, Len(trail), l, GivenModel) /\ AtomsIn(c) \subseteq declared
    BY <1>2, <1>3, <1>8, <2>1, <2>2
  <2>4. l \in Lit
    BY <2>3 DEF Justifies
  <2> QED BY <1>8, <2>1, <2>2, <2>3, <2>4
<1>10. ~Outside /\ ~Outside' /\ visit = {}
  BY <1>4 DEF SearchInv, PhaseInv, Outside
<1>11. ClauseInv' /\ AnswerInv'
  BY <1>4, ClauseSame, AnswerSame DEF SearchInv, clauseVars
<1>12. PhaseInv' /\ AnalyzeInv' /\ FinalInv'
  BY <1>4, <1>10 DEF SearchInv, PhaseInv, AnalyzeInv, FinalInv, Outside
<1>13. CASE ~Unassigned(l)
  <2>1. UNCHANGED <<trail, level, reason>>
    BY <1>4, <1>13
  <2>2. TrailInv' /\ KnownInv' /\ TheoryInv'
    BY <1>4, <1>10, <2>1, TrailSame, TheorySame, KnownSame DEF SearchInv, TheoryInv, TheoryHolds
  <2>3. QueueInv'
    BY <1>4, <1>5, <1>10, <2>1 DEF SearchInv, QueueInv, decisionLevel
  <2>4. SplitInv'
    BY <1>4, <1>7, <1>8, <1>9, <2>1, GivenFacts DEF SearchInv, SplitInv
  <2> QED BY <1>11, <1>12, <2>2, <2>3, <2>4 DEF SearchInv
<1>14. CASE Unassigned(l)
  <2>1. EnqueueOn(trail, l, c, decisionLevel) /\ Fresh(trail, l)
    BY <1>4, <1>9, <1>14, TrailLevels, ValueFacts
  <2>2. /\ TrailInv' /\ Extends(trail', trail, l)
        /\ \A i \in 1 .. Len(trail) :
             i \in 1 .. Len(trail') /\ trail'[i] = trail[i] /\ level'[var(trail[i])] = level[var(trail[i])]
        /\ \A i \in 1 .. Len(trail') : i \in 1 .. Len(trail) \/ trail'[i] = l
        /\ StackFits(stack, trail')
    BY <1>4, <1>9, <2>1, ClauseMayEnqueue, EnqueueKeepsTrail
  <2>3. TheoryInv'
    BY <1>4, <2>2 DEF SearchInv, TheoryInv, TheoryHolds
  <2>4. Mentioned \subseteq Mentioned'
    BY <1>4, <2>2, MentionedGrows
  <2>5. KnownInv'
    <3>1. var(l) \in TheoryVar => var(l) \in declared
      BY <1>9 DEF AtomsIn, Vars, Justifies
    <3>2. \A i \in 1 .. Len(trail') : var(trail'[i]) \in TheoryVar => var(trail'[i]) \in declared
      BY <1>10, <2>2, <3>1 DEF SearchInv, KnownInv
    <3> QED BY <1>4, <1>10, <2>4, <3>2 DEF SearchInv, KnownInv
  <2>6. Len(trail') = Len(trail) + 1 /\ qhead \in 0 .. Len(trail)
    BY <1>4, <2>2 DEF Extends, SearchInv, QueueInv
  <2>7. QueueInv'
    <3>1. pc' = "split" /\ after' = "propagate" /\ visit' = {} /\ UNCHANGED <<trail_lim, qhead>> /\ qhead' \in 0 .. Len(trail')
      BY <1>4, <1>5, <1>10, <2>6, TrailLevels
    <3> QED BY <3>1 DEF SearchInv, QueueInv, decisionLevel
  <2>8. SplitInv'
    <3>1. PICK u : u = trail'
      OBVIOUS
    <3>2. Len(trail) \in Nat /\ Len(u) \in Nat /\ Len(trail) <= Len(u) /\ \A j \in 1 .. Len(trail) : u[j] = trail[j]
      BY <2>2, <2>6, <3>1, TrailLevels
    <3>3. ASSUME NEW k \in 1 .. n - 1
          PROVE  Justifies(pd[k][2], u, Len(u), pd[k][1], GivenModel)
      <4>1. PICK r : r = pd[k][2]
        OBVIOUS
      <4>2. PICK x : x = pd[k][1]
        OBVIOUS
      <4>3. Justifies(r, trail, Len(trail), x, GivenModel)
        BY <1>9, <4>1, <4>2
      <4>4. Justifies(r, u, Len(u), x, GivenModel)
        BY <3>2, <4>3, JustifiesLonger
      <4> QED BY <4>1, <4>2, <4>4
    <3> QED BY <1>4, <1>7, <1>8, <1>9, <3>1, <3>3, GivenFacts DEF SearchInv, SplitInv
  <2> QED BY <1>11, <1>12, <2>2, <2>3, <2>5, <2>7, <2>8 DEF SearchInv
<1> QED
  BY <1>13, <1>14

\* A lemma with one literal that is not assigned and no true one implies it, also
\* after going back to the level of the last of its false literals.
LEMMA SplitImplies ==
  ASSUME SearchInv, NEW c \in SUBSET Lit, Implied(c, GivenModel), Implies(c), NEW l,
         l = CHOOSE k \in Unknown(c) : TRUE
  PROVE  /\ l \in c /\ l \in Lit /\ Fresh(trail, l) /\ FalseLevel(c) \in 0 .. decisionLevel
         /\ \A k \in c \ {l} : (\E i \in 1 .. Len(trail) : trail[i] = -k) /\ level[var(k)] <= FalseLevel(c)
         /\ FalseLevel(c) > 0 => \E k \in c : k # l
<1>1. ~Satisfied(c) /\ Cardinality(Unknown(c)) = 1 /\ Unknown(c) \in SUBSET Lit
  BY DEF Implies, Unknown
<1>2. PICK x \in Unknown(c) : Unknown(c) = {x}
  BY <1>1, OneElement
<1>3. l = x /\ l \in c /\ l \in Lit /\ Unassigned(l)
  BY <1>2 DEF Unknown
<1>4. Fresh(trail, l)
  BY <1>3, TrailLevels, ValueFacts
<1>5. ASSUME NEW k \in c \ {l} PROVE False(k)
  <2>1. k \notin Unknown(c)
    BY <1>2, <1>3
  <2> QED BY <1>1, <2>1 DEF Unknown, Unassigned, Satisfied
<1>6. PICK F : F = {k \in c : False(k)}
  OBVIOUS
<1>7. F \in SUBSET Lit /\ \A k \in F : \E i \in 1 .. Len(trail) : trail[i] = -k
  BY <1>6, TrailLevels, ValueFacts DEF FalseBefore
<1>8. \A k \in F : level[var(k)] \in 0 .. decisionLevel
  BY <1>7, FalseLevels DEF AllFalse, FalseBefore
<1>9. FalseLevel(c) = MaxLevel(F)
  BY <1>6 DEF FalseLevel
<1>10. /\ MaxLevel(F) \in 0 .. decisionLevel /\ \A k \in F : level[var(k)] <= MaxLevel(F)
       /\ MaxLevel(F) > 0 => \E k \in F : level[var(k)] = MaxLevel(F)
  BY <1>8, MaxLevelFacts, TrailLevels
<1>11. l \notin F
  BY <1>3, <1>6 DEF Unassigned
<1> QED
  BY <1>3, <1>4, <1>5, <1>6, <1>7, <1>9, <1>10, <1>11

\* A lemma implies a literal: the search goes back to the level where it does.
LEMMA SplitUnitKeeps == SearchInv /\ SplitUnit => SearchInv'
<1> SUFFICES ASSUME SearchInv, SplitUnit PROVE SearchInv'
  OBVIOUS
<1>1. PICK c : c = Head(splits)
  OBVIOUS
<1>2. PICK rest : rest = Tail(splits)
  OBVIOUS
<1>3. PICK bt : bt = FalseLevel(c)
  OBVIOUS
<1>4. PICK l : l = CHOOSE k \in Unknown(c) : TRUE
  OBVIOUS
<1>5. PICK u : u = SubSeq(trail, 1, EndOf(bt))
  OBVIOUS
<1>6. /\ pc = "split" /\ splits # <<>> /\ Implies(c) /\ splits' = rest
      /\ decision' = decision \cup Vars(c) /\ CancelUntil(bt)
      /\ bt = 0 => /\ EnqueueOn(u, l, CRef_Undef, 0)
                   /\ propData' = IF bt < decisionLevel THEN <<>> ELSE propData
                   /\ UNCHANGED <<clauses, watched>>
      /\ bt # 0 => /\ trail' = u /\ clauses' = clauses \cup {c}
                   /\ \E w \in c \ {l} : watched' = Attached(c, <<l, w>>)
                   /\ propData' = (IF bt < decisionLevel THEN <<>> ELSE propData) \o <<<<l, c>>>>
                   /\ UNCHANGED <<level, reason>>
      /\ after' = "propagate"
      /\ UNCHANGED <<given, learnts, assumptions, visit, pc, ok, conflict_frame, answer>>
  BY <1>1, <1>2, <1>3, <1>4, <1>5 DEF SplitUnit, SplitLevel, resultVars
<1>7. /\ c \in SplitClause /\ c \in SUBSET Lit /\ Implied(c, GivenModel) /\ Vars(c) \subseteq Var
      /\ AtomsIn(c) \subseteq declared /\ ~Outside
      /\ rest \in Seq(SplitClause)
      /\ \A k \in 1 .. Len(rest) : AtomsIn(rest[k]) \subseteq declared
      /\ \A v \in declared : v \in Mentioned \/ v \in Vars(c) \/ \E k \in 1 .. Len(rest) : v \in Vars(rest[k])
  BY <1>1, <1>2, <1>6, SplitHead
<1>8. /\ l \in c /\ l \in Lit /\ Fresh(trail, l) /\ bt \in 0 .. decisionLevel
      /\ \A k \in c \ {l} : (\E i \in 1 .. Len(trail) : trail[i] = -k) /\ level[var(k)] <= bt
  BY <1>3, <1>4, <1>6, <1>7, SplitImplies
<1>9. PICK w : w = trail_lim'
  OBVIOUS
<1>10. PICK su : su = stack'
  OBVIOUS
<1>11. /\ Len(w) = bt /\ TheoryHolds' /\ StackFits(su, u) /\ declared' = declared
       /\ TrailHolds(u, w, level, reason, assumptions, GivenModel, su)
       /\ qhead' \in 0 .. Len(u) /\ (bt > 0 => w[bt] <= qhead')
  BY <1>5, <1>6, <1>8, <1>9, <1>10, CancelFacts
<1>12. /\ \A i \in 1 .. Len(u) : i \in 1 .. Len(trail) /\ u[i] = trail[i]
       /\ \A i \in 1 .. Len(trail) : level[var(trail[i])] <= bt => i \in 1 .. Len(u) /\ u[i] = trail[i]
       /\ \A k \in Lit : (\E i \in 1 .. Len(trail) : trail[i] = -k) /\ level[var(k)] <= bt => FalseBefore(u, Len(u), k)
       /\ \A d \in 1 .. Len(th_deductions') : var(th_deductions'[d]) \in declared
  BY <1>5, <1>6, <1>7, <1>8, CancelKeeps
<1>13. Fresh(u, l) /\ Justifies(c, u, Len(u), l, GivenModel)
  BY <1>7, <1>8, <1>12 DEF Fresh, Justifies
<1>14. u \in Seq(Lit) /\ Len(u) \in Nat
  BY <1>11 DEF TrailHolds, TrailFits
<1>15. ~Outside' /\ visit = {}
  BY <1>6, <1>7 DEF SearchInv, PhaseInv, Outside
<1>16. PhaseInv' /\ AnalyzeInv' /\ FinalInv'
  BY <1>6, <1>7, <1>15 DEF SearchInv, PhaseInv, AnalyzeInv, FinalInv, Outside
<1>17. AnswerInv'
  BY <1>6, <1>7, GivenFacts DEF SearchInv, AnswerInv, UnsatCorrect
<1>18. bt = decisionLevel => u = trail
  <2>1. Len(u) = IF bt < Len(trail_lim) THEN trail_lim[bt + 1] ELSE Len(trail)
    BY <1>5, <1>6, <1>8, CancelFacts
  <2>2. bt = decisionLevel => Len(u) = Len(trail)
    BY <2>1, TrailLevels DEF decisionLevel
  <2> QED BY <1>12, <1>14, <2>2, TrailLevels, SeqEqual
<1>19. PICK old : old = IF bt < decisionLevel THEN <<>> ELSE propData
  OBVIOUS
<1>20. /\ old \in Seq(Lit \X SUBSET Lit)
       /\ \A k \in 1 .. Len(old) : /\ Justifies(old[k][2], u, Len(u), old[k][1], GivenModel)
                                   /\ AtomsIn(old[k][2]) \subseteq declared
  <2>1. CASE bt < decisionLevel
    BY <1>19, <2>1
  <2>2. CASE ~(bt < decisionLevel)
    <3>1. old = propData /\ u = trail
      BY <1>8, <1>18, <1>19, <2>2, TrailLevels
    <3> QED BY <3>1 DEF SearchInv, SplitInv
  <2> QED BY <2>1, <2>2
<1>21. decision' \cap TheoryVar \subseteq declared
  BY <1>6, <1>7 DEF SearchInv, KnownInv, AtomsIn
<1>22. CASE bt = 0
  <2>1. /\ trail' = Append(u, l) /\ level' = [level EXCEPT ![var(l)] = Len(w)]
        /\ reason' = [reason EXCEPT ![var(l)] = CRef_Undef]
        /\ propData' = old /\ UNCHANGED <<clauses, watched>>
    BY <1>6, <1>11, <1>19, <1>22 DEF EnqueueOn
  <2>2. Extends(trail', u, l)
    BY <1>8, <1>14, <2>1, AppendExtends
  <2>3. MayEnqueue(u, w, l, CRef_Undef, assumptions, GivenModel, su)
    <3>1. \A m \in GivenModel : l \in m
      BY <1>11, <1>13, <1>22, UnitZero, GivenFacts DEF TrailHolds
    <3> QED BY <1>11, <1>13, <1>22, <3>1 DEF MayEnqueue, CRef_Undef, CRef_Fake
  <2>4. PICK u2 : u2 = trail'
    OBVIOUS
  <2>5. TrailHolds(u2, w, level', reason', assumptions, GivenModel, su)
    BY <1>11, <2>1, <2>2, <2>3, <2>4, EnqueueHolds
  <2>6. TrailInv'
    BY <1>6, <1>9, <1>10, <2>4, <2>5, GivenFacts DEF TrailInv
  <2>7. u2 \in Seq(Lit) /\ Len(u2) = Len(u) + 1 /\ (\A i \in 1 .. Len(u) : u2[i] = u[i]) /\ u2[Len(u) + 1] = l
    BY <2>2, <2>4 DEF Extends
  <2>8. TheoryInv'
    <3>1. StackFits(su, u2)
      BY <1>11, <1>14, <2>7 DEF StackFits
    <3> QED BY <1>10, <1>11, <2>4, <3>1 DEF TheoryInv
  <2>9. ClauseInv'
    BY <1>6, <2>1, ClauseSame DEF SearchInv, clauseVars
  <2>10. QueueInv'
    <3>1. pc' = "split" /\ after' = "propagate" /\ visit' = {} /\ Len(trail_lim') = 0 /\ qhead' \in 0 .. Len(trail')
      BY <1>6, <1>9, <1>11, <1>14, <1>15, <1>22, <2>4, <2>7
    <3> QED BY <3>1 DEF QueueInv, decisionLevel
  <2>11. SplitInv'
    <3>1. ASSUME NEW k \in 1 .. Len(old) PROVE Justifies(old[k][2], u2, Len(u2), old[k][1], GivenModel)
      <4>1. PICK r : r = old[k][2]
        OBVIOUS
      <4>2. PICK x : x = old[k][1]
        OBVIOUS
      <4>3. Justifies(r, u, Len(u), x, GivenModel)
        BY <1>20, <4>1, <4>2
      <4>4. Len(u2) \in Nat /\ Len(u) <= Len(u2)
        BY <1>14, <2>7
      <4>5. Justifies(r, u2, Len(u2), x, GivenModel)
        BY <1>14, <2>7, <4>3, <4>4, JustifiesLonger
      <4> QED BY <4>1, <4>2, <4>5
    <3>2. splits' = rest /\ propData' = old /\ trail' = u2 /\ declared' = declared /\ GivenModel' = GivenModel
      BY <1>6, <1>11, <2>1, <2>4, GivenFacts
    <3> QED BY <1>7, <1>20, <3>1, <3>2 DEF SplitInv
  <2>12. level \in [Var -> Nat] /\ var(l) \in Var
    BY <1>8, LitFacts DEF SearchInv, TrailInv, TrailHolds, TrailFits, Levels
  <2>13. \A i \in 1 .. Len(trail) : level'[var(trail[i])] = level[var(trail[i])]
    BY <1>8, <2>1, <2>12, TrailLevels, LitFacts DEF Fresh
  <2>14. level'[var(l)] = 0
    BY <1>11, <1>22, <2>1, <2>12
  <2>15. ASSUME NEW i \in 1 .. Len(trail), level[var(trail[i])] = 0
         PROVE  i \in 1 .. Len(u2) /\ u2[i] = trail[i] /\ level'[var(trail[i])] = 0
    BY <1>12, <1>14, <1>22, <2>7, <2>13, <2>15
  <2>16. Mentioned \subseteq Mentioned'
    BY <2>1, <2>4, <2>15, MentionedGrows
  <2>17. ASSUME NEW v \in Vars(c) PROVE v \in Mentioned'
    <3>1. PICK k \in c : v = var(k)
      BY DEF Vars
    <3>2. CASE k = l
      <4>1. Len(u) + 1 \in 1 .. Len(u2) /\ var(u2[Len(u) + 1]) = v /\ level'[v] = 0 /\ v \in Var
        BY <1>14, <2>7, <2>12, <2>14, <3>1, <3>2
      <4> QED BY <2>4, <4>1 DEF Mentioned
    <3>3. CASE k # l
      <4>1. PICK i \in 1 .. Len(trail) : trail[i] = -k
        BY <1>8, <3>3
      <4>2. var(trail[i]) = v /\ v \in Var /\ level[v] \in 0 .. decisionLevel /\ level[v] <= 0
        BY <1>7, <1>8, <1>22, <3>1, <3>3, <4>1, LitFacts, TrailLevels
      <4>3. level[var(trail[i])] = 0
        BY <4>2
      <4>4. i \in 1 .. Len(u2) /\ u2[i] = trail[i] /\ level'[v] = 0
        BY <2>15, <4>2, <4>3
      <4> QED BY <2>4, <4>2, <4>4 DEF Mentioned
    <3> QED BY <3>2, <3>3
  <2>18. KnownInv'
    <3>1. var(l) \in TheoryVar => var(l) \in declared
      BY <1>7, <1>8 DEF AtomsIn, Vars
    <3>2. \A i \in 1 .. Len(u2) : i \in 1 .. Len(u) \/ i = Len(u) + 1
      BY <1>14, <2>7
    <3>3. \A i \in 1 .. Len(u2) : var(u2[i]) \in TheoryVar => var(u2[i]) \in declared
      BY <1>7, <1>12, <2>7, <3>1, <3>2 DEF SearchInv, KnownInv
    <3> QED BY <1>6, <1>7, <1>11, <1>12, <1>15, <1>21, <2>1, <2>4, <2>16, <2>17, <3>3 DEF SearchInv, KnownInv
  <2> QED BY <1>16, <1>17, <2>6, <2>8, <2>9, <2>10, <2>11, <2>18 DEF SearchInv
<1>23. CASE bt # 0
  <2>1. /\ trail' = u /\ clauses' = clauses \cup {c} /\ propData' = old \o <<<<l, c>>>>
        /\ UNCHANGED <<level, reason>>
    BY <1>6, <1>19, <1>23
  <2>2. PICK b \in c \ {l} : watched' = Attached(c, <<l, b>>)
    BY <1>6, <1>23
  <2>3. ClauseInv'
    BY <1>6, <1>7, <1>8, <2>1, <2>2, AttachKeeps
  <2>4. TrailInv' /\ TheoryInv'
    BY <1>6, <1>9, <1>10, <1>11, <2>1, GivenFacts DEF TrailInv, TheoryInv
  <2>5. QueueInv'
    <3>1. pc' = "split" /\ after' = "propagate" /\ visit' = {} /\ Len(trail_lim') = bt
          /\ qhead' \in 0 .. Len(trail') /\ (bt > 0 => trail_lim'[bt] <= qhead')
      BY <1>6, <1>9, <1>11, <1>15, <2>1
    <3> QED BY <3>1 DEF QueueInv, decisionLevel
  <2>6. SplitInv'
    <3>1. PICK pd : pd = propData'
      OBVIOUS
    <3>2. PICK n \in Nat : n = Len(old)
      BY <1>20
    <3>3. <<l, c>> \in Lit \X SUBSET Lit
      BY <1>7, <1>8
    <3>4. pd = old \o <<<<l, c>>>>
      BY <2>1, <3>1
    <3>5. pd \in Seq(Lit \X SUBSET Lit) /\ Len(pd) = n + 1 /\ pd[n + 1] = <<l, c>>
          /\ \A k \in 1 .. n : pd[k] = old[k]
      BY <1>20, <3>2, <3>3, <3>4
    <3>6. ASSUME NEW k \in 1 .. n + 1
          PROVE  /\ Justifies(pd[k][2], u, Len(u), pd[k][1], GivenModel)
                 /\ AtomsIn(pd[k][2]) \subseteq declared
      <4>1. CASE k \in 1 .. n
        BY <1>20, <3>2, <3>5, <4>1
      <4>2. CASE k = n + 1
        <5>1. pd[k][1] = l /\ pd[k][2] = c
          BY <3>5, <4>2
        <5> QED BY <1>7, <1>13, <5>1
      <4> QED BY <4>1, <4>2
    <3>7. splits' = rest /\ propData' = pd /\ trail' = u /\ declared' = declared /\ GivenModel' = GivenModel
      BY <1>6, <1>11, <2>1, <3>1, GivenFacts
    <3> QED BY <1>7, <3>5, <3>6, <3>7 DEF SplitInv
  <2>7. Mentioned \subseteq Mentioned' /\ \A v \in Vars(c) : v \in Mentioned'
    <3>1. ASSUME NEW i \in 1 .. Len(trail), level[var(trail[i])] = 0
          PROVE  i \in 1 .. Len(u) /\ u[i] = trail[i]
      BY <1>8, <1>12, <3>1
    <3>2. Mentioned \subseteq Mentioned'
      BY <2>1, <3>1, MentionedGrows
    <3> QED BY <1>7, <2>1, <3>2 DEF Mentioned
  <2>8. KnownInv'
    BY <1>6, <1>7, <1>11, <1>12, <1>15, <1>21, <2>1, <2>7 DEF SearchInv, KnownInv
  <2> QED BY <1>16, <1>17, <2>3, <2>4, <2>5, <2>6, <2>8 DEF SearchInv
<1> QED
  BY <1>22, <1>23

-----------------------------------------------------------------------------
\* A new decision level.
LEMMA DecideKeeps ==
  ASSUME SearchInv, NEW l \in Lit, Decide(l)
  PROVE  SearchInv'
<1>1. PICK w : w = Append(trail_lim, Len(trail))
  OBVIOUS
<1>2. PICK h \in Nat : h = Len(trail_lim)
  BY TrailLevels DEF decisionLevel
<1>3. /\ pc = "decide" /\ Unassigned(l)
      /\ IF h < Len(assumptions) THEN l = assumptions[h + 1] ELSE var(l) \in decision
      /\ trail_lim' = w /\ trail' = Append(trail, l)
      /\ level' = [level EXCEPT ![var(l)] = h + 1] /\ reason' = [reason EXCEPT ![var(l)] = CRef_Undef]
      /\ pc' = "loop"
      /\ UNCHANGED <<stack, points, th_deductions, deductions_next, declared>>
      /\ UNCHANGED <<given, clauses, learnts, watched, splits, propData, decision, assumptions>>
      /\ UNCHANGED <<qhead, visit, after, ok, conflict_frame, answer>>
  BY <1>1, <1>2 DEF Decide, EnqueueOn, assumed, decisionLevel, theoryVars, clauseVars, resultVars, splitVars,
                    callVars
<1>4. ~Outside /\ ~Outside' /\ visit = {} /\ splits = <<>> /\ propData = <<>>
  BY <1>3 DEF SearchInv, PhaseInv, Outside
<1>5. Fresh(trail, l)
  BY <1>3, TrailLevels, ValueFacts
<1>6. w \in Seq(Nat) /\ Len(w) = h + 1 /\ w[h + 1] = Len(trail)
  BY <1>1, <1>2, TrailLevels
<1>7. PICK u : u = trail'
  OBVIOUS
<1>8. Extends(u, trail, l)
  BY <1>3, <1>7, TrailLevels, AppendExtends
<1>9. TrailInv'
  <2>1. TrailHolds(trail, w, level, reason, assumptions, GivenModel, stack)
    BY <1>1, LevelHolds DEF SearchInv, TrailInv
  <2>2. assumptions \in Seq({k \in Lit : var(k) \notin TheoryVar})
    BY DEF SearchInv, AnswerInv
  <2>3. h + 1 <= Len(assumptions) => l = assumptions[h + 1]
    BY <1>3, <2>2
  <2>4. MayEnqueue(trail, w, l, CRef_Undef, assumptions, GivenModel, stack)
    BY <1>5, <1>6, <2>3 DEF MayEnqueue, CRef_Undef, CRef_Fake
  <2>5. TrailHolds(u, w, [level EXCEPT ![var(l)] = Len(w)], [reason EXCEPT ![var(l)] = CRef_Undef],
                   assumptions, GivenModel, stack)
    BY <1>8, <2>1, <2>4, EnqueueHolds
  <2> QED BY <1>3, <1>6, <1>7, <2>5, GivenFacts DEF TrailInv
<1>10. PICK n \in Nat : n = Len(trail)
  BY TrailLevels
<1>11. u \in Seq(Lit) /\ Len(u) = n + 1 /\ u[n + 1] = l /\ \A i \in 1 .. n : u[i] = trail[i]
  BY <1>8, <1>10 DEF Extends
<1>12. TheoryInv'
  <2>1. StackFits(stack, u)
    BY <1>10, <1>11, TrailLevels DEF SearchInv, TheoryInv, StackFits
  <2> QED BY <1>3, <1>7, <2>1 DEF SearchInv, TheoryInv, TheoryHolds
<1>13. ClauseInv' /\ AnswerInv' /\ SplitInv'
  BY <1>3, <1>4, ClauseSame, AnswerSame, NoSplits DEF SearchInv, clauseVars
<1>14. PhaseInv' /\ AnalyzeInv' /\ FinalInv'
  BY <1>3, <1>4 DEF SearchInv, PhaseInv, Outside, AnalyzeInv, FinalInv
<1>15. QueueInv'
  <2>1. qhead = Len(trail)
    BY <1>3 DEF SearchInv, QueueInv
  <2>2. pc' = "loop" /\ visit' = {} /\ Len(trail_lim') = h + 1 /\ trail_lim'[h + 1] <= qhead'
        /\ qhead' \in 0 .. Len(trail')
    BY <1>3, <1>4, <1>6, <1>7, <1>10, <1>11, <2>1
  <2> QED BY <2>2 DEF QueueInv, decisionLevel
<1>16. level \in [Var -> Nat] /\ var(l) \in Var
  BY LitFacts DEF SearchInv, TrailInv, TrailHolds, TrailFits, Levels
<1>17. ASSUME NEW i \in 1 .. Len(trail)
       PROVE  i \in 1 .. Len(u) /\ u[i] = trail[i] /\ level'[var(trail[i])] = level[var(trail[i])]
  BY <1>3, <1>5, <1>10, <1>11, <1>16, TrailLevels, LitFacts DEF Fresh
<1>18. Mentioned \subseteq Mentioned'
  BY <1>3, <1>7, <1>17, MentionedGrows
<1>19. KnownInv'
  <2>1. var(l) \in TheoryVar => var(l) \in declared
    <3>1. CASE h < Len(assumptions)
      <4>1. h + 1 \in 1 .. Len(assumptions) /\ assumptions \in Seq({k \in Lit : var(k) \notin TheoryVar})
        BY <3>1 DEF SearchInv, AnswerInv
      <4>2. assumptions[h + 1] \in {k \in Lit : var(k) \notin TheoryVar}
        BY <4>1
      <4> QED BY <1>3, <3>1, <4>2
    <3>2. CASE ~(h < Len(assumptions))
      BY <1>3, <1>4, <3>2 DEF SearchInv, KnownInv
    <3> QED BY <3>1, <3>2
  <2>2. \A i \in 1 .. Len(u) : i \in 1 .. Len(trail) \/ i = n + 1
    BY <1>10, <1>11
  <2>3. \A i \in 1 .. Len(u) : var(u[i]) \in TheoryVar => var(u[i]) \in declared
    BY <1>4, <1>11, <1>17, <2>1, <2>2 DEF SearchInv, KnownInv
  <2> QED BY <1>3, <1>4, <1>7, <1>18, <2>3 DEF SearchInv, KnownInv
<1> QED
  BY <1>9, <1>12, <1>13, <1>14, <1>15, <1>19 DEF SearchInv

-----------------------------------------------------------------------------
\* analyzeFinal resolves backwards along the trail until only assumptions are left.
\* r implies l at position i of the trail.
Implies1(r, l, i) ==
  /\ r \subseteq Lit /\ Implied(r, GivenModel)
  /\ \A k \in r \ {l} : FalseBefore(trail, i - 1, k)

\* A reason the theory gives for the literal l at position i.
LEMMA TheoryReason ==
  ASSUME SearchInv, NEW i \in 1 .. Len(trail), NEW l, l = trail[i], NEW t \in ReasonsFor(l, i - 1)
  PROVE  t \in TheoryConflict /\ Implies1(Negated(t), l, i)
<1>1. t \in TheoryConflict /\ -l \in t /\ t \ {-l} \subseteq Told(i - 1)
  BY DEF ReasonsFor
<1>2. /\ Negated(t) \subseteq Lit /\ Implied(Negated(t), GivenModel)
      /\ \A k \in Negated(t) : k \in Lit /\ -k \in t
  BY <1>1, NegatedConflict, GivenFacts
<1>3. ASSUME NEW k \in Negated(t) \ {l} PROVE FalseBefore(trail, i - 1, k)
  <2>1. k \in Lit /\ l \in Lit /\ -k \in t /\ -k # -l
    BY <1>2, TrailLevels, LitFacts
  <2>2. PICK j \in 1 .. i - 1 : j <= Len(stack) /\ stack[j] = -k
    BY <1>1, <2>1 DEF Told
  <2>3. j \in 1 .. Len(stack)
    BY <2>2, TrailLevels
  <2>4. trail[j] = -k
    BY <2>2, <2>3 DEF SearchInv, TheoryInv, StackFits
  <2> QED BY <2>4 DEF FalseBefore
<1> QED
  BY <1>1, <1>2, <1>3 DEF Implies1

\* The reason of a propagated literal is a clause that implies it.
LEMMA ClauseReason ==
  ASSUME SearchInv, NEW i \in 1 .. Len(trail), NEW l, l = trail[i],
         reason[var(l)] \notin {CRef_Undef, CRef_Fake}
  PROVE  Implies1(reason[var(l)], l, i)
BY DEF SearchInv, TrailInv, TrailHolds, Justified, Justifies, Implies1

\* analyzeFinal resolves with a reason: the marked literals still contradict every model that
\* agrees with the assumptions.
LEMMA FinalResolve ==
  ASSUME SearchInv, pc = "final", NEW i \in 1 .. Len(trail), NEW l, l = trail[i], -l \in seen, NEW r,
         Implies1(r, l, i), NEW s, s = (seen \cup r) \ {l, -l}
  PROVE  /\ s \subseteq Lit /\ AllFalse(s)
         /\ \A m \in GivenModel : Range(assumptions) \subseteq m => s \cap m # {}
<1>1. /\ seen \subseteq Lit /\ AllFalse(seen)
      /\ \A m \in GivenModel : Range(assumptions) \subseteq m => seen \cap m # {}
  BY DEF SearchInv, FinalInv
<1>2. r \subseteq Lit /\ Implied(r, GivenModel) /\ \A k \in r \ {l} : FalseBefore(trail, i - 1, k)
  BY DEF Implies1
<1>3. l \in Lit /\ Distinct(trail)
  BY TrailLevels DEF SearchInv, TrailInv, TrailHolds, TrailFits
<1>4. s \subseteq Lit
  BY <1>1, <1>2
<1>5. \A k : FalseBefore(trail, i - 1, k) => FalseBefore(trail, Len(trail), k)
  BY TrailLevels DEF FalseBefore
<1>6. AllFalse(s)
  BY <1>1, <1>2, <1>5 DEF AllFalse
<1>7. l \notin seen
  <2> SUFFICES ASSUME l \in seen PROVE FALSE
    OBVIOUS
  <2>1. PICK j \in 1 .. Len(trail) : trail[j] = -l
    BY <1>1 DEF AllFalse, FalseBefore
  <2>2. var(trail[j]) = var(trail[i]) /\ trail[j] # trail[i]
    BY <1>3, <2>1, LitFacts
  <2> QED BY <1>3, <2>2 DEF Distinct
<1>8. -l \notin r
  <2> SUFFICES ASSUME -l \in r PROVE FALSE
    OBVIOUS
  <2>1. FalseBefore(trail, i - 1, -l)
    BY <1>2, <1>3, LitFacts
  <2>2. PICK j \in 1 .. i - 1 : trail[j] = -(-l)
    BY <2>1 DEF FalseBefore
  <2>3. j \in 1 .. Len(trail) /\ trail[j] = trail[i] /\ j # i
    BY <1>3, <2>2, TrailLevels, LitFacts
  <2> QED BY <1>3, <2>3 DEF Distinct
<1>9. ASSUME NEW m \in GivenModel, Range(assumptions) \subseteq m PROVE s \cap m # {}
  <2>1. PICK k \in seen : k \in m
    BY <1>1, <1>9
  <2>2. CASE k # -l
    BY <1>7, <2>1, <2>2
  <2>3. CASE k = -l
    <3>1. m \in TheoryModel /\ l \notin m
      BY <1>3, <2>1, <2>3, GivenFacts, ModelFacts
    <3>2. PICK x \in r : x \in m
      BY <1>2 DEF Implied
    <3> QED BY <1>8, <3>1, <3>2
  <2> QED BY <2>2, <2>3
<1> QED
  BY <1>4, <1>6, <1>9

\* A round of analyzeFinal.
LEMMA FinalStepKeeps == SearchInv /\ FinalStep => SearchInv'
<1> SUFFICES ASSUME SearchInv, FinalStep PROVE SearchInv'
  OBVIOUS
<1>1. PICK i : i = LastSeen(seen)
  OBVIOUS
<1>2. PICK l : l = trail[i]
  OBVIOUS
<1>3. /\ pc = "final" /\ seen # {}
      /\ UNCHANGED <<given, clauses, learnts, watched, splits, propData, decision, assumptions>>
      /\ UNCHANGED <<trail, trail_lim, level, reason, qhead, visit, pc, after, ok, conflict_frame, answer>>
  BY DEF FinalStep, clauseVars, splitVars, callVars, trailVars
<1>4. /\ reason[var(l)] = CRef_Undef =>
           /\ seen' = seen \ {-l}
           /\ conflict' = IF var(l) \in ActiveVars THEN conflict \cup {-l} ELSE conflict
           /\ UNCHANGED theoryVars
      /\ reason[var(l)] = CRef_Fake =>
           \E t \in ReasonsFor(l, i - 1) :
             seen' = (seen \cup Negated(t)) \ {l, -l} /\ Reassert(i - 1) /\ UNCHANGED conflict
      /\ reason[var(l)] \notin {CRef_Undef, CRef_Fake} =>
           seen' = (seen \cup reason[var(l)]) \ {l, -l} /\ UNCHANGED <<theoryVars, conflict>>
  BY <1>1, <1>2 DEF FinalStep, UndoPoint, CRef_Undef, CRef_Fake
<1>5. /\ seen \subseteq Lit /\ AllFalse(seen) /\ conflict \subseteq Lit /\ decisionLevel < Len(assumptions)
      /\ \A m \in GivenModel : Range(assumptions) \subseteq m => seen \cap m # {}
  BY <1>3 DEF SearchInv, FinalInv
<1>6. i \in 1 .. Len(trail) /\ -l \in seen /\ l \in Lit
  <2>1. PICK k \in seen : TRUE
    BY <1>3
  <2>2. PICK j \in 1 .. Len(trail) : trail[j] = -k
    BY <1>5 DEF AllFalse, FalseBefore
  <2>3. -trail[j] \in seen
    BY <1>5, <2>2, LitFacts
  <2> QED BY <1>1, <1>2, <2>3, LastSeenFacts, TrailLevels
<1>7. ~Outside /\ ~Outside' /\ visit = {} /\ splits = <<>> /\ propData = <<>>
  BY <1>3 DEF SearchInv, PhaseInv, Outside
<1>8. /\ seen' \subseteq Lit /\ AllFalse(seen') /\ conflict' \subseteq Lit
      /\ \A m \in GivenModel : Range(assumptions) \subseteq m => seen' \cap m # {}
  <2>1. CASE reason[var(l)] = CRef_Undef
    <3>1. seen' = seen \ {-l} /\ conflict' \subseteq conflict \cup {-l}
      BY <1>4, <2>1
    <3>2. ASSUME NEW m \in GivenModel, Range(assumptions) \subseteq m PROVE -l \notin m
      <4>1. m \in TheoryModel
        BY GivenFacts
      <4>2. CASE level[var(l)] = 0
        <5>1. l \in m
          BY <1>2, <1>6, <4>2 DEF SearchInv, TrailInv, TrailHolds, Zero
        <5> QED BY <1>6, <4>1, <5>1, ModelFacts
      <4>3. CASE level[var(l)] # 0
        <5>1. PICK lv : lv = level[var(l)]
          OBVIOUS
        <5>2. lv \in 1 .. decisionLevel
          BY <1>2, <1>6, <4>3, <5>1, TrailLevels
        <5>3. lv \in 1 .. Len(assumptions) /\ assumptions \in Seq({k \in Lit : var(k) \notin TheoryVar})
          BY <1>5, <5>2, TrailLevels DEF SearchInv, AnswerInv
        <5>4. l = assumptions[lv]
          BY <1>2, <1>6, <2>1, <5>1, <5>2, <5>3 DEF SearchInv, TrailInv, TrailHolds, Decided
        <5>5. l \in Range(assumptions)
          BY <5>3, <5>4 DEF Range
        <5> QED BY <1>6, <3>2, <4>1, <5>5, ModelFacts
      <4> QED BY <4>2, <4>3
    <3>3. \A m \in GivenModel : Range(assumptions) \subseteq m => seen' \cap m # {}
      BY <1>5, <3>1, <3>2
    <3>4. seen' \subseteq Lit /\ AllFalse(seen') /\ conflict' \subseteq Lit
      BY <1>5, <1>6, <3>1, LitFacts DEF AllFalse
    <3> QED BY <3>3, <3>4
  <2>2. CASE reason[var(l)] = CRef_Fake
    <3>1. PICK t \in ReasonsFor(l, i - 1) : seen' = (seen \cup Negated(t)) \ {l, -l} /\ UNCHANGED conflict
      BY <1>4, <2>2
    <3>2. Implies1(Negated(t), l, i)
      BY <1>2, <1>6, <3>1, TheoryReason
    <3>3. PICK r : r = Negated(t)
      OBVIOUS
    <3> QED BY <1>2, <1>3, <1>5, <1>6, <3>1, <3>2, <3>3, FinalResolve
  <2>3. CASE reason[var(l)] \notin {CRef_Undef, CRef_Fake}
    <3>1. PICK r : r = reason[var(l)]
      OBVIOUS
    <3>2. seen' = (seen \cup r) \ {l, -l} /\ UNCHANGED conflict
      BY <1>4, <2>3, <3>1
    <3>3. Implies1(r, l, i)
      BY <1>2, <1>6, <2>3, <3>1, ClauseReason
    <3> QED BY <1>2, <1>3, <1>5, <1>6, <3>2, <3>3, FinalResolve
  <2> QED BY <2>1, <2>2, <2>3
<1>9. /\ TheoryHolds' /\ stack' = stack /\ declared' = declared
      /\ \A d \in 1 .. Len(th_deductions') : var(th_deductions'[d]) \in declared
  <2>1. CASE reason[var(l)] = CRef_Fake
    <3>1. Reassert(i - 1) /\ i - 1 \in Nat
      BY <1>4, <1>6, <2>1
    <3>2. /\ TheoryHolds' /\ stack' = stack /\ declared' = declared
          /\ Len(th_deductions') <= Len(th_deductions)
          /\ \A d \in 1 .. Len(th_deductions') : th_deductions'[d] = th_deductions[d]
      BY <3>1, KnownStack, ReassertKeeps DEF SearchInv, TheoryInv
    <3>3. \A d \in 1 .. Len(th_deductions') : d \in 1 .. Len(th_deductions)
      BY <3>2 DEF SearchInv, TheoryInv, TheoryHolds, PointsFit
    <3> QED BY <1>7, <3>2, <3>3 DEF SearchInv, KnownInv
  <2>2. CASE reason[var(l)] # CRef_Fake
    <3>1. UNCHANGED <<stack, points, th_deductions, deductions_next, declared>>
      BY <1>4, <2>2 DEF theoryVars
    <3> QED BY <1>7, <3>1 DEF SearchInv, TheoryInv, TheoryHolds, KnownInv
  <2> QED BY <2>1, <2>2
<1>10. TheoryInv'
  BY <1>3, <1>9 DEF SearchInv, TheoryInv
<1>11. TrailInv' /\ ClauseInv' /\ AnswerInv'
  BY <1>3, <1>9, TrailSame, ClauseSame, AnswerSame DEF SearchInv, clauseVars
<1>12. SplitInv'
  BY <1>3, <1>7, NoSplits
<1>13. KnownInv'
  BY <1>3, <1>7, <1>9 DEF SearchInv, KnownInv, Mentioned
<1>14. PhaseInv' /\ AnalyzeInv'
  BY <1>3, <1>7, <1>9 DEF SearchInv, PhaseInv, Outside, AnalyzeInv
<1>15. QueueInv'
  BY <1>3, <1>7 DEF SearchInv, QueueInv, decisionLevel
<1>16. FinalInv'
  BY <1>3, <1>5, <1>8, GivenFacts DEF FinalInv, AllFalse, decisionLevel
<1> QED
  BY <1>10, <1>11, <1>12, <1>13, <1>14, <1>15, <1>16 DEF SearchInv

-----------------------------------------------------------------------------
\* What one round of analyze finds: the literals it has marked form a clause that
\* holds, all of them are false, and the last one became false at the current level.
LEMMA MarkedFacts ==
  ASSUME SearchInv, pc = "analyze", NEW marked, marked = seen \cup {l \in confl \ {p} : level[var(l)] > 0},
         NEW i, i = LastSeen(marked), NEW q, q = trail[i]
  PROVE  /\ marked \subseteq Lit /\ Implied(marked, GivenModel) /\ \A l \in marked : level[var(l)] > 0
         /\ i \in 1 .. Len(trail) /\ q \in Lit /\ -q \in marked
         /\ \A l \in marked \ {-q} : FalseBefore(trail, i - 1, l)
         /\ trail_lim[decisionLevel] < i /\ decisionLevel \in 1 .. Len(trail_lim)
<1>1. /\ decisionLevel > 0 /\ confl \subseteq Lit /\ seen \subseteq Lit
      /\ Implied(seen \cup (confl \ {p}), GivenModel)
      /\ AllFalse(seen \cup (confl \ {p})) /\ AtCurrentLevel(seen \cup (confl \ {p}))
      /\ \A l \in seen : level[var(l)] > 0
  BY DEF SearchInv, AnalyzeInv
<1>2. PICK A : A = seen \cup (confl \ {p})
  OBVIOUS
<1>3. A \in SUBSET Lit /\ Implied(A, GivenModel) /\ AllFalse(A) /\ AtCurrentLevel(A)
  BY <1>1, <1>2
<1>4. \A l \in A : level[var(l)] \in 0 .. decisionLevel
  BY <1>3, FalseLevels
<1>5. marked \subseteq A /\ \A l \in A : l \in marked \/ level[var(l)] = 0
  BY <1>2, <1>4, TrailLevels
<1>6. Implied(marked, GivenModel)
  <2>1. ASSUME NEW l \in A, l \notin marked
        PROVE  \E j \in 1 .. Len(trail) : trail[j] = -l /\ level[var(trail[j])] = 0
    <3>1. PICK j \in 1 .. Len(trail) : trail[j] = -l
      BY <1>3, <2>1 DEF AllFalse, FalseBefore
    <3>2. level[var(trail[j])] = 0
      BY <1>3, <1>5, <2>1, <3>1, LitFacts
    <3> QED BY <3>1, <3>2
  <2>2. Zero(trail, level, GivenModel) /\ trail \in Seq(Lit)
    BY TrailLevels DEF SearchInv, TrailInv, TrailHolds
  <2> QED BY <1>3, <2>1, <2>2, DropZero, GivenFacts
<1>7. decisionLevel \in 1 .. decisionLevel /\ decisionLevel \in 1 .. Len(trail_lim)
  BY <1>1, TrailLevels DEF decisionLevel
<1>8. PICK k \in marked : level[var(k)] = decisionLevel
  BY <1>1, <1>3, <1>5, TrailLevels DEF AtCurrentLevel
<1>9. k \in Lit
  BY <1>3, <1>5
<1>10. PICK j \in 1 .. Len(trail) : trail[j] = -k
  BY <1>3, <1>5 DEF AllFalse, FalseBefore
<1>11. -trail[j] \in marked
  BY <1>8, <1>9, <1>10, LitFacts
<1>12. /\ i \in 1 .. Len(trail) /\ -q \in marked
       /\ \A x \in 1 .. Len(trail) : -trail[x] \in marked => x <= i
  BY <1>11, LastSeenFacts, TrailLevels
<1>13. trail_lim[decisionLevel] < i
  <2>1. level[var(trail[j])] = decisionLevel
    BY <1>8, <1>9, <1>10, LitFacts
  <2>2. trail_lim[decisionLevel] < j
    BY <1>7, <2>1 DEF SearchInv, TrailInv, TrailHolds, TrailFits, Levels
  <2>3. trail_lim[decisionLevel] \in Nat /\ j <= i
    BY <1>7, <1>11, <1>12, TrailLevels
  <2> QED BY <1>12, <2>2, <2>3
<1>14. q \in Lit
  BY <1>12, TrailLevels
<1>15. ASSUME NEW l \in marked \ {-q} PROVE FalseBefore(trail, i - 1, l)
  <2>1. l \in Lit
    BY <1>3, <1>5
  <2>2. PICK x \in 1 .. Len(trail) : trail[x] = -l
    BY <1>3, <1>5 DEF AllFalse, FalseBefore
  <2>3. -trail[x] = l
    BY <2>1, <2>2, LitFacts
  <2>4. x <= i /\ x # i
    BY <1>12, <1>15, <2>3
  <2>5. x \in 1 .. i - 1
    BY <1>12, <2>4
  <2> QED BY <2>2, <2>5 DEF FalseBefore
<1>16. \A l \in marked : level[var(l)] > 0
  BY <1>1
<1> QED
  BY <1>3, <1>5, <1>6, <1>7, <1>12, <1>13, <1>14, <1>15, <1>16

\* CoreSMTSolver::cancelUntilVar for a variable of the current level, and the reason
\* it now has.
LEMMA UndoKeeps ==
  ASSUME SearchInv, pc = "analyze", NEW i \in 1 .. Len(trail), NEW q, q = trail[i], UndoTo(i - 1),
         trail_lim[decisionLevel] < i, decisionLevel \in 1 .. Len(trail_lim), NEW r,
         reason' = [reason EXCEPT ![var(q)] = r],
         UNCHANGED <<given, trail_lim, level, assumptions>>
  PROVE  /\ TrailInv' /\ TheoryInv' /\ declared' = declared /\ Len(trail') = i - 1
         /\ \A j \in 1 .. i - 1 : trail'[j] = trail[j]
         /\ \A j \in 1 .. Len(trail) : level[var(trail[j])] = 0 => j \in 1 .. Len(trail') /\ trail'[j] = trail[j]
         /\ \A d \in 1 .. Len(th_deductions') : var(th_deductions'[d]) \in declared
<1>1. PICK n \in Nat : n = i - 1
  OBVIOUS
<1>2. PICK u : u = trail'
  OBVIOUS
<1>3. u = SubSeq(trail, 1, n) /\ Backtrack(n) /\ n <= Len(trail)
  BY <1>1, <1>2, TrailLevels DEF UndoTo
<1>4. u \in Seq(Lit) /\ Len(u) = n /\ \A j \in 1 .. n : u[j] = trail[j]
  BY <1>1, <1>3, TrailLevels, Prefix
<1>5. StackFits(u, trail)
  BY <1>3, <1>4 DEF StackFits
<1>6. PICK h \in Nat : h = Len(trail_lim)
  BY TrailLevels DEF decisionLevel
<1>7. TrailFits(trail, trail_lim, level)
  BY DEF SearchInv, TrailInv, TrailHolds
<1>8. h > 0 /\ h = decisionLevel /\ trail_lim[h] <= n /\ trail_lim[h] \in Nat
  BY <1>1, <1>6, TrailLevels DEF decisionLevel
<1>9. \A k \in 1 .. h : trail_lim[k] <= n /\ trail_lim[k] \in Nat
  <2> TAKE k \in 1 .. h
  <2>1. k \in 1 .. Len(trail_lim) /\ h \in 1 .. Len(trail_lim) /\ k <= h
    BY <1>6, <1>8
  <2>2. trail_lim[k] <= trail_lim[h] /\ trail_lim[k] \in Nat
    BY <1>7, <2>1 DEF TrailFits, Lims
  <2> QED BY <1>8, <2>2
<1>10. Cut(u, trail_lim, trail, trail_lim)
  BY <1>4, <1>5, <1>6, <1>9, TrailLevels DEF Cut
<1>11. PICK su : su = stack'
  OBVIOUS
<1>12. /\ TheoryHolds' /\ StackFits(su, stack) /\ declared' = declared
       /\ Len(su) = (IF n < Len(stack) THEN n ELSE Len(stack))
       /\ Len(th_deductions') <= Len(th_deductions)
       /\ \A d \in 1 .. Len(th_deductions') : th_deductions'[d] = th_deductions[d]
  BY <1>3, <1>11, KnownStack, BacktrackKeeps DEF SearchInv, TheoryInv
<1>13. TrailHolds(u, trail_lim, level, reason, assumptions, GivenModel, su)
  <2>1. Len(su) < Len(stack) => Len(u) <= Len(su)
    BY <1>4, <1>12, TrailLevels
  <2>2. /\ TrailHolds(trail, trail_lim, level, reason, assumptions, GivenModel, stack)
        /\ stack \in Seq(Lit)
    BY TrailLevels DEF SearchInv, TrailInv
  <2> QED BY <1>10, <1>12, <2>1, <2>2, CutHolds
<1>14. TrailInv'
  <2>1. PICK rs2 : rs2 = reason'
    OBVIOUS
  <2>2. DOMAIN reason = Var
    BY DEF SearchInv, TrailInv, TrailHolds, Justified
  <2>3. DOMAIN rs2 = Var /\ \A v \in Var : v # var(q) => rs2[v] = reason[v]
    BY <2>1, <2>2
  <2>4. ASSUME NEW j \in 1 .. Len(u) PROVE rs2[var(u[j])] = reason[var(u[j])]
    <3>1. j \in 1 .. Len(trail) /\ j # i /\ u[j] = trail[j] /\ trail[j] \in Lit
      BY <1>1, <1>3, <1>4, TrailLevels
    <3>2. var(trail[j]) # var(q)
      BY <1>7, <3>1 DEF TrailFits, Distinct
    <3> QED BY <2>3, <3>1, <3>2, LitFacts
  <2>5. TrailHolds(u, trail_lim, level, rs2, assumptions, GivenModel, su)
    BY <1>13, <2>3, <2>4, OtherReasonsHold
  <2> QED BY <1>2, <1>11, <2>1, <2>5, GivenFacts DEF TrailInv
<1>15. TheoryInv'
  <2>1. Len(su) \in Nat /\ Len(su) <= n /\ Len(su) <= Len(stack) /\ su \in Seq(Lit)
    BY <1>12, TrailLevels DEF StackFits
  <2>2. ASSUME NEW j \in 1 .. Len(su) PROVE su[j] = u[j]
    <3>1. j \in 1 .. Len(stack) /\ j \in 1 .. n
      BY <2>1, TrailLevels
    <3> QED BY <1>4, <1>12, <3>1 DEF StackFits, SearchInv, TheoryInv
  <2>3. StackFits(su, u)
    BY <1>4, <2>1, <2>2 DEF StackFits
  <2> QED BY <1>2, <1>11, <1>12, <2>3 DEF TheoryInv
<1>16. ASSUME NEW j \in 1 .. Len(trail), level[var(trail[j])] = 0 PROVE j \in 1 .. n
  <2>1. ~(trail_lim[h] < j)
    BY <1>6, <1>7, <1>8, <1>16 DEF TrailFits, Levels
  <2> QED BY <1>8, <2>1
<1>17. \A d \in 1 .. Len(th_deductions') : d \in 1 .. Len(th_deductions)
  BY <1>12 DEF SearchInv, TheoryInv, TheoryHolds, PointsFit
<1>18. ~Outside
  BY DEF SearchInv, PhaseInv, Outside
<1> QED
  BY <1>1, <1>2, <1>4, <1>12, <1>14, <1>15, <1>16, <1>17, <1>18 DEF SearchInv, KnownInv

\* A round of analyze: the marked literals and the clause still to resolve with stay an implied,
\* falsified clause with a literal of the current level.
LEMMA AnalyzeStepKeeps == SearchInv /\ AnalyzeStep => SearchInv'
<1> SUFFICES ASSUME SearchInv, AnalyzeStep PROVE SearchInv'
  OBVIOUS
<1>1. PICK marked : marked = seen \cup {l \in confl \ {p} : level[var(l)] > 0}
  OBVIOUS
<1>2. PICK i : i = LastSeen(marked)
  OBVIOUS
<1>3. PICK q : q = trail[i]
  OBVIOUS
<1>4. PICK rest : rest = marked \ {-q}
  OBVIOUS
<1>5. /\ pc = "analyze" /\ p' = q /\ seen' = rest
      /\ pc' = IF CurrentLevel(rest) = {} THEN "learn" ELSE "analyze"
      /\ reason[var(q)] = CRef_Fake =>
           \E t \in ReasonsFor(q, i - 1) : /\ UndoTo(i - 1)
                                           /\ reason' = [reason EXCEPT ![var(q)] = Negated(t)]
                                           /\ confl' = Negated(t)
      /\ reason[var(q)] # CRef_Fake => confl' = reason[var(q)] /\ UNCHANGED <<trail, qhead, reason, theoryVars>>
      /\ UNCHANGED <<given, clauses, learnts, watched, splits, propData, decision, assumptions>>
      /\ UNCHANGED <<trail_lim, level, visit, after, ok, conflict_frame, answer>>
  BY <1>1, <1>2, <1>3, <1>4 DEF AnalyzeStep, UndoPoint, clauseVars, splitVars, callVars, resultVars
<1>6. /\ marked \subseteq Lit /\ Implied(marked, GivenModel) /\ \A l \in marked : level[var(l)] > 0
      /\ i \in 1 .. Len(trail) /\ q \in Lit /\ -q \in marked
      /\ \A l \in rest : FalseBefore(trail, i - 1, l)
      /\ trail_lim[decisionLevel] < i /\ decisionLevel \in 1 .. Len(trail_lim)
  BY <1>1, <1>2, <1>3, <1>4, <1>5, MarkedFacts
<1>7. ~Outside /\ ~Outside' /\ visit = {} /\ splits = <<>> /\ propData = <<>>
  BY <1>5 DEF SearchInv, PhaseInv, Outside
<1>8. /\ TrailInv' /\ TheoryInv' /\ declared' = declared /\ Len(trail') \in i - 1 .. Len(trail)
      /\ \A j \in 1 .. Len(trail') : j \in 1 .. Len(trail) /\ trail'[j] = trail[j]
      /\ \A j \in 1 .. Len(trail) : level[var(trail[j])] = 0 => j \in 1 .. Len(trail') /\ trail'[j] = trail[j]
      /\ \A d \in 1 .. Len(th_deductions') : var(th_deductions'[d]) \in declared
      /\ qhead' \in 0 .. Len(trail') /\ trail_lim[decisionLevel] <= qhead'
  <2>1. CASE reason[var(q)] = CRef_Fake
    <3>1. PICK t \in ReasonsFor(q, i - 1) : UndoTo(i - 1) /\ reason' = [reason EXCEPT ![var(q)] = Negated(t)]
      BY <1>5, <2>1
    <3>2. PICK r : r = Negated(t)
      OBVIOUS
    <3>3. /\ TrailInv' /\ TheoryInv' /\ declared' = declared /\ Len(trail') = i - 1
          /\ \A j \in 1 .. i - 1 : trail'[j] = trail[j]
          /\ \A j \in 1 .. Len(trail) : level[var(trail[j])] = 0 => j \in 1 .. Len(trail') /\ trail'[j] = trail[j]
          /\ \A d \in 1 .. Len(th_deductions') : var(th_deductions'[d]) \in declared
      BY <1>3, <1>5, <1>6, <3>1, <3>2, UndoKeeps
    <3>4. qhead' = i - 1
      BY <3>1 DEF UndoTo
    <3>5. trail_lim[decisionLevel] \in Nat
      BY <1>6, TrailLevels
    <3>6. trail_lim[decisionLevel] <= qhead' /\ qhead' \in 0 .. Len(trail') /\ Len(trail') \in i - 1 .. Len(trail)
      BY <1>6, <3>3, <3>4, <3>5, TrailLevels
    <3> QED BY <1>6, <3>3, <3>6, TrailLevels
  <2>2. CASE reason[var(q)] # CRef_Fake
    <3>1. UNCHANGED <<trail, qhead, reason>> /\ UNCHANGED <<stack, points, th_deductions, deductions_next, declared>>
      BY <1>5, <2>2 DEF theoryVars
    <3>2. TrailInv' /\ TheoryInv'
      BY <1>5, <3>1, TrailSame, TheorySame DEF SearchInv, TheoryInv, TheoryHolds
    <3>3. qhead' \in 0 .. Len(trail') /\ trail_lim[decisionLevel] <= qhead'
      BY <1>6, <3>1, TrailLevels DEF SearchInv, QueueInv
    <3>4. Len(trail') \in i - 1 .. Len(trail)
      BY <1>6, <3>1, TrailLevels
    <3> QED BY <1>7, <3>1, <3>2, <3>3, <3>4 DEF SearchInv, KnownInv
  <2> QED BY <2>1, <2>2
<1>9. \A l : FalseBefore(trail, i - 1, l) => FalseBefore(trail', Len(trail'), l)
  <2>1. PICK m \in Nat : m = Len(trail')
    BY <1>6, <1>8, TrailLevels
  <2>2. \A j \in 1 .. i - 1 : j \in 1 .. m
    BY <1>6, <1>8, <2>1
  <2>3. \A j \in 1 .. m : trail'[j] = trail[j]
    BY <1>8, <2>1
  <2> QED BY <2>1, <2>2, <2>3 DEF FalseBefore
<1>10. ClauseInv' /\ AnswerInv' /\ SplitInv'
  BY <1>5, <1>7, ClauseSame, AnswerSame, NoSplits DEF SearchInv, clauseVars
<1>11. PhaseInv' /\ FinalInv'
  BY <1>5, <1>7 DEF SearchInv, PhaseInv, FinalInv, Outside
<1>12. QueueInv'
  <2>1. pc' \in {"learn", "analyze"} /\ visit' = {} /\ trail_lim' = trail_lim /\ qhead' \in 0 .. Len(trail')
        /\ trail_lim[decisionLevel] <= qhead'
    BY <1>5, <1>7, <1>8
  <2> QED BY <2>1 DEF QueueInv, decisionLevel
<1>13. Mentioned \subseteq Mentioned'
  BY <1>5, <1>8, MentionedGrows
<1>14. KnownInv'
  BY <1>5, <1>7, <1>8, <1>13 DEF SearchInv, KnownInv
<1>15. GivenModel' = GivenModel /\ decisionLevel' = decisionLevel /\ decisionLevel > 0
  BY <1>5, <1>6, GivenFacts, TrailLevels DEF decisionLevel
<1>16. rest \subseteq Lit /\ AllFalse(rest)' /\ \A l \in rest : level'[var(l)] > 0
  BY <1>4, <1>5, <1>6, <1>9 DEF AllFalse
<1>17. CASE CurrentLevel(rest) = {}
  <2>1. pc' = "learn"
    BY <1>5, <1>17
  <2>2. \A l \in rest : level[var(l)] \in 0 .. decisionLevel
    <3> TAKE l \in rest
    <3>1. PICK j \in 1 .. i - 1 : trail[j] = -l
      BY <1>6 DEF FalseBefore
    <3>2. j \in 1 .. Len(trail) /\ l \in Lit
      BY <1>6, <1>16, TrailLevels
    <3>3. var(trail[j]) = var(l)
      BY <3>1, <3>2, LitFacts
    <3> QED BY <3>2, <3>3, TrailLevels
  <2>3. \A l \in rest : level[var(l)] < decisionLevel
    BY <1>17, <2>2, TrailLevels DEF CurrentLevel
  <2>4. rest \cup {-q} = marked
    BY <1>4, <1>6
  <2>5. ASSUME NEW j \in 1 .. Len(trail'), var(trail'[j]) = var(q) PROVE trail_lim[decisionLevel] < j
    <3>1. j \in 1 .. Len(trail) /\ var(trail[j]) = var(trail[i])
      BY <1>3, <1>8, <2>5
    <3>2. j = i
      BY <1>6, <3>1 DEF SearchInv, TrailInv, TrailHolds, TrailFits, Distinct
    <3> QED BY <1>6, <3>2
  <2>6. var(q) \in TheoryVar => var(q) \in declared'
    BY <1>3, <1>6, <1>7, <1>8 DEF SearchInv, KnownInv
  <2>7. AnalyzeInv'
    <3>1. /\ p' \in Lit /\ seen' \subseteq Lit /\ Implied(seen' \cup {-p'}, GivenModel') /\ AllFalse(seen)'
          /\ \A l \in seen' : level'[var(l)] > 0 /\ level'[var(l)] < decisionLevel'
          /\ \A j \in 1 .. Len(trail') : var(trail'[j]) = var(p') => trail_lim'[decisionLevel'] < j
          /\ var(p') \in TheoryVar => var(p') \in declared'
      BY <1>5, <1>6, <1>15, <1>16, <2>3, <2>4, <2>5, <2>6 DEF AllFalse
    <3> QED BY <1>15, <2>1, <3>1 DEF AnalyzeInv
  <2> QED BY <1>8, <1>10, <1>11, <1>12, <1>14, <2>7 DEF SearchInv
<1>18. CASE CurrentLevel(rest) # {}
  <2>1. pc' = "analyze"
    BY <1>5, <1>18
  <2>2. PICK x \in rest : level[var(x)] >= decisionLevel
    BY <1>18 DEF CurrentLevel
  <2>3. PICK j \in 1 .. i - 1 : trail[j] = -x
    BY <1>6, <2>2 DEF FalseBefore
  <2>4. j \in 1 .. Len(trail) /\ x \in Lit /\ var(trail[j]) = var(x) /\ j < i
    BY <1>6, <1>16, <2>2, <2>3, LitFacts, TrailLevels
  <2>5. level[var(x)] = decisionLevel
    BY <2>2, <2>4, TrailLevels
  <2>6. reason[var(q)] # CRef_Undef
    <3> SUFFICES ASSUME reason[var(q)] = CRef_Undef PROVE FALSE
      OBVIOUS
    <3>1. PICK h : h = decisionLevel
      OBVIOUS
    <3>2. h = Len(trail_lim) /\ h \in 1 .. Len(trail_lim) /\ trail_lim[h] \in Nat
      BY <1>6, <3>1, TrailLevels DEF decisionLevel
    <3>3. level[var(q)] \in 0 .. h /\ h <= level[var(q)]
      BY <1>3, <1>6, <3>1, <3>2, TrailLevels DEF SearchInv, TrailInv, TrailHolds, TrailFits, Levels
    <3>4. level[var(q)] = h /\ h > 0
      BY <3>2, <3>3
    <3>5. i = trail_lim[h] + 1
      BY <1>3, <1>6, <3>4 DEF SearchInv, TrailInv, TrailHolds, Decided
    <3>6. trail_lim[h] < j
      BY <2>4, <2>5, <3>1, <3>2 DEF SearchInv, TrailInv, TrailHolds, TrailFits, Levels
    <3> QED BY <2>4, <3>2, <3>5, <3>6
  <2>7. Implies1(confl', q, i)
    <3>1. CASE reason[var(q)] = CRef_Fake
      <4>1. PICK t \in ReasonsFor(q, i - 1) : confl' = Negated(t)
        BY <1>5, <3>1
      <4> QED BY <1>3, <1>6, <4>1, TheoryReason
    <3>2. CASE reason[var(q)] # CRef_Fake
      BY <1>3, <1>5, <1>6, <2>6, <3>2, ClauseReason
    <3> QED BY <3>1, <3>2
  <2>8. PICK r : r = confl'
    OBVIOUS
  <2>9. r \subseteq Lit /\ Implied(r, GivenModel) /\ \A k \in r \ {q} : FalseBefore(trail, i - 1, k)
    BY <2>7, <2>8 DEF Implies1
  <2>10. Implied(rest \cup (r \ {q}), GivenModel)
    BY <1>4, <1>6, <2>9, Resolve, GivenFacts
  <2>11. AllFalse(rest \cup (r \ {q}))' /\ AtCurrentLevel(rest \cup (r \ {q}))'
    BY <1>5, <1>6, <1>9, <1>15, <2>2, <2>5, <2>9 DEF AllFalse, AtCurrentLevel
  <2>12. AnalyzeInv'
    <3>1. /\ confl' \subseteq Lit /\ Implied(confl', GivenModel') /\ seen' \subseteq Lit
          /\ Implied(seen' \cup (confl' \ {p'}), GivenModel')
          /\ AllFalse(seen \cup (confl \ {p}))' /\ AtCurrentLevel(seen \cup (confl \ {p}))'
          /\ \A l \in seen' : level'[var(l)] > 0
      BY <1>5, <1>15, <1>16, <2>8, <2>9, <2>10, <2>11 DEF AllFalse, AtCurrentLevel
    <3> QED BY <1>15, <2>1, <3>1 DEF AnalyzeInv
  <2> QED BY <1>8, <1>10, <1>11, <1>12, <1>14, <2>12 DEF SearchInv
<1> QED
  BY <1>17, <1>18

\* The clause that is learnt, and the level the search goes back to.
LEMMA LearntFacts ==
  ASSUME SearchInv, pc = "learn", NEW bt, bt = MaxLevel(Minimized)
  PROVE  /\ Minimized \subseteq Lit /\ p \in Lit /\ Implied(Minimized \cup {-p}, GivenModel)
         /\ bt \in 0 .. decisionLevel /\ bt < decisionLevel
         /\ \A k \in Minimized : (\E i \in 1 .. Len(trail) : trail[i] = -k) /\ level[var(k)] <= bt
         /\ bt > 0 => Minimized # {}
<1>1. /\ decisionLevel > 0 /\ p \in Lit /\ seen \subseteq Lit
      /\ Implied(seen \cup {-p}, GivenModel) /\ AllFalse(seen)
      /\ \A l \in seen : level[var(l)] > 0 /\ level[var(l)] < decisionLevel
  BY DEF SearchInv, AnalyzeInv
<1>2. Minimized \subseteq seen
  BY DEF Minimized
<1>3. Implied(Minimized \cup {-p}, GivenModel)
  <2>1. /\ trail \in Seq(Lit) /\ Distinct(trail) /\ Zero(trail, level, GivenModel)
        /\ Justified(trail, reason, GivenModel)
    BY TrailLevels DEF SearchInv, TrailInv, TrailHolds, TrailFits
  <2>2. \A l \in seen : FalseBefore(trail, Len(trail), l)
    BY <1>1 DEF AllFalse
  <2> QED BY <1>1, <2>1, <2>2, MinimizedImplied, GivenFacts
<1>4. PICK n \in Nat : n = decisionLevel - 1
  BY <1>1, TrailLevels
<1>5. \A l \in seen : level[var(l)] \in 0 .. decisionLevel
  BY <1>1, FalseLevels
<1>6. PICK C : C = Minimized
  OBVIOUS
<1>7. \A l \in C : level[var(l)] \in 0 .. n
  BY <1>1, <1>2, <1>4, <1>5, <1>6, TrailLevels
<1>8. /\ bt \in 0 .. n /\ (\A l \in C : level[var(l)] <= bt)
      /\ bt > 0 => \E l \in C : level[var(l)] = bt
  BY <1>6, <1>7, MaxLevelFacts
<1>9. bt \in 0 .. decisionLevel /\ bt < decisionLevel
  BY <1>4, <1>8, TrailLevels
<1> QED
  BY <1>1, <1>2, <1>3, <1>6, <1>8, <1>9 DEF AllFalse, FalseBefore

\* The learnt clause, minimised, is implied; after the backjump it implies its first literal.
LEMMA LearnKeeps == SearchInv /\ Learn => SearchInv'
<1> SUFFICES ASSUME SearchInv, Learn PROVE SearchInv'
  OBVIOUS
<1>1. PICK C : C = Minimized
  OBVIOUS
<1>2. PICK c : c = C \cup {-p}
  OBVIOUS
<1>3. PICK bt : bt = MaxLevel(C)
  OBVIOUS
<1>4. PICK u : u = SubSeq(trail, 1, EndOf(bt))
  OBVIOUS
<1>5. PICK from : from = IF C = {} THEN CRef_Undef ELSE c
  OBVIOUS
<1>6. PICK q : q = -p
  OBVIOUS
<1>7. /\ pc = "learn" /\ CancelUntil(bt) /\ EnqueueOn(u, q, from, bt)
      /\ C = {} => UNCHANGED <<learnts, watched>>
      /\ C # {} => learnts' = learnts \cup {c} /\ \E l \in C : watched' = Attached(c, <<q, l>>)
      /\ pc' = "loop"
      /\ UNCHANGED <<given, clauses, splits, propData, decision, assumptions, visit, after, ok, conflict_frame, answer>>
  <2>1. C = {} => EnqueueOn(u, q, from, bt) /\ UNCHANGED <<learnts, watched>>
    BY <1>1, <1>3, <1>4, <1>5, <1>6 DEF Learn, BackjumpLevel
  <2>2. C # {} => EnqueueOn(u, q, from, bt) /\ learnts' = learnts \cup {c} /\ \E l \in C : watched' = Attached(c, <<q, l>>)
    BY <1>1, <1>2, <1>3, <1>4, <1>5, <1>6 DEF Learn, BackjumpLevel
  <2>3. /\ pc = "learn" /\ CancelUntil(bt) /\ pc' = "loop"
        /\ UNCHANGED <<given, clauses, splits, propData, decision, assumptions, visit, after, ok, conflict_frame, answer>>
    BY <1>1, <1>3 DEF Learn, BackjumpLevel, splitVars, callVars, resultVars
  <2> QED BY <2>1, <2>2, <2>3
<1>8. /\ C \subseteq Lit /\ p \in Lit /\ Implied(c, GivenModel)
      /\ bt \in 0 .. decisionLevel /\ bt < decisionLevel
      /\ \A k \in C : (\E i \in 1 .. Len(trail) : trail[i] = -k) /\ level[var(k)] <= bt
      /\ bt > 0 => C # {}
  BY <1>1, <1>2, <1>3, <1>7, LearntFacts
<1>9. q \in Lit /\ var(q) = var(p) /\ var(q) \in Var /\ c \in SUBSET Lit /\ q \in c /\ C \subseteq c
  BY <1>2, <1>6, <1>8, LitFacts
<1>10. ~Outside /\ ~Outside' /\ visit = {} /\ splits = <<>> /\ propData = <<>>
  BY <1>7 DEF SearchInv, PhaseInv, Outside
<1>11. PICK w : w = trail_lim'
  OBVIOUS
<1>12. PICK su : su = stack'
  OBVIOUS
<1>13. /\ Len(w) = bt /\ TheoryHolds' /\ StackFits(su, u) /\ declared' = declared
       /\ Len(u) = IF bt < Len(trail_lim) THEN trail_lim[bt + 1] ELSE Len(trail)
       /\ TrailHolds(u, w, level, reason, assumptions, GivenModel, su)
       /\ qhead' \in 0 .. Len(u) /\ (bt > 0 => w[bt] <= qhead')
  BY <1>4, <1>7, <1>8, <1>11, <1>12, CancelFacts
<1>14. /\ \A i \in 1 .. Len(u) : i \in 1 .. Len(trail) /\ u[i] = trail[i]
       /\ \A i \in 1 .. Len(trail) : level[var(trail[i])] <= bt => i \in 1 .. Len(u) /\ u[i] = trail[i]
       /\ \A k \in Lit : (\E i \in 1 .. Len(trail) : trail[i] = -k) /\ level[var(k)] <= bt => FalseBefore(u, Len(u), k)
       /\ \A d \in 1 .. Len(th_deductions') : var(th_deductions'[d]) \in declared
  BY <1>4, <1>7, <1>8, <1>10, CancelKeeps
<1>15. u \in Seq(Lit) /\ Len(u) \in Nat
  BY <1>13 DEF TrailHolds, TrailFits
<1>16. Fresh(u, q)
  <2> SUFFICES ASSUME NEW i \in 1 .. Len(u), var(u[i]) = var(q) PROVE FALSE
    BY <1>9 DEF Fresh
  <2>1. PICK h \in Nat : h = decisionLevel
    BY TrailLevels
  <2>2. i \in 1 .. Len(trail) /\ var(trail[i]) = var(p)
    BY <1>9, <1>14
  <2>3. trail_lim[h] < i
    BY <1>7, <2>1, <2>2 DEF SearchInv, AnalyzeInv
  <2>4. bt + 1 \in 1 .. h /\ h \in 1 .. h /\ h = Len(trail_lim)
    BY <1>8, <2>1 DEF decisionLevel
  <2>5. trail_lim[bt + 1] <= trail_lim[h] /\ trail_lim[bt + 1] \in Nat /\ trail_lim[h] \in Nat
    BY <2>1, <2>4, TrailLevels DEF SearchInv, TrailInv, TrailHolds, TrailFits, Lims
  <2>6. i <= trail_lim[bt + 1]
    BY <1>8, <1>13, <2>1, <2>4
  <2> QED BY <2>2, <2>3, <2>5, <2>6
<1>17. Justifies(c, u, Len(u), q, GivenModel)
  <2>1. ASSUME NEW k \in c \ {q} PROVE FalseBefore(u, Len(u), k)
    <3>1. k \in C /\ k \in Lit
      BY <1>2, <1>6, <1>8, <2>1
    <3> QED BY <1>8, <1>14, <3>1
  <2> QED BY <1>8, <1>9, <2>1 DEF Justifies
<1>18. MayEnqueue(u, w, q, from, assumptions, GivenModel, su)
  <2>1. Len(w) = 0 => \A m \in GivenModel : q \in m
    BY <1>13, <1>17, UnitZero, GivenFacts DEF TrailHolds
  <2>2. Len(w) > 0 => from = c
    BY <1>5, <1>8, <1>13
  <2>3. c # CRef_Undef /\ c # CRef_Fake /\ CRef_Undef # CRef_Fake
    BY <1>9, LitFacts DEF CRef_Undef, CRef_Fake
  <2>4. from = CRef_Undef \/ from = c
    BY <1>5
  <2> QED BY <1>16, <1>17, <2>1, <2>2, <2>3, <2>4 DEF MayEnqueue
<1>19. trail' = Append(u, q) /\ level' = [level EXCEPT ![var(q)] = Len(w)] /\ reason' = [reason EXCEPT ![var(q)] = from]
  BY <1>7, <1>13 DEF EnqueueOn
<1>20. PICK u2 : u2 = trail'
  OBVIOUS
<1>21. Extends(u2, u, q)
  BY <1>9, <1>15, <1>19, <1>20, AppendExtends
<1>22. TrailInv'
  <2>1. TrailHolds(u2, w, level', reason', assumptions, GivenModel, su)
    BY <1>13, <1>18, <1>19, <1>21, EnqueueHolds
  <2> QED BY <1>7, <1>11, <1>12, <1>20, <2>1, GivenFacts DEF TrailInv
<1>23. u2 \in Seq(Lit) /\ Len(u2) = Len(u) + 1 /\ (\A i \in 1 .. Len(u) : u2[i] = u[i]) /\ u2[Len(u) + 1] = q
  BY <1>21 DEF Extends
<1>24. TheoryInv'
  <2>1. StackFits(su, u2)
    BY <1>13, <1>15, <1>23 DEF StackFits
  <2> QED BY <1>12, <1>13, <1>20, <2>1 DEF TheoryInv
<1>25. ClauseInv'
  <2>1. CASE C = {}
    BY <1>7, <2>1, ClauseSame DEF SearchInv, clauseVars
  <2>2. CASE C # {}
    <3>1. PICK l \in C : watched' = Attached(c, <<q, l>>)
      BY <1>7, <2>2
    <3>2. clauses' \cup learnts' = (clauses \cup learnts) \cup {c}
      BY <1>7, <2>2
    <3>3. l \in c
      BY <1>9
    <3> QED BY <1>7, <1>8, <1>9, <3>1, <3>2, <3>3, AttachKeeps
  <2> QED BY <2>1, <2>2
<1>26. AnswerInv' /\ SplitInv'
  BY <1>7, <1>10, AnswerSame, NoSplits DEF SearchInv
<1>27. PhaseInv' /\ AnalyzeInv' /\ FinalInv'
  BY <1>7, <1>10 DEF SearchInv, PhaseInv, AnalyzeInv, FinalInv, Outside
<1>28. QueueInv'
  <2>1. pc' = "loop" /\ visit' = {} /\ Len(trail_lim') = bt /\ (bt > 0 => trail_lim'[bt] <= qhead') /\ qhead' \in 0 .. Len(trail')
    BY <1>7, <1>10, <1>11, <1>13, <1>15, <1>20, <1>23
  <2> QED BY <2>1 DEF QueueInv, decisionLevel
<1>29. level \in [Var -> Nat]
  BY DEF SearchInv, TrailInv, TrailHolds, TrailFits, Levels
<1>30. ASSUME NEW i \in 1 .. Len(trail), level[var(trail[i])] = 0
       PROVE  i \in 1 .. Len(u2) /\ u2[i] = trail[i] /\ level'[var(trail[i])] = 0
  <2>1. i \in 1 .. Len(u) /\ u[i] = trail[i]
    BY <1>8, <1>14, <1>30
  <2>2. var(trail[i]) # var(q) /\ var(trail[i]) \in Var
    BY <1>16, <2>1, TrailLevels, LitFacts DEF Fresh
  <2>3. level'[var(trail[i])] = 0
    BY <1>19, <1>29, <1>30, <2>2
  <2> QED BY <1>15, <1>23, <2>1, <2>3
<1>31. Mentioned \subseteq Mentioned'
  BY <1>7, <1>20, <1>30, MentionedGrows
<1>32. KnownInv'
  <2>1. var(q) \in TheoryVar => var(q) \in declared
    BY <1>7, <1>9 DEF SearchInv, AnalyzeInv
  <2>2. \A i \in 1 .. Len(u2) : i \in 1 .. Len(u) \/ i = Len(u) + 1
    BY <1>15, <1>23
  <2>3. \A i \in 1 .. Len(u2) : var(u2[i]) \in TheoryVar => var(u2[i]) \in declared
    BY <1>10, <1>14, <1>23, <2>1, <2>2 DEF SearchInv, KnownInv
  <2>4. ASSUME NEW v \in AtomsIn(c) PROVE v \in declared
    <3>1. PICK k \in c : v = var(k)
      BY <2>4 DEF AtomsIn, Vars
    <3>2. v \in TheoryVar
      BY <2>4 DEF AtomsIn
    <3>3. CASE k = q
      BY <2>1, <3>1, <3>2, <3>3
    <3>4. CASE k # q
      <4>1. k \in C /\ k \in Lit
        BY <1>2, <1>6, <1>8, <3>1, <3>4
      <4>2. PICK i \in 1 .. Len(trail) : trail[i] = -k
        BY <1>8, <4>1
      <4>3. var(trail[i]) = v
        BY <3>1, <4>1, <4>2, LitFacts
      <4> QED BY <1>10, <3>2, <4>3 DEF SearchInv, KnownInv
    <3> QED BY <3>3, <3>4
  <2>5. \A d \in clauses' \cup learnts' : d \in clauses \cup learnts \/ d = c
    BY <1>7
  <2>6. \A d \in clauses' \cup learnts' : AtomsIn(d) \subseteq declared
    BY <1>10, <2>4, <2>5 DEF SearchInv, KnownInv
  <2> QED BY <1>7, <1>10, <1>13, <1>14, <1>20, <1>31, <2>3, <2>6 DEF SearchInv, KnownInv
<1> QED
  BY <1>22, <1>24, <1>25, <1>26, <1>27, <1>28, <1>32 DEF SearchInv

-----------------------------------------------------------------------------
\* A clause is given to the solver: there may be fewer models.
LEMMA GivenMore ==
  ASSUME SearchInv, NEW c \in SUBSET Lit, given' = given \cup {c}
  PROVE  /\ GivenModel' \in SUBSET GivenModel /\ GivenModel' \in SUBSET TheoryModel
         /\ Implied(c, GivenModel') /\ given' \subseteq SUBSET Lit
<1>1. GivenModel' = {m \in TheoryModel : \A d \in given' : d \cap m # {}}
  BY DEF GivenModel
<1>2. GivenModel' \in SUBSET GivenModel /\ GivenModel' \in SUBSET TheoryModel
  BY <1>1 DEF GivenModel
<1>3. Implied(c, GivenModel')
  BY <1>1 DEF Implied
<1> QED
  BY <1>2, <1>3 DEF SearchInv, ClauseInv

\* What stays as it is when a clause is given.
AddFrame(c) ==
  /\ pc = "idle" /\ ok /\ given' = given \cup {c} /\ answer' = "none"
  /\ UNCHANGED <<stack, points, th_deductions, deductions_next, declared>>
  /\ UNCHANGED <<learnts, conflict_frame, splits, propData, decision, assumptions, trail_lim, qhead, visit>>
  /\ (pc' = "idle" /\ after' = after) \/ (pc' = "propagate" /\ after' = "add")

\* What is as before when a clause is given.
LEMMA AddFrameKeeps ==
  ASSUME SearchInv, NEW c \in SUBSET Lit, AddFrame(c)
  PROVE  /\ PhaseInv' /\ SplitInv' /\ AnalyzeInv' /\ FinalInv' /\ Outside /\ Outside'
         /\ trail_lim = <<>> /\ stack = <<>> /\ visit = {} /\ decisionLevel = 0
         /\ \A i \in 1 .. Len(trail) : level[var(trail[i])] = 0
<1>1. /\ pc = "idle"
      /\ UNCHANGED <<stack, splits, propData, trail_lim, visit>>
      /\ (pc' = "idle" /\ after' = after) \/ (pc' = "propagate" /\ after' = "add")
  BY DEF AddFrame
<1>2. trail_lim = <<>> /\ stack = <<>> /\ visit = {} /\ splits = <<>> /\ propData = <<>> /\ Outside /\ Outside'
  BY <1>1 DEF SearchInv, PhaseInv, Outside
<1>3. PhaseInv' /\ AnalyzeInv' /\ FinalInv'
  BY <1>1, <1>2 DEF SearchInv, PhaseInv, AnalyzeInv, FinalInv, Outside
<1>4. SplitInv'
  BY <1>1, <1>2, NoSplits
<1>5. decisionLevel = 0
  BY <1>2 DEF decisionLevel
<1>6. \A i \in 1 .. Len(trail) : level[var(trail[i])] = 0
  BY <1>5, TrailLevels
<1> QED
  BY <1>2, <1>3, <1>4, <1>5, <1>6

\* A clause is given and nothing is enqueued.
LEMMA AddTrailSame ==
  ASSUME SearchInv, NEW c \in SUBSET Lit, AddFrame(c), UNCHANGED <<trail, level, reason>>, clauses \subseteq clauses'
  PROVE  TrailInv' /\ TheoryInv' /\ KnownInv' /\ (pc' = "idle" => QueueInv')
<1>1. /\ given' = given \cup {c}
      /\ UNCHANGED <<stack, points, th_deductions, deductions_next, declared>>
      /\ UNCHANGED <<learnts, decision, assumptions, trail_lim, qhead, visit>>
  BY DEF AddFrame
<1>2. Outside /\ Outside' /\ trail_lim = <<>> /\ visit = {}
  BY AddFrameKeeps
<1>3. TrailInv'
  <2>1. PICK M2 : M2 = GivenModel'
    OBVIOUS
  <2>2. M2 \in SUBSET GivenModel
    BY <1>1, <2>1, GivenMore
  <2>3. TrailHolds(trail, trail_lim, level, reason, assumptions, M2, stack)
    BY <2>2, FewerModelsHold DEF SearchInv, TrailInv
  <2> QED BY <1>1, <2>1, <2>3 DEF TrailInv
<1>4. TheoryInv'
  BY <1>1, TheorySame DEF SearchInv, TheoryInv, TheoryHolds
<1>5. Mentioned \subseteq Mentioned'
  BY <1>1, MentionedGrows
<1>6. KnownInv'
  BY <1>1, <1>2, <1>5 DEF SearchInv, KnownInv
<1>7. pc' = "idle" => QueueInv'
  <2>1. Len(trail_lim') = 0 /\ visit' = {} /\ qhead' \in 0 .. Len(trail')
    BY <1>1, <1>2 DEF SearchInv, QueueInv
  <2> QED BY <2>1 DEF QueueInv, decisionLevel
<1> QED
  BY <1>3, <1>4, <1>6, <1>7

\* What followed from the clauses follows from more of them.
LEMMA FewerImplied ==
  ASSUME SearchInv, NEW c \in SUBSET Lit, given' = given \cup {c}, UNCHANGED <<clauses, learnts, watched>>
  PROVE  ClauseInv'
<1>1. GivenModel' \in SUBSET GivenModel /\ given' \subseteq SUBSET Lit
  BY GivenMore
<1>2. \A d : Implied(d, GivenModel) => Implied(d, GivenModel')
  BY <1>1 DEF Implied
<1> QED
  BY <1>1, <1>2 DEF SearchInv, ClauseInv

\* The clause is already satisfied, or a tautology.
LEMMA AddNothing ==
  ASSUME SearchInv, NEW c \in SUBSET Lit, AddFrame(c),
         UNCHANGED <<clauses, watched, trail, level, reason, ok, pc>>
  PROVE  SearchInv'
<1>1. /\ PhaseInv' /\ SplitInv' /\ AnalyzeInv' /\ FinalInv'
  BY AddFrameKeeps
<1>2. TrailInv' /\ TheoryInv' /\ KnownInv' /\ QueueInv'
  BY AddTrailSame DEF AddFrame
<1>3. ClauseInv'
  BY FewerImplied DEF AddFrame
<1>4. AnswerInv'
  BY DEF AddFrame, SearchInv, AnswerInv, UnsatCorrect
<1> QED
  BY <1>1, <1>2, <1>3, <1>4 DEF SearchInv

\* All its literals are false.
LEMMA AddEmpty ==
  ASSUME SearchInv, NEW c \in SUBSET Lit, AddFrame(c), \A l \in c : False(l),
         UNCHANGED <<clauses, watched, trail, level, reason, pc>>
  PROVE  SearchInv'
<1>1. /\ PhaseInv' /\ SplitInv' /\ AnalyzeInv' /\ FinalInv' /\ decisionLevel = 0
  BY AddFrameKeeps
<1>2. TrailInv' /\ TheoryInv' /\ KnownInv' /\ QueueInv'
  BY AddTrailSame DEF AddFrame
<1>3. ClauseInv'
  BY FewerImplied DEF AddFrame
<1>4. GivenModel' = {}
  <2>1. AllFalse(c)
    BY TrailLevels, ValueFacts DEF AllFalse
  <2>2. \A l \in c : level[var(l)] = 0
    BY <1>1, <2>1, FalseLevels
  <2>3. GivenModel' \in SUBSET GivenModel /\ Implied(c, GivenModel')
    BY GivenMore DEF AddFrame
  <2> QED BY <2>1, <2>2, <2>3, FalseAtZero
<1>5. AnswerInv'
  BY <1>4 DEF AddFrame, SearchInv, AnswerInv, UnsatCorrect
<1> QED
  BY <1>1, <1>2, <1>3, <1>5 DEF SearchInv

\* One literal is left.
LEMMA AddUnit ==
  ASSUME SearchInv, NEW c \in SUBSET Lit, AddFrame(c), NEW l \in c, Unassigned(l),
         \A k \in c \ {l} : False(k), EnqueueOn(trail, l, CRef_Undef, 0),
         UNCHANGED <<clauses, watched, ok>>, pc' = "propagate"
  PROVE  SearchInv'
<1>1. /\ PhaseInv' /\ SplitInv' /\ AnalyzeInv' /\ FinalInv' /\ Outside /\ Outside'
      /\ trail_lim = <<>> /\ stack = <<>> /\ visit = {} /\ decisionLevel = 0
      /\ \A i \in 1 .. Len(trail) : level[var(trail[i])] = 0
  BY AddFrameKeeps
<1>2. ClauseInv'
  BY FewerImplied DEF AddFrame
<1>3. AnswerInv'
  BY DEF AddFrame, SearchInv, AnswerInv, UnsatCorrect
<1>4. PICK M2 : M2 = GivenModel'
  OBVIOUS
<1>5. M2 \in SUBSET GivenModel /\ M2 \in SUBSET TheoryModel /\ Implied(c, M2)
  BY <1>4, GivenMore DEF AddFrame
<1>6. TrailHolds(trail, trail_lim, level, reason, assumptions, M2, stack)
  BY <1>5, FewerModelsHold DEF SearchInv, TrailInv
<1>7. Len(trail_lim) = 0 /\ l \in Lit /\ Fresh(trail, l)
  BY <1>1, TrailLevels, ValueFacts
<1>8. Justifies(c, trail, Len(trail), l, M2)
  BY <1>5, TrailLevels, ValueFacts DEF Justifies
<1>9. MayEnqueue(trail, trail_lim, l, CRef_Undef, assumptions, M2, stack)
  <2>1. \A m \in M2 : l \in m
    BY <1>5, <1>6, <1>7, <1>8, UnitZero DEF TrailHolds
  <2> QED BY <1>7, <2>1 DEF MayEnqueue, CRef_Undef, CRef_Fake
<1>10. PICK u : u = trail'
  OBVIOUS
<1>11. u = Append(trail, l) /\ level' = [level EXCEPT ![var(l)] = Len(trail_lim)]
       /\ reason' = [reason EXCEPT ![var(l)] = CRef_Undef]
  BY <1>7, <1>10 DEF EnqueueOn
<1>12. Extends(u, trail, l)
  BY <1>7, <1>11, TrailLevels, AppendExtends
<1>13. TrailInv'
  <2>1. TrailHolds(u, trail_lim, level', reason', assumptions, M2, stack)
    BY <1>6, <1>9, <1>11, <1>12, EnqueueHolds
  <2> QED BY <1>4, <1>10, <2>1 DEF TrailInv, AddFrame
<1>14. u \in Seq(Lit) /\ Len(u) = Len(trail) + 1 /\ \A i \in 1 .. Len(trail) : u[i] = trail[i]
  BY <1>12 DEF Extends
<1>15. TheoryInv'
  <2>1. StackFits(<<>>, u)
    BY <1>14, TrailLevels DEF StackFits
  <2> QED BY <1>1, <1>10, <2>1 DEF SearchInv, TheoryInv, TheoryHolds, AddFrame
<1>16. QueueInv'
  <2>1. Len(trail_lim') = 0 /\ visit' = {} /\ qhead' \in 0 .. Len(trail') /\ pc' = "propagate"
    BY <1>1, <1>7, <1>10, <1>14, TrailLevels DEF SearchInv, QueueInv, AddFrame
  <2> QED BY <2>1 DEF QueueInv, decisionLevel
<1>17. level \in [Var -> Nat] /\ var(l) \in Var
  BY <1>7, LitFacts DEF SearchInv, TrailInv, TrailHolds, TrailFits, Levels
<1>18. ASSUME NEW i \in 1 .. Len(trail)
       PROVE  i \in 1 .. Len(u) /\ u[i] = trail[i] /\ level'[var(trail[i])] = level[var(trail[i])]
  BY <1>7, <1>11, <1>14, <1>17, TrailLevels, LitFacts DEF Fresh
<1>19. Mentioned \subseteq Mentioned'
  BY <1>10, <1>18, MentionedGrows
<1>20. KnownInv'
  BY <1>1, <1>19 DEF SearchInv, KnownInv, AddFrame
<1> QED
  BY <1>1, <1>2, <1>3, <1>13, <1>15, <1>16, <1>20 DEF SearchInv

\* Two or more are left.
LEMMA AddClause ==
  ASSUME SearchInv, NEW c \in SUBSET Lit, AddFrame(c), NEW ps, ps = {l \in c : ~False(l)}, ps # {},
         Cardinality(ps) # 1, clauses' = clauses \cup {ps}, watched' = Attached(ps, FirstTwo(ps)),
         UNCHANGED <<trail, level, reason, ok, pc>>
  PROVE  SearchInv'
<1>1. /\ PhaseInv' /\ SplitInv' /\ AnalyzeInv' /\ FinalInv'
      /\ \A i \in 1 .. Len(trail) : level[var(trail[i])] = 0
  BY AddFrameKeeps
<1>2. TrailInv' /\ TheoryInv' /\ KnownInv' /\ QueueInv'
  BY AddTrailSame DEF AddFrame
<1>3. AnswerInv'
  BY DEF AddFrame, SearchInv, AnswerInv, UnsatCorrect
<1>4. PICK M2 : M2 = GivenModel'
  OBVIOUS
<1>5. M2 \in SUBSET GivenModel /\ M2 \in SUBSET TheoryModel /\ Implied(c, M2) /\ given' \subseteq SUBSET Lit
  BY <1>4, GivenMore DEF AddFrame
<1>6. Implied(ps, M2)
  <2>1. ASSUME NEW l \in c, l \notin ps
        PROVE  \E j \in 1 .. Len(trail) : trail[j] = -l /\ level[var(trail[j])] = 0
    BY <1>1, <2>1, TrailLevels, ValueFacts DEF FalseBefore
  <2>2. Zero(trail, level, M2) /\ trail \in Seq(Lit)
    BY <1>5, TrailLevels DEF SearchInv, TrailInv, TrailHolds, Zero
  <2> QED BY <1>5, <2>1, <2>2, DropZero
<1>7. PICK a : a = Least(ps)
  OBVIOUS
<1>8. PICK b : b = Least(ps \ {a})
  OBVIOUS
<1>9. ps \in SUBSET Lit /\ a \in ps
  BY <1>7, LeastIn
<1>10. ps \ {a} # {}
  <2>1. Cardinality({a}) = 1
    BY FS_Singleton
  <2> QED BY <1>9, <2>1
<1>11. b \in ps
  BY <1>8, <1>9, <1>10, LeastIn
<1>12. watched' = Attached(ps, <<a, b>>)
  BY <1>7, <1>8 DEF FirstTwo
<1>13. ClauseInv'
  <2>1. DOMAIN watched = clauses \cup learnts
    BY DEF SearchInv, ClauseInv
  <2>2. learnts' = learnts
    BY DEF AddFrame
  <2>3. DOMAIN watched' = clauses' \cup learnts' /\ watched'[ps] = <<a, b>>
        /\ \A d \in DOMAIN watched : d # ps => watched'[d] = watched[d]
    BY <1>12, <2>1, <2>2 DEF Attached
  <2>4. <<a, b>> \in Seq(ps) /\ Len(<<a, b>>) = 2
    BY <1>9, <1>11
  <2>5. \A d : Implied(d, GivenModel) => Implied(d, M2)
    BY <1>5 DEF Implied
  <2>6. ASSUME NEW d \in clauses' \cup learnts'
        PROVE  d \subseteq Lit /\ Implied(d, M2) /\ watched'[d] \in Seq(d) /\ Len(watched'[d]) = 2
    <3>1. CASE d = ps
      BY <1>6, <1>9, <2>3, <2>4, <3>1
    <3>2. CASE d # ps
      BY <2>1, <2>2, <2>3, <2>5, <3>2 DEF SearchInv, ClauseInv
    <3> QED BY <3>1, <3>2
  <2> QED BY <1>4, <1>5, <2>3, <2>6 DEF ClauseInv
<1> QED
  BY <1>1, <1>2, <1>3, <1>13 DEF SearchInv

\* addOriginalClause_ keeps the invariant.
LEMMA AddOriginalClauseKeeps ==
  ASSUME SearchInv, NEW c \in InputClause, AddOriginalClause(c)
  PROVE  SearchInv'
<1>1. c \in SUBSET Lit
  BY ClauseAssumption
<1>2. PICK ps : ps = {l \in c : ~False(l)}
  OBVIOUS
<1>3. /\ pc = "idle" /\ ok /\ given' = given \cup {c} /\ answer' = "none"
      /\ UNCHANGED <<stack, points, th_deductions, deductions_next, declared>>
      /\ UNCHANGED <<learnts, conflict_frame, splits, propData, decision, assumptions>>
  BY DEF AddOriginalClause, theoryVars, splitVars, callVars
<1>4. CASE \E l \in c : True(l) \/ -l \in c
  <2>1. UNCHANGED <<clauses, watched, trail, trail_lim, level, reason, qhead, visit, ok, pc, after>>
    BY <1>4 DEF AddOriginalClause, trailVars
  <2>2. AddFrame(c)
    <3>1. pc' = "idle" /\ after' = after /\ UNCHANGED <<trail_lim, qhead, visit>>
      BY <1>3, <2>1
    <3> QED BY <1>3, <3>1 DEF AddFrame
  <2> QED BY <1>1, <2>1, <2>2, AddNothing
<1>5. CASE ~(\E l \in c : True(l) \/ -l \in c)
  <2>1. CASE ps = {}
    <3>1. UNCHANGED <<clauses, watched, trail, trail_lim, level, reason, qhead, visit, pc, after>>
      <4>1. Cardinality(ps) # 1
        BY <2>1, FS_EmptySet
      <4> QED BY <1>2, <1>5, <2>1, <4>1 DEF AddOriginalClause, trailVars
    <3>2. \A l \in c : False(l)
      BY <1>2, <2>1
    <3>3. AddFrame(c)
      <4>1. pc' = "idle" /\ after' = after /\ UNCHANGED <<trail_lim, qhead, visit>>
        BY <1>3, <3>1
      <4> QED BY <1>3, <4>1 DEF AddFrame
    <3> QED BY <1>1, <3>1, <3>2, <3>3, AddEmpty
  <2>2. CASE Cardinality(ps) = 1
    <3>1. ps # {}
      BY <2>2, FS_EmptySet
    <3>2. /\ EnqueueOn(trail, Least(ps), CRef_Undef, 0) /\ pc' = "propagate" /\ after' = "add"
          /\ UNCHANGED <<clauses, watched, trail_lim, qhead, visit, ok>>
      BY <1>2, <1>5, <2>2, <3>1 DEF AddOriginalClause
    <3>3. ps \in SUBSET Lit
      BY <1>1, <1>2
    <3>4. PICK l \in ps : ps = {l}
      BY <2>2, <3>3, OneElement
    <3>5. Least(ps) = l
      BY <3>1, <3>3, <3>4, LeastIn
    <3>6. l \in c /\ Unassigned(l)
      BY <1>2, <1>5, <3>4 DEF Unassigned
    <3>7. \A k \in c \ {l} : False(k)
      BY <1>2, <3>4
    <3>8. AddFrame(c)
      BY <1>3, <3>2 DEF AddFrame
    <3> QED BY <1>1, <3>2, <3>5, <3>6, <3>7, <3>8, AddUnit
  <2>3. CASE ps # {} /\ Cardinality(ps) # 1
    <3>1. /\ clauses' = clauses \cup {ps} /\ watched' = Attached(ps, FirstTwo(ps))
          /\ UNCHANGED <<trail, trail_lim, level, reason, qhead, visit, ok, pc, after>>
      BY <1>2, <1>5, <2>3 DEF AddOriginalClause, trailVars
    <3>2. AddFrame(c)
      <4>1. pc' = "idle" /\ after' = after /\ UNCHANGED <<trail_lim, qhead, visit>>
        BY <1>3, <3>1
      <4> QED BY <1>3, <4>1 DEF AddFrame
    <3> QED BY <1>1, <1>2, <2>3, <3>1, <3>2, AddClause
  <2> QED BY <2>1, <2>2, <2>3
<1> QED
  BY <1>4, <1>5

-----------------------------------------------------------------------------
\* A call of solve: the theory solvers start afresh and are told the atoms that the
\* clauses and the trail mention.
LEMMA SeenIsMentioned ==
  ASSUME SearchInv, Outside
  PROVE  /\ SeenVars \subseteq Var /\ Mentioned \subseteq SeenVars /\ SeenVars \subseteq Mentioned
         /\ \A i \in 1 .. Len(trail) : var(trail[i]) \in SeenVars
         /\ \A c \in clauses : AtomsIn(c) \subseteq SeenVars
<1>1. trail_lim = <<>>
  BY DEF SearchInv, PhaseInv
<1>2. decisionLevel = 0
  BY <1>1 DEF decisionLevel
<1>3. \A i \in 1 .. Len(trail) : trail[i] \in Lit /\ level[var(trail[i])] = 0
  BY <1>2, TrailLevels
<1>4. Vars(Range(trail)) = {var(trail[i]) : i \in 1 .. Len(trail)}
  <2>0. trail \in Seq(Lit)
    BY TrailLevels
  <2>1. Range(trail) = {trail[i] : i \in 1 .. Len(trail)}
    BY <2>0 DEF Range
  <2> QED BY <2>1 DEF Vars
<1>5. \A v : v \in SeenVars <=> \/ \E i \in 1 .. Len(trail) : v = var(trail[i])
                                \/ \E c \in clauses : v \in Vars(c)
  BY <1>4 DEF SeenVars
<1>6. \A c \in clauses : Vars(c) \subseteq Var
  BY LitFacts DEF SearchInv, ClauseInv, Vars
<1>7. SeenVars \subseteq Var
  BY <1>3, <1>5, <1>6, LitFacts
<1>8. Mentioned \subseteq SeenVars
  BY <1>5 DEF Mentioned
<1>9. SeenVars \subseteq Mentioned
  BY <1>3, <1>5, <1>7 DEF Mentioned
<1>10. \A i \in 1 .. Len(trail) : var(trail[i]) \in SeenVars
  BY <1>5
<1>11. \A c \in clauses : AtomsIn(c) \subseteq SeenVars
  BY <1>5 DEF AtomsIn
<1> QED
  BY <1>7, <1>8, <1>9, <1>10, <1>11

\* A call of solve keeps the invariant.
LEMMA SolveKeeps ==
  ASSUME SearchInv, NEW as \in Assumption, Solve(as)
  PROVE  SearchInv'
<1>1. /\ pc = "idle" /\ (ok \/ conflict_frame = 0)
      /\ assumptions' = as /\ decision' = SeenVars
      /\ declared' = SeenVars \cap TheoryVar /\ stack' = stack
      /\ points' = <<>> /\ th_deductions' = <<>> /\ deductions_next' = 0
      /\ UNCHANGED <<given, clauses, learnts, watched, trail, trail_lim, level, reason, qhead, visit>>
      /\ UNCHANGED <<ok, conflict_frame, splits, propData>>
  BY DEF Solve, Declare, clauseVars, trailVars, splitVars
<1>2. \/ ok /\ pc' = "checkTheory" /\ after' = "start" /\ answer' = "none"
      \/ ~ok /\ answer' = "unsat" /\ pc' = "idle" /\ after' = after
  BY <1>1 DEF Solve
<1>3. Outside /\ trail_lim = <<>> /\ stack = <<>> /\ visit = {} /\ splits = <<>> /\ propData = <<>>
  BY <1>1 DEF SearchInv, PhaseInv, Outside
<1>4. Outside' <=> ~ok
  BY <1>2 DEF Outside
<1>5. as \in Seq({l \in Lit : var(l) \notin TheoryVar})
  BY FrameAssumption
<1>6. /\ SeenVars \subseteq Var /\ Mentioned \subseteq SeenVars /\ SeenVars \subseteq Mentioned
      /\ \A i \in 1 .. Len(trail) : var(trail[i]) \in SeenVars
      /\ \A c \in clauses : AtomsIn(c) \subseteq SeenVars
  BY <1>3, SeenIsMentioned
<1>7. PhaseInv' /\ AnalyzeInv' /\ FinalInv'
  BY <1>1, <1>2, <1>3, <1>4 DEF SearchInv, PhaseInv, AnalyzeInv, FinalInv
<1>8. SplitInv'
  BY <1>1, <1>3, NoSplits
<1>9. TrailInv'
  <2>1. TrailFits(trail, trail_lim, level) /\ Zero(trail, level, GivenModel) /\ Justified(trail, reason, GivenModel)
    BY DEF SearchInv, TrailInv, TrailHolds
  <2>2. Len(trail_lim) = 0
    BY <1>3
  <2>3. Decided(trail, trail_lim, level, reason, as) /\ Deduced(trail, stack, level, reason)
    BY <2>1, <2>2, NoLevels
  <2>4. TrailHolds(trail, trail_lim, level, reason, as, GivenModel, stack)
    BY <2>1, <2>3 DEF TrailHolds
  <2>5. GivenModel' = GivenModel
    BY <1>1, GivenFacts
  <2> QED BY <1>1, <2>4, <2>5 DEF TrailInv
<1>10. TheoryInv'
  <2>1. stack' = <<>> /\ points' = <<>> /\ th_deductions' = <<>> /\ deductions_next' \in Nat /\ trail' = trail
    BY <1>1, <1>3
  <2>2. <<>> \in Seq(Lit) /\ StackFits(<<>>, trail)
    BY <1>3 DEF SearchInv, TheoryInv, StackFits
  <2> QED BY <2>1, <2>2, NoPoints DEF TheoryInv, TheoryHolds
<1>11. ClauseInv'
  BY <1>1, ClauseSame DEF SearchInv, clauseVars
<1>12. QueueInv'
  <2>1. Len(trail_lim') = 0 /\ visit' = {} /\ qhead' \in 0 .. Len(trail')
        /\ ((pc' = "checkTheory" /\ after' = "start") \/ pc' = "idle")
    BY <1>1, <1>2, <1>3 DEF SearchInv, QueueInv
  <2> QED BY <2>1 DEF QueueInv, decisionLevel
<1>13. KnownInv'
  <2>1. Mentioned' = Mentioned
    BY <1>1 DEF Mentioned
  <2>2. \A c \in learnts : AtomsIn(c) \subseteq Mentioned
    BY <1>3 DEF SearchInv, KnownInv
  <2>3. Outside' => \A c \in learnts' : AtomsIn(c) \subseteq Mentioned'
    BY <1>1, <2>1, <2>2
  <2>4. \A c \in clauses' \cup learnts' : AtomsIn(c) \subseteq declared'
    BY <1>1, <1>6, <2>2 DEF AtomsIn
  <2>5. /\ \A i \in 1 .. Len(trail') : var(trail'[i]) \in TheoryVar => var(trail'[i]) \in declared'
        /\ decision' \cap TheoryVar \subseteq declared'
        /\ declared' \subseteq TheoryVar /\ declared' \subseteq Mentioned'
    BY <1>1, <1>6, <2>1
  <2>6. Len(th_deductions') = 0 /\ Len(splits') = 0
    BY <1>1, <1>3
  <2> QED BY <2>3, <2>4, <2>5, <2>6 DEF KnownInv
<1>14. AnswerInv'
  <2>1. GivenModel' = GivenModel
    BY <1>1, GivenFacts
  <2>2. ~ok' /\ conflict_frame' = 0 => GivenModel' = {}
    BY <1>1, <2>1 DEF SearchInv, AnswerInv
  <2>3. UnsatCorrect'
    BY <1>1, <1>2, <2>2 DEF UnsatCorrect
  <2> QED BY <1>1, <1>5, <1>6, <2>2, <2>3 DEF AnswerInv
<1> QED
  BY <1>7, <1>8, <1>9, <1>10, <1>11, <1>12, <1>13, <1>14 DEF SearchInv

-----------------------------------------------------------------------------
\* SearchInv is an inductive invariant.
LEMMA InitKeeps == Init => SearchInv
<1> SUFFICES ASSUME Init PROVE SearchInv
  OBVIOUS
<1>1. /\ given = {} /\ clauses = {} /\ learnts = {} /\ watched = <<>>
      /\ trail = <<>> /\ trail_lim = <<>> /\ qhead = 0 /\ visit = {}
      /\ level = [v \in Var |-> 0] /\ reason = [v \in Var |-> CRef_Undef]
      /\ stack = <<>> /\ points = <<>> /\ th_deductions = <<>> /\ deductions_next = 0
      /\ declared = {} /\ decision = {} /\ assumptions = <<>>
      /\ ok = TRUE /\ conflict_frame = 0 /\ pc = "idle" /\ after = "none"
      /\ splits = <<>> /\ propData = <<>> /\ answer = "none"
  BY DEF Init
<1>2. Len(<<>>) = 0 /\ DOMAIN <<>> = {} /\ <<>> \in Seq(Lit) /\ <<>> \in Seq(Nat)
  OBVIOUS
<1>3. Outside
  BY <1>1 DEF Outside
<1>4. PhaseInv /\ AnalyzeInv /\ FinalInv
  BY <1>1, <1>3 DEF PhaseInv, AnalyzeInv, FinalInv
<1>5. TrailInv
  <2>1. level \in [Var -> Nat] /\ DOMAIN reason = Var
    BY <1>1
  <2>2. TrailFits(<<>>, <<>>, level)
    BY <1>2, <2>1 DEF TrailFits, Distinct, Lims, Levels
  <2>3. Zero(<<>>, level, GivenModel) /\ Decided(<<>>, <<>>, level, reason, assumptions)
        /\ Justified(<<>>, reason, GivenModel) /\ Deduced(<<>>, stack, level, reason)
    BY <1>2, <2>1 DEF Zero, Decided, Justified, Deduced
  <2> QED BY <1>1, <2>2, <2>3 DEF TrailInv, TrailHolds
<1>6. TheoryInv
  BY <1>1, <1>2, NoPoints DEF TheoryInv, TheoryHolds, StackFits
<1>7. ClauseInv
  BY <1>1, <1>2 DEF ClauseInv
<1>8. QueueInv
  <2>1. decisionLevel = 0
    BY <1>1, <1>2 DEF decisionLevel
  <2> QED BY <1>1, <1>2, <2>1 DEF QueueInv
<1>9. KnownInv
  BY <1>1, <1>3 DEF KnownInv
<1>10. SplitInv
  BY <1>1 DEF SplitInv
<1>11. AnswerInv
  BY <1>1 DEF AnswerInv, UnsatCorrect
<1> QED
  BY <1>4, <1>5, <1>6, <1>7, <1>8, <1>9, <1>10, <1>11 DEF SearchInv

\* Every step of the search keeps the invariant.
LEMMA SearchStepKeeps == SearchInv /\ SearchStep => SearchInv'
<1> SUFFICES ASSUME SearchInv, SearchStep PROVE SearchInv'
  OBVIOUS
<1>1. CASE PropagateNext
  BY <1>1, PropagateNextKeeps
<1>2. CASE \E c \in visit : PropagateVisit(c)
  BY <1>2, PropagateVisitKeeps
<1>3. CASE Moves
  BY <1>3, MovesKeep
<1>4. CASE SearchStopped \/ SearchSat \/ ZeroLevelConflict \/ FinalDone
  BY <1>4, SearchStoppedKeeps, SearchSatKeeps, ZeroLevelConflictKeeps, FinalDoneKeeps
<1>5. CASE AddConflict \/ AnalyzeBegin \/ AnalyzeStep \/ Learn
  BY <1>5, AddConflictKeeps, AnalyzeBeginKeeps, AnalyzeStepKeeps, LearnKeeps
<1>6. CASE Restart \/ Simplify \/ ReduceDB
  BY <1>6, RestartKeeps, SimplifyKeeps, ReduceDBKeeps
<1>7. CASE TheoryAssert \/ DeduceNext
  BY <1>7, TheoryAssertKeeps, DeduceNextKeeps
<1>8. CASE \E t \in TheoryConflict : TheoryUnsatZero(t) \/ TheoryUnsat(t)
  BY <1>8, TheoryUnsatZeroKeeps, TheoryUnsatKeeps
<1>9. CASE \E S \in SplitSets : TheorySplit(S)
  <2>1. PICK S \in SUBSET SplitClause : TheorySplit(S)
    BY <1>9 DEF SplitSets
  <2> QED BY <2>1, TheorySplitKeeps
<1>10. CASE SplitUnit \/ SplitAttach \/ SplitEnqueue
  BY <1>10, SplitUnitKeeps, SplitAttachKeeps, SplitEnqueueKeeps
<1>11. CASE AssumeTrue \/ FinalBegin \/ FinalStep
  BY <1>11, AssumeTrueKeeps, FinalBeginKeeps, FinalStepKeeps
<1>12. CASE \E l \in Lit : Decide(l)
  BY <1>12, DecideKeeps
<1> QED
  BY <1>1, <1>2, <1>3, <1>4, <1>5, <1>6, <1>7, <1>8, <1>9, <1>10, <1>11, <1>12
     DEF SearchStep, Moves

\* Nothing happens.
LEMMA StutterKeeps == SearchInv /\ UNCHANGED vars => SearchInv'
<1> SUFFICES ASSUME SearchInv, UNCHANGED vars PROVE SearchInv'
  OBVIOUS
<1>1. /\ UNCHANGED <<stack, points, th_deductions, deductions_next, declared>>
      /\ UNCHANGED <<given, clauses, learnts, watched, splits, propData, decision, assumptions>>
      /\ UNCHANGED <<ok, conflict_frame, answer, conflict, confl, p, seen>>
      /\ UNCHANGED <<trail, trail_lim, level, reason, qhead, visit, pc, after>>
  BY DEF vars, theoryVars, clauseVars, splitVars, callVars, resultVars, analyzeVars, trailVars
<1>2. TrailInv' /\ ClauseInv' /\ AnswerInv'
  BY <1>1, TrailSame, ClauseSame, AnswerSame DEF SearchInv, clauseVars
<1>3. TheoryInv'
  BY <1>1, TheorySame DEF SearchInv, TheoryInv, TheoryHolds
<1>4. SplitInv' /\ KnownInv'
  BY <1>1, SplitSame, KnownSame DEF SearchInv, Outside
<1>5. PhaseInv' /\ QueueInv'
  BY <1>1 DEF SearchInv, PhaseInv, Outside, QueueInv, decisionLevel
<1>6. GivenModel' = GivenModel
  BY <1>1, GivenFacts
<1>7. AnalyzeInv' /\ FinalInv'
  BY <1>1, <1>6 DEF SearchInv, AnalyzeInv, FinalInv, AllFalse, AtCurrentLevel, decisionLevel
<1> QED
  BY <1>2, <1>3, <1>4, <1>5, <1>7 DEF SearchInv

\* Every step keeps the invariant.
LEMMA NextKeeps == SearchInv /\ [Next]_vars => SearchInv'
<1> SUFFICES ASSUME SearchInv, [Next]_vars PROVE SearchInv'
  OBVIOUS
<1>1. CASE \E c \in InputClause : AddOriginalClause(c)
  BY <1>1, AddOriginalClauseKeeps
<1>2. CASE \E as \in Assumption : Solve(as)
  BY <1>2, SolveKeeps
<1>3. CASE RestoreOK
  BY <1>3, RestoreOKKeeps
<1>4. CASE SearchStep
  BY <1>4, SearchStepKeeps
<1>5. CASE UNCHANGED vars
  BY <1>5, StutterKeeps
<1> QED
  BY <1>1, <1>2, <1>3, <1>4, <1>5 DEF Next

\* The invariant of the search: in every state CoreSMTSolver reaches, between any two
\* steps of propagate, analyze, checkTheory and handleNewSplitClauses, SearchInv holds.
THEOREM SearchInvariant == Spec => []SearchInv
<1>1. Init => SearchInv
  BY InitKeeps
<1>2. SearchInv /\ [Next]_vars => SearchInv'
  BY NextKeeps
<1> QED
  BY <1>1, <1>2, PTL DEF Spec

\* What SearchInv says about the clauses, level zero and the answer.
LEMMA InvariantIsSound == SearchInv => SearchSound
<1> SUFFICES ASSUME SearchInv PROVE SearchSound
  OBVIOUS
<1>1. UnsatCorrect
  BY DEF SearchInv, AnswerInv
<1>2. \A c \in clauses \cup learnts : \A m \in GivenModel : c \cap m # {}
  BY DEF SearchInv, ClauseInv, Implied
<1>3. pc \in {"conflict", "analyze"} => \A m \in GivenModel : confl \cap m # {}
  BY DEF SearchInv, AnalyzeInv, Implied
<1>4. ASSUME NEW i \in 1 .. EndOf(0) PROVE \A m \in GivenModel : {trail[i]} \cap m # {}
  <2>1. PICK h \in Nat : h = decisionLevel
    BY TrailLevels
  <2>2. i \in 1 .. Len(trail) /\ (0 < h => 1 \in 1 .. h /\ ~(trail_lim[1] < i))
    <3>1. CASE 0 < h
      <4>1. 1 \in 1 .. h
        BY <2>1, <3>1
      <4>2. trail_lim[1] \in 0 .. Len(trail)
        BY <2>1, <4>1, TrailLevels
      <4>3. EndOf(0) = trail_lim[1]
        BY <2>1, <3>1 DEF EndOf
      <4> QED BY <4>1, <4>2, <4>3, TrailLevels
    <3>2. CASE ~(0 < h)
      <4>1. EndOf(0) = Len(trail)
        BY <2>1, <3>2 DEF EndOf
      <4> QED BY <3>2, <4>1
    <3> QED BY <3>1, <3>2
  <2>3. level[var(trail[i])] \in 0 .. h
    BY <2>1, <2>2, TrailLevels
  <2>4. level[var(trail[i])] = 0
    <3>1. CASE 0 < h
      <4>1. ~(1 <= level[var(trail[i])])
        BY <2>1, <2>2, <3>1 DEF SearchInv, TrailInv, TrailHolds, TrailFits, Levels, decisionLevel
      <4> QED BY <2>3, <4>1
    <3> QED BY <2>1, <2>3, <3>1
  <2>5. \A m \in GivenModel : trail[i] \in m
    BY <2>2, <2>4 DEF SearchInv, TrailInv, TrailHolds, Zero
  <2> QED BY <2>5
<1>5. LearntImplied
  BY <1>2, <1>3, <1>4 DEF LearntImplied
<1> QED
  BY <1>1, <1>5 DEF SearchSound

\* The search is sound.  Every clause CoreSMTSolver keeps (Learn, handleNewSplitClauses,
\* simplify, reduceDB), resolves with, or fixes at level zero follows from the clauses it
\* was given and the theory, whatever the assumptions of the calls it was derived in; and
\* when solve answers unsat no model of the given clauses and the theory agrees with the
\* assumptions.
THEOREM SearchIsSound == Spec => []SearchSound
<1>1. SearchInv => SearchSound
  BY InvariantIsSound
<1> QED
  BY <1>1, SearchInvariant, PTL

\* What SearchInv says about the theory solvers.
LEMMA InvariantFollows == SearchInv => TheoryFollows
<1> SUFFICES ASSUME SearchInv PROVE TheoryFollows
  OBVIOUS
<1>1. stack \in Seq(Lit) /\ Len(stack) \in Nat /\ trail \in Seq(Lit) /\ Len(stack) <= Len(trail)
      /\ \A i \in 1 .. Len(stack) : stack[i] = trail[i]
  BY TrailLevels DEF SearchInv, TheoryInv, StackFits
<1>2. stack = SubSeq(trail, 1, Len(stack))
  <2>1. PICK n \in Nat : n = Len(stack)
    BY <1>1
  <2>2. SubSeq(trail, 1, n) \in Seq(Lit) /\ Len(SubSeq(trail, 1, n)) = n
        /\ \A j \in 1 .. n : SubSeq(trail, 1, n)[j] = trail[j]
    BY <1>1, <2>1, Prefix
  <2>3. PICK s \in Seq(Lit) : s = SubSeq(trail, 1, n)
    BY <2>2
  <2>4. Len(s) = n /\ \A j \in 1 .. n : s[j] = stack[j]
    BY <1>1, <2>1, <2>2, <2>3
  <2>5. s = stack
    BY <1>1, <2>1, <2>4, SeqEqual
  <2> QED BY <2>1, <2>3, <2>5
<1>3. Len(points) = PointsAbove(0)
  <2>1. TheoryHolds /\ StackKnown
    BY KnownStack DEF SearchInv, TheoryInv
  <2>2. PICK e : e = IF 0 < Len(stack) THEN 0 ELSE Len(stack)
    OBVIOUS
  <2>3. e = 0
    BY <1>1, <2>2
  <2>4. Len(points) - PointsAbove(0) = Count(stack, e)
    BY <2>1, <2>2, PointsAboveCounts
  <2>5. AtomsUpTo(stack, 0) = {}
    BY DEF AtomsUpTo
  <2>6. Count(stack, 0) = 0
    BY <2>5, FS_EmptySet DEF Count
  <2>7. Len(points) \in Nat
    BY <2>1 DEF TheoryHolds, PointsFit
  <2>8. PointsAbove(0) \in Nat
    <3> DEFINE A == {i \in 0 + 1 .. Len(stack) : var(stack[i]) \in declared}
    <3>1. IsFiniteSet(1 .. Len(stack)) /\ A \in SUBSET (1 .. Len(stack))
      BY <1>1, FS_Interval
    <3> HIDE DEF A
    <3>2. Cardinality(A) \in Nat
      BY <3>1, FS_Subset, FS_CardinalityType
    <3> QED BY <3>2 DEF A, PointsAbove
  <2> QED BY <2>3, <2>4, <2>6, <2>7, <2>8
<1>4. TheoryInSync
  BY <1>1, <1>2, <1>3 DEF SearchInv, PhaseInv, Outside, TheoryInSync
<1>5. AssertedIsDeclared
  <2> SUFFICES ASSUME pc = "checkTheory", Len(stack) < Len(trail)
               PROVE  var(trail[Len(stack) + 1]) \in TheoryVar <=> var(trail[Len(stack) + 1]) \in declared
    BY DEF AssertedIsDeclared
  <2>1. ~Outside
    BY DEF SearchInv, PhaseInv, Outside
  <2>2. Len(stack) + 1 \in 1 .. Len(trail)
    BY <1>1
  <2> QED BY <2>1, <2>2 DEF SearchInv, KnownInv
<1>6. DeductionsExplained
  <2> SUFFICES ASSUME NEW i \in 1 .. Len(trail), reason[var(trail[i])] = CRef_Fake, level[var(trail[i])] > 0
               PROVE  ReasonsFor(trail[i], i - 1) # {}
    BY DEF DeductionsExplained
  <2>1. Explained(stack, trail[i], i - 1)
    BY DEF SearchInv, TrailInv, TrailHolds, Deduced
  <2>2. PICK t \in TheoryConflict :
          /\ -trail[i] \in t
          /\ \A k \in t \ {-trail[i]} : \E j \in 1 .. i - 1 : j <= Len(stack) /\ stack[j] = k
    BY <2>1 DEF Explained
  <2>3. ASSUME NEW k \in t \ {-trail[i]} PROVE k \in Told(i - 1)
    <3>1. PICK j \in 1 .. i - 1 : j <= Len(stack) /\ stack[j] = k
      BY <2>2
    <3>2. var(k) \in TheoryVar
      BY ConflictFacts
    <3>3. j \in 1 .. Len(stack)
      BY <1>1, <3>1
    <3>4. var(stack[j]) \in declared
      BY <3>1, <3>2, <3>3, KnownStack DEF StackKnown
    <3> QED BY <3>1, <3>4 DEF Told
  <2> QED BY <2>2, <2>3 DEF ReasonsFor
<1> QED
  BY <1>4, <1>5, <1>6 DEF TheoryFollows

\* The theory solvers follow the search.  What they have been told is a prefix of the
\* trail, with one backtrack point for every atom in it, whatever cancelUntil,
\* cancelUntilVar and the temporary undo of analyzeFinal did; the next literal they are
\* told is an atom they know exactly if it is one of the theory; and every literal they
\* deduced above level zero can be explained when analyze asks for its reason.
THEOREM TheoryKeepsUp == Spec => []TheoryFollows
<1>1. SearchInv => TheoryFollows
  BY InvariantFollows
<1> QED
  BY <1>1, SearchInvariant, PTL
=============================================================================
