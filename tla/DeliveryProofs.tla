--------------------------- MODULE DeliveryProofs ---------------------------
(***************************************************************************)
(* Proofs about CoreSMTSolver: no deduction of the theory is lost.  When   *)
(* the search is about to decide, each one the theory solvers hold is on   *)
(* the trail, whatever conflicts, backjumps and partial undos moved the    *)
(* index of the next deduction back.                                       *)
(***************************************************************************)
EXTENDS SearchExactProofs

\* How many deductions are left when the theory goes back to the first n literals of
\* its stack, and how many of them count as communicated then.
LeftAt(n) ==
  IF Count(stack, n) = Len(points) THEN Len(th_deductions) ELSE points[Count(stack, n) + 1].lim
NextAt(n) ==
  IF Count(stack, n) = Len(points) THEN deductions_next ELSE points[Count(stack, n) + 1].last

\* The first n deductions are true by level b.
AllTrueBy(n, b) == \A d \in 1 .. n : TrueBy({th_deductions[d]}, b)

\* Going back to the level before level k loses nothing: all deductions that are left
\* count as communicated, and are true there.
LevelDelivered(k) ==
  /\ NextAt(trail_lim[k]) = LeftAt(trail_lim[k])
  /\ AllTrueBy(LeftAt(trail_lim[k]), k - 1)

\* What was communicated at the current level is true.
NowDelivered ==
  deductions_next <= Len(th_deductions) /\ AllTrueBy(deductions_next, decisionLevel)

\* A search is under way.  analyzeFinal tells the theory a part of the trail again and
\* drops what it deduces; the search ends after it.
Underway == ~Outside /\ pc # "final"

\* The theory has been told the levels below the current one.
ToldInv == decisionLevel > 0 => trail_lim[decisionLevel] <= Len(stack)

\* A variable is deduced once, and no deduction is enqueued against its negation.
OnceInv ==
  /\ Distinct(th_deductions)
  /\ pc = "deduce" =>
       \A d \in 1 .. Len(th_deductions), i \in 1 .. Len(trail) : trail[i] # -th_deductions[d]

\* The search decides when the theory has been told everything and has told everything.
AllToldInv ==
  pc = "decide" \/ (pc = "split" /\ after # "propagate") =>
    deductions_next = Len(th_deductions) /\ Len(stack) = Len(trail)

\* Nothing is lost at any level.  While a conflict is analyzed the current one is being
\* undone.
DeliveredInv ==
  /\ \A k \in 1 .. decisionLevel : LevelDelivered(k)
  /\ pc \notin {"analyze", "learn"} => NowDelivered

\* The inductive invariant, together with SearchInv and ExactInv.
DeliveryInv == Underway => ToldInv /\ OnceInv /\ AllToldInv /\ DeliveredInv

-----------------------------------------------------------------------------
\* The number of deductions that are left when a part of the stack is undone.
LEMMA LeftFacts ==
  ASSUME TheoryHolds, NEW n \in 0 .. Len(stack)
  PROVE  /\ Count(stack, n) \in 0 .. Len(points) /\ Len(points) \in Nat
         /\ LeftAt(n) \in Nat /\ NextAt(n) \in Nat /\ LeftAt(n) <= Len(th_deductions)
<1>1. /\ stack \in Seq(Lit) /\ points \in Seq(Point) /\ th_deductions \in Seq(Lit)
      /\ Len(points) = Count(stack, Len(stack)) /\ deductions_next \in Nat
      /\ \A k \in 1 .. Len(points) : points[k].lim <= Len(th_deductions)
  BY DEF TheoryHolds, PointsFit
<1>2. PICK e \in Nat : e = Len(stack)
  BY <1>1
<1>3. n \in Nat /\ n <= e
  BY <1>2
<1>4. Count(stack, n) \in Nat /\ Count(stack, n) <= Len(points) /\ Len(points) \in Nat
  BY <1>1, <1>2, <1>3, CountNat, CountMonotone
<1>5. CASE Count(stack, n) = Len(points)
  <2>1. LeftAt(n) = Len(th_deductions) /\ NextAt(n) = deductions_next /\ Len(th_deductions) \in Nat
    BY <1>1, <1>5 DEF LeftAt, NextAt
  <2> QED BY <1>1, <1>4, <2>1
<1>6. CASE Count(stack, n) # Len(points)
  <2>1. PICK k \in 1 .. Len(points) : k = Count(stack, n) + 1
    BY <1>4, <1>6
  <2>2. LeftAt(n) = points[k].lim /\ NextAt(n) = points[k].last
    BY <1>6, <2>1 DEF LeftAt, NextAt
  <2>3. points[k].lim \in Nat /\ points[k].last \in Nat
    BY <1>1, PointsElements
  <2> QED BY <1>1, <1>4, <2>2, <2>3
<1> QED
  BY <1>5, <1>6

\* THandler::backtrack leaves LeftAt(e) deductions, NextAt(e) of them communicated, and
\* the same would be left if it went back further at once or later.
LEMMA BacktrackLeaves ==
  ASSUME TheoryHolds, StackKnown, NEW n \in Nat, Backtrack(n), NEW e,
         e = (IF n < Len(stack) THEN n ELSE Len(stack))
  PROVE  /\ Len(th_deductions') = LeftAt(e) /\ deductions_next' = NextAt(e)
         /\ \A m \in 0 .. e : LeftAt(m)' = LeftAt(m) /\ NextAt(m)' = NextAt(m)
<1>1. /\ stack \in Seq(Lit) /\ points \in Seq(Point) /\ th_deductions \in Seq(Lit)
      /\ Len(stack) \in Nat
  BY DEF TheoryHolds, PointsFit
<1>2. e \in 0 .. Len(stack) /\ e \in Nat
  BY <1>1
<1>3. PICK left : left = Count(stack, e)
  OBVIOUS
<1>4. left \in 0 .. Len(points) /\ Len(points) \in Nat /\ LeftAt(e) \in Nat /\ LeftAt(e) <= Len(th_deductions)
  BY <1>2, <1>3, LeftFacts
<1>5. PopTo(left) /\ stack' = SubSeq(stack, 1, e)
  BY <1>3, PointsAboveCounts DEF Backtrack
<1>6. points' = SubSeq(points, 1, left)
  BY <1>5 DEF PopTo
<1>7. Len(points') = left /\ \A k \in 1 .. left : points'[k] = points[k]
  BY <1>1, <1>4, <1>6, Prefix
<1>8. Len(th_deductions') = LeftAt(e) /\ deductions_next' = NextAt(e)
  <2>1. CASE left = Len(points)
    BY <1>3, <1>5, <2>1 DEF PopTo, LeftAt, NextAt
  <2>2. CASE left # Len(points)
    <3>1. th_deductions' = SubSeq(th_deductions, 1, LeftAt(e)) /\ deductions_next' = NextAt(e)
      BY <1>3, <1>5, <2>2 DEF PopTo, LeftAt, NextAt
    <3>2. PICK h : h = LeftAt(e)
      OBVIOUS
    <3>3. h \in 0 .. Len(th_deductions)
      BY <1>1, <1>4, <3>2
    <3>4. Len(SubSeq(th_deductions, 1, h)) = h
      BY <1>1, <3>3, Prefix
    <3> QED BY <3>1, <3>2, <3>4
  <2> QED BY <2>1, <2>2
<1>9. ASSUME NEW m \in 0 .. e PROVE LeftAt(m)' = LeftAt(m) /\ NextAt(m)' = NextAt(m)
  <2>1. \A j \in 1 .. m : stack'[j] = stack[j]
    <3>1. \A j \in 1 .. e : stack'[j] = stack[j]
      BY <1>1, <1>2, <1>5, Prefix
    <3> QED BY <1>2, <3>1
  <2>2. PICK k : k = Count(stack, m)
    OBVIOUS
  <2>3. Count(stack', m) = k
    <3>1. PICK s2 : s2 = stack'
      OBVIOUS
    <3>2. Count(s2, m) = Count(stack, m)
      BY <1>2, <2>1, <3>1, CountSame
    <3> QED BY <2>2, <3>1, <3>2
  <2>4. k \in Nat /\ k <= left
    BY <1>2, <1>3, <2>2, CountNat, CountMonotone
  <2>5. CASE k = left
    <3>1. LeftAt(m)' = Len(th_deductions') /\ NextAt(m)' = deductions_next'
      BY <1>7, <2>3, <2>5 DEF LeftAt, NextAt
    <3>2. LeftAt(m) = LeftAt(e) /\ NextAt(m) = NextAt(e)
      BY <1>3, <2>2, <2>5 DEF LeftAt, NextAt
    <3> QED BY <1>8, <3>1, <3>2
  <2>6. CASE k # left
    <3>1. k + 1 \in 1 .. left /\ k # Len(points)
      BY <1>4, <2>4, <2>6
    <3>2. LeftAt(m)' = points'[k + 1].lim /\ NextAt(m)' = points'[k + 1].last
      BY <1>7, <2>3, <2>6 DEF LeftAt, NextAt
    <3>3. LeftAt(m) = points[k + 1].lim /\ NextAt(m) = points[k + 1].last
      BY <2>2, <3>1 DEF LeftAt, NextAt
    <3> QED BY <1>7, <3>1, <3>2, <3>3
  <2> QED BY <2>5, <2>6
<1> QED
  BY <1>8, <1>9

\* What assertLit deduces comes after the deductions held so far, is nothing for a
\* literal that is no atom, and is about other variables.
LEMMA AssertDeduces ==
  ASSUME TheoryHolds, NEW l \in Lit, AssertLit(l)
  PROVE  /\ Len(th_deductions) \in Nat /\ Len(th_deductions') \in Nat /\ Len(th_deductions) <= Len(th_deductions')
         /\ var(l) \notin declared => Len(th_deductions') = Len(th_deductions)
         /\ \A d \in 1 .. Len(th_deductions) : th_deductions'[d] = th_deductions[d]
         /\ Distinct(th_deductions) => Distinct(th_deductions')
<1>1. PICK ded \in Deductions(l) : th_deductions' = th_deductions \o ded
  BY DEF AssertLit
<1>2. PICK from : from = IF var(l) \in declared THEN Deducible(l) ELSE {}
  OBVIOUS
<1>3. from \subseteq Lit
  BY <1>2 DEF Deducible
<1>4. IsFiniteSet(from)
  BY <1>3, LitFinite
<1>5. PICK g \in Nat : g = Cardinality(from)
  BY <1>4, FS_CardinalityType
<1>6. PICK n \in 0 .. g : ded \in [1 .. n -> from] /\ \A i, j \in DOMAIN ded : var(ded[i]) = var(ded[j]) => i = j
  BY <1>2, <1>5 DEF Deductions
<1>7. ded \in Seq(Lit) /\ Len(ded) = n
  <2>1. ded \in [1 .. n -> Lit]
    BY <1>3, <1>6
  <2> QED BY <2>1, FunctionIsSeq
<1>8. PICK h \in Nat : h = Len(th_deductions)
  BY DEF TheoryHolds, PointsFit
<1>9. PICK d2 : d2 = th_deductions'
  OBVIOUS
<1>10. Len(d2) = h + n /\ (\A j \in 1 .. h : d2[j] = th_deductions[j])
       /\ \A j \in h + 1 .. h + n : d2[j] = ded[j - h]
  <2>1. th_deductions \in Seq(Lit) /\ n \in Nat
    BY DEF TheoryHolds, PointsFit
  <2>2. /\ Len(th_deductions \o ded) = Len(th_deductions) + Len(ded)
        /\ \A j \in 1 .. Len(th_deductions) : (th_deductions \o ded)[j] = th_deductions[j]
        /\ \A j \in Len(th_deductions) + 1 .. Len(th_deductions) + Len(ded) :
             (th_deductions \o ded)[j] = ded[j - Len(th_deductions)]
    BY <1>7, <2>1, ConcatParts
  <2> QED BY <1>1, <1>7, <1>8, <1>9, <2>2
<1>11. ASSUME var(l) \notin declared PROVE n = 0
  <2>1. from = {}
    BY <1>2, <1>11
  <2> QED BY <1>5, <2>1, FS_EmptySet
<1>12. ASSUME NEW j \in h + 1 .. h + n, NEW i \in 1 .. h PROVE var(d2[i]) # var(d2[j])
  <2>1. j - h \in 1 .. n /\ d2[j] = ded[j - h]
    BY <1>10
  <2>2. d2[j] \in Deducible(l)
    BY <1>2, <1>6, <2>1
  <2>3. var(d2[j]) \notin HasPolarity
    BY <2>2 DEF Deducible
  <2>4. th_deductions[i] \in Range(th_deductions)
    BY <1>8 DEF Range, TheoryHolds, PointsFit
  <2>5. var(th_deductions[i]) \in HasPolarity
    BY <2>4 DEF HasPolarity
  <2> QED BY <1>10, <2>3, <2>5
<1>13. ASSUME Distinct(th_deductions) PROVE Distinct(d2)
  <2> SUFFICES ASSUME NEW i \in 1 .. h + n, NEW j \in 1 .. h + n, var(d2[i]) = var(d2[j]) PROVE i = j
    BY <1>10 DEF Distinct
  <2>1. CASE i \in 1 .. h /\ j \in 1 .. h
    BY <1>8, <1>10, <1>13, <2>1 DEF Distinct
  <2>2. CASE i \notin 1 .. h /\ j \notin 1 .. h
    <3>1. i \in h + 1 .. h + n /\ j \in h + 1 .. h + n
      BY <2>2
    <3>2. i - h \in 1 .. n /\ j - h \in 1 .. n
      BY <3>1
    <3>3. var(ded[i - h]) = var(ded[j - h]) /\ DOMAIN ded = 1 .. n
      BY <1>6, <1>10, <3>1
    <3>4. i - h = j - h
      BY <1>6, <3>2, <3>3
    <3> QED BY <3>2, <3>4
  <2>3. CASE i \in 1 .. h /\ j \notin 1 .. h
    <3>1. j \in h + 1 .. h + n
      BY <2>3
    <3> QED BY <1>12, <2>3, <3>1
  <2>4. CASE i \notin 1 .. h /\ j \in 1 .. h
    <3>1. i \in h + 1 .. h + n
      BY <2>4
    <3> QED BY <1>12, <2>4, <3>1
  <2> QED BY <2>1, <2>2, <2>3, <2>4
<1>14. h <= h + n /\ h + n \in Nat
  OBVIOUS
<1> QED
  BY <1>8, <1>9, <1>10, <1>11, <1>13, <1>14

\* assertLit changes nothing about what would be left below the literal.
LEMMA AssertLeaves ==
  ASSUME TheoryHolds, NEW l \in Lit, var(l) \in TheoryVar <=> var(l) \in declared,
         AssertLit(l), NEW m \in 0 .. Len(stack)
  PROVE  LeftAt(m)' = LeftAt(m) /\ NextAt(m)' = NextAt(m)
<1>1. /\ stack \in Seq(Lit) /\ points \in Seq(Point) /\ th_deductions \in Seq(Lit) /\ Len(stack) \in Nat
  BY DEF TheoryHolds, PointsFit
<1>2. PICK k : k = Count(stack, m)
  OBVIOUS
<1>3. k \in 0 .. Len(points) /\ Len(points) \in Nat
  BY <1>2, LeftFacts
<1>4. Count(stack', m) = k
  <2>1. PICK s2 : s2 = stack'
    OBVIOUS
  <2>2. \A j \in 1 .. Len(stack) : s2[j] = stack[j]
    BY <1>1, <2>1, AppendParts DEF AssertLit
  <2>3. \A j \in 1 .. m : s2[j] = stack[j]
    BY <1>1, <2>2
  <2>4. m \in Nat
    BY <1>1
  <2>5. Count(s2, m) = Count(stack, m)
    BY <2>3, <2>4, CountSame
  <2> QED BY <1>2, <2>1, <2>5
<1>5. deductions_next' = deductions_next
  BY DEF AssertLit
<1>6. CASE var(l) \in declared
  <2>1. PICK x : x = LimPoint
    OBVIOUS
  <2>2. x \in Point /\ x.lim = Len(th_deductions) /\ x.last = deductions_next
    BY <1>1, <2>1 DEF LimPoint, Point, TheoryHolds
  <2>3. points' = Append(points, x)
    BY <1>6, <2>1 DEF AssertLit
  <2>4. /\ Len(points') = Len(points) + 1 /\ points'[Len(points) + 1] = x
        /\ \A i \in 1 .. Len(points) : points'[i] = points[i]
    BY <1>1, <2>2, <2>3, AppendParts
  <2>5. k # Len(points')
    BY <1>3, <2>4
  <2>6. LeftAt(m)' = points'[k + 1].lim /\ NextAt(m)' = points'[k + 1].last
    BY <1>4, <2>5 DEF LeftAt, NextAt
  <2>7. CASE k = Len(points)
    BY <1>2, <2>2, <2>4, <2>6, <2>7 DEF LeftAt, NextAt
  <2>8. CASE k # Len(points)
    <3>1. k + 1 \in 1 .. Len(points)
      BY <1>3, <2>8
    <3>2. LeftAt(m) = points[k + 1].lim /\ NextAt(m) = points[k + 1].last
      BY <1>2, <2>8 DEF LeftAt, NextAt
    <3> QED BY <2>4, <2>6, <3>1, <3>2
  <2> QED BY <2>7, <2>8
<1>7. CASE var(l) \notin declared
  <2>1. points' = points
    BY <1>7 DEF AssertLit
  <2>2. Len(th_deductions') = Len(th_deductions)
    BY <1>7, AssertDeduces
  <2> QED BY <1>2, <1>4, <1>5, <2>1, <2>2 DEF LeftAt, NextAt
<1> QED
  BY <1>6, <1>7

-----------------------------------------------------------------------------
\* The limits of the levels, in order; the ones below the current level are in the stack.
LEMMA LimitFacts ==
  ASSUME SearchInv, ToldInv, NEW k \in 1 .. decisionLevel
  PROVE  /\ trail_lim[k] \in Nat /\ trail_lim[k] \in 0 .. Len(stack)
         /\ trail_lim[k] <= trail_lim[decisionLevel] /\ trail_lim[decisionLevel] \in 0 .. Len(stack)
<1>1. PICK h \in Nat : h = decisionLevel
  BY TrailLevels
<1>2. k \in 1 .. h /\ h \in 1 .. h /\ k <= h /\ h > 0
  BY <1>1
<1>3. trail_lim[k] \in Nat /\ trail_lim[h] \in Nat
  BY <1>1, <1>2, TrailLevels
<1>4. trail_lim[k] <= trail_lim[h]
  BY <1>1, <1>2 DEF SearchInv, TrailInv, TrailHolds, TrailFits, Lims, decisionLevel
<1>5. trail_lim[h] <= Len(stack) /\ Len(stack) \in Nat
  BY <1>1, <1>2, TrailLevels DEF ToldInv
<1> QED
  BY <1>1, <1>3, <1>4, <1>5

\* Deductions that were true by a level are so as long as the level is kept.
LEMMA AllTrueStay ==
  ASSUME SearchInv, NEW n, NEW b \in Int, Keeps(n, b), NEW k \in Int, k <= b, NEW h \in Nat,
         AllTrueBy(h, k), \A d \in 1 .. h : th_deductions'[d] = th_deductions[d]
  PROVE  AllTrueBy(h, k)'
<1>1. ASSUME NEW d \in 1 .. h PROVE TrueBy({th_deductions[d]}, k)'
  <2>1. PICK c : c = {th_deductions[d]}
    OBVIOUS
  <2>2. TrueBy(c, k)
    BY <2>1 DEF AllTrueBy
  <2>3. TrueBy(c, k)'
    BY <2>2, TrueByStays
  <2>4. c = {th_deductions'[d]}
    BY <2>1
  <2> QED BY <2>3, <2>4 DEF TrueBy
<1> QED
  BY <1>1 DEF AllTrueBy

\* A level whose limit and backtrack points stay.
LEMMA LevelStays ==
  ASSUME SearchInv, ToldInv, NEW k \in 1 .. decisionLevel, LevelDelivered(k), NEW n, NEW b \in Int,
         Keeps(n, b), k - 1 <= b, NEW m, m = trail_lim[k], trail_lim'[k] = m,
         LeftAt(m)' = LeftAt(m), NextAt(m)' = NextAt(m),
         \A d \in 1 .. LeftAt(m) : th_deductions'[d] = th_deductions[d]
  PROVE  LevelDelivered(k)'
<1>1. m \in 0 .. Len(stack) /\ k - 1 \in Int
  BY LimitFacts
<1>2. PICK h : h = LeftAt(m)
  OBVIOUS
<1>3. h \in Nat
  BY <1>1, <1>2, LeftFacts DEF SearchInv, TheoryInv
<1>4. NextAt(m) = h /\ AllTrueBy(h, k - 1)
  BY <1>2 DEF LevelDelivered
<1>5. PICK q \in Int : q = k - 1
  BY <1>1
<1>6. AllTrueBy(h, q)'
  BY <1>2, <1>3, <1>4, <1>5, AllTrueStay
<1>7. LeftAt(trail_lim[k])' = h /\ NextAt(trail_lim[k])' = h
  <2>1. LeftAt(m)' = h /\ NextAt(m)' = h
    BY <1>2, <1>4
  <2> QED BY <2>1 DEF LeftAt, NextAt
<1> QED
  BY <1>5, <1>6, <1>7 DEF LevelDelivered, AllTrueBy

-----------------------------------------------------------------------------
\* The deductions that would be left are some of those there are.
LeftBounded == \A m \in 0 .. Len(stack) : LeftAt(m) \in Nat /\ LeftAt(m) <= Len(th_deductions)

\* This follows from how the backtrack points are counted.
LEMMA LeftIsBounded == TheoryHolds => LeftBounded
BY LeftFacts DEF LeftBounded

\* Steps that tell the theory nothing, undo nothing and begin no level.
LEMMA ForthDelivers ==
  ASSUME SearchInv, SearchInv', DeliveryInv, Underway, NEW n, \A b : Keeps(n, b),
         UNCHANGED <<stack, points, th_deductions, deductions_next, trail_lim>>,
         pc' \in {"analyze", "learn"} \/ pc \notin {"analyze", "learn"}
  PROVE  ToldInv' /\ Distinct(th_deductions)' /\ DeliveredInv'
<1>1. ToldInv /\ Distinct(th_deductions) /\ DeliveredInv
  BY DEF DeliveryInv, OnceInv
<1>2. ToldInv' /\ Distinct(th_deductions)' /\ decisionLevel' = decisionLevel
  BY <1>1 DEF ToldInv, Distinct, decisionLevel
<1>3. PICK h \in Nat : h = decisionLevel
  BY TrailLevels
<1>4. ASSUME NEW k \in 1 .. h PROVE LevelDelivered(k)'
  <2>1. PICK m : m = trail_lim[k]
    OBVIOUS
  <2>2. LeftAt(m)' = LeftAt(m) /\ NextAt(m)' = NextAt(m) /\ trail_lim'[k] = m
    BY <2>1 DEF LeftAt, NextAt
  <2>3. Keeps(n, h) /\ k - 1 <= h /\ LevelDelivered(k) /\ k \in 1 .. decisionLevel
    BY <1>1, <1>3 DEF DeliveredInv
  <2> QED BY <1>1, <2>1, <2>2, <2>3, LevelStays
<1>5. ASSUME pc \notin {"analyze", "learn"} PROVE NowDelivered'
  <2>1. PICK g : g = deductions_next
    OBVIOUS
  <2>2. g \in Nat /\ g <= Len(th_deductions) /\ AllTrueBy(g, h)
    BY <1>1, <1>3, <1>5, <2>1 DEF DeliveredInv, NowDelivered, SearchInv, TheoryInv, TheoryHolds
  <2>3. Keeps(n, h) /\ h <= h
    BY <1>3
  <2>4. AllTrueBy(g, h)'
    BY <2>2, <2>3, AllTrueStay
  <2> QED BY <1>2, <1>3, <2>1, <2>2, <2>4 DEF NowDelivered, AllTrueBy
<1> QED
  BY <1>2, <1>3, <1>4, <1>5 DEF DeliveredInv

\* A new level begins when everything has been told and communicated.
LEMMA LevelDelivers ==
  ASSUME SearchInv, SearchInv', DeliveryInv, Underway, pc = "decide", NEW n, \A b : Keeps(n, b),
         UNCHANGED <<stack, points, th_deductions, deductions_next>>,
         trail_lim' = Append(trail_lim, Len(trail)), pc' \notin {"analyze", "learn"}
  PROVE  ToldInv' /\ Distinct(th_deductions)' /\ DeliveredInv'
<1>1. /\ ToldInv /\ Distinct(th_deductions) /\ DeliveredInv
      /\ deductions_next = Len(th_deductions) /\ Len(stack) = Len(trail)
  BY DEF DeliveryInv, OnceInv, AllToldInv
<1>2. PICK h \in Nat : h = decisionLevel
  BY TrailLevels
<1>3. trail_lim \in Seq(Nat) /\ Len(trail_lim) = h /\ Len(trail) \in Nat
  BY <1>2, TrailLevels DEF decisionLevel
<1>4. decisionLevel' = h + 1 /\ trail_lim'[h + 1] = Len(trail) /\ \A k \in 1 .. h : trail_lim'[k] = trail_lim[k]
  BY <1>3, AppendParts DEF decisionLevel
<1>5. ToldInv'
  BY <1>1, <1>3, <1>4 DEF ToldInv
<1>6. Distinct(th_deductions)'
  BY <1>1 DEF Distinct
<1>7. PICK g \in Nat : g = Len(th_deductions)
  BY DEF SearchInv, TheoryInv, TheoryHolds, PointsFit
<1>8. AllTrueBy(g, h)
  BY <1>1, <1>2, <1>7 DEF DeliveredInv, NowDelivered
<1>9. AllTrueBy(g, h)'
  <2>1. Keeps(n, h) /\ h <= h
    BY <1>2
  <2> QED BY <1>7, <1>8, <2>1, AllTrueStay
<1>10. ASSUME NEW k \in 1 .. h + 1 PROVE LevelDelivered(k)'
  <2>1. CASE k \in 1 .. h
    <3>1. PICK m : m = trail_lim[k]
      OBVIOUS
    <3>2. LeftAt(m)' = LeftAt(m) /\ NextAt(m)' = NextAt(m) /\ trail_lim'[k] = m
      BY <1>4, <2>1, <3>1 DEF LeftAt, NextAt
    <3>3. Keeps(n, h) /\ k - 1 <= h /\ LevelDelivered(k) /\ k \in 1 .. decisionLevel
      BY <1>1, <1>2, <2>1 DEF DeliveredInv
    <3>4. \A d \in 1 .. LeftAt(m) : th_deductions'[d] = th_deductions[d]
      OBVIOUS
    <3>5. h \in Int /\ SearchInv /\ ToldInv
      BY <1>1
    <3> QED BY <3>1, <3>2, <3>3, <3>4, <3>5, LevelStays
  <2>2. CASE k = h + 1
    <3>1. Count(stack, Len(stack)) = Len(points)
      BY DEF SearchInv, TheoryInv, TheoryHolds, PointsFit
    <3>2. LeftAt(trail_lim[k])' = g /\ NextAt(trail_lim[k])' = g
      BY <1>1, <1>4, <1>7, <2>2, <3>1 DEF LeftAt, NextAt
    <3>3. k - 1 = h
      BY <2>2
    <3> QED BY <1>9, <3>2, <3>3 DEF LevelDelivered, AllTrueBy
  <2> QED BY <2>1, <2>2
<1>11. NowDelivered'
  <2>1. ASSUME NEW d \in 1 .. g PROVE TrueBy({th_deductions[d]}, decisionLevel)'
    <3>1. TrueBy({th_deductions[d]}, h)'
      BY <1>9 DEF AllTrueBy
    <3>2. PICK i \in 1 .. Len(trail') : trail'[i] \in {th_deductions'[d]} /\ level'[var(trail'[i])] <= h
      BY <3>1 DEF TrueBy
    <3>3. level'[var(trail'[i])] \in Nat
      <4>1. trail' \in Seq(Lit) /\ level' \in [Var -> Nat]
        BY DEF SearchInv, TrailInv, TrailHolds, TrailFits, Levels
      <4>2. trail'[i] \in Lit
        BY <4>1
      <4> QED BY <4>1, <4>2, LitFacts
    <3>4. level'[var(trail'[i])] <= h + 1
      BY <3>2, <3>3
    <3> QED BY <1>4, <3>2, <3>4 DEF TrueBy
  <2> QED BY <1>1, <1>7, <2>1 DEF NowDelivered, AllTrueBy
<1> QED
  BY <1>4, <1>5, <1>6, <1>10, <1>11 DEF DeliveredInv

\* Going back to a level: what is left there counts as communicated and is true.
LEMMA BackDelivers ==
  ASSUME SearchInv, SearchInv', DeliveryInv, Underway, NEW lev \in 0 .. decisionLevel, CancelUntil(lev),
         NEW n, Keeps(n, lev), lev = decisionLevel => pc \notin {"analyze", "learn"}
  PROVE  ToldInv' /\ Distinct(th_deductions)' /\ DeliveredInv'
<1>1. ToldInv /\ Distinct(th_deductions) /\ DeliveredInv /\ TheoryHolds
  BY DEF DeliveryInv, OnceInv, SearchInv, TheoryInv
<1>2. PICK h \in Nat : h = decisionLevel
  BY TrailLevels
<1>3. lev \in 0 .. h /\ lev \in Nat /\ lev <= lev
  BY <1>2
<1>4. trail_lim' = SubSeq(trail_lim, 1, lev)
  BY <1>2, <1>3 DEF CancelUntil
<1>5. Len(trail_lim') = lev /\ \A k \in 1 .. lev : trail_lim'[k] = trail_lim[k]
  <2>1. trail_lim \in Seq(Nat) /\ lev \in 0 .. Len(trail_lim)
    BY TrailLevels DEF decisionLevel
  <2> QED BY <1>4, <2>1, Prefix
<1>6. decisionLevel' = lev
  BY <1>5 DEF decisionLevel
<1>7. CASE lev = h
  <2>1. UNCHANGED <<stack, points, th_deductions, deductions_next>>
    BY <1>2, <1>7 DEF CancelUntil, theoryVars
  <2>2. pc \notin {"analyze", "learn"}
    BY <1>2, <1>7
  <2>3. ToldInv' /\ Distinct(th_deductions)'
    <3>1. lev > 0 => lev \in 1 .. lev
      BY <1>3
    <3> QED BY <1>1, <1>2, <1>5, <1>6, <1>7, <2>1, <3>1 DEF ToldInv, Distinct
  <2>4. ASSUME NEW k \in 1 .. lev PROVE LevelDelivered(k)'
    <3>1. PICK m : m = trail_lim[k]
      OBVIOUS
    <3>2. LeftAt(m)' = LeftAt(m) /\ NextAt(m)' = NextAt(m) /\ trail_lim'[k] = m
      BY <1>5, <2>1, <3>1 DEF LeftAt, NextAt
    <3>3. k - 1 <= lev /\ LevelDelivered(k) /\ k \in 1 .. decisionLevel
      BY <1>1, <1>2, <1>7 DEF DeliveredInv
    <3> QED BY <1>1, <2>1, <3>1, <3>2, <3>3, LevelStays
  <2>5. NowDelivered'
    <3>1. PICK g : g = deductions_next
      OBVIOUS
    <3>2. g \in Nat /\ g <= Len(th_deductions) /\ AllTrueBy(g, lev)
      BY <1>1, <1>2, <1>7, <2>2, <3>1 DEF DeliveredInv, NowDelivered, TheoryHolds
    <3>3. AllTrueBy(g, lev)'
      BY <1>3, <2>1, <3>2, AllTrueStay
    <3> QED BY <1>6, <2>1, <3>1, <3>2, <3>3 DEF NowDelivered, AllTrueBy
  <2> QED BY <1>6, <2>3, <2>4, <2>5 DEF DeliveredInv
<1>8. CASE lev < h
  <2>1. PICK j \in 1 .. decisionLevel : j = lev + 1
    BY <1>2, <1>3, <1>8
  <2>2. PICK e : e = trail_lim[j]
    OBVIOUS
  <2>3. e \in Nat /\ e \in 0 .. Len(stack) /\ Len(stack) \in Nat
    BY <1>1, <2>2, LimitFacts, TrailLevels
  <2>4. Backtrack(e) /\ e = (IF e < Len(stack) THEN e ELSE Len(stack))
    BY <1>2, <1>8, <2>1, <2>2, <2>3 DEF CancelUntil, EndOf
  <2>5. PICK z : z = e
    OBVIOUS
  <2>6. /\ Len(th_deductions') = LeftAt(e) /\ deductions_next' = NextAt(e)
        /\ \A m \in 0 .. e : LeftAt(m)' = LeftAt(m) /\ NextAt(m)' = NextAt(m)
    <3>1. z = (IF e < Len(stack) THEN e ELSE Len(stack))
      BY <2>4, <2>5
    <3> QED BY <1>1, <2>3, <2>4, <2>5, <3>1, KnownStack, BacktrackLeaves
  <2>7. /\ Len(stack') = e /\ Len(th_deductions') <= Len(th_deductions)
        /\ \A d \in 1 .. Len(th_deductions') : th_deductions'[d] = th_deductions[d]
    BY <1>1, <2>3, <2>4, KnownStack, BacktrackKeeps
  <2>8. PICK g \in Nat : g = LeftAt(e) /\ g <= Len(th_deductions)
    BY <1>1, <2>3, LeftFacts
  <2>9. Len(th_deductions) \in Nat
    BY <1>1 DEF TheoryHolds, PointsFit
  <2>10. \A k \in 1 .. lev : trail_lim[k] \in 0 .. e
    <3> TAKE k \in 1 .. lev
    <3>1. k \in 1 .. Len(trail_lim) /\ j \in 1 .. Len(trail_lim) /\ k <= j /\ k \in 1 .. decisionLevel
      BY <1>2, <1>3, <2>1 DEF decisionLevel
    <3>2. trail_lim[k] <= trail_lim[j]
      BY <3>1 DEF SearchInv, TrailInv, TrailHolds, TrailFits, Lims
    <3>3. trail_lim[k] \in Nat
      BY <1>1, <3>1, LimitFacts
    <3> QED BY <2>2, <2>3, <3>2, <3>3
  <2>11. ToldInv'
    <3>1. lev > 0 => lev \in 1 .. lev
      BY <1>3
    <3> QED BY <1>5, <1>6, <2>7, <2>10, <3>1 DEF ToldInv
  <2>12. Distinct(th_deductions)'
    <3>1. PICK d2 : d2 = th_deductions'
      OBVIOUS
    <3>2. \A x \in 1 .. g : x \in 1 .. Len(th_deductions)
      BY <2>8, <2>9
    <3>3. Len(d2) = g /\ \A d \in 1 .. g : d2[d] = th_deductions[d]
      BY <2>6, <2>7, <2>8, <3>1
    <3>4. Distinct(d2)
      BY <1>1, <3>2, <3>3 DEF Distinct
    <3> QED BY <3>1, <3>4
  <2>13. ASSUME NEW k \in 1 .. lev PROVE LevelDelivered(k)'
    <3>1. PICK m : m = trail_lim[k]
      OBVIOUS
    <3>2. m \in 0 .. e
      BY <2>10, <3>1
    <3>3. LeftAt(m)' = LeftAt(m) /\ NextAt(m)' = NextAt(m) /\ trail_lim'[k] = m
      BY <1>5, <2>6, <3>1, <3>2
    <3>4. k - 1 <= lev /\ k \in 1 .. decisionLevel
      BY <1>2, <1>3
    <3>5. LevelDelivered(k)
      BY <1>1, <3>4 DEF DeliveredInv
    <3>6. \A d \in 1 .. LeftAt(m) : th_deductions'[d] = th_deductions[d]
      <4>0. TheoryHolds'
        BY DEF SearchInv, TheoryInv
      <4>1. m \in 0 .. Len(stack')
        BY <2>7, <3>2
      <4>2. LeftBounded'
        BY <4>0, LeftIsBounded, PTL
      <4>3. LeftAt(m) <= Len(th_deductions') /\ LeftAt(m) \in Nat
        BY <3>3, <4>1, <4>2 DEF LeftBounded
      <4> QED BY <2>6, <2>7, <2>8, <4>3
    <3> QED BY <1>1, <1>3, <3>1, <3>3, <3>4, <3>5, <3>6, LevelStays
  <2>14. NowDelivered'
    <3>1. LevelDelivered(j) /\ j - 1 = lev
      BY <1>1, <1>3, <2>1 DEF DeliveredInv
    <3>2. NextAt(e) = g /\ AllTrueBy(g, lev)
      BY <2>2, <2>8, <3>1 DEF LevelDelivered
    <3>3. \A d \in 1 .. g : th_deductions'[d] = th_deductions[d]
      BY <2>6, <2>7, <2>8
    <3>4. AllTrueBy(g, lev)'
      BY <1>3, <3>2, <3>3, AllTrueStay
    <3>5. deductions_next' = g /\ g <= Len(th_deductions')
      BY <2>6, <2>8, <3>2
    <3> QED BY <1>6, <3>4, <3>5 DEF NowDelivered, AllTrueBy
  <2> QED BY <1>6, <2>11, <2>12, <2>13, <2>14 DEF DeliveredInv
<1> QED
  BY <1>2, <1>3, <1>7, <1>8

-----------------------------------------------------------------------------
\* THandler::assertLits: what the theory deduces now is yet to be communicated.
LEMMA TheoryAssertDelivers ==
  ASSUME SearchInv, SearchInv', DeliveryInv, TheoryAssert
  PROVE  DeliveryInv'
<1>1. /\ pc = "checkTheory" /\ pc' = pc /\ Len(stack) < Len(trail) /\ AssertLit(trail[Len(stack) + 1])
      /\ UNCHANGED <<trail, trail_lim, level, after>>
  BY DEF TheoryAssert, trailVars
<1>2. ~Outside /\ Underway
  BY <1>1 DEF Outside, Underway, SearchInv, PhaseInv
<1>3. ToldInv /\ Distinct(th_deductions) /\ DeliveredInv /\ TheoryHolds
  BY <1>2 DEF DeliveryInv, OnceInv, SearchInv, TheoryInv
<1>4. PICK h \in Nat : h = decisionLevel
  BY TrailLevels
<1>5. PICK l : l = trail[Len(stack) + 1]
  OBVIOUS
<1>6. Len(stack) + 1 \in 1 .. Len(trail) /\ Len(stack) \in Nat
  BY <1>1, TrailLevels
<1>7. l \in Lit /\ (var(l) \in TheoryVar <=> var(l) \in declared) /\ AssertLit(l)
  BY <1>1, <1>2, <1>5, <1>6, TrailLevels DEF SearchInv, KnownInv
<1>8. /\ Len(th_deductions) \in Nat /\ Len(th_deductions') \in Nat /\ Len(th_deductions) <= Len(th_deductions')
      /\ \A d \in 1 .. Len(th_deductions) : th_deductions'[d] = th_deductions[d]
      /\ Distinct(th_deductions')
  BY <1>3, <1>7, AssertDeduces
<1>9. decisionLevel' = h /\ deductions_next' = deductions_next /\ Len(stack') = Len(stack) + 1
  <2>1. stack \in Seq(Lit)
    BY TrailLevels
  <2> QED BY <1>1, <1>4, <1>7, <2>1, AppendParts DEF decisionLevel, AssertLit
<1>10. PICK n : n = Len(trail)
  OBVIOUS
<1>11. Keeps(n, h)
  BY <1>1, <1>10, NothingMoves
<1>12. ToldInv'
  <2>1. h > 0 => trail_lim[h] <= Len(stack) /\ trail_lim[h] \in Nat
    <3>1. h > 0 => h \in 1 .. decisionLevel
      BY <1>4
    <3> QED BY <1>3, <1>4, <3>1, LimitFacts DEF ToldInv
  <2>2. h > 0 => trail_lim[h] <= Len(stack) + 1
    BY <1>6, <2>1
  <2> QED BY <1>1, <1>9, <2>2 DEF ToldInv
<1>13. ASSUME NEW k \in 1 .. h PROVE LevelDelivered(k)'
  <2>1. PICK m : m = trail_lim[k]
    OBVIOUS
  <2>2. k \in 1 .. decisionLevel /\ LevelDelivered(k) /\ k - 1 <= h
    BY <1>3, <1>4 DEF DeliveredInv
  <2>3. m \in 0 .. Len(stack)
    BY <1>3, <2>1, <2>2, LimitFacts
  <2>4. LeftAt(m)' = LeftAt(m) /\ NextAt(m)' = NextAt(m)
    BY <1>3, <1>7, <2>3, AssertLeaves
  <2>5. LeftAt(m) \in Nat /\ LeftAt(m) <= Len(th_deductions)
    BY <1>3, <2>3, LeftFacts
  <2>6. \A d \in 1 .. LeftAt(m) : th_deductions'[d] = th_deductions[d]
    BY <1>8, <2>5
  <2>7. trail_lim'[k] = m /\ h \in Int
    BY <1>1, <2>1
  <2> QED BY <1>3, <1>11, <2>1, <2>2, <2>4, <2>6, <2>7, LevelStays
<1>14. NowDelivered'
  <2>1. PICK g : g = deductions_next
    OBVIOUS
  <2>2. g \in Nat /\ g <= Len(th_deductions) /\ AllTrueBy(g, h)
    BY <1>1, <1>3, <1>4, <2>1 DEF DeliveredInv, NowDelivered, TheoryHolds
  <2>3. \A d \in 1 .. g : th_deductions'[d] = th_deductions[d]
    BY <1>8, <2>2
  <2>4. h <= h
    OBVIOUS
  <2>5. AllTrueBy(g, h)'
    BY <1>11, <2>2, <2>3, <2>4, AllTrueStay
  <2>6. g <= Len(th_deductions')
    BY <1>8, <2>2
  <2> QED BY <1>9, <2>1, <2>5, <2>6 DEF NowDelivered, AllTrueBy
<1>15. DeliveredInv'
  BY <1>9, <1>13, <1>14 DEF DeliveredInv
<1>16. OnceInv' /\ AllToldInv'
  BY <1>1, <1>8 DEF OnceInv, AllToldInv, Distinct
<1> QED
  BY <1>12, <1>15, <1>16 DEF DeliveryInv

\* analyze asks for the reason of a deduction: the theory is taken back within the
\* current level.
LEMMA AnalyzeStepDelivers ==
  ASSUME SearchInv, SearchInv', DeliveryInv, AnalyzeStep
  PROVE  DeliveryInv'
<1>1. PICK n, i, q, marked : AnalyzesAt(n, i, q, marked)
  BY AnalyzeFacts
<1>2. PICK h \in Nat : h = decisionLevel
  BY TrailLevels
<1>3. /\ Keeps(n, h - 1) /\ trail_lim[h] <= n /\ h > 0 /\ Len(trail') = n /\ n \in {i - 1, Len(trail)}
      /\ i \in 1 .. Len(trail) /\ q = trail[i] /\ marked = seen \cup {l \in confl \ {p} : level[var(l)] > 0}
      /\ UNCHANGED <<trail_lim, after>> /\ pc = "analyze" /\ pc' \in {"learn", "analyze"}
  BY <1>1, <1>2 DEF AnalyzesAt
<1>4. ~Outside /\ Underway
  BY <1>3 DEF Outside, Underway, SearchInv, PhaseInv
<1>5. ToldInv /\ Distinct(th_deductions) /\ DeliveredInv /\ TheoryHolds
  BY <1>4 DEF DeliveryInv, OnceInv, SearchInv, TheoryInv
<1>6. decisionLevel' = h
  BY <1>2, <1>3 DEF decisionLevel
<1>7. OnceInv' /\ AllToldInv' <=> Distinct(th_deductions')
  BY <1>3 DEF OnceInv, AllToldInv, Distinct
<1>8. pc' \in {"analyze", "learn"}
  BY <1>3
<1>9. CASE UNCHANGED theoryVars
  <2>1. ToldInv' /\ Distinct(th_deductions')
    BY <1>3, <1>5, <1>9 DEF ToldInv, Distinct, theoryVars, decisionLevel
  <2>2. ASSUME NEW k \in 1 .. h PROVE LevelDelivered(k)'
    <3>1. PICK m : m = trail_lim[k]
      OBVIOUS
    <3>2. LeftAt(m)' = LeftAt(m) /\ NextAt(m)' = NextAt(m) /\ trail_lim'[k] = m
      BY <1>3, <1>9, <3>1 DEF LeftAt, NextAt, theoryVars
    <3>3. k - 1 <= h - 1 /\ h - 1 \in Int /\ k \in 1 .. decisionLevel /\ LevelDelivered(k)
      BY <1>2, <1>5 DEF DeliveredInv
    <3>4. \A d \in 1 .. LeftAt(m) : th_deductions'[d] = th_deductions[d]
      BY <1>9 DEF theoryVars
    <3> QED BY <1>3, <1>5, <3>1, <3>2, <3>3, <3>4, LevelStays
  <2> QED BY <1>6, <1>7, <1>8, <2>1, <2>2 DEF DeliveryInv, DeliveredInv
<1>10. CASE ~UNCHANGED theoryVars
  <2>1. PICK s : s = LastSeen(marked)
    OBVIOUS
  <2>2. UndoTo(s - 1)
    BY <1>3, <1>10, <2>1 DEF AnalyzeStep, UndoPoint
  <2>3. trail' = SubSeq(trail, 1, s - 1) /\ Backtrack(s - 1)
    BY <2>2 DEF UndoTo
  <2>4. s \in 1 .. Len(trail) /\ trail_lim[decisionLevel] < s
    BY <1>3, <2>1, MarkedFacts
  <2>5. trail \in Seq(Lit) /\ Len(trail) \in Nat /\ Len(stack) \in Nat
    BY TrailLevels
  <2>6. PICK z \in Nat : z = s - 1
    BY <2>4, <2>5
  <2>7. h \in 1 .. decisionLevel
    BY <1>2, <1>3
  <2>8. trail_lim[h] \in Nat /\ trail_lim[h] \in 0 .. Len(stack)
    BY <1>5, <2>7, LimitFacts
  <2>9. trail_lim[h] <= z
    BY <1>2, <2>4, <2>6, <2>8
  <2>10. PICK e : e = (IF z < Len(stack) THEN z ELSE Len(stack))
    OBVIOUS
  <2>11. e \in 0 .. Len(stack) /\ e \in Nat /\ trail_lim[h] <= e
    BY <2>5, <2>8, <2>9, <2>10
  <2>12. Backtrack(z)
    BY <2>3, <2>6
  <2>13. \A m \in 0 .. e : LeftAt(m)' = LeftAt(m) /\ NextAt(m)' = NextAt(m)
    BY <1>5, <2>10, <2>12, KnownStack, BacktrackLeaves
  <2>14. /\ Len(stack') = e /\ Len(th_deductions') <= Len(th_deductions)
         /\ \A d \in 1 .. Len(th_deductions') : th_deductions'[d] = th_deductions[d]
    BY <1>5, <2>10, <2>12, KnownStack, BacktrackKeeps
  <2>15. ToldInv'
    BY <1>3, <1>6, <2>11, <2>14 DEF ToldInv
  <2>16. Len(th_deductions) \in Nat /\ Len(th_deductions') \in Nat
    BY <1>5 DEF TheoryHolds, PointsFit, SearchInv, TheoryInv
  <2>17. Distinct(th_deductions')
    <3>1. PICK d2, g : d2 = th_deductions' /\ g = Len(d2)
      OBVIOUS
    <3>2. \A x \in 1 .. g : x \in 1 .. Len(th_deductions) /\ d2[x] = th_deductions[x]
      BY <2>14, <2>16, <3>1
    <3>3. Distinct(d2)
      BY <1>5, <3>1, <3>2 DEF Distinct
    <3> QED BY <3>1, <3>3
  <2>18. ASSUME NEW k \in 1 .. h PROVE LevelDelivered(k)'
    <3>1. PICK m : m = trail_lim[k]
      OBVIOUS
    <3>2. k - 1 <= h - 1 /\ h - 1 \in Int /\ k \in 1 .. decisionLevel /\ LevelDelivered(k)
      BY <1>2, <1>5 DEF DeliveredInv
    <3>3. m \in Nat /\ m <= trail_lim[h]
      BY <1>2, <1>5, <3>1, <3>2, LimitFacts
    <3>4. m \in 0 .. e
      BY <2>8, <2>11, <3>3
    <3>5. LeftAt(m)' = LeftAt(m) /\ NextAt(m)' = NextAt(m) /\ trail_lim'[k] = m
      BY <1>3, <2>13, <3>1, <3>4
    <3>6. TheoryHolds'
      BY DEF SearchInv, TheoryInv
    <3>7. LeftBounded'
      BY <3>6, LeftIsBounded, PTL
    <3>8. LeftAt(m) \in Nat /\ LeftAt(m) <= Len(th_deductions')
      BY <2>14, <3>4, <3>5, <3>7 DEF LeftBounded
    <3>9. \A d \in 1 .. LeftAt(m) : th_deductions'[d] = th_deductions[d]
      BY <2>14, <2>16, <3>8
    <3> QED BY <1>3, <1>5, <3>1, <3>2, <3>5, <3>9, LevelStays
  <2> QED BY <1>6, <1>7, <1>8, <2>15, <2>17, <2>18 DEF DeliveryInv, DeliveredInv
<1> QED
  BY <1>9, <1>10

-----------------------------------------------------------------------------
\* The index of the next deduction moves on within the current level.
LEMMA IndexMoves ==
  ASSUME SearchInv, DeliveryInv, Underway, NEW n, \A b : Keeps(n, b),
         UNCHANGED <<stack, points, th_deductions, trail_lim>>,
         deductions_next < Len(th_deductions) \/ deductions_next' = Len(th_deductions)
  PROVE  ToldInv' /\ Distinct(th_deductions)' /\ \A k \in 1 .. decisionLevel' : LevelDelivered(k)'
<1>1. ToldInv /\ Distinct(th_deductions) /\ DeliveredInv
  BY DEF DeliveryInv, OnceInv
<1>2. ToldInv' /\ Distinct(th_deductions)' /\ decisionLevel' = decisionLevel
  BY <1>1 DEF ToldInv, Distinct, decisionLevel
<1>3. PICK h \in Nat : h = decisionLevel
  BY TrailLevels
<1>4. ASSUME NEW k \in 1 .. h PROVE LevelDelivered(k)'
  <2>1. PICK m : m = trail_lim[k]
    OBVIOUS
  <2>2. Keeps(n, h) /\ k - 1 <= h /\ LevelDelivered(k) /\ k \in 1 .. decisionLevel /\ h \in Int
    BY <1>1, <1>3 DEF DeliveredInv
  <2>3. LeftAt(m)' = LeftAt(m) /\ NextAt(m) = LeftAt(m) /\ trail_lim'[k] = m
    BY <2>1, <2>2 DEF LeftAt, LevelDelivered
  <2>4. NextAt(m)' = NextAt(m)
    <3>1. CASE Count(stack, m) = Len(points)
      <4>1. NextAt(m) = deductions_next /\ LeftAt(m) = Len(th_deductions) /\ NextAt(m)' = deductions_next'
        BY <3>1 DEF LeftAt, NextAt
      <4>2. PICK g \in Nat : g = Len(th_deductions)
        BY DEF SearchInv, TheoryInv, TheoryHolds, PointsFit
      <4>3. deductions_next = g
        BY <2>3, <4>1, <4>2
      <4>4. deductions_next' = g
        BY <4>2, <4>3
      <4> QED BY <4>1, <4>3, <4>4
    <3>2. CASE Count(stack, m) # Len(points)
      BY <3>2 DEF NextAt
    <3> QED BY <3>1, <3>2
  <2>5. \A d \in 1 .. LeftAt(m) : th_deductions'[d] = th_deductions[d]
    OBVIOUS
  <2> QED BY <1>1, <2>1, <2>2, <2>3, <2>4, <2>5, LevelStays
<1> QED
  BY <1>2, <1>3, <1>4

\* A deduction is enqueued, or was true before.
LEMMA DeduceNextDelivers ==
  ASSUME SearchInv, SearchInv', DeliveryInv, DeduceNext
  PROVE  DeliveryInv'
<1>1. PICK l : l = th_deductions[deductions_next + 1]
  OBVIOUS
<1>2. /\ pc = "deduce" /\ pc' = pc /\ deductions_next < Len(th_deductions) /\ deductions_next' = deductions_next + 1
      /\ IF Unassigned(l) THEN EnqueueOn(trail, l, CRef_Fake, decisionLevel)
                          ELSE UNCHANGED <<trail, level, reason>>
      /\ UNCHANGED <<stack, points, th_deductions, trail_lim, after>>
  BY <1>1 DEF DeduceNext
<1>3. Underway
  BY <1>2 DEF Outside, Underway, SearchInv, PhaseInv
<1>4. /\ Distinct(th_deductions) /\ NowDelivered
      /\ \A d \in 1 .. Len(th_deductions), i \in 1 .. Len(trail) : trail[i] # -th_deductions[d]
  BY <1>2, <1>3 DEF DeliveryInv, OnceInv, DeliveredInv
<1>5. PICK g \in Nat : g = deductions_next
  BY DEF SearchInv, TheoryInv, TheoryHolds
<1>6. th_deductions \in Seq(Lit) /\ Len(th_deductions) \in Nat
  BY DEF SearchInv, TheoryInv, TheoryHolds, PointsFit
<1>7. g + 1 \in 1 .. Len(th_deductions) /\ l \in Lit /\ l = th_deductions[g + 1]
  BY <1>1, <1>2, <1>5, <1>6
<1>8. PICK h \in Nat : h = decisionLevel
  BY TrailLevels
<1>9. decisionLevel' = h
  BY <1>2, <1>8 DEF decisionLevel
<1>10. PICK n : n = Len(trail) /\ \A b : Keeps(n, b)
  <2>1. CASE Unassigned(l)
    <3>1. PICK from : from = CRef_Fake
      OBVIOUS
    <3>2. PICK n : n = Len(trail)
      OBVIOUS
    <3>3. EnqueueOn(trail, l, from, h)
      BY <1>2, <1>8, <2>1, <3>1
    <3>4. EnqueuesAt(n, l, from, h)
      BY <3>2, <3>3, EnqueuedHere
    <3> QED BY <3>2, <3>4 DEF EnqueuesAt
  <2>2. CASE ~Unassigned(l)
    BY <1>2, <2>2, NothingMoves
  <2> QED BY <2>1, <2>2
<1>11. \/ UNCHANGED <<trail, level>> /\ ~Unassigned(l)
       \/ Len(trail') = n + 1 /\ trail'[n + 1] = l /\ level'[var(l)] = h
  <2>1. CASE Unassigned(l)
    <3>1. PICK from : from = CRef_Fake
      OBVIOUS
    <3>2. EnqueueOn(trail, l, from, h)
      BY <1>2, <1>8, <2>1, <3>1
    <3>3. EnqueuesAt(n, l, from, h)
      BY <1>10, <3>2, EnqueuedHere
    <3> QED BY <3>3 DEF EnqueuesAt, Appends
  <2> QED BY <1>2, <2>1
<1>12. Len(trail) \in Nat /\ trail \in Seq(Lit)
  BY TrailLevels
<1>13. TrueBy({l}, h)'
  <2>1. CASE UNCHANGED <<trail, level>> /\ ~Unassigned(l)
    <3>1. True(l) \/ False(l)
      BY <2>1 DEF Unassigned
    <3>2. ~False(l)
      <4> SUFFICES ASSUME False(l) PROVE FALSE
        OBVIOUS
      <4>1. PICK i \in 1 .. Len(trail) : trail[i] = -l
        BY <1>12, ValueFacts DEF FalseBefore
      <4> QED BY <1>4, <1>7, <4>1
    <3>3. PICK i \in 1 .. Len(trail) : trail[i] = l
      BY <1>12, <3>1, <3>2, ValueFacts
    <3>4. level[var(trail[i])] \in 0 .. h
      BY <1>8, TrailLevels
    <3>5. level[var(trail[i])] <= h
      BY <3>4
    <3> QED BY <2>1, <3>3, <3>5 DEF TrueBy
  <2>2. CASE Len(trail') = n + 1 /\ trail'[n + 1] = l /\ level'[var(l)] = h
    <3>1. n + 1 \in 1 .. Len(trail') /\ h <= h
      BY <1>10, <1>12, <2>2
    <3> QED BY <2>2, <3>1 DEF TrueBy
  <2> QED BY <1>11, <2>1, <2>2
<1>14. NowDelivered'
  <2>1. AllTrueBy(g, h) /\ Keeps(n, h) /\ h <= h
    BY <1>4, <1>5, <1>8, <1>10 DEF NowDelivered
  <2>2. \A d \in 1 .. g : th_deductions'[d] = th_deductions[d]
    BY <1>2
  <2>3. AllTrueBy(g, h)'
    BY <2>1, <2>2, AllTrueStay
  <2>4. ASSUME NEW d \in 1 .. g + 1 PROVE TrueBy({th_deductions[d]}, h)'
    <3>1. CASE d \in 1 .. g
      BY <2>3, <3>1 DEF AllTrueBy
    <3>2. CASE d = g + 1
      BY <1>2, <1>7, <1>13, <3>2 DEF TrueBy
    <3> QED BY <3>1, <3>2
  <2>5. deductions_next' = g + 1 /\ g + 1 <= Len(th_deductions')
    BY <1>2, <1>5, <1>7
  <2> QED BY <1>9, <2>4, <2>5 DEF NowDelivered, AllTrueBy
<1>15. OnceInv'
  <2>1. ASSUME NEW d \in 1 .. Len(th_deductions), NEW i \in 1 .. Len(trail') PROVE trail'[i] # -th_deductions[d]
    <3>1. CASE i \in 1 .. n
      <4>1. trail'[i] = trail[i]
        BY <1>10, <3>1 DEF Keeps
      <4> QED BY <1>4, <1>10, <3>1, <4>1
    <3>2. CASE i \notin 1 .. n
      <4>1. Len(trail') = n + 1 /\ trail'[n + 1] = l /\ i = n + 1
        BY <1>10, <1>11, <1>12, <3>2
      <4>2. th_deductions[d] \in Lit
        BY <1>6
      <4>3. CASE d = g + 1
        BY <1>7, <4>1, <4>3, LitFacts
      <4>4. CASE d # g + 1
        <5>1. var(l) # var(th_deductions[d])
          BY <1>4, <1>7, <4>4 DEF Distinct
        <5> QED BY <4>1, <4>2, <5>1, LitFacts
      <4> QED BY <4>3, <4>4
    <3> QED BY <3>1, <3>2
  <2> QED BY <1>2, <1>4, <2>1 DEF OnceInv, Distinct
<1>16. ToldInv' /\ \A k \in 1 .. decisionLevel' : LevelDelivered(k)'
  BY <1>2, <1>3, <1>10, IndexMoves
<1>17. AllToldInv'
  BY <1>2 DEF AllToldInv
<1> QED
  BY <1>14, <1>15, <1>16, <1>17 DEF DeliveryInv, DeliveredInv

\* In a complete check without conflicts every deduction is on the trail: its atom is
\* assigned, and the negation would be a conflict.
LEMMA CompleteDelivers ==
  ASSUME SearchInv, DecisionInv, CompleteInv, pc = "checkTheory", after = "complete",
         Len(stack) = Len(trail), Conflicts = {}
  PROVE  AllTrueBy(Len(th_deductions), decisionLevel)
<1> SUFFICES ASSUME NEW d \in 1 .. Len(th_deductions) PROVE TrueBy({th_deductions[d]}, decisionLevel)
  BY DEF AllTrueBy
<1>1. ~Outside /\ splits = <<>> /\ Undecided = {}
  BY DEF Outside, SearchInv, PhaseInv, CompleteInv
<1>2. PICK l : l = th_deductions[d]
  OBVIOUS
<1>3. /\ l \in Lit /\ Explained(stack, l, Len(stack)) /\ var(l) \in declared
      /\ var(l) \in Mentioned \/ \E k \in 1 .. Len(splits) : var(l) \in Vars(splits[k])
  <2>1. th_deductions \in Seq(Lit)
    BY DEF SearchInv, TheoryInv, TheoryHolds, PointsFit
  <2>2. l \in Lit
    BY <1>2, <2>1
  <2>3. Explained(stack, l, Len(stack))
    BY <1>2 DEF SearchInv, TheoryInv, TheoryHolds, PointsFit
  <2>4. var(l) \in declared
    BY <1>1, <1>2 DEF SearchInv, KnownInv
  <2> QED BY <1>1, <2>2, <2>3, <2>4 DEF SearchInv, KnownInv
<1>4. var(l) \in Mentioned
  BY <1>1, <1>3
<1>5. PICK i \in 1 .. Len(trail) : var(trail[i]) = var(l)
  <2>1. CASE \E c \in clauses : var(l) \in Vars(c)
    <3>1. PICK v : v = var(l)
      OBVIOUS
    <3>2. v \in decision /\ v \in Var
      BY <1>1, <1>3, <2>1, <3>1, LitFacts DEF DecisionInv, Base
    <3>3. ~Unassigned(v)
      BY <1>1, <3>2 DEF Undecided
    <3>4. True(v) \/ False(v)
      BY <3>3 DEF Unassigned
    <3>5. trail \in Seq(Lit) /\ v \in Lit
      BY <3>2, TrailLevels DEF Lit
    <3>6. PICK i \in 1 .. Len(trail) : trail[i] = v \/ trail[i] = -v
      BY <3>4, <3>5, ValueFacts DEF FalseBefore
    <3>7. var(v) = v /\ var(-v) = v
      BY <3>2, VarAssumption DEF var
    <3> QED BY <3>1, <3>6, <3>7
  <2> QED BY <1>4, <2>1 DEF Mentioned
<1>6. trail[i] \in Lit /\ level[var(trail[i])] \in 0 .. decisionLevel /\ decisionLevel \in Nat
  BY TrailLevels
<1>7. trail[i] = l \/ trail[i] = -l
  BY <1>3, <1>5, <1>6, SameVar
<1>8. trail[i] # -l
  <2> SUFFICES ASSUME trail[i] = -l PROVE FALSE
    OBVIOUS
  <2>1. PICK t \in TheoryConflict :
          -l \in t /\ \A k \in t \ {-l} : \E j \in 1 .. Len(stack) : j <= Len(stack) /\ stack[j] = k
    BY <1>3 DEF Explained
  <2>2. ASSUME NEW k \in t PROVE k \in Told(Len(stack))
    <3>1. PICK j \in 1 .. Len(stack) : stack[j] = k
      <4>1. CASE k = -l
        <5>1. i \in 1 .. Len(stack) /\ stack[i] = trail[i]
          BY DEF SearchInv, TheoryInv, StackFits
        <5> QED BY <4>1, <5>1
      <4>2. CASE k # -l
        BY <2>1, <4>2
      <4> QED BY <4>1, <4>2
    <3>2. var(k) \in TheoryVar
      BY <2>1, ConflictFacts
    <3>3. var(stack[j]) \in declared
      BY <3>1, <3>2, KnownStack DEF StackKnown
    <3>4. Len(stack) \in Nat /\ j <= Len(stack)
      BY TrailLevels
    <3> QED BY <3>1, <3>3, <3>4 DEF Told
  <2>3. t \in Conflicts
    BY <2>2 DEF Conflicts
  <2> QED BY <2>3
<1>9. level[var(trail[i])] <= decisionLevel
  BY <1>6
<1> QED
  BY <1>2, <1>7, <1>8, <1>9 DEF TrueBy

\* handleNewSplitClauses drops the deductions, which are all true.
LEMMA TheorySplitDelivers ==
  ASSUME SearchInv, SearchInv', DeliveryInv, DecisionInv, CompleteInv, NEW S \in SplitSets, TheorySplit(S)
  PROVE  DeliveryInv'
<1>1. /\ pc = "checkTheory" /\ after = "complete" /\ Len(stack) = Len(trail) /\ Conflicts = {}
      /\ deductions_next' = Len(th_deductions) /\ pc' = "split" /\ after' = after
      /\ UNCHANGED <<stack, points, th_deductions, trail, level, trail_lim>>
  BY DEF TheorySplit, trailVars
<1>2. Underway
  BY <1>1 DEF Outside, Underway, SearchInv, PhaseInv
<1>3. PICK n : n = Len(trail)
  OBVIOUS
<1>4. \A b : Keeps(n, b)
  BY <1>1, <1>3, NothingMoves
<1>5. ToldInv' /\ Distinct(th_deductions)' /\ \A k \in 1 .. decisionLevel' : LevelDelivered(k)'
  BY <1>1, <1>2, <1>4, IndexMoves
<1>6. PICK g \in Nat : g = Len(th_deductions)
  BY DEF SearchInv, TheoryInv, TheoryHolds, PointsFit
<1>7. AllTrueBy(g, decisionLevel)
  BY <1>1, <1>6, CompleteDelivers
<1>8. NowDelivered'
  <2>1. AllTrueBy(g, decisionLevel)'
    BY <1>1, <1>7 DEF AllTrueBy, TrueBy, decisionLevel
  <2>2. g <= g
    OBVIOUS
  <2> QED BY <1>1, <1>6, <2>1, <2>2 DEF NowDelivered, AllTrueBy
<1>9. OnceInv' /\ AllToldInv'
  BY <1>1, <1>5 DEF OnceInv, AllToldInv, Distinct
<1> QED
  BY <1>5, <1>8, <1>9 DEF DeliveryInv, DeliveredInv

-----------------------------------------------------------------------------
\* The steps that leave the theory alone and begin or end no level.
Forth ==
  \/ PropagateNext \/ PropagateDone \/ SearchLoop \/ AnalyzeBegin \/ EarlyPruning \/ TheorySat
  \/ DeduceDone \/ SplitDone \/ CompleteCall \/ UNCHANGED vars
  \/ (\E c \in visit : PropagateVisit(c)) \/ Simplify \/ ReduceDB \/ SplitAttach \/ SplitEnqueue

\* What such steps leave alone.
LEMMA ForthLeaves ==
  ASSUME SearchInv, Forth
  PROVE  /\ UNCHANGED <<stack, points, th_deductions, deductions_next, trail_lim>>
         /\ pc' \in {"analyze", "learn"} \/ pc \notin {"analyze", "learn"}
         /\ Outside => Outside'
         /\ pc' = "final" <=> pc = "final"
<1> USE DEF clauseVars, trailVars, theoryVars, resultVars, splitVars, analyzeVars, callVars
<1>0. after = "add" => pc \in {"idle", "propagate", "conflict"}
  BY DEF SearchInv, PhaseInv
<1>1. CASE PropagateNext \/ PropagateDone
  <2>1. CASE PropagateNext
    BY <2>1 DEF PropagateNext, Outside
  <2>2. CASE PropagateDone
    BY <2>2 DEF PropagateDone, Outside
  <2> QED BY <1>1, <2>1, <2>2
<1>7. CASE SearchLoop \/ AnalyzeBegin \/ EarlyPruning \/ TheorySat
  <2>1. CASE SearchLoop
    BY <1>0, <2>1 DEF SearchLoop, Outside
  <2>2. CASE AnalyzeBegin
    BY <2>2 DEF AnalyzeBegin, Outside
  <2>3. CASE EarlyPruning
    BY <1>0, <2>3 DEF EarlyPruning, Outside
  <2>4. CASE TheorySat
    BY <2>4 DEF TheorySat, Outside
  <2> QED BY <1>7, <2>1, <2>2, <2>3, <2>4
<1>2. CASE DeduceDone \/ SplitDone \/ CompleteCall
  <2>1. CASE DeduceDone
    BY <2>1 DEF DeduceDone, Outside
  <2>2. CASE SplitDone
    BY <2>2 DEF SplitDone, Outside
  <2>3. CASE CompleteCall
    BY <1>0, <2>3 DEF CompleteCall, Outside
  <2> QED BY <1>2, <2>1, <2>2, <2>3
<1>3. CASE UNCHANGED vars
  BY <1>3 DEF vars, Outside
<1>4. CASE Simplify \/ ReduceDB
  BY <1>4 DEF Simplify, ReduceDB, Outside
<1>5. CASE SplitAttach \/ SplitEnqueue
  BY <1>5 DEF SplitAttach, SplitEnqueue, Outside
<1>6. CASE \E c \in visit : PropagateVisit(c)
  <2>1. PICK c \in visit : PropagateVisit(c)
    BY <1>6
  <2>2. UNCHANGED <<stack, points, th_deductions, deductions_next, trail_lim, after>> /\ pc = "propagate"
    BY <2>1 DEF PropagateVisit
  <2>3. pc' \in {"propagate", "conflict"}
    BY <2>1, <2>2 DEF PropagateVisit, VisitBlocked, VisitSatisfied, VisitNewWatch, VisitUnit, VisitConflict
  <2> QED BY <2>2, <2>3 DEF Outside
<1> QED
  BY <1>1, <1>2, <1>3, <1>4, <1>5, <1>6, <1>7 DEF Forth

\* They keep the trail, or enqueue a literal.
LEMMA ForthKeeps ==
  ASSUME SearchInv, SearchInv', Forth
  PROVE  \E n : \A b : Keeps(n, b)
<1>1. CASE UNCHANGED <<trail, level>>
  BY <1>1, NothingMoves
<1>2. CASE \E c \in visit : PropagateVisit(c)
  <2>1. PICK c \in visit : PropagateVisit(c)
    BY <1>2
  <2>2. UNCHANGED <<trail, level>> \/ \E n : EnqueuesAt(n, First(c), c, decisionLevel)
    BY <2>1, VisitStep
  <2>3. CASE \E n : EnqueuesAt(n, First(c), c, decisionLevel)
    BY <2>3 DEF EnqueuesAt
  <2> QED BY <1>1, <2>2, <2>3
<1>3. CASE SplitEnqueue
  <2>1. UNCHANGED <<trail, level>> \/ \E l, n : EnqueuesAt(n, l, propData[1][2], decisionLevel)
    BY <1>3, SplitEnqueueFacts
  <2>2. CASE \E l, n : EnqueuesAt(n, l, propData[1][2], decisionLevel)
    BY <2>2 DEF EnqueuesAt
  <2> QED BY <1>1, <2>1, <2>2
<1>4. CASE Simplify \/ ReduceDB
  <2>1. UNCHANGED <<trail, level>>
    BY <1>4, UpkeepFacts
  <2> QED BY <1>1, <2>1
<1>5. CASE ~(SplitEnqueue \/ Simplify \/ ReduceDB \/ (\E c \in visit : PropagateVisit(c)))
  <2>1. UNCHANGED <<trail, level>>
    BY <1>5 DEF Forth, PropagateNext, PropagateDone, SearchLoop, AnalyzeBegin, EarlyPruning, TheorySat,
                DeduceDone, SplitDone, CompleteCall, SplitAttach, vars, trailVars
  <2> QED BY <1>1, <2>1
<1> QED
  BY <1>2, <1>3, <1>4, <1>5

\* A check without conflict: no deduction is false.
LEMMA SatDelivers ==
  ASSUME SearchInv, TheorySat
  PROVE  \A d \in 1 .. Len(th_deductions), i \in 1 .. Len(trail) : trail[i] # -th_deductions[d]
<1> SUFFICES ASSUME NEW d \in 1 .. Len(th_deductions), NEW i \in 1 .. Len(trail), trail[i] = -th_deductions[d]
             PROVE  FALSE
  OBVIOUS
<1>1. /\ pc = "checkTheory" /\ Len(stack) = Len(trail)
      /\ \A l \in Range(th_deductions) : -l \notin Told(Len(stack))
  BY DEF TheorySat
<1>2. ~Outside
  BY <1>1 DEF Outside, SearchInv, PhaseInv
<1>3. th_deductions \in Seq(Lit) /\ var(th_deductions[d]) \in declared
  BY <1>2 DEF SearchInv, KnownInv, TheoryInv, TheoryHolds, PointsFit
<1>4. th_deductions[d] \in Lit /\ th_deductions[d] \in Range(th_deductions)
  BY <1>3 DEF Range
<1>5. i \in 1 .. Len(stack) /\ stack[i] = trail[i] /\ i <= Len(stack)
  BY <1>1, TrailLevels DEF SearchInv, TheoryInv, StackFits
<1>6. var(stack[i]) \in declared
  BY <1>3, <1>4, <1>5, LitFacts
<1>7. stack[i] \in Told(Len(stack))
  BY <1>5, <1>6 DEF Told
<1> QED
  BY <1>1, <1>4, <1>5, <1>7

\* The steps that leave the theory alone.
LEMMA ForthSteps ==
  ASSUME SearchInv, SearchInv', DeliveryInv, Forth
  PROVE  DeliveryInv'
<1> SUFFICES ASSUME Underway' PROVE ToldInv' /\ OnceInv' /\ AllToldInv' /\ DeliveredInv'
  BY DEF DeliveryInv
<1>1. /\ UNCHANGED <<stack, points, th_deductions, deductions_next, trail_lim>>
      /\ pc' \in {"analyze", "learn"} \/ pc \notin {"analyze", "learn"}
      /\ Outside => Outside'
      /\ pc' = "final" <=> pc = "final"
  BY ForthLeaves
<1>2. Underway
  BY <1>1 DEF Underway
<1>3. PICK n : \A b : Keeps(n, b)
  BY ForthKeeps
<1>4. ToldInv' /\ Distinct(th_deductions)' /\ DeliveredInv'
  BY <1>1, <1>2, <1>3, ForthDelivers
<1>5. OnceInv /\ AllToldInv
  BY <1>2 DEF DeliveryInv
<1>6. ASSUME pc' = "deduce" PROVE OnceInv'
  <2>1. TheorySat \/ UNCHANGED vars
    BY <1>6 DEF Forth, PropagateNext, PropagateDone, SearchLoop, AnalyzeBegin, EarlyPruning, DeduceDone, SplitDone,
                CompleteCall, PropagateVisit, VisitBlocked, VisitSatisfied, VisitNewWatch, VisitUnit, VisitConflict,
                Simplify, ReduceDB, SplitAttach, SplitEnqueue
  <2>2. CASE TheorySat
    <3>1. \A d \in 1 .. Len(th_deductions), i \in 1 .. Len(trail) : trail[i] # -th_deductions[d]
      BY <2>2, SatDelivers
    <3>2. UNCHANGED <<trail, th_deductions>>
      BY <1>1, <2>2 DEF TheorySat, trailVars
    <3> QED BY <1>4, <3>1, <3>2 DEF OnceInv, Distinct
  <2>3. CASE UNCHANGED vars
    BY <1>5, <2>3 DEF vars, trailVars, theoryVars, OnceInv, Distinct
  <2> QED BY <2>1, <2>2, <2>3
<1>7. OnceInv'
  BY <1>4, <1>6 DEF OnceInv, Distinct
<1>8. ASSUME pc' = "decide" \/ (pc' = "split" /\ after' # "propagate")
      PROVE  deductions_next' = Len(th_deductions') /\ Len(stack') = Len(trail')
  <2>1. DeduceDone \/ SplitDone \/ SplitAttach \/ SplitEnqueue \/ UNCHANGED vars
    BY <1>8 DEF Forth, PropagateNext, PropagateDone, SearchLoop, AnalyzeBegin, EarlyPruning, TheorySat,
                CompleteCall, PropagateVisit, VisitBlocked, VisitSatisfied, VisitNewWatch, VisitUnit, VisitConflict,
                Simplify, ReduceDB
  <2>2. CASE DeduceDone
    <3>1. trail' = trail /\ deductions_next = Len(th_deductions) /\ ~(Len(trail) > Len(stack))
      BY <1>8, <2>2 DEF DeduceDone, trailVars
    <3>2. Len(stack) = Len(trail)
      BY <3>1, TrailLevels
    <3> QED BY <1>1, <3>1, <3>2
  <2>3. CASE SplitDone \/ SplitAttach
    <3>1. trail' = trail /\ pc = "split" /\ after # "propagate"
      BY <1>8, <2>3 DEF SplitDone, SplitAttach, trailVars
    <3> QED BY <1>1, <1>5, <3>1 DEF AllToldInv
  <2>4. CASE SplitEnqueue
    <3>1. pc = "split" /\ after # "propagate" /\ propData # <<>>
      BY <1>8, <2>4 DEF SplitEnqueue
    <3> QED BY <3>1 DEF SearchInv, QueueInv
  <2>5. CASE UNCHANGED vars
    BY <1>5, <1>8, <2>5 DEF vars, trailVars, theoryVars, AllToldInv
  <2> QED BY <2>1, <2>2, <2>3, <2>4, <2>5
<1> QED
  BY <1>4, <1>7, <1>8 DEF AllToldInv

\* The steps after which no search is under way.
LEMMA Over ==
  ASSUME SearchInv,
         \/ AddConflict \/ RestoreOK \/ FinalBegin \/ FinalStep \/ (Ends /\ ~Restart)
         \/ (\E c \in InputClause : AddOriginalClause(c))
  PROVE  DeliveryInv'
<1>1. ~Underway'
  <2>1. CASE AddConflict \/ RestoreOK \/ FinalBegin \/ FinalStep
    BY <2>1 DEF AddConflict, RestoreOK, FinalBegin, FinalStep, Underway, Outside
  <2>2. CASE Ends /\ ~Restart
    BY <2>2 DEF Ends, SearchStopped, ZeroLevelConflict, TheoryUnsatZero, SearchSat, FinalDone, Return,
                Underway, Outside
  <2>3. CASE \E c \in InputClause : AddOriginalClause(c)
    <3>1. PICK c \in InputClause : AddOriginalClause(c)
      BY <2>3
    <3>2. pc = "idle" /\ (UNCHANGED <<pc, after>> \/ after' = "add")
      BY <3>1 DEF AddOriginalClause
    <3> QED BY <3>2 DEF Underway, Outside
  <2> QED BY <2>1, <2>2, <2>3
<1> QED
  BY <1>1 DEF DeliveryInv

\* A call of solve begins: the theory has deduced nothing.
LEMMA SolveDelivers ==
  ASSUME SearchInv, SearchInv', NEW as \in Assumption, Solve(as)
  PROVE  DeliveryInv'
<1> SUFFICES ASSUME Underway' PROVE ToldInv' /\ OnceInv' /\ AllToldInv' /\ DeliveredInv'
  BY DEF DeliveryInv
<1>1. pc = "idle" /\ trail_lim' = trail_lim /\ th_deductions' = <<>> /\ deductions_next' = 0 /\ pc' \in {"idle", "checkTheory"}
  BY DEF Solve, Declare, trailVars
<1>2. decisionLevel' = 0
  BY <1>1 DEF SearchInv, PhaseInv, Outside, decisionLevel
<1>3. pc' = "checkTheory"
  BY <1>1 DEF Underway, Outside
<1>4. Len(th_deductions') = 0 /\ 1 .. 0 = {}
  BY <1>1
<1>5. ToldInv' /\ AllToldInv'
  BY <1>2, <1>3 DEF ToldInv, AllToldInv
<1>6. OnceInv'
  BY <1>3, <1>4 DEF OnceInv, Distinct
<1>7. NowDelivered'
  BY <1>1, <1>4 DEF NowDelivered, AllTrueBy
<1> QED
  BY <1>2, <1>4, <1>5, <1>6, <1>7 DEF DeliveredInv

\* A decision, or the level of an assumption that holds.
LEMMA DecideDelivers ==
  ASSUME SearchInv, SearchInv', DeliveryInv, AssumeTrue \/ \E l \in Lit : Decide(l)
  PROVE  DeliveryInv'
<1>1. CASE AssumeTrue
  <2>1. /\ pc = "decide" /\ UNCHANGED <<pc, after, trail, level>> /\ trail_lim' = Append(trail_lim, Len(trail))
        /\ UNCHANGED <<stack, points, th_deductions, deductions_next>>
    BY <1>1 DEF AssumeTrue, theoryVars
  <2>2. Underway
    BY <2>1 DEF Outside, Underway, SearchInv, PhaseInv
  <2>3. PICK n : n = Len(trail)
    OBVIOUS
  <2>4. \A b : Keeps(n, b)
    BY <2>1, <2>3, NothingMoves
  <2>5. pc' \notin {"analyze", "learn"}
    BY <2>1
  <2>6. ToldInv' /\ Distinct(th_deductions)' /\ DeliveredInv'
    BY <2>1, <2>2, <2>4, <2>5, LevelDelivers
  <2>7. AllToldInv' /\ OnceInv'
    BY <2>1, <2>2, <2>6 DEF DeliveryInv, AllToldInv, OnceInv, Distinct
  <2> QED BY <2>6, <2>7 DEF DeliveryInv
<1>2. CASE \E l \in Lit : Decide(l)
  <2>1. PICK l \in Lit : Decide(l)
    BY <1>2
  <2>2. /\ pc = "decide" /\ pc' = "loop" /\ trail_lim' = Append(trail_lim, Len(trail))
        /\ \E n : EnqueuesAt(n, l, CRef_Undef, decisionLevel + 1)
    BY <2>1, DecideFacts
  <2>3. UNCHANGED <<stack, points, th_deductions, deductions_next>>
    BY <2>1 DEF Decide, theoryVars
  <2>4. Underway
    BY <2>2 DEF Outside, Underway, SearchInv, PhaseInv
  <2>5. PICK n : \A b : Keeps(n, b)
    BY <2>2 DEF EnqueuesAt
  <2>6. pc' \notin {"analyze", "learn"}
    BY <2>2
  <2>7. ToldInv' /\ Distinct(th_deductions)' /\ DeliveredInv'
    BY <2>2, <2>3, <2>4, <2>5, <2>6, LevelDelivers
  <2>8. AllToldInv' /\ OnceInv'
    BY <2>2, <2>7 DEF AllToldInv, OnceInv, Distinct
  <2> QED BY <2>7, <2>8 DEF DeliveryInv
<1> QED
  BY <1>1, <1>2

\* Steps that go back to a level.
LEMMA BackSteps ==
  ASSUME SearchInv, SearchInv', DeliveryInv,
         Restart \/ Learn \/ SplitUnit \/ \E t \in TheoryConflict : TheoryUnsat(t)
  PROVE  DeliveryInv'
<1>1. PICK h \in Nat : h = decisionLevel
  BY TrailLevels
<1>2. /\ Underway /\ pc' \notin {"deduce", "decide"} /\ (pc' = "split" => after' = "propagate")
  BY DEF Restart, Learn, SplitUnit, TheoryUnsat, Underway, Outside, SearchInv, PhaseInv
<1>3. PICK lev, n : /\ lev \in 0 .. decisionLevel /\ CancelUntil(lev) /\ Keeps(n, lev)
                    /\ lev = decisionLevel => pc \notin {"analyze", "learn"}
  <2>1. CASE Restart
    <3>1. PICK n : EndsAt(n)
      BY <2>1, EndsFacts DEF Ends
    <3>2. Keeps(n, 0) /\ CancelUntil(0) /\ pc = "consistent"
      BY <2>1, <3>1 DEF EndsAt, Restart
    <3>3. PICK z : z = 0
      OBVIOUS
    <3>4. z \in 0 .. decisionLevel /\ CancelUntil(z) /\ Keeps(n, z) /\ pc \notin {"analyze", "learn"}
      BY <1>1, <3>2, <3>3
    <3> QED BY <3>4
  <2>2. CASE Learn
    <3>1. PICK n, bt, c : LearnsAt(n, bt, c)
      BY <2>2, LearnFacts
    <3>2. Keeps(n, bt) /\ bt \in 0 .. h - 1
      BY <1>1, <3>1 DEF LearnsAt
    <3>3. decisionLevel' = bt
      BY <3>1 DEF LearnsAt
    <3>4. CancelUntil(BackjumpLevel)
      BY <2>2 DEF Learn
    <3>5. PICK r : r = BackjumpLevel
      OBVIOUS
    <3>6. r \in 0 .. h /\ r < h
      BY <1>1, <2>2, <3>5, LearntFacts DEF BackjumpLevel, Learn
    <3>7. trail_lim' = SubSeq(trail_lim, 1, r)
      BY <1>1, <3>4, <3>5, <3>6 DEF CancelUntil
    <3>8. trail_lim \in Seq(Nat) /\ r \in 0 .. Len(trail_lim)
      BY <1>1, <3>6, TrailLevels DEF decisionLevel
    <3>9. Len(trail_lim') = r
      BY <3>7, <3>8, Prefix
    <3>10. r = bt
      BY <3>3, <3>9 DEF decisionLevel
    <3>11. bt \in 0 .. decisionLevel /\ bt # decisionLevel
      BY <1>1, <3>2
    <3> QED BY <3>2, <3>4, <3>5, <3>10, <3>11
  <2>3. CASE SplitUnit
    <3>1. PICK n, bt, c, l : SplitsAt(n, bt, c, l)
      BY <2>3, SplitUnitFacts
    <3>2. Keeps(n, bt) /\ bt \in 0 .. decisionLevel /\ c = Head(splits) /\ bt = FalseLevel(c) /\ pc = "split"
      BY <3>1 DEF SplitsAt
    <3>3. CancelUntil(bt)
      BY <2>3, <3>2 DEF SplitUnit, SplitLevel
    <3> QED BY <3>2, <3>3
  <2>4. CASE \E t \in TheoryConflict : TheoryUnsat(t)
    <3>1. PICK t \in TheoryConflict : TheoryUnsat(t)
      BY <2>4
    <3>2. PICK b : b = ConflictLevel(t)
      OBVIOUS
    <3>3. pc = "checkTheory" /\ CancelUntil(b) /\ t \in Conflicts /\ trail' = SubSeq(trail, 1, EndOf(b)) /\ level' = level
      BY <3>1, <3>2 DEF TheoryUnsat
    <3>4. \A l \in t : level[var(l)] \in 0 .. h
      BY <1>1, <3>3, ConflictOnTrail
    <3>5. b \in 0 .. h
      BY <3>2, <3>4, MaxLevelFacts DEF ConflictLevel
    <3>6. PICK n : n = EndOf(b)
      OBVIOUS
    <3>7. /\ n \in 0 .. Len(trail)
          /\ \A i \in 1 .. Len(trail) : level[var(trail[i])] <= b => i <= n
          /\ Len(SubSeq(trail, 1, n)) = n
          /\ \A i \in 1 .. n : SubSeq(trail, 1, n)[i] = trail[i]
      BY <1>1, <3>5, <3>6, EndFacts
    <3>8. Keeps(n, b)
      BY <3>3, <3>6, <3>7 DEF Keeps
    <3> QED BY <1>1, <3>3, <3>5, <3>8
  <2> QED BY <2>1, <2>2, <2>3, <2>4
<1>4. ToldInv' /\ Distinct(th_deductions)' /\ DeliveredInv'
  BY <1>2, <1>3, BackDelivers
<1>5. OnceInv' /\ AllToldInv'
  BY <1>2, <1>4 DEF OnceInv, AllToldInv, Distinct
<1> QED
  BY <1>4, <1>5 DEF DeliveryInv

\* Every step keeps the invariant.
LEMMA DeliveryKeeps ==
  ASSUME SearchInv, SearchInv', ExactInv, DeliveryInv, [Next]_vars
  PROVE  DeliveryInv'
<1>1. DecisionInv /\ CompleteInv
  BY DEF ExactInv
<1>2. CASE Quiet
  BY <1>1, <1>2, Over, SolveDelivers, DecideDelivers, TheoryAssertDelivers, TheorySplitDelivers, ForthSteps
     DEF Quiet, Forth
<1>3. CASE Ends
  BY <1>3, Over, BackSteps
<1>4. CASE \/ (\E c \in visit : PropagateVisit(c)) \/ Simplify \/ ReduceDB \/ SplitAttach \/ SplitEnqueue
  BY <1>4, ForthSteps DEF Forth
<1>5. CASE AnalyzeStep \/ Learn \/ SplitUnit \/ (\E t \in TheoryConflict : TheoryUnsat(t)) \/ DeduceNext
  BY <1>5, AnalyzeStepDelivers, BackSteps, DeduceNextDelivers
<1>6. CASE (\E l \in Lit : Decide(l)) \/ (\E c \in InputClause : AddOriginalClause(c))
  BY <1>6, DecideDelivers, Over
<1> QED
  BY <1>2, <1>3, <1>4, <1>5, <1>6, StepCases

\* The state before the first call.
LEMMA DeliveryInit == Init => DeliveryInv
BY DEF Init, DeliveryInv, Underway, Outside

-----------------------------------------------------------------------------
\* What is left in the parts of the state that no one reads any more is of their type.
StaleInv ==
  /\ \A v \in Var : reason[v] \subseteq Lit \/ reason[v] = CRef_Fake
  /\ confl \subseteq Lit /\ seen \subseteq Lit /\ conflict \subseteq Lit /\ model \subseteq Lit
  /\ p \in Lit \cup {0} /\ ok \in BOOLEAN /\ answer \in {"none", "sat", "unsat", "undef"}

\* What a step may leave there.
Leaves ==
  /\ seen' = seen \/ seen' = {} \/ pc' \in {"analyze", "learn", "final"}
  /\ conflict' = conflict \/ conflict' = {} \/ pc' = "final"
  /\ model' = model \/ model' = {} \/ model' = Range(trail)
  /\ confl' = confl \/ confl' = {} \/ pc' \in {"conflict", "analyze"} \/ AnalyzeStep
  /\ p' = p \/ p' = 0 \/ AnalyzeStep
  /\ ok' = ok \/ ok' \in BOOLEAN
  /\ answer' = answer \/ answer' \in {"none", "sat", "unsat", "undef"}

\* Every step is like that.
LEMMA StepLeaves ==
  ASSUME [Next]_vars
  PROVE  Leaves
<1> USE DEF resultVars, analyzeVars, Leaves
<1>1. CASE PropagateNext \/ PropagateDone \/ SearchLoop \/ AddConflict \/ AnalyzeBegin \/ EarlyPruning
  BY <1>1 DEF PropagateNext, PropagateDone, SearchLoop, AddConflict, AnalyzeBegin, EarlyPruning
<1>2. CASE TheoryAssert \/ TheorySat \/ DeduceDone \/ SplitDone
  BY <1>2 DEF TheoryAssert, TheorySat, DeduceDone, SplitDone
<1>3. CASE AssumeTrue \/ CompleteCall \/ RestoreOK
  BY <1>3 DEF AssumeTrue, CompleteCall, RestoreOK
<1>3a. CASE FinalBegin
  BY <1>3a DEF FinalBegin
<1>3b. CASE FinalStep
  BY <1>3b DEF FinalStep
<1>4. CASE \E S \in SplitSets : TheorySplit(S)
  BY <1>4 DEF TheorySplit
<1>5. CASE \E as \in Assumption : Solve(as)
  BY <1>5 DEF Solve
<1>6. CASE UNCHANGED vars
  BY <1>6 DEF vars
<1>7. CASE Quiet
  BY <1>1, <1>2, <1>3, <1>3a, <1>3b, <1>4, <1>5, <1>6, <1>7 DEF Quiet
<1>8. CASE Ends
  BY <1>8 DEF Ends, Restart, SearchStopped, ZeroLevelConflict, TheoryUnsatZero, SearchSat, FinalDone, Return
<1>9. CASE \E c \in visit : PropagateVisit(c)
  BY <1>9 DEF PropagateVisit, VisitConflict
<1>10. CASE AnalyzeStep
  BY <1>10 DEF AnalyzeStep
<1>11. CASE Learn
  BY <1>11 DEF Learn, CRef_Undef
<1>12. CASE Simplify \/ ReduceDB
  BY <1>12 DEF Simplify, ReduceDB
<1>13. CASE \E t \in TheoryConflict : TheoryUnsat(t)
  BY <1>13 DEF TheoryUnsat
<1>14. CASE DeduceNext \/ SplitUnit
  BY <1>14 DEF DeduceNext, SplitUnit
<1>15. CASE SplitAttach \/ SplitEnqueue
  BY <1>15 DEF SplitAttach, SplitEnqueue
<1>16. CASE \E l \in Lit : Decide(l)
  BY <1>16 DEF Decide
<1>17. CASE \E c \in InputClause : AddOriginalClause(c)
  BY <1>17 DEF AddOriginalClause
<1> QED
  BY <1>7, <1>8, <1>9, <1>10, <1>11, <1>12, <1>13, <1>14, <1>15, <1>16, <1>17, StepCases

\* A literal is enqueued with a clause, or none, or the mark of the theory as its reason.
LEMMA EnqueuedReason ==
  ASSUME SearchInv, NEW t, NEW l, NEW from, NEW lev, EnqueueOn(t, l, from, lev)
  PROVE  \A v \in Var : reason'[v] = reason[v] \/ reason'[v] = from
<1>1. DOMAIN reason = Var
  BY DEF SearchInv, TrailInv, TrailHolds, Justified
<1> QED
  BY <1>1 DEF EnqueueOn

\* Reasons stay clauses: those a step stores are of the solver or from the theory.
LEMMA ReasonsAreClauses ==
  ASSUME SearchInv, [Next]_vars
  PROVE  \A v \in Var : reason'[v] = reason[v] \/ reason'[v] = CRef_Fake \/ reason'[v] \subseteq Lit
<1>0. DOMAIN reason = Var /\ CRef_Undef \subseteq Lit
  BY DEF SearchInv, TrailInv, TrailHolds, Justified, CRef_Undef
<1>1. CASE UNCHANGED reason
  BY <1>1
<1>2. CASE Quiet
  BY <1>2, QuietFacts
<1>3. CASE Ends
  <2>1. UNCHANGED reason
    BY <1>3 DEF Ends, Restart, SearchStopped, ZeroLevelConflict, TheoryUnsatZero, SearchSat, FinalDone, Return
  <2> QED BY <2>1
<1>4. CASE \E c \in visit : PropagateVisit(c)
  <2>1. PICK c \in visit : PropagateVisit(c)
    BY <1>4
  <2>2. UNCHANGED reason \/ EnqueueOn(trail, First(c), c, decisionLevel)
    BY <2>1 DEF PropagateVisit, VisitBlocked, VisitSatisfied, VisitNewWatch, VisitUnit, VisitConflict
  <2>3. c \subseteq Lit
    BY <2>1, WatchedFacts DEF SearchInv, QueueInv
  <2> QED BY <2>2, <2>3, EnqueuedReason
<1>5. CASE AnalyzeStep
  <2>1. UNCHANGED reason \/ \E v : \E t \in TheoryConflict : reason' = [reason EXCEPT ![v] = Negated(t)]
    BY <1>5 DEF AnalyzeStep, ReasonsFor
  <2>2. ASSUME NEW t \in TheoryConflict PROVE Negated(t) \subseteq Lit
    BY ConflictFacts, NegatedIn
  <2> QED BY <1>0, <2>1, <2>2
<1>6. CASE Learn
  <2>1. PICK c : c = Minimized \cup {-p}
    OBVIOUS
  <2>2. \/ EnqueueOn(SubSeq(trail, 1, EndOf(BackjumpLevel)), -p, CRef_Undef, BackjumpLevel)
        \/ EnqueueOn(SubSeq(trail, 1, EndOf(BackjumpLevel)), -p, c, BackjumpLevel)
    BY <1>6, <2>1 DEF Learn
  <2>3. seen \subseteq Lit /\ p \in Lit
    BY <1>6 DEF Learn, SearchInv, AnalyzeInv
  <2>4. c \subseteq Lit
    BY <2>1, <2>3, LitFacts DEF Minimized
  <2> QED BY <1>0, <2>2, <2>4, EnqueuedReason
<1>7. CASE Simplify \/ ReduceDB
  BY <1>0, <1>7 DEF Simplify, ReduceDB, trailVars
<1>8. CASE \E t \in TheoryConflict : TheoryUnsat(t)
  BY <1>8 DEF TheoryUnsat
<1>9. CASE DeduceNext
  <2>1. UNCHANGED reason \/ \E l : EnqueueOn(trail, l, CRef_Fake, decisionLevel)
    BY <1>9 DEF DeduceNext
  <2> QED BY <2>1, EnqueuedReason
<1>10. CASE SplitUnit
  <2>1. UNCHANGED reason \/ \E t, l : EnqueueOn(t, l, CRef_Undef, 0)
    BY <1>10 DEF SplitUnit
  <2> QED BY <1>0, <2>1, EnqueuedReason
<1>11. CASE SplitAttach \/ SplitEnqueue
  <2>1. \/ UNCHANGED reason
        \/ /\ EnqueueOn(trail, Head(propData)[1], Head(propData)[2], decisionLevel)
           /\ propData # <<>>
    BY <1>11 DEF SplitAttach, SplitEnqueue, trailVars
  <2>2. propData # <<>> => Head(propData)[2] \subseteq Lit
    <3>1. propData \in Seq(Lit \X SUBSET Lit)
      BY DEF SearchInv, SplitInv
    <3>2. propData # <<>> => Head(propData) \in Lit \X SUBSET Lit
      BY <3>1
    <3> QED BY <3>2
  <2> QED BY <2>1, <2>2, EnqueuedReason
<1>12. CASE \E l \in Lit : Decide(l)
  <2>1. \E l, lev : EnqueueOn(trail, l, CRef_Undef, lev)
    BY <1>12 DEF Decide
  <2> QED BY <1>0, <2>1, EnqueuedReason
<1>13. CASE \E c \in InputClause : AddOriginalClause(c)
  <2>1. UNCHANGED reason \/ \E l : EnqueueOn(trail, l, CRef_Undef, 0)
    BY <1>13 DEF AddOriginalClause, trailVars
  <2> QED BY <1>0, <2>1, EnqueuedReason
<1> QED
  BY <1>2, <1>3, <1>4, <1>5, <1>6, <1>7, <1>8, <1>9, <1>10, <1>11, <1>12, <1>13, StepCases

\* No step leaves anything else there.
LEMMA StaleKeeps ==
  ASSUME SearchInv, SearchInv', StaleInv, [Next]_vars
  PROVE  StaleInv'
<1>1. Leaves
  BY StepLeaves
<1>2. /\ \A v \in Var : reason[v] \subseteq Lit \/ reason[v] = CRef_Fake
      /\ confl \subseteq Lit /\ seen \subseteq Lit /\ conflict \subseteq Lit /\ model \subseteq Lit
      /\ p \in Lit \cup {0} /\ ok \in BOOLEAN /\ answer \in {"none", "sat", "unsat", "undef"}
  BY DEF StaleInv
<1>3. \A v \in Var : reason'[v] \subseteq Lit \/ reason'[v] = CRef_Fake
  BY <1>2, ReasonsAreClauses
<1>4. seen' \subseteq Lit /\ conflict' \subseteq Lit
  BY <1>1, <1>2 DEF Leaves, SearchInv, AnalyzeInv, FinalInv
<1>5. model' \subseteq Lit
  <2>1. Range(trail) \subseteq Lit
    BY TrailLevels DEF Range
  <2> QED BY <1>1, <1>2, <2>1 DEF Leaves
<1>6. confl' \subseteq Lit /\ p' \in Lit \cup {0}
  <2>1. CASE AnalyzeStep
    <3>1. PICK n, i, q, marked : AnalyzesAt(n, i, q, marked)
      BY <2>1, AnalyzeFacts
    <3>2. /\ q \in Lit /\ p' = q
          /\ \/ reason[var(q)] # CRef_Fake /\ confl' = reason[var(q)]
             \/ \E t \in TheoryConflict : confl' = Negated(t)
      BY <3>1 DEF AnalyzesAt
    <3>3. ASSUME NEW t \in TheoryConflict PROVE Negated(t) \subseteq Lit
      BY ConflictFacts, NegatedIn
    <3> QED BY <1>2, <3>2, <3>3, LitFacts
  <2>2. CASE ~AnalyzeStep
    BY <1>1, <1>2, <2>2 DEF Leaves, SearchInv, AnalyzeInv
  <2> QED BY <2>1, <2>2
<1>7. ok' \in BOOLEAN
  BY <1>1, <1>2 DEF Leaves
<1>8. answer' \in {"none", "sat", "unsat", "undef"}
  BY <1>1, <1>2 DEF Leaves
<1> QED
  BY <1>3, <1>4, <1>5, <1>6, <1>7, <1>8 DEF StaleInv

\* In the beginning nothing is left there.
LEMMA StaleInit == Init => StaleInv
BY DEF Init, StaleInv, CRef_Undef

-----------------------------------------------------------------------------
\* The state of the search is well typed.
LEMMA InvariantIsTyped ==
  ASSUME SearchInv, StaleInv
  PROVE  TypeOK
<1>1. /\ given \subseteq Clause /\ clauses \subseteq Clause /\ learnts \subseteq Clause
      /\ DOMAIN watched = clauses \cup learnts
  BY DEF SearchInv, ClauseInv, Clause
<1>2. ASSUME NEW c \in DOMAIN watched PROVE Len(watched[c]) = 2 /\ Range(watched[c]) \subseteq c
  <2>1. watched[c] \in Seq(c) /\ Len(watched[c]) = 2
    BY <1>1 DEF SearchInv, ClauseInv
  <2> QED BY <2>1 DEF Range
<1>3. Range(trail) \subseteq Lit /\ Range(stack) \subseteq Lit
  BY TrailLevels DEF Range
<1>4. Range(th_deductions) \subseteq Lit
  <2>1. th_deductions \in Seq(Lit)
    BY DEF SearchInv, TheoryInv, TheoryHolds, PointsFit
  <2> QED BY <2>1 DEF Range
<1>5. qhead \in 0 .. Len(trail) /\ visit \subseteq DOMAIN watched
  BY DEF SearchInv, QueueInv
<1>6. \A k \in 1 .. decisionLevel : trail_lim[k] \in 0 .. Len(trail)
  BY TrailLevels
<1>7. level \in [Var -> Nat]
  BY DEF SearchInv, TrailInv, TrailHolds, TrailFits, Levels
<1>8. declared \subseteq TheoryVar /\ decision \subseteq Var
  BY DEF SearchInv, KnownInv, AnswerInv
<1>9. /\ \A v \in Var : reason[v] \in Clause \cup {CRef_Fake}
      /\ confl \in Clause /\ seen \in Clause /\ model \in Clause /\ conflict \in Clause
      /\ p \in Lit \cup {0} /\ ok \in BOOLEAN /\ answer \in {"none", "sat", "unsat", "undef"}
  BY DEF StaleInv, Clause
<1> QED
  BY <1>1, <1>2, <1>3, <1>4, <1>5, <1>6, <1>7, <1>8, <1>9 DEF TypeOK

\* When the search is about to decide, the index of the next deduction is at the end, and
\* what counts as communicated is true.
LEMMA DeductionsAreDelivered ==
  ASSUME SearchInv, DeliveryInv
  PROVE  DeductionsDelivered
<1> SUFFICES ASSUME pc = "decide" PROVE Range(th_deductions) \subseteq Range(trail)
  BY DEF DeductionsDelivered
<1>1. Underway
  BY DEF SearchInv, PhaseInv, Underway, Outside
<1>2. deductions_next = Len(th_deductions) /\ AllTrueBy(deductions_next, decisionLevel)
  BY <1>1 DEF DeliveryInv, AllToldInv, DeliveredInv, NowDelivered
<1>3. th_deductions \in Seq(Lit)
  BY DEF SearchInv, TheoryInv, TheoryHolds, PointsFit
<1>4. trail \in Seq(Lit)
  BY TrailLevels
<1>5. ASSUME NEW l \in Range(th_deductions) PROVE l \in Range(trail)
  <2>1. PICK d \in 1 .. Len(th_deductions) : th_deductions[d] = l
    BY <1>3 DEF Range
  <2>2. TrueBy({l}, decisionLevel)
    BY <1>2, <2>1 DEF AllTrueBy
  <2>3. PICK i \in 1 .. Len(trail) : trail[i] = l
    BY <2>2 DEF TrueBy
  <2> QED BY <1>4, <2>3 DEF Range
<1> QED
  BY <1>5

\* The whole invariant of the search holds between any two steps: to SearchInv and
\* ExactInv it adds that going back to any level leaves no deduction that counts as
\* communicated and is not on the trail.
THEOREM DeliveryInvariant == Spec => [](SearchInv /\ ExactInv /\ DeliveryInv /\ StaleInv)
<1>1. Init => SearchInv /\ ExactInv /\ DeliveryInv /\ StaleInv
  BY InitKeeps, ExactInit, DeliveryInit, StaleInit
<1>2. (SearchInv /\ ExactInv /\ DeliveryInv /\ StaleInv) /\ [Next]_vars
        => (SearchInv /\ ExactInv /\ DeliveryInv /\ StaleInv)'
  <2> SUFFICES ASSUME SearchInv, ExactInv, DeliveryInv, StaleInv, [Next]_vars
               PROVE  SearchInv' /\ ExactInv' /\ DeliveryInv' /\ StaleInv'
    OBVIOUS
  <2>1. SearchInv' /\ ExactInv'
    BY NextKeeps, ExactKeeps
  <2> QED BY <2>1, DeliveryKeeps, StaleKeeps
<1> QED
  BY <1>1, <1>2, PTL DEF Spec

\* The search is exact.  The state stays well typed; every reason is a clause of the solver
\* that holds its literal first and whose other literals were false before it; levels agree
\* with the trail; propagate leaves no clause falsified and no attached clause unit, except
\* a lemma; what analyze learns asserts one literal at a lower level; no lemma is handled
\* after one that needs a higher level; no deduction is lost.  Hence the model of the answer
\* sat satisfies the clauses, the theory and the assumptions, and the conflict frame names
\* assumptions that are already too many.
THEOREM SearchIsExact == Spec => []SearchExact
<1>1. SearchInv /\ ExactInv /\ DeliveryInv /\ StaleInv => SearchExact
  <2> SUFFICES ASSUME SearchInv, ExactInv, DeliveryInv, StaleInv PROVE SearchExact
    OBVIOUS
  <2>1. ReasonInv /\ DecisionInv /\ OrderInv /\ ResultInv /\ WatchInv
    BY DEF ExactInv
  <2>2. TypeOK /\ DeductionsDelivered
    BY InvariantIsTyped, DeductionsAreDelivered
  <2>3. ReasonsInPlace /\ LevelsAgree /\ LearntAsserts /\ SplitsInOrder /\ PropagationComplete
    BY <2>1, ReasonsAreInPlace, LevelsDoAgree, LearntDoesAssert, SplitsAreInOrder, PropagationIsComplete
  <2>4. SatCorrect /\ ConflictFrameCorrect
    BY <2>1 DEF ResultInv
  <2> QED BY <2>2, <2>3, <2>4 DEF SearchExact
<1> QED
  BY <1>1, DeliveryInvariant, PTL
=============================================================================
