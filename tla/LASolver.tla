------------------------------ MODULE LASolver ------------------------------
(***************************************************************************)
(* The linear arithmetic solver of OpenSMT (tsolvers/lasolver): the bounds *)
(* of LABoundStore, the simplex of Simplex and Tableau with its lazily     *)
(* kept quasi-basic rows, the two assignments of LRAModel, and LASolver,   *)
(* which turns literals into bounds, deduces the weaker bounds, explains   *)
(* conflicts by Farkas coefficients and splits on integers.                *)
(*                                                                         *)
(* A number is <<r, d, q>>, the value (r + d * delta) / q in lowest terms  *)
(* with q > 0 and delta infinitesimal; rationals have d = 0.  A variable   *)
(* (LVRef) is its id.  An atom is a record: c <= v, or c <= -v if neg.  A  *)
(* bound is the atom it comes from and whether it is the upper one.        *)
(***************************************************************************)
EXTENDS Integers, Sequences, FiniteSets, FiniteSetsExt, SequencesExt

CONSTANTS
  Column,      \* the variables of the problem
  Poly,        \* the variables that stand for a sum -> Column -> coefficient
  IntColumn,   \* the variables of sort Int
  InputAtom,   \* the atoms of the problem
  LateAtom,    \* those of them that may come after the first search, and the splits
  CutTerm,     \* the variables for sums that a cut from proofs may use
  MaxPoints    \* bound on the backtrack points

LVRef == Column \cup DOMAIN Poly
Atom == InputAtom \cup LateAtom
Literal == Atom \X BOOLEAN
Negated(l) == <<l[1], ~l[2]>>

VARIABLES
  status,         \* LASolver::status
  informed,       \* TSolver::informed_PTRefs
  bounds,         \* LABoundStore::bounds: variable -> its bounds in order
  tableau,        \* Tableau: varTypes, rows and cols
  cur,            \* LRAModel::current_assignment
  last,           \* LRAModel::last_consistent_assignment
  changed,        \* LRAModel::changed_vars_vec
  limits,         \* LRAModel: int_lbounds, int_ubounds, bound_trace, bound_limits
  candidates,     \* Simplex::candidates
  buffer,         \* Simplex::bufferOfActivatedBounds
  boundsActivated, \* Simplex::boundsActivated
  repeats,        \* the local variable of checkSimplex, 0 outside it; it stops
                  \* where bland_rule becomes true
  complete,       \* whether the state is that of a complete check
  decisions,      \* LASolver::decision_trace and dec_limit
  polarity,       \* TSolver::polarityMap, as the set of known literals
  deductions,     \* TSolver::th_deductions and deductions_lim
  explanation,    \* LASolver::explanation and its coefficients
  split,          \* LASolver::splitondemand: the variables and where they are cut
  concrete_model, \* LASolver::concrete_model, <<>> if none is computed
  told,           \* history: the literal asserted after each backtrack point
  checked         \* history: the literals of the last check that succeeded

solverVars == <<status, informed, bounds, decisions, polarity, deductions>>
simplexVars == <<tableau, cur, last, changed, limits, candidates, buffer, boundsActivated>>
resultVars == <<explanation, split, concrete_model, told, checked>>
vars == <<solverVars, simplexVars, repeats, complete, resultVars>>

-----------------------------------------------------------------------------
\* Delta and FastRational.
gcd[a \in Nat, b \in Nat] == IF b = 0 THEN a ELSE gcd[b, a % b]
Magnitude(n) == IF n < 0 THEN -n ELSE n
Divided(r, d, q, g) == <<r \div g, d \div g, q \div g>>
Lowest(r, d, q) ==
  Divided(r, d, q, (IF q < 0 THEN -1 ELSE 1) * gcd[gcd[Magnitude(r), Magnitude(d)], Magnitude(q)])

Whole(n) == <<n, 0, 1>>
Zero == Whole(0)
Plus(a, b) == Lowest(a[1] * b[3] + b[1] * a[3], a[2] * b[3] + b[2] * a[3], a[3] * b[3])
Scaled(k, a) == Lowest(k[1] * a[1], k[1] * a[2], k[3] * a[3])   \* k is a rational
Neg(a) == <<-a[1], -a[2], a[3]>>
Minus(a, b) == Plus(a, Neg(b))
Inverse1(k) == Lowest(k[3], 0, k[1])                            \* k is a rational, not 0
Less(a, b) ==   \* the rational parts are compared first, then the multiples of delta
  \/ a[1] * b[3] < b[1] * a[3]
  \/ a[1] * b[3] = b[1] * a[3] /\ a[2] * b[3] < b[2] * a[3]
Leq(a, b) == ~Less(b, a)
Positive(k) == k[1] > 0
IsInteger(a) == a[2] = 0 /\ a[3] = 1
Floor(k) == Whole(k[1] \div k[3])
Ceil(k) == Whole(-((-k[1]) \div k[3]))

\* The sum of f[x] over the finite set S.
Total(S, f(_)) == FoldSet(LAMBDA x, acc : Plus(f(x), acc), Zero, S)

-----------------------------------------------------------------------------
\* PolynomialT: a polynomial is a function from its variables to coefficients.
NoTerms == [v \in {} |-> Zero]
Coeff(p, v) == IF v \in DOMAIN p THEN p[v] ELSE Zero
Without(p, v) == [w \in DOMAIN p \ {v} |-> p[w]]
NonZero(p) == [v \in {w \in DOMAIN p : p[w] # Zero} |-> p[v]]
Merged(p, q, k) ==
  NonZero([v \in DOMAIN p \cup DOMAIN q |-> Plus(Coeff(p, v), Scaled(k, Coeff(q, v)))])
Value(p, assignment) == Total(DOMAIN p, LAMBDA v : Scaled(p[v], assignment[v]))

\* LASolver::expressionToLVarPoly
InputPoly(v) ==
  LET used == {x \in Column : Poly[v][x] # 0} IN [x \in used |-> Whole(Poly[v][x])]

-----------------------------------------------------------------------------
\* LASolver: variables, bounds and literals.
IsIntVar(v) ==
  IF v \in Column THEN v \in IntColumn ELSE DOMAIN InputPoly(v) \subseteq IntColumn

\* LASolver::getBoundsValue: the bounds of v < c if strict, of v <= c otherwise.
BoundsValue(v, c, strict) ==
  LET one == Whole(1) IN
  IF IsIntVar(v)
  THEN IF strict THEN [upper |-> Ceil(Minus(c, one)), lower |-> Ceil(c)]
                 ELSE [upper |-> Floor(c), lower |-> Floor(Plus(c, one))]
  ELSE IF strict THEN [upper |-> Plus(c, <<0, -1, 1>>), lower |-> c]
                 ELSE [upper |-> c, lower |-> Plus(c, <<0, 1, 1>>)]

\* LASolver::addBound
AtomBounds(a) == BoundsValue(a.v, IF a.neg THEN Neg(a.c) ELSE a.c, ~a.neg)
Bound == [leq : Atom, up : BOOLEAN]
ValueOf(b) == AtomBounds(b.leq)[IF b.up THEN "upper" ELSE "lower"]
VarOf(b) == b.leq.v

\* LeqToLABoundRefPair and LABoundRefToLeqAsgn
BoundOf(l) == [leq |-> l[1], up |-> (l[2] = l[1].neg)]
getAsgnByBound(b) == <<b.leq, b.up = b.leq.neg>>

\* The place of a bound in the list of its variable (LABound::bidx).
Idx(b) == CHOOSE i \in DOMAIN bounds[VarOf(b)] : bounds[VarOf(b)][i] = b

\* LABoundStore::buildBounds; the order of equal bounds is arbitrary.
SortedBounds(atoms, v) ==
  SetToSortSeq({b \in [leq : atoms, up : BOOLEAN] : VarOf(b) = v},
               LAMBDA b, c : Less(ValueOf(b), ValueOf(c)))
BuiltBounds(atoms) == [v \in LVRef |-> SortedBounds(atoms, v)]

\* LABoundStore::updateBound: each bound moves before all that are not smaller.
Inserted(s, b) ==
  LET i == Cardinality({j \in DOMAIN s : Less(ValueOf(s[j]), ValueOf(b))})
  IN  SubSeq(s, 1, i) \o <<b>> \o SubSeq(s, i + 1, Len(s))
UpdatedBounds(a) ==
  [bounds EXCEPT ![a.v] =
     Inserted(Inserted(@, [leq |-> a, up |-> TRUE]), [leq |-> a, up |-> FALSE])]

-----------------------------------------------------------------------------
\* LRAModel: the active bounds.
hasLBound(v) == limits.lb[v] # <<>>
hasUBound(v) == limits.ub[v] # <<>>
Lb(v) == ValueOf(Last(limits.lb[v]))
Ub(v) == ValueOf(Last(limits.ub[v]))

boundTriviallySatisfied(b) ==
  LET v == VarOf(b) IN
  IF b.up THEN hasUBound(v) /\ Idx(b) >= Idx(Last(limits.ub[v]))
          ELSE hasLBound(v) /\ Idx(b) <= Idx(Last(limits.lb[v]))

boundTriviallyUnsatisfied(b) ==
  LET v == VarOf(b) IN
  IF b.up THEN hasLBound(v) /\ Idx(b) < Idx(Last(limits.lb[v])) /\ ValueOf(b) # Lb(v)
          ELSE hasUBound(v) /\ Idx(b) > Idx(Last(limits.ub[v])) /\ ValueOf(b) # Ub(v)

pushBound(L, b) ==
  [L EXCEPT !.lb[VarOf(b)] = IF b.up THEN @ ELSE Append(@, b),
            !.ub[VarOf(b)] = IF b.up THEN Append(@, b) ELSE @,
            !.trace = Append(@, b)]

\* LRAModel::pushBacktrackPoint
MarkPoint(L) == [L EXCEPT !.lim = Append(@, Len(L.trace))]

\* LRAModel::popBacktrackPoint
popBounds(L) ==
  LET gone == {L.trace[i] : i \in Last(L.lim) + 1 .. Len(L.trace)}
      kept(s) == SelectSeq(s, LAMBDA b : b \notin gone)
  IN  [lb |-> [v \in LVRef |-> kept(L.lb[v])], ub |-> [v \in LVRef |-> kept(L.ub[v])],
       trace |-> SubSeq(L.trace, 1, Last(L.lim)), lim |-> Front(L.lim)]

isModelOutOfLowerBound(a, v) == hasLBound(v) /\ Less(a[v], Lb(v))
isModelOutOfUpperBound(a, v) == hasUBound(v) /\ Less(Ub(v), a[v])
isModelOutOfBounds(a, v) == isModelOutOfLowerBound(a, v) \/ isModelOutOfUpperBound(a, v)

-----------------------------------------------------------------------------
\* Tableau
EmptyTableau == [type |-> [v \in LVRef |-> "NONE"], row |-> [v \in LVRef |-> NoTerms],
                 col |-> [v \in LVRef |-> {}]]
isProcessed(v) == tableau.type[v] # "NONE"
OfType(T, t) == {v \in LVRef : T.type[v] = t}

\* Tableau::normalizeRow for every row: basic variables are replaced by their
\* rows, quasi-basic ones by their normalized rows, to any depth.
normalForm(T) ==
  LET depth == Cardinality(LVRef)
      eliminated(v) == DOMAIN T.row[v] \cap (OfType(T, "BASIC") \cup OfType(T, "QUASIBASIC"))
      rows[d \in 0 .. depth] ==
        IF d = 0 THEN T.row
        ELSE LET R == rows[d - 1] IN
             [v \in LVRef |->
                IF T.type[v] # "QUASIBASIC" THEN T.row[v]
                ELSE FoldSet(LAMBDA w, p : Merged(Without(p, w), R[w], T.row[v][w]),
                             T.row[v], eliminated(v))]
  IN  rows[depth]

\* The quasi-basic variables whose rows the normalization of those of S visits.
QuasiReach(T, S) ==
  LET next(R) == R \cup {w \in OfType(T, "QUASIBASIC") : \E v \in R : w \in DOMAIN T.row[v]}
      reach[d \in 0 .. Cardinality(LVRef)] == IF d = 0 THEN S ELSE next(reach[d - 1])
  IN  reach[Cardinality(LVRef)]

Normalized(T, S) ==
  LET N == normalForm(T)
  IN  [T EXCEPT !.row = [v \in LVRef |-> IF v \in QuasiReach(T, S) THEN N[v] ELSE @[v]]]

\* Tableau::quasiToBasic for the variables of S, one after the other.
rowsToBasic(T, S) ==
  LET N == Normalized(T, S)
  IN  [N EXCEPT !.type = [v \in LVRef |-> IF v \in S THEN "BASIC" ELSE @[v]],
                !.col = [w \in LVRef |-> @[w] \cup {v \in S : w \in DOMAIN N.row[v]}]]

\* Tableau::basicToQuasi
basicToQuasi(T, v) ==
  [T EXCEPT !.type[v] = "QUASIBASIC", !.col = [w \in LVRef |-> @[w] \ {v}]]

\* Tableau::newNonbasicVar and newRow for the variable v and the variables of
\* its polynomial (LASolver::registerArithmeticTerm).
Registered(T, v) ==
  LET cols == IF v \in Column THEN {v} ELSE DOMAIN InputPoly(v)
      new == {w \in cols : T.type[w] = "NONE"}
      U == [T EXCEPT !.type = [w \in LVRef |-> IF w \in new THEN "NONBASIC" ELSE @[w]]]
  IN  IF v \in Column \/ T.type[v] # "NONE" THEN U
      ELSE Normalized([U EXCEPT !.type[v] = "QUASIBASIC", !.row[v] = InputPoly(v)], {v})

\* Mutant of rowsPivoted: rows other than the one pivoted on stay as they are.
rowsPivotedOne(T, bv, nv) ==
  LET k == T.row[bv][nv]
      p == [w \in (DOMAIN T.row[bv] \ {nv}) \cup {bv} |->
              IF w = bv THEN Inverse1(k) ELSE Neg(Scaled(Inverse1(k), T.row[bv][w]))]
  IN  [T.row EXCEPT ![bv] = NoTerms, ![nv] = p]

\* The rows after Tableau::pivot.
rowsPivoted(T, bv, nv) ==
  LET k == T.row[bv][nv]
      p == [w \in (DOMAIN T.row[bv] \ {nv}) \cup {bv} |->
              IF w = bv THEN Inverse1(k) ELSE Neg(Scaled(Inverse1(k), T.row[bv][w]))]
  IN  [v \in LVRef |->
         CASE v = bv -> NoTerms
           [] v = nv -> p
           [] v \in T.col[nv] \ {bv} -> Merged(Without(T.row[v], nv), p, T.row[v][nv])
           [] OTHER -> T.row[v]]

\* Tableau::pivot, R being the new rows.  The column of nv becomes the one of bv;
\* the other columns lose and gain what the merges report.
tableauWithRows(T, bv, nv, R) ==
  LET merged == T.col[nv] \ {bv}
      lost(w) == {v \in merged : w \in DOMAIN T.row[v] /\ w \notin DOMAIN R[v]}
      gained(w) == {v \in merged : w \notin DOMAIN T.row[v] /\ w \in DOMAIN R[v]}
      pivotRow(C, w) == IF w \in DOMAIN R[nv] THEN (C \ {bv}) \cup {nv} ELSE C
  IN  [type |-> [T.type EXCEPT ![bv] = "NONBASIC", ![nv] = "BASIC"], row |-> R,
       col |-> [w \in LVRef |->
                  CASE w = nv -> {}
                    [] w = bv -> pivotRow(T.col[nv], bv)
                    [] OTHER -> (pivotRow(T.col[w], w) \ lost(w)) \cup gained(w)]]
tableauPivoted(T, bv, nv) == tableauWithRows(T, bv, nv, rowsPivoted(T, bv, nv))

-----------------------------------------------------------------------------
\* Simplex

\* Simplex::quasiToBasic for the variables of S: their values are recomputed in
\* both assignments.
QuasiToBasicFrom(S, saved) ==
  LET Q == S \cap OfType(tableau, "QUASIBASIC")
      valued(a) == [v \in LVRef |-> IF v \in Q THEN Value(tableau'.row[v], cur) ELSE a[v]]
  IN  /\ tableau' = rowsToBasic(tableau, Q)
      /\ cur' = valued(cur) /\ last' = valued(saved)
QuasiToBasic(S) == QuasiToBasicFrom(S, last)

\* Simplex::changeValueBy on m, an assignment with its changes and candidates.
changeValueBy(m, v, diff) ==
  LET rows == tableau.col[v] \cap OfType(tableau, "BASIC")
      a == [w \in LVRef |->
              CASE w = v -> Plus(m.a[w], diff)
                [] w \in rows -> Plus(m.a[w], Scaled(tableau.row[w][v], diff))
                [] OTHER -> m.a[w]]
  IN  [a |-> a, chg |-> m.chg \cup rows \cup {v},
       cand |-> (m.cand \ rows) \cup {w \in rows : isModelOutOfBounds(a, w)}]

\* Simplex::processBufferOfActivatedBounds takes the bounds from the back.
processBuffer ==
  LET one(m, b) ==
        LET v == VarOf(b)
            satisfied == IF b.up THEN Leq(m.a[v], ValueOf(b)) ELSE Leq(ValueOf(b), m.a[v])
        IN  IF tableau.type[v] = "NONBASIC"
            THEN IF satisfied THEN m ELSE changeValueBy(m, v, Minus(ValueOf(b), m.a[v]))
            ELSE IF isModelOutOfBounds(m.a, v) THEN [m EXCEPT !.cand = @ \cup {v}] ELSE m
  IN  FoldLeft(one, [a |-> cur, chg |-> changed, cand |-> candidates], Reverse(buffer))

\* The first of S in the order of the ids among those with the least f.
FirstLeast(S, f(_)) ==
  CHOOSE v \in S : \A w \in S : f(v) < f(w) \/ (f(v) = f(w) /\ v <= w)

getNumOfCols == Max({0} \cup {v + 1 : v \in {w \in LVRef : isProcessed(w)}})
bland_rule == repeats > getNumOfCols

\* getBasicVarToFixByBland and getBasicVarToFixByShortestPoly
BasicVarToFix ==
  FirstLeast(candidates, LAMBDA v : IF bland_rule THEN v ELSE Cardinality(DOMAIN tableau.row[v]))

\* Mutant of CanMove: a variable at its bound is moved as well.
CanMoveAny(x, y) == TRUE

\* Whether the nonbasic variable y can move x towards the bound x violates.
CanMove(x, y) ==
  IF Positive(tableau.row[x][y]) = isModelOutOfLowerBound(cur, x)
  THEN ~hasUBound(y) \/ Less(cur[y], Ub(y))
  ELSE ~hasLBound(y) \/ Less(Lb(y), cur[y])
Movable(x) == {y \in DOMAIN tableau.row[x] : CanMove(x, y)}

\* findNonBasicForPivotByBland and findNonBasicForPivotByHeuristic
NonBasicForPivot(x) ==
  FirstLeast(Movable(x), LAMBDA v : IF bland_rule THEN v ELSE Cardinality(tableau.col[v]))

\* Mutant of ConflictingBounds: the signs of the coefficients are forgotten.
ConflictingBoundsSigned(x) ==
  LET low == isModelOutOfLowerBound(cur, x)
      limit(y) == IF low THEN Last(limits.ub[y]) ELSE Last(limits.lb[y])
      able == {y \in DOMAIN tableau.row[x] : IF low THEN hasUBound(y) ELSE hasLBound(y)}
  IN  {[b |-> IF low THEN Last(limits.lb[x]) ELSE Last(limits.ub[x]), k |-> Whole(1)]}
      \cup {[b |-> limit(y), k |-> tableau.row[x][y]] : y \in able}

\* Simplex::getConflictingBounds for the basic variable x.
ConflictingBounds(x) ==
  LET low == isModelOutOfLowerBound(cur, x)
      limit(y) == IF low = Positive(tableau.row[x][y]) THEN Last(limits.ub[y]) ELSE Last(limits.lb[y])
      size(k) == IF Positive(k) THEN k ELSE Neg(k)
  IN  {[b |-> IF low THEN Last(limits.lb[x]) ELSE Last(limits.ub[x]), k |-> Whole(1)]}
      \cup {[b |-> limit(y), k |-> size(tableau.row[x][y])] : y \in DOMAIN tableau.row[x]}

\* LASolver::storeExplanation
Explained(E) == {[lit |-> getAsgnByBound(e.b), k |-> e.k] : e \in E}

-----------------------------------------------------------------------------
Init ==
  /\ status = "INIT" /\ informed = {}
  /\ bounds = [v \in LVRef |-> <<>>]
  /\ tableau = EmptyTableau
  /\ cur = [v \in LVRef |-> Zero] /\ last = cur /\ changed = {}
  /\ limits = [lb |-> [v \in LVRef |-> <<>>], ub |-> [v \in LVRef |-> <<>>],
               trace |-> <<>>, lim |-> <<>>]
  /\ candidates = {} /\ buffer = <<>> /\ boundsActivated = [v \in LVRef |-> 0]
  /\ repeats = 0 /\ complete = FALSE
  /\ decisions = [trace |-> <<>>, lim |-> <<>>]
  /\ polarity = {} /\ deductions = [seq |-> <<>>, lim |-> <<>>]
  /\ explanation = {} /\ split = {} /\ concrete_model = <<>>
  /\ told = <<>> /\ checked = {}

Idle == repeats = 0

\* LASolver::declareAtom.  Between searches the theory is popped to nothing;
\* within a search only the atoms of splits are declared (GetNewSplits).
DeclareAtom(a) ==
  /\ Idle /\ status \in {"INIT", "SAT"} /\ a \notin informed /\ told = <<>>
  /\ a \in InputAtom /\ (status = "SAT" => a \in LateAtom)
  /\ informed' = informed \cup {a}
  /\ IF status = "INIT" THEN UNCHANGED <<tableau, bounds>>
     ELSE tableau' = Registered(tableau, a.v) /\ bounds' = UpdatedBounds(a)
  /\ UNCHANGED <<status, decisions, polarity, deductions, cur, last, changed, limits, candidates,
                 buffer, boundsActivated, repeats, complete, resultVars>>

\* LASolver::initSolver, with which the first assertLit or check begins; a check
\* of nothing does no more than this.
InitSolver ==
  /\ Idle /\ status = "INIT" /\ InputAtom \ LateAtom \subseteq informed
  /\ status' = "SAT"
  /\ tableau' = FoldSet(LAMBDA a, T : Registered(T, a.v), tableau, informed)
  /\ bounds' = BuiltBounds(informed)
  /\ UNCHANGED <<informed, decisions, polarity, deductions, cur, last, changed, limits, candidates,
                 buffer, boundsActivated, repeats, complete, resultVars>>

\* LASolver::getSimpleDeductions: the bounds the loop visits.
WeakerBounds(b) ==
  LET s == bounds[VarOf(b)] IN
  SelectSeq(IF b.up THEN SubSeq(s, Idx(b) + 1, Len(s) - 1) ELSE Reverse(SubSeq(s, 1, Idx(b) - 1)),
            LAMBDA c : c.up = b.up)

\* LASolver::deduce for each of them.
NewDeductions(b, known) ==
  SelectSeq([i \in DOMAIN WeakerBounds(b) |-> getAsgnByBound(WeakerBounds(b)[i])],
            LAMBDA l : l \notin known /\ Negated(l) \notin known)

\* LASolver::pushBacktrackPoint
PushPoint ==
  /\ limits' = MarkPoint(limits)
  /\ decisions' = [decisions EXCEPT !.lim = Append(@, Len(decisions.trace))]
  /\ deductions' = [deductions EXCEPT !.lim = Append(@, Len(deductions.seq))]

\* The bound contradicts an active one.
AssertConflict(l) ==
  LET b == BoundOf(l)
      other == IF b.up THEN Last(limits.lb[VarOf(b)]) ELSE Last(limits.ub[VarOf(b)])
  IN  /\ boundTriviallyUnsatisfied(b)
      /\ explanation' = Explained({[b |-> other, k |-> Whole(1)], [b |-> b, k |-> Whole(1)]})
      /\ status' = "UNSAT"
      /\ PushPoint
      /\ UNCHANGED <<polarity, tableau, cur, last, buffer, boundsActivated>>

\* Simplex::assertBoundOnVar takes the bound, and LASolver its consequences.
AssertBound(l) ==
  LET b == BoundOf(l)
      new == NewDeductions(b, polarity \cup {l})
  IN  /\ ~boundTriviallyUnsatisfied(b)
      /\ explanation' = {}
      /\ QuasiToBasic({VarOf(b)})
      /\ boundsActivated' = [boundsActivated EXCEPT ![VarOf(b)] = @ + 1]
      /\ IF boundTriviallySatisfied(b)
         THEN limits' = MarkPoint(limits) /\ UNCHANGED buffer
         ELSE limits' = pushBound(MarkPoint(limits), b) /\ buffer' = Append(buffer, b)
      /\ decisions' = [trace |-> Append(decisions.trace, l),
                       lim |-> Append(decisions.lim, Len(decisions.trace))]
      /\ deductions' = [seq |-> deductions.seq \o new,
                        lim |-> Append(deductions.lim, Len(deductions.seq))]
      /\ polarity' = (polarity \ {Negated(l)}) \cup {l} \cup Range(new)
      /\ UNCHANGED status

\* A literal with this polarity is not processed again.
AssertKnown(l) ==
  /\ PushPoint
  /\ UNCHANGED <<explanation, status, polarity, tableau, cur, last, buffer, boundsActivated>>

\* TSolverHandler::assertLit: a backtrack point and LASolver::assertLit.
AssertLit(l) ==
  /\ Idle /\ status = "SAT" /\ l[1] \in informed /\ Len(told) < MaxPoints
  /\ {l, Negated(l)} \cap Range(told) = {}
  /\ told' = Append(told, l)
  /\ IF l \in polarity THEN AssertKnown(l) ELSE AssertConflict(l) \/ AssertBound(l)
  /\ concrete_model' = <<>> /\ complete' = FALSE
  /\ UNCHANGED <<informed, bounds, changed, candidates, repeats, split, checked>>

-----------------------------------------------------------------------------
\* Simplex::checkSimplex up to its loop.
Check(full) ==
  LET m == processBuffer IN
  /\ Idle /\ status = "SAT"
  /\ cur' = m.a /\ changed' = m.chg /\ candidates' = m.cand
  /\ buffer' = <<>> /\ repeats' = 1 /\ complete' = full
  /\ UNCHANGED <<solverVars, tableau, last, limits, boundsActivated, resultVars>>

\* Simplex::pivot, m being the assignment after updateValues and T the tableau
\* after its pivot.
Pivoted(x, y, m, T) ==
  /\ cur' = m.a /\ changed' = m.chg
  /\ IF boundsActivated[y] = 0
     THEN tableau' = basicToQuasi(T, y) /\ candidates' = m.cand \ {x}
     ELSE /\ tableau' = T
          /\ candidates' = (m.cand \ {x}) \cup (IF isModelOutOfBounds(m.a, y) THEN {y} ELSE {})
PivotOn(x, y) ==
  LET target == IF isModelOutOfLowerBound(cur, x) THEN Lb(x) ELSE Ub(x)
      diff == Scaled(Inverse1(tableau.row[x][y]), Minus(target, cur[x]))
      now == [a |-> cur, chg |-> changed, cand |-> candidates]
  IN  Pivoted(x, y, changeValueBy(now, y, diff), tableauPivoted(tableau, x, y))

\* One round of the loop that finds a variable to pivot with.
CheckPivot ==
  /\ ~Idle /\ candidates # {}
  /\ Movable(BasicVarToFix) # {}
  /\ PivotOn(BasicVarToFix, NonBasicForPivot(BasicVarToFix))
  /\ repeats' = IF bland_rule THEN repeats ELSE repeats + 1
  /\ UNCHANGED <<solverVars, last, limits, buffer, boundsActivated, complete, resultVars>>

\* No variable can repair the row: LRAModel::restoreAssignment and the conflict.
CheckUnsat ==
  /\ ~Idle /\ candidates # {}
  /\ Movable(BasicVarToFix) = {}
  /\ explanation' = Explained(ConflictingBounds(BasicVarToFix))
  /\ cur' = [v \in LVRef |-> IF v \in changed THEN last[v] ELSE cur[v]] /\ changed' = {}
  /\ status' = "UNSAT" /\ repeats' = 0
  /\ UNCHANGED <<informed, bounds, decisions, polarity, deductions, tableau, last, limits, candidates,
                 buffer, boundsActivated, complete, split, concrete_model, told, checked>>

\* LRAModel::saveAssignment at the end of a check that succeeds.
SaveAssignment ==
  /\ repeats' = 0 /\ explanation' = {} /\ checked' = Range(told)
  /\ changed' = {}

savedLast == [v \in LVRef |-> IF v \in changed THEN cur[v] ELSE last[v]]

\* The check succeeds and integers are not looked at.
CheckSat ==
  /\ ~Idle /\ candidates = {} /\ ~complete
  /\ SaveAssignment /\ last' = savedLast
  /\ UNCHANGED <<solverVars, tableau, cur, limits, candidates, buffer, boundsActivated, complete,
                 split, concrete_model, told>>

int_vars == {v \in LVRef : isProcessed(v) /\ IsIntVar(v)}

\* The values after getValuation of the variables in S: quasi-basic rows are
\* evaluated.
Valuation(v) == IF tableau.type[v] = "QUASIBASIC" THEN Value(normalForm(tableau)[v], cur) ELSE cur[v]

\* The value of an integral sum that need not be registered.
SumValue(v) == Total(DOMAIN InputPoly(v), LAMBDA x : Scaled(InputPoly(v)[x], Valuation(x)))

\* The lower half of a split, v <= the floor of the value.
splitLowerVal(k) == Floor(k)

\* LASolver::checkIntegersAndSplit after checkSimplex: every quasi-basic integer
\* variable becomes basic; a variable is split at its value, or cutFromProof
\* finds a sum of variables whose value is not an integer.
SplitIntegers(a) ==
  LET toFix == {v \in int_vars : ~IsInteger(a[v])}
      cuts == {v \in CutTerm : ~IsInteger(SumValue(v))}
  IN  IF toFix = {} THEN split' = {} /\ UNCHANGED status
      ELSE /\ status' = "NEWSPLIT"
           /\ \/ \E v \in toFix : split' = {[v |-> v, at |-> splitLowerVal(a[v])]}
              \/ \E v \in cuts : split' = {[v |-> v, at |-> splitLowerVal(SumValue(v))]}
CheckIntegers ==
  /\ ~Idle /\ candidates = {} /\ complete
  /\ SaveAssignment
  /\ QuasiToBasicFrom(int_vars, savedLast)
  /\ SplitIntegers(cur')
  /\ UNCHANGED <<informed, bounds, decisions, polarity, deductions, limits, candidates, buffer,
                 boundsActivated, complete, concrete_model, told>>

\* The two atoms of a split, v <= at and v >= at + 1.
SplitAtoms(s) == {[v |-> s.v, neg |-> TRUE, c |-> Neg(s.at)],
                  [v |-> s.v, neg |-> FALSE, c |-> Plus(s.at, Whole(1))]}

\* LASolver::getNewSplits, and THandler::getNewSplits declares the atoms.  The
\* splits are bounded by LateAtom.
GetNewSplits ==
  LET new == (UNION {SplitAtoms(s) : s \in split}) \ informed
      added(B, a) == [B EXCEPT ![a.v] = Inserted(Inserted(@, [leq |-> a, up |-> TRUE]),
                                                 [leq |-> a, up |-> FALSE])]
  IN
  /\ Idle /\ status = "NEWSPLIT" /\ new \subseteq LateAtom
  /\ status' = "SAT" /\ split' = {} /\ complete' = FALSE
  /\ informed' = informed \cup new
  /\ tableau' = FoldSet(LAMBDA a, T : Registered(T, a.v), tableau, new)
  /\ bounds' = FoldSet(LAMBDA a, B : added(B, a), bounds, new)
  /\ UNCHANGED <<decisions, polarity, deductions, cur, last, changed, limits, candidates, buffer,
                 boundsActivated, repeats, explanation, concrete_model, told, checked>>

-----------------------------------------------------------------------------
\* Simplex::boundDeactivated
boundDeactivated(s, v) ==
  LET n == s.active[v] - 1 IN
  [s EXCEPT !.active[v] = n,
            !.tab = IF n = 0 /\ @.type[v] = "BASIC" THEN basicToQuasi(@, v) ELSE @]

Cleared(known, atoms) == {l \in known : l[1] \notin atoms}

\* The deductions made since the last point.
Undeduced(d) == SubSeq(d.seq, Last(d.lim) + 1, Len(d.seq))

\* One round of the loop of LASolver::popBacktrackPoints.
popPoint(s) ==
  LET n == Last(s.dec.lim)
      gone == SubSeq(s.dec.trace, n + 1, Len(s.dec.trace))
      t == [s EXCEPT !.limits = popBounds(@),
                     !.dec = [trace |-> SubSeq(@.trace, 1, n), lim |-> Front(@.lim)],
                     !.ded = [seq |-> SubSeq(@.seq, 1, Last(@.lim)), lim |-> Front(@.lim)],
                     !.pol = Cleared(@, {l[1] : l \in Range(gone \o Undeduced(s.ded))})]
  IN  IF gone = <<>> THEN t ELSE boundDeactivated(t, gone[1][1].v)

\* LASolver::popBacktrackPoints until n points are left, with
\* Simplex::finalizeBacktracking.  THandler takes back what it told since the
\* last check that succeeded, or more (see checked in the README).
Backtrack(n) ==
  LET now == [limits |-> limits, dec |-> decisions, ded |-> deductions, pol |-> polarity,
              active |-> boundsActivated, tab |-> tableau]
      s == FoldLeft(LAMBDA acc, i : popPoint(acc), now, [i \in 1 .. Len(told) - n |-> i])
  IN  /\ Idle /\ status \in {"SAT", "UNSAT"} /\ n < Len(told)
      /\ {told[i] : i \in 1 .. n} \subseteq checked
      /\ limits' = s.limits /\ decisions' = s.dec /\ deductions' = s.ded /\ polarity' = s.pol
      /\ boundsActivated' = s.active /\ tableau' = s.tab
      /\ candidates' = {} /\ buffer' = <<>> /\ status' = "SAT"
      /\ told' = SubSeq(told, 1, n) /\ concrete_model' = <<>> /\ complete' = FALSE
      /\ UNCHANGED <<informed, bounds, cur, last, changed, repeats, explanation, split, checked>>

\* TSolver::getReasonFor: the negation is asserted after a point of its own,
\* which is popped again (see DeductionsExplained for the conflict it needs).
GetReasonFor(l) ==
  LET b == BoundOf(Negated(l))
      other == IF b.up THEN Last(limits.lb[VarOf(b)]) ELSE Last(limits.ub[VarOf(b)])
  IN  /\ Idle /\ status = "SAT" /\ Range(told) \subseteq checked
      /\ l \in Range(deductions.seq) \ Range(told)
      /\ explanation' = IF ~boundTriviallyUnsatisfied(b) THEN {}
                        ELSE Explained({[b |-> other, k |-> Whole(1)], [b |-> b, k |-> Whole(1)]})
      /\ candidates' = {} /\ buffer' = <<>>
      /\ UNCHANGED <<solverVars, tableau, cur, last, changed, limits, boundsActivated, repeats, complete,
                     split, concrete_model, told, checked>>

\* Simplex::getPolaritySuggestion makes the row of the variable basic.
GetPolaritySuggestion(a) ==
  /\ Idle /\ status = "SAT" /\ a \in informed /\ Range(told) \subseteq checked
  /\ tableau.type[a.v] = "QUASIBASIC" /\ QuasiToBasic({a.v})
  /\ UNCHANGED <<solverVars, changed, limits, candidates, buffer, boundsActivated, repeats, complete,
                 resultVars>>

\* The values of delta at which the value of v reaches a bound: for a pair of
\* numbers of which the first is less, but gains on the second as delta grows.
DeltaLimits(v) ==
  LET val == cur[v]
      pairs == (IF hasLBound(v) THEN {<<Lb(v), val>>} ELSE {})
               \cup (IF hasUBound(v) THEN {<<val, Ub(v)>>} ELSE {})
      closing(p) == p[1][1] * p[2][3] < p[2][1] * p[1][3] /\ p[1][2] * p[2][3] > p[2][2] * p[1][3]
  IN  IF val[2] = 0 THEN {}
      ELSE {Lowest(p[2][1] * p[1][3] - p[1][1] * p[2][3], 0, p[1][2] * p[2][3] - p[2][2] * p[1][3]) :
              p \in {q \in pairs : closing(q)}}

\* Simplex::computeDelta
computeDelta ==
  LET L == UNION {DeltaLimits(v) : v \in {w \in LVRef : isProcessed(w)}}
      least == CHOOSE d \in L : \A e \in L : Leq(d, e)
  IN  IF L = {} \/ Less(Whole(1), least) THEN Whole(1) ELSE Scaled(Lowest(1, 0, 2), least)

\* LASolver::computeModel, after a complete check that left no split.
ComputeModel ==
  LET delta == computeDelta
      known == {v \in LVRef : isProcessed(v)}
      at(a) == Plus(Lowest(a[1], 0, a[3]), Scaled(Lowest(a[2], 0, a[3]), delta))
  IN  /\ Idle /\ status = "SAT" /\ complete /\ Range(told) = checked /\ concrete_model = <<>>
      /\ concrete_model' = [v \in known |-> at(Valuation(v))]
      /\ QuasiToBasic(known)
      /\ UNCHANGED <<solverVars, changed, limits, candidates, buffer, boundsActivated, repeats, complete,
                     explanation, split, told, checked>>

Loop == CheckPivot \/ CheckUnsat \/ CheckSat \/ CheckIntegers

Next ==
  \/ \E a \in Atom : DeclareAtom(a) \/ GetPolaritySuggestion(a)
  \/ \E l \in Literal : AssertLit(l) \/ GetReasonFor(l)
  \/ \E n \in 0 .. Len(told) - 1 : Backtrack(n)
  \/ \E full \in BOOLEAN : Check(full)
  \/ InitSolver \/ GetNewSplits \/ ComputeModel \/ Loop

\* A call of check runs to its end: weak fairness of Loop, which is enabled
\* exactly when the solver is not idle.
Fairness == []<>Idle \/ []<><<Loop>>_vars

Spec == Init /\ [][Next]_vars /\ Fairness

-----------------------------------------------------------------------------
(***************************************************************************)
(* Properties.                                                             *)
(***************************************************************************)
TypeOK ==
  /\ status \in {"INIT", "SAT", "UNSAT", "NEWSPLIT"}
  /\ informed \subseteq Atom
  /\ tableau.type \in [LVRef -> {"NONE", "NONBASIC", "BASIC", "QUASIBASIC"}]
  /\ candidates \subseteq LVRef /\ changed \subseteq LVRef
  /\ Range(buffer) \subseteq Bound /\ Range(limits.trace) \subseteq Bound
  /\ boundsActivated \in [LVRef -> Nat] /\ repeats \in Nat
  /\ polarity \subseteq Literal /\ Range(deductions.seq) \subseteq Literal
  /\ Len(told) = Len(limits.lim) /\ Len(told) = Len(decisions.lim) /\ Len(told) = Len(deductions.lim)

\* The coefficient of x in the sum that v stands for.
FormCoeff(v, x) ==
  IF v \in Column THEN (IF v = x THEN Whole(1) ELSE Zero) ELSE Whole(Poly[v][x])

\* Every row, basic or quasi-basic, however many pivots ago it was left, is the
\* sum its variable stands for, and can be brought to nonbasic variables only
\* (Tableau::normalizeRow neither loops nor stops early).
RowsMeanTheirSums ==
  LET N == normalForm(tableau) IN
  \A v \in OfType(tableau, "BASIC") \cup OfType(tableau, "QUASIBASIC") :
    /\ \A x \in Column :
         FormCoeff(v, x) = Total(DOMAIN tableau.row[v],
                                 LAMBDA w : Scaled(tableau.row[v][w], FormCoeff(w, x)))
    /\ DOMAIN N[v] \subseteq OfType(tableau, "NONBASIC")

\* Tableau::checkConsistency: basic rows are over nonbasic variables, and the
\* column of a variable is the set of the basic rows it occurs in.
ColumnsMatchRows ==
  \A v \in LVRef :
    tableau.col[v] = IF tableau.type[v] # "NONBASIC" THEN {}
                     ELSE {r \in OfType(tableau, "BASIC") : v \in DOMAIN tableau.row[r]}

\* Simplex::checkValueConsistency, which finalizeBacktracking asserts: pivots,
\* restored assignments and late rows leave every basic variable with the value
\* of its row, in the current and, between checks, in the backed up assignment.
ValuesFollowRows ==
  \A v \in OfType(tableau, "BASIC") :
    /\ cur[v] = Value(tableau.row[v], cur)
    /\ Idle => last[v] = Value(tableau.row[v], last)

\* Simplex::invariantHolds, asserted when backtracking ends with the candidates
\* and the buffer thrown away: no variable with a value is outside the bounds
\* that are left, so nothing that was thrown away was still needed.
CheckedWithinBounds ==
  (Idle /\ Range(told) \subseteq checked) =>
    \A v \in LVRef : tableau.type[v] # "QUASIBASIC" => ~isModelOutOfBounds(cur, v) /\ cur[v] = last[v]

\* The loop of checkSimplex works on all variables that need repair: the
\* candidates are the basic variables out of bounds, the others are within.
CandidatesExact ==
  ~Idle => candidates = {v \in LVRef : tableau.type[v] # "QUASIBASIC" /\ isModelOutOfBounds(cur, v)}

\* The literals of E with their coefficients add up to 0 < 0 or 0 <= a negative
\* number: all variables cancel.
FarkasProof(E) ==
  LET sign(e) == IF BoundOf(e.lit).up THEN Whole(1) ELSE Whole(-1) IN
  /\ \A e \in E : Positive(e.k)
  /\ \A x \in Column :
       Total(E, LAMBDA e : Scaled(Scaled(sign(e), e.k), FormCoeff(e.lit[1].v, x))) = Zero
  /\ Less(Total(E, LAMBDA e : Scaled(Scaled(sign(e), e.k), ValueOf(BoundOf(e.lit)))), Zero)

\* A conflict is a set of asserted literals which the stored coefficients prove
\* inconsistent (the interpolators build on those coefficients), and so is the
\* reason of a deduction.
ConflictIsFarkas ==
  /\ explanation # {} => FarkasProof(explanation)
  /\ status = "UNSAT" => explanation # {} /\ {e.lit : e \in explanation} \subseteq Range(told)

\* The bounds in force are those of asserted literals, and at least as strong as
\* all of them, literals that were already deduced when asserted included.
BoundsFollowLiterals ==
  /\ \A v \in LVRef : \A b \in Range(limits.lb[v]) \cup Range(limits.ub[v]) : getAsgnByBound(b) \in Range(told)
  /\ status # "UNSAT" =>
       \A l \in Range(told) :
         LET b == BoundOf(l) IN
         IF b.up THEN hasUBound(VarOf(b)) /\ Leq(Ub(VarOf(b)), ValueOf(b))
                 ELSE hasLBound(VarOf(b)) /\ Leq(ValueOf(b), Lb(VarOf(b)))

\* What the solver skips as known is exactly what was asserted or deduced and
\* not taken back.
PolarityFollowsStack ==
  status # "UNSAT" => polarity = Range(told) \cup Range(deductions.seq)

\* TSolver::getReasonFor finds a conflict for every deduction the SAT solver may
\* ask about, also after backtracking ("Error in computing reason" otherwise).
DeductionsExplained ==
  Idle => \A l \in Range(deductions.seq) : boundTriviallyUnsatisfied(BoundOf(Negated(l)))

\* No weaker bound is missed, the ones at the ends of the list included: for the
\* atoms that were there from the start.
DeductionsComplete ==
  \A l \in Range(decisions.trace), a \in InputAtom \ LateAtom, s \in BOOLEAN :
    LET b == BoundOf(l)
        c == BoundOf(<<a, s>>)
        weaker == IF b.up THEN Less(ValueOf(b), ValueOf(c)) ELSE Less(ValueOf(c), ValueOf(b))
    IN  (a \in informed /\ a.v = l[1].v /\ c.up = b.up /\ weaker) => <<a, s>> \in polarity

\* A row out of the tableau has no bound to violate, and the count that decides
\* this is the number of assertions on the variable.
QuasiBasicIsFree ==
  \A v \in LVRef :
    /\ boundsActivated[v] = Cardinality({i \in DOMAIN decisions.trace : decisions.trace[i][1].v = v})
    /\ tableau.type[v] = "QUASIBASIC" => ~hasLBound(v) /\ ~hasUBound(v)

\* The computed model satisfies every asserted atom, with delta replaced by a
\* number and quasi-basic variables included, and is integral where it must be.
ModelSatisfies ==
  concrete_model # <<>> =>
    LET val(x) == IF x \in DOMAIN concrete_model THEN concrete_model[x] ELSE Zero
        form(v) == Total(Column, LAMBDA x : Scaled(FormCoeff(v, x), val(x)))
        holds(a) == Leq(a.c, IF a.neg THEN Neg(form(a.v)) ELSE form(a.v))
    IN  /\ \A l \in Range(told) : holds(l[1]) = l[2]
        /\ \A v \in DOMAIN concrete_model :
             concrete_model[v] = form(v) /\ (IsIntVar(v) => IsInteger(concrete_model[v]))

SumOrValue(v) == IF v \in Column THEN Valuation(v) ELSE SumValue(v)

\* A split excludes the value that called for it and no integer.
SplitsCut ==
  \A s \in split :
    IsInteger(s.at) /\ Less(s.at, SumOrValue(s.v)) /\ Less(SumOrValue(s.v), Plus(s.at, Whole(1)))

\* Simplex terminates: Bland's rule takes over before pivots can repeat.
CheckTerminates == ~Idle ~> Idle

\* What the solver answers, and what tableau, values and bounds must be for that.
Answers ==
  /\ CheckedWithinBounds /\ ConflictIsFarkas /\ ModelSatisfies /\ SplitsCut
  /\ DeductionsExplained /\ DeductionsComplete
Structure ==
  /\ TypeOK /\ RowsMeanTheirSums /\ ColumnsMatchRows /\ ValuesFollowRows /\ CandidatesExact
  /\ QuasiBasicIsFree /\ BoundsFollowLiterals /\ PolarityFollowsStack
=============================================================================
