----------------------------- MODULE STPSolver -----------------------------
(***************************************************************************)
(* The difference logic solver of OpenSMT (tsolvers/stpsolver).  An atom   *)
(* y - x <= c is an edge from y to x of cost c, its negation an edge back. *)
(* Asserting a literal adds its edge to a graph and marks every edge of    *)
(* the store that a path through it implies; backtracking takes edges and  *)
(* marks away by the time they were set.                                   *)
(*                                                                         *)
(* A cost is a pair <<r, d>>, r + d * delta with delta infinitesimal: the  *)
(* integers of QF_IDL have d = 0, the values of QF_RDL are Deltas.  An     *)
(* edge is its end points and its cost; the store never holds two alike.   *)
(***************************************************************************)
EXTENDS Integers, Sequences, FiniteSets, FiniteSetsExt, SequencesExt

CONSTANTS
  Vertex,        \* the variables and the vertex 0 (STPStore::zero)
  Atom,          \* atom -> [y, x, c], the atom y - x <= c
  RealLogic,     \* QF_RDL (Delta) instead of QF_IDL (SafeInt)
  MaxInt,        \* PTRDIFF_MAX
  Mantissa,      \* 2 ^ the bits of the mantissa of a double
  SearchSteps,   \* bound on the vertices a search takes from its stack
  MaxTime,       \* bound on timestamp
  Truths         \* the reference: for each assignment, the set of literals it satisfies

ASSUME AtomAssumption ==
  \A a \in DOMAIN Atom : Atom[a] \in [y : Vertex, x : Vertex, c : Int]
ASSUME BoundAssumption == MaxInt \in Nat /\ MaxTime \in Nat /\ RealLogic \in BOOLEAN

VARIABLES
  edgeOf,           \* STPMapper::leqToEdgeRef: declared atom -> edge
  leqOf,            \* STPMapper::edgeRefToLeq: edge -> the atom mapped last
  neg,              \* STPStore::edges: edge -> its negation
  setTime,          \* Edge::setTime, 0 if the edge is not known to be true
  asgn,             \* STPMapper::edgeRefToAsgn: edge of the graph -> literal
  addedEdges,       \* EdgeGraph::addedEdges
  deductions,       \* STPGraphManager::deductions
  timestamp,        \* STPGraphManager::timestamp
  inv_asgn,         \* the literal that made the state inconsistent, or none
  inv_bpoint,       \* the height of backtrack_points at which it did
  backtrack_points, \* the timestamp at each backtrack point
  th_deductions,    \* TSolver::th_deductions, as literals
  deductions_lim,   \* TSolver::deductions_lim
  told,             \* history: the literal asserted after each point
  explained,        \* the last explanation: the literals and what they imply
  model,            \* the values of the last computeModel, and its delta
  thrown            \* the exception that escaped, if any

storeVars == <<edgeOf, leqOf, neg>>
graphVars == <<setTime, asgn, addedEdges, deductions, timestamp>>
tsolverVars == <<backtrack_points, th_deductions, deductions_lim, told>>
vars == <<storeVars, graphVars, inv_asgn, inv_bpoint, tsolverVars, explained, model, thrown>>

none == <<>>                       \* PtAsgn_Undef
MinInt == -MaxInt - 1              \* PTRDIFF_MIN
SizeMax == 2 * MaxInt + 1          \* (size_t) -1
Literal == (DOMAIN Atom) \X BOOLEAN
Negated(l) == <<l[1], ~l[2]>>

-----------------------------------------------------------------------------
\* SafeInt and Delta.
Zero == <<0, 0>>
Plus(a, b) == <<a[1] + b[1], a[2] + b[2]>>
Minus(a, b) == <<a[1] - b[1], a[2] - b[2]>>
Less(a, b) == a[1] < b[1] \/ (a[1] = b[1] /\ a[2] < b[2])

\* operator+ and operator- of SafeInt throw when this fails.
Fits(a) == RealLogic \/ a[1] \in MinInt .. MaxInt

\* Converter<SafeInt>::getValue goes through a double: mpq_get_d keeps the leading
\* bits, and the conversion of a double that does not fit gives PTRDIFF_MIN.
Magnitude(n) == IF n < 0 THEN -n ELSE n
Unit(n) == CHOOSE u \in {2 ^ k : k \in 0 .. 8} :
             /\ Magnitude(n) < u * Mantissa
             /\ u = 1 \/ Magnitude(n) >= (u \div 2) * Mantissa
Truncated(n) ==
  LET t == (Magnitude(n) \div Unit(n)) * Unit(n) IN IF n < 0 THEN -t ELSE t
getValue(n) ==
  IF RealLogic THEN <<n, 0>>
  ELSE IF Truncated(n) \in MinInt .. MaxInt THEN <<Truncated(n), 0>>
  ELSE <<MinInt, 0>>

\* Converter::negate: not (y - x <= c) is x - y <= -(c + 1), or x - y <= -c - delta.
Negate(c) == IF RealLogic THEN <<-c[1], -1>> ELSE <<-(c[1] + 1), 0>>

-----------------------------------------------------------------------------
\* STPSolver::declareAtom.  An edge may exist already as the negation of another.
AtomEdge(a) == [from |-> Atom[a].y, to |-> Atom[a].x, cost |-> getValue(Atom[a].c)]
NegatedEdge(e) == [from |-> e.to, to |-> e.from, cost |-> Negate(e.cost)]

DeclareAtom(a) ==
  LET e == AtomEdge(a)
      n == NegatedEdge(e) IN
  /\ thrown = "no" /\ told = <<>> /\ a \notin DOMAIN edgeOf
  /\ edgeOf' = [b \in DOMAIN edgeOf \cup {a} |-> IF b = a THEN e ELSE edgeOf[b]]
  /\ leqOf' = [f \in DOMAIN leqOf \cup {e} |-> IF f = e THEN a ELSE leqOf[f]]
  /\ IF e \in DOMAIN neg
     THEN UNCHANGED <<neg, setTime>>
     ELSE /\ neg' = [f \in DOMAIN neg \cup {e, n} |->
                       IF f = e THEN n ELSE IF f = n THEN e ELSE neg[f]]
          /\ setTime' = [f \in DOMAIN neg \cup {e, n} |->
                           IF f \in DOMAIN neg THEN setTime[f] ELSE 0]
  /\ UNCHANGED <<asgn, addedEdges, deductions, timestamp, inv_asgn, inv_bpoint,
                 tsolverVars, explained, model, thrown>>

-----------------------------------------------------------------------------
\* STPGraphManager::dfsSearch: label correcting search along (or against) the
\* edges of the graph.  A state of the search is the length found for each visited
\* vertex, the vertices to scan, and whether an addition threw.

\* Mutant of Relax: a vertex keeps the first length found.
RelaxFirst(s, curr, e, next) ==
  IF next \in DOMAIN s.length THEN s
  ELSE [length |-> [v \in DOMAIN s.length \cup {next} |->
                      IF v = next THEN Plus(s.length[curr], e.cost) ELSE s.length[v]],
        open |-> Append(s.open, next), thrown |-> FALSE]

Relax(s, curr, e, next) ==
  LET sum == Plus(s.length[curr], e.cost) IN
  IF s.thrown \/ ~Fits(sum) THEN [s EXCEPT !.thrown = TRUE]
  ELSE IF next \notin DOMAIN s.length \/ Less(sum, s.length[next])
  THEN [length |-> [v \in DOMAIN s.length \cup {next} |->
                      IF v = next THEN sum ELSE s.length[v]],
        open |-> Append(s.open, next), thrown |-> FALSE]
  ELSE s

Scanned(s, curr, graph, forward) ==
  FoldLeft(LAMBDA r, e : IF (IF forward THEN e.from ELSE e.to) # curr THEN r
                         ELSE Relax(r, curr, e, IF forward THEN e.to ELSE e.from),
           s, graph)

\* A stack for dfsSearch, a queue for STPModel::bellmanFord.
Found(init, graph, forward, queue) ==
  LET search[k \in 0 .. SearchSteps] ==
        IF k = 0 THEN init
        ELSE LET s == search[k - 1]
                 curr == IF queue THEN Head(s.open) ELSE Last(s.open)
                 rest == IF queue THEN Tail(s.open) ELSE Front(s.open)
             IN  IF s.thrown \/ s.open = <<>> THEN s
                 ELSE Scanned([s EXCEPT !.open = rest], curr, graph, forward)
  IN  search[SearchSteps]

dfsSearch(v, graph, forward) ==
  Found([length |-> [u \in {v} |-> Zero], open |-> <<v>>, thrown |-> FALSE],
        graph, forward, FALSE)

\* The number of edges of the store that touch the vertices found, the first
\* excepted: findConsequences scans the side where it is smaller.
Total(s, first) ==
  MapThenSumSet(LAMBDA v : Cardinality({e \in DOMAIN neg : v \in {e.from, e.to}}),
                DOMAIN s.length \ {first})

\* The edges findConsequences compares, and the sums it forms for them.
Candidates(e, a, b) ==
  {f \in DOMAIN neg \ {e} : f.from \in DOMAIN a.length /\ f.to \in DOMAIN b.length}
PartSum(e, f, a, b) ==
  IF Total(a, e.from) < Total(b, e.to) THEN Plus(a.length[f.from], e.cost)
                                       ELSE Plus(b.length[f.to], e.cost)
PathLength(e, f, a, b) == Plus(Plus(a.length[f.from], e.cost), b.length[f.to])

\* The edges not known to be true that a path through e implies.
Consequences(e, times, a, b) ==
  {f \in Candidates(e, a, b) : ~Less(f.cost, PathLength(e, f, a, b)) /\ times[f] = 0}

ConsequencesThrow(e, a, b) ==
  \/ a.thrown \/ b.thrown
  \/ \E f \in Candidates(e, a, b) :
       ~Fits(PartSum(e, f, a, b)) \/ ~Fits(PathLength(e, f, a, b))

\* What the deduced edges say about atoms that have no polarity yet.  An edge and its
\* negation are never found together, so these are one literal for each such atom.
HasPolarity(a, ds) == \E i \in DOMAIN ds : ds[i][1] = a
EdgeLiterals(found) ==
  {<<leqOf[f], TRUE>> : f \in {g \in Range(found) : g \in DOMAIN leqOf}} \cup
  {<<leqOf[neg[f]], FALSE>> : f \in {g \in Range(found) : neg[g] \in DOMAIN leqOf}}
EdgeDeductions(ds, found) == {l \in EdgeLiterals(found) : ~HasPolarity(l[1], ds)}

Edge(l) == IF l[2] THEN edgeOf[l[1]] ELSE neg[edgeOf[l[1]]]
isTrue(e) == setTime[e] # 0

\* Mutant of PushBacktrackPoint: the point is the time of the literal itself.
PushBacktrackPointLate(l) ==
  /\ backtrack_points' = Append(backtrack_points, timestamp + 1)
  /\ deductions_lim' = Append(deductions_lim, Len(th_deductions))
  /\ told' = Append(told, l)

\* TSolverHandler::assertLit: a backtrack point, then STPSolver::assertLit.
PushBacktrackPoint(l) ==
  /\ backtrack_points' = Append(backtrack_points, timestamp)
  /\ deductions_lim' = Append(deductions_lim, Len(th_deductions))
  /\ told' = Append(told, l)

\* The literal is known already.
AssertKnown(l) ==
  /\ isTrue(Edge(l))
  /\ UNCHANGED <<graphVars, inv_asgn, inv_bpoint, th_deductions, thrown>>

\* Its negation is known.
AssertConflict(l) ==
  /\ ~isTrue(Edge(l)) /\ isTrue(neg[Edge(l)])
  /\ inv_asgn' = l
  /\ inv_bpoint' = Len(backtrack_points) + 1
  /\ UNCHANGED <<graphVars, th_deductions, thrown>>

\* A new edge: STPGraphManager::setTrue and findConsequences, and the deductions.
AssertNew(l) ==
  LET e     == Edge(l)
      graph == Append(addedEdges, e)
      times == [setTime EXCEPT ![e] = timestamp + 1]
      a     == dfsSearch(e.from, graph, FALSE)
      b     == dfsSearch(e.to, graph, TRUE)
      found == SetToSeq(Consequences(e, times, a, b))
      first == IF neg[e] \in DOMAIN leqOf
               THEN Append(th_deductions, <<leqOf[neg[e]], FALSE>>) ELSE th_deductions
  IN  /\ ~isTrue(e) /\ ~isTrue(neg[e])
      /\ timestamp < MaxTime
      /\ timestamp' = timestamp + 1
      /\ addedEdges' = graph
      /\ asgn' = [f \in DOMAIN asgn \cup {e} |-> IF f = e THEN l ELSE asgn[f]]
      /\ UNCHANGED <<inv_asgn, inv_bpoint>>
      /\ IF ConsequencesThrow(e, a, b)
         THEN /\ thrown' = "overflow"
              /\ setTime' = times
              /\ UNCHANGED <<deductions, th_deductions>>
         ELSE /\ setTime' = [f \in DOMAIN times |->
                               IF f \in Range(found) THEN timestamp + 1 ELSE times[f]]
              /\ deductions' = deductions \o found
              /\ th_deductions' = first \o SetToSeq(EdgeDeductions(first, found))
              /\ UNCHANGED thrown

AssertLit(l) ==
  /\ thrown = "no" /\ inv_asgn = none
  /\ l[1] \in DOMAIN edgeOf /\ \A i \in DOMAIN told : told[i][1] # l[1]
  /\ PushBacktrackPoint(l)
  /\ AssertKnown(l) \/ AssertConflict(l) \/ AssertNew(l)
  /\ explained' = none /\ model' = none
  /\ UNCHANGED storeVars

-----------------------------------------------------------------------------
\* STPGraphManager::findExplanation.  The search of dfsSearch from the start of
\* the edge, over the edges that were in the graph when it became true; it also
\* keeps the edge by which each vertex was reached, and stops at the end of the edge
\* once the path is short enough.
ExplRelax(s, curr, f, e) ==
  LET sum == Plus(s.length[curr], f.cost) IN
  IF f.from # curr \/ f = e \/ setTime[f] > setTime[e] \/ s.thrown THEN s
  ELSE IF ~Fits(sum) THEN [s EXCEPT !.thrown = TRUE]
  ELSE IF f.to \in DOMAIN s.visited /\ ~Less(sum, s.length[f.to]) THEN s
  ELSE [s EXCEPT !.visited = [v \in DOMAIN @ \cup {f.to} |-> IF v = f.to THEN f ELSE @[v]],
                 !.length = [@ EXCEPT ![f.to] = sum],
                 !.open = Append(@, f.to)]

ExplSearch(e) ==
  LET init == [visited |-> <<>>, length |-> [v \in Vertex |-> Zero],
               open |-> <<e.from>>, thrown |-> FALSE]
      search[k \in 0 .. SearchSteps] ==
        IF k = 0 THEN init
        ELSE LET s    == search[k - 1]
                 curr == Last(s.open)
             IN  IF s.thrown \/ s.open = <<>> THEN s
                 ELSE IF curr = e.to /\ ~Less(e.cost, s.length[curr])
                 THEN [s EXCEPT !.open = <<>>]
                 ELSE FoldLeft(LAMBDA r, f : ExplRelax(r, curr, f, e),
                               [s EXCEPT !.open = Front(@)], addedEdges)
  IN  search[SearchSteps]

\* The literals on the path found, from its end back to its start.
PathTo(v, visited, e) ==
  LET back[k \in 0 .. Cardinality(Vertex)] ==
        IF k = 0 THEN {visited[v]}
        ELSE LET last == {f \in back[k - 1] : f.from # e.from}
             IN  back[k - 1] \cup {visited[f.from] : f \in last}
  IN  {asgn[f] : f \in back[Cardinality(Vertex)]}

findExplanation(e) ==
  LET s == ExplSearch(e) IN
  IF e \in DOMAIN asgn THEN [thrown |-> FALSE, lits |-> {asgn[e]}]
  ELSE [thrown |-> s.thrown, lits |-> IF s.thrown THEN {} ELSE PathTo(e.to, s.visited, e)]

\* What makes l true, or an exception.
Explain(l) ==
  LET x == findExplanation(Edge(l)) IN
  /\ explained' = IF x.thrown THEN none ELSE [lit |-> l, lits |-> x.lits]
  /\ thrown' = IF x.thrown THEN "overflow" ELSE thrown

\* STPSolver::getConflict: inv_asgn and an explanation of its negation.
GetConflict ==
  /\ thrown = "no" /\ inv_asgn # none /\ explained = none
  /\ Explain(Negated(inv_asgn))
  /\ UNCHANGED <<storeVars, graphVars, inv_asgn, inv_bpoint, tsolverVars, model>>

\* TSolver::getReasonFor(l): assert the negation after a backtrack point, take the
\* conflict, and pop.  The pop runs removeAfter with the present time, which sets
\* the time to that of the last edge.
GetReasonFor(l) ==
  /\ thrown = "no" /\ inv_asgn = none
  /\ l \in Range(th_deductions) /\ \A i \in DOMAIN told : told[i][1] # l[1]
  /\ isTrue(Edge(l))
  /\ Explain(l)
  /\ timestamp' = setTime[Last(addedEdges)]
  /\ inv_bpoint' = 0
  /\ UNCHANGED <<storeVars, setTime, asgn, addedEdges, deductions, inv_asgn,
                 tsolverVars, model>>

-----------------------------------------------------------------------------
\* The loops of removeAfter stop at the first element set by then, from the end.
KeptEdges(point) ==
  LET old == {i \in DOMAIN addedEdges : setTime[addedEdges[i]] <= point}
  IN  SubSeq(addedEdges, 1, Max(old \cup {0}))
KeptDeductions(point) ==
  LET old == {i \in DOMAIN deductions : setTime[deductions[i]] <= point}
  IN  SubSeq(deductions, 1, Max(old \cup {0}))

\* STPGraphManager::removeAfter.
removeAfter(point) ==
  LET kept  == KeptEdges(point)
      keptD == IF addedEdges = <<>> THEN deductions ELSE KeptDeductions(point)
      gone  == {addedEdges[i] : i \in Len(kept) + 1 .. Len(addedEdges)}
      goneD == {deductions[i] : i \in Len(keptD) + 1 .. Len(deductions)} IN
  /\ addedEdges' = kept
  /\ timestamp' = IF kept = <<>> THEN timestamp ELSE setTime[Last(kept)]
  /\ asgn' = [f \in DOMAIN asgn \ gone |-> asgn[f]]
  /\ deductions' = keptD
  /\ setTime' = [f \in DOMAIN setTime |-> IF f \in gone \cup goneD THEN 0 ELSE setTime[f]]

\* STPSolver::popBacktrackPoints(i) and TSolver::popBacktrackPoint, i times.
PopBacktrackPoints(i) ==
  LET n == Len(backtrack_points) IN
  /\ thrown = "no" /\ i \in 1 .. n
  /\ IF inv_bpoint > n - i THEN inv_bpoint' = 0 /\ inv_asgn' = none
                           ELSE UNCHANGED <<inv_bpoint, inv_asgn>>
  /\ removeAfter(backtrack_points[n - i + 1])
  /\ backtrack_points' = SubSeq(backtrack_points, 1, n - i)
  /\ th_deductions' = SubSeq(th_deductions, 1, deductions_lim[n - i + 1])
  /\ deductions_lim' = SubSeq(deductions_lim, 1, n - i)
  /\ told' = SubSeq(told, 1, n - i)
  /\ explained' = none /\ model' = none
  /\ UNCHANGED <<storeVars, thrown>>

\* STPSolver::clearSolver, at the start of the next search: everything is popped,
\* and neither deductions nor inv_asgn is reset.
ClearSolver ==
  /\ thrown = "no" /\ told = <<>> /\ DOMAIN edgeOf # {}
  /\ edgeOf' = <<>> /\ leqOf' = <<>> /\ neg' = <<>> /\ setTime' = <<>>
  /\ asgn' = <<>> /\ addedEdges' = <<>> /\ timestamp' = 0
  /\ backtrack_points' = <<>> /\ th_deductions' = <<>> /\ deductions_lim' = <<>>
  /\ explained' = none /\ model' = none
  /\ UNCHANGED <<deductions, inv_asgn, inv_bpoint, told, thrown>>

-----------------------------------------------------------------------------
\* STPModel: the shortest distances from a new vertex with an edge of cost 0 to
\* every vertex of the graph, shifted so that vertex 0 has 0, and negated.
start == Max(Vertex) + 1
ModelGraph ==
  addedEdges \o SetToSeq({[from |-> start, to |-> v, cost |-> Zero] :
                            v \in UNION {{e.from, e.to} : e \in Range(addedEdges)}})
bellmanFord ==
  Found([length |-> [v \in {start} |-> Zero], open |-> <<start>>, thrown |-> FALSE],
        ModelGraph, TRUE, TRUE)

shiftZero(dist) ==
  IF 0 \in DOMAIN dist THEN [v \in DOMAIN dist |-> Minus(dist[v], dist[0])] ELSE dist

\* fillTheoryFunctions of QF_RDL: a value of delta, as a fraction <<num, den>>, for
\* which the edges whose two sides differ stay satisfied.
DeltaOf(value) ==
  LET Diff(e) == Minus(value[e.from], value[e.to])
      limits == {<<e.cost[1] - Diff(e)[1], Diff(e)[2] - e.cost[2]>> : e \in
                   {f \in Range(ModelGraph) : /\ Diff(f)[1] < f.cost[1]
                                              /\ Diff(f)[2] > f.cost[2]}}
      least == CHOOSE p \in limits : \A q \in limits : p[1] * q[2] <= q[1] * p[2]
  IN  IF limits = {} \/ least[1] > least[2] THEN <<1, 1>> ELSE <<least[1], 2 * least[2]>>

ComputeModel ==
  LET s     == bellmanFord
      dist  == shiftZero(s.length)
      value == [v \in DOMAIN dist |-> Minus(Zero, dist[v])]
  IN  /\ thrown = "no" /\ inv_asgn = none /\ model = none /\ addedEdges # <<>>
      /\ IF s.thrown THEN thrown' = "overflow" /\ UNCHANGED model
         ELSE IF \E v \in DOMAIN dist : ~Fits(dist[v]) \/ ~Fits(value[v])
         THEN thrown' = "underflow" /\ UNCHANGED model
         ELSE /\ model' = [value |-> value,
                           delta |-> IF RealLogic THEN DeltaOf(value) ELSE <<1, 1>>]
              /\ UNCHANGED thrown
      /\ UNCHANGED <<storeVars, graphVars, inv_asgn, inv_bpoint, tsolverVars, explained>>

-----------------------------------------------------------------------------
Init ==
  /\ edgeOf = <<>> /\ leqOf = <<>> /\ neg = <<>> /\ setTime = <<>> /\ asgn = <<>>
  /\ addedEdges = <<>> /\ deductions = <<>> /\ timestamp = 0
  /\ inv_asgn = none /\ inv_bpoint = SizeMax
  /\ backtrack_points = <<>> /\ th_deductions = <<>> /\ deductions_lim = <<>>
  /\ told = <<>> /\ explained = none /\ model = none /\ thrown = "no"

Next ==
  \/ \E a \in DOMAIN Atom : DeclareAtom(a)
  \/ \E l \in Literal : AssertLit(l) \/ GetReasonFor(l)
  \/ GetConflict
  \/ \E i \in 1 .. Len(backtrack_points) : PopBacktrackPoints(i)
  \/ ClearSolver
  \/ ComputeModel

Spec == Init /\ [][Next]_vars

-----------------------------------------------------------------------------
TypeOK ==
  /\ DOMAIN edgeOf \subseteq DOMAIN Atom /\ Range(edgeOf) \subseteq DOMAIN neg
  /\ DOMAIN leqOf \subseteq DOMAIN neg /\ Range(leqOf) \subseteq DOMAIN edgeOf
  /\ \A e \in DOMAIN neg : neg[e] \in DOMAIN neg /\ neg[neg[e]] = e /\ neg[e] # e
  /\ setTime \in [DOMAIN neg -> 0 .. MaxTime] /\ timestamp \in 0 .. MaxTime
  /\ asgn \in [Range(addedEdges) -> Literal] /\ Range(deductions) \subseteq DOMAIN neg
  /\ inv_asgn \in Literal \cup {none}
  /\ Range(told) \cup Range(th_deductions) \subseteq Literal
  /\ Len(backtrack_points) = Len(told) /\ Len(deductions_lim) = Len(told)
  /\ thrown \in {"no", "overflow", "underflow"}

Satisfiable(S) == \E t \in Truths : S \subseteq t
Implies(S, l) == ~Satisfiable(S \cup {Negated(l)})

\* check() answers UNSAT exactly when the literals told are unsatisfiable: asserting
\* finds every negative cycle when it closes, and backtracking forgets no edge.
VerdictCorrect ==
  thrown = "no" => ((inv_asgn = none) <=> Satisfiable(Range(told)))

\* The atoms known to be true or false are exactly those the literals told decide:
\* findConsequences finds every implied edge, and removeAfter takes back the edges
\* that are no longer implied and no other.
KnownIsImplied ==
  thrown = "no" /\ inv_asgn = none =>
    \A l \in (DOMAIN edgeOf) \X BOOLEAN : isTrue(Edge(l)) <=> Implies(Range(told), l)

\* A conflict and a reason consist of literals told, and imply what they explain.
ExplanationCorrect ==
  explained # none =>
    /\ explained.lits \subseteq Range(told)
    /\ Implies(explained.lits, explained.lit)

\* Every deduction handed to the SAT solver is implied by the literals told so far,
\* and is about an atom that was not deduced before, nor told before the literal
\* whose assertion found it (that literal itself may come back).
DeductionsAreNew ==
  \A k \in DOMAIN th_deductions :
    LET upto == {j \in DOMAIN told : deductions_lim[j] < k} IN
    /\ Implies({told[j] : j \in upto}, th_deductions[k])
    /\ \A j \in upto \ {Max(upto)} : told[j][1] # th_deductions[k][1]
    /\ \A m \in 1 .. k - 1 : th_deductions[m][1] # th_deductions[k][1]

\* The times by which removeAfter undoes are in order: edges and deductions each in
\* the order they were set, the clock at the last edge, and nothing set later than a
\* backtrack point by a literal told before it.
TimesInOrder ==
  thrown = "no" =>
  /\ \A i, j \in DOMAIN addedEdges : i < j => setTime[addedEdges[i]] < setTime[addedEdges[j]]
  /\ \A i, j \in DOMAIN deductions : i < j => setTime[deductions[i]] <= setTime[deductions[j]]
  /\ addedEdges # <<>> => timestamp = setTime[Last(addedEdges)]
  /\ \A i \in DOMAIN backtrack_points : \A e \in DOMAIN asgn :
       setTime[e] <= backtrack_points[i] <=> asgn[e] \in {told[j] : j \in 1 .. i - 1}

\* Once every point is popped nothing of the past is left: no edge, no deduction and
\* no inconsistency survives into the next search.
StartsClean ==
  told = <<>> => /\ addedEdges = <<>> /\ deductions = <<>> /\ asgn = <<>>
                 /\ inv_asgn = none /\ th_deductions = <<>>
                 /\ \A e \in DOMAIN neg : setTime[e] = 0

\* The values computed satisfy every literal told: v(y) - v(x) <= c, and strictly for
\* a negated atom, with the value chosen for delta, and with 0 for vertex 0.
ModelCorrect ==
  model # none =>
    LET Value(v) == IF v = 0 THEN Zero ELSE model.value[v] IN
    \A i \in DOMAIN told :
      LET a == Atom[told[i][1]]
          d == Minus(Value(a.y), Value(a.x))
          diff == d[1] * model.delta[2] + d[2] * model.delta[1]
      IN  told[i][2] <=> diff <= a.c * model.delta[2]

\* What the solver answers.
Answers ==
  VerdictCorrect /\ KnownIsImplied /\ ExplanationCorrect /\ DeductionsAreNew /\ ModelCorrect

\* What the graph must be for that: the times by which removeAfter undoes are in order
\* across backtracking, and nothing of the past is left once every point is popped.
STPStructure == TypeOK /\ TimesInOrder /\ StartsClean
=============================================================================
