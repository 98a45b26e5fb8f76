------------------------------- MODULE Egraph -------------------------------
(***************************************************************************)
(* The solver for uninterpreted functions (tsolvers/egraph): congruence    *)
(* closure by a signature table and use vectors, forbid lists and          *)
(* distinction classes for disequalities, a proof forest for explanations, *)
(* and one undo stack that takes all of it back.                           *)
(*                                                                         *)
(* A call of assertLit or popBacktrackPoints runs in several steps: one    *)
(* for each merge, and one for each record taken from the undo stack.      *)
(***************************************************************************)
EXTENDS Integers, Sequences, FiniteSets, FiniteSetsExt, SequencesExt

CONSTANTS
  Node,      \* enode -> [sym, args]
  Equality,  \* the enodes of equalities
  Distinct,  \* the enodes of distinctions of more than two arguments
  Predicate, \* the enodes of other Boolean terms that are atoms
  Constant,  \* the enodes of constants, among them "true" and "false"
  Negation,  \* Boolean enode -> the enode of its negation, if it has one
  Late,      \* equalities that may be declared when literals are asserted already
  Fixed,     \* the literals true at decision level 0, in order
  Truths     \* the reference: for each interpretation, the literals it satisfies (lits) and
             \* the pairs of terms it makes equal (same)

BooleanTerm == Equality \cup Distinct \cup Predicate
Literal == BooleanTerm \X BOOLEAN
none == "none"                       \* ERef_Undef
Undef == <<none, none>>              \* PtAsgn_Undef
Args(n) == Node[n].args
Compound == {n \in DOMAIN Node : Args(n) # <<>>}

VARIABLES
  declared,        \* the enodes of the store
  root, eqNext,    \* Enode::root, Enode::eq_next
  forbids,         \* [first: enode -> its first cell or 0, cells: cell -> [e, reason, link]]
  dist,            \* Enode::dist_classes: the distinctions whose bit is set
  tables,          \* [parents: class -> parent -> is the entry marked,
                   \*  useIn: parent -> its arguments with an index, sig: signature -> enode]
  forest,          \* Explainer: [parent, reason, undo]
  undo_stack_main, \* records <<kind, argument>>
  backtrack_points,
  polarity,        \* TSolver::polarityMap: atom -> its value, where known
  th_deductions, deductions_lim,
  told,            \* history: the literal asserted after each point
  todo,            \* the assertEq calls assertLit still has to make
  pending,         \* Egraph::pending
  congruence,      \* mergeLoop: congruence_pending
  popping,         \* popBacktrackPoint calls left
  reanalyzed,      \* backtrackToStackSize: toReanalyze
  ok,              \* the answer of the last assertLit
  explanation      \* TSolver::explanation, as a set

graphVars == <<root, eqNext, forbids, dist, tables, forest>>
tsolverVars == <<backtrack_points, polarity, th_deductions, deductions_lim, told>>
callVars == <<todo, pending, congruence, popping, reanalyzed, ok, explanation>>
vars == <<declared, graphVars, undo_stack_main, tsolverVars, callVars>>

Idle == todo = <<>> /\ pending = <<>> /\ popping = 0

\* f with x mapped to y, and f without the elements of S.
With(f, x, y) == [z \in DOMAIN f \cup {x} |-> IF z = x THEN y ELSE f[z]]
Without(f, S) == [z \in DOMAIN f \ S |-> f[z]]

\* The nodes of a circular list, from the given one on.
Circle(next, first) ==
  LET walk[k \in Nat] ==
        IF k = 0 THEN <<first>>
        ELSE LET s == walk[k - 1] IN
             IF next[Last(s)] = first THEN s ELSE Append(s, next[Last(s)])
  IN  walk[Cardinality(DOMAIN next)]

-----------------------------------------------------------------------------
\* EnodeStore: signatures; Egraph: use vectors.  t is a value of tables, rt of root.
Signature(n, rt) == <<Node[n].sym, [i \in DOMAIN Args(n) |-> rt[Args(n)[i]]]>>

\* childDuplicatesClass: only the first argument of a class gets an index.
FirstUses(n, rt) ==
  {i \in DOMAIN Args(n) : \A j \in 1 .. i - 1 : rt[Args(n)[j]] # rt[Args(n)[i]]}

containsSig(t, n, rt) == Signature(n, rt) \in DOMAIN t.sig

\* insertSig and addToUseVectors.
Inserted(t, n, rt) ==
  LET uses == FirstUses(n, rt)
      classes == {rt[Args(n)[i]] : i \in uses}
  IN  [parents |-> [c \in DOMAIN t.parents |->
                      IF c \in classes THEN With(t.parents[c], n, FALSE) ELSE t.parents[c]],
       useIn |-> With(t.useIn, n, uses),
       sig |-> With(t.sig, Signature(n, rt), n)]

\* removeSig and removeFromUseVectorsExcept; with keep = none, removeFromUseVectors.
RemovedExcept(t, n, rt, keep) ==
  LET classes == {rt[Args(n)[i]] : i \in t.useIn[n]} \ {keep}
  IN  [t EXCEPT !.parents = [c \in DOMAIN @ |->
                               IF c \in classes THEN Without(@[c], {n}) ELSE @[c]],
                !.sig = Without(@, {Signature(n, rt)})]

ValidParents(t, y) == {p \in DOMAIN t.parents[y] : ~t.parents[y][p]}

processParentsBeforeMerge(t, y) ==
  FoldSet(LAMBDA p, u : RemovedExcept(u, p, root, y), t, ValidParents(t, y))

\* Mutant of processParentsAfterMerge: only the first congruence is followed.
processParentsAfterMergeFirst(t, y, order, rt) ==
  FoldLeft(LAMBDA s, p :
             IF containsSig(s.t, p, rt)
             THEN [t |-> [s.t EXCEPT !.parents[y][p] = TRUE],
                   found |-> <<<<p, s.t.sig[Signature(p, rt)]>>>>]
             ELSE [s EXCEPT !.t = Inserted(s.t, p, rt)],
           [t |-> t, found |-> <<>>], order)

\* processParentsAfterMerge, the entries of y's vector in the given order: the tables,
\* and the congruences found.
processParentsAfterMerge(t, y, order, rt) ==
  FoldLeft(LAMBDA s, p :
             IF containsSig(s.t, p, rt)
             THEN [t |-> [s.t EXCEPT !.parents[y][p] = TRUE],
                   found |-> Append(s.found, <<p, s.t.sig[Signature(p, rt)]>>)]
             ELSE [s EXCEPT !.t = Inserted(s.t, p, rt)],
           [t |-> t, found |-> <<>>], order)

processParentsBeforeUnMerge(t, y) ==
  [FoldSet(LAMBDA p, u : RemovedExcept(u, p, root, none), t, ValidParents(t, y))
     EXCEPT !.parents[y] = [p \in DOMAIN @ |-> FALSE]]

processParentsAfterUnMerge(t, y, rt) ==
  FoldSet(LAMBDA p, u : Inserted(u, p, rt), t, ValidParents(t, y))

-----------------------------------------------------------------------------
\* Forbid lists.  f is a value of forbids.
ForbidList(f, p) ==
  IF f.first[p] = 0 THEN <<>>
  ELSE Circle([c \in DOMAIN f.cells |-> f.cells[c].link], f.first[p])

\* A new cell for p in the list of q: the first one, or the one after the first.
AddCell(f, p, q, reason) ==
  LET c == Max(DOMAIN f.cells \cup {0}) + 1
      first == f.first[q]
      cell(link) == [e |-> p, reason |-> reason, link |-> link]
  IN  IF first = 0
      THEN [first |-> [f.first EXCEPT ![q] = c], cells |-> With(f.cells, c, cell(c))]
      ELSE [f EXCEPT !.cells = [With(@, c, cell(@[first].link)) EXCEPT ![first].link = c]]

assertNEq(f, p, q, reason) == AddCell(AddCell(f, p, q, reason), q, p, reason)

\* Half of undoDisequality: remove the cell put into the list of x last.
LastCell(f, x) ==
  IF f.cells[f.first[x]].link = f.first[x] THEN f.first[x] ELSE f.cells[f.first[x]].link
DropCell(f, x) ==
  LET c == LastCell(f, x) IN
  IF f.cells[c].link = c
  THEN [first |-> [f.first EXCEPT ![x] = 0], cells |-> Without(f.cells, {c})]
  ELSE [f EXCEPT !.cells = Without([@ EXCEPT ![f.first[x]].link = f.cells[c].link], {c})]

\* Mutant of undoDisequality: the other side keeps its cell.
undoDisequalityHalf(f, x) == DropCell(f, x)

undoDisequality(f, x) == DropCell(DropCell(f, x), f.cells[LastCell(f, x)].e)

Spliced(f, x, y) ==
  [f EXCEPT !.cells[f.first[x]].link = f.cells[f.first[y]].link,
            !.cells[f.first[y]].link = f.cells[f.first[x]].link]

mergeForbidLists(f, x, y) ==
  IF f.first[y] = 0 THEN f
  ELSE IF f.first[x] = 0 THEN [f EXCEPT !.first[x] = f.first[y]]
  ELSE Spliced(f, x, y)

unmergeForbidLists(f, x, y) ==
  IF f.first[y] = 0 THEN f
  ELSE IF f.first[x] = f.first[y] THEN [f EXCEPT !.first[x] = 0]
  ELSE Spliced(f, x, y)

mergeDistinctionClasses(x, y) == [dist EXCEPT ![x] = @ \cup dist[y]]

unmergeDistinctionClasses(x, y) == [dist EXCEPT ![x] = @ \ dist[y]]

\* unmergeable, the last part: both lists are walked at once, until one of them ends.
forbidden(p, q) ==
  LET ps == ForbidList(forbids, p)
      qs == ForbidList(forbids, q)
      Names(c, r) == root[forbids.cells[c].e] = r
      hits == {k \in 1 .. Min({Len(ps), Len(qs)}) : Names(ps[k], q) \/ Names(qs[k], p)}
      k == Min(hits)
  IN  IF hits = {} THEN Undef
      ELSE forbids.cells[IF Names(ps[k], q) THEN ps[k] ELSE qs[k]].reason

\* unmergeable: why p and q may not be merged, or Undef.
unmergeable(p, q) ==
  IF p \in Constant /\ q \in Constant THEN <<"cons", none>>
  ELSE IF dist[p] \cap dist[q] # {}
  THEN <<"std", <<CHOOSE d \in dist[p] \cap dist[q] : TRUE, TRUE>>>>
  ELSE forbidden(p, q)

-----------------------------------------------------------------------------
\* Explainer.  An edge of the proof forest is named by its lower end.
Up(par, v) ==
  LET path[k \in Nat] == IF k = 0 THEN <<v>>
                         ELSE LET s == path[k - 1] IN
                              IF par[Last(s)] = none THEN s ELSE Append(s, par[Last(s)])
  IN  path[Cardinality(DOMAIN par)]

\* reRootOn.
Rerooted(f, y) ==
  LET s == Up(f.parent, y)
      Below(v) == s[(CHOOSE i \in DOMAIN s : s[i] = v) - 1]
  IN  [f EXCEPT !.parent = [v \in DOMAIN @ |-> IF v = y THEN none
                                               ELSE IF v \in Range(s) THEN Below(v) ELSE @[v]],
                !.reason = [v \in DOMAIN @ |-> IF v = y THEN Undef
                                               ELSE IF v \in Range(s) THEN @[Below(v)] ELSE @[v]]]

\* storeExplanation: the tree of the smaller class is rerooted and hung below the other.
storeExplanation(x, y, reason) ==
  LET Size(v) == Len(Circle(eqNext, v))
      low  == IF Size(x) < Size(y) THEN x ELSE y
      high == IF low = y THEN x ELSE y
      f == Rerooted(forest, low)
  IN  [parent |-> [f.parent EXCEPT ![low] = high], reason |-> [f.reason EXCEPT ![low] = reason],
       undo |-> f.undo \o <<high, low>>]

\* removeExplanation: cut the edge between the two nodes stored last, whichever way it
\* points by now.
removeExplanation(f) ==
  LET n == Len(f.undo)
      v == IF f.parent[f.undo[n]] = f.undo[n - 1] THEN f.undo[n] ELSE f.undo[n - 1]
  IN  [parent |-> [f.parent EXCEPT ![v] = none], reason |-> [f.reason EXCEPT ![v] = Undef],
       undo |-> SubSeq(f.undo, 1, n - 2)]

\* explain: the edges on the path between x and y, up to their nearest common ancestor,
\* and for an edge of a congruence the edges between the arguments.
PathEdges(par, x, y) ==
  LET Edges(v) == {w \in Range(Up(par, v)) : par[w] # none} IN SymDiff(Edges(x), Edges(y))
ArgumentEdges(par, v) ==
  UNION {PathEdges(par, Args(v)[i], Args(par[v])[i]) : i \in DOMAIN Args(v)}
explain(f, x, y) ==
  LET edges[k \in Nat] ==
        IF k = 0 THEN PathEdges(f.parent, x, y)
        ELSE LET E == edges[k - 1] IN
             E \cup UNION {ArgumentEdges(f.parent, v) : v \in {w \in E : f.reason[w] = Undef}}
  IN  {f.reason[v] : v \in edges[Cardinality(declared)]} \ {Undef}

-----------------------------------------------------------------------------
Subterms(a) ==
  LET below[k \in Nat] == IF k = 0 THEN {a}
                          ELSE LET S == below[k - 1] IN S \cup UNION {Range(Args(n)) : n \in S}
  IN  below[Cardinality(DOMAIN Node)]
NewNodes(a) ==
  LET S == Subterms(a) IN (S \cup {Negation[p] : p \in S \cap DOMAIN Negation}) \ declared

\* Egraph::declareAtom with declareTerm for every new term: signatures and use vectors,
\* unless a term with the same signature is in the table; a Boolean term and its
\* negation are made different.
DeclareAtom(a) ==
  LET new  == NewNodes(a)
      rt   == [n \in declared \cup new |-> IF n \in new THEN n ELSE root[n]]
      Add(f, val) == [n \in declared \cup new |-> IF n \in new THEN val ELSE f[n]]
      late == backtrack_points # <<>>
      opposed == SetToSeq(new \cap DOMAIN Negation)
  IN  /\ Idle /\ a \notin declared
      /\ late => ok /\ a \in Late /\ new = {a}
      /\ declared' = declared \cup new
      /\ root' = rt /\ eqNext' = [n \in DOMAIN rt |-> IF n \in new THEN n ELSE eqNext[n]]
      /\ dist' = Add(dist, {})
      /\ tables' = FoldSet(LAMBDA n, t : IF containsSig(t, n, rt) THEN t ELSE Inserted(t, n, rt),
                           [tables EXCEPT !.parents = Add(@, <<>>)], new \cap Compound)
      /\ forest' = [forest EXCEPT !.parent = Add(@, none), !.reason = Add(@, Undef)]
      /\ forbids' = FoldLeft(LAMBDA f, p : assertNEq(f, p, Negation[p], <<"pol", p>>),
                             [forbids EXCEPT !.first = Add(@, 0)], opposed)
      /\ undo_stack_main' =
           undo_stack_main \o (IF late THEN <<<<"REANALYZE", a>>>> ELSE <<>>)
                           \o [i \in DOMAIN opposed |-> <<"DISEQ", Negation[opposed[i]]>>]
      /\ UNCHANGED <<tsolverVars, callVars>>

\* addTrue and addFalse: the calls of assertEq for the truth of a literal's term.
Truth(l) ==
  LET Value(b) == IF b THEN "true" ELSE "false" IN
  <<<<l[1], Value(l[2])>>>> \o (IF l[1] \in DOMAIN Negation
                                 THEN <<<<Negation[l[1]], Value(~l[2])>>>> ELSE <<>>)

\* assertDist: the bit is set on the roots of the arguments, or on none of them when two
\* of them are equal.
assertDist(l) ==
  LET A == Args(l[1])
      second == {i \in DOMAIN A : \E j \in 1 .. i - 1 : root[A[j]] = root[A[i]]}
      i == Min(second)
      j == CHOOSE k \in 1 .. i - 1 : root[A[k]] = root[A[i]]
  IN  IF second # {}
      THEN /\ explanation' = explain(forest, A[i], A[j]) \cup {l}
           /\ ok' = FALSE
           /\ undo_stack_main' = Append(undo_stack_main, <<"SET_POLARITY", l[1]>>)
           /\ UNCHANGED dist
      ELSE /\ dist' = [n \in declared |-> IF \E k \in DOMAIN A : root[A[k]] = n
                                          THEN dist[n] \cup {l[1]} ELSE dist[n]]
           /\ undo_stack_main' = undo_stack_main \o <<<<"SET_POLARITY", l[1]>>, <<"DIST", l[1]>>>>
           /\ UNCHANGED <<ok, explanation>>

\* TSolver::pushBacktrackPoint, as TSolverHandler::assertLit does before every literal;
\* the literals of level 0 come first.
PushPoint(l) ==
  /\ Idle /\ ok /\ l[1] \in declared /\ \A i \in DOMAIN told : told[i][1] # l[1]
  /\ Len(told) < Len(Fixed) => l = Fixed[Len(told) + 1]
  /\ told' = Append(told, l)
  /\ backtrack_points' = Append(backtrack_points, Len(undo_stack_main))
  /\ deductions_lim' = Append(deductions_lim, Len(th_deductions))

Known(l) == l[1] \in DOMAIN polarity /\ polarity[l[1]] = l[2]

\* assertLit of a literal that is known by deduction.
AssertKnown(l) ==
  /\ PushPoint(l) /\ Known(l)
  /\ UNCHANGED <<declared, graphVars, undo_stack_main, polarity, th_deductions, callVars>>

\* assertLit of an equality or of another atom: the merges are left to do.
AssertTrue(l) ==
  /\ PushPoint(l) /\ ~Known(l)
  /\ l[1] \in Predicate \/ (l[1] \in Equality /\ l[2])
  /\ polarity' = With(polarity, l[1], l[2])
  /\ undo_stack_main' = Append(undo_stack_main, <<"SET_POLARITY", l[1]>>)
  /\ todo' = (IF l[1] \in Equality THEN <<Args(l[1])>> ELSE <<>>) \o Truth(l)
  /\ UNCHANGED <<declared, graphVars, th_deductions, pending, congruence, popping, reanalyzed,
                 ok, explanation>>

\* assertLit of a disequality: addDisequality.
AssertDifferent(l) ==
  LET x == Args(l[1])[1]
      y == Args(l[1])[2]
  IN  /\ PushPoint(l) /\ ~Known(l) /\ l[1] \in Equality /\ ~l[2]
      /\ polarity' = With(polarity, l[1], l[2])
      /\ IF root[x] = root[y]
         THEN /\ explanation' = explain(forest, x, y) \cup {l}
              /\ ok' = FALSE
              /\ undo_stack_main' = Append(undo_stack_main, <<"SET_POLARITY", l[1]>>)
              /\ UNCHANGED <<forbids, todo>>
         ELSE /\ forbids' = assertNEq(forbids, root[x], root[y], <<"std", l>>)
              /\ undo_stack_main' =
                   undo_stack_main \o <<<<"SET_POLARITY", l[1]>>, <<"DISEQ", root[y]>>>>
              /\ todo' = Truth(l)
              /\ UNCHANGED <<ok, explanation>>
      /\ UNCHANGED <<declared, root, eqNext, dist, tables, forest, th_deductions, pending,
                     congruence, popping, reanalyzed>>

\* assertLit of a distinction.
AssertDistinct(l) ==
  /\ PushPoint(l) /\ ~Known(l) /\ l[1] \in Distinct /\ l[2]
  /\ polarity' = With(polarity, l[1], l[2])
  /\ assertDist(l)
  /\ UNCHANGED <<declared, root, eqNext, forbids, tables, forest, th_deductions, todo, pending,
                 congruence, popping, reanalyzed>>

-----------------------------------------------------------------------------
\* assertEq: the next one of the calls left.
AssertEq ==
  /\ todo # <<>> /\ pending = <<>>
  /\ pending' = <<Head(todo)>> /\ todo' = Tail(todo) /\ congruence' = FALSE
  /\ UNCHANGED <<declared, graphVars, undo_stack_main, tsolverVars, popping, reanalyzed, ok,
                 explanation>>

\* mergeLoop: a pair in one class already.
SkipPending ==
  /\ pending # <<>> /\ root[Last(pending)[1]] = root[Last(pending)[2]]
  /\ pending' = Front(pending)
  /\ UNCHANGED <<declared, graphVars, undo_stack_main, tsolverVars, todo, congruence, popping,
                 reanalyzed, ok, explanation>>

\* The proof forest with the edge for the pair taken from pending.
WithEdge(p, q) == storeExplanation(p, q, IF congruence THEN Undef ELSE Last(told))

\* mergeLoop: the explanation of a conflict.
conflictOf(f, p, q, why) ==
  IF why[1] = "cons" THEN explain(f, root[p], root[q])
  ELSE IF why[1] = "pol" THEN explain(f, Negation[why[2]], why[2])
  ELSE LET A == Args(why[2][1])
           In(r) == A[Max({i \in DOMAIN A : root[A[i]] = r})]
       IN  {why[2]} \cup (IF why[2][1] \in Distinct THEN explain(f, In(root[p]), In(root[q]))
                          ELSE explain(f, A[1], A[2]))

\* mergeLoop: two classes that may not be merged.
Conflict ==
  /\ pending # <<>>
  /\ LET p   == Last(pending)[1]
         q   == Last(pending)[2]
         why == unmergeable(root[p], root[q])
     IN  /\ root[p] # root[q] /\ why # Undef
         /\ explanation' = conflictOf(WithEdge(p, q), p, q, why)
         /\ forest' = removeExplanation(WithEdge(p, q))
  /\ pending' = <<>> /\ todo' = <<>> /\ ok' = FALSE
  /\ UNCHANGED <<declared, root, eqNext, forbids, dist, tables, undo_stack_main, tsolverVars,
                 congruence, popping, reanalyzed>>

\* deduce: the atoms of y's class that are not known, when x is true or false.
deduce(x, y) ==
  IF x \notin {"true", "false"} THEN <<>>
  ELSE LET Open(v) == v \notin DOMAIN polarity /\ v \notin Range(Negation)
           atoms == SelectSeq(Circle(eqNext, y), Open)
       IN  [i \in DOMAIN atoms |-> <<atoms[i], x = "true">>]

\* mergeLoop and merge: the constant, or the class with more parents, becomes the root.
Merge ==
  /\ pending # <<>>
  /\ LET p  == Last(pending)[1]
         q  == Last(pending)[2]
         rp == root[p]
         rq == root[q]
         swap == \/ rq \in Constant
                 \/ /\ rp \notin Constant
                    /\ Cardinality(DOMAIN tables.parents[rp]) < Cardinality(DOMAIN tables.parents[rq])
         x  == IF swap THEN rq ELSE rp
         y  == IF swap THEN rp ELSE rq
         rt == [n \in declared |-> IF root[n] = y THEN x ELSE root[n]]
         deduced == deduce(x, y)
     IN  /\ rp # rq /\ unmergeable(rp, rq) = Undef
         /\ forest' = WithEdge(p, q)
         /\ th_deductions' = th_deductions \o deduced
         /\ polarity' = FoldLeft(LAMBDA f, l : With(f, l[1], l[2]), polarity, deduced)
         /\ forbids' = mergeForbidLists(forbids, x, y)
         /\ dist' = mergeDistinctionClasses(x, y)
         /\ root' = rt
         /\ eqNext' = [eqNext EXCEPT ![x] = eqNext[y], ![y] = eqNext[x]]
         /\ \E order \in SetToSeqs(ValidParents(tables, y)) :
              LET s == processParentsAfterMerge(processParentsBeforeMerge(tables, y), y, order, rt)
              IN  /\ tables' = s.t
                  /\ pending' = Front(pending) \o s.found
         /\ undo_stack_main' = Append(undo_stack_main, <<"MERGE", y>>)
  /\ congruence' = TRUE
  /\ UNCHANGED <<declared, backtrack_points, deductions_lim, told, todo, popping, reanalyzed,
                 ok, explanation>>

-----------------------------------------------------------------------------
\* TSolver::popBacktrackPoints; the literals of level 0 are popped with clearSearch only.
PopBacktrackPoints(n) ==
  /\ Idle /\ n \in 1 .. Len(told)
  /\ Len(told) - n \in {0} \cup Len(Fixed) .. Len(told)
  /\ popping' = n /\ explanation' = {}
  /\ UNCHANGED <<declared, graphVars, undo_stack_main, tsolverVars, todo, pending, congruence,
                 reanalyzed, ok>>

\* backtrackToStackSize: a record of the given kind is on top.
Undoing(kind) ==
  /\ popping > 0 /\ Len(undo_stack_main) > Last(backtrack_points)
  /\ Last(undo_stack_main)[1] = kind
  /\ undo_stack_main' = Front(undo_stack_main)
undone == Last(undo_stack_main)[2]

UndoMerge ==
  LET y  == undone
      x  == root[y]
      next == [eqNext EXCEPT ![x] = eqNext[y], ![y] = eqNext[x]]
      rt == [n \in declared |-> IF n \in Range(Circle(next, y)) THEN y ELSE root[n]]
  IN  /\ Undoing("MERGE")
      /\ root' = rt /\ eqNext' = next
      /\ tables' = processParentsAfterUnMerge(processParentsBeforeUnMerge(tables, y), y, rt)
      /\ dist' = unmergeDistinctionClasses(x, y)
      /\ forbids' = unmergeForbidLists(forbids, x, y)
      /\ forest' = removeExplanation(forest)
      /\ UNCHANGED <<declared, tsolverVars, callVars>>

UndoDisequality ==
  /\ Undoing("DISEQ")
  /\ forbids' = undoDisequality(forbids, undone)
  /\ UNCHANGED <<declared, root, eqNext, dist, tables, forest, tsolverVars, callVars>>

\* undoDistinction: the bit is cleared on the arguments, not on their roots.
UndoDistinction ==
  /\ Undoing("DIST")
  /\ dist' = [n \in declared |-> IF n \in Range(Args(undone)) THEN dist[n] \ {undone} ELSE dist[n]]
  /\ UNCHANGED <<declared, root, eqNext, forbids, tables, forest, tsolverVars, callVars>>

UndoPolarity ==
  /\ Undoing("SET_POLARITY")
  /\ polarity' = Without(polarity, {undone})
  /\ UNCHANGED <<declared, graphVars, backtrack_points, th_deductions, deductions_lim, told,
                 callVars>>

UndoDeclaration ==
  /\ Undoing("REANALYZE")
  /\ tables' = IF tables.sig[Signature(undone, root)] = undone
               THEN RemovedExcept(tables, undone, root, none) ELSE tables
  /\ reanalyzed' = Append(reanalyzed, undone)
  /\ UNCHANGED <<declared, root, eqNext, forbids, dist, forest, tsolverVars, todo, pending,
                 congruence, popping, ok, explanation>>

reanalyze(s, n, deep) ==
  [t |-> IF containsSig(s.t, n, root) THEN s.t ELSE Inserted(s.t, n, root),
   records |-> s.records \o (IF deep THEN <<<<"REANALYZE", n>>>> ELSE <<>>)]

\* TSolver::popBacktrackPoint: the polarities left.
restored(lim) ==
  Without(polarity, {th_deductions[i][1] : i \in lim + 1 .. Len(th_deductions)})

\* The end of popBacktrackPoint: reanalyze, and TSolver::popBacktrackPoint.
PopPoint ==
  LET lim == Last(deductions_lim)
      s == FoldLeft(LAMBDA u, n : reanalyze(u, n, Len(backtrack_points) > 1),
                    [t |-> tables, records |-> <<>>], reanalyzed)
  IN  /\ popping > 0 /\ Len(undo_stack_main) = Last(backtrack_points)
      /\ popping' = popping - 1 /\ reanalyzed' = <<>> /\ ok' = TRUE
      /\ tables' = s.t /\ undo_stack_main' = undo_stack_main \o s.records
      /\ backtrack_points' = Front(backtrack_points) /\ told' = Front(told)
      /\ deductions_lim' = Front(deductions_lim)
      /\ th_deductions' = SubSeq(th_deductions, 1, lim)
      /\ polarity' = restored(lim)
      /\ UNCHANGED <<declared, root, eqNext, forbids, dist, forest, todo, pending, congruence,
                     explanation>>

-----------------------------------------------------------------------------
Init ==
  /\ declared = {"true", "false"}
  /\ root = [n \in declared |-> n] /\ eqNext = root
  /\ forbids = [first |-> [n \in declared |-> 0], cells |-> <<>>]
  /\ dist = [n \in declared |-> {}]
  /\ tables = [parents |-> [n \in declared |-> <<>>], useIn |-> <<>>, sig |-> <<>>]
  /\ forest = [parent |-> [n \in declared |-> none], reason |-> [n \in declared |-> Undef],
               undo |-> <<>>]
  /\ undo_stack_main = <<>> /\ backtrack_points = <<>> /\ polarity = <<>>
  /\ th_deductions = <<>> /\ deductions_lim = <<>> /\ told = <<>>
  /\ todo = <<>> /\ pending = <<>> /\ congruence = FALSE /\ popping = 0 /\ reanalyzed = <<>>
  /\ ok = TRUE /\ explanation = {}

Next ==
  \/ \E a \in BooleanTerm : DeclareAtom(a)
  \/ \E l \in Literal : AssertKnown(l) \/ AssertTrue(l) \/ AssertDifferent(l) \/ AssertDistinct(l)
  \/ AssertEq \/ SkipPending \/ Conflict \/ Merge
  \/ \E n \in 1 .. Len(told) : PopBacktrackPoints(n)
  \/ UndoMerge \/ UndoDisequality \/ UndoDistinction \/ UndoPolarity \/ UndoDeclaration
  \/ PopPoint

Spec == Init /\ [][Next]_vars

-----------------------------------------------------------------------------
TypeOK ==
  /\ declared \subseteq DOMAIN Node
  /\ root \in [declared -> declared] /\ eqNext \in [declared -> declared]
  /\ \A n \in declared : root[root[n]] = root[n] /\ Range(Circle(eqNext, n)) =
       {m \in declared : root[m] = root[n]}
  /\ Range(forbids.first) \subseteq DOMAIN forbids.cells \cup {0}
  /\ \A c \in DOMAIN forbids.cells : forbids.cells[c].link \in DOMAIN forbids.cells
  /\ dist \in [declared -> SUBSET Distinct]
  /\ DOMAIN tables.parents = declared /\ Range(tables.sig) \subseteq declared \cap Compound
  /\ forest.parent \in [declared -> declared \cup {none}]
  /\ Len(backtrack_points) = Len(told) /\ Len(deductions_lim) = Len(told)
  /\ Range(told) \cup Range(th_deductions) \subseteq Literal
  /\ DOMAIN polarity \subseteq BooleanTerm /\ popping \in 0 .. Len(told)

Plain == DOMAIN Node \ (BooleanTerm \cup Range(Negation) \cup {"true", "false"})
Satisfiable(S) == \E t \in Truths : S \subseteq t.lits
Implies(S, l) == \A t \in Truths : S \subseteq t.lits => l \in t.lits

\* The Boolean arguments of functions have values: the SAT solver decides them all.
BooleansKnown ==
  \A p \in Predicate : (\E n \in Compound : p \in Range(Args(n))) => p \in DOMAIN polarity

\* assertLit reports a conflict exactly when the literals told are unsatisfiable:
\* congruence closure is sound, and it is complete once the Boolean arguments are known,
\* whatever was asserted and undone before.
VerdictCorrect ==
  Idle => /\ ~ok => ~Satisfiable(Range(told))
          /\ ok /\ BooleansKnown => Satisfiable(Range(told))

\* Two terms are in one class exactly when the literals told make them equal.
ClassesCorrect ==
  Idle /\ ok /\ BooleansKnown =>
    \A s \in (Plain \cap declared) \X (Plain \cap declared) :
      root[s[1]] = root[s[2]] <=>
        \A t \in Truths : Range(told) \subseteq t.lits => s \in t.same

\* A conflict consists of literals told that are unsatisfiable together: the forest
\* still connects the terms by the right reasons after rerooting and undoing.
ExplanationCorrect ==
  Idle /\ ~ok => explanation \subseteq Range(told) /\ ~Satisfiable(explanation)

\* A deduction follows from the literals told up to the one that made it, and the literal
\* was not known then; and a known literal follows from the literals told.
DeductionsImplied ==
  Idle => /\ \A k \in DOMAIN th_deductions :
               Implies({told[j] : j \in {i \in DOMAIN told : deductions_lim[i] < k}},
                       th_deductions[k])
          /\ \A a \in DOMAIN polarity : Implies(Range(told), <<a, polarity[a]>>)

Roots == {n \in declared : root[n] = n}
Names(p, q) ==
  LET s == ForbidList(forbids, p) IN \E i \in DOMAIN s : root[forbids.cells[s[i]].e] = q

\* Whenever q is on the forbid list of p then p is on the forbid list of q: what allows
\* unmergeable to stop at the end of the shorter list.
ForbidListsAgree ==
  \A p, q \in Roots : Names(p, q) <=> Names(q, p)

\* The signature table and the use vectors are those of the present classes: every term
\* has its signature in the table, and the terms of the table are exactly the valid
\* entries of the classes of their arguments.
SignaturesCurrent ==
  Idle => /\ \A s \in DOMAIN tables.sig : Signature(tables.sig[s], root) = s
          /\ \A n \in declared \cap Compound : containsSig(tables, n, root)
          /\ \A c \in Roots : DOMAIN tables.parents[c] =
               {n \in Range(tables.sig) : \E i \in DOMAIN Args(n) : root[Args(n)[i]] = c}

\* What is undone is there: the assertions of undoDisequality, removeExplanation,
\* removeSig and clearPolarity hold whenever a record is taken from the undo stack.
UndoFindsItsRecord ==
  popping > 0 /\ Len(undo_stack_main) > Last(backtrack_points) =>
    LET kind == Last(undo_stack_main)[1] IN
    CASE kind = "MERGE" ->
           LET n == Len(forest.undo) IN
           /\ n >= 2
           /\ \/ forest.parent[forest.undo[n]] = forest.undo[n - 1]
              \/ forest.parent[forest.undo[n - 1]] = forest.undo[n]
           /\ root[undone] # undone
           /\ \A p \in ValidParents(tables, undone) : containsSig(tables, p, root)
      [] kind = "DISEQ" ->
           /\ forbids.first[undone] # 0
           /\ LET y == forbids.cells[LastCell(forbids, undone)].e IN
              /\ forbids.first[y] # 0 /\ root[y] # root[undone]
              /\ forbids.cells[LastCell(forbids, y)].e = undone
      [] kind = "SET_POLARITY" -> undone \in DOMAIN polarity
      [] kind = "REANALYZE" -> containsSig(tables, undone, root)
      [] OTHER -> TRUE

\* When every literal is taken back the graph is as it was declared: every class is a
\* single term, and no disequality, distinction, edge or deduction is left.
UndoRestores ==
  Idle /\ told = <<>> =>
    /\ \A n \in declared : root[n] = n /\ dist[n] = {} /\ forest.parent[n] = none
    /\ forest.undo = <<>> /\ polarity = <<>> /\ th_deductions = <<>>
    /\ \A c \in DOMAIN forbids.cells : forbids.cells[c].reason[1] = "pol"
    /\ \A n \in declared : Range(tables.parents[n]) \subseteq {FALSE}

\* What the solver answers, and what its tables must be for that.
Answers == VerdictCorrect /\ ClassesCorrect /\ ExplanationCorrect /\ DeductionsImplied
Structure ==
  TypeOK /\ ForbidListsAgree /\ SignaturesCurrent /\ UndoFindsItsRecord /\ UndoRestores
=============================================================================
