---------------------------- MODULE ArraySolver ----------------------------
(***************************************************************************)
(* The theory solver for arrays: the graph of weakly equivalent arrays,    *)
(* built anew whenever the strong equivalence of the Egraph has changed,   *)
(* the read-over-weak-equivalence lemmas and the extensionality clauses    *)
(* read off it.                                                            *)
(*                                                                         *)
(* A term is a number.  The Egraph is kept by what this solver asks of it: *)
(* the root of every class (the least member, for the numbering stands for *)
(* the order the Egraph prefers its roots in) and, as the explanation of   *)
(* an equality, a minimal set of asserted equalities that implies it.      *)
(***************************************************************************)
EXTENDS Integers, FiniteSets, FiniteSetsExt

CONSTANTS
    ArrayVars,   \* arrays that are not stores
    Indices,     \* index terms
    Elements,    \* element terms that are not selects
    Stores,      \* store term |-> [array, index, value]
    Selects,     \* select term |-> [array, index]
    Fixed,       \* the literals told at level zero, the axioms among them
    InputAtoms,  \* the equalities of the formula
    Kinds,       \* the checks asked for: complete ones or not (a bound)
    Worlds       \* the reference: the equalities that hold, for every array model

StoreTerms  == DOMAIN Stores
SelectTerms == DOMAIN Selects
ArrayTerms  == ArrayVars \union StoreTerms
ElemTerms   == Elements \union SelectTerms
Terms       == ArrayTerms \union Indices \union ElemTerms

None == 0

\* The equalities that can be told or asked for.
Equalities ==
    UNION {kSubset(2, S) : S \in {ArrayTerms, Indices, ElemTerms}}

Lit(e, sgn) == [eq |-> e, sgn |-> sgn]
Negated(l)  == [l EXCEPT !.sgn = ~@]
Literals    == [eq : Equalities, sgn : BOOLEAN]

-----------------------------------------------------------------------------
(* The strong equivalence: congruence closure of a set of equalities.      *)

Same(P, t, u) == \E c \in P : {t, u} \subseteq c

\* The pairs a partition of the terms makes congruent.
CongruentPairs(P) ==
    {e \in kSubset(2, SelectTerms) : \A t, u \in e :
        /\ Same(P, Selects[t].array, Selects[u].array)
        /\ Same(P, Selects[t].index, Selects[u].index)}
    \union
    {e \in kSubset(2, StoreTerms) : \A t, u \in e :
        /\ Same(P, Stores[t].array, Stores[u].array)
        /\ Same(P, Stores[t].index, Stores[u].index)
        /\ Same(P, Stores[t].value, Stores[u].value)}

Joined(P, e) ==
    {c \in P : c \intersect e = {}} \union {UNION {c \in P : c \intersect e # {}}}

JoinedAll(P, E) == FoldSet(LAMBDA e, acc : Joined(acc, e), P, E)
NewPairs(P) == {e \in CongruentPairs(P) : ~\E c \in P : e \subseteq c}

\* P, and the pairs E still to be joined.
RECURSIVE Closed(_, _)
Closed(P, E) == IF E = {} THEN P ELSE LET Q == JoinedAll(P, E) IN Closed(Q, NewPairs(Q))

\* Terms are shared, so no two are congruent before an equality is asserted.
Classes(E) == Closed({{t} : t \in Terms}, E)

Roots(E) ==
    LET P == Classes(E) IN [t \in Terms |-> Min(CHOOSE c \in P : t \in c)]

VARIABLES
    declared,    \* atoms the solver was informed of
    told,        \* assertedLiterals, as a set (see Backtrack)
    root,        \* getRoot() of the Egraph
    graph,       \* valid, nodes and lemmas
    explanation, \* literals of a conflict; {} when there is none
    splits,      \* splitondemand
    result       \* what the last call answered

vars == <<declared, told, root, graph, explanation, splits, result>>

TrueEqualities(T) == {l.eq : l \in {m \in T : m.sgn}}
isSatisfied(e) == Lit(e, TRUE) \in told
isFalsified(e) == Lit(e, FALSE) \in told

\* The Egraph accepts a set of literals.
Consistent(T) ==
    LET P == Classes(TrueEqualities(T))
    IN  \A l \in T : ~l.sgn => ~\E c \in P : l.eq \subseteq c

recordExplanationOfEgraphEquivalence(x, y) ==
    LET E == TrueEqualities(told)
        Drop(e, acc) == IF Same(Classes(acc \ {e}), x, y) THEN acc \ {e} ELSE acc
    IN  IF x = y THEN {} ELSE {Lit(e, TRUE) : e \in FoldSet(Drop, E, E)}

-----------------------------------------------------------------------------
(* Building the graph.  Nodes are the roots of the array classes.          *)

ArrayNode == [primary |-> None, primaryStore |-> None,
              secondary |-> None, secondaryStore |-> None]

EmptyGraph == [valid |-> FALSE, nodes |-> <<>>, lemmas |-> {}]

StoreIndex(s) == root[Stores[s].index]
IndexOfPrimaryEdge(g, n) == StoreIndex(g[n].primaryStore)

RECURSIVE getRepresentative(_, _)
getRepresentative(g, n) ==
    IF g[n].primary = None THEN n ELSE getRepresentative(g, g[n].primary)

RECURSIVE getIndexedRepresentative(_, _, _)
getIndexedRepresentative(g, n, i) ==
    IF g[n].primary = None THEN n
    ELSE IF IndexOfPrimaryEdge(g, n) # i THEN getIndexedRepresentative(g, g[n].primary, i)
    ELSE IF g[n].secondary = None THEN n
    ELSE getIndexedRepresentative(g, g[n].secondary, i)

\* Mutant: the far end's index is not looked at before the edge is turned.
TurnedAtOnce(g, n) ==
    LET s == g[n].secondary IN
    IF s = None THEN g
    ELSE [g EXCEPT ![s].secondary = n,
                   ![s].secondaryStore = g[n].secondaryStore,
                   ![n].secondary = None,
                   ![n].secondaryStore = None]

\* The secondary edge of n moves on along primary edges until its far end has
\* the same index; then it is turned round.
RECURSIVE makeIndexedWeakRepresentative(_, _)
makeIndexedWeakRepresentative(g, n) ==
    LET s == g[n].secondary IN
    IF s = None THEN g
    ELSE IF IndexOfPrimaryEdge(g, s) # IndexOfPrimaryEdge(g, n)
    THEN makeIndexedWeakRepresentative([g EXCEPT ![n].secondary = g[s].primary], n)
    ELSE LET h == makeIndexedWeakRepresentative(g, s)
         IN  [h EXCEPT ![s].secondary = n,
                       ![s].secondaryStore = h[n].secondaryStore,
                       ![n].secondary = None,
                       ![n].secondaryStore = None]

RECURSIVE makeWeakRepresentative(_, _)
makeWeakRepresentative(g, n) ==
    LET p == g[n].primary IN
    IF p = None THEN g
    ELSE LET h == makeWeakRepresentative(g, p)
             turned == [h EXCEPT ![p].primary = n, ![p].primaryStore = h[n].primaryStore]
         IN  [makeIndexedWeakRepresentative(turned, n) EXCEPT
                 ![n].primary = None, ![n].primaryStore = None]

RECURSIVE mergeSecondary(_, _, _, _, _)
mergeSecondary(g, n, top, store, forbidden) ==
    IF n = top THEN g
    ELSE LET i == IndexOfPrimaryEdge(g, n)
             h == IF i \notin forbidden /\ getIndexedRepresentative(g, n, i) # top
                  THEN [makeIndexedWeakRepresentative(g, n) EXCEPT
                           ![n].secondary = top, ![n].secondaryStore = store]
                  ELSE g
         IN  mergeSecondary(h, g[n].primary, top, store, forbidden \union {i})

\* a is the representative of its class in h.
mergeInto(h, a, s, store) ==
    IF getRepresentative(h, s) = a
    THEN mergeSecondary(h, s, a, store, {StoreIndex(store)})
    ELSE [h EXCEPT ![a].primary = s, ![a].primaryStore = store]
merge(g, store) ==
    LET a == root[Stores[store].array]
        s == root[store]
    IN  IF a = s THEN g ELSE mergeInto(makeWeakRepresentative(g, a), a, s, store)

RECURSIVE mergeAll(_, _)
mergeAll(g, S) ==
    IF S = {} THEN g ELSE LET s == Min(S) IN mergeAll(merge(g, s), S \ {s})

BuiltNodes == mergeAll([n \in {root[a] : a \in ArrayTerms} |-> ArrayNode], StoreTerms)

-----------------------------------------------------------------------------
(* Walking the graph (Traversal, Cursor, ExplanationCursor).               *)

RECURSIVE countPrimaryEdges(_, _)
countPrimaryEdges(g, n) ==
    IF g[n].primary = None THEN 0 ELSE 1 + countPrimaryEdges(g, g[n].primary)

RECURSIVE countSecondaryEdges(_, _, _)
countSecondaryEdges(g, n, i) ==
    IF g[n].primary = None THEN 0
    ELSE IF IndexOfPrimaryEdge(g, n) # i THEN countSecondaryEdges(g, g[n].primary, i)
    ELSE IF g[n].secondary = None THEN 0
    ELSE 1 + countSecondaryEdges(g, g[n].secondary, i)

RECURSIVE findSecondaryNode(_, _, _)
findSecondaryNode(g, n, i) ==
    IF g[n].primary # None /\ IndexOfPrimaryEdge(g, n) # i
    THEN findSecondaryNode(g, g[n].primary, i)
    ELSE n

\* The indices of the stores on the primary path between two nodes.
RECURSIVE collectOverPrimaries(_, _, _)
collectOverPrimaries(g, n, m) ==
    LET c == countPrimaryEdges(g, n)
        d == countPrimaryEdges(g, m)
        Index(x) == Stores[g[x].primaryStore].index
    IN  IF c > d \/ (c = d /\ n # m)
        THEN {Index(n)} \union collectOverPrimaries(g, g[n].primary, m)
        ELSE IF c < d
        THEN {Index(m)} \union collectOverPrimaries(g, n, g[m].primary)
        ELSE {}

\* Cursor::collectOneSecondary: a cursor is a node and the indices passed.
OneSecondary(g, c, i) ==
    LET sec   == findSecondaryNode(g, c.node, i)
        store == g[sec].secondaryStore
        a == root[Stores[store].array]
        s == root[store]
        near == IF findSecondaryNode(g, a, i) = sec THEN a ELSE s
    IN  [node |-> IF near = a THEN s ELSE a,
         indices |-> c.indices \union collectOverPrimaries(g, c.node, near)
                               \union {Stores[store].index}]

\* Cursor c takes a secondary edge towards cursor d: it is farther from the
\* representative, or as far and elsewhere.
Steps(g, c, d, i) ==
    LET m == countSecondaryEdges(g, c.node, i)
        n == countSecondaryEdges(g, d.node, i)
    IN  \/ m > n
        \/ m = n /\ findSecondaryNode(g, c.node, i) # findSecondaryNode(g, d.node, i)

RECURSIVE StoreIndicesBetween(_, _, _, _)
StoreIndicesBetween(g, c, d, i) ==
    IF Steps(g, c, d, i) \/ Steps(g, d, c, i)
    THEN StoreIndicesBetween(g, IF Steps(g, c, d, i) THEN OneSecondary(g, c, i) ELSE c,
                                IF Steps(g, d, c, i) THEN OneSecondary(g, d, i) ELSE d, i)
    ELSE c.indices \union d.indices \union collectOverPrimaries(g, c.node, d.node)

computeStoreIndices(g, n, m, i) ==
    StoreIndicesBetween(g, [node |-> n, indices |-> {}], [node |-> m, indices |-> {}], i)

\* An ExplanationCursor also holds the term it stands at, and the literals.
CursorAt(t) == [node |-> root[t], term |-> t, indices |-> {}, lits |-> {}]

collectOnePrimary(g, c) ==
    LET store == g[c.node].primaryStore
        array == Stores[store].array
        source == IF root[store] = c.node THEN store ELSE array
    IN  [node |-> g[c.node].primary,
         term |-> IF source = store THEN array ELSE store,
         indices |-> c.indices \union {Stores[store].index},
         lits |-> c.lits \union recordExplanationOfEgraphEquivalence(c.term, source)]

\* Both cursors walk to their common node.
RECURSIVE collectPrimaries(_, _, _)
collectPrimaries(g, c, d) ==
    LET m == countPrimaryEdges(g, c.node)
        n == countPrimaryEdges(g, d.node)
    IN  IF m > n \/ (m = n /\ c.node # d.node)
        THEN collectPrimaries(g, collectOnePrimary(g, c), d)
        ELSE IF n > m
        THEN collectPrimaries(g, c, collectOnePrimary(g, d))
        ELSE [indices |-> c.indices \union d.indices,
              lits |-> c.lits \union d.lits
                       \union recordExplanationOfEgraphEquivalence(c.term, d.term)]

\* ExplanationCursor::collectOneSecondary: beyond the store, along the path to it.
CursorBeyond(t, x, path) ==
    [node |-> root[t], term |-> t, indices |-> path.indices \union {x}, lits |-> path.lits]
collectOneSecondary(g, c, i) ==
    LET sec   == findSecondaryNode(g, c.node, i)
        store == g[sec].secondaryStore
        array == Stores[store].array
        near  == IF findSecondaryNode(g, root[store], i) = sec THEN store ELSE array
        far   == IF near = store THEN array ELSE store
    IN  CursorBeyond(far, Stores[store].index, collectPrimaries(g, c, CursorAt(near)))

RECURSIVE WeakPath(_, _, _, _)
WeakPath(g, c, d, i) ==
    IF Steps(g, c, d, i) \/ Steps(g, d, c, i)
    THEN WeakPath(g, IF Steps(g, c, d, i) THEN collectOneSecondary(g, c, i) ELSE c,
                     IF Steps(g, d, c, i) THEN collectOneSecondary(g, d, i) ELSE d, i)
    ELSE collectPrimaries(g, c, d)

\* The literals of a path on which index i is not stored to.
LiteralsAt(path, i) == path.lits \union {Lit({x, i}, FALSE) : x \in path.indices}
explainWeakEquivalencePath(g, a, b, i) == LiteralsAt(WeakPath(g, CursorAt(a), CursorAt(b), i), i)

-----------------------------------------------------------------------------
(* Lemmas.  A lemma is the equality of two selects at one index.           *)

collectLemmaConditions(g) ==
    LET Candidates ==
            {e \in kSubset(2, SelectTerms) : \A r \in e, s \in e : r # s =>
                LET i == root[Selects[r].index] IN
                /\ i = root[Selects[s].index]
                /\ root[r] # root[s]
                /\ getIndexedRepresentative(g, root[Selects[r].array], i)
                   = getIndexedRepresentative(g, root[Selects[s].array], i)}
        Undecided(e) ==
            LET r == Min(e)  s == Max(e)  i == root[Selects[r].index]
                needed == {e} \union {{i, x} : x \in
                    computeStoreIndices(g, root[Selects[s].array], root[Selects[r].array], i)}
            IN  {f \in needed : ~isFalsified(f)}
    IN  {[equality |-> e, undecided |-> Undecided(e)] : e \in Candidates}

buildWeakEq ==
    LET graphOf(g) == [valid |-> TRUE, nodes |-> g, lemmas |-> collectLemmaConditions(g)]
    IN  graphOf(BuiltNodes)

readOverWeakEquivalenceConflict(g, e) ==
    LET r == Selects[Min(e)]  s == Selects[Max(e)]
    IN  explainWeakEquivalencePath(g, r.array, s.array, root[r.index])
        \union recordExplanationOfEgraphEquivalence(r.index, s.index)
        \union {Lit(e, FALSE)}

\* The clause that excludes a set of literals.
ClauseOf(C) == {Negated(l) : l \in C}

-----------------------------------------------------------------------------
(* Extensionality.                                                         *)

\* selectsInfo: the selects filed under a representative and an index, and the
\* one that was filed first.
SelectsAt(g, n, i) ==
    {s \in SelectTerms : /\ root[Selects[s].index] = i
                         /\ getIndexedRepresentative(g, root[Selects[s].array], i) = n}

RECURSIVE ExtensionalityInfo(_, _)
ExtensionalityInfo(g, n) ==
    IF g[n].primary = None
    THEN [weakEqRoot |-> n, weakIRoots |-> {},
          values |-> {<<i, root[Min(SelectsAt(g, n, i))]>> :
                         i \in {j \in {root[x] : x \in Indices} : SelectsAt(g, n, j) # {}}}]
    ELSE LET up == ExtensionalityInfo(g, g[n].primary)
             i  == IndexOfPrimaryEdge(g, n)
             ir == getIndexedRepresentative(g, n, i)
             S  == SelectsAt(g, ir, i)
             Others(P) == {p \in P : p[1] # i}
         IN  [weakEqRoot |-> up.weakEqRoot,
              weakIRoots |-> Others(up.weakIRoots)
                             \union (IF S = {} THEN {<<i, ir>>} ELSE {}),
              values |-> Others(up.values)
                         \union (IF S = {} THEN {} ELSE {<<i, root[Min(S)]>>})]

explainWeakCongruencePath(g, n, m, x) ==
    LET i == root[x]
        nr == getIndexedRepresentative(g, n, i)
        mr == getIndexedRepresentative(g, m, i)
        s == Min(SelectsAt(g, nr, i))
        t == Min(SelectsAt(g, mr, i))
        paths == IF nr = mr THEN {<<n, m>>} ELSE {<<n, Selects[s].array>>, <<m, Selects[t].array>>}
        equal == {<<x, i>>} \union
                 IF nr = mr THEN {} ELSE {<<i, Selects[s].index>>, <<i, Selects[t].index>>, <<s, t>>}
    IN  UNION {explainWeakEquivalencePath(g, p[1], p[2], i) : p \in paths}
        \union UNION {recordExplanationOfEgraphEquivalence(e[1], e[2]) : e \in equal}

\* The literals that make two nodes equal, and their disequality.
computeExtensionalityClause(g, n, m) ==
    LET along(path) == path.lits \union UNION {explainWeakCongruencePath(g, n, m, x) : x \in path.indices}
    IN  {Lit({n, m}, FALSE)} \union along(collectPrimaries(g, CursorAt(n), CursorAt(m)))

RECURSIVE Ancestors(_, _)
Ancestors(g, n) ==
    IF g[n].primary = None THEN {} ELSE {g[n].primary} \union Ancestors(g, g[n].primary)

\* The orders the nodes with equal information can be met in: parents first.
VisitsBy(g, info) ==
    LET twins == {n \in DOMAIN g : \E m \in DOMAIN g \ {n} : info[n] = info[m]}
        k == Cardinality(twins)
        orders == {o \in [1 .. k -> twins] :
                      /\ \A p, q \in 1 .. k : p < q => /\ o[p] # o[q]
                                                       /\ o[q] \notin Ancestors(g, o[p])}
        \* a node is paired with the twin met last before it
        Last1(o, p) == {q \in 1 .. p - 1 : info[o[q]] = info[o[p]]}
    IN  {[p \in {q \in 1 .. k : Last1(o, q) # {}} |-> <<o[p], o[Max(Last1(o, p))]>>] :
            o \in orders}
Visits(g) == VisitsBy(g, [n \in DOMAIN g |-> ExtensionalityInfo(g, n)])

Falsified(C) == C \subseteq told

\* Mutant: no clause is taken for a conflict.
NeverConflict(g, pairs) ==
    [result |-> "complete", explanation |-> {},
     splits |-> {ClauseOf(computeExtensionalityClause(g, pairs[p][1], pairs[p][2])) :
                    p \in DOMAIN pairs}]

\* The answer of checkExtensionality() for one order of visits: the first
\* clause that is falsified is a conflict, else every clause is a split.
ExtensionalityAnswer(C) ==
    LET F == {p \in DOMAIN C : Falsified(C[p])}
    IN  IF F # {} THEN [result |-> "unsat", explanation |-> C[Min(F)], splits |-> {}]
        ELSE [result |-> "complete", explanation |-> {},
              splits |-> {ClauseOf(C[p]) : p \in DOMAIN C}]
checkExtensionality(g, pairs) ==
    ExtensionalityAnswer([p \in DOMAIN pairs |->
                             computeExtensionalityClause(g, pairs[p][1], pairs[p][2])])

-----------------------------------------------------------------------------
(* The calls.                                                              *)

Init ==
    /\ declared = InputAtoms \union {l.eq : l \in Fixed}
    /\ told = Fixed
    /\ root = Roots(TrueEqualities(Fixed))
    /\ graph = EmptyGraph
    /\ explanation = {}
    /\ splits = {}
    /\ result = "none"

Erased(lemmas, e) == {[l EXCEPT !.undecided = @ \ {e}] : l \in lemmas}

\* The solver is asked for new literals only while it has no conflict and its
\* splits were fetched.
Open == result # "unsat" /\ splits = {}

AssertTrue(e) ==
    /\ Open /\ ~isSatisfied(e) /\ ~isFalsified(e)
    /\ Consistent(told \union {Lit(e, TRUE)})
    /\ told' = told \union {Lit(e, TRUE)}
    /\ root' = Roots(TrueEqualities(told) \union {e})
    /\ graph' = EmptyGraph
    /\ explanation' = {}
    /\ result' = "none"
    /\ UNCHANGED <<declared, splits>>

\* A disequality may falsify a lemma of the graph that stands.
AssertFalse(e) ==
    /\ Open /\ ~isSatisfied(e) /\ ~isFalsified(e)
    /\ Consistent(told \union {Lit(e, FALSE)})
    /\ told' = told \union {Lit(e, FALSE)}
    /\ LET lemmas == Erased(graph.lemmas, e)
           empty  == {l \in lemmas : l.undecided = {}}
       IN  /\ graph' = [graph EXCEPT !.lemmas = lemmas]
           /\ IF empty = {}
              THEN explanation' = explanation /\ result' = "none"
              ELSE \E l \in empty :
                   /\ explanation' = readOverWeakEquivalenceConflict(graph.nodes, l.equality)
                   /\ result' = "unsat"
    /\ UNCHANGED <<declared, root, splits>>

\* popBacktrackPoint(): the literal told last goes, the graph and the
\* explanation with it.  As nothing else remembers the order the literals came
\* in, told is kept as a set and any of them may be the last.
Backtrack(l) ==
    /\ splits = {} /\ l \notin Fixed
    /\ told' = told \ {l}
    /\ root' = Roots(TrueEqualities(told \ {l}))
    /\ graph' = EmptyGraph
    /\ explanation' = {}
    /\ result' = "none"
    /\ UNCHANGED <<declared, splits>>

Current == IF graph.valid THEN graph ELSE buildWeakEq

Answered(r) ==
    /\ result' = r.result
    /\ explanation' = IF r.result = "unsat" THEN r.explanation ELSE explanation
    /\ splits' = r.splits

CheckGraph(g, complete) ==
    LET empty == {l \in g.lemmas : l.undecided = {}}
        conflict(l) == readOverWeakEquivalenceConflict(g.nodes, l.equality)
    IN  /\ graph' = g
        /\ \/ /\ empty # {}
              /\ \E l \in empty : explanation' = conflict(l)
              /\ result' = "unsat"
              /\ UNCHANGED splits
           \/ /\ empty = {} /\ ~complete
              /\ result' = "partial"
              /\ UNCHANGED <<explanation, splits>>
           \/ /\ empty = {} /\ complete /\ g.lemmas # {}
              /\ splits' = {ClauseOf(conflict(l)) : l \in g.lemmas}
              /\ result' = "complete"
              /\ UNCHANGED explanation
           \/ /\ empty = {} /\ complete /\ g.lemmas = {}
              /\ \E pairs \in Visits(g.nodes) : Answered(checkExtensionality(g.nodes, pairs))

\* check(complete); a complete check is asked for when every atom has a value.
Check(complete) ==
    /\ Open
    /\ complete => declared = {l.eq : l \in told}
    /\ CheckGraph(Current, complete)
    /\ UNCHANGED <<declared, told, root>>

\* getNewSplits(), and declareAtom() for the equalities of the new clauses.
GetNewSplits ==
    /\ splits # {}
    /\ declared' = declared \union {l.eq : l \in UNION splits}
    /\ splits' = {}
    /\ result' = "none"
    /\ UNCHANGED <<told, root, graph, explanation>>

Next ==
    \/ \E e \in declared : AssertTrue(e) \/ AssertFalse(e)
    \/ \E l \in told : Backtrack(l)
    \/ \E complete \in Kinds : Check(complete)
    \/ GetNewSplits

Spec == Init /\ [][Next]_vars
-----------------------------------------------------------------------------
Realizable(L) == \E w \in Worlds : \A l \in L : l.sgn <=> l.eq \in w

-----------------------------------------------------------------------------
(* Properties.                                                             *)

TypeOK ==
    /\ declared \subseteq Equalities
    /\ told \subseteq Literals
    /\ root \in [Terms -> Terms]
    /\ graph.valid \in BOOLEAN
    /\ graph.valid => DOMAIN graph.nodes = {root[a] : a \in ArrayTerms}
    /\ explanation \subseteq Literals
    /\ \A C \in splits : C \subseteq Literals
    /\ result \in {"none", "partial", "complete", "unsat"}

\* The classes of nodes linked by stores at other indices than i.
Linked(i) ==
    FoldSet(LAMBDA s, acc :
                LET R == {acc[root[s]], acc[root[Stores[s].array]]}
                IN  [n \in DOMAIN acc |-> IF acc[n] \in R THEN Min(R) ELSE acc[n]],
            [n \in {root[a] : a \in ArrayTerms} |-> n],
            {s \in StoreTerms : StoreIndex(s) # i})

\* The graph that merges edge by edge, turning edges round as it goes, has the
\* weak equivalence of the arrays as its classes, and for every index those of
\* the weak equivalence at that index (ArraySolver.h:28-37).
GraphIsWeakEquivalence ==
    graph.valid =>
        \A i \in {None} \union {root[x] : x \in Indices} :
            LET link == Linked(i)
                rep == [n \in DOMAIN graph.nodes |->
                           IF i = None THEN getRepresentative(graph.nodes, n)
                           ELSE getIndexedRepresentative(graph.nodes, n, i)]
            IN  \A n, m \in DOMAIN graph.nodes : rep[n] = rep[m] <=> link[n] = link[m]

\* The graph in use was built for the classes of now: no equality came, and no
\* literal went, since.  What a lemma still waits for are exactly the literals
\* of its clause that are not falsified, although the one comes from walking
\* the graph when it was built and the other from walking it now.
LemmasAreCurrent ==
    LET Waits(l, C) == l.undecided = {m.eq : m \in C \ told} /\ \A m \in C : Negated(m) \notin told
    IN  graph.valid /\ result # "unsat" =>
            /\ graph.nodes = BuiltNodes
            /\ \A l \in graph.lemmas :
                  Waits(l, readOverWeakEquivalenceConflict(graph.nodes, l.equality))

\* A conflict consists of asserted literals.
ConflictIsAsserted ==
    result = "unsat" => explanation # {} /\ explanation \subseteq told

\* What is to be excluded by the conflict or a split.
Excluded == (IF result = "unsat" THEN {explanation} ELSE {}) \union {ClauseOf(C) : C \in splits}

\* Every conflict and every split is a lemma of the theory of arrays: no model
\* satisfies the literals it excludes ("The collection of literals that
\* guarantees the i-weak equivalence", ArraySolver.cc:547).
LemmasAreValid == \A C \in Excluded : ~Realizable(C)

\* The same where the equalities between indices that are asserted now are
\* taken for granted.
LemmasHoldHere ==
    LET here == {l \in told : l.sgn /\ l.eq \subseteq Indices}
    IN  \A C \in Excluded : ~Realizable(C \union here)

\* A complete check that asks for no split: there is an array model of what
\* was asserted.
SatIsRight == result = "complete" /\ splits = {} => Realizable(told)

\* A split gives the search something to decide: it is not satisfied and one
\* of its literals has no value yet, else the search would ask again for ever.
SplitsAreOpen ==
    \A C \in splits : /\ C \intersect told = {}
                      /\ \E l \in C : {l, Negated(l)} \intersect told = {}

\* What the solver answers, and the graph it reads the answers off.
Answers == SatIsRight /\ SplitsAreOpen /\ ConflictIsAsserted /\ LemmasHoldHere
Structure == TypeOK /\ GraphIsWeakEquivalence /\ LemmasAreCurrent
=============================================================================
