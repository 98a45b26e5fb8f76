-------------------------- MODULE MCTheorySolvers --------------------------
(***************************************************************************)
(* Small instances of the solvers for uninterpreted functions (Egraph) and *)
(* for difference logic (STPSolver).  A behaviour is about one instance,   *)
(* the one part names; the other solver stays as it is constructed, or is  *)
(* not used.                                                               *)
(***************************************************************************)
EXTENDS STPSolver, TLC

VARIABLES
  part,
  egraph_points, egraph_deductions, egraph_lim, egraph_told,
  declared, root, eqNext, forbids, dist, tables, forest, undo_stack_main, polarity,
  todo, pending, congruence, popping, reanalyzed, ok, explanation

egraphVars ==
  <<egraph_points, egraph_deductions, egraph_lim, egraph_told, declared, root, eqNext, forbids, dist, tables, forest, undo_stack_main, polarity,
    todo, pending, congruence, popping, reanalyzed, ok, explanation>>
allVars == <<part, egraphVars, vars>>

Unused == "unused"
EgraphUnused ==
  /\ egraph_points = Unused /\ egraph_deductions = Unused /\ egraph_lim = Unused
  /\ egraph_told = Unused
  /\ declared = Unused /\ root = Unused /\ eqNext = Unused /\ forbids = Unused
  /\ dist = Unused /\ tables = Unused /\ forest = Unused /\ undo_stack_main = Unused
  /\ polarity = Unused /\ todo = Unused /\ pending = Unused /\ congruence = Unused
  /\ popping = Unused /\ reanalyzed = Unused /\ ok = Unused /\ explanation = Unused

-----------------------------------------------------------------------------
\* Enodes.
Leaf(x) == [sym |-> x, args |-> <<>>]
App(f, s) == [sym |-> f, args |-> s]
Truth == {"true", "false"}
Leaves(S) == [x \in Truth \cup S |-> Leaf(x)]

\* The reference for Egraph: values for the terms that agree with the constants, with
\* equality and negation, and that are equal for applications of a symbol to equal
\* arguments.
Congruences(Node, Equality, Distinct, Predicate, Negation) ==
  LET Args(n) == Node[n].args
      Plain == DOMAIN Node \ (Equality \cup Distinct \cup Predicate \cup Range(Negation) \cup Truth)
      order == SetToSeq(Plain)
      Place(n) == CHOOSE i \in DOMAIN order : order[i] = n
      Partition == {u \in [DOMAIN order -> DOMAIN order] :
                      \A i \in DOMAIN u : u[i] <= i /\ u[u[i]] = u[i]}
      Valued(u, w) ==
        [n \in DOMAIN Node |->
           IF n \in Plain THEN 1 + u[Place(n)]
           ELSE IF n \in Predicate THEN w[n]
           ELSE IF n = "true" THEN 1
           ELSE IF n \in Range(Negation)
           THEN 1 - w[CHOOSE p \in DOMAIN Negation : Negation[p] = n]
           ELSE 0]
      Congruent(v) ==
        \A n, m \in {x \in Plain \cup Predicate : Args(x) # <<>>} :
          Node[n].sym = Node[m].sym
          /\ [i \in DOMAIN Args(n) |-> v[Args(n)[i]]] = [i \in DOMAIN Args(m) |-> v[Args(m)[i]]]
          => v[n] = v[m]
      Values == {v \in {Valued(u, w) : u \in Partition, w \in [Predicate -> 0 .. 1]} : Congruent(v)}
      Holds(v, l) ==
        l[2] <=> IF l[1] \in Predicate THEN v[l[1]] = 1
                 ELSE IF l[1] \in Equality THEN v[Args(l[1])[1]] = v[Args(l[1])[2]]
                 ELSE \A i, j \in DOMAIN Args(l[1]) :
                        i # j => v[Args(l[1])[i]] # v[Args(l[1])[j]]
      Lits == (Equality \cup Distinct \cup Predicate) \X BOOLEAN
  IN  {[lits |-> {l \in Lits : Holds(v, l)},
        same |-> {s \in Plain \X Plain : v[s[1]] = v[s[2]]}] : v \in Values}

\* Functions of uninterpreted terms, and an equality that may come late.
FunctionNodes ==
  Leaves({"a", "b", "c"})
  @@ "fa" :> App("f", <<"a">>) @@ "fb" :> App("f", <<"b">>)
  @@ "ab" :> App("=", <<"a", "b">>) @@ "cfa" :> App("=", <<"c", "fa">>)
  @@ "fab" :> App("=", <<"fa", "fb">>) @@ "ac" :> App("=", <<"a", "c">>)
FunctionEqualities == {"ab", "cfa", "fab", "ac"}
FunctionTruths == Congruences(FunctionNodes, FunctionEqualities, {}, {}, <<>>)
Functions == INSTANCE Egraph WITH
  backtrack_points <- egraph_points, th_deductions <- egraph_deductions,
  deductions_lim <- egraph_lim, told <- egraph_told,
  Node <- FunctionNodes, Equality <- FunctionEqualities, Distinct <- {}, Predicate <- {},
  Constant <- Truth, Negation <- <<>>, Late <- {"ac"}, Fixed <- <<>>, Truths <- FunctionTruths

\* Functions of Boolean terms: g(P(a)) and g(not P(b)).
BooleanNodes ==
  Leaves({"a", "b"})
  @@ "p" :> App("P", <<"a">>) @@ "q" :> App("P", <<"b">>)
  @@ "np" :> App("not", <<"p">>) @@ "nq" :> App("not", <<"q">>)
  @@ "gp" :> App("g", <<"p">>) @@ "gn" :> App("g", <<"nq">>)
  @@ "ab" :> App("=", <<"a", "b">>) @@ "gg" :> App("=", <<"gp", "gn">>)
BooleanNegation == "p" :> "np" @@ "q" :> "nq"
BooleanTruths == Congruences(BooleanNodes, {"ab", "gg"}, {}, {"p", "q"}, BooleanNegation)
Boolean == INSTANCE Egraph WITH
  backtrack_points <- egraph_points, th_deductions <- egraph_deductions,
  deductions_lim <- egraph_lim, told <- egraph_told,
  Node <- BooleanNodes, Equality <- {"ab", "gg"}, Distinct <- {}, Predicate <- {"p", "q"},
  Constant <- Truth, Negation <- BooleanNegation, Late <- {}, Fixed <- <<>>,
  Truths <- BooleanTruths

\* A distinction at level 0, alone and after an equality that clashes with it, and a
\* binary function.
DistinctNodes ==
  Leaves({"a", "b", "c", "k"})
  @@ "hab" :> App("h", <<"a", "b">>) @@ "hbb" :> App("h", <<"b", "b">>)
  @@ "dab" :> App("distinct", <<"hab", "hbb", "c">>)
  @@ "ab" :> App("=", <<"a", "b">>) @@ "ck" :> App("=", <<"c", "k">>)
  @@ "hk" :> App("=", <<"hab", "k">>) @@ "ak" :> App("=", <<"a", "k">>)
DistinctEqualities == {"ab", "ck", "hk", "ak"}
DistinctTruths == Congruences(DistinctNodes, DistinctEqualities, {"dab"}, {}, <<>>)
Distinction == INSTANCE Egraph WITH
  backtrack_points <- egraph_points, th_deductions <- egraph_deductions,
  deductions_lim <- egraph_lim, told <- egraph_told,
  Node <- DistinctNodes, Equality <- DistinctEqualities, Distinct <- {"dab"}, Predicate <- {},
  Constant <- Truth, Negation <- <<>>, Late <- {}, Fixed <- <<<<"dab", TRUE>>>>,
  Truths <- DistinctTruths
Clash == INSTANCE Egraph WITH
  backtrack_points <- egraph_points, th_deductions <- egraph_deductions,
  deductions_lim <- egraph_lim, told <- egraph_told,
  Node <- DistinctNodes, Equality <- DistinctEqualities, Distinct <- {"dab"}, Predicate <- {},
  Constant <- Truth, Negation <- <<>>, Late <- {},
  Fixed <- <<<<"ab", TRUE>>, <<"dab", TRUE>>>>, Truths <- DistinctTruths

-----------------------------------------------------------------------------
\* y - x <= c
Leq(y, x, c) == [y |-> y, x |-> x, c |-> c]

\* The reference for STPSolver: assignments of multiples of 1 / scale to the vertices,
\* with a bound and a scale large enough for the atoms.
Differences(V, A, bound, scale) ==
  LET Satisfies(v, l) == l[2] <=> v[A[l[1]].y] - v[A[l[1]].x] <= scale * A[l[1]].c IN
  {{l \in (DOMAIN A) \X BOOLEAN : Satisfies(v, l)} :
     v \in {w \in [V -> -bound .. bound] : w[0] = 0}}

\* A triangle: chains, a cycle, an atom that is the negation of another
\* (x1 - x2 <= 0 and x2 - x1 <= -1), in the module extended.
Triangle == << Leq(1, 2, 0), Leq(2, 1, -1), Leq(2, 3, -1), Leq(3, 1, 0), Leq(1, 3, 1) >>
TriangleDifferences == Differences(0 .. 3, Triangle, 4, 1)
TriangleTruths == TriangleDifferences

\* Bounds of variables against vertex 0, over the reals.
Limits == << Leq(1, 2, 0), Leq(2, 1, -1), Leq(1, 0, 1), Leq(0, 2, -1) >>
LimitTruths == Differences(0 .. 2, Limits, 12, 4)
Dense == INSTANCE STPSolver WITH
  Vertex <- 0 .. 2, Atom <- Limits, RealLogic <- TRUE, MaxInt <- 100, Mantissa <- 128,
  SearchSteps <- 16, MaxTime <- 4, Truths <- LimitTruths

\* Sums that leave the range of the integers.
Large == << Leq(1, 0, -7), Leq(2, 1, -7), Leq(0, 2, 6), Leq(2, 0, 3) >>
LargeTruths == Differences(0 .. 2, Large, 22, 1)
Overflowing == INSTANCE STPSolver WITH
  Vertex <- 0 .. 2, Atom <- Large, RealLogic <- FALSE, MaxInt <- 9, Mantissa <- 128,
  SearchSteps <- 16, MaxTime <- 4, Truths <- LargeTruths

-----------------------------------------------------------------------------
MCInit ==
  \/ part = "functions" /\ Functions!Init /\ Init
  \/ part = "booleans" /\ Boolean!Init /\ Init
  \/ part = "distinction" /\ Distinction!Init /\ Init
  \/ part = "clash" /\ Clash!Init /\ Init
  \/ part = "integers" /\ Init /\ EgraphUnused
  \/ part = "reals" /\ Dense!Init /\ EgraphUnused
  \/ part = "overflow" /\ Overflowing!Init /\ EgraphUnused

MCNext ==
  /\ UNCHANGED part
  /\ \/ part = "functions" /\ Functions!Next /\ UNCHANGED vars
     \/ part = "booleans" /\ Boolean!Next /\ UNCHANGED vars
     \/ part = "distinction" /\ Distinction!Next /\ UNCHANGED vars
     \/ part = "clash" /\ Clash!Next /\ UNCHANGED vars
     \/ part = "integers" /\ Next /\ UNCHANGED egraphVars
     \/ part = "reals" /\ Dense!Next /\ UNCHANGED egraphVars
     \/ part = "overflow" /\ Overflowing!Next /\ UNCHANGED egraphVars

MCSpec == MCInit /\ [][MCNext]_allVars

-----------------------------------------------------------------------------
\* Congruence closure answers as the theory of uninterpreted functions does, whatever was
\* asserted and undone before: assertLit reports a conflict exactly when the literals told
\* are unsatisfiable, two terms are in one class exactly when they must be equal, a
\* conflict is unsatisfiable, and deductions follow.
EgraphAnswers ==
  CASE part = "functions" -> Functions!Answers
    [] part = "booleans" -> Boolean!Answers
    [] part = "distinction" -> Distinction!Answers
    [] part = "clash" -> Clash!Answers
    [] OTHER -> TRUE

\* The tables of the graph fit its classes: forbid lists are symmetric, signatures and
\* use vectors are those of the present classes, every undo record finds what it undoes,
\* and nothing is left when all is taken back.
EgraphStructure ==
  CASE part = "functions" -> Functions!Structure
    [] part = "booleans" -> Boolean!Structure
    [] part = "distinction" -> Distinction!Structure
    [] part = "clash" -> Clash!Structure
    [] OTHER -> TRUE

\* The difference logic solver finds every negative cycle and every implied atom, explains
\* them by literals told, deduces what is new, and its model satisfies the literals.
STPAnswers ==
  CASE part = "integers" -> Answers
    [] part = "reals" -> Dense!Answers
    [] part = "overflow" -> Overflowing!Answers
    [] OTHER -> TRUE
=============================================================================
