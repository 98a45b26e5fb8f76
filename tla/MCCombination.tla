--------------------------- MODULE MCCombination ---------------------------
(***************************************************************************)
(* Instances of the schedule of theory solvers (TSolverHandler), of the    *)
(* combination of functions and arithmetic (UFLATHandler) and of the array *)
(* solver (ArraySolver).  A behaviour is about the instance that part      *)
(* names; the handler stays in its initial state in the others, and what   *)
(* is not of the instance has the value Unused.                            *)
(***************************************************************************)
EXTENDS TSolverHandler, TLC

VARIABLES
  part,
  frames, simplifiedUntil, roots, interfaceVars, knownEqualities, toPropagate, phase,
  sat, model,                                                       \* UFLATHandler
  declared, told, root, graph, explanation, splits, result,         \* ArraySolver
  array_trail, array_stack, array_solvers, array_answer, array_conflict, array_reason,
  array_deducing, array_deds                                        \* the schedule of arrays

uflaVars == <<frames, simplifiedUntil, roots, interfaceVars, knownEqualities, toPropagate,
              phase, sat, model>>
arrayVars == <<declared, told, root, graph, explanation, splits, result>>
scheduleVars == <<array_trail, array_stack, array_solvers, array_answer, array_conflict,
                  array_reason, array_deducing, array_deds>>
allVars == <<part, vars, uflaVars, arrayVars, scheduleVars>>

Unused == "unused"
UFLAUnused ==
  /\ frames = Unused /\ simplifiedUntil = Unused /\ roots = Unused /\ interfaceVars = Unused
  /\ knownEqualities = Unused /\ toPropagate = Unused /\ phase = Unused /\ sat = Unused
  /\ model = Unused
ArrayUnused ==
  /\ declared = Unused /\ told = Unused /\ root = Unused /\ graph = Unused
  /\ explanation = Unused /\ splits = Unused /\ result = Unused
ScheduleUnused ==
  /\ array_trail = Unused /\ array_stack = Unused /\ array_solvers = Unused
  /\ array_answer = Unused /\ array_conflict = Unused /\ array_reason = Unused
  /\ array_deducing = Unused /\ array_deds = Unused

-----------------------------------------------------------------------------
\* The schedule of QF_UFLRA: 1 is x <= 0, 2 is x <= 1, 3 is f(x) = f(y), 4 is x = y.
UFLASchedule == <<"lasolver", "ufsolver">>
UFLAValid == [lasolver |-> {1, 2}, ufsolver |-> {3, 4}]
UFLAInconsistent == [lasolver |-> {{1, -2}}, ufsolver |-> {{4, -3}}]

\* The schedule of QF_AX with b = store(a, j, v): 1 is i = j, 2 is a[i] = a[j], 3 is
\* b[i] = a[i], 4 is a Boolean variable.
ArrayValid == [egraph |-> {1, 2, 3}, arrays |-> {1, 2, 3}]
ArrayInconsistent == [egraph |-> {{1, -2}}, arrays |-> {{-1, -3}}]
ArrayHandler == INSTANCE TSolverHandler WITH
  Var <- 1 .. 4, Schedule <- <<"egraph", "arrays">>, Valid <- ArrayValid,
  Inconsistent <- ArrayInconsistent, Eager <- {"egraph"}, Deducers <- {"egraph"},
  Forgets <- {"egraph", "arrays"},
  trail <- array_trail, stack <- array_stack, solvers <- array_solvers,
  answer <- array_answer, conflict <- array_conflict, reason <- array_reason,
  deducing <- array_deducing, deds <- array_deds

-----------------------------------------------------------------------------
\* Formulas of QF_UFLRA over x, y, the constant 1 and one function.
x == 1
y == 2
one == 3
Numbers == [c \in {one} |-> 1]
yes(a) == <<TRUE, a>>
no(a)  == <<FALSE, a>>
leq(s, t) == <<"leq", s, t>>
eq(s, t) == <<"eq", s, t>>
fx == 101
fy == 102

Same   == {{yes(leq(x, y))}, {yes(leq(y, x))}}      \* x <= y and y <= x
Differ == {{no(eq(fx, fy))}}                        \* f(x) # f(y)
XIsOne == {{yes(eq(x, one))}}                       \* x = 1
Below  == {{no(leq(y, x))}}                         \* x < y
Images == {{no(leq(fx, fy))}}                       \* f(x) > f(y)
Close  == {{no(leq(x, one)), yes(eq(y, one))}, {no(leq(one, y)), yes(eq(one, fx))}}
                                                    \* x > 1 or y = 1, y < 1 or f(x) = 1
MixedFormulas == {Same, Differ, XIsOne, Below, Close}
PurifiedFormulas == {Same, Differ, Images, XIsOne}
FrameFormulas == {Same, Differ, XIsOne, Below}

\* The reference: the sets of formulas that some numbers for x, y, f(x) and f(y) satisfy,
\* the same number for f(x) and f(y) if x and y are equal.
Domain == -2 .. 4
WithModel(Formula) ==
  LET Models == {n \in [{x, y, one, fx, fy} -> Domain] :
                   n[one] = 1 /\ (n[x] = n[y] => n[fx] = n[fy])}
      True(n, l) == l[1] <=> IF l[2][1] = "eq" THEN n[l[2][2]] = n[l[2][3]]
                             ELSE n[l[2][2]] <= n[l[2][3]]
  IN  {S \in SUBSET Formula : \E n \in Models : \A F \in S : \A c \in F : \E l \in c : True(n, l)}
MixedModels == WithModel(MixedFormulas)
PurifiedModels == WithModel(PurifiedFormulas)
FrameModels == WithModel(FrameFormulas)

Deltas1 == -1 .. 1
Mixed == INSTANCE UFLATHandler WITH
  NumVar <- {x, y}, NumConst <- Numbers, Formula <- MixedFormulas, MaxFrames <- 1,
  Pops <- FALSE, Reals <- 0 .. 2, Deltas <- Deltas1, Satisfiable <- MixedModels, answer <- sat
Purified == INSTANCE UFLATHandler WITH
  NumVar <- {x, y}, NumConst <- Numbers, Formula <- PurifiedFormulas, MaxFrames <- 1,
  Pops <- FALSE, Reals <- 0 .. 2, Deltas <- {0}, Satisfiable <- PurifiedModels, answer <- sat
Frames == INSTANCE UFLATHandler WITH
  NumVar <- {x, y}, NumConst <- Numbers, Formula <- FrameFormulas, MaxFrames <- 2,
  Pops <- TRUE, Reals <- 0 .. 2, Deltas <- Deltas1, Satisfiable <- FrameModels, answer <- sat

-----------------------------------------------------------------------------
\* The reference for arrays: the equalities that hold, in every model whose indices and
\* elements come from two small domains.  Index terms are numbered canonically, as
\* renaming an index changes no equality.
Equal(e) == [eq |-> e, sgn |-> TRUE]
ArrayWorlds(ArrayVars, Indices, Elements, Stores, Selects, IndexValues, ElemValues) ==
  LET IndexValuations == {v \in [Indices -> IndexValues] :
        \A i \in Indices : v[i] <= Cardinality({v[j] : j \in {k \in Indices : k < i}})}
      Models == [index : IndexValuations, elem : [Elements -> ElemValues],
                 array : [ArrayVars -> [IndexValues -> ElemValues]]]
      RECURSIVE ValueIn(_, _)
      ValueIn(M, t) ==
        CASE t \in Indices        -> M.index[t]
          [] t \in Elements       -> M.elem[t]
          [] t \in ArrayVars      -> M.array[t]
          [] t \in DOMAIN Selects -> ValueIn(M, Selects[t].array)[M.index[Selects[t].index]]
          [] t \in DOMAIN Stores  ->
               [ValueIn(M, Stores[t].array) EXCEPT
                  ![M.index[Stores[t].index]] = ValueIn(M, Stores[t].value)]
      Sorts == {ArrayVars \cup DOMAIN Stores, Indices, Elements \cup DOMAIN Selects}
      TrueIn(M) == LET val == [t \in UNION Sorts |-> ValueIn(M, t)]
                   IN  {e \in UNION {kSubset(2, S) : S \in Sorts} :
                          \A t \in e, u \in e : val[t] = val[u]}
  IN  {TrueIn(M) : M \in Models}

\* One store: the indices 1, 2, 3, the array 4, its store 5 at index 3 of the element 6,
\* the axiom's select 7, and reads of both arrays at index 2.
OneStore == 5 :> [array |-> 4, index |-> 3, value |-> 6]
OneStoreSelects ==
  7 :> [array |-> 5, index |-> 3] @@ 8 :> [array |-> 4, index |-> 2]
  @@ 9 :> [array |-> 5, index |-> 2]
OneStoreWorlds == ArrayWorlds({4}, 1 .. 3, {6}, OneStore, OneStoreSelects, 0 .. 2, 0 .. 2)
Reads == INSTANCE ArraySolver WITH
  ArrayVars <- {4}, Indices <- 1 .. 3, Elements <- {6}, Stores <- OneStore,
  Selects <- OneStoreSelects, Fixed <- {Equal({6, 7})},
  InputAtoms <- {{1, 2}, {1, 3}, {8, 9}, {6, 8}}, Kinds <- BOOLEAN, Worlds <- OneStoreWorlds

\* Stores that equalities of arrays close to rings: the arrays 4, 5 and 6, the stores
\* 7 .. 10 of one element 11 with their axioms' selects, and reads of 5 and 6 at index 3.
Ring ==
  7 :> [array |-> 5, index |-> 1, value |-> 11] @@ 8 :> [array |-> 5, index |-> 2, value |-> 11]
  @@ 9 :> [array |-> 4, index |-> 2, value |-> 11] @@ 10 :> [array |-> 6, index |-> 2, value |-> 11]
RingSelects ==
  [r \in 12 .. 15 |-> [array |-> r - 5, index |-> Ring[r - 5].index]]
  @@ 16 :> [array |-> 5, index |-> 3] @@ 17 :> [array |-> 6, index |-> 3]
Rings == INSTANCE ArraySolver WITH
  ArrayVars <- {4, 5, 6}, Indices <- 1 .. 3, Elements <- {11}, Stores <- Ring,
  Selects <- RingSelects, Fixed <- {Equal({11, r}) : r \in 12 .. 15},
  InputAtoms <- {{6, 7}, {4, 8}, {6, 9}, {5, 10}, {1, 3}, {2, 3}, {16, 17}},
  Kinds <- {FALSE}, Worlds <- {}

\* The same two stores in either order: the array 3, the stores 4 .. 7 of the element 8
\* and their axioms' selects.
SwapStores ==
  4 :> [array |-> 3, index |-> 1, value |-> 8] @@ 5 :> [array |-> 4, index |-> 2, value |-> 8]
  @@ 6 :> [array |-> 3, index |-> 2, value |-> 8] @@ 7 :> [array |-> 6, index |-> 1, value |-> 8]
SwapSelects == [r \in 9 .. 12 |-> [array |-> r - 5, index |-> SwapStores[r - 5].index]]
SwapWorlds == ArrayWorlds({3}, {1, 2}, {8}, SwapStores, SwapSelects, 0 .. 2, 0 .. 2)
Swap == INSTANCE ArraySolver WITH
  ArrayVars <- {3}, Indices <- {1, 2}, Elements <- {8}, Stores <- SwapStores,
  Selects <- SwapSelects, Fixed <- {Equal({8, r}) : r \in 9 .. 12},
  InputAtoms <- {{1, 2}, {5, 7}}, Kinds <- BOOLEAN, Worlds <- SwapWorlds

\* Two arrays joined through stores of theirs: the arrays 3 and 4, the stores 5 and 6 of
\* the elements 7 and 8, and a read of either array at index 1.
BridgeStores ==
  5 :> [array |-> 3, index |-> 1, value |-> 7] @@ 6 :> [array |-> 4, index |-> 2, value |-> 8]
BridgeSelects ==
  9 :> [array |-> 5, index |-> 1] @@ 10 :> [array |-> 6, index |-> 2]
  @@ 11 :> [array |-> 3, index |-> 1] @@ 12 :> [array |-> 4, index |-> 1]
BridgeWorlds == ArrayWorlds({3, 4}, {1, 2}, {7, 8}, BridgeStores, BridgeSelects, 0 .. 2, 0 .. 2)
Bridge == INSTANCE ArraySolver WITH
  ArrayVars <- {3, 4}, Indices <- {1, 2}, Elements <- {7, 8}, Stores <- BridgeStores,
  Selects <- BridgeSelects, Fixed <- {Equal({7, 9}), Equal({8, 10}), Equal({5, 6})},
  InputAtoms <- {{1, 2}, {3, 4}, {11, 12}}, Kinds <- BOOLEAN, Worlds <- BridgeWorlds

-----------------------------------------------------------------------------
MCInit ==
  /\ Init
  /\ \/ /\ UFLAUnused /\ ArrayUnused
        /\ \/ part = "handler" /\ ScheduleUnused
           \/ part = "array handler" /\ ArrayHandler!Init
     \/ /\ ArrayUnused /\ ScheduleUnused
        /\ \/ part = "mixed" /\ Mixed!Init
           \/ part = "purified" /\ Purified!Init
           \/ part = "frames" /\ Frames!Init
     \/ /\ UFLAUnused /\ ScheduleUnused
        /\ \/ part = "reads" /\ Reads!Init
           \/ part = "rings" /\ Rings!Init
           \/ part = "swap" /\ Swap!Init
           \/ part = "bridge" /\ Bridge!Init

MCNext ==
  /\ UNCHANGED part
  /\ \/ /\ UNCHANGED <<uflaVars, arrayVars>>
        /\ \/ part = "handler" /\ Next /\ UNCHANGED scheduleVars
           \/ part = "array handler" /\ ArrayHandler!Next /\ UNCHANGED vars
     \/ /\ UNCHANGED <<vars, scheduleVars, arrayVars>>
        /\ \/ part = "mixed" /\ Mixed!Next
           \/ part = "purified" /\ Purified!Next
           \/ part = "frames" /\ Frames!Next
     \/ /\ UNCHANGED <<vars, scheduleVars, uflaVars>>
        /\ \/ part = "reads" /\ Reads!Next
           \/ part = "rings" /\ Rings!Next
           \/ part = "swap" /\ Swap!Next
           \/ part = "bridge" /\ Bridge!Next

\* A check that has begun goes on.
Answered == part = "mixed" => phase = "idle"
Searching == part = "mixed" /\ Mixed!Search
Fairness == []<>Answered \/ []<><<Searching>>_allVars

MCSpec == MCInit /\ [][MCNext]_allVars /\ Fairness

-----------------------------------------------------------------------------
\* The solver getReasoningSolverFor picks explains a deduced literal from the stack.
ReasonsFound ==
  [][/\ part = "handler" => ReasonGiven
     /\ part = "array handler" => ArrayHandler!ReasonGiven]_allVars

\* check-sat over functions and arithmetic is right: the equalities exchanged are enough
\* for sat, as long as the interface variables are those of the top frame, no model is
\* lost by substitution, purification and splitting for unsat, and the models agree.
UFLAAnswers ==
  CASE part = "mixed" -> Mixed!Answers
    [] part = "purified" -> Purified!Answers
    [] part = "frames" -> Frames!Answers
    [] OTHER -> TRUE

\* Every check over functions and arithmetic is answered: an exchange makes at least one
\* equality known, and there are finitely many between interface variables.
CheckAnswers == ~Answered ~> Answered

\* Conflicts and splits of the array solver are lemmas (for reads, under the equalities
\* of indices asserted), what is asserted has a model when no split is asked for, and a
\* split leaves something to decide.  What getConflict takes from the schedule with Egraph
\* is inconsistent and was asserted.
ArrayAnswers ==
  CASE part = "array handler" -> ArrayHandler!ConflictIsReal
    [] part = "reads" -> Reads!Answers
    [] part = "rings" -> Rings!ConflictIsAsserted
    [] part = "swap" -> Swap!Answers /\ Swap!LemmasAreValid
    [] part = "bridge" -> Bridge!Answers /\ Bridge!LemmasAreValid
    [] OTHER -> TRUE

\* The graph is the weak equivalence of the arrays as they are now, and Egraph and the
\* array solver follow the trail.
ArrayStructure ==
  CASE part = "array handler" -> ArrayHandler!InSync
    [] part = "reads" -> Reads!Structure
    [] part = "rings" -> Rings!Structure
    [] part = "swap" -> Swap!Structure
    [] part = "bridge" -> Bridge!Structure
    [] OTHER -> TRUE

\* The assertions on the stack, among them those of frames that have been popped down to,
\* are satisfiable when the answer is sat.
FramesSpec == MCInit /\ part = "frames" /\ [][MCNext]_allVars
SatAfterPop == Frames!SatIsRight

\* What a conflict or split of a read holds guarantees it, so that it is a lemma of arrays
\* by itself.
ReadsSpec == MCInit /\ part = "reads" /\ [][MCNext]_allVars
ReadLemmasValid == Reads!LemmasAreValid
=============================================================================
