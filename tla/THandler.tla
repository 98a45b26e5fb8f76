------------------------------ MODULE THandler ------------------------------
(***************************************************************************)
(* The interface between the SAT solver and the theory solvers (THandler,  *)
(* TSolverHandler, TSolver): the stack of literals the theory has been     *)
(* told, its backtrack points, and the deductions it has made.             *)
(*                                                                         *)
(* Literals are non-zero integers, -l is the negation of l.  The theory is *)
(* given by its minimal inconsistent sets of literals.  What a particular  *)
(* theory solver notices early, and which deductions it makes, is left     *)
(* open; what it reports is always one of these sets.                      *)
(***************************************************************************)
EXTENDS Integers, Sequences, FiniteSets, FiniteSetsExt

CONSTANTS
  Var,             \* SAT variables
  TheoryVar,       \* the variables that stand for theory atoms
  TheoryConflict,  \* minimal inconsistent sets of theory literals
  TheoryModel      \* the assignments of all variables in which no such set is true

var(l) == IF l < 0 THEN -l ELSE l
Lit    == Var \cup {-v : v \in Var}
Negated(c) == {-l : l \in c}

ASSUME VarAssumption ==
  Var \subseteq Nat \ {0} /\ IsFiniteSet(Var) /\ TheoryVar \subseteq Var

\* What a theory solver reports is inconsistent and made of its atoms.
ASSUME TheoryAssumption ==
  /\ \A t \in TheoryConflict : t \subseteq {l \in Lit : var(l) \in TheoryVar}
  /\ \A m \in TheoryModel : /\ \A l \in Lit : l \in m <=> -l \notin m
                            /\ \A t \in TheoryConflict : ~(t \subseteq m)

\* The theory says nothing about the Boolean variables.
ASSUME BooleanAssumption ==
  \A m \in TheoryModel, B \in SUBSET (Var \ TheoryVar) :
    {l \in Lit : l \in m /\ var(l) \in TheoryVar} \cup B
      \cup {-v : v \in (Var \ TheoryVar) \ B} \in TheoryModel

VARIABLES
  stack,            \* THandler::stack, with the polarities the solvers keep
  points,           \* TSolver::deductions_lim and deductions_last
  th_deductions,    \* TSolver::th_deductions
  deductions_next,  \* how many of them have been communicated
  declared          \* the atoms the theory solvers know

theoryVars == <<stack, points, th_deductions, deductions_next, declared>>

\* The literals the theory solvers have been told by the first n of the stack.
Told(n) == {stack[i] : i \in {j \in 1 .. n : j <= Len(stack) /\ var(stack[j]) \in declared}}

\* The conflicts the solvers can report now.
Conflicts == {t \in TheoryConflict : t \subseteq Told(Len(stack))}

\* TSolver::getReasonFor: the conflicts that asserting -l after the first n
\* literals of the stack gives.  All of them blame -l.
ReasonsFor(l, n) == {t \in TheoryConflict : -l \in t /\ t \ {-l} \subseteq Told(n)}

\* The atoms that have a polarity in the solver.
HasPolarity == {var(l) : l \in Told(Len(stack)) \cup Range(th_deductions)}

-----------------------------------------------------------------------------
\* TSolver::pushBacktrackPoint
LimPoint == [lim |-> Len(th_deductions), last |-> deductions_next]

\* The number of backtrack points that belong to stack positions above n.
PointsAbove(n) ==
  Cardinality({i \in n + 1 .. Len(stack) : var(stack[i]) \in declared})

\* Mutant of PopTo: the deductions made above the point are kept.
PopToKeep(left) ==
  /\ points' = SubSeq(points, 1, left)
  /\ UNCHANGED <<th_deductions, deductions_next>>

\* TSolver::popBacktrackPoints until `left' points remain.
PopTo(left) ==
  /\ points' = SubSeq(points, 1, left)
  /\ IF left = Len(points)
     THEN UNCHANGED <<th_deductions, deductions_next>>
     ELSE /\ th_deductions' = SubSeq(th_deductions, 1, points[left + 1].lim)
          /\ deductions_next' = points[left + 1].last

\* THandler::backtrack
Backtrack(n) ==
  /\ stack' = SubSeq(stack, 1, IF n < Len(stack) THEN n ELSE Len(stack))
  /\ PopTo(Len(points) - PointsAbove(n))
  /\ UNCHANGED declared

\* What a theory solver can deduce when it is told l after the literals of the stack.
Deducible(l) ==
  {k \in Lit :
     /\ var(k) \in declared \ (HasPolarity \cup {var(l)})
     /\ \E t \in TheoryConflict : -k \in t /\ t \ {-k} \subseteq Told(Len(stack)) \cup {l}}

\* TSolver::storeDeduction, called from within assertLit of an atom: any of them, in
\* any order, but one literal of an atom only.
Deductions(l) ==
  LET from == IF var(l) \in declared THEN Deducible(l) ELSE {} IN
  {ded \in UNION {[1 .. n -> from] : n \in 0 .. Cardinality(from)} :
     \A i, j \in DOMAIN ded : var(ded[i]) = var(ded[j]) => i = j}

\* One round of THandler::assertLits: the next literal of the trail.
AssertLit(l) ==
  /\ stack' = Append(stack, l)
  /\ points' = IF var(l) \in declared THEN Append(points, LimPoint) ELSE points
  /\ \E ded \in Deductions(l) : th_deductions' = th_deductions \o ded
  /\ UNCHANGED <<deductions_next, declared>>

\* THandler::backtrack to the first n literals followed by assertLits of the
\* others (CoreSMTSolver::cancelUntilVarTempInit and cancelUntilVarTempDone).
Reassert(n) ==
  LET left == Len(points) - PointsAbove(n)
      ded  == IF left = Len(points) THEN th_deductions
              ELSE SubSeq(th_deductions, 1, points[left + 1].lim)
      next == IF left = Len(points) THEN deductions_next ELSE points[left + 1].last
  IN  /\ points' = [i \in 1 .. Len(points) |->
                      IF i <= left THEN points[i] ELSE [lim |-> Len(ded), last |-> next]]
      /\ th_deductions' = ded
      /\ deductions_next' = next
      /\ UNCHANGED <<stack, declared>>

\* THandler::clear followed by the declaration of the atoms in V.
Declare(V) ==
  /\ declared' = V \cap TheoryVar
  /\ UNCHANGED stack
  /\ points' = <<>>
  /\ th_deductions' = <<>>
  /\ deductions_next' = 0
=============================================================================
