--------------------------- MODULE TSolverHandler ---------------------------
(***************************************************************************)
(* A schedule of several theory solvers behind one THandler, as the        *)
(* combinations use it: UFLATHandler schedules LASolver and Egraph,        *)
(* ArrayTHandler Egraph and ArraySolver.  Every solver keeps its own       *)
(* literals, backtrack points, deductions and last explanation; the        *)
(* handler asserts to all of them, pops all of them by the same number of  *)
(* points, drains their deductions into one trail, and picks the one that  *)
(* explains a conflict or a deduced literal.                               *)
(*                                                                         *)
(* A solver is given by the atoms it takes and its minimal inconsistent    *)
(* sets of literals.  Literals are non-zero integers, -l the negation.     *)
(***************************************************************************)
EXTENDS Integers, Sequences, FiniteSets, FiniteSetsExt, SequencesExt

CONSTANTS
  Var,           \* SAT variables
  Schedule,      \* TSolverHandler::solverSchedule, a sequence of solvers
  Valid,         \* isValid of each solver: the variables of its atoms
  Inconsistent,  \* each solver's minimal inconsistent sets of literals
  Eager,         \* the solvers that find every conflict in assertLit
  Deducers,      \* the solvers that deduce literals
  Forgets        \* the solvers that drop their explanation when they pop

Solver == Range(Schedule)
var(l) == IF l < 0 THEN -l ELSE l
Lit    == Var \cup {-v : v \in Var}

ASSUME ScheduleAssumption ==
  /\ Var \subseteq Nat \ {0}
  /\ Eager \subseteq Solver /\ Deducers \subseteq Solver /\ Forgets \subseteq Solver
  /\ \A s \in Solver : /\ Valid[s] \subseteq Var
                       /\ \A t \in Inconsistent[s] : t # {} /\ \A l \in t : l \in Lit /\ var(l) \in Valid[s]

\* getReasoningSolverFor asks the first solver that takes an atom, so a solver that
\* deduces must come before the others that take its atoms.  LASolver takes inequalities
\* and Egraph equalities and predicates; ArraySolver takes what Egraph does and deduces
\* nothing.
ASSUME DeducerAssumption ==
  /\ Schedule \in Seq(Solver)
  /\ \A i \in 1 .. Len(Schedule) : \A j \in 1 .. i - 1 :
       Schedule[i] \in Deducers => Valid[Schedule[i]] \cap Valid[Schedule[j]] = {}

VARIABLES
  trail,     \* CoreSMTSolver::trail
  stack,     \* THandler::stack: how much of the trail the theory has seen
  solvers,   \* the state of each TSolver
  answer,    \* what assertLits or check returned last
  conflict,  \* what getConflict returned since, if it was called
  reason,    \* what getReason returned last
  deducing,  \* in the loop of CoreSMTSolver::deduceTheory
  deds       \* the deductions without a value it has collected

vars == <<trail, stack, solvers, answer, conflict, reason, deducing, deds>>

none     == [lits |-> {}, asked |-> FALSE]
noReason == [lit |-> 0, lits |-> {}]

\* A solver after TSolver::clearSolver.
TSolver == [told |-> <<>>, points |-> <<>>, ded |-> <<>>, next |-> 0, has |-> FALSE, expl |-> {}]

Init ==
  /\ trail = <<>> /\ stack = 0
  /\ solvers = [s \in Solver |-> TSolver]
  /\ answer = "SAT" /\ conflict = none /\ reason = noReason
  /\ deducing = FALSE /\ deds = <<>>

isDeclared(v) == \E s \in Solver : v \in Valid[s]

-----------------------------------------------------------------------------
\* One theory solver, seen through the TSolver interface.

Known(S)       == Range(S.told) \cup Range(S.ded)
Found(s, T)    == {t \in Inconsistent[s] : t \subseteq T}
Implied(s, T)  == {l \in Lit : \E t \in Inconsistent[s] : -l \in t /\ t \ {-l} \subseteq T}

pushBacktrackPoint(S) ==
  [S EXCEPT !.points = Append(@, [told |-> Len(S.told), lim |-> Len(S.ded), last |-> S.next])]

\* Mutant of popBacktrackPoints: deductions made since the point are kept.
popBacktrackPointsKeep(s, S, n) ==
  IF n = 0 THEN S ELSE
  LET p == S.points[Len(S.points) - n + 1] IN
  [S EXCEPT !.points = SubSeq(@, 1, Len(@) - n), !.told = SubSeq(@, 1, p.told),
            !.has = @ /\ s \notin Forgets, !.expl = IF s \in Forgets THEN {} ELSE @]

\* TSolver::popBacktrackPoints, and what the solvers do with it.
popBacktrackPoints(s, S, n) ==
  IF n = 0 THEN S ELSE
  LET p == S.points[Len(S.points) - n + 1] IN
  [S EXCEPT !.points = SubSeq(@, 1, Len(@) - n),
            !.told   = SubSeq(@, 1, p.told),
            !.ded    = SubSeq(@, 1, p.lim),
            !.next   = p.last,
            !.has    = @ /\ s \notin Forgets,
            !.expl   = IF s \in Forgets THEN {} ELSE @]

Failed(S, t) == [S EXCEPT !.has = TRUE, !.expl = t]

\* The outcomes of assertLit: a literal already known changes nothing; a
\* conflict is explained, and found at once by the eager solvers; otherwise the
\* literal is taken, the explanation is emptied, and one literal may be deduced.
assertLit(s, S, l) ==
  LET T == Range(S.told) \cup {l}
      taken == [S EXCEPT !.told = Append(@, l), !.expl = {}]
      new == {d \in Implied(s, T) : var(d) \notin {var(k) : k \in Known(S) \cup {l}}}
  IN  IF l \in Known(S) THEN {[S |-> [S EXCEPT !.told = Append(@, l)], ok |-> TRUE]}
      ELSE {[S |-> Failed(S, t), ok |-> FALSE] : t \in Found(s, T)}
           \cup (IF s \in Eager /\ Found(s, T) # {} THEN {}
                 ELSE {[S |-> taken, ok |-> TRUE]}
                      \cup (IF s \notin Deducers \/ Found(s, T) # {} THEN {}
                            ELSE {[S |-> [taken EXCEPT !.ded = Append(@, d)], ok |-> TRUE] : d \in new}))

\* The outcomes of a solver's check(): it finds what assertLit left.
check(s, S) ==
  LET T == Range(S.told) IN
  IF Found(s, T) = {} THEN {[S |-> [S EXCEPT !.expl = {}], ok |-> TRUE]}
  ELSE {[S |-> Failed(S, t), ok |-> FALSE] : t \in Found(s, T)}

-----------------------------------------------------------------------------
\* TSolverHandler::assertLit for one solver of the schedule: a point on every
\* solver, the literal to those that are informed of its atom.
Told(s, l) ==
  LET S == pushBacktrackPoint(solvers[s]) IN
  IF var(l) \in Valid[s] THEN assertLit(s, S, l) ELSE {[S |-> S, ok |-> TRUE]}

\* One round of the loop of THandler::assertLits.  The solvers after one that
\* failed are told the literal too.
AssertNext ==
  /\ answer = "SAT" /\ stack < Len(trail)
  /\ stack' = stack + 1
  /\ LET l == trail[stack + 1] IN
     IF ~isDeclared(var(l)) THEN UNCHANGED <<solvers, answer>>
     ELSE \E o \in [Solver -> UNION {Told(s, l) : s \in Solver}] :
            /\ \A s \in Solver : o[s] \in Told(s, l)
            /\ solvers' = [s \in Solver |-> o[s].S]
            /\ answer' = IF \A s \in Solver : o[s].ok THEN "SAT" ELSE "UNSAT"
  /\ UNCHANGED <<trail, conflict, reason, deducing, deds>>

\* TSolverHandler::check: the solvers in order, up to the first that fails.
Check ==
  /\ answer = "SAT" /\ stack = Len(trail) /\ ~deducing
  /\ \E k \in 1 .. Len(Schedule), o \in [Solver -> UNION {check(s, solvers[s]) : s \in Solver}] :
       /\ \A i \in 1 .. k : o[Schedule[i]] \in check(Schedule[i], solvers[Schedule[i]])
       /\ \A i \in 1 .. k - 1 : o[Schedule[i]].ok
       /\ k = Len(Schedule) \/ ~o[Schedule[k]].ok
       /\ solvers' = [s \in Solver |-> IF \E i \in 1 .. k : Schedule[i] = s THEN o[s].S ELSE solvers[s]]
       /\ answer' = IF o[Schedule[k]].ok THEN "SAT" ELSE "UNSAT"
  /\ UNCHANGED <<trail, stack, conflict, reason, deducing, deds>>

\* The solver THandler::getConflict asks: the first that has an explanation.
Explaining == Schedule[CHOOSE i \in 1 .. Len(Schedule) :
                         /\ solvers[Schedule[i]].has
                         /\ \A j \in 1 .. i - 1 : ~solvers[Schedule[j]].has]

\* THandler::getConflict, called by CoreSMTSolver::handleUnsat.
GetConflict ==
  /\ answer = "UNSAT" /\ ~conflict.asked
  /\ conflict' = [lits |-> solvers[Explaining].expl, asked |-> TRUE]
  /\ UNCHANGED <<trail, stack, solvers, answer, reason, deducing, deds>>

Declared(from, to) == Cardinality({i \in from .. to : isDeclared(var(trail[i]))})

\* THandler::backtrack to the first n literals, with the trail of the SAT
\* solver cut to m >= n: cancelUntil cuts both, cancelUntilVarTempInit keeps
\* the trail to assert it again.
Backtrack(n, m) ==
  /\ ~deducing /\ n < stack /\ n <= m /\ (answer = "UNSAT" => conflict.asked /\ m < stack)
  /\ trail' = SubSeq(trail, 1, m) /\ stack' = n
  /\ solvers' = [s \in Solver |-> popBacktrackPoints(s, solvers[s], Declared(n + 1, stack))]
  /\ answer' = "SAT" /\ conflict' = none
  /\ UNCHANGED <<reason, deducing, deds>>

Valued(l) == \E i \in 1 .. Len(trail) : var(trail[i]) = var(l)

\* CoreSMTSolver::decideNext or propagate: a literal enters the trail.
Enqueue(l) ==
  /\ answer = "SAT" /\ stack = Len(trail) /\ ~deducing
  /\ ~Valued(l)
  /\ trail' = Append(trail, l)
  /\ UNCHANGED <<stack, solvers, answer, conflict, reason, deducing, deds>>

Pending(s) == solvers[s].next < Len(solvers[s].ded)

\* handleSat calls CoreSMTSolver::deduceTheory.
DeduceTheory ==
  /\ answer = "SAT" /\ stack = Len(trail) /\ ~deducing
  /\ \E s \in Solver : Pending(s)
  /\ deducing' = TRUE
  /\ UNCHANGED <<trail, stack, solvers, answer, conflict, reason, deds>>

\* One round of its loop: THandler::getDeduction takes the next deduction of the first
\* solver that has one, which is dropped if the SAT solver has a value for it.
GetDeduction ==
  /\ deducing
  /\ \E i \in 1 .. Len(Schedule) :
       LET s == Schedule[i]
           d == solvers[s].ded[solvers[s].next + 1] IN
       /\ Pending(s) /\ \A j \in 1 .. i - 1 : ~Pending(Schedule[j])
       /\ solvers' = [solvers EXCEPT ![s].next = @ + 1]
       /\ deds' = IF Valued(d) THEN deds ELSE Append(deds, d)
  /\ UNCHANGED <<trail, stack, answer, conflict, reason, deducing>>

\* Nothing is left: handleSat enqueues what was collected without a second look.
EnqueueDeductions ==
  /\ deducing /\ \A s \in Solver : ~Pending(s)
  /\ trail' = trail \o deds
  /\ deducing' = FALSE /\ deds' = <<>>
  /\ UNCHANGED <<stack, solvers, answer, conflict, reason>>

\* Mutant of getReasoningSolverFor: the last solver that takes the atom.
getReasoningSolverForLast(l) ==
  Schedule[CHOOSE i \in 1 .. Len(Schedule) :
             /\ var(l) \in Valid[Schedule[i]]
             /\ \A j \in i + 1 .. Len(Schedule) : var(l) \notin Valid[Schedule[j]]]

\* TSolverHandler::getReasoningSolverFor: the first solver that takes the atom.
getReasoningSolverFor(l) ==
  Schedule[CHOOSE i \in 1 .. Len(Schedule) :
             /\ var(l) \in Valid[Schedule[i]]
             /\ \A j \in 1 .. i - 1 : var(l) \notin Valid[Schedule[j]]]

\* THandler::getReason of a deduced literal that the theory has not been told
\* (again): TSolver::getReasonFor asserts its negation above a new point and
\* pops the point.  A solver that finds no conflict gives no reason (it throws).
GetReason(l) ==
  LET s == getReasoningSolverFor(l)
      S == pushBacktrackPoint(solvers[s])
      conflicts == Found(s, Range(S.told) \cup {-l})
  IN  /\ answer = "SAT" /\ stack < Len(trail) /\ trail[stack + 1] = l
      /\ \E d \in Solver : \E i \in 1 .. solvers[d].next : solvers[d].ded[i] = l
      /\ IF conflicts = {} THEN reason' = [lit |-> l, lits |-> {}] /\ UNCHANGED solvers
         ELSE \E t \in conflicts :
                /\ reason' = [lit |-> l, lits |-> t]
                /\ solvers' = [solvers EXCEPT ![s] = popBacktrackPoints(s, Failed(S, t), 1)]
      /\ UNCHANGED <<trail, stack, answer, conflict, deducing, deds>>

\* THandler::clear at the end of a search, after everything has been popped.
Clear ==
  /\ stack = 0 /\ trail = <<>> /\ \E s \in Solver : solvers[s] # TSolver
  /\ solvers' = [s \in Solver |-> TSolver]
  /\ reason' = noReason
  /\ UNCHANGED <<trail, stack, answer, conflict, deducing, deds>>

Next ==
  \/ AssertNext \/ Check \/ GetConflict \/ Clear
  \/ DeduceTheory \/ GetDeduction \/ EnqueueDeductions
  \/ \E l \in Lit : Enqueue(l) \/ GetReason(l)
  \/ \E m \in 0 .. Len(trail), n \in 0 .. Len(trail) : Backtrack(n, m)

Spec == Init /\ [][Next]_vars

-----------------------------------------------------------------------------
TypeOK ==
  /\ trail \in Seq(Lit) /\ stack \in 0 .. Len(trail)
  /\ answer \in {"SAT", "UNSAT"} /\ deducing \in BOOLEAN /\ deds \in Seq(Lit)
  /\ \A s \in Solver : solvers[s].next \in 0 .. Len(solvers[s].ded) /\ solvers[s].expl \subseteq Lit

\* A solver holds exactly those of the first n literals of the trail that it is informed
\* of, in their order.
Taken(s, n) == Cardinality({i \in 1 .. n : var(trail[i]) \in Valid[s]})
Holds(s, n) ==
  /\ Len(solvers[s].told) = Taken(s, n)
  /\ \A i \in 1 .. n : var(trail[i]) \in Valid[s] => solvers[s].told[Taken(s, i)] = trail[i]

\* Every solver has one backtrack point per declared literal of the stack,
\* whether it takes the atom or not (TSolverHandler::assertLit and
\* THandler::backtrack count the same literals), and it holds exactly the
\* literals of the stack that it takes, up to the failed one.
SolversInSync ==
  \A s \in Solver : /\ Len(solvers[s].points) = Declared(1, stack)
                    /\ \/ Holds(s, stack)
                       \/ answer = "UNSAT" /\ Holds(s, stack - 1)

\* What THandler::getConflict returns is inconsistent for one of the solvers and
\* was asserted: the clause that handleUnsat learns from it is a lemma.
ConflictIsReal ==
  conflict.asked => /\ \E s \in Solver : conflict.lits \in Inconsistent[s]
                    /\ conflict.lits \subseteq Range(SubSeq(trail, 1, stack))

\* No variable is on the trail twice, although handleSat enqueues the deductions
\* of all solvers without a look at their value.
TrailDistinct == \A i, j \in 1 .. Len(trail) : var(trail[i]) = var(trail[j]) => i = j

\* Every deduction was made after some backtrack point p and before the next, and is
\* implied by what its solver was told before that next point: they go together, so it
\* never outlives its premises, also when the solvers are popped and told the same
\* literals again.
ToldBefore(S, p) == IF p = Len(S.points) THEN Len(S.told) ELSE S.points[p + 1].told
MadeAfter(S, p, i) == S.points[p].lim < i /\ (p < Len(S.points) => i <= S.points[p + 1].lim)
DeductionsFollow ==
  \A s \in Solver : LET S == solvers[s] IN
    \A i \in 1 .. Len(S.ded) : \E p \in 1 .. Len(S.points) :
      /\ MadeAfter(S, p, i)
      /\ S.ded[i] \in Implied(s, {S.told[j] : j \in 1 .. ToldBefore(S, p)})

\* The solver getReasoningSolverFor picks can explain the literal that some
\* solver deduced, from literals already on the stack.
ReasonGiven ==
  \A l \in Lit : GetReason(l) =>
    /\ -l \in reason'.lits
    /\ reason'.lits \ {-l} \subseteq Range(SubSeq(trail, 1, stack))

\* All solvers of a schedule follow the trail of the SAT solver, literal by literal,
\* through assertion, conflict and backtracking by one common count; what they deduce goes
\* with its premises, and no literal they deduce is enqueued twice.
InSync == TypeOK /\ SolversInSync /\ TrailDistinct /\ DeductionsFollow
=============================================================================
