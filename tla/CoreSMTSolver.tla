--------------------------- MODULE CoreSMTSolver ---------------------------
(***************************************************************************)
(* The CDCL(T) search of OpenSMT (smtsolvers/CoreSMTSolver, TheoryIF) over *)
(* the theory interface of THandler: two watched literals, the trail and   *)
(* its decision levels, conflict analysis with theory explanations asked   *)
(* for on demand, splitting on demand, assumptions, restarts, and clauses  *)
(* learnt in one call of solve and used in the next.                       *)
(*                                                                         *)
(* A clause is a set of literals; the first two positions of the array the *)
(* code keeps are `watched', the order of the others never matters.  The   *)
(* reason of an assignment is {} for CRef_Undef and {0} for CRef_Fake.     *)
(* Heuristics (activity, polarity, restart and reduction limits) are       *)
(* nondeterministic choices.                                               *)
(***************************************************************************)
EXTENDS THandler

CONSTANTS
  InputClause,   \* the clauses that may be added
  SplitClause,   \* theory lemmas a theory solver may send (getNewSplits)
  Assumption,    \* the sequences of assumptions solve may be called with
  MayStop,       \* whether opensmt::stop may be set
  GlueLimit,     \* reduceDB keeps the clauses whose glue is at most this (3)
  MaxSolves,     \* bound on the calls of solve
  MaxStarts      \* bound on the calls of search within one solve

\* The lemmas of theory solvers are valid.
ASSUME ClauseAssumption ==
  /\ InputClause \subseteq SUBSET Lit
  /\ SplitClause \subseteq {c \in SUBSET Lit : \A m \in TheoryModel : c \cap m # {}}

\* What is assumed are frame variables, one literal for each frame (Cnfizer::solve).
\* Cnfizer::addClause adds the positive literal to the clauses of the frame; no
\* other clause has a frame variable.
FrameVar == UNION {{var(as[i]) : i \in 1 .. Len(as)} : as \in Assumption}
ASSUME FrameAssumption ==
  /\ Assumption \subseteq Seq({l \in Lit : var(l) \notin TheoryVar})
  /\ \A as \in Assumption : \A i, j \in 1 .. Len(as) : var(as[i]) = var(as[j]) => i = j
  /\ \A v \in FrameVar : /\ \A c \in InputClause : -v \notin c
                         /\ \A c \in SplitClause : v \notin c /\ -v \notin c

VARIABLES
  given,        \* history: the clauses that were added
  clauses,      \* CoreSMTSolver::clauses, as sets of literals
  learnts,      \* CoreSMTSolver::learnts
  watched,      \* attached clause -> the literals at its positions 0 and 1
  trail,        \* CoreSMTSolver::trail
  trail_lim,    \* CoreSMTSolver::trail_lim
  level,        \* vardata[v].level, stale when v is not assigned
  reason,       \* vardata[v].reason, stale when v is not assigned
  qhead,        \* CoreSMTSolver::qhead
  visit,        \* propagate: the watchers of ~trail[qhead] still to visit
  decision,     \* the variables that may be decided
  assumptions,  \* CoreSMTSolver::assumptions
  ok,           \* CoreSMTSolver::ok
  conflict_frame, \* CoreSMTSolver::conflict_frame
  pc,           \* where solve or addOriginalClause_ is
  after,        \* what propagate or checkTheory returns to
  confl,        \* analyze: the clause to resolve with
  p,            \* analyze: the literal resolved on, 0 before the first
  seen,         \* analyze, analyzeFinal: falsified literals marked in `seen'
  splits,       \* handleNewSplitClauses: the clauses still to handle, sorted
  propData,     \* handleNewSplitClauses: <<literal, reason>> to enqueue
  answer,       \* what the last solve returned
  model,        \* the literals true when it returned l_True
  conflict,     \* the final conflict clause
  solves,       \* the number of calls of solve
  starts        \* the number of calls of search in this solve

clauseVars == <<given, clauses, learnts, watched>>
trailVars  == <<trail, trail_lim, level, reason, qhead>>
resultVars == <<ok, conflict_frame, answer, model, conflict>>
splitVars  == <<splits, propData>>
analyzeVars == <<confl, p, seen>>
callVars   == <<decision, assumptions, solves, starts>>
vars == <<theoryVars, clauseVars, trailVars, visit, resultVars, splitVars,
          analyzeVars, callVars, pc, after>>

CRef_Undef == {}
CRef_Fake  == {0}

-----------------------------------------------------------------------------
decisionLevel == Len(trail_lim)
True(l)  == l \in Range(trail)
False(l) == -l \in Range(trail)
Unassigned(l) == ~True(l) /\ ~False(l)
Vars(c) == {var(l) : l \in c}
Satisfied(c) == \E l \in c : True(l)
MaxLevel(c) == Max({0} \cup {level[var(l)] : l \in c})
Unknown(c) == {l \in c : Unassigned(l)}
Implies(c) == ~Satisfied(c) /\ Cardinality(Unknown(c)) = 1

\* The level at which every literal of c that is false now is still false.
FalseLevel(c) == MaxLevel({l \in c : False(l)})

\* sort(ps): the literals of a clause in the order of the encoding of Lit.
Code(l) == 2 * var(l) + (IF l < 0 THEN 1 ELSE 0)
Least(c) == CHOOSE l \in c : \A k \in c : Code(l) <= Code(k)
FirstTwo(c) == <<Least(c), Least(c \ {Least(c)})>>

Detached(C) == [c \in DOMAIN watched \ C |-> watched[c]]
Attached(c, pair) ==
  [d \in DOMAIN watched \cup {c} |-> IF d = c THEN pair ELSE watched[d]]

\* CoreSMTSolver::locked
Locked(c) == True(watched[c][1]) /\ reason[var(watched[c][1])] = c

\* CoreSMTSolver::uncheckedEnqueue at decision level lev, on the trail t.
EnqueueOn(t, l, from, lev) ==
  /\ trail' = Append(t, l)
  /\ level' = [level EXCEPT ![var(l)] = lev]
  /\ reason' = [reason EXCEPT ![var(l)] = from]

\* The position of the trail that decision level lev ends at.
EndOf(lev) == IF lev < decisionLevel THEN trail_lim[lev + 1] ELSE Len(trail)

\* CoreSMTSolver::cancelUntil; the trail itself is SubSeq(trail, 1, EndOf(lev)).
CancelUntil(lev) ==
  /\ trail_lim' = SubSeq(trail_lim, 1, IF lev < decisionLevel THEN lev ELSE decisionLevel)
  /\ qhead' = IF lev < decisionLevel THEN trail_lim[lev + 1] ELSE qhead
  /\ IF lev < decisionLevel THEN Backtrack(EndOf(lev)) ELSE UNCHANGED theoryVars

\* The end of solve: the answer is taken and MainSolver::solve clears the search.
Return(result) ==
  /\ answer' = result
  /\ model' = IF result = "sat" THEN Range(trail) ELSE {}
  /\ ok' = (result # "unsat")
  /\ pc' = "idle"
  /\ trail' = SubSeq(trail, 1, EndOf(0))
  /\ trail_lim' = <<>>
  /\ qhead' = IF decisionLevel > 0 THEN trail_lim[1] ELSE qhead
  /\ Backtrack(0)
  /\ visit' = {}
  /\ UNCHANGED <<level, reason>>

-----------------------------------------------------------------------------
Init ==
  /\ given = {} /\ clauses = {} /\ learnts = {} /\ watched = <<>>
  /\ trail = <<>> /\ trail_lim = <<>> /\ qhead = 0 /\ visit = {}
  /\ level = [v \in Var |-> 0] /\ reason = [v \in Var |-> CRef_Undef]
  /\ stack = <<>> /\ points = <<>> /\ th_deductions = <<>> /\ deductions_next = 0
  /\ declared = {} /\ decision = {} /\ assumptions = <<>>
  /\ ok = TRUE /\ conflict_frame = 0 /\ pc = "idle" /\ after = "none"
  /\ confl = CRef_Undef /\ p = 0 /\ seen = {} /\ splits = <<>> /\ propData = <<>>
  /\ answer = "none" /\ model = {} /\ conflict = {} /\ solves = 0 /\ starts = 0

\* CoreSMTSolver::addOriginalClause_.  MainSolver gives no clause to a solver
\* that is not ok before it has called restoreOK.
AddOriginalClause(c) ==
  LET ps == {l \in c : ~False(l)} IN
  /\ pc = "idle" /\ ok /\ c \notin given /\ solves < MaxSolves
  /\ given' = given \cup {c}
  /\ answer' = "none"
  /\ IF (\E l \in c : True(l) \/ -l \in c)
     THEN UNCHANGED <<clauses, watched, trailVars, visit, ok, pc, after>>
     ELSE CASE ps = {} ->
                 /\ ok' = FALSE
                 /\ UNCHANGED <<clauses, watched, trailVars, visit, pc, after>>
            [] Cardinality(ps) = 1 ->
                 /\ EnqueueOn(trail, Least(ps), CRef_Undef, 0)
                 /\ pc' = "propagate" /\ after' = "add"
                 /\ UNCHANGED <<clauses, watched, trail_lim, qhead, visit, ok>>
            [] OTHER ->
                 /\ clauses' = clauses \cup {ps}
                 /\ watched' = Attached(ps, FirstTwo(ps))
                 /\ UNCHANGED <<trailVars, visit, ok, pc, after>>
  /\ UNCHANGED <<theoryVars, learnts, conflict_frame, model, conflict,
                 splitVars, analyzeVars, callVars>>

\* CoreSMTSolver::declareVarsToTheories: the variables the SAT solver sees.
SeenVars == Vars(Range(trail)) \cup UNION {Vars(c) : c \in clauses}

\* CoreSMTSolver::solve_ up to the first search.  MainSolver::check does not
\* call it after a conflict under assumptions before restoreOK.
Solve(as) ==
  /\ pc = "idle" /\ solves < MaxSolves
  /\ ok \/ conflict_frame = 0
  /\ solves' = solves + 1 /\ starts' = 1
  /\ assumptions' = as
  /\ decision' = SeenVars
  /\ Declare(SeenVars)
  /\ model' = {} /\ conflict' = {}
  /\ IF ok
     THEN pc' = "checkTheory" /\ after' = "start" /\ answer' = "none"
     ELSE answer' = "unsat" /\ UNCHANGED <<pc, after>>
  /\ UNCHANGED <<clauseVars, trailVars, visit, ok, conflict_frame, splitVars,
                 analyzeVars>>

\* CoreSMTSolver::restoreOK.  MainSolver::pop calls it only after a conflict
\* that needed an assumption (conflict frame > 0): a level zero conflict marks
\* every frame unsatisfiable.
RestoreOK ==
  /\ pc = "idle" /\ ~ok /\ conflict_frame > 0
  /\ ok' = TRUE /\ conflict_frame' = 0 /\ answer' = "none"
  /\ UNCHANGED <<theoryVars, clauseVars, trailVars, visit, model, conflict,
                 splitVars, analyzeVars, callVars, pc, after>>

-----------------------------------------------------------------------------
\* CoreSMTSolver::propagate takes the next literal of the trail.
PropagateNext ==
  /\ pc = "propagate" /\ visit = {} /\ qhead < Len(trail)
  /\ qhead' = qhead + 1
  /\ visit' = {c \in DOMAIN watched : -trail[qhead + 1] \in Range(watched[c])}
  /\ UNCHANGED <<theoryVars, clauseVars, trail, trail_lim, level, reason,
                 resultVars, splitVars, analyzeVars, callVars, pc, after>>

falseLit == -trail[qhead]
First(c) == IF watched[c][1] = falseLit THEN watched[c][2] ELSE watched[c][1]

\* Mutant of NewWatches: the other watched literal is taken for a new one.
NewWatchesAny(c) == {l \in c \ {falseLit} : ~False(l)}

\* The literals that can replace the false one.
NewWatches(c) == {l \in c \ {falseLit, First(c)} : ~False(l)}

\* A watcher whose blocker is true is left as it is.
VisitBlocked(c) ==
  /\ Satisfied(c)
  /\ visit' = visit \ {c}
  /\ UNCHANGED <<watched, trail, level, reason, qhead, pc>>

\* The first literal is true.
VisitSatisfied(c) ==
  /\ True(First(c))
  /\ visit' = visit \ {c}
  /\ watched' = [watched EXCEPT ![c] = <<First(c), falseLit>>]
  /\ UNCHANGED <<trail, level, reason, qhead, pc>>

\* A literal that is not false becomes the second one.
VisitNewWatch(c) ==
  /\ ~True(First(c))
  /\ visit' = visit \ {c}
  /\ \E l \in NewWatches(c) : watched' = [watched EXCEPT ![c] = <<First(c), l>>]
  /\ UNCHANGED <<trail, level, reason, qhead, pc>>

\* The clause implies its first literal.
VisitUnit(c) ==
  /\ Unassigned(First(c)) /\ NewWatches(c) = {}
  /\ visit' = visit \ {c}
  /\ watched' = [watched EXCEPT ![c] = <<First(c), falseLit>>]
  /\ EnqueueOn(trail, First(c), c, decisionLevel)
  /\ UNCHANGED <<qhead, pc>>

\* The clause is falsified: the queue is dropped.
VisitConflict(c) ==
  /\ False(First(c)) /\ NewWatches(c) = {}
  /\ visit' = {}
  /\ watched' = [watched EXCEPT ![c] = <<First(c), falseLit>>]
  /\ qhead' = Len(trail)
  /\ confl' = c /\ pc' = "conflict"
  /\ UNCHANGED <<trail, level, reason>>

PropagateVisit(c) ==
  /\ pc = "propagate" /\ c \in visit
  /\ \/ (VisitBlocked(c) \/ VisitSatisfied(c) \/ VisitNewWatch(c) \/ VisitUnit(c))
        /\ UNCHANGED confl
     \/ VisitConflict(c)
  /\ UNCHANGED <<theoryVars, given, clauses, learnts, trail_lim, resultVars,
                 splitVars, p, seen, callVars, after>>

\* propagate returns CRef_Undef.
PropagateDone ==
  /\ pc = "propagate" /\ visit = {} /\ qhead = Len(trail)
  /\ pc' = IF after = "add" THEN "idle" ELSE "consistent"
  /\ UNCHANGED <<theoryVars, clauseVars, trailVars, visit, resultVars, splitVars,
                 analyzeVars, callVars, after>>

\* The loop of search() begins, unless opensmt::stop is set.
SearchLoop ==
  /\ pc = "loop"
  /\ pc' = "propagate" /\ after' = "search"
  /\ UNCHANGED <<theoryVars, clauseVars, trailVars, visit, resultVars, splitVars,
                 analyzeVars, callVars>>

SearchStopped ==
  /\ pc = "loop" /\ MayStop
  /\ Return("undef")
  /\ UNCHANGED <<clauseVars, conflict_frame, conflict, splitVars, analyzeVars,
                 callVars, after>>

\* propagate returned a conflict while a clause was added, or at level zero.
AddConflict ==
  /\ pc = "conflict" /\ after = "add"
  /\ ok' = FALSE /\ pc' = "idle"
  /\ UNCHANGED <<theoryVars, clauseVars, trailVars, visit, conflict_frame, answer,
                 model, conflict, splitVars, analyzeVars, callVars, after>>

ZeroLevelConflict ==
  /\ pc = "conflict" /\ after # "add" /\ decisionLevel = 0
  /\ Return("unsat")
  /\ UNCHANGED <<clauseVars, conflict_frame, conflict, splitVars, analyzeVars,
                 callVars, after>>

-----------------------------------------------------------------------------
\* CoreSMTSolver::analyze on the conflicting clause confl.
AnalyzeBegin ==
  /\ pc = "conflict" /\ after # "add" /\ decisionLevel > 0
  /\ pc' = "analyze" /\ p' = 0 /\ seen' = {}
  /\ UNCHANGED <<theoryVars, clauseVars, trailVars, visit, resultVars, splitVars,
                 confl, callVars, after>>

\* The last position of the trail that holds the negation of a literal in S.
LastSeen(S) == Max({i \in 1 .. Len(trail) : -trail[i] \in S})
CurrentLevel(S) == {l \in S : level[var(l)] >= decisionLevel}

\* How much of the trail the theory knows when the reason of the literal at
\* position i is asked for.
UndoPoint(i) == i - 1

\* CoreSMTSolver::cancelUntilVar for the variable at position n + 1, which is
\* of the current level.
UndoTo(n) ==
  /\ trail' = SubSeq(trail, 1, n)
  /\ qhead' = n
  /\ Backtrack(n)

\* One round of the loop of analyze.  c[0] is the literal resolved on
\* (see ReasonsInPlace).
AnalyzeStep ==
  LET marked == seen \cup {l \in confl \ {p} : level[var(l)] > 0}
      i    == LastSeen(marked)
      q    == trail[i]
      rest == marked \ {-q}
  IN  /\ pc = "analyze"
      /\ p' = q /\ seen' = rest
      /\ pc' = IF CurrentLevel(rest) = {} THEN "learn" ELSE "analyze"
      /\ IF reason[var(q)] = CRef_Fake
         THEN \E t \in ReasonsFor(q, UndoPoint(i)) :
                /\ UndoTo(UndoPoint(i))
                /\ reason' = [reason EXCEPT ![var(q)] = Negated(t)]
                /\ confl' = Negated(t)
         ELSE /\ confl' = reason[var(q)]
              /\ UNCHANGED <<trail, qhead, reason, theoryVars>>
      /\ UNCHANGED <<clauseVars, trail_lim, level, visit, resultVars, splitVars,
                     callVars, after>>

\* CoreSMTSolver::litRedundant: the reasons of these positions of the trail lead
\* to each other, to marked literals and to level zero, and nowhere else.
abstractLevel(l) == level[var(l)] % 32
Closed(R) ==
  \A i \in R :
    LET r == reason[var(trail[i])] IN
    /\ r \notin {CRef_Undef, CRef_Fake}
    /\ \A l \in r \ {trail[i]} :
         \/ level[var(l)] = 0
         \/ l \in seen
         \/ /\ abstractLevel(l) \in {abstractLevel(k) : k \in seen}
            /\ LastSeen({l}) \in R
litRedundant(l) == \E R \in SUBSET (1 .. Len(trail)) : LastSeen({l}) \in R /\ Closed(R)

\* Mutant of Minimized: literals with a reason at all are dropped.
MinimizedAll == {l \in seen : reason[var(l)] = CRef_Undef}

\* The literals of the learnt clause besides the asserting one.
Minimized == {l \in seen : ~litRedundant(l)}

BackjumpLevel == MaxLevel(Minimized)

\* The end of analyze and what search() and handleUnsat() do with the clause.
Learn ==
  LET c  == Minimized \cup {-p}
      bt == BackjumpLevel
  IN  /\ pc = "learn"
      /\ CancelUntil(bt)
      /\ IF Minimized = {}
         THEN /\ EnqueueOn(SubSeq(trail, 1, EndOf(bt)), -p, CRef_Undef, bt)
              /\ UNCHANGED <<learnts, watched>>
         ELSE /\ EnqueueOn(SubSeq(trail, 1, EndOf(bt)), -p, c, bt)
              /\ learnts' = learnts \cup {c}
              /\ \E l \in Minimized :
                   level[var(l)] = bt /\ watched' = Attached(c, <<-p, l>>)
      /\ pc' = "loop"
      /\ confl' = CRef_Undef /\ p' = 0 /\ seen' = {}
      /\ UNCHANGED <<given, clauses, visit, resultVars, splitVars, callVars, after>>

-----------------------------------------------------------------------------
\* The branch of search() without a conflict: restart ...
Restart ==
  /\ pc = "consistent" /\ starts < MaxStarts
  /\ starts' = starts + 1
  /\ trail' = SubSeq(trail, 1, EndOf(0))
  /\ CancelUntil(0)
  /\ pc' = "checkTheory" /\ after' = "start"
  /\ UNCHANGED <<clauseVars, level, reason, visit, resultVars, splitVars,
                 analyzeVars, decision, assumptions, solves>>

\* MainSolver creates a SimpSMTSolver, which turns this off.
remove_satisfied == FALSE

\* ... CoreSMTSolver::simplify: remove what level zero satisfies ...
Simplify ==
  LET gone == {c \in learnts \cup (IF remove_satisfied THEN clauses ELSE {}) : Satisfied(c)}
  IN
  /\ pc = "consistent" /\ decisionLevel = 0 /\ gone # {}
  /\ clauses' = IF remove_satisfied THEN clauses \ gone ELSE clauses
  /\ learnts' = learnts \ gone
  /\ watched' = Detached(gone \ clauses')
  /\ reason' = [v \in Var |-> IF reason[v] \in {c \in gone \ clauses' : Locked(c)}
                              THEN CRef_Undef ELSE reason[v]]
  /\ UNCHANGED <<theoryVars, given, trail, trail_lim, level, qhead, visit, resultVars,
                 splitVars, analyzeVars, callVars, pc, after>>

\* The learnt clauses reduceDB may remove (the glue is at most the size).
Reducible == {c \in learnts : Cardinality(c) > GlueLimit /\ ~Locked(c)}

\* ... CoreSMTSolver::reduceDB ...
ReduceDB ==
  /\ pc = "consistent"
  /\ \E gone \in SUBSET Reducible :
       /\ gone # {}
       /\ learnts' = learnts \ gone
       /\ watched' = Detached(gone \ clauses)
  /\ UNCHANGED <<theoryVars, given, clauses, trailVars, visit, resultVars, splitVars,
                 analyzeVars, callVars, pc, after>>

\* ... and the early pruning call of checkTheory.
EarlyPruning ==
  /\ pc = "consistent"
  /\ pc' = "checkTheory" /\ after' = "pruning"
  /\ UNCHANGED <<theoryVars, clauseVars, trailVars, visit, resultVars, splitVars,
                 analyzeVars, callVars>>

-----------------------------------------------------------------------------
\* CoreSMTSolver::checkTheory: THandler::assertLits, one literal at a time.
TheoryAssert ==
  /\ pc = "checkTheory" /\ Len(stack) < Len(trail)
  /\ AssertLit(trail[Len(stack) + 1])
  /\ UNCHANGED <<clauseVars, trailVars, visit, resultVars, splitVars, analyzeVars,
                 callVars, pc, after>>

\* CoreSMTSolver::handleUnsat at level zero, or with a conflict of level zero.
TheoryUnsatZero(t) ==
  /\ pc = "checkTheory" /\ t \in Conflicts
  /\ decisionLevel = 0 \/ MaxLevel(t) = 0
  /\ Return("unsat")
  /\ UNCHANGED <<clauseVars, conflict_frame, conflict, splitVars, analyzeVars,
                 callVars, after>>

ConflictLevel(t) == MaxLevel(t)

\* CoreSMTSolver::handleUnsat: back to the level of the conflict, and analyze.
TheoryUnsat(t) ==
  /\ pc = "checkTheory" /\ t \in Conflicts
  /\ decisionLevel > 0 /\ MaxLevel(t) > 0
  /\ trail' = SubSeq(trail, 1, EndOf(ConflictLevel(t)))
  /\ CancelUntil(ConflictLevel(t))
  /\ confl' = Negated(t) /\ p' = 0 /\ seen' = {}
  /\ pc' = "analyze"
  /\ UNCHANGED <<clauseVars, level, reason, visit, resultVars, splitVars, callVars,
                 after>>

\* Some assignment of all atoms agrees with the theory and with what it was told.
Extendable == \E m \in TheoryModel : Told(Len(stack)) \subseteq m

\* The theory has no objection, a complete check only if there is none.  A
\* literal asserted against a deduction is a conflict at once.
TheorySat ==
  /\ pc = "checkTheory" /\ Len(stack) = Len(trail)
  /\ \A l \in Range(th_deductions) : -l \notin Told(Len(stack))
  /\ after = "complete" => Extendable
  /\ pc' = "deduce"
  /\ UNCHANGED <<theoryVars, clauseVars, trailVars, visit, resultVars, splitVars,
                 analyzeVars, callVars, after>>

\* Mutant of DeduceNext: the index stays where the literal is assigned.
DeduceNextAgain ==
  LET l == th_deductions[deductions_next + 1] IN
  /\ pc = "deduce" /\ deductions_next < Len(th_deductions)
  /\ IF Unassigned(l) THEN /\ EnqueueOn(trail, l, CRef_Fake, decisionLevel)
                           /\ deductions_next' = deductions_next + 1
                      ELSE UNCHANGED <<trail, level, reason, deductions_next>>
  /\ UNCHANGED <<stack, points, th_deductions, declared, clauseVars, trail_lim, qhead,
                 visit, resultVars, splitVars, analyzeVars, callVars, pc, after>>

\* CoreSMTSolver::handleSat without splits: deduceTheory, then enqueue.
DeduceNext ==
  LET l == th_deductions[deductions_next + 1] IN
  /\ pc = "deduce" /\ deductions_next < Len(th_deductions)
  /\ deductions_next' = deductions_next + 1
  /\ IF Unassigned(l) THEN EnqueueOn(trail, l, CRef_Fake, decisionLevel)
                      ELSE UNCHANGED <<trail, level, reason>>
  /\ UNCHANGED <<stack, points, th_deductions, declared, clauseVars, trail_lim, qhead,
                 visit, resultVars, splitVars, analyzeVars, callVars, pc, after>>

Undecided == {v \in decision : Unassigned(v)}

\* What checkTheory returns, and where search() goes on.
DeduceDone ==
  /\ pc = "deduce" /\ deductions_next = Len(th_deductions)
  /\ Len(trail) > Len(stack) \/ after # "complete" \/ Undecided # {}
  /\ pc' = IF Len(trail) > Len(stack) \/ after = "start" THEN "loop" ELSE "decide"
  /\ UNCHANGED <<theoryVars, clauseVars, trailVars, visit, resultVars, splitVars,
                 analyzeVars, callVars, after>>

\* A complete check of a complete assignment: the model is found.
SearchSat ==
  /\ pc = "deduce" /\ deductions_next = Len(th_deductions)
  /\ Len(trail) = Len(stack) /\ after = "complete" /\ Undecided = {}
  /\ Return("sat")
  /\ UNCHANGED <<clauseVars, conflict_frame, conflict, splitVars, analyzeVars,
                 callVars, after>>

-----------------------------------------------------------------------------
\* sortByLastAssignedLevel
SortedByLevel(order) ==
  \A i, j \in DOMAIN order : i < j => MaxLevel(order[i]) <= MaxLevel(order[j])

\* CoreSMTSolver::handleNewSplitClauses.  Theory solvers send lemmas on a
\* complete check; each has an atom that is not assigned (a new bound, an
\* interface equality, an undecided equality of indices), and one of them is
\* not yet satisfied.
TheorySplit(S) ==
  /\ pc = "checkTheory" /\ after = "complete"
  /\ Len(stack) = Len(trail) /\ Conflicts = {}
  /\ S # {} /\ S \cap DOMAIN watched = {}
  /\ \A c \in S : Unknown(c) # {}
  /\ \E c \in S : ~Satisfied(c)
  /\ declared' = declared \cup (TheoryVar \cap UNION {Vars(c) : c \in S})
  /\ deductions_next' = Len(th_deductions)       \* the deductions are dropped
  /\ \E order \in [1 .. Cardinality(S) -> S] :
       /\ Range(order) = S
       /\ SortedByLevel(order)
       /\ splits' = order
  /\ propData' = <<>> /\ pc' = "split"
  /\ UNCHANGED <<stack, points, th_deductions, clauseVars, trailVars, visit, resultVars,
                 analyzeVars, callVars, after>>

\* The lowest level at which c still implies a literal.
SplitLevel(c) == FalseLevel(c)

\* A lemma that implies a literal: back to the level where it does.
SplitUnit ==
  LET c  == Head(splits)
      bt == SplitLevel(c)
      l  == CHOOSE k \in Unknown(c) : TRUE
  IN  /\ pc = "split" /\ splits # <<>> /\ Implies(c)
      /\ splits' = Tail(splits)
      /\ decision' = decision \cup Vars(c)
      /\ CancelUntil(bt)
      /\ IF bt = 0
         THEN /\ EnqueueOn(SubSeq(trail, 1, EndOf(0)), l, CRef_Undef, 0)
              /\ propData' = IF bt < decisionLevel THEN <<>> ELSE propData
              /\ UNCHANGED <<clauses, watched>>
         ELSE /\ trail' = SubSeq(trail, 1, EndOf(bt))
              /\ clauses' = clauses \cup {c}
              /\ \E w \in c \ {l} : watched' = Attached(c, <<l, w>>)
              /\ propData' = (IF bt < decisionLevel THEN <<>> ELSE propData) \o <<<<l, c>>>>
              /\ UNCHANGED <<level, reason>>
      /\ after' = "propagate"
      /\ UNCHANGED <<given, learnts, visit, resultVars, analyzeVars, assumptions, solves,
                     starts, pc>>

\* The two first positions of a lemma that implies nothing.  The first is made
\* an unassigned literal if it is false.
SplitWatches(c) ==
  {IF False(w[1]) THEN <<u, IF u = w[2] THEN w[1] ELSE w[2]>> ELSE w :
     u \in Unknown(c), w \in {x \in c \X c : x[1] # x[2]}}

SplitAttach ==
  LET c == Head(splits) IN
  /\ pc = "split" /\ splits # <<>> /\ ~Implies(c)
  /\ splits' = Tail(splits)
  /\ decision' = decision \cup Vars(c)
  /\ clauses' = clauses \cup {c}
  /\ \E w \in SplitWatches(c) : watched' = Attached(c, w)
  /\ UNCHANGED <<theoryVars, given, learnts, trailVars, visit, resultVars, propData,
                 analyzeVars, assumptions, solves, starts, pc, after>>

\* The implied literals are enqueued; the same one may come from two lemmas.
SplitEnqueue ==
  LET d == Head(propData) IN
  /\ pc = "split" /\ splits = <<>> /\ propData # <<>>
  /\ propData' = Tail(propData)
  /\ IF Unassigned(d[1]) THEN EnqueueOn(trail, d[1], d[2], decisionLevel)
                         ELSE UNCHANGED <<trail, level, reason>>
  /\ UNCHANGED <<theoryVars, clauseVars, trail_lim, qhead, visit, resultVars, splits,
                 analyzeVars, callVars, pc, after>>

SplitDone ==
  /\ pc = "split" /\ splits = <<>> /\ propData = <<>>
  /\ pc' = IF after = "propagate" THEN "loop" ELSE "decide"
  /\ UNCHANGED <<theoryVars, clauseVars, trailVars, visit, resultVars, splitVars,
                 analyzeVars, callVars, after>>

-----------------------------------------------------------------------------
assumed == assumptions[decisionLevel + 1]

\* An assumption that already holds gets a level of its own.
AssumeTrue ==
  /\ pc = "decide" /\ decisionLevel < Len(assumptions) /\ True(assumed)
  /\ trail_lim' = Append(trail_lim, Len(trail))
  /\ UNCHANGED <<theoryVars, clauseVars, trail, level, reason, qhead, visit, resultVars,
                 splitVars, analyzeVars, callVars, pc, after>>

\* A new level for the next assumption or for a decision.
Decide(l) ==
  /\ pc = "decide" /\ Unassigned(l)
  /\ IF decisionLevel < Len(assumptions) THEN l = assumed ELSE var(l) \in decision
  /\ trail_lim' = Append(trail_lim, Len(trail))
  /\ EnqueueOn(trail, l, CRef_Undef, decisionLevel + 1)
  /\ pc' = "loop"
  /\ UNCHANGED <<theoryVars, clauseVars, qhead, visit, resultVars, splitVars,
                 analyzeVars, callVars, after>>

\* Nothing is left to decide: the complete call of checkTheory.
CompleteCall ==
  /\ pc = "decide" /\ decisionLevel >= Len(assumptions) /\ Undecided = {}
  /\ pc' = "checkTheory" /\ after' = "complete"
  /\ UNCHANGED <<theoryVars, clauseVars, trailVars, visit, resultVars, splitVars,
                 analyzeVars, callVars>>

\* CoreSMTSolver::analyzeFinal for an assumption that is false.
FinalBegin ==
  /\ pc = "decide" /\ decisionLevel < Len(assumptions) /\ False(assumed)
  /\ conflict' = {-assumed} /\ seen' = {assumed}
  /\ pc' = "final"
  /\ UNCHANGED <<theoryVars, clauseVars, trailVars, visit, ok, conflict_frame, answer,
                 model, splitVars, confl, p, callVars, after>>

\* CoreSMTSolver::setAssumptions: the active assumptions are negative literals.
Active == {i \in 1 .. Len(assumptions) : assumptions[i] < 0}
ActiveVars == {var(assumptions[i]) : i \in Active}
assumptions_order(v) ==
  LET i == CHOOSE j \in Active : var(assumptions[j]) = v
  IN  Cardinality({j \in Active : j < i})

FinalStep ==
  LET i == LastSeen(seen)
      l == trail[i]
      r == reason[var(l)]
  IN  /\ pc = "final" /\ seen # {}
      /\ CASE r = CRef_Undef ->
                /\ seen' = seen \ {-l}
                /\ conflict' = IF var(l) \in ActiveVars THEN conflict \cup {-l} ELSE conflict
                /\ UNCHANGED theoryVars
           [] r = CRef_Fake ->
                \E t \in ReasonsFor(l, UndoPoint(i)) :
                  /\ seen' = (seen \cup Negated(t)) \ {l, -l}
                  /\ Reassert(UndoPoint(i))
                  /\ UNCHANGED conflict
           [] OTHER ->
                /\ seen' = (seen \cup r) \ {l, -l}
                /\ UNCHANGED <<theoryVars, conflict>>
      /\ UNCHANGED <<clauseVars, trailVars, visit, ok, conflict_frame, answer, model,
                     splitVars, confl, p, callVars, pc, after>>

\* The number of active assumptions that are enough for the conflict.
ConflictFrame == Max({0} \cup {assumptions_order(l) : l \in {k \in conflict : k > 0}}) + 1

FinalDone ==
  /\ pc = "final" /\ seen = {}
  /\ conflict_frame' = ConflictFrame
  /\ Return("unsat")
  /\ UNCHANGED <<clauseVars, conflict, splitVars, analyzeVars, callVars, after>>

-----------------------------------------------------------------------------
SplitSets == {S \in SUBSET SplitClause : Cardinality(S) <= 2}

SearchStep ==
  \/ PropagateNext \/ (\E c \in visit : PropagateVisit(c)) \/ PropagateDone
  \/ SearchLoop \/ SearchStopped \/ AddConflict \/ ZeroLevelConflict
  \/ AnalyzeBegin \/ AnalyzeStep \/ Learn
  \/ Restart \/ Simplify \/ ReduceDB \/ EarlyPruning
  \/ TheoryAssert
  \/ (\E t \in TheoryConflict : TheoryUnsatZero(t) \/ TheoryUnsat(t))
  \/ TheorySat \/ DeduceNext \/ DeduceDone \/ SearchSat
  \/ (\E S \in SplitSets : TheorySplit(S))
  \/ SplitUnit \/ SplitAttach \/ SplitEnqueue \/ SplitDone
  \/ AssumeTrue \/ (\E l \in Lit : Decide(l)) \/ CompleteCall
  \/ FinalBegin \/ FinalStep \/ FinalDone

Next ==
  \/ \E c \in InputClause : AddOriginalClause(c)
  \/ \E as \in Assumption : Solve(as)
  \/ RestoreOK
  \/ SearchStep

Spec == Init /\ [][Next]_vars

\* search() runs until it returns.
FairSpec == Spec /\ WF_vars(SearchStep)

-----------------------------------------------------------------------------
\* What the clauses given to the solver and the theory leave possible.
GivenModel == {m \in TheoryModel : \A c \in given : c \cap m # {}}

Clause == SUBSET Lit

\* Type correctness of the state of the search.
TypeOK ==
  /\ given \subseteq Clause /\ clauses \subseteq Clause /\ learnts \subseteq Clause
  /\ DOMAIN watched = clauses \cup learnts
  /\ \A c \in DOMAIN watched : Len(watched[c]) = 2 /\ Range(watched[c]) \subseteq c
  /\ Range(trail) \subseteq Lit /\ qhead \in 0 .. Len(trail)
  /\ \A k \in 1 .. decisionLevel : trail_lim[k] \in 0 .. Len(trail)
  /\ level \in [Var -> Nat]
  /\ \A v \in Var : reason[v] \in Clause \cup {CRef_Fake}
  /\ visit \subseteq DOMAIN watched /\ confl \in Clause /\ seen \in Clause
  /\ p \in Lit \cup {0} /\ model \in Clause /\ conflict \in Clause
  /\ Range(stack) \cup Range(th_deductions) \subseteq Lit
  /\ declared \subseteq TheoryVar /\ decision \subseteq Var
  /\ ok \in BOOLEAN /\ answer \in {"none", "sat", "unsat", "undef"}

\* The theory solvers have been told a prefix of the trail and hold one
\* backtrack point for every declared atom in it, whatever partial undo
\* (cancelUntil, cancelUntilVar, clearSearch) came before: THandler::backtrack
\* counts the points from its own stack.
TheoryInSync ==
  /\ Len(stack) <= Len(trail)
  /\ stack = SubSeq(trail, 1, Len(stack))
  /\ Len(points) = PointsAbove(0)
  /\ pc = "idle" => stack = <<>>

\* Every literal on the trail that the theory deduced can still be explained
\* by what the theory was told before it, which is what analyze and
\* analyzeFinal ask for, possibly many conflicts after the deduction.
DeductionsExplained ==
  \A i \in 1 .. Len(trail) :
    reason[var(trail[i])] = CRef_Fake /\ level[var(trail[i])] > 0 =>
      ReasonsFor(trail[i], i - 1) # {}

\* No deduction the theory holds is lost: when the search is about to decide,
\* each of them is on the trail, although backtracking moves the index of the
\* next deduction back, the SAT solver skips assigned ones and lemmas drop the rest.
DeductionsDelivered == pc = "decide" => Range(th_deductions) \subseteq Range(trail)

\* The reason of a propagated literal is a clause of the solver that holds the
\* literal first, and whose other literals are false and came before it: what
\* analyze, litRedundant and locked() rely on.
ReasonsInPlace ==
  \A i \in 1 .. Len(trail) :
    LET r == reason[var(trail[i])] IN
    r \notin {CRef_Undef, CRef_Fake} =>
      /\ r \in DOMAIN watched /\ watched[r][1] = trail[i]
      /\ \A l \in r \ {trail[i]} : \E j \in 1 .. i - 1 : trail[j] = -l

\* The level stored with a variable is the number of decision levels that
\* begin before it, also for literals enqueued after a theory backtrack.
LevelsAgree ==
  \A i \in 1 .. Len(trail) :
    level[var(trail[i])] = Cardinality({k \in 1 .. decisionLevel : trail_lim[k] < i})

\* Every clause the solver keeps, learns or resolves with, and every literal of
\* level zero, follows from the given clauses and the theory alone: nothing
\* depends on the assumptions of the call it was learnt in.
LearntImplied ==
  LET models == GivenModel
      Implied(c) == \A m \in models : c \cap m # {}
  IN  /\ \A c \in clauses \cup learnts : Implied(c)
      /\ \A i \in 1 .. EndOf(0) : Implied({trail[i]})
      /\ pc \in {"conflict", "analyze"} => Implied(confl)

\* Lemmas that imply a literal come sorted so that going back for one of them
\* never undoes what an earlier one implied: handleNewSplitClauses asserts that
\* nothing waits to be enqueued when it backtracks.
SplitsInOrder ==
  pc = "split" /\ splits # <<>> =>
    \/ ~Implies(Head(splits)) \/ SplitLevel(Head(splits)) >= decisionLevel
    \/ propData = <<>>

\* When propagate returns without a conflict no clause is falsified, and no
\* clause that was not attached by a split has become unit unnoticed.
PropagationComplete ==
  pc = "consistent" =>
    \A c \in DOMAIN watched :
      \/ Satisfied(c)
      \/ Cardinality(Unknown(c)) > (IF c \in SplitClause THEN 0 ELSE 1)

\* analyze stops at a literal of the current level, and what else it keeps is
\* false at lower levels, also when reasons came from the theory or the conflict
\* from below the current level: search asserts that the learnt clause implies
\* its first literal after the backjump.
LearntAsserts ==
  pc = "learn" =>
    /\ level[var(p)] = decisionLevel
    /\ \A l \in Minimized : False(l) /\ level[var(l)] \in 1 .. decisionLevel - 1

\* unsat: no model of the given clauses and the theory agrees with the assumptions.
UnsatCorrect == answer = "unsat" => \A m \in GivenModel : ~(Range(assumptions) \subseteq m)

\* sat: the model agrees with the given clauses, the theory and the assumptions.
SatCorrect ==
  LET as == Range(assumptions) IN
  answer = "sat" =>
    /\ as \subseteq model
    /\ \E m \in GivenModel :
         {l \in model : var(l) \in decision \cup Vars(as)} \subseteq m

\* The first conflict_frame active assumptions are already too many.
ConflictFrameCorrect ==
  conflict_frame > 0 =>
    LET few == {assumptions[i] : i \in {j \in Active :
                  assumptions_order(var(assumptions[j])) < conflict_frame}}
    IN  \A m \in GivenModel : ~(few \subseteq m)

\* A call of solve ends.
SolveTerminates == (pc # "idle") ~> (pc = "idle")

\* THandler::assertLits asserts that an atom of the theory has been declared.
AssertedIsDeclared ==
  pc = "checkTheory" /\ Len(stack) < Len(trail) =>
    LET v == var(trail[Len(stack) + 1]) IN v \in TheoryVar <=> v \in declared

\* Every clause the solver keeps, learns or resolves with, and every literal of
\* level zero, follows from the given clauses and the theory alone, and the answer
\* unsat is right.
SearchSound == LearntImplied /\ UnsatCorrect

\* The theory solvers hold a prefix of the trail with one backtrack point for
\* every atom in it, know these atoms, and can still explain every literal they
\* deduced by what they were told before it.
TheoryFollows == TheoryInSync /\ AssertedIsDeclared /\ DeductionsExplained

\* Reasons are clauses of the solver with the literal first and the others false before
\* it, levels are those of the trail, propagation misses no unit clause, what analyze
\* learns is asserting, split lemmas come in an order that undoes none of them, and no
\* deduction is lost; hence sat comes with a model of the clauses and the assumptions,
\* and the conflict frame names assumptions that are already too many.
SearchExact ==
  /\ TypeOK /\ ReasonsInPlace /\ LevelsAgree /\ PropagationComplete /\ LearntAsserts
  /\ SplitsInOrder /\ DeductionsDelivered
  /\ SatCorrect /\ ConflictFrameCorrect
=============================================================================
