-------------------------- MODULE MCCoreSMTSolver --------------------------
(***************************************************************************)
(* Small instances of CoreSMTSolver over one theory.  A behaviour is about *)
(* one of them, the one part names; they differ in the clauses that come,  *)
(* in the assumptions and in what the search may do.                       *)
(***************************************************************************)
EXTENDS CoreSMTSolver

VARIABLE part

allVars == <<part, vars>>

\* The atoms 1, 2, 3 with 1 /\ 2 => 3 and 3 => 1 \/ 2, and two more which only some
\* instances know: 5 excludes 1 but one of 1, 2, 5 is true, and 6 excludes 2.  4 and 7
\* are Boolean variables.
MCConflict == {{1, 2, -3}, {-1, -2, 3}, {1, 5}, {-1, -2, -5}, {2, 6}}
Assignments == {P \cup {-v : v \in 1 .. 7 \ P} : P \in SUBSET (1 .. 7)}
Consistent == {m \in Assignments : ~ \E t \in MCConflict : t \subseteq m}
MCModels == Consistent

\* Splits, in the module extended: the atoms 5 and 6 are known only once a lemma
\* mentions them.
UnitClause == {{1}, {-2}, {-1, 2}}
SplitLemma == {{1, 2, 5}, {-1, -5}, {-2, -6}}
OneFrame == {<<>>, <<-4>>}

\* Deductions: two ways to deduce each of the atoms.
DedClause == {{1, 4}, {2, -4}, {-3, 4}, {-2, -3, -4}}
Deducing == INSTANCE CoreSMTSolver WITH
  InputClause <- DedClause, SplitClause <- {}, Assumption <- {<<>>}, MayStop <- FALSE,
  GlueLimit <- 2, MaxSolves <- 1, MaxStarts <- 1

\* The same clauses; keeping every learnt clause, the search ends.
Keeping == INSTANCE CoreSMTSolver WITH
  InputClause <- DedClause, SplitClause <- {}, Assumption <- {<<>>}, MayStop <- FALSE,
  GlueLimit <- 4, MaxSolves <- 1, MaxStarts <- 1

\* Frames: 4 and 7 are frame variables, and the theory refutes 1 and 5 across them.
Frames == INSTANCE CoreSMTSolver WITH
  InputClause <- {{1, 4}, {-1, 5, 4}, {5, 7}, {-1, 7}}, SplitClause <- {},
  Assumption <- {<<-4>>, <<-4, -7>>, <<4, -7>>}, MayStop <- FALSE,
  GlueLimit <- 1, MaxSolves <- 2, MaxStarts <- 1

\* Upkeep: no theory conflict, and clauses enough to learn, remove, restart and
\* reach a conflict at level zero.
Upkeep == INSTANCE CoreSMTSolver WITH
  InputClause <- {{1, 4, 7}, {-1, 7}, {-4, 7}, {-7, 1}, {-7, -1}}, SplitClause <- {},
  Assumption <- {<<>>}, MayStop <- TRUE, GlueLimit <- 1, MaxSolves <- 1, MaxStarts <- 2

\* Declarations: the clause {1, 4} is the only one that mentions 1, and {4} makes it
\* superfluous.
Atoms == INSTANCE CoreSMTSolver WITH
  InputClause <- {{1, 4}, {-2, 3}, {4}}, SplitClause <- {}, Assumption <- {<<>>},
  MayStop <- FALSE, GlueLimit <- 2, MaxSolves <- 2, MaxStarts <- 1

-----------------------------------------------------------------------------
MCInit ==
  Init /\ part \in {"deductions", "keeping", "frames", "upkeep", "atoms", "splits"}

MCNext ==
  /\ UNCHANGED part
  /\ \/ part = "splits" /\ Next
     \/ part = "keeping" /\ Keeping!Next
     \/ part = "frames" /\ Frames!Next
     \/ part = "upkeep" /\ Upkeep!Next
     \/ part = "atoms" /\ Atoms!Next
     \/ part = "deductions" /\ Deducing!Next

\* search() runs until it returns.
Searching == part = "keeping" /\ Keeping!SearchStep /\ UNCHANGED part

MCSpec == MCInit /\ [][MCNext]_allVars /\ WF_allVars(Searching)

-----------------------------------------------------------------------------
\* A call of solve ends, provided no learnt clause is thrown away (every restart and
\* reduction keeps them).
SolveEnds == (part = "keeping" /\ pc # "idle") ~> (pc = "idle")
=============================================================================
