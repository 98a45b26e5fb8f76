-------------------------- MODULE MCSimpSMTSolver --------------------------
(***************************************************************************)
(* Instances of SimpSMTSolver: a behaviour is about the one part names.    *)
(***************************************************************************)
EXTENDS Integers, Sequences, FiniteSets

VARIABLES part, db, occ, elims, ctl, given, answers
vars == <<part, db, occ, elims, ctl, given, answers>>

\* Clauses over four variables with one assumption; small clauses, with the other options
\* on, for two calls of solve, and with clauses that use eliminated variables again.
FourClauses ==
  {{1, 2, 3}, {-1, 2, -4}, {1, -2, 4}, {-2, -3, 4}, {-1, 3}, {-3, -4}, {2, 4},
   {-1, -2, -3, -4}}
SmallClauses == {{1, 2}, {-1, 2}, {1, -2, 3}, {-2, -3}, {-1, 3}, {2, 3}, {-3}}

Four == INSTANCE SimpSMTSolver WITH
  Atoms <- 1 .. 4, Theory <- {2, 3, 4}, Inputs <- FourClauses, Assumptions <- {{-4}}, Grow <- 0,
  ClauseLim <- 20, SubsumptionLim <- 1000, UseAsymm <- FALSE, UseRcheck <- FALSE,
  Reuse <- FALSE, MaxGiven <- 4, MaxSolves <- 1
Options == INSTANCE SimpSMTSolver WITH
  Atoms <- 1 .. 3, Theory <- {}, Inputs <- SmallClauses, Assumptions <- {{}}, Grow <- 1,
  ClauseLim <- 20, SubsumptionLim <- 1000, UseAsymm <- TRUE, UseRcheck <- TRUE,
  Reuse <- FALSE, MaxGiven <- 4, MaxSolves <- 1
Twice == INSTANCE SimpSMTSolver WITH
  Atoms <- 1 .. 3, Theory <- {2}, Inputs <- SmallClauses, Assumptions <- {{}}, Grow <- 0,
  ClauseLim <- 20, SubsumptionLim <- 1000, UseAsymm <- FALSE, UseRcheck <- FALSE,
  Reuse <- FALSE, MaxGiven <- 4, MaxSolves <- 2
Reused == INSTANCE SimpSMTSolver WITH
  Atoms <- 1 .. 3, Theory <- {}, Inputs <- SmallClauses, Assumptions <- {{}}, Grow <- 0,
  ClauseLim <- 20, SubsumptionLim <- 1000, UseAsymm <- FALSE, UseRcheck <- FALSE,
  Reuse <- TRUE, MaxGiven <- 4, MaxSolves <- 2

Init ==
  \/ part = "four" /\ Four!Init
  \/ part = "options" /\ Options!Init
  \/ part = "twice" /\ Twice!Init

Next ==
  /\ UNCHANGED part
  /\ \/ part = "four" /\ Four!Next
     \/ part = "options" /\ Options!Next
     \/ part = "twice" /\ Twice!Next

\* eliminate is a loop of one thread.
Eliminated == part = "options" => ctl.pc \in {"idle", "search"}
Eliminating == part = "options" /\ Options!Eliminate
Fairness == []<>Eliminated \/ []<><<Eliminating>>_vars

Spec == Init /\ [][Next]_vars /\ Fairness

ReuseSpec ==
  part = "reused" /\ Reused!Init /\ [][UNCHANGED part /\ Reused!Next]_vars

-----------------------------------------------------------------------------
\* Clauses, occurrence lists, counts and queues agree through every strengthening and
\* removal, and eliminated variables occur nowhere; backward subsumption leaves no clause
\* that another one subsumes.
ClausesIndexed ==
  CASE part = "four" -> Four!Indexed /\ Four!NothingSubsumed
    [] part = "options" -> Options!Indexed
    [] part = "twice" -> Twice!Indexed

\* Simplification keeps the models of what was given, as far as the variables not
\* eliminated go; answers are right, and the models extended to the eliminated variables
\* satisfy every clause given.
AnswersRight ==
  CASE part = "four" -> Four!Right
    [] part = "options" -> Options!Right
    [] part = "twice" -> Twice!Right

\* eliminate comes to its end, whatever it touches on the way.
EliminateEnds == ~Eliminated ~> Eliminated

\* The answers are right also when a later clause holds an eliminated variable.
ReusedRight == Reused!AnswersRight
=============================================================================
