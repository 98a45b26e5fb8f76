----------------------------- MODULE MCLASolver -----------------------------
(***************************************************************************)
(* Instances of LASolver for TLC.  Variables 0 and 1 are x and y, 2 stands *)
(* for x + y (or 2x + 3y), 3 for x - y (or x + y).                         *)
(***************************************************************************)
EXTENDS Integers, Sequences, FiniteSets, TLC

VARIABLES
  part,
  status, informed, bounds, tableau, cur, last, changed, limits, candidates, buffer,
  boundsActivated, repeats, complete, decisions, polarity, deductions, explanation,
  split, concrete_model, told, checked

vars ==
  <<part, status, informed, bounds, tableau, cur, last, changed, limits, candidates, buffer,
    boundsActivated, repeats, complete, decisions, polarity, deductions, explanation,
    split, concrete_model, told, checked>>

AtLeast(var, n) == [v |-> var, neg |-> FALSE, c |-> <<n, 0, 1>>]
AtMost(var, n) == [v |-> var, neg |-> TRUE, c |-> <<-n, 0, 1>>]

Sum == [x \in {0, 1} |-> 1]
Difference == 0 :> 1 @@ 1 :> -1
Weighted == 0 :> 2 @@ 1 :> 3

\* x + y >= 2, x <= 1, y <= 0
OneSumAtoms == {AtLeast(2, 2), AtMost(0, 1), AtMost(1, 0)}
OneSum == INSTANCE LASolver WITH
  Column <- {0, 1}, Poly <- (2 :> Sum), IntColumn <- {}, InputAtom <- OneSumAtoms,
  LateAtom <- {}, CutTerm <- {}, MaxPoints <- 3

\* x + y >= 2 and x - y >= 2: both sums become basic and leave the basis again
TwoSumsAtoms == {AtLeast(2, 2), AtLeast(3, 2)}
TwoPolys == 2 :> Sum @@ 3 :> Difference
TwoSums == INSTANCE LASolver WITH
  Column <- {0, 1}, Poly <- TwoPolys, IntColumn <- {}, InputAtom <- TwoSumsAtoms,
  LateAtom <- {}, CutTerm <- {}, MaxPoints <- 2

\* x + y >= 2, x + y >= 1, x + y <= 1; x + y <= 1 may come after the first search
ChainAtoms == {AtLeast(2, 2), AtLeast(2, 1), AtMost(2, 1)}
LateAtoms == {AtMost(2, 1)}
Chain == INSTANCE LASolver WITH
  Column <- {0, 1}, Poly <- (2 :> Sum), IntColumn <- {}, InputAtom <- ChainAtoms,
  LateAtom <- LateAtoms, CutTerm <- {}, MaxPoints <- 2

\* 2x + 3y >= 1 over the integers, and splits of x and y, or of x + y
WeightedAtoms == {AtLeast(2, 1)}
SplitAtoms == {AtMost(0, 0), AtLeast(0, 1), AtMost(1, 0), AtLeast(1, 1)}
Integral == INSTANCE LASolver WITH
  Column <- {0, 1}, Poly <- (2 :> Weighted), IntColumn <- {0, 1}, InputAtom <- WeightedAtoms,
  LateAtom <- SplitAtoms, CutTerm <- {}, MaxPoints <- 2
CutPolys == 2 :> Weighted @@ 3 :> Sum
CutAtoms == {AtMost(3, 0), AtLeast(3, 1)}
Cuts == INSTANCE LASolver WITH
  Column <- {0, 1}, Poly <- CutPolys, IntColumn <- {0, 1}, InputAtom <- WeightedAtoms,
  LateAtom <- CutAtoms, CutTerm <- {3}, MaxPoints <- 2

-----------------------------------------------------------------------------
Init ==
  \/ part = "one sum" /\ OneSum!Init
  \/ part = "two sums" /\ TwoSums!Init
  \/ part = "chain" /\ Chain!Init
  \/ part = "integers" /\ Integral!Init
  \/ part = "cuts" /\ Cuts!Init

Next ==
  /\ UNCHANGED part
  /\ \/ part = "one sum" /\ OneSum!Next
     \/ part = "two sums" /\ TwoSums!Next
     \/ part = "chain" /\ Chain!Next
     \/ part = "integers" /\ Integral!Next
     \/ part = "cuts" /\ Cuts!Next

\* The loop of checkSimplex runs to its end.
Done == part = "one sum" => OneSum!Idle
Looping == part = "one sum" /\ OneSum!Loop
Fairness == []<>Done \/ []<><<Looping>>_vars

Spec == Init /\ [][Next]_vars /\ Fairness

-----------------------------------------------------------------------------
\* What check and the deductions answer is right for the bounds told: a successful check
\* leaves every variable within its bounds, also after backtracking; a conflict is a
\* Farkas proof over literals told; deductions have reasons and none is missed; the model
\* satisfies every literal and is integral where it must be; a split excludes no integer.
LAAnswers ==
  CASE part = "one sum" -> OneSum!Answers
    [] part = "two sums" -> TwoSums!Answers
    [] part = "chain" -> Chain!Answers
    [] part = "integers" -> Integral!Answers
    [] part = "cuts" -> Cuts!Answers

\* The simplex state is consistent however it was pivoted and undone: rows mean their sums,
\* columns index rows, basic variables have the values of their rows, the candidates are
\* the variables out of bounds, and bounds, activity counts and polarities follow the
\* literals told.
LAStructure ==
  CASE part = "one sum" -> OneSum!Structure
    [] part = "two sums" -> TwoSums!Structure
    [] part = "chain" -> Chain!Structure
    [] part = "integers" -> Integral!Structure
    [] part = "cuts" -> Cuts!Structure

\* Simplex terminates: Bland's rule takes over before pivots can repeat.
CheckTerminates == ~Done ~> Done
=============================================================================
