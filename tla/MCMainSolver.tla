---------------------------- MODULE MCMainSolver ----------------------------
(***************************************************************************)
(* Small instances of MainSolver.  Two interpretations are enough for      *)
(* formulas that are jointly but not individually unsatisfiable.  option   *)
(* says which solver is meant: one that collates the partitions, one that  *)
(* keeps them separate for interpolation, and one that may overflow.       *)
(***************************************************************************)
EXTENDS MainSolver

CONSTANTS m1, m2

VARIABLE option

MCInterp == {m1, m2}

\* Two formulas that contradict each other, and one that nothing satisfies.
MCFormula == {{m1}, {m2}, {}}

Separate == INSTANCE MainSolver WITH ProduceInter <- TRUE
Overflowing == INSTANCE MainSolver WITH CanOverflow <- TRUE

MCInit == Init /\ option \in {"collated", "separate", "overflow"}

MCNext ==
  /\ UNCHANGED option
  /\ \/ option = "collated" /\ Next
     \/ option = "separate" /\ Separate!Next
     \/ option = "overflow" /\ Overflowing!Next

MCCheckStep ==
  /\ UNCHANGED option
  /\ \/ option = "collated" /\ CheckStep
     \/ option = "separate" /\ Separate!CheckStep
     \/ option = "overflow" /\ Overflowing!CheckStep

MCSpec == MCInit /\ [][MCNext]_<<vars, option>> /\ WF_<<vars, option>>(MCCheckStep)
=============================================================================
