------------------------------ MODULE MCProofs ------------------------------
(***************************************************************************)
(* Instances of the transformations of proofs (ProofTransformation) and of *)
(* the interpolants read off them (Interpolation).  A behaviour is about   *)
(* the instance that part names; mask and itps are Unused where no         *)
(* interpolant is computed.                                                *)
(***************************************************************************)
EXTENDS Integers, Sequences, FiniteSets

VARIABLES part, log, pg, todo, phase, work, mask, itps

proofVars == <<log, pg, todo, phase, work>>
itpVars == <<mask, itps>>
vars == <<part, proofVars, itpVars>>

Unused == "unused"

\* Derivations: leaves of one type each, and chains.
Leaves(S, t) == [i \in DOMAIN S |-> [cla |-> S[i], chain |-> <<>>, vars |-> <<>>, type |-> t]]
Given(S) == Leaves(S, "orig")
Chain(c, ch, vs) == [cla |-> c, chain |-> ch, vars |-> vs, type |-> "learnt"]

-----------------------------------------------------------------------------
\* The options of the reduction.
Full == [push |-> TRUE, hash |-> TRUE, rp |-> TRUE, rpFirst |-> FALSE, trav |-> TRUE,
         loops |-> 2, passes |-> 3]
OnlyRp == [Full EXCEPT !.push = FALSE, !.hash = FALSE, !.trav = FALSE, !.loops = 1]
OnlyUnits == [Full EXCEPT !.rp = FALSE, !.hash = FALSE, !.trav = FALSE, !.loops = 1]
OnlyTrav == [Full EXCEPT !.rp = FALSE, !.hash = FALSE, !.push = FALSE]
NoUnits == [Full EXCEPT !.push = FALSE]
AllOptions == {Full, OnlyRp, OnlyUnits, OnlyTrav, NoUnits}

\* The proofs of test_recyclePivots and test_recyclePivots_IdenticalAntecedents; a .. d
\* are 1 .. 4.
LogRecycle ==
  Given(<<{1, 2}, {-2, 3}, {-2, -3}, {2, -3}, {-1, 3}, {-3, -4}, {-3, 4}, {-1, 4}>>)
  \o << Chain({1, 3}, <<1, 2>>, <<2>>), Chain({-4}, <<3, 9, 1, 5, 6>>, <<3, 2, 1, 3>>),
        Chain({}, <<7, 9, 8, 10>>, <<3, 1, 4>>) >>
LogTwins ==
  Given(<<{1, 4}, {2, -4}, {-1, 3}, {-1, -3}, {-2, -4}, {4, 5}, {2, -3, -4, -5}, {4, -5}, {-2, -5}>>)
  \o << Chain({1, 2}, <<1, 2>>, <<4>>), Chain({2, 3}, <<3, 10>>, <<1>>),
        Chain({-5}, <<7, 11, 9, 8>>, <<3, 2, 4>>),
        Chain({}, <<4, 11, 10, 5, 6, 12>>, <<3, 1, 2, 4, 5>>) >>
Tests == INSTANCE ProofTransformation WITH
  Logs <- {LogRecycle, LogTwins}, Reductions <- AllOptions, Randomize <- TRUE, Mixed <- {},
  Assumptions <- {}, MaxReasons <- 2, MaxNodes <- 40, MaxLearnt <- 2

\* Unsatisfiable sets of clauses; 5 and 6 are assumed in the last one.
Square == Given(<<{1, 2}, {1, -2}, {-1, 2}, {-1, -2}>>)
UnsatLogs ==
  {Square, Given(<<{1, 2}, {-1, 3}, {-2, 3}, {-3, 1}, {-3, -1}>>),
   Given(<<{1, 2, -5}, {1, -2}, {-1, 2, -6}, {-1, -2}>>) \o Leaves(<<{5}, {6}>>, "assumption")}
Reduction == INSTANCE ProofTransformation WITH
  Logs <- UnsatLogs, Reductions <- {Full, NoUnits}, Randomize <- FALSE, Mixed <- {},
  Assumptions <- {5, 6}, MaxReasons <- 2, MaxNodes <- 40, MaxLearnt <- 2

\* 5 and 6 occur in theory lemmas only.
TheoryLogs ==
  {Leaves(<<{5, 1}, {-5, 2}>>, "theory") \o Given(<<{-1, 3}, {-2, 3}, {-3, 1}, {-1, -3}>>),
   Leaves(<<{5, 1}, {-5, 6, 2}, {-6, 3}>>, "theory")
   \o Given(<<{-1, 2}, {-2, 3}, {-3, -2}, {-1, -3}>>)}
Lifting == INSTANCE ProofTransformation WITH
  Logs <- TheoryLogs, Reductions <- {}, Randomize <- FALSE, Mixed <- {5, 6},
  Assumptions <- {}, MaxReasons <- 2, MaxNodes <- 40, MaxLearnt <- 1

-----------------------------------------------------------------------------
\* Interpolants, by every algorithm: for two partitions, with clauses of both and assumed
\* literals; for a path of partitions; with theory lemmas and splits, where 4 is in
\* lemmas and splits only.
All == {"mcmillan", "mcmillanp", "pudlak", "ps", "psw", "pss"}
SingleLogs ==
  {Square, Given(<<{1, 2, 3}, {-1}, {-2, 1}, {-3, 2}>>),
   Given(<<{1, -5}, {-1, 2, -6}, {-2, -1}>>) \o Leaves(<<{5}, {6}>>, "assumption")}
Single == INSTANCE Interpolation WITH
  Logs <- SingleLogs, Reductions <- {}, Randomize <- FALSE, Mixed <- {}, Assumptions <- {5, 6},
  MaxReasons <- 2, MaxNodes <- 40, MaxLearnt <- 1, Partitions <- {1, 2},
  Masks <- {{1}, {2}, {1, 2}}, Allowed <- {1, 2}, Algorithms <- All, Paths <- {<<{1}>>}
PathLogs == {Given(<<{1, 2}, {-1, 3}, {-2, 3}, {-3}>>)}
Path == INSTANCE Interpolation WITH
  Logs <- PathLogs, Reductions <- {}, Randomize <- FALSE, Mixed <- {}, Assumptions <- {},
  MaxReasons <- 2, MaxNodes <- 40, MaxLearnt <- 1, Partitions <- {1, 2, 3},
  Masks <- {{1}, {2}, {3}}, Allowed <- {1, 2, 3}, Algorithms <- All, Paths <- {<<{1}, {1, 2}>>}
LemmaLogs ==
  {Leaves(<<{4, 1}, {-4, 2}>>, "theory") \o Given(<<{-1, 3}, {-2, 3}, {-3}>>),
   Leaves(<<{-1, -2, 4}>>, "theory") \o Leaves(<<{-4, -3}>>, "split") \o Given(<<{1}, {2}, {3}>>)}
WithLemmas == INSTANCE Interpolation WITH
  Logs <- LemmaLogs, Reductions <- {}, Randomize <- FALSE, Mixed <- {}, Assumptions <- {},
  MaxReasons <- 2, MaxNodes <- 40, MaxLearnt <- 1, Partitions <- {1, 2},
  Masks <- {{1}, {2}}, Allowed <- {1, 2}, Algorithms <- All, Paths <- {<<{1}>>}

-----------------------------------------------------------------------------
Init ==
  \/ /\ mask = Unused /\ itps = Unused
     /\ \/ part = "tests" /\ Tests!Init
        \/ part = "reduction" /\ Reduction!Init
        \/ part = "lifting" /\ Lifting!Init
  \/ part = "single" /\ Single!InitAll
  \/ part = "path" /\ Path!InitAll
  \/ part = "lemmas" /\ WithLemmas!InitAll

Next ==
  /\ UNCHANGED part
  /\ \/ /\ UNCHANGED itpVars
        /\ \/ part = "tests" /\ Tests!Next
           \/ part = "reduction" /\ Reduction!Next
           \/ part = "lifting" /\ Lifting!Next
     \/ part = "single" /\ Single!NextAll
     \/ part = "path" /\ Path!NextAll
     \/ part = "lemmas" /\ WithLemmas!NextAll

\* The transformations run to their end once the proof is complete.
Ready == part \in {"tests", "lifting"} => phase \in {"log", "done"}
Transforming == (part = "tests" /\ Tests!Step) \/ (part = "lifting" /\ Lifting!Step)
Fairness == []<>Ready \/ []<><<Transforming>>_vars

Spec == Init /\ [][Next]_vars /\ Fairness

-----------------------------------------------------------------------------
\* The graph keeps its shape through every rewriting: edges in both directions agree, no
\* edge leads to a removed node, the leaves are known and no assertion of the visits fails.
ProofShape ==
  CASE part = "tests" -> Tests!Shape
    [] part = "reduction" -> Reduction!Shape
    [] part = "lifting" -> Lifting!Shape
    [] OTHER -> TRUE

\* The proof stays a refutation of what was logged: every node is the resolvent of its
\* antecedents, the leaves are clauses of the log or follow from its lemmas, no variable
\* without a partition is left, and, but for lifted proofs, the first antecedent has the
\* pivot and the proof has not grown.
ProofSound ==
  CASE part = "tests" -> Tests!Sound /\ Tests!ReductionShrinks
    [] part = "reduction" -> Reduction!Sound /\ Reduction!PositiveFirst
    [] part = "lifting" -> Lifting!Sound
    [] OTHER -> TRUE

\* Once built, a proof is transformed to the end: the traversals come to one that
\* applies no rule.
Terminates == ~Ready ~> (part \in {"tests", "lifting"} => phase = "done")

\* Interpolants follow from A, contradict B, depend on shared variables only, and form a
\* path.
Interpolants ==
  CASE part = "single" -> Single!InterpolantSound /\ Single!InterpolantShared
    [] part = "path" -> Path!InterpolantSound /\ Path!PathInterpolation
    [] part = "lemmas" -> WithLemmas!InterpolantSound
    [] OTHER -> TRUE
=============================================================================
