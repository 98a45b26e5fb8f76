----------------------------- MODULE MCEncoding -----------------------------
(***************************************************************************)
(* Instances of the encodings for the SAT solver: formulas as clauses      *)
(* (Cnfizer) and bit vectors as circuits (BitBlaster).  A behaviour is     *)
(* about the instance that part names; what is not of the instance has the *)
(* value Unused.                                                           *)
(***************************************************************************)
EXTENDS Integers, Sequences, FiniteSets

VARIABLES
  part, made,
  given, clauses, alreadyAsserted, alreadyCnfized,             \* Cnfizer
  env, holds, wanted, bound, refined, last_refined, related    \* BitBlaster

cnfVars == <<given, clauses, alreadyAsserted, alreadyCnfized>>
bvVars == <<env, holds, wanted, bound, refined, last_refined, related>>
vars == <<part, made, cnfVars, bvVars>>

Unused == "unused"
CnfUnused ==
  given = Unused /\ clauses = Unused /\ alreadyAsserted = Unused /\ alreadyCnfized = Unused
BVUnused ==
  /\ env = Unused /\ holds = Unused /\ wanted = Unused /\ bound = Unused
  /\ refined = Unused /\ last_refined = Unused /\ related = Unused

\* All constructors in one frame; formulas shared by frames; predicates of formulas.
Shapes == INSTANCE Cnfizer WITH
  Atoms <- {"a", "b"}, Predicates <- {}, MaxFrame <- 0,
  Ops <- {"not", "and", "or", "xor", "eq", "impl", "distinct", "and3", "or3", "eq3"},
  MaxMade <- 3, MaxGiven <- 1
Frames == INSTANCE Cnfizer WITH
  Atoms <- {"a", "b"}, Predicates <- {}, MaxFrame <- 2, Ops <- {"and", "xor", "impl"},
  MaxMade <- 2, MaxGiven <- 3
Nested == INSTANCE Cnfizer WITH
  Atoms <- {"a", "b"}, Predicates <- {"p"}, MaxFrame <- 1, Ops <- {"p", "and", "not", "eq"},
  MaxMade <- 3, MaxGiven <- 2

\* The constructors of BVLogic whose result has the meaning of the call: over all words of
\* two variables, over terms with constants, and the bindings of uninterpreted terms.
RightOps == {"minus", "compl", "eq", "neq", "ule", "uge", "slt", "sgt", "sle", "sge",
             "add", "mul", "udiv", "urem", "and", "or", "xor", "land", "lor", "lshift", "lrshift"}
AllWords == INSTANCE BitBlaster WITH
  Width <- 4, Vars <- {"x", "y"}, Constants <- {}, Ops <- RightOps \cup {"not"},
  MaxDepth <- 1, CufTerms <- {}
Terms == INSTANCE BitBlaster WITH
  Width <- 4, Vars <- {"x"}, Constants <- {1, 5}, Ops <- RightOps, MaxDepth <- 2,
  CufTerms <- {}
Bindings == INSTANCE BitBlaster WITH
  Width <- 2, Vars <- {"x", "y"}, Constants <- {}, Ops <- {"add"}, MaxDepth <- 0,
  CufTerms <- {"c1", "c2", "c3", "c4"}

-----------------------------------------------------------------------------
Init ==
  \/ /\ BVUnused
     /\ \/ part = "shapes" /\ Shapes!Init
        \/ part = "frames" /\ Frames!Init
        \/ part = "nested" /\ Nested!Init
  \/ /\ CnfUnused
     /\ \/ part = "words" /\ AllWords!Init
        \/ part = "terms" /\ Terms!Init
        \/ part = "bindings" /\ Bindings!Init

Next ==
  /\ UNCHANGED part
  /\ \/ /\ UNCHANGED bvVars
        /\ \/ part = "shapes" /\ Shapes!Next
           \/ part = "frames" /\ Frames!Next
           \/ part = "nested" /\ Nested!Next
     \/ /\ UNCHANGED cnfVars
        /\ \/ part = "words" /\ AllWords!Next
           \/ part = "terms" /\ Terms!Next
           \/ part = "bindings" /\ Bindings!Next

Spec == Init /\ [][Next]_vars

-----------------------------------------------------------------------------
\* Whatever frames are enabled, their clauses have a model over a structure exactly when
\* the formulas given in these frames are true in it.
ClausesMeanFormulas ==
  CASE part = "shapes" -> Shapes!TypeOK /\ Shapes!ClausesMeanFormulas
    [] part = "frames" -> Frames!ClausesMeanFormulas
    [] part = "nested" -> Nested!ClausesMeanFormulas
    [] OTHER -> TRUE

\* The circuit of a term computes the number that the constructor calls mean, and what is
\* inserted holds exactly when the predicates do.
CircuitsMeanTerms ==
  CASE part = "words" -> AllWords!Right
    [] part = "terms" -> Terms!Right
    [] OTHER -> TRUE

\* notifyEqualities relates every two refined terms once, and rightly.
PairsRelatedOnce == part = "bindings" => Bindings!PairsRelatedOnce
=============================================================================
