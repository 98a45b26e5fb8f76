--------------------------- MODULE Interpolation ---------------------------
(***************************************************************************)
(* Interpolants from the proof graph (InterpolationContext.cc): the        *)
(* labelled interpolation systems over the proof that ProofTransformation  *)
(* leaves, for one partitioning and for a path of partitionings.           *)
(*                                                                         *)
(* A formula is the set of its models, a model the set of its true         *)
(* literals.  Only models of the theory are considered: those that satisfy *)
(* its lemmas and splits.                                                  *)
(***************************************************************************)
EXTENDS ProofTransformation

CONSTANTS
    Partitions,   \* indices of the top-level assertions
    Masks,        \* which sets of assertions a clause may come from
    Allowed,      \* partitions of a theory atom that is in no assertion
    Algorithms,   \* values of the option interpolation-bool-algorithm
    Paths         \* sequences of sets A, each one contained in the next

VARIABLES
    mask,         \* PartitionInfo::clause_class: the assertions a clause comes from
    itps          \* the interpolants computed so far, with what they are for

allVars == <<vars, mask, itps>>

-----------------------------------------------------------------------------
(* Partitions *)

OrigLeaves(L) == {L[i].cla : i \in {i \in DOMAIN L : L[i].type = "orig"}}

Assumed(l) == l \in Assumptions

AssumedVar(v) == v \in Assumptions \/ -v \in Assumptions

VarMask(v) ==
    LET S == UNION {mask[c] : c \in {c \in DOMAIN mask : v \in Vars(c)}} IN IF S = {} THEN Allowed ELSE S

\* getClass
Class(S, A) == IF S \subseteq A THEN "A" ELSE IF S \cap A = {} THEN "B" ELSE "AB"

VarClass(v, A) == IF AssumedVar(v) THEN "AB" ELSE Class(VarMask(v), A)

-----------------------------------------------------------------------------
(* Labels of the shared variables: a colour is "A", "B" or "AB". *)

\* computePSFunction: where a variable occurs more often in the original
\* leaves; a clause of both sides counts for neither.  The label of a
\* variable without an occurrence is read past the end of the map: other.
PSLabel(g, v, A, other) ==
    LET occ(class) == Cardinality({n \in g.leaves : /\ g.node[n].type = "orig" /\ v \in Vars(g.node[n].cla)
                                                    /\ Class(mask[g.node[n].cla], A) = class})
    IN  IF occ("A") = 0 /\ occ("B") = 0 THEN other ELSE IF occ("A") > occ("B") THEN "A" ELSE "B"

\* labelLeaf
Label(g, alg, v, A, other) ==
    CASE alg = "mcmillan" -> "B" [] alg = "mcmillanp" -> "A" [] alg = "pudlak" -> "AB"
      [] alg = "ps" -> PSLabel(g, v, A, other)
      [] alg = "psw" -> IF PSLabel(g, v, A, other) = "A" THEN "A" ELSE "AB"
      [] alg = "pss" -> IF PSLabel(g, v, A, other) = "A" THEN "AB" ELSE "B"

\* The colours of a leaf as sets of pairs of a shared variable and "a" or "b".
Bits(c) == CASE c = "A" -> {"a"} [] c = "B" -> {"b"} [] OTHER -> {"a", "b"}

LeafColours(g, alg, n, A, other) ==
    UNION {{v} \X Bits(Label(g, alg, v, A, other)) : v \in {v \in Vars(g.node[n].cla) : VarClass(v, A) = "AB"}}

ColourIn(S, v) == LET B == {s[2] : s \in {s \in S : s[1] = v}} IN IF B = {"a"} THEN "A" ELSE IF B = {"b"} THEN "B" ELSE "AB"

Colour(S, v, A) == IF VarClass(v, A) = "AB" THEN ColourIn(S, v) ELSE VarClass(v, A)

-----------------------------------------------------------------------------
(* Partial interpolants *)

TheoryModels == {m \in Models : \A i \in DOMAIN log : log[i].type \in {"theory", "split"} => log[i].cla \cap m # {}}

Holds(l, W) == {m \in W : l \in m}

\* getRestrictedNodeClause: the literals of a colour, but for those whose
\* negation is assumed.
Restricted(c, S, A, class) == {l \in c : ~Assumed(-l) /\ Colour(S, IF l < 0 THEN -l ELSE l, A) = class}

\* getInterpolantForOriginalClause
OriginalInterpolant(c, S, A, side, W) ==
    IF side = "A" THEN UNION {Holds(l, W) : l \in Restricted(c, S, A, "B")}
    ELSE {m \in W : \A l \in Restricted(c, S, A, "A") : -l \in m}

\* A clause of both sides is taken as one of A.
SideOf(S, A) == IF Class(S, A) = "B" THEN "B" ELSE "A"

\* A split has the class its two variables have in common, or A.
SplitSide(c, A) == IF {VarClass(v, A) : v \in Vars(c)} \in {{"B"}, {"B", "AB"}} THEN "B" ELSE "A"

\* A theory interpolant (external): it follows from the negated literals of
\* A and contradicts those of B; the strongest or the weakest one.
TheoryInterpolant(c, S, A, weak, W) ==
    LET of(classes) == {m \in W : \A l \in c : Colour(S, IF l < 0 THEN -l ELSE l, A) \in classes => -l \in m}
    IN  IF weak THEN W \ of({"B", "AB"}) ELSE of({"A", "AB"})

\* Mutant: the antecedents of a shared pivot are taken in the other order.
InnerSwapped(v, colour, I1, I2, W) ==
    CASE AssumedVar(v) -> IF Assumed(v) THEN I1 ELSE I2
      [] colour = "A" -> I1 \cup I2
      [] colour = "B" -> I1 \cap I2
      [] OTHER -> (I1 \cup Holds(-v, W)) \cap (I2 \cup Holds(v, W))

\* compInterpLabelingInner; the alternative for shared pivots is equivalent.
Inner(v, colour, I1, I2, W) ==
    CASE AssumedVar(v) -> IF Assumed(v) THEN I2 ELSE I1
      [] colour = "A" -> I1 \cup I2
      [] colour = "B" -> I1 \cap I2
      [] OTHER -> (I1 \cup Holds(v, W)) \cap (I2 \cup Holds(-v, W))

\* A leaf: its colours and its partial interpolant.
LeafData(g, alg, n, A, other, weak, W) ==
    LET x == g.node[n]
        S == LeafColours(g, alg, n, A, other)
    IN  [colours |-> S,
         itp |-> CASE x.type = "orig" -> OriginalInterpolant(x.cla, S, A, SideOf(mask[x.cla], A), W)
                   [] x.type = "split" -> OriginalInterpolant(x.cla, S, A, SplitSide(x.cla, A), W)
                   [] x.type = "theory" -> TheoryInterpolant(x.cla, S, A, weak, W)
                   [] x.type = "assumption" -> W]

\* updateColoringfromAnts, clearPivotColoring
Join(v, D1, D2, A) == {s \in D1.colours \cup D2.colours : s[1] # v}

InnerData(v, D1, D2, A, W) ==
    [colours |-> Join(v, D1, D2, A),
     itp |-> Inner(v, Colour(D1.colours \cup D2.colours, v, A), D1.itp, D2.itp, W)]

\* produceSingleInterpolant: antecedents first.
RECURSIVE Produce(_, _, _, _)
Produce(g, data, todoNodes, P) ==
    LET n == Min({k \in todoNodes : Ants(g, k) \cap todoNodes = {}})
        x == g.node[n]
        d == IF IsLeaf(g, n) THEN LeafData(g, P.alg, n, P.A, P.other, P.weak, P.W)
             ELSE InnerData(x.piv, data[x.a1], data[x.a2], P.A, P.W)
    IN  IF todoNodes = {} THEN data[g.root].itp ELSE Produce(g, [data EXCEPT ![n] = d], todoNodes \ {n}, P)

Interpolant(alg, A, other, weak, W) ==
    LET g == [pg EXCEPT !.leaves = @ \cap Ids(pg)]
    IN  Produce(g, [n \in Ids(g) |-> [colours |-> {}, itp |-> {}]], Proof(g),
                [alg |-> alg, A |-> A, other |-> other, weak |-> weak, W |-> W])

-----------------------------------------------------------------------------
InitAll == Init /\ mask = <<>> /\ itps = <<>>

\* The clauses come from assertions (external: Cnfizer, PartitionManager).
Partition ==
    /\ phase = "done" /\ mask = <<>> /\ OrigLeaves(log) # {}
    /\ mask' \in [OrigLeaves(log) -> Masks]
    /\ UNCHANGED <<vars, itps>>

\* getPathInterpolants: one interpolant for each set of the path; a path of
\* length one is getSingleInterpolant.
GetPathInterpolants ==
    /\ mask # <<>> /\ itps = <<>>
    /\ \E alg \in Algorithms, path \in Paths, other \in {"A", "B"}, weak \in BOOLEAN :
          LET W == TheoryModels IN
          itps' = [i \in DOMAIN path |-> [alg |-> alg, A |-> path[i], itp |-> Interpolant(alg, path[i], other, weak, W)]]
    /\ UNCHANGED <<vars, mask>>

NextAll == (Next /\ UNCHANGED <<mask, itps>>) \/ Partition \/ GetPathInterpolants

-----------------------------------------------------------------------------
(* Properties *)

\* The assertions with an index in A, without the assumed literals.
Assertions(A, W) ==
    {m \in W : \A c \in DOMAIN mask : mask[c] \cap A # {} => \E l \in c : l \in m /\ ~Assumed(-l)}

Others(A) == Partitions \ A

\* An interpolant follows from A and contradicts B (verifyInterpolant).
InterpolantSound ==
    \A i \in DOMAIN itps :
        LET W == TheoryModels IN
        /\ Assertions(itps[i].A, W) \subseteq itps[i].itp
        /\ Assertions(Others(itps[i].A), W) \cap itps[i].itp = {}

\* It depends on variables of both sides only.
InterpolantShared ==
    \A i \in DOMAIN itps :
        LET local == {v \in UNION {Vars(c) : c \in DOMAIN mask} : AssumedVar(v) \/ VarClass(v, itps[i].A) # "AB"}
            flip(m, v) == IF v \in m THEN (m \ {v}) \cup {-v} ELSE (m \ {-v}) \cup {v}
        IN  \A m \in itps[i].itp : \A v \in local : flip(m, v) \in itps[i].itp

\* The interpolants of a path: each one and the assertions that move to A
\* imply the next (the assert of getPathInterpolants).
PathInterpolation ==
    \A i \in DOMAIN itps :
        i > 1 => LET W == TheoryModels IN
                 itps[i - 1].itp \cap Assertions(itps[i].A \ itps[i - 1].A, W) \subseteq itps[i].itp
=============================================================================
