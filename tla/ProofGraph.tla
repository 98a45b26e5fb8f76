----------------------------- MODULE ProofGraph -----------------------------
(***************************************************************************)
(* The resolution proof graph of src/proof (class ProofGraph): its nodes,  *)
(* the edits every algorithm on it is made of, and the local rewriting     *)
(* rules of PGRules.cc.                                                    *)
(*                                                                         *)
(* A graph is a record: node is the vector of nodes (a removed node leaves *)
(* a null slot, ids are never used again), root the id of the sink and     *)
(* leaves the ids kept for the visits from the leaves down.  A literal is  *)
(* a variable or minus a variable, a clause the set of its literals (the   *)
(* code keeps it sorted and without repetitions).                          *)
(***************************************************************************)
EXTENDS Integers, FiniteSets, Sequences, FiniteSetsExt

NoNode == 0

\* The clause of a node whose vector has not been allocated.
NoClause == {0}

NullNode == [cla |-> NoClause, piv |-> 0, a1 |-> NoNode, a2 |-> NoNode, res |-> {}, type |-> "null"]

EmptyGraph == [node |-> <<>>, root |-> NoNode, leaves |-> {}]

Ids(g) == DOMAIN g.node

Live(g, n) == g.node[n].type # "null"

Ants(g, n) == {g.node[n].a1, g.node[n].a2} \ {NoNode}

IsLeaf(g, n) == g.node[n].a1 = NoNode

\* A variable occurs in a clause, and does so negatively.
HasOccurrence(c, v) == v \in c \/ -v \in c

Negated(c, v) == -v \in c /\ v \notin c

\* The resolvent that mergeClauses computes: the union without the pivot.
Merge(A, B, p) == (A \cup B) \ {p, -p}

RECURSIVE Sorted(_)
Sorted(S) == IF S = {} THEN <<>> ELSE <<Min(S)>> \o Sorted(S \ {Min(S)})

AddRes(g, n, r) == [g EXCEPT !.node[n].res = @ \cup {r}]

RemRes(g, n, r) == IF n = NoNode THEN g ELSE [g EXCEPT !.node[n].res = @ \ {r}]

AddNode(g, x) == [g EXCEPT !.node = Append(@, x)]

\* Mutant: a removed leaf stays among the leaves.
RemoveNodeOnly(g, n) == [g EXCEPT !.node[n] = NullNode]

RemoveNode(g, n) ==
    [g EXCEPT !.node[n] = NullNode, !.leaves = IF Ants(g, n) = {} THEN @ \ {n} ELSE @]

\* The edge from an antecedent a of r goes to b instead.
Reattach(g, r, a, b) ==
    IF g.node[r].a1 = a THEN [g EXCEPT !.node[r].a1 = b] ELSE [g EXCEPT !.node[r].a2 = b]

\* b inherits every resolvent of a.
Inherit(g, a, b) ==
    FoldSet(LAMBDA r, h : AddRes(Reattach(h, r, a, b), b, r), g, g.node[a].res)

\* removeTree: a node without resolvents goes, and then its antecedents if
\* it was their last resolvent.
RECURSIVE RemoveQueue(_, _)
RemoveQueue(g, q) ==
    IF q = <<>> THEN g
    ELSE LET n == Head(q)
             x == g.node[n] IN
         IF Live(g, n) /\ x.res = {}
         THEN RemoveQueue(RemoveNode(RemRes(RemRes(g, x.a1, n), x.a2, n), n),
                          Tail(q) \o SelectSeq(<<x.a1, x.a2>>, LAMBDA a : a # NoNode))
         ELSE RemoveQueue(g, Tail(q))

RemoveTree(g, n) == RemoveQueue(g, <<n>>)

\* A node that lost its last resolvent takes its subproof along.
Release(g, n) == IF Live(g, n) /\ g.node[n].res = {} THEN RemoveTree(g, n) ELSE g

\* The nodes the root is derived from, itself included.
RECURSIVE AncestorsOf(_, _)
AncestorsOf(g, S) ==
    LET T == S \cup UNION {Ants(g, n) : n \in S} IN IF T = S THEN S ELSE AncestorsOf(g, T)

Proof(g) == AncestorsOf(g, {g.root})

\* fillProofGraph: the clauses of the nodes the root is derived from,
\* antecedents first.
RECURSIVE Filled(_, _)
Filled(g, todo) ==
    LET ready == {n \in todo : Ants(g, n) \cap todo = {}} IN
    IF ready = {} THEN g
    ELSE LET n == Min(ready)
             x == g.node[n] IN
         Filled(IF IsLeaf(g, n) THEN g
                ELSE [g EXCEPT !.node[n].cla = Merge(g.node[x.a1].cla, g.node[x.a2].cla, x.piv)],
                todo \ {n})

Fill(g) == Filled(g, Proof(g))

\* emptyProofGraph
EmptyClauses(g) ==
    FoldSet(LAMBDA n, h : [h EXCEPT !.node[n].cla = NoClause], g,
            {n \in Ids(g) : Live(g, n) /\ ~IsLeaf(g, n)})

\* normalizeAntecedentOrder: the antecedent with the pivot comes first.
NormalizeOrder(g) ==
    FoldSet(LAMBDA n, h : [h EXCEPT !.node[n].a1 = g.node[n].a2, !.node[n].a2 = g.node[n].a1], g,
            {n \in Proof(g) : ~IsLeaf(g, n) /\ Negated(g.node[g.node[n].a1].cla, g.node[n].piv)})

-----------------------------------------------------------------------------
(* Rules: v has the antecedents w and v3, w the antecedents v1 and v2.     *)

NoRule == [type |-> "rNO", v1 |-> NoNode, v2 |-> NoNode, w |-> NoNode, v3 |-> NoNode, v |-> NoNode]

IsSwap(c) == c.type \in {"rA1", "rA1B", "rA1prime", "rA2", "rA2B", "rA2u", "rB2"}

IsCut(c) == c.type \in {"rB1", "rB2prime", "rB3"}

\* The rule of a context: both says that the pivot of v is in both
\* antecedents of w, sameSign that the pivot of w has the sign in v3 that
\* it has in v1.
RuleType(g, w, v3, v, v1, v2, both, t0inC3, sameSign) ==
    LET W == g.node[w]
        V3 == g.node[v3] IN
    CASE ~both /\ ~t0inC3 ->
            (CASE v2 \in {V3.a1, V3.a2} /\ V3.piv = W.piv /\ Cardinality(W.res) = 1 -> "rA1prime"
               [] V3.a1 # NoNode /\ V3.a2 # NoNode /\ V3.piv = W.piv -> "rA2B"
               [] Cardinality(g.node[v2].cla) = 1 -> "rA2u"
               [] OTHER -> "rA2")
      [] both /\ ~t0inC3 -> IF V3.a1 # NoNode /\ W.piv = V3.piv THEN "rA1B" ELSE "rA1"
      [] both /\ t0inC3 -> "rB1"
      [] OTHER -> IF ~sameSign THEN "rB3"
                  ELSE IF Cardinality(g.node[v].cla) = 1 THEN "rB2" ELSE "rB2prime"

\* getRuleContext
RuleContext(g, v3, v) ==
    LET V == g.node[v]
        w == IF v3 = V.a1 THEN V.a2 ELSE V.a1
        W == g.node[w]
        ant1 == g.node[W.a1].cla
        ant2 == g.node[W.a2].cla
        t0inC3 == HasOccurrence(g.node[v3].cla, W.piv)
        both == HasOccurrence(ant1, V.piv) /\ HasOccurrence(ant2, V.piv)
        negC3 == Negated(g.node[v3].cla, W.piv)
        neg1 == Negated(ant1, W.piv)
        first == IF ~both THEN HasOccurrence(ant1, V.piv) ELSE t0inC3 => neg1 = negC3
        v1 == IF first THEN W.a1 ELSE W.a2
        v2 == IF first THEN W.a2 ELSE W.a1
    IN  IF IsLeaf(g, w) THEN NoRule
        ELSE [type |-> RuleType(g, w, v3, v, v1, v2, both, t0inC3,
                                negC3 = IF first THEN neg1 ELSE ~neg1),
              v1 |-> v1, v2 |-> v2, w |-> w, v3 |-> v3, v |-> v]

Duplicates(g, c) == Cardinality(g.node[c.w].res) > 1

\* dupliNode: a copy of w takes v, w keeps its other resolvents.
DupliNode(g, c) ==
    LET n == Len(g.node) + 1
        W == g.node[c.w]
        h == AddNode(g, [W EXCEPT !.res = {c.v}])
    IN  Reattach(RemRes(AddRes(AddRes(h, W.a1, n), W.a2, n), c.w, c.v), c.v, c.w, n)

\* A swap that needs w for itself gets a copy.
WithOwnW(g, c) ==
    IF IsSwap(c) /\ Duplicates(g, c)
    THEN [graph |-> DupliNode(g, c), context |-> [c EXCEPT !.w = Len(g.node) + 1]]
    ELSE [graph |-> g, context |-> c]

SwapPivots(g, v, w) == [g EXCEPT !.node[v].piv = g.node[w].piv, !.node[w].piv = g.node[v].piv]

\* w becomes the resolvent of v1 and v3 over the pivot of v.
MergeIntoW(g, c) ==
    [g EXCEPT !.node[c.w].cla = Merge(g.node[c.v1].cla, g.node[c.v3].cla, g.node[c.v].piv)]

\* applyRuleA1: v3 is combined with v1 in w and with v2 in a new node y.
ApplyRuleA1(g, c) ==
    LET y == Len(g.node) + 1
        t1 == g.node[c.v].piv
        h1 == Reattach(MergeIntoW(g, c), c.w, c.v2, c.v3)
        h2 == AddRes(RemRes(RemRes(h1, c.v3, c.v), c.v2, c.w), c.v3, c.w)
        h3 == AddNode(h2, [cla |-> Merge(g.node[c.v2].cla, g.node[c.v3].cla, t1), piv |-> t1,
                           a1 |-> c.v2, a2 |-> c.v3, res |-> {c.v}, type |-> "derived"])
        h4 == SwapPivots(AddRes(AddRes(h3, c.v2, y), c.v3, y), c.v, c.w)
    IN  Reattach(h4, c.v, c.v3, y)

\* applyRuleA1Prime: the inverse of A1.
ApplyRuleA1Prime(g, c) ==
    LET V3 == g.node[c.v3]
        newv2 == IF V3.a1 = c.v2 THEN V3.a2 ELSE V3.a1
        h1 == [g EXCEPT !.node[c.w] = [@ EXCEPT !.cla = Merge(g.node[c.v1].cla, g.node[newv2].cla, g.node[c.v].piv),
                                                !.a1 = c.v1, !.a2 = newv2],
                        !.node[c.v] = [@ EXCEPT !.a1 = c.w, !.a2 = c.v2]]
        h2 == AddRes(RemRes(SwapPivots(h1, c.v, c.w), c.v2, c.w), c.v2, c.v)
        h3 == AddRes(RemRes(h2, c.v3, c.v), newv2, c.w)
    IN  IF h3.node[c.v3].res # {} THEN h3
        ELSE RemoveNode(RemRes(RemRes(h3, newv2, c.v3), c.v2, c.v3), c.v3)

\* v2 and v3 change places.
Exchange(g, c) ==
    LET h == Reattach(Reattach(g, c.w, c.v2, c.v3), c.v, c.v3, c.v2)
    IN  AddRes(RemRes(AddRes(RemRes(h, c.v2, c.w), c.v2, c.v), c.v3, c.v), c.v3, c.w)

\* applyRuleA2
ApplyRuleA2(g, c) == SwapPivots(MergeIntoW(Exchange(g, c), c), c.v, c.w)

\* applyRuleB2: as A2, and v loses the pivot of w.
ApplyRuleB2(g, c) ==
    LET h == MergeIntoW(Exchange(g, c), c)
        k == [h EXCEPT !.node[c.v].cla = Merge(h.node[c.w].cla, h.node[c.v2].cla, h.node[c.w].piv)]
    IN  SwapPivots(k, c.v, c.w)

\* applyRuleB1 and applyRuleB2Prime: v is derived from v1 and v3.
ApplyRuleB1(g, c) ==
    LET h1 == RemRes(AddRes(Reattach(g, c.v, c.w, c.v1), c.v1, c.v), c.w, c.v)
        h2 == [h1 EXCEPT !.node[c.v].cla = Merge(g.node[c.v1].cla, g.node[c.v3].cla, g.node[c.v].piv)]
    IN  Release(h2, c.w)

\* applyRuleB3: v2 takes the place of v.  Up to the look at v3.
WithoutV(g, c) ==
    LET h == Inherit(RemRes(RemRes(g, c.w, c.v), c.v3, c.v), c.v, c.v2)
    IN  IF h.node[c.w].res # {} THEN h
        ELSE Release(RemoveNode(RemRes(RemRes(h, c.v1, c.w), c.v2, c.w), c.w), c.v1)

\* The rest looks at v3, which must not have gone with the subproof of v1.
ApplyRuleB3(g, c) == RemoveNode(Release(WithoutV(g, c), c.v3), c.v)

ReadsRemoved(g, c) == c.type = "rB3" /\ ~Live(WithoutV(g, c), c.v3)

RuleApply(g, c) ==
    CASE c.type \in {"rA1", "rA1B"} -> ApplyRuleA1(g, c)
      [] c.type = "rA1prime" -> ApplyRuleA1Prime(g, c)
      [] c.type \in {"rA2", "rA2u", "rA2B"} -> ApplyRuleA2(g, c)
      [] c.type \in {"rB1", "rB2prime"} -> ApplyRuleB1(g, c)
      [] c.type = "rB2" -> ApplyRuleB2(g, c)
      [] c.type = "rB3" -> ApplyRuleB3(g, c)
=============================================================================
