------------------------ MODULE ProofTransformation ------------------------
(***************************************************************************)
(* From the resolution chains the solver logged to the proof graph that    *)
(* interpolants are computed on: buildProofGraph, the elimination of       *)
(* theory variables without a partition and the reduction of the proof.    *)
(* Everything runs in one thread; a step is one iteration of the loop of   *)
(* the running phase, or a whole phase where it makes no choice.           *)
(***************************************************************************)
EXTENDS ProofGraph

CONSTANTS
    Logs,       \* proofs to start from: sequences of derivations, leaves first
    MaxLearnt,  \* bound: clauses derived when analyze() derives another
    MaxReasons, \* bound: reasons resolved in one analysis
    Assumptions,\* assumed literals
    Mixed,      \* variables without a partition: they occur in theory clauses only
    Reductions, \* what the options ask of the reduction, {} for no reduction
    Randomize,  \* config.proof_random_context_analysis
    MaxNodes    \* bound: slots of the graph vector

VARIABLES
    log,    \* Proof::clause_to_proof_der in the order of derivation; the last is CRef_Undef
    pg,     \* the graph
    todo,   \* phases to come
    phase,  \* the phase that runs
    work    \* its queue, visited_1, visited_2 and what else it keeps

vars == <<log, pg, todo, phase, work>>

Idle == [q |-> <<>>, v1 |-> {}, v2 |-> {}, ids |-> <<>>, units |-> {}, some |-> FALSE, faults |-> {}]

\* doReduction: lower units once, then in every loop hashing and recycling
\* in the order the options give, and traversals in all loops but the last.
RECURSIVE Loops(_, _)
Loops(o, k) ==
    LET hash == IF o.hash THEN <<"hash">> ELSE <<>>
        rp == IF o.rp THEN <<"recycle">> ELSE <<>>
        travs == IF o.trav /\ k > 1 THEN [i \in 1..o.passes |-> "traverse"] ELSE <<>>
    IN  IF k = 0 THEN <<>>
        ELSE (IF o.rpFirst THEN rp \o hash ELSE hash \o rp) \o travs \o Loops(o, k - 1)

TransfProofForReduction(o) ==
    <<"fill">> \o (IF o.push THEN <<"units">> ELSE <<>>) \o Loops(o, o.loops) \o <<"normalize", "empty">>

EliminateNoPartitionTheoryVars == <<"fill", "lift", "replace", "empty">>

Init ==
    /\ log \in Logs
    /\ pg = EmptyGraph
    /\ phase = "log"
    /\ todo \in IF Reductions = {} THEN {<<>>} ELSE {TransfProofForReduction(o) : o \in Reductions}
    /\ work = Idle

-----------------------------------------------------------------------------
(* The log, as CoreSMTSolver writes it: a literal that is assigned at level *)
(* 0 has a unit clause in the log, propagation there comes before anything *)
(* else, and a learnt clause has none of the variables assigned at level 0. *)

Vars(c) == {IF l < 0 THEN -l ELSE l : l \in c}

Concluded == \E i \in DOMAIN log : log[i].cla = {}

IsAssumption(i) == log[i].type = "assumption"

Fixed == UNION {log[i].cla : i \in {i \in DOMAIN log : ~IsAssumption(i) /\ Cardinality(log[i].cla) = 1}}

\* The clause of a chain is resolved with clause i on the one variable on
\* which they clash.
Clashes(A, B) == {v \in Vars(A) : (v \in A /\ -v \in B) \/ (-v \in A /\ v \in B)}

Resolved(d, i) ==
    LET v == CHOOSE v \in Clashes(d.cla, log[i].cla) : TRUE
    IN  [d EXCEPT !.cla = Merge(d.cla, log[i].cla, v), !.chain = Append(@, i), !.vars = Append(@, v)]

\* The clause is the reason of a literal on the trail: the variables resolved
\* on before are later on the trail and do not occur in it.
Resolvable(d, i) ==
    /\ Cardinality(Clashes(d.cla, log[i].cla)) = 1
    /\ \A k \in DOMAIN d.vars : {d.vars[k], -d.vars[k]} \cap Fixed # {} \/ d.vars[k] \notin Vars(log[i].cla)

Chain1(i) == [cla |-> log[i].cla, chain |-> <<i>>, vars |-> <<>>, type |-> "learnt"]

\* The literals of a clause that are false at level 0 are resolved with
\* their units, in the order of the clause.
RECURSIVE Simplified(_)
Simplified(d) ==
    LET false == {l \in d.cla : -l \in Fixed}
        unit(l) == CHOOSE i \in DOMAIN log : log[i].cla = {-l}
    IN  IF false = {} THEN {d} ELSE UNION {Simplified(Resolved(d, unit(l))) : l \in false}

\* The clauses that are unit or false at level 0.
UnitAtZero ==
    {i \in DOMAIN log : /\ log[i].cla \cap Fixed = {} /\ ~IsAssumption(i)
                        /\ Cardinality({l \in log[i].cla : -l \notin Fixed}) <= 1}

\* propagate() at level 0, and finalizeProof() for a false clause.
PropagateAtZero ==
    /\ phase = "log" /\ ~Concluded
    /\ \E i \in UnitAtZero : \E d \in Simplified(Chain1(i)) : log' = Append(log, d)
    /\ UNCHANGED <<pg, todo, phase, work>>

\* The conflict clause and the reasons of n literals, without the literals
\* that are false at level 0.  The first clause with one literal of the
\* last level is learnt: one of a single literal is not resolved further.
RECURSIVE Analyses(_)
Analyses(n) ==
    LET open == {i \in DOMAIN log : log[i].cla \cap Fixed = {} /\ ~IsAssumption(i)} IN
    IF n = 0 THEN UNION {Simplified(Chain1(i)) : i \in open}
    ELSE LET D == {d \in Analyses(n - 1) : Cardinality(d.cla) > 1} IN
         UNION {Simplified(Resolved(p[1], p[2])) : p \in {p \in D \X open : Resolvable(p[1], p[2])}}

\* analyze(): the learnt clause is new.
Learn ==
    /\ phase = "log" /\ ~Concluded /\ UnitAtZero = {}
    /\ Cardinality({i \in DOMAIN log : log[i].type = "learnt"}) < MaxLearnt
    /\ \E n \in 1..MaxReasons : \E d \in Analyses(n) :
          /\ \A i \in DOMAIN log : ~(log[i].cla \subseteq d.cla)
          /\ log' = Append(log, d)
    /\ UNCHANGED <<pg, todo, phase, work>>

\* The resolutions of analyzeFinal() from the unit of a failed assumption.
RECURSIVE Refutations(_)
Refutations(D) ==
    LET more == {Resolved(p[1], p[2]) : p \in {p \in D \X DOMAIN log : Resolvable(p[1], p[2])}}
    IN  {d \in D : d.cla = {}} \cup IF more = {} THEN {} ELSE Refutations(more)

\* analyzeFinal(): an assumption is false, the log is complete.
AnalyzeFinal ==
    /\ phase = "log" /\ ~Concluded /\ UnitAtZero = {}
    /\ \E d \in Refutations({Chain1(i) : i \in {i \in DOMAIN log : IsAssumption(i)}}) : log' = Append(log, d)
    /\ UNCHANGED <<pg, todo, phase, work>>

-----------------------------------------------------------------------------
(* buildProofGraph: from the empty clause to the leaves, a stack of clauses *)
(* to visit; ids maps a clause of the log to its node.                      *)

NewNode(i) ==
    [NullNode EXCEPT !.type = log[i].type, !.cla = IF log[i].chain = <<>> THEN log[i].cla ELSE NoClause]

\* A clause seen for the first time gets its node and is put on the stack.
Seen(b, i) ==
    IF b.ids[i] # NoNode THEN b
    ELSE [graph |-> AddNode(b.graph, NewNode(i)), ids |-> [b.ids EXCEPT ![i] = Len(b.graph.node) + 1],
          q |-> Append(b.q, i), last |-> b.last]

\* The k-th resolution of the chain of clause i: its node is new, but for
\* the last one.  The antecedent with the positive pivot comes first.
Resolve(b, i, k) ==
    LET d == log[i]
        c == d.chain[k]
        s == Seen(b, c)
        end == k = Len(d.chain)
        g == IF end THEN s.graph ELSE AddNode(s.graph, [NullNode EXCEPT !.type = "derived"])
        n == IF end THEN s.ids[i] ELSE Len(g.node)
        m == s.ids[c]
        v == d.vars[k - 1]
        pos == v \in log[c].cla
        h == [g EXCEPT !.node[n] = [@ EXCEPT !.piv = v, !.a1 = IF pos THEN m ELSE s.last,
                                             !.a2 = IF pos THEN s.last ELSE m]]
    IN  [s EXCEPT !.graph = AddRes(AddRes(h, m, n), s.last, n), !.last = n]

RECURSIVE Chained(_, _, _)
Chained(b, i, k) == IF k > Len(log[i].chain) THEN b ELSE Chained(Resolve(b, i, k), i, k + 1)

Build ==
    /\ phase = "log" /\ Concluded
    /\ LET undef == Len(log)
           b == Seen([graph |-> EmptyGraph, ids |-> [i \in DOMAIN log |-> NoNode], q |-> <<>>, last |-> NoNode], undef)
       IN  /\ pg' = [b.graph EXCEPT !.root = 1]
           /\ work' = [Idle EXCEPT !.q = b.q, !.ids = b.ids]
    /\ phase' = "build"
    /\ UNCHANGED <<log, todo>>

BuildClause ==
    /\ phase = "build" /\ work.q # <<>>
    /\ LET i == work.q[Len(work.q)]
           rest == SubSeq(work.q, 1, Len(work.q) - 1)
           b0 == [graph |-> pg, ids |-> work.ids, q |-> rest, last |-> NoNode]
           first == Seen(b0, log[i].chain[1])
           b == Chained([first EXCEPT !.last = first.ids[log[i].chain[1]]], i, 2)
       IN  IF log[i].chain = <<>>
           THEN /\ pg' = [pg EXCEPT !.leaves = @ \cup {work.ids[i]}]
                /\ work' = [work EXCEPT !.q = rest]
           ELSE /\ pg' = b.graph
                /\ work' = [work EXCEPT !.q = b.q, !.ids = b.ids]
    /\ UNCHANGED <<log, todo, phase>>

\* The next phase of a list starts: a visit from the leaves down starts
\* with the leaves in its queue.
Start(list) ==
    /\ phase' = IF list = <<>> THEN "done" ELSE Head(list)
    /\ todo' = IF list = <<>> THEN <<>> ELSE Tail(list)

FromLeaves(g) == [Idle EXCEPT !.q = Sorted(g.leaves), !.faults = work.faults]

\* ensureNoLiteralsWithoutPartition
Built ==
    /\ phase = "build" /\ work.q = <<>>
    /\ Start((IF \E n \in Ids(pg) : pg.node[n].piv \in Mixed THEN EliminateNoPartitionTheoryVars ELSE <<>>) \o todo)
    /\ work' = FromLeaves(pg)
    /\ UNCHANGED <<log, pg>>

-----------------------------------------------------------------------------
(* Phases in one step. *)

\* A phase that leaves the graph g ends.
Leave(g) ==
    /\ pg' = g
    /\ Start(todo)
    /\ work' = FromLeaves(g)
    /\ UNCHANGED log

FillProofGraph == phase = "fill" /\ Leave(Fill(pg))

EmptyProofGraph == phase = "empty" /\ Leave(EmptyClauses(pg))

NormalizeAntecedentOrder == phase = "normalize" /\ Leave(NormalizeOrder(pg))

\* proofPostStructuralHashing: antecedents first, a node with the
\* antecedents of an earlier one is replaced by it.
RECURSIVE Hashed(_, _, _, _)
Hashed(g, stack, seen, map) ==
    IF stack = <<>> THEN g
    ELSE LET n == stack[Len(stack)]
             rest == SubSeq(stack, 1, Len(stack) - 1)
             x == g.node[n]
             unseen == SelectSeq(<<x.a1, x.a2>>, LAMBDA a : a # NoNode /\ a \notin seen)
             same == {m \in map : m[1] = {x.a1, x.a2}}
             r == (CHOOSE m \in same : TRUE)[2] IN
         IF n \in seen THEN Hashed(g, rest, seen, map)
         ELSE IF unseen # <<>> THEN Hashed(g, Append(stack, Head(unseen)), seen, map)
         ELSE IF IsLeaf(g, n) THEN Hashed(g, rest, seen \cup {n}, map)
         ELSE IF same = {} THEN Hashed(g, rest, seen \cup {n}, map \cup {<<{x.a1, x.a2}, n>>})
         ELSE Hashed(RemoveNode(RemRes(RemRes(Inherit(g, n, r), x.a1, n), x.a2, n), n), rest, seen \cup {n}, map)

ProofPostStructuralHashing == phase = "hash" /\ Leave(Hashed(pg, <<pg.root>>, {}, {}))

\* topolSortingBotUp: a node comes after all its resolvents.
RECURSIVE BotUp(_, _)
BotUp(g, order) ==
    LET done == {order[i] : i \in DOMAIN order}
        ready == {n \in Ids(g) \ done : Live(g, n) /\ (n = g.root \/ (g.node[n].res # {} /\ g.node[n].res \subseteq done))}
    IN  IF ready = {} THEN order ELSE BotUp(g, Append(order, Min(ready)))

\* Mutant: the sets of several resolvents are joined.
NarrowNot(safe, n, S) == [safe EXCEPT ![n] = IF @ = NoClause THEN S ELSE @ \cup S]

\* The literals that every path from the node to the root resolves away.
Narrow(safe, n, S) == [safe EXCEPT ![n] = IF @ = NoClause THEN S ELSE @ \cap S]

\* recyclePivotsIter_RecyclePhase for one node: if the pivot is safe, only
\* the antecedent with the safe literal stays, as the first one.
Recycle(s, n) ==
    LET g == s.graph
        x == g.node[n]
        L == s.safe[n]
        pos == x.piv \in g.node[x.a1].cla
        p1 == IF pos THEN x.piv ELSE -x.piv
        keep == IF x.piv \in L THEN (IF pos THEN x.a1 ELSE x.a2)
                ELSE IF -x.piv \in L THEN (IF pos THEN x.a2 ELSE x.a1) ELSE NoNode
        drop == IF keep = x.a1 THEN x.a2 ELSE x.a1
    IN  IF n # g.root /\ x.res = {}
        THEN [s EXCEPT !.graph = RemoveNode(RemRes(RemRes(g, x.a1, n), x.a2, n), n)]
        ELSE IF IsLeaf(g, n) THEN s
        ELSE IF keep = NoNode
        THEN [s EXCEPT !.safe = Narrow(Narrow(@, x.a1, L \cup {p1}), x.a2, L \cup {-p1})]
        ELSE [graph |-> [RemRes(g, drop, n) EXCEPT !.node[n].a1 = keep, !.node[n].a2 = NoNode],
              safe |-> Narrow(s.safe, keep, L)]

RECURSIVE Recycled(_, _)
Recycled(s, order) == IF order = <<>> THEN s.graph ELSE Recycled(Recycle(s, Head(order)), Tail(order))

RecyclePivots ==
    /\ phase = "recycle"
    /\ LET safe == [n \in Ids(pg) |-> IF n = pg.root THEN {} ELSE NoClause]
           g == Recycled([graph |-> pg, safe |-> safe], BotUp(pg, <<>>))
       IN  /\ pg' = g
           /\ work' = FromLeaves(g)
    /\ phase' = "mend"
    /\ UNCHANGED <<log, todo>>

-----------------------------------------------------------------------------
(* Visits from the leaves down.  A node waits for its antecedents: if one  *)
(* is not visited yet it is dropped from the queue, that antecedent will   *)
(* put it there again.                                                     *)

Ready(n) == Live(pg, n) /\ n \notin work.v1 /\ Ants(pg, n) \subseteq work.v1

ReadyAt == {i \in DOMAIN work.q : Ready(work.q[i])}

Enqueued(g, S) == Sorted({r \in S : Live(g, r)})

Size(g, n) == Cardinality(g.node[n].cla)

\* chooseReplacingAntecedent, ties are broken by rand().
ChooseReplacing(g, n) ==
    LET a1 == g.node[n].a1
        a2 == g.node[n].a2
        single(a) == Cardinality(g.node[a].res) = 1
        many(a) == Cardinality(g.node[a].res) > 1
    IN  IF single(a1) /\ many(a2) THEN {a2}
        ELSE IF many(a1) /\ single(a2) THEN {a1}
        ELSE IF Size(g, a1) > Size(g, a2) THEN {a2}
        ELSE IF Size(g, a2) > Size(g, a1) THEN {a1}
        ELSE {a1, a2}

PivotIn(g, n, a) == HasOccurrence(g.node[a].cla, g.node[n].piv)

\* The antecedent that replaces a node whose pivot is gone from one.
Replacing(g, n) ==
    LET x == g.node[n] IN
    IF PivotIn(g, n, x.a1) THEN {x.a2} ELSE IF PivotIn(g, n, x.a2) THEN {x.a1} ELSE ChooseReplacing(g, n)

Other(g, n, keep) == IF keep = g.node[n].a1 THEN g.node[n].a2 ELSE g.node[n].a1

\* The node goes and keep inherits its resolvents and, if it was the root,
\* becomes the root.
Bypass(g, n, keep) ==
    LET h == Inherit(RemRes(RemRes(g, g.node[n].a1, n), g.node[n].a2, n), n, keep)
    IN  RemoveNode([h EXCEPT !.root = IF @ = n THEN keep ELSE @], n)

\* The asserts of the visits, as names of what they exclude.
PivotFaults(g, n) ==
    LET x == g.node[n] IN
    IF \E l \in {x.piv, -x.piv} : l \in g.node[x.a1].cla /\ l \in g.node[x.a2].cla THEN {"same sign"} ELSE {}

RootFaults(g, n, keep) ==
    IF n = g.root /\ (g.node[keep].cla # {} \/ keep = Other(g, n, keep)) THEN {"root not empty"} ELSE {}

Visited(n, i, q, v2, more) ==
    work' = [work EXCEPT !.q = SubSeq(work.q, i + 1, Len(work.q)) \o q, !.v1 = @ \cup {n}, !.v2 = @ \cup v2,
                         !.faults = @ \cup more]

\* The restructuring loop of recyclePivotsIter.
Mend ==
    /\ phase = "mend" /\ ReadyAt # {}
    /\ LET i == Min(ReadyAt)
           n == work.q[i]
           x == pg.node[n]
           next == Enqueued(pg, x.res) IN
       \/ /\ IsLeaf(pg, n)
          /\ pg' = pg
          /\ Visited(n, i, next, {}, IF x.res = {} THEN {"detached leaf"} ELSE {})
       \/ /\ ~IsLeaf(pg, n) /\ x.a2 = NoNode
          /\ pg' = Bypass(pg, n, x.a1)
          /\ Visited(n, i, next, {}, {})
       \/ /\ ~IsLeaf(pg, n) /\ x.a2 # NoNode
          /\ PivotIn(pg, n, x.a1) /\ PivotIn(pg, n, x.a2)
          /\ pg' = [pg EXCEPT !.node[n].cla = Merge(pg.node[x.a1].cla, pg.node[x.a2].cla, x.piv)]
          /\ Visited(n, i, next, {}, PivotFaults(pg, n))
       \/ /\ ~IsLeaf(pg, n) /\ x.a2 # NoNode
          /\ ~(PivotIn(pg, n, x.a1) /\ PivotIn(pg, n, x.a2))
          /\ \E keep \in Replacing(pg, n) :
                LET other == Other(pg, n, keep)
                    g == Bypass(pg, n, keep) IN
                /\ pg' = IF keep = other THEN g ELSE Release(g, other)
                /\ Visited(n, i, next, {}, RootFaults(pg, n, keep))
    /\ UNCHANGED <<log, todo, phase>>

Mended == phase = "mend" /\ ReadyAt = {} /\ Leave(pg)

-----------------------------------------------------------------------------
(* proofTransformAndRestructure: traversals that apply rules. *)

\* allowSwapRuleForReduction, allowCutRuleForReduction
AllowedForReduction(g, c) ==
    \/ IsCut(c)
    \/ /\ c.type \in {"rB2", "rA1prime", "rA2B", "rA2", "rA2u"}
       /\ ~Duplicates(g, c)
       /\ Cardinality(g.node[c.v2].res) <= Cardinality(g.node[c.v3].res)

\* The preference of handleRuleApplicationForReduction between two rules.
Preference(c) ==
    CASE c.type = "rB3" -> 8 [] c.type \in {"rB1", "rB2prime"} -> 7 [] c.type = "rA1prime" -> 6
      [] c.type = "rB2" -> 5 [] c.type = "rA2B" -> 4 [] c.type \in {"rA2", "rA2u"} -> 3

\* handleRuleApplicationForReduction: ties are broken by rand().
ForReduction(g, c1, c2) ==
    LET S == {c \in {c1, c2} : AllowedForReduction(g, c)}
        best == {c \in S : \A d \in S : Preference(c) >= Preference(d)}
    IN  (IF best = {} THEN {NoRule} ELSE best) \cup (IF Randomize THEN {NoRule} ELSE {})

\* LiftingVarsRuleHandler: a light pivot below one that is not moves up.
Unordered(g, c) == c.type # "rNO" /\ g.node[c.v].piv \in Mixed /\ g.node[c.w].piv \notin Mixed

ForLifting(g, c1, c2) ==
    IF ~Unordered(g, c1) THEN (IF Unordered(g, c2) THEN {c2} ELSE {NoRule})
    ELSE IF ~Unordered(g, c2) \/ IsCut(c1) THEN {c1}
    ELSE IF IsCut(c2) THEN {c2}
    ELSE IF c1.type # "rA2" /\ c2.type = "rA2" THEN {c2} ELSE {c1}

\* The node whose clause a rule made smaller.
Marked(c) ==
    IF c.type \in {"rB1", "rB2", "rB2prime"} THEN {c.v} ELSE IF c.type = "rB3" THEN {c.v2} ELSE {}

\* A node of the traversal: its clause is brought up to date if an
\* antecedent was marked, then a rule may be applied.
Transform(n, i) ==
    LET x == pg.node[n]
        stale == {x.a1, x.a2} \cap work.v2 # {}
        g == IF stale THEN [pg EXCEPT !.node[n].cla = Merge(pg.node[x.a1].cla, pg.node[x.a2].cla, x.piv)] ELSE pg
        c1 == RuleContext(g, x.a1, n)
        c2 == RuleContext(g, x.a2, n)
        mark == IF stale THEN {n} ELSE {}
    IN  \E c \in IF phase = "lift" THEN ForLifting(g, c1, c2) ELSE ForReduction(g, c1, c2) :
            LET d == WithOwnW(g, c)
                more == PivotFaults(pg, n) \cup (IF ReadsRemoved(d.graph, d.context) THEN {"removed node"} ELSE {})
            IN  IF c = NoRule
                THEN /\ pg' = g
                     /\ Visited(n, i, Enqueued(pg, x.res), mark, more)
                ELSE /\ Len(pg.node) < MaxNodes
                     /\ pg' = RuleApply(d.graph, d.context)
                     /\ work' = [work EXCEPT !.q = SubSeq(work.q, i + 1, Len(work.q)) \o Enqueued(pg, x.res),
                                             !.v1 = @ \cup {n}, !.v2 = @ \cup mark \cup Marked(c), !.some = TRUE,
                                             !.faults = @ \cup more]

Traverse ==
    /\ phase \in {"traverse", "lift"} /\ ReadyAt # {}
    /\ LET i == Min(ReadyAt)
           n == work.q[i]
           x == pg.node[n]
           next == Enqueued(pg, x.res) IN
       \/ /\ IsLeaf(pg, n)
          /\ pg' = pg
          /\ Visited(n, i, next, {}, {})
       \/ /\ ~IsLeaf(pg, n) /\ PivotIn(pg, n, x.a1) /\ PivotIn(pg, n, x.a2)
          /\ Transform(n, i)
       \/ /\ ~IsLeaf(pg, n) /\ ~(PivotIn(pg, n, x.a1) /\ PivotIn(pg, n, x.a2))
          /\ \E keep \in Replacing(pg, n) :
                LET other == Other(pg, n, keep)
                    g == Bypass(pg, n, keep) IN
                /\ pg' = IF keep = other THEN g ELSE Release(g, other)
                /\ Visited(n, i, next, {keep}, RootFaults(pg, n, keep))
    /\ UNCHANGED <<log, todo, phase>>

\* The reduction makes a given number of traversals, the lifting goes on
\* until one applies no rule.
Traversed ==
    /\ phase \in {"traverse", "lift"} /\ ReadyAt = {}
    /\ IF phase = "lift" /\ work.some
       THEN /\ work' = FromLeaves(pg)
            /\ UNCHANGED <<log, pg, todo, phase>>
       ELSE Leave(pg)

\* replaceSubproofsWithNoPartitionTheoryVars: the resolvents of two theory
\* lemmas over a variable of Mixed become lemmas themselves.
HasMixed(g, n) == \E v \in Mixed : HasOccurrence(g.node[n].cla, v)

BecomeLeaf(g, r) ==
    LET x == g.node[r]
        h1 == RemRes(RemRes(g, x.a1, r), x.a2, r)
        drop(h, a) == IF h.node[a].res = {} THEN RemoveNode(h, a) ELSE h
        h2 == drop(drop(h1, x.a1), x.a2)
    IN  [h2 EXCEPT !.node[r] = [@ EXCEPT !.type = "theory", !.a1 = NoNode, !.a2 = NoNode], !.leaves = @ \cup {r}]

\* The resolvents of a leaf that can become leaves: both antecedents are visited.
RECURSIVE LeafResolvents(_, _, _)
LeafResolvents(s, rs, seen) ==
    IF rs = <<>> THEN s
    ELSE LET r == Head(rs)
             x == s.graph.node[r] IN
         LeafResolvents(IF x.piv \notin Mixed THEN [s EXCEPT !.fault = TRUE]
                        ELSE IF {x.a1, x.a2} \subseteq seen
                        THEN [s EXCEPT !.graph = BecomeLeaf(s.graph, r), !.new = Append(@, r)] ELSE s,
                        Tail(rs), seen)

RECURSIVE Replaced(_, _, _)
Replaced(s, q, seen) ==
    IF q = <<>> THEN s
    ELSE LET n == Head(q)
             t == IF HasMixed(s.graph, n)
                  THEN LeafResolvents([s EXCEPT !.new = <<>>], Sorted(s.graph.node[n].res), seen \cup {n})
                  ELSE [s EXCEPT !.new = <<>>]
         IN  Replaced(t, Tail(q) \o t.new, seen \cup {n})

ReplaceSubproofs ==
    /\ phase = "replace"
    /\ LET s == Replaced([graph |-> pg, new |-> <<>>, fault |-> FALSE], Sorted(pg.leaves), {}) IN
       /\ pg' = s.graph
       /\ work' = [FromLeaves(s.graph) EXCEPT !.faults = @ \cup IF s.fault THEN {"lifting failed"} ELSE {}]
    /\ Start(todo)
    /\ UNCHANGED log

-----------------------------------------------------------------------------
(* recycleUnits: a node with a unit antecedent is replaced by the other    *)
(* antecedent, and the units are resolved with the root at the end.        *)

\* The assert that no resolvent is left with one antecedent twice.
TwinFaults(g, S) ==
    IF \E r \in S : g.node[r].a1 = g.node[r].a2 THEN {"twin antecedents"} ELSE {}

UnitOf(g, n) ==
    LET x == g.node[n] IN IF Size(g, x.a2) = 1 THEN x.a2 ELSE IF Size(g, x.a1) = 1 THEN x.a1 ELSE NoNode

RecycleUnits ==
    /\ phase = "units" /\ ReadyAt # {}
    /\ LET i == Min(ReadyAt)
           n == work.q[i]
           x == pg.node[n]
           next == Enqueued(pg, x.res)
           stale == {x.a1, x.a2} \cap work.v2 # {}
           g == IF stale THEN [pg EXCEPT !.node[n].cla = Merge(pg.node[x.a1].cla, pg.node[x.a2].cla, x.piv)] ELSE pg
           unit == UnitOf(g, n)
           keep == Other(g, n, unit)
           h == Bypass(g, n, keep) IN
       \/ /\ IsLeaf(pg, n)
          /\ pg' = pg
          /\ Visited(n, i, next, {}, {})
       \/ /\ ~IsLeaf(pg, n) /\ PivotIn(pg, n, x.a1) /\ PivotIn(pg, n, x.a2)
          /\ IF unit = NoNode
             THEN /\ pg' = g
                  /\ Visited(n, i, next, IF stale THEN {n} ELSE {}, PivotFaults(pg, n))
             ELSE /\ pg' = h
                  /\ work' = [work EXCEPT !.q = SubSeq(work.q, i + 1, Len(work.q)) \o next,
                                          !.v1 = @ \cup {n}, !.v2 = @ \cup {keep},
                                          !.units = @ \cup {unit}, !.some = TRUE,
                                          !.faults = @ \cup PivotFaults(pg, n) \cup TwinFaults(h, x.res)]
       \/ /\ ~IsLeaf(pg, n) /\ ~(PivotIn(pg, n, x.a1) /\ PivotIn(pg, n, x.a2))
          /\ \E r \in Replacing(pg, n) :
                LET k == Bypass(pg, n, r) IN
                /\ pg' = Release(k, Other(pg, n, r))
                /\ Visited(n, i, next, {r}, TwinFaults(k, x.res))
    /\ UNCHANGED <<log, todo, phase>>

\* The pivot of a unit that is resolved with the root.
FirstVar(c) == Min(Vars(c))

ReaddUnit(s, u) ==
    LET g == s.graph
        n == Len(g.node) + 1
        v == FirstVar(g.node[u].cla)
        h == AddNode(g, [cla |-> Merge(g.node[g.root].cla, g.node[u].cla, v), piv |-> v, a1 |-> g.root, a2 |-> u,
                         res |-> {}, type |-> "derived"])
    IN  IF g.node[g.root].cla = {} THEN s
        ELSE IF ~Live(g, u) THEN [s EXCEPT !.faults = @ \cup {"unit removed"}]
        ELSE [graph |-> [AddRes(AddRes(h, u, n), g.root, n) EXCEPT !.root = n],
              faults |-> s.faults \cup IF HasOccurrence(g.node[g.root].cla, v) THEN {} ELSE {"unit not needed"}]

RECURSIVE Readded(_, _)
Readded(s, us) == IF us = <<>> THEN s ELSE Readded(ReaddUnit(s, Head(us)), Tail(us))

\* Mutant: the flag for replaced nodes is not reset for the next pass.
UnitsFlagKept ==
    /\ phase = "units" /\ ReadyAt = {}
    /\ IF work.some
       THEN /\ work' = [FromLeaves(pg) EXCEPT !.units = work.units, !.some = TRUE]
            /\ UNCHANGED <<log, pg, todo, phase>>
       ELSE Leave(pg)

\* A pass ends: another one if some node was replaced, or the units are
\* added again.
UnitsRecycled ==
    /\ phase = "units" /\ ReadyAt = {}
    /\ IF work.some
       THEN /\ work' = [FromLeaves(pg) EXCEPT !.units = work.units]
            /\ UNCHANGED <<log, pg, todo, phase>>
       ELSE LET s == Readded([graph |-> pg, faults |-> {}], Sorted(work.units))
                g == s.graph IN
            /\ pg' = g
            /\ Start(todo)
            /\ work' = [FromLeaves(g) EXCEPT
                            !.faults = @ \cup s.faults \cup IF g.node[g.root].cla # {} THEN {"root not empty"} ELSE {}]
            /\ UNCHANGED log

-----------------------------------------------------------------------------
Step ==
    \/ Build \/ BuildClause \/ Built
    \/ FillProofGraph \/ EmptyProofGraph \/ NormalizeAntecedentOrder
    \/ ProofPostStructuralHashing \/ RecyclePivots \/ Mend \/ Mended
    \/ Traverse \/ Traversed \/ ReplaceSubproofs
    \/ RecycleUnits \/ UnitsRecycled

Next == PropagateAtZero \/ Learn \/ AnalyzeFinal \/ Step

\* The transformations run to their end once the proof is complete.
Fairness == []<>(phase \in {"log", "done"}) \/ []<><<Step>>_vars

Spec == Init /\ [][Next]_vars /\ Fairness

-----------------------------------------------------------------------------
(* Properties *)

Phases == {"log", "build", "fill", "empty", "normalize", "hash", "recycle", "mend", "traverse", "lift",
           "replace", "units", "done"}

\* Edges and leaves are slots of the vector, and the bound of the vector is not met.
TypeOK ==
    /\ \A n \in Ids(pg) : pg.node[n].res \subseteq Ids(pg) /\ Ants(pg, n) \subseteq Ids(pg)
    /\ pg.leaves \subseteq Ids(pg) /\ pg.root \in Ids(pg) \cup {NoNode}
    /\ phase \in Phases /\ \A k \in DOMAIN todo : todo[k] \in Phases
    /\ Len(pg.node) < MaxNodes

\* Between two phases the clauses are there and nothing is half done.
AtRest == work.v1 = {} /\ work.units = {} /\ phase \notin {"log", "build", "mend"}

\* Edges in both directions agree: the resolvents of a node are the nodes
\* that have it as an antecedent, no edge leads to a removed node, and the
\* leaves are the nodes without antecedents.
EdgesAgree ==
    AtRest =>
        LET live == {n \in Ids(pg) : Live(pg, n)} IN
        /\ \A n \in live : pg.node[n].res = {r \in live : n \in Ants(pg, r)}
        /\ \A n \in live : Ants(pg, n) \subseteq live /\ Cardinality(Ants(pg, n)) \in {0, 2}
        /\ pg.leaves = {n \in live : Ants(pg, n) = {}}

\* Every node the root is derived from is the resolvent of its antecedents
\* over its pivot, which occurs in them with opposite signs; the root is
\* the empty clause (checkProof(true)).
Derived(g, n) ==
    LET x == g.node[n]
        A == g.node[x.a1].cla
        B == g.node[x.a2].cla
    IN  /\ {x.piv, -x.piv} \subseteq A \cup B
        /\ {x.piv, -x.piv} \cap A \cap B = {}
        /\ x.cla = Merge(A, B, x.piv)

ProofValid ==
    AtRest /\ phase \in {"hash", "recycle", "traverse", "lift", "replace", "normalize", "units"} =>
        /\ pg.node[pg.root].cla = {}
        /\ \A n \in Proof(pg) : IsLeaf(pg, n) \/ Derived(pg, n)

\* No assert of the visits fails.
NoFaults == work.faults = {}

\* What interpolation relies on at the end: the proof, filled again, is a
\* refutation without the variables that have no partition.
ReadyForInterpolation ==
    phase = "done" =>
        LET g == Fill(pg) IN
        /\ g.node[g.root].cla = {}
        /\ \A n \in Proof(g) : IsLeaf(g, n) \/ Derived(g, n)
        /\ \A n \in Proof(g) : Vars(g.node[n].cla) \cap Mixed = {}

\* "Must guarantee first antecedent -> positive occurrence pivot" (PGBuild.cc):
\* the partial interpolants of a node are combined by this order.
PositiveFirst ==
    phase = "done" =>
        LET g == Fill(pg) IN
        \A n \in Proof(g) : ~IsLeaf(g, n) => g.node[n].piv \in g.node[g.node[n].a1].cla

\* Every leaf of the proof at the end is a leaf of the log, or follows from
\* the theory lemmas of the log, so that its refutation refutes the input.
Models == LET V == UNION {Vars(log[i].cla) : i \in DOMAIN log} IN {{v \in V : v \in T} \cup {-v : v \in V \ T} : T \in SUBSET V}

LeavesSound ==
    phase = "done" =>
        LET given == {log[i].cla : i \in {i \in DOMAIN log : log[i].chain = <<>>}}
            lemmas == {log[i].cla : i \in {i \in DOMAIN log : log[i].type = "theory"}}
        IN  \A n \in Proof(pg) : IsLeaf(pg, n) =>
                \/ pg.node[n].cla \in given
                \/ \A m \in Models : (\A c \in lemmas : c \cap m # {}) => pg.node[n].cla \cap m # {}

\* The reduction never makes the proof larger than the one that was logged:
\* a chain of k clauses takes k - 1 nodes.
RECURSIVE Used(_)
Used(S) ==
    LET T == S \cup UNION {{log[i].chain[k] : k \in DOMAIN log[i].chain} : i \in S} IN IF T = S THEN S ELSE Used(T)

ReductionShrinks ==
    phase = "done" /\ Mixed = {} =>
        Cardinality(Proof(pg)) <= FoldSet(LAMBDA i, k : k + (IF log[i].chain = <<>> THEN 1 ELSE Len(log[i].chain) - 1), 0, Used({Len(log)}))

\* Once built, a proof is transformed to the end: the traversals of the
\* lifting come to one that applies no rule, and so do those of the units.
Terminates == (phase = "build") ~> (phase = "done")

\* The graph is in shape, and it is a refutation of what was logged.
Shape == TypeOK /\ EdgesAgree /\ NoFaults
Sound == ProofValid /\ ReadyForInterpolation /\ LeavesSound
=============================================================================
