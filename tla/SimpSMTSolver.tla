--------------------------- MODULE SimpSMTSolver ---------------------------
(***************************************************************************)
(* Preprocessing of the clause database (SimpSMTSolver.cc): backward       *)
(* subsumption, strengthening, asymmetric branching and elimination of     *)
(* variables, between clauses that arrive and searches that return models. *)
(*                                                                         *)
(* A literal is an integer and its negation the negative one.  A clause is *)
(* [lits, mark]; marked clauses are deleted and stay in lists until those  *)
(* are cleaned.  An occurrence list is a set of indices: the code keeps it *)
(* in the order of addition, which is the order of indices.                *)
(***************************************************************************)
EXTENDS Integers, Sequences, FiniteSets, SequencesExt, FiniteSetsExt

CONSTANTS
    Atoms,          \* the variables: a set of positive integers
    Theory,         \* those of theory terms and frames, frozen as soon as they occur
    Inputs,         \* the clauses that may be added
    Assumptions,    \* the sets of assumptions of a call of solve
    Grow,           \* sat_grow
    ClauseLim,      \* sat_clause_lim
    SubsumptionLim, \* sat_subsumption_lim
    UseAsymm,       \* sat_use_asymm
    UseRcheck,      \* sat_use_rcheck
    Reuse,          \* whether later clauses may hold variables eliminated before
    MaxGiven,       \* bound on the clauses added
    MaxSolves       \* bound on the calls of solve

VARIABLES
    db,       \* [cls, trail, ok]: clauses, the trail of level 0, CoreSMTSolver::ok
    occ,      \* [nvars, occurs, dirty, n, heap, queue, touched, bwd, frozen, elim]
    elims,    \* elimclauses: [first, rest] for each clause kept for extendModel
    ctl,      \* [pc, back, cur, was, assumed, extra]: where eliminate is, for which
              \* variable, and the assumptions frozen for it
    given,    \* ghost: the clauses added
    answers   \* ghost: [sat, assumed, given, model] of each call of solve

vars == <<db, occ, elims, ctl, given, answers>>

Lits == Atoms \cup {-a : a \in Atoms}

Var(l) == IF l < 0 THEN -l ELSE l

VarsOf(c) == {Var(l) : l \in c}

True(d) == ToSet(d.trail)

Defined(d, v) == v \in True(d) \/ -v \in True(d)

Live(d) == {i \in DOMAIN d.cls : d.cls[i].mark = 0}

RECURSIVE Sorted(_)
Sorted(S) == IF S = {} THEN <<>> ELSE <<Min(S)>> \o Sorted(S \ {Min(S)})

-----------------------------------------------------------------------------
(* Unit propagation: clauses that hold the negation of a new literal. *)

RECURSIVE Propagate(_, _)
Propagate(d, head) ==
    LET p == d.trail[head]
        T == True(d)
        open(i) == {l \in d.cls[i].lits : -l \notin T}
        hit == {i \in Live(d) : -p \in d.cls[i].lits /\ d.cls[i].lits \cap T = {} /\ Cardinality(open(i)) < 2}
        i == CHOOSE i \in hit : \A j \in hit : i <= j
    IN  IF ~d.ok \/ head > Len(d.trail) THEN d
        ELSE IF hit = {} THEN Propagate(d, head + 1)
        ELSE IF open(i) = {} THEN [d EXCEPT !.ok = FALSE]
        ELSE Propagate([d EXCEPT !.trail = Append(@, CHOOSE l \in open(i) : TRUE)], head)

\* enqueue and propagate
Enqueue(d, l) ==
    IF -l \in True(d) THEN [d EXCEPT !.ok = FALSE]
    ELSE IF l \in True(d) THEN d ELSE Propagate([d EXCEPT !.trail = Append(@, l)], Len(d.trail) + 1)

\* Whether a conflict follows from the negations of the literals of S, which
\* none of the trail makes true (implied, asymm).
Refuted(d, S) ==
    LET new == Sorted({-l : l \in {l \in S : -l \notin True(d)}})
    IN  new # <<>> /\ ~Propagate([d EXCEPT !.trail = @ \o new], Len(d.trail) + 1).ok

Implied(d, c) == c \cap True(d) = {} /\ (\A l \in c : -l \notin c) /\ Refuted(d, c)

-----------------------------------------------------------------------------
(* Occurrence lists, counters and the heap.  o is occ, d is db. *)

CanElim(d, o, v) == v \notin o.frozen /\ v \notin o.elim /\ ~Defined(d, v)

UpdateElimHeap(d, o, v) == IF CanElim(d, o, v) THEN [o EXCEPT !.heap = @ \cup {v}] ELSE o

Clean(d, o, v) == [o EXCEPT !.occurs[v] = @ \cap Live(d), !.dirty = @ \ {v}]

Lookup(d, o, v) == IF v \in o.dirty THEN Clean(d, o, v) ELSE o

Cost(o, v) == o.n[v] * o.n[-v]

\* A clause as addOriginalClause_ keeps it.
Reduced(d, c) == {l \in c : -l \notin True(d)}

SatisfiedAlready(d, c) == c \cap True(d) # {} \/ \E l \in c : -l \in c

\* The lists for the clause with index i, added last.
Occurring(o, i, c) ==
    [o EXCEPT !.queue = Append(@, i),
              !.occurs = [v \in Atoms |-> IF v \in VarsOf(c) THEN @[v] \cup {i} ELSE @[v]],
              !.n = [l \in Lits |-> @[l] + (IF l \in c THEN 1 ELSE 0)],
              !.touched = @ \cup VarsOf(c)]

\* addVar_: every variable up to the largest of the clause exists.
AddVars(o, c) ==
    LET n == Max(VarsOf(c) \cup {o.nvars})
    IN  [o EXCEPT !.nvars = n, !.heap = @ \cup (Atoms \cap (o.nvars + 1)..n), !.frozen = @ \cup (VarsOf(c) \cap Theory)]

\* addOriginalSMTClause: x is [d, o].
AddOriginal(x, c) ==
    LET o1 == AddVars(x.o, c)
        r == Reduced(x.d, c)
    IN  IF UseRcheck /\ Implied(x.d, c) THEN [x EXCEPT !.o = o1]
        ELSE IF ~x.d.ok \/ SatisfiedAlready(x.d, c) THEN [x EXCEPT !.o = o1]
        ELSE IF r = {} THEN [d |-> [x.d EXCEPT !.ok = FALSE], o |-> o1]
        ELSE IF Cardinality(r) = 1 THEN [d |-> Enqueue(x.d, CHOOSE l \in r : TRUE), o |-> o1]
        ELSE [d |-> [x.d EXCEPT !.cls = Append(@, [lits |-> r, mark |-> 0])], o |-> Occurring(o1, Len(x.d.cls) + 1, r)]

\* removeClause
RemoveClause(x, i) ==
    LET c == x.d.cls[i].lits
        o1 == [x.o EXCEPT !.n = [l \in Lits |-> @[l] - (IF l \in c THEN 1 ELSE 0)], !.dirty = @ \cup VarsOf(c)]
    IN  [d |-> [x.d EXCEPT !.cls[i].mark = 1], o |-> FoldSet(LAMBDA v, o : UpdateElimHeap(x.d, o, v), o1, VarsOf(c))]

\* strengthenClause: literal l leaves clause i; ok is false on a conflict.
Strengthen(x, i, l) ==
    LET c == x.d.cls[i].lits
        y == [x EXCEPT !.o.queue = Append(@, i)]
    IN  IF Cardinality(c) = 2
        THEN LET z == RemoveClause(y, i)
             IN  [z EXCEPT !.d = Enqueue([@ EXCEPT !.cls[i].lits = c \ {l}], CHOOSE k \in c : k # l)]
        ELSE [d |-> [x.d EXCEPT !.cls[i].lits = @ \ {l}],
              o |-> UpdateElimHeap(x.d, [y.o EXCEPT !.occurs[Var(l)] = @ \ {i}, !.n[l] = @ - 1], Var(l))]

-----------------------------------------------------------------------------
(* Backward subsumption *)

Flipped(c, e) == {l \in c : -l \in e}

\* Clause::subsumes: at most one literal of c is negated in e.
Subsumes(c, e) == Cardinality(c) <= Cardinality(e) /\ (\A l \in c : l \in e \/ -l \in e) /\ Cardinality(Flipped(c, e)) < 2

\* Clause c, of index self, against those of the list of one of its variables.
RECURSIVE Scan(_, _, _, _)
Scan(x, c, self, todo) ==
    LET i == Min(todo)
        e == x.d.cls[i]
        l == CHOOSE l \in Flipped(c, e.lits) : TRUE
    IN  IF todo = {} \/ ~x.d.ok THEN x
        ELSE Scan(IF e.mark = 1 \/ i = self \/ Cardinality(e.lits) >= SubsumptionLim \/ ~Subsumes(c, e.lits) THEN x
                  ELSE IF Flipped(c, e.lits) = {} THEN RemoveClause(x, i) ELSE Strengthen(x, i, -l),
                  c, self, todo \ {i})

\* Mutant: the scan ends at the clause itself.
ScannedEarlier(x, c, self, best) ==
    LET o1 == Lookup(x.d, x.o, best) IN Scan([x EXCEPT !.o = o1], c, self, {i \in o1.occurs[best] : i < self})

Scanned(x, c, self, best) ==
    LET o1 == Lookup(x.d, x.o, best) IN Scan([x EXCEPT !.o = o1], c, self, o1.occurs[best])

\* The variables of c with the shortest list, deleted clauses included.
Best(o, c) == {v \in VarsOf(c) : \A w \in VarsOf(c) : Cardinality(o.occurs[v]) <= Cardinality(o.occurs[w])}

\* Mutant: the literals of the trail are not used.
PendingClauses(d, o) == o.queue # <<>>

Pending(d, o) == o.queue # <<>> \/ o.bwd < Len(d.trail)

\* One round of the loop of backwardSubsumptionCheck.
Backward ==
    /\ ctl.pc = "bwd" /\ db.ok /\ Pending(db, occ)
    /\ IF occ.queue = <<>>
       THEN LET l == db.trail[occ.bwd + 1]
                y == Scanned([d |-> db, o |-> [occ EXCEPT !.bwd = @ + 1]], {l}, 0, Var(l))
            IN  db' = y.d /\ occ' = y.o
       ELSE LET i == Head(occ.queue)
                x == [d |-> db, o |-> [occ EXCEPT !.queue = Tail(@)]]
            IN  IF db.cls[i].mark = 1 THEN db' = db /\ occ' = x.o
                ELSE \E best \in Best(occ, db.cls[i].lits) :
                        LET y == Scanned(x, db.cls[i].lits, i, best) IN db' = y.d /\ occ' = y.o
    /\ UNCHANGED <<elims, ctl, given, answers>>

BackwardDone ==
    /\ ctl.pc = "bwd" /\ (db.ok => ~Pending(db, occ))
    /\ ctl' = [ctl EXCEPT !.pc = IF db.ok THEN ctl.back ELSE "clean"]
    /\ UNCHANGED <<db, occ, elims, given, answers>>

-----------------------------------------------------------------------------
(* eliminate *)

MoreToDo(d, o) == o.touched # {} \/ o.bwd < Len(d.trail) \/ o.heap # {}

\* gatherTouchedClauses: clauses of touched variables join the queue.
GatherTouchedClauses ==
    LET o1 == [occ EXCEPT !.occurs = [v \in Atoms |-> IF v \in occ.touched \cap occ.dirty THEN @[v] \cap Live(db) ELSE @[v]],
                          !.dirty = @ \ occ.touched, !.touched = {}]
        new == (UNION {o1.occurs[v] : v \in occ.touched} \cap Live(db)) \ ToSet(occ.queue)
    IN  [o1 EXCEPT !.queue = @ \o Sorted(new)]

Gather ==
    /\ ctl.pc = "gather"
    /\ IF MoreToDo(db, occ)
       THEN ctl' = [ctl EXCEPT !.pc = "bwd", !.back = "elim"] /\ occ' = GatherTouchedClauses
       ELSE ctl' = [ctl EXCEPT !.pc = "clean"] /\ UNCHANGED occ
    /\ UNCHANGED <<db, elims, given, answers>>

\* The next variable of the heap, frozen for asymmetric branching.
TakeVariable ==
    /\ ctl.pc = "elim"
    /\ IF occ.heap = {} THEN ctl' = [ctl EXCEPT !.pc = "gather"] /\ UNCHANGED occ
       ELSE \E v \in {v \in occ.heap : \A w \in occ.heap : Cost(occ, v) <= Cost(occ, w)} :
               /\ occ' = [occ EXCEPT !.heap = @ \ {v}, !.frozen = IF UseAsymm /\ v \notin occ.elim /\ ~Defined(db, v) THEN @ \cup {v} ELSE @]
               /\ ctl' = IF v \in occ.elim \/ Defined(db, v) THEN ctl
                         ELSE [ctl EXCEPT !.cur = v, !.pc = IF UseAsymm THEN "asymm" ELSE "elimvar", !.was = v \in occ.frozen]
    /\ UNCHANGED <<db, elims, given, answers>>

\* asymm: the literal of v (or a false one) leaves clause i if the others
\* imply the clause.
Asymm(x, i, v) ==
    LET c == x.d.cls[i].lits
        T == True(x.d)
        away == {l \in c : Var(l) = v \/ -l \in T}
    IN  IF x.d.cls[i].mark = 1 \/ c \cap T # {} \/ ~Refuted(x.d, c \ away) THEN {x}
        ELSE {Strengthen(x, i, l) : l \in away}

RECURSIVE AsymmAll(_, _, _)
AsymmAll(x, todo, v) ==
    IF todo = {} \/ ~x.d.ok THEN {x}
    ELSE UNION {AsymmAll(y, todo \ {Min(todo)}, v) : y \in Asymm(x, Min(todo), v)}

\* asymmVar, up to its backwardSubsumptionCheck
AsymmVar ==
    /\ ctl.pc = "asymm"
    /\ LET v == ctl.cur
           o1 == Lookup(db, occ, v)
       IN  \E x \in AsymmAll([d |-> db, o |-> o1], o1.occurs[v], v) :
              db' = x.d /\ occ' = x.o
    /\ ctl' = [ctl EXCEPT !.pc = "bwd", !.back = "melt"]
    /\ UNCHANGED <<elims, given, answers>>

AsymmDone ==
    /\ ctl.pc = "melt"
    /\ occ' = [occ EXCEPT !.frozen = IF ctl.was THEN @ ELSE @ \ {ctl.cur}]
    /\ ctl' = [ctl EXCEPT !.pc = "elimvar"]
    /\ UNCHANGED <<db, elims, given, answers>>

Resolvent(p, q, v) == (p \cup q) \ {v, -v}

Tautology(c) == \E l \in c : -l \in c

\* merge with an int: what it takes as the size of the resolvent, the longer
\* clause without its literal.
MergeSize(p, q) == Max({Cardinality(p), Cardinality(q)}) - 1

\* mkElimClause: the clauses of one sign, then the other sign as default.
\* Mutant: the default is the sign of the clauses kept.
ElimClausesSame(d, pos, neg, v) ==
    LET P == Cardinality(pos) > Cardinality(neg)
        kept == Sorted(IF P THEN neg ELSE pos)
        x == IF P THEN -v ELSE v
    IN  Append([k \in DOMAIN kept |-> [first |-> x, rest |-> d.cls[kept[k]].lits \ {x}]], [first |-> x, rest |-> {}])

ElimClauses(d, pos, neg, v) ==
    LET P == Cardinality(pos) > Cardinality(neg)
        kept == Sorted(IF P THEN neg ELSE pos)
        x == IF P THEN -v ELSE v
    IN  Append([k \in DOMAIN kept |-> [first |-> x, rest |-> d.cls[kept[k]].lits \ {x}]], [first |-> -x, rest |-> {}])

\* The cross product, in the order of the lists.
Cross(d, pos, neg, v) ==
    LET P == Sorted(pos)
        N == Sorted(neg)
    IN  FoldLeft(LAMBDA s, i : s \o [k \in DOMAIN N |-> Resolvent(d.cls[i].lits, d.cls[N[k]].lits, v)], <<>>, P)

AddResolvent(x, c) == IF ~x.d.ok \/ Tautology(c) THEN x ELSE AddOriginal(x, c)

TooMany(d, pos, neg, v, bound) ==
    LET prods == {<<i, j>> \in pos \X neg : ~Tautology(Resolvent(d.cls[i].lits, d.cls[j].lits, v))}
    IN  \/ Cardinality(prods) > bound + Grow
        \/ \E r \in prods : MergeSize(d.cls[r[1]].lits, d.cls[r[2]].lits) > ClauseLim

\* eliminateVar, up to its backwardSubsumptionCheck
EliminateVar ==
    /\ ctl.pc = "elimvar"
    /\ LET v == ctl.cur
           o1 == Lookup(db, occ, v)
           pos == {i \in o1.occurs[v] : v \in db.cls[i].lits}
           neg == o1.occurs[v] \ pos
           o2 == [o1 EXCEPT !.elim = @ \cup {v}]
           removed == FoldSet(LAMBDA i, x : RemoveClause(x, i), [d |-> db, o |-> o2], o1.occurs[v])
           added == FoldLeft(AddResolvent, removed, Cross(db, pos, neg, v))
       IN  IF Defined(db, v) \/ v \in occ.frozen
           THEN ctl' = [ctl EXCEPT !.pc = "elim"] /\ UNCHANGED <<db, occ, elims>>
           ELSE IF TooMany(db, pos, neg, v, Cardinality(o1.occurs[v]))
           THEN ctl' = [ctl EXCEPT !.pc = "elim"] /\ occ' = o1 /\ UNCHANGED <<db, elims>>
           ELSE /\ db' = added.d
                /\ occ' = IF added.d.ok THEN [added.o EXCEPT !.occurs[v] = {}] ELSE added.o
                /\ elims' = elims \o ElimClauses(db, pos, neg, v)
                /\ ctl' = [ctl EXCEPT !.pc = "bwd", !.back = "elim"]
    /\ UNCHANGED <<given, answers>>

\* cleanUpClauses at the end of eliminate
CleanUp ==
    /\ ctl.pc = "clean"
    /\ occ' = [occ EXCEPT !.occurs = [v \in Atoms |-> IF v \in occ.dirty THEN @[v] \cap Live(db) ELSE @[v]], !.dirty = {}]
    /\ ctl' = [ctl EXCEPT !.pc = "search"]
    /\ UNCHANGED <<db, elims, given, answers>>

-----------------------------------------------------------------------------
(* Search (external: CoreSMTSolver) and models *)

Assignments(V) == {m \in SUBSET Lits : \A v \in Atoms : (v \in V) = ((v \in m) # (-v \in m)) /\ (v \notin V => v \notin m /\ -v \notin m)}

\* Variables the search decides: those not eliminated or seen again since.
Decided(d, o) == {v \in Atoms : v \notin o.elim \/ Defined(d, v) \/ \E i \in Live(d) : v \in VarsOf(d.cls[i].lits)}

SearchModels(d, o, A) ==
    {m \in Assignments(Decided(d, o)) : A \cup True(d) \subseteq m /\ \A i \in Live(d) : d.cls[i].lits \cap m # {}}

\* extendModel, from the last clause kept to the first
RECURSIVE ExtendModel(_, _)
ExtendModel(m, k) ==
    IF k = 0 THEN m
    ELSE LET e == elims[k]
             other == \E l \in e.rest : -l \notin m
         IN  ExtendModel(IF other THEN m ELSE (m \ {-e.first}) \cup {e.first}, k - 1)

Search ==
    /\ ctl.pc = "search"
    /\ LET A == ctl.assumed
           W == IF db.ok THEN SearchModels(db, occ, A) ELSE {}
           learn == {l \in Lits : Var(l) \notin occ.elim /\ ~Defined(db, Var(l)) /\ \A m \in SearchModels(db, occ, {}) : l \in m}
       IN  \/ /\ W = {}
              /\ answers' = Append(answers, [sat |-> FALSE, assumed |-> A, given |-> given, model |-> {}])
              /\ db' = [db EXCEPT !.ok = FALSE]
           \/ /\ \E m \in W : answers' = Append(answers, [sat |-> TRUE, assumed |-> A, given |-> given, model |-> ExtendModel(m, Len(elims))])
              /\ \E u \in {{}} \cup {{l} : l \in learn} :
                    db' = IF u = {} THEN db ELSE Enqueue(db, CHOOSE l \in u : TRUE)
    /\ occ' = [occ EXCEPT !.frozen = @ \ ctl.extra]
    /\ ctl' = [ctl EXCEPT !.pc = "idle", !.extra = {}, !.assumed = {}]
    /\ UNCHANGED <<elims, given>>

-----------------------------------------------------------------------------
Init ==
    /\ db = [cls |-> <<>>, trail |-> <<>>, ok |-> TRUE]
    /\ occ = [nvars |-> 0, occurs |-> [v \in Atoms |-> {}], dirty |-> {}, n |-> [l \in Lits |-> 0], heap |-> {}, queue |-> <<>>,
              touched |-> {}, bwd |-> 0, frozen |-> {}, elim |-> {}]
    /\ elims = <<>> /\ given = {} /\ answers = <<>>
    /\ ctl = [pc |-> "idle", back |-> "elim", cur |-> 0, was |-> FALSE, assumed |-> {}, extra |-> {}]

AddClause ==
    /\ ctl.pc = "idle" /\ db.ok /\ Cardinality(given) < MaxGiven
    /\ \E c \in Inputs \ given :
          /\ Reuse \/ VarsOf(c) \cap occ.elim = {}
          /\ LET x == AddOriginal([d |-> db, o |-> occ], c) IN db' = x.d /\ occ' = x.o /\ given' = given \cup {c}
    /\ UNCHANGED <<elims, ctl, answers>>

\* solve_ with simplification, up to its call of eliminate; an assumption is
\* frozen meanwhile.
Solve ==
    /\ ctl.pc = "idle" /\ db.ok /\ Len(answers) < MaxSolves
    /\ \E A \in Assumptions :
          /\ occ' = [occ EXCEPT !.frozen = @ \cup VarsOf(A)]
          /\ ctl' = [ctl EXCEPT !.pc = "gather", !.assumed = A, !.extra = VarsOf(A) \ occ.frozen]
    /\ UNCHANGED <<db, elims, given, answers>>

Eliminate == Gather \/ Backward \/ BackwardDone \/ TakeVariable \/ AsymmVar \/ AsymmDone \/ EliminateVar \/ CleanUp

Next == AddClause \/ Solve \/ Eliminate \/ Search

Spec == Init /\ [][Next]_vars

-----------------------------------------------------------------------------
(* Properties *)

TypeOK ==
    /\ \A i \in DOMAIN db.cls : db.cls[i].lits \subseteq Lits /\ db.cls[i].mark \in {0, 1}
    /\ \A l \in Lits : occ.n[l] \in Nat
    /\ occ.bwd \in 0..Len(db.trail) /\ ToSet(occ.queue) \subseteq DOMAIN db.cls
    /\ \A v \in Atoms : ~(v \in True(db) /\ -v \in True(db))

\* The counters and the lists agree with the clauses that are alive.
OccurrencesRight ==
    /\ db.ok => \A l \in Lits : occ.n[l] = Cardinality({i \in Live(db) : l \in db.cls[i].lits})
    /\ db.ok => \A v \in Atoms : /\ {i \in Live(db) : v \in VarsOf(db.cls[i].lits)} \subseteq occ.occurs[v]
                                 /\ v \notin occ.dirty => occ.occurs[v] \subseteq Live(db)

Full == Assignments(Atoms)

Satisfied(m, S) == \A c \in S : c \cap m # {}

\* Simplification keeps exactly the assignments of the variables that are
\* left which extend to a model of the clauses that were given.
ModelsKept ==
    LET left == {l \in Lits : Var(l) \notin occ.elim}
        orig == {m \in Full : Satisfied(m, given)}
        kept == {m \in Full : Satisfied(m, {db.cls[i].lits : i \in Live(db)}) /\ True(db) \subseteq m}
    IN  IF db.ok THEN {m \cap left : m \in kept} = {m \cap left : m \in orig}
        ELSE ctl.pc # "idle" => orig = {}

\* The answer sat comes with a model of the clauses given, the answer unsat
\* only when there is none.
AnswersRight ==
    \A k \in DOMAIN answers :
        LET a == answers[k]
        IN  IF a.sat THEN a.assumed \subseteq a.model /\ Satisfied(a.model, a.given)
            ELSE {m \in Full : a.assumed \subseteq m /\ Satisfied(m, a.given)} = {}

\* Preprocessing leaves no clause that another subsumes or strengthens
\* (checked by the code when it is built with INVARIANTS).
NothingSubsumed ==
    ctl.pc = "search" /\ db.ok =>
        \A i, j \in Live(db) : i # j => ~Subsumes(db.cls[i].lits, db.cls[j].lits)

\* No clause holds a variable that is gone (asserted with PEDANTIC_DEBUG).
EliminatedGone == \A i \in Live(db) : VarsOf(db.cls[i].lits) \cap occ.elim = {}

\* The clauses are indexed rightly and no more are kept than needed, and what they
\* answer is right for what was given.
Indexed == TypeOK /\ OccurrencesRight /\ EliminatedGone
Right == ModelsKept /\ AnswersRight
=============================================================================
