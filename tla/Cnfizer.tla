------------------------------ MODULE Cnfizer ------------------------------
(***************************************************************************)
(* From formulas to clauses: the constructors of Logic, which simplify     *)
(* while they build a term, and Cnfizer with Tseitin, which give a formula *)
(* of a frame to the solver as clauses.  A term is a record; the operands  *)
(* of the Boolean operators form a set, because Logic sorts them and drops *)
(* repetitions.  The variable of a term is the term itself without its     *)
(* negations (TermMapper); a clause carries the frame whose literal        *)
(* addClause() appends.  Uninterpreted predicates take one Boolean         *)
(* argument, whose literal the theory reads.                               *)
(***************************************************************************)
EXTENDS Naturals, Sequences, FiniteSets, FiniteSetsExt

CONSTANTS Atoms,       \* the Boolean variables
          Predicates,  \* the uninterpreted predicates
          MaxFrame,    \* the frames are 0 .. MaxFrame; 0 is never popped
          Ops,         \* the constructors that are called
          MaxMade, MaxGiven

VARIABLES made,      \* the terms made so far, each with the structures it is true in
          given,     \* the formulas given to the solver, with their frames
          clauses,
          alreadyAsserted, alreadyCnfized

vars == <<made, given, clauses, alreadyAsserted, alreadyCnfized>>

-----------------------------------------------------------------------------
(* Terms and constructors.                                                 *)

Fun(o, n, as) == [op |-> o, name |-> n, args |-> as]
True == Fun("true", "", {})
False == Fun("false", "", {})
AtomTerm(a) == Fun("var", a, {})
TheArg(t) == CHOOSE x \in t.args : TRUE

mkNot(t) ==
    CASE t.op = "not" -> TheArg(t)
      [] t = True -> False
      [] t = False -> True
      [] OTHER -> Fun("not", "", {t})

mkAnd(S) ==
    LET R == S \ {True}
    IN  IF False \in R \/ \E x \in R : mkNot(x) \in R THEN False
        ELSE IF R = {} THEN True
        ELSE IF Cardinality(R) = 1 THEN CHOOSE x \in R : TRUE
        ELSE Fun("and", "", R)

mkOr(S) ==
    LET R == S \ {False}
    IN  IF True \in R \/ \E x \in R : mkNot(x) \in R THEN True
        ELSE IF R = {} THEN False
        ELSE IF Cardinality(R) = 1 THEN CHOOSE x \in R : TRUE
        ELSE Fun("or", "", R)

mkXor(x, y) ==
    CASE x = y -> False
      [] x = mkNot(y) -> True
      [] x = True -> mkNot(y)
      [] y = True -> mkNot(x)
      [] x = False -> y
      [] y = False -> x
      [] OTHER -> Fun("xor", "", {x, y})

mkBinaryEq(x, y) ==
    CASE x = y -> True
      [] x = mkNot(y) -> False
      [] x = True -> y
      [] y = True -> x
      [] x = False -> mkNot(y)
      [] y = False -> mkNot(x)
      [] OTHER -> Fun("eq", "", {x, y})

mkImpl(x, y) ==
    CASE x = False \/ y = True -> True
      [] x = True /\ y = False -> False
      [] OTHER -> mkOr({mkNot(x), y})

\* Three Boolean terms are never distinct.
mkDistinct(S) ==
    IF Cardinality(S) > 2 THEN False
    ELSE LET x == CHOOSE x \in S : TRUE
             y == CHOOSE y \in S : S = {x, y}
         IN  mkNot(mkBinaryEq(x, y))

Construct(o, x, y, z) ==
    CASE o = "not" -> mkNot(x)            [] o = "and" -> mkAnd({x, y})
      [] o = "or" -> mkOr({x, y})         [] o = "and3" -> mkAnd({x, y, z})
      [] o = "or3" -> mkOr({x, y, z})     [] o = "xor" -> mkXor(x, y)
      [] o = "eq" -> mkBinaryEq(x, y)     [] o = "impl" -> mkImpl(x, y)
      [] o = "eq3" -> mkAnd({mkBinaryEq(x, y), mkBinaryEq(y, z)})
      [] o = "distinct" -> mkDistinct({x, y})
      [] o \in Predicates -> Fun("uf", o, {x})

-----------------------------------------------------------------------------
(* The reference: the structures a term is true in.                        *)

Structures == [atoms : SUBSET Atoms, pred : [Predicates -> [BOOLEAN -> BOOLEAN]]]

Holds(o, p, q, r, s) ==
    CASE o = "not" -> ~p                  [] o = "and" -> p /\ q
      [] o = "or" -> p \/ q               [] o = "and3" -> p /\ q /\ r
      [] o = "or3" -> p \/ q \/ r         [] o = "xor" -> p # q
      [] o = "eq" -> p = q                [] o = "impl" -> p => q
      [] o = "eq3" -> p = q /\ q = r      [] o = "distinct" -> p # q
      [] o \in Predicates -> s.pred[o][p]

-----------------------------------------------------------------------------
(* Clauses.                                                                *)

\* TermMapper::getOrCreateLit(): negations are taken off (mkNot() never
\* leaves two of them).
Lit(t) == IF t.op = "not" THEN [var |-> TheArg(t), neg |-> TRUE] ELSE [var |-> t, neg |-> FALSE]
Opposite(l) == [l EXCEPT !.neg = ~@]

IsAtom(t) == t.op \in {"true", "false", "var", "uf"}
IsLiteral(t) == IsAtom(t) \/ (t.op = "not" /\ IsAtom(TheArg(t)))

\* The operands of nested conjunctions (disjunctions).
RECURSIVE Flattened(_, _)
Flattened(o, t) == IF t.op = o THEN UNION {Flattened(o, x) : x \in t.args} ELSE {t}

IsClause(t) == \A x \in Flattened("or", t) : IsLiteral(x)
CheckDeMorgan(t) ==
    /\ t.op = "not" /\ TheArg(t).op = "and"
    /\ \A x \in Flattened("and", TheArg(t)) : IsLiteral(x)

\* The clauses that define the variable of a gate.
GateClauses(t) ==
    LET v == Lit(t)
        L == {Lit(x) : x \in t.args}
        nv == Opposite(v)
        N == {Opposite(l) : l \in L}
        first == CHOOSE l \in L : TRUE
        other == CHOOSE l \in L : L = {first, l}
    IN CASE t.op = "and" -> {{nv, l} : l \in L} \cup {N \cup {v}}
         [] t.op = "or"  -> {{v, Opposite(l)} : l \in L} \cup {L \cup {nv}}
         [] t.op = "xor" -> {{nv} \cup L, {nv} \cup N,
                             {v, Opposite(first), other}, {v, first, Opposite(other)}}
         [] t.op = "eq"  -> {{nv, first, Opposite(other)}, {nv, Opposite(first), other},
                             {v} \cup L, {v} \cup N}
         [] OTHER -> {}

\* Mutant: what any frame knows is known.
InCacheOfAny(cache, t, frame) == \E j \in 0 .. MaxFrame : <<t, j>> \in cache

\* Cache::contains(): what frame 0 knows, every frame knows.
InCache(cache, t, frame) == <<t, frame>> \in cache \/ <<t, 0>> \in cache

\* Tseitin::cnfize() visits the gates below a term, but nothing below a
\* term it has visited for this frame.
RECURSIVE Visited(_, _, _)
Visited(cache, t, frame) ==
    IF InCache(cache, t, frame) THEN {}
    ELSE {t} \cup (IF t.op = "uf" THEN {} ELSE UNION {Visited(cache, x, frame) : x \in t.args})

RECURSIVE Subterms(_)
Subterms(t) == {t} \cup UNION {Subterms(x) : x \in t.args}

NestedBoolRoots(t) == UNION {u.args : u \in {x \in Subterms(t) : x.op = "uf"}}

\* What one top-level conjunct asserts, and the term left for cnfize().
TopClause(f) ==
    IF IsClause(f) THEN {Lit(x) : x \in Flattened("or", f)}
    ELSE IF CheckDeMorgan(f) THEN {Opposite(Lit(x)) : x \in Flattened("and", TheArg(f))}
    ELSE {Lit(f)}
NeedsCnfization(f) == ~IsClause(f) /\ ~CheckDeMorgan(f)

\* The roots cnfize() is called with.
CnfizedRoots(new, t) == {f \in new : NeedsCnfization(f)} \cup NestedBoolRoots(t)

-----------------------------------------------------------------------------
Leaves == {True, False} \cup {AtomTerm(a) : a \in Atoms}
TrueIn(t) ==
    {s \in Structures : t = True \/ (t.op = "var" /\ t.name \in s.atoms)}

\* initialize() asserts true and not false.
Init ==
    /\ made = <<>>
    /\ given = {}
    /\ clauses = {[lits |-> {Lit(True)}, frame |-> 0], [lits |-> {Opposite(Lit(False))}, frame |-> 0]}
    /\ alreadyAsserted = {} /\ alreadyCnfized = {}

\* A client calls a constructor; the last term made is among the arguments.
Make ==
    /\ given = {} /\ Len(made) < MaxMade
    /\ LET leaf == {[term |-> t, models |-> TrueIn(t)] : t \in Leaves}
           all == leaf \cup {made[i] : i \in DOMAIN made}
       IN \E o \in Ops, x, y, z \in all :
            /\ o \notin {"and3", "or3", "eq3"} => z = x
            /\ o \in Predicates \cup {"not"} => y = x
            /\ made # <<>> => made[Len(made)] \in {x, y, z}
            /\ made' = Append(made,
                  [term |-> Construct(o, x.term, y.term, z.term),
                   models |-> {s \in Structures :
                                 Holds(o, s \in x.models, s \in y.models, s \in z.models, s)}])
    /\ UNCHANGED <<given, clauses, alreadyAsserted, alreadyCnfized>>

\* cnfizeAndGiveToSolver()
Give(i, frame) ==
    /\ Cardinality(given) < MaxGiven
    /\ LET f == made[i].term
           new == {g \in Flattened("and", f) : ~InCache(alreadyAsserted, g, frame)}
           gates == UNION {Visited(alreadyCnfized, g, frame) : g \in CnfizedRoots(new, f)}
           added == {TopClause(g) : g \in new} \cup UNION {GateClauses(g) : g \in gates}
       IN /\ clauses' = clauses \cup {[lits |-> c, frame |-> frame] : c \in added}
          /\ alreadyAsserted' = alreadyAsserted \cup (new \X {frame})
          /\ alreadyCnfized' = alreadyCnfized \cup (gates \X {frame})
          /\ given' = given \cup {<<made[i], frame>>}
    /\ UNCHANGED made

Next == Make \/ \E i \in DOMAIN made, frame \in 0 .. MaxFrame : Give(i, frame)

Spec == Init /\ [][Next]_vars

-----------------------------------------------------------------------------
(* Properties.                                                             *)

TypeOK ==
    /\ \A i \in DOMAIN made : made[i].models \subseteq Structures
    /\ \A c \in clauses : c.frame \in 0 .. MaxFrame /\ \A l \in c.lits : l.var.op # "not"
    /\ \A p \in alreadyAsserted : p[1].op # "and" /\ p[2] \in 0 .. MaxFrame
    /\ \A p \in alreadyCnfized : p[2] \in 0 .. MaxFrame

\* The value of a literal in a structure, when X are the gates set to true;
\* a predicate is applied to the value of its argument's literal.
RECURSIVE LitValue(_, _, _)
LitValue(l, s, X) ==
    l.neg # CASE l.var.op = "var" -> l.var.name \in s.atoms
              [] l.var.op = "uf" -> s.pred[l.var.name][LitValue(Lit(TheArg(l.var)), s, X)]
              [] OTHER -> l.var \in X

SatisfiedBy(s, C) ==
    LET V == UNION {Subterms(l.var) : l \in UNION C}
        gates == {t \in V : t.op \notin {"var", "uf", "not"}}
    IN  \E X \in SUBSET gates : \A c \in C : \E l \in c : LitValue(l, s, X)

\* Whatever frames are enabled, the clauses of the enabled frames have a
\* model over a structure exactly when the formulas given in these frames
\* are true in it: neither the caches shared between frames, nor the
\* shortcuts for clauses, nor the simplifying constructors lose or add
\* anything, and arguments of predicates have their own values.
ClausesMeanFormulas ==
    \A E \in {{0} \cup D : D \in SUBSET (1 .. MaxFrame)} :
        LET C == {c.lits : c \in {d \in clauses : d.frame \in E}}
            M == {g[1].models : g \in {h \in given : h[2] \in E}}
        IN  \A s \in Structures : SatisfiedBy(s, C) <=> \A m \in M : s \in m
=============================================================================
