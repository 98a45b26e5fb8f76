----------------------------- MODULE Interpret -----------------------------
(***************************************************************************)
(* The commands of an incremental session with interpolation, after        *)
(* (set-logic): what Interpret, MainSolver, PartitionManager and Cnfizer   *)
(* keep in step by hand.  Interpret numbers assertions by their place in   *)
(* its vector, MainSolver numbers partitions by a counter, Cnfizer stamps  *)
(* clauses with the number it looks up by term, and the scopes of          *)
(* define-fun are a stack of their own beside the frames.                  *)
(*                                                                         *)
(* A formula is known by its top-level conjuncts, and a conjunct stands    *)
(* for the clause it becomes and for its atoms.                            *)
(***************************************************************************)
EXTENDS Naturals, Sequences, FiniteSets, SequencesExt

CONSTANTS
    Formulas,     \* terms of sort Bool
    conjuncts,    \* formula |-> its top-level conjuncts
    IllSorted,    \* terms of other sorts
    FunNames,     \* names define-fun may define (without arguments)
    Names,        \* names (! t :named n) may give
    NoName,
    MaxFrames,    \* bounds: frames on the stack, assert commands,
    MaxAsserts,   \* and the numeral of a push or pop
    MaxNumeral,
    MaxFrameIds   \* frames ever allocated

Terms == Formulas \union IllSorted

\* A conjunct is a formula that is its own conjunct.
ASSUME ConjunctsAssumption ==
    /\ conjuncts \in [Formulas -> SUBSET Formulas \ {{}}]
    /\ \A f \in Formulas : \A c \in conjuncts[f] : conjuncts[c] = {c}

VARIABLES
    defs,        \* DefinedFunctions: table, scopedNames, limits
    global,      \* option :global-declarations
    nameToTerm,  \* named terms
    assertions,  \* Interpret's vector of asserted terms
    frames,      \* MainSolver's frames: id and formulas
    simplified,  \* frames.getSimplifiedUntil()
    pending,     \* formulas of the last simplified frame not given to the solver yet
    ids,         \* frames allocated so far
    parts,       \* PartitionManager: count, index of formulas, bits of formulas
    clauses      \* clauses in the solver: conjunct, frame, partition

vars == <<defs, global, nameToTerm, assertions, frames, simplified, pending, ids, parts, clauses>>
solver == <<frames, simplified, pending, ids, parts, clauses>>

Init ==
    /\ defs = [table |-> <<>>, scopedNames |-> <<>>, limits |-> <<>>]
    /\ global = FALSE
    /\ nameToTerm = <<>>
    /\ assertions = <<>>
    /\ frames = <<[id |-> 0, formulas |-> <<>>]>>
    /\ simplified = 0 /\ pending = <<>>
    /\ ids = 1
    /\ parts = [count |-> 0, index |-> <<>>, bits |-> [f \in Formulas |-> {}]]
    /\ clauses = {}

With(f, k, v) == [x \in DOMAIN f \union {k} |-> IF x = k THEN v ELSE f[x]]
Without(f, S) == [x \in DOMAIN f \ S |-> f[x]]

-----------------------------------------------------------------------------
(* Definitions.                                                            *)

\* (set-option :global-declarations b)
SetGlobalDeclarations(b) ==
    /\ global' = b
    /\ UNCHANGED <<defs, nameToTerm, assertions, solver>>

\* A name in a term stands for the function defined under it, if there is one.
Resolvable == Terms \union DOMAIN defs.table
Resolved(t) == IF t \in DOMAIN defs.table THEN defs.table[t] ELSE t

\* (define-fun n () s t): fails, changing nothing, if n is defined already.
DefineFun(n, t) ==
    /\ n \notin DOMAIN defs.table
    /\ defs' = [defs EXCEPT !.table = With(@, n, Resolved(t)),
                            !.scopedNames = IF global THEN @ ELSE Append(@, n)]
    /\ UNCHANGED <<global, nameToTerm, assertions, solver>>

\* DefinedFunctions::pushScope(), k times.
PushedScopes(d, k) == [d EXCEPT !.limits = @ \o [j \in 1 .. k |-> Len(d.scopedNames)]]

\* DefinedFunctions::popScope(), k times: the names defined since the k-th last limit go.
PoppedScopes(d, k) ==
    LET limit == d.limits[Len(d.limits) - k + 1]
    IN  IF k = 0 THEN d
        ELSE [table |-> Without(d.table, {d.scopedNames[i] : i \in limit + 1 .. Len(d.scopedNames)}),
              scopedNames |-> SubSeq(d.scopedNames, 1, limit),
              limits |-> SubSeq(d.limits, 1, Len(d.limits) - k)]

-----------------------------------------------------------------------------
(* Assertions and partitions.                                              *)

\* Mutant: the number is the count after the increment.
InsertedAfterCount(f) ==
    /\ parts' = [parts EXCEPT !.count = @ + 1,
                              !.index = With(@, f, parts.count + 1),
                              !.bits[f] = @ \union {parts.count + 1}]
    /\ frames' = [frames EXCEPT ![Len(frames)].formulas = Append(@, f)]
    /\ simplified' = IF simplified < Len(frames) - 1 THEN simplified ELSE Len(frames) - 1
    /\ UNCHANGED <<pending, ids, clauses>>

\* MainSolver::insertFormula(): the next partition number goes to the formula,
\* replacing one it may have, and the top frame has to be simplified again.
Inserted(f) ==
    /\ parts' = [parts EXCEPT !.count = @ + 1,
                              !.index = With(@, f, parts.count),
                              !.bits[f] = @ \union {parts.count}]
    /\ frames' = [frames EXCEPT ![Len(frames)].formulas = Append(@, f)]
    /\ simplified' = IF simplified < Len(frames) - 1 THEN simplified ELSE Len(frames) - 1
    /\ UNCHANGED <<pending, ids, clauses>>

\* (assert (! t :named n)) or (assert t).  The name is taken, and the term
\* entered in the vector, before MainSolver looks at the sort.
AssertTerm(t, n) ==
    /\ Len(assertions) < MaxAsserts
    /\ t \in Resolvable
    /\ n # NoName => n \notin DOMAIN nameToTerm
    /\ nameToTerm' = IF n = NoName THEN nameToTerm ELSE With(nameToTerm, n, Resolved(t))
    /\ assertions' = Append(assertions, Resolved(t))
    /\ IF Resolved(t) \in Formulas THEN Inserted(Resolved(t)) ELSE UNCHANGED solver
    /\ UNCHANGED <<defs, global>>

\* (push k)
Push(k) ==
    /\ Len(frames) + k <= MaxFrames /\ ids + k <= MaxFrameIds
    /\ defs' = PushedScopes(defs, k)
    /\ frames' = frames \o [j \in 1 .. k |-> [id |-> ids + j - 1, formulas |-> <<>>]]
    /\ ids' = ids + k
    /\ UNCHANGED <<global, nameToTerm, assertions, simplified, pending, parts, clauses>>

\* The partitions invalidated when frame j goes: looked up by formula.
InvalidatedBy(j) == {parts.index[f] : f \in ToSet(frames[j].formulas)}

\* Mutant: one scope per command.
PopOneScope(k) ==
    LET n == IF k < Len(frames) THEN k ELSE Len(frames) - 1
        gone == Len(frames) - n + 1 .. Len(frames)
        invalid == UNION {InvalidatedBy(j) : j \in gone}
    IN  /\ frames' = SubSeq(frames, 1, Len(frames) - n)
        /\ simplified' = IF simplified > Len(frames) - n THEN Len(frames) - n ELSE simplified
        /\ parts' = [parts EXCEPT !.bits = [f \in Formulas |-> @[f] \ invalid]]
        /\ defs' = PoppedScopes(defs, IF n > 1 THEN 1 ELSE n)
        /\ UNCHANGED <<global, nameToTerm, assertions, pending, ids, clauses>>

\* (pop k): stops with an error at the bottom frame, after popping the others.
Pop(k) ==
    LET n == IF k < Len(frames) THEN k ELSE Len(frames) - 1
        gone == Len(frames) - n + 1 .. Len(frames)
        invalid == UNION {InvalidatedBy(j) : j \in gone}
    IN  /\ frames' = SubSeq(frames, 1, Len(frames) - n)
        /\ simplified' = IF simplified > Len(frames) - n THEN Len(frames) - n ELSE simplified
        /\ parts' = [parts EXCEPT !.bits = [f \in Formulas |-> @[f] \ invalid]]
        /\ defs' = PoppedScopes(defs, n)
        /\ UNCHANGED <<global, nameToTerm, assertions, pending, ids, clauses>>

\* Cnfizer: a conjunct that was asserted in the bottom frame or in this frame
\* is passed over, else its clause gets the number of the formula.
Cnfized(C, id, f) ==
    LET known == {c.conjunct : c \in {d \in C : d.frame \in {0, id}}}
    IN  C \union {[conjunct |-> x, frame |-> id, part |-> parts.index[f]] :
                     x \in conjuncts[f] \ known}

\* PartitionManager::propagatePartitionMask(): the conjuncts of a formula get
\* every partition the formula is in.
Propagated(bits, f) ==
    [g \in Formulas |-> IF g \in conjuncts[f] THEN bits[g] \union bits[f] ELSE bits[g]]

\* (check-sat) and (simplify): the next frame that is not simplified yet.  The loop may
\* end after a frame, at a contradiction.  One between two formulas leaves the solver
\* unsatisfiable for good, the bottom frame being the only one whose clauses are not
\* guarded: that is MainSolver's part.
SimplifyFrame ==
    /\ simplified < Len(frames)
    /\ simplified' = simplified + 1
    /\ pending' = frames[simplified + 1].formulas
    /\ UNCHANGED <<defs, global, nameToTerm, assertions, frames, ids, parts, clauses>>

\* The next formula of that frame goes to the solver.
GiveToSolver ==
    /\ pending # <<>>
    /\ parts' = [parts EXCEPT !.bits = Propagated(@, Head(pending))]
    /\ clauses' = Cnfized(clauses, frames[simplified].id, Head(pending))
    /\ pending' = Tail(pending)
    /\ UNCHANGED <<defs, global, nameToTerm, assertions, frames, simplified, ids>>

\* A command, when no other is under way.
Command ==
    \/ \E b \in BOOLEAN : SetGlobalDeclarations(b)
    \/ \E n \in FunNames, t \in Resolvable : DefineFun(n, t)
    \/ \E t \in Resolvable, n \in Names \union {NoName} : AssertTerm(t, n)
    \/ \E k \in 0 .. MaxNumeral : Push(k) \/ Pop(k)
    \/ SimplifyFrame

Next == GiveToSolver \/ (pending = <<>> /\ Command)

Spec == Init /\ [][Next]_vars

-----------------------------------------------------------------------------
(* Interpolation.                                                          *)

\* Interpret::get_assertion_index(): the first place of the term, from 0.
AssertionIndex(t) ==
    (CHOOSE k \in 1 .. Len(assertions) : /\ assertions[k] = t
                                         /\ \A j \in 1 .. k - 1 : assertions[j] # t) - 1

\* Interpret::getInterpolants(): the mask of a group of asserted terms.
Mask(A) == {AssertionIndex(t) : t \in A}

Live == UNION {ToSet(frames[j].formulas) : j \in DOMAIN frames}
LiveClauses == {c \in clauses : \E j \in DOMAIN frames : frames[j].id = c.frame}

-----------------------------------------------------------------------------
(* Properties.                                                             *)

TypeOK ==
    /\ DOMAIN defs.table \subseteq FunNames
    /\ \A n \in DOMAIN defs.table : defs.table[n] \in Terms
    /\ defs.scopedNames \in Seq(FunNames)
    /\ defs.limits \in Seq(Nat)
    /\ global \in BOOLEAN
    /\ DOMAIN nameToTerm \subseteq Names
    /\ assertions \in Seq(Terms)
    /\ frames \in Seq([id : Nat, formulas : Seq(Formulas)])
    /\ simplified \in 0 .. Len(frames) /\ pending \in Seq(Formulas)
    /\ ids \in Nat
    /\ parts.count \in Nat /\ DOMAIN parts.index \subseteq Formulas
    /\ parts.bits \in [Formulas -> SUBSET Nat]
    /\ clauses \subseteq [conjunct : Formulas, frame : Nat, part : Nat]

\* However the asserted formulas are divided into A and the rest, the mask
\* getInterpolants() builds from Interpret's own numbering puts each clause of
\* the solver on a side one of whose formulas contains it.
MasksRight ==
    \A A \in SUBSET Live : LET mask == Mask(A) IN
        \A c \in LiveClauses :
            \E f \in IF c.part \in mask THEN A ELSE Live \ A : c.conjunct \in conjuncts[f]

\* A formula of the solver is known to occur in the partition of its clause, so
\* that no literal of an A-clause is taken for local to B, after any pops that
\* invalidated partitions.
AtomsKnowTheirPartitions == \A c \in LiveClauses : c.part \in parts.bits[c.conjunct]

\* Once given to the solver, each conjunct of an asserted formula is a clause that holds
\* in its frame, though it may have been given for another formula or frame.
Given(j) == ToSet(frames[j].formulas) \ (IF j = simplified THEN ToSet(pending) ELSE {})
NothingLost ==
    \A j \in 1 .. simplified : \A f \in Given(j) : \A x \in conjuncts[f] :
        \E c \in clauses : c.conjunct = x /\ c.frame \in {0, frames[j].id}

\* No term was asserted twice and none that is no formula; Interpret numbers both
\* otherwise than MainSolver does.
Regular ==
    /\ \A j, k \in 1 .. Len(assertions) : assertions[j] = assertions[k] => j = k
    /\ \A k \in 1 .. Len(assertions) : assertions[k] \in Formulas

\* The numbering of partitions that Interpret, MainSolver, PartitionManager and Cnfizer
\* keep each for itself agrees, so masks divide the clauses as the user asked, atoms know
\* their partitions and no conjunct is lost, after any pushes, pops and checks.
PartitionsRight ==
    TypeOK /\ NothingLost /\ (Regular => MasksRight /\ AtomsKnowTheirPartitions)

\* The scopes of DefinedFunctions, read off its vector of names and limits: scope j
\* holds the names between limits j - 1 and j.
Below(j) == IF j = 1 THEN 0 ELSE defs.limits[j - 1]
Above(j) == IF j = Len(frames) THEN Len(defs.scopedNames) ELSE defs.limits[j]
Scopes == [j \in 1 .. Len(frames) |-> {defs.scopedNames[k] : k \in Below(j) + 1 .. Above(j)}]
Abstract == INSTANCE DefinitionScopes WITH
    Names <- FunNames, Numerals <- 0 .. MaxNumeral,
    scopes <- Scopes, globals <- DOMAIN defs.table \ ToSet(defs.scopedNames)

\* The definitions in force follow the assertion stack: each goes with the
\* frame it was made in, and no other, whatever pops failed half way.
ScopesFollowFrames == Abstract!Spec
=============================================================================
