---------------------------- MODULE UFLATHandler ----------------------------
(***************************************************************************)
(* The combination of uninterpreted functions and linear arithmetic        *)
(* (UFLATheory and UFLATHandler): a frame is simplified with the formulas  *)
(* below it, purified, its interface variables are handed to the handler,  *)
(* and at every complete check the two solvers exchange equalities between *)
(* interface variables as clauses, until both agree.                       *)
(*                                                                         *)
(* Terms are numbers: variables and numeric constants, App(t) = f(t) for   *)
(* one function f, and Pure(t), the variable purify() puts for f(t).       *)
(* Atoms are <<"leq", s, t>> and <<"eq", s, t>> with s < t, literals       *)
(* <<sign, atom>>, clauses sets of literals.                               *)
(***************************************************************************)
EXTENDS Integers, Sequences, FiniteSets, FiniteSetsExt, SequencesExt

CONSTANTS
  NumVar,      \* the variables of the input
  NumConst,    \* the numeric constants, with their values
  Formula,     \* the formulas the user may assert: sets of clauses
  MaxFrames,   \* bound on the stack
  Pops,        \* whether the user pops
  Reals,       \* the standard parts LASolver may give a variable
  Deltas,      \* the coefficients of delta it may give
  Satisfiable  \* the reference: the sets of formulas that have a model

Constant == DOMAIN NumConst
Base   == NumVar \cup Constant
App(t) == 100 + t
Pure(t) == 200 + t
isUF(t) == t > 100 /\ t < 200
arg(t) == t - 100

AtomTerms(a) == {a[2], a[3]}
Atoms(C) == {l[2] : l \in UNION C}

VARIABLES
  frames,            \* MainSolver::frames, the formulas of each
  simplifiedUntil,   \* the number of frames already simplified
  roots,             \* PushFrame::root of each frame, as clauses
  interfaceVars,     \* UFLATHandler::interfaceVars
  knownEqualities,   \* UFLATHandler::knownEqualities between base terms
  toPropagate,       \* UFLATHandler::equalitiesToPropagate
  phase,             \* "idle", "simplifying" or "searching"
  answer,            \* the last answer of check-sat
  model              \* the classes of Egraph and the values of LASolver at sat

vars == <<frames, simplifiedUntil, roots, interfaceVars, knownEqualities,
          toPropagate, phase, answer, model>>
noModel == [classes |-> {}, value |-> <<>>]

-----------------------------------------------------------------------------
\* Logic::mkEq, ArithLogic::mkLeq and the constant atoms they fold to.
mkEq(s, t) == IF s < t THEN <<"eq", s, t>> ELSE <<"eq", t, s>>
isTrue(a)  == a[2] = a[3] \/ (a[1] = "leq" /\ AtomTerms(a) \subseteq Constant /\ NumConst[a[2]] <= NumConst[a[3]])
isFalse(a) == /\ AtomTerms(a) \subseteq Constant /\ a[2] # a[3]
              /\ a[1] = "leq" => NumConst[a[2]] > NumConst[a[3]]
litTrue(l)  == IF l[1] THEN isTrue(l[2]) ELSE isFalse(l[2])
litFalse(l) == IF l[1] THEN isFalse(l[2]) ELSE isTrue(l[2])
Folded(C) == {{l \in c : ~litFalse(l)} : c \in {d \in C : \A l \in d : ~litTrue(l)}}

\* The equalities between base terms that are facts of a set of clauses, and
\* the term a base term is replaced by: the constant of its class, or its
\* greatest variable.
Facts(C) == {l[2] : l \in {k \in UNION {c \in C : Cardinality(c) = 1} :
                             k[1] /\ k[2][1] = "eq" /\ ~isUF(k[2][2]) /\ ~isUF(k[2][3])}}

\* The classes of the nodes N under the pairs E, closed under congruence of the
\* applications among them.
Linked(B, D, E) == \E s \in B, t \in D : mkEq(s, t) \in E
Congruent(B, D, P) == \E s \in B, t \in D : /\ isUF(s) /\ isUF(t)
                                            /\ \E Q \in P : {arg(s), arg(t)} \subseteq Q
Classes(N, E) ==
  LET close[k \in Nat] ==
        IF k = 0 THEN {{n} : n \in N}
        ELSE LET P == close[k - 1] IN
             {UNION {D \in P : D = B \/ Linked(B, D, E) \/ Congruent(B, D, P)} : B \in P}
  IN  close[Cardinality(N)]

Target(t, E) ==
  LET B == CHOOSE D \in Classes(Base, E) : t \in D IN
  IF B \cap Constant # {} THEN CHOOSE c \in B \cap Constant : TRUE ELSE Max(B)

Replaced(t, E) == IF isUF(t) THEN App(Target(arg(t), E)) ELSE Target(t, E)
ReplacedAtom(a, E) == IF a[1] = "eq" THEN mkEq(Replaced(a[2], E), Replaced(a[3], E))
                      ELSE <<"leq", Replaced(a[2], E), Replaced(a[3], E)>>

\* One round of the loop of Theory::computeSubstitutions, with the equalities
\* of the substitution kept (flaFromSubstitutionResult).
Substituted(C) ==
  LET E == Facts(C) IN
  Folded({{<<l[1], ReplacedAtom(l[2], E)>> : l \in c} : c \in C})
  \cup {{<<TRUE, mkEq(x, Target(x, E))>>} : x \in {y \in NumVar : Target(y, E) # y}}
  \cup (IF \E D \in Classes(Base, E) : Cardinality(D \cap Constant) > 1 THEN {{}} ELSE {})

\* Theory::applySubstitutionBasedSimplificationIfEnabled: to the fixed point.
applySubstitution(C) ==
  LET round[k \in Nat] == IF k = 0 THEN C ELSE LET D == round[k - 1] IN Substituted(D)
  IN  round[Cardinality(NumVar) + 1]

\* UFLATheory::purify: a function application under <= becomes a variable that
\* is equal to it.
purify(C) ==
  LET p(t) == IF isUF(t) THEN Pure(arg(t)) ELSE t
      named == {t \in UNION {AtomTerms(a) : a \in {b \in Atoms(C) : b[1] = "leq"}} : isUF(t)}
  IN  {{IF l[2][1] = "leq" THEN <<l[1], <<"leq", p(l[2][2]), p(l[2][3])>>>> ELSE l : l \in c} : c \in C}
      \cup {{<<TRUE, mkEq(t, Pure(arg(t)))>>} : t \in named}

\* UFLATheory::splitArithmeticEqualities: a pure equality becomes two
\* inequalities, clause by clause.
isPureArithmeticEquality(a) == a[1] = "eq" /\ ~isUF(a[2]) /\ ~isUF(a[3])
Geq(a) == <<"leq", a[3], a[2]>>
Leq(a) == <<"leq", a[2], a[3]>>

splitArithmeticEqualities(C) ==
  LET negative(c) == UNION {IF ~l[1] /\ isPureArithmeticEquality(l[2])
                            THEN {<<FALSE, Leq(l[2])>>, <<FALSE, Geq(l[2])>>} ELSE {l} : l \in c}
      positive(c) == {l[2] : l \in {k \in c : k[1] /\ isPureArithmeticEquality(k[2])}}
      rest(c)     == {l \in negative(c) : ~isPureArithmeticEquality(l[2])}
  IN  Folded(UNION {{rest(c) \cup {<<TRUE, IF side[a] THEN Leq(a) ELSE Geq(a)>> : a \in positive(c)} :
                       side \in [positive(c) -> BOOLEAN]} : c \in C})

\* UFLATheory::getInterfaceVars: the variables under <= and under f or =, and
\* the constants under f or =.
getInterfaceVars(C) ==
  LET arith == UNION {AtomTerms(a) : a \in {b \in Atoms(C) : b[1] = "leq"}}
      unint == UNION {{IF isUF(t) THEN arg(t) ELSE t : t \in AtomTerms(a)} : a \in {b \in Atoms(C) : b[1] = "eq"}}
  IN  {t \in unint : t \in arith \/ t \in Constant}

Collated(k) == UNION UNION {frames[i] : i \in 1 .. k}
Root(k) == splitArithmeticEqualities(purify(applySubstitution(Folded(Collated(k)))))

-----------------------------------------------------------------------------
\* The incremental interface, as MainSolver drives it.

Init ==
  /\ frames = <<{}>> /\ roots = <<>> /\ simplifiedUntil = 0
  /\ interfaceVars = {} /\ knownEqualities = {} /\ toPropagate = {}
  /\ phase = "idle" /\ answer = "none" /\ model = noModel

InsertFormula(F) ==
  /\ phase = "idle" /\ F \notin frames[Len(frames)]
  /\ frames' = [frames EXCEPT ![Len(frames)] = @ \cup {F}]
  /\ simplifiedUntil' = Min({simplifiedUntil, Len(frames) - 1})
  /\ roots' = SubSeq(roots, 1, simplifiedUntil')
  /\ answer' = "none" /\ model' = noModel
  /\ UNCHANGED <<interfaceVars, knownEqualities, toPropagate, phase>>

Push ==
  /\ phase = "idle" /\ Len(frames) < MaxFrames
  /\ frames' = Append(frames, {})
  /\ answer' = "none" /\ model' = noModel
  /\ UNCHANGED <<simplifiedUntil, roots, interfaceVars, knownEqualities, toPropagate, phase>>

Pop ==
  /\ phase = "idle" /\ Pops /\ Len(frames) > 1
  /\ frames' = Front(frames)
  /\ simplifiedUntil' = Min({simplifiedUntil, Len(frames) - 1})
  /\ roots' = SubSeq(roots, 1, simplifiedUntil')
  /\ answer' = "none" /\ model' = noModel
  /\ UNCHANGED <<interfaceVars, knownEqualities, toPropagate, phase>>

FrameUnsat == \E i \in 1 .. Len(roots) : {} \in roots[i]

\* MainSolver::check: a frame known to be unsatisfiable answers at once.
CheckSat ==
  /\ phase = "idle" /\ model' = noModel
  /\ IF FrameUnsat THEN answer' = "unsat" /\ UNCHANGED phase
     ELSE phase' = "simplifying" /\ answer' = "none"
  /\ UNCHANGED <<frames, simplifiedUntil, roots, interfaceVars, knownEqualities, toPropagate>>

\* One round of MainSolver::simplifyFormulas: UFLATheory::simplify of the next
\* frame replaces the interface variables.
Simplify ==
  /\ phase = "simplifying" /\ simplifiedUntil < Len(frames)
  /\ LET k == simplifiedUntil + 1
         R == Root(k) IN
     /\ simplifiedUntil' = k
     /\ roots' = Append(roots, R)
     /\ interfaceVars' = getInterfaceVars(R)
     /\ IF {} \in R THEN phase' = "idle" /\ answer' = "unsat" ELSE UNCHANGED <<phase, answer>>
  /\ UNCHANGED <<frames, knownEqualities, toPropagate, model>>

StartSearch ==
  /\ phase = "simplifying" /\ simplifiedUntil = Len(frames)
  /\ phase' = "searching"
  /\ UNCHANGED <<frames, simplifiedUntil, roots, interfaceVars, knownEqualities, toPropagate,
                 answer, model>>

-----------------------------------------------------------------------------
\* The clauses that tie a shared equality to its inequalities (getSplitClauses).
trichotomy(a) == {{<<TRUE, a>>, <<FALSE, Leq(a)>>, <<FALSE, Geq(a)>>},
                  {<<FALSE, a>>, <<TRUE, Leq(a)>>}, {<<FALSE, a>>, <<TRUE, Geq(a)>>}}

SplitClauses == Folded(UNION {trichotomy(a) : a \in knownEqualities})

Clauses == UNION Range(roots) \cup SplitClauses
Holds(C, A) == \A c \in C : \E l \in c : l[1] = (l[2] \in A)

\* LASolver: the values with delta it may have, and the inequalities they satisfy.
numTerms == Base \cup {Pure(t) : t \in Base}
leqs(C) == {a \in Atoms(C) : a[1] = "leq"}
eqs(C)  == {a \in Atoms(C) : a[1] = "eq"}
Valuations == [(UNION {AtomTerms(a) : a \in leqs(Clauses)}) \ Constant -> Reals \X Deltas]
Less(u, v) == u[1] < v[1] \/ (u[1] = v[1] /\ u[2] < v[2])
valueOf(v, t) == IF t \in Constant THEN <<NumConst[t], 0>> ELSE v[t]
Inequalities(I, v) == {a \in I : ~Less(valueOf(v, a[3]), valueOf(v, a[2]))}

\* Egraph: the classes under the equalities of an assignment, if consistent.
UFTerms(E) == UNION {UNION {{t} \cup (IF isUF(t) THEN {arg(t)} ELSE {}) : t \in AtomTerms(a)} : a \in E}
UFConsistent(E, A, P) ==
  \A B \in P : /\ Cardinality(B \cap Constant) <= 1
               /\ \A a \in E \ A : ~(AtomTerms(a) \subseteq B)

\* Egraph::collectEqualitiesFor: the interface variables it has merged.
ufEqualities(P) ==
  {mkEq(p[1], p[2]) : p \in {q \in interfaceVars \X interfaceVars :
                               q[1] < q[2] /\ \E B \in P : {q[1], q[2]} \subseteq B}} \ knownEqualities

\* The interface variables LASolver has values for.
LAShared(v) == interfaceVars \cap (Constant \cup DOMAIN v)

\* Mutant of laEqualities: equalities already known are collected again.
laEqualitiesKnown(v) ==
  {mkEq(p[1], p[2]) : p \in {q \in LAShared(v) \X LAShared(v) :
                               q[1] < q[2] /\ valueOf(v, q[1]) = valueOf(v, q[2])}}

\* LASolver::collectEqualitiesFor, first part: those that have the same value.
laEqualities(v) ==
  {mkEq(p[1], p[2]) : p \in {q \in LAShared(v) \X LAShared(v) :
                               q[1] < q[2] /\ valueOf(v, q[1]) = valueOf(v, q[2])}} \ knownEqualities

\* Mutant of deltaEqualities: the second part is missing.
deltaEqualitiesNone(v) == {}

\* Second part: pairs whose values, one of them with delta, would be equal for
\* some 0 < delta <= 1; one of them is shared.
deltaEqualities(v) ==
  LET meets(u, w) == LET r == w[1] - u[1]
                         d == w[2] - u[2]
                     IN  u[2] # 0 /\ d # 0 /\ (IF d > 0 THEN r < 0 /\ -r <= d ELSE r > 0 /\ r <= -d)
  IN  {mkEq(p[1], p[2]) : p \in {q \in LAShared(v) \X LAShared(v) :
                                   q[1] # q[2] /\ meets(valueOf(v, q[1]), valueOf(v, q[2]))}} \ knownEqualities

\* What UFLATHandler::check may collect for an assignment.
equalitiesToPropagate(P, v) ==
  IF ufEqualities(P) # {} THEN {ufEqualities(P)}
  ELSE IF laEqualities(v) # {} THEN {laEqualities(v)}
  ELSE IF deltaEqualities(v) # {} THEN {{a} : a \in deltaEqualities(v)}
  ELSE {{}}

\* What the SAT solver and both theory solvers accept: values of LASolver and
\* an assignment of the declared atoms with its classes in Egraph.
Accepted ==
  LET C == Clauses
      I == leqs(C)
      E == eqs(C)
      onEqs == {c \in C : Atoms({c}) \subseteq E}
      merged == {[lits |-> A, classes |-> Classes(UFTerms(E), A)] : A \in {B \in SUBSET E : Holds(onEqs, B)}}
      consistent == {m \in merged : UFConsistent(E, m.lits, m.classes)}
  IN  {c \in {[value |-> v, classes |-> m.classes, lits |-> m.lits \cup Inequalities(I, v)] :
                v \in Valuations, m \in consistent} : Holds(C \ onEqs, c.lits)}

\* UFLATHandler::check of a complete assignment that both solvers accept: what
\* is still to be shared is collected; if there is nothing, the answer is sat.
FullCheck ==
  /\ phase = "searching" /\ toPropagate = {}
  /\ \E c \in Accepted : \E E \in equalitiesToPropagate(c.classes, c.value) :
       /\ toPropagate' = E
       /\ IF E # {} THEN UNCHANGED <<phase, answer, model>>
          ELSE /\ phase' = "idle" /\ answer' = "sat"
               /\ model' = [classes |-> c.classes, value |-> c.value]
  /\ UNCHANGED <<frames, simplifiedUntil, roots, interfaceVars, knownEqualities>>

\* UFLATHandler::getSplitClauses, and the declaration of the new atoms.
GetSplitClauses ==
  /\ phase = "searching" /\ toPropagate # {}
  /\ knownEqualities' = knownEqualities \cup toPropagate /\ toPropagate' = {}
  /\ UNCHANGED <<frames, simplifiedUntil, roots, interfaceVars, phase, answer, model>>

\* The search has excluded every assignment.
Refuted ==
  /\ phase = "searching" /\ toPropagate = {}
  /\ Accepted = {}
  /\ phase' = "idle" /\ answer' = "unsat"
  /\ UNCHANGED <<frames, simplifiedUntil, roots, interfaceVars, knownEqualities, toPropagate,
                 model>>

Search == Simplify \/ StartSearch \/ FullCheck \/ GetSplitClauses \/ Refuted

Next ==
  \/ \E F \in Formula : InsertFormula(F)
  \/ Push \/ Pop \/ CheckSat \/ Search

\* A check that has begun goes on: simplifyFormulas and search are loops.  This is
\* weak fairness of Search, which is enabled exactly when the phase is not idle.
Fairness == []<>(phase = "idle") \/ []<><<Search>>_vars

Spec == Init /\ [][Next]_vars /\ Fairness

-----------------------------------------------------------------------------
TypeOK ==
  /\ Len(frames) \in 1 .. MaxFrames /\ simplifiedUntil = Len(roots)
  /\ Len(roots) <= Len(frames)
  /\ interfaceVars \subseteq numTerms
  /\ \A a \in knownEqualities : isPureArithmeticEquality(a) /\ a[2] < a[3]

Stack == UNION Range(frames)

\* sat is answered only for satisfiable assertions: the two solvers have agreed
\* on enough equalities for one model.
SatIsRight == answer = "sat" => Stack \in Satisfiable

\* sat is right also after pops, as long as the handler holds at least the
\* interface variables of the frame that is now on top.
SatIsRightIfCurrent ==
  (answer = "sat" /\ getInterfaceVars(roots[Len(roots)]) \subseteq interfaceVars) => SatIsRight

\* unsat is answered only for unsatisfiable assertions: substitution,
\* purification and the exchanged clauses lose no model.
UnsatIsRight == answer = "unsat" => Stack \notin Satisfiable

\* Whatever delta in (0, 1] the model is computed with, among those that keep the
\* asserted inequalities, two interface variables get the same number exactly
\* if Egraph has them in one class.
ScaledDeltas == {12, 6, 4, 3}
Concrete(u, k) == 12 * u[1] + k * u[2]
ModelsAgree ==
  answer = "sat" =>
    LET v == model.value
        shared == LAShared(v) \cap UNION model.classes IN
    \A k \in ScaledDeltas :
      (\A s, t \in DOMAIN v \cup Constant :
         (Less(valueOf(v, s), valueOf(v, t)) /\ <<"leq", t, s>> \in Atoms(Clauses)) =>
            Concrete(valueOf(v, s), k) < Concrete(valueOf(v, t), k))
      => \A s, t \in shared :
           (Concrete(valueOf(v, s), k) = Concrete(valueOf(v, t), k))
             <=> \E B \in model.classes : {s, t} \subseteq B

\* Every check is answered: an exchange makes at least one equality known, and
\* there are finitely many between interface variables.
CheckAnswers == (phase # "idle") ~> (phase = "idle")

\* What check-sat answers, and with which model.
Answers == TypeOK /\ SatIsRightIfCurrent /\ UnsatIsRight /\ ModelsAgree
=============================================================================
