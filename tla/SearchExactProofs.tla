------------------------- MODULE SearchExactProofs -------------------------
(***************************************************************************)
(* Proofs about CoreSMTSolver: the answer sat comes with a model, the      *)
(* conflict frame names assumptions that are already too many, propagation *)
(* misses no clause and every reason stays in place, for every theory,     *)
(* every set of clauses and assumptions and all bounds.                    *)
(***************************************************************************)
EXTENDS CoreSMTSolverProofs

\* Frame variables occur in clauses as the positive literal, and are never implied
\* to be false.
Positive(c) == \A v \in FrameVar : -v \notin c
FrameInv ==
  /\ assumptions = <<>> \/ assumptions \in Assumption
  /\ \A c \in clauses \cup learnts : Positive(c)
  /\ pc \in {"conflict", "analyze"} => Positive(confl)
  /\ pc \in {"analyze", "learn"} => Positive(seen)
  /\ pc = "learn" => Positive({-p})
  /\ \A i \in 1 .. Len(trail) : \A v \in FrameVar :
       trail[i] = -v => level[v] > 0 /\ reason[v] = CRef_Undef

\* The reason of a literal is a clause of the solver that holds the literal first; so
\* is the one of a literal that waits to be enqueued.  A lemma that waits is not
\* attached yet and waits once.
ReasonInv ==
  /\ \A i \in 1 .. Len(trail) :
       reason[var(trail[i])] \notin {CRef_Undef, CRef_Fake} =>
         /\ reason[var(trail[i])] \in DOMAIN watched
         /\ watched[reason[var(trail[i])]][1] = trail[i]
  /\ \A k \in 1 .. Len(propData) :
       propData[k][2] \in clauses /\ watched[propData[k][2]][1] = propData[k][1]
  /\ \A k \in 1 .. Len(splits) : splits[k] \notin DOMAIN watched
  /\ \A j, k \in 1 .. Len(splits) : splits[j] = splits[k] => j = k

\* Variables that were ever decided or implied occur in the clauses or are frame
\* variables; an atom that is new to the search has level zero.
Base == IF Outside THEN Mentioned ELSE decision
DecisionInv ==
  /\ decision \subseteq Mentioned
  /\ \A c \in clauses : Vars(c) \subseteq Base
  /\ \A c \in learnts : Vars(c) \subseteq Base \cup FrameVar
  /\ \A i \in 1 .. Len(trail) : var(trail[i]) \in Base \cup FrameVar
  /\ \A v \in Var : level[v] # 0 => v \in Base \cup FrameVar
  /\ pc = "learn" => var(p) \in Base \cup FrameVar /\ level[var(p)] = decisionLevel

\* A literal of c was made true at level n or below.
TrueBy(c, n) == \E i \in 1 .. Len(trail) : trail[i] \in c /\ level[var(trail[i])] <= n

\* The assumptions whose levels have begun are true since then.
AssumedInv ==
  \A k \in 1 .. Len(assumptions) :
    k <= decisionLevel /\ (pc \in {"analyze", "learn"} => k < decisionLevel) =>
      TrueBy({assumptions[k]}, k)

\* A complete check is of an assignment of all variables, made under all assumptions,
\* and ends well only if the theory has a model.
CompleteInv ==
  after = "complete" =>
    /\ pc \in {"checkTheory", "deduce"} => decisionLevel >= Len(assumptions)
    /\ pc = "checkTheory" => Undecided = {}
    /\ pc = "deduce" => Extendable

\* Lemmas that imply a literal come in the order of the levels where they do.
OrderInv ==
  pc = "split" /\ decisionLevel > 0 =>
    IF propData = <<>>
    THEN /\ \A k \in 1 .. Len(splits) : Unknown(splits[k]) # {}
         /\ \A k \in 1 .. Len(splits) : \A l \in Unknown(splits[k]) : level[var(l)] = 0
         /\ SortedByLevel(splits)
    ELSE \A k \in 1 .. Len(splits) : Implies(splits[k]) => SplitLevel(splits[k]) >= decisionLevel

\* analyzeFinal: a model that agrees with the active assumptions found so far has a
\* marked literal.
Blamed == {k \in conflict : k > 0}
BlameInv ==
  pc = "final" =>
    /\ \A v \in FrameVar : -v \in seen => -v = assumed
    /\ \A m \in GivenModel : (\A k \in Blamed : -k \in m) => seen \cap m # {}
    /\ \A k \in Blamed : -k \in Range(assumptions)

\* The answers, and when the solver is ok.
ResultInv ==
  /\ pc # "idle" => ok
  /\ conflict_frame > 0 => ~ok /\ pc = "idle"
  /\ answer = "sat" => pc = "idle"
  /\ SatCorrect /\ ConflictFrameCorrect

\* How much of the trail has been propagated for good: in a conflict, what is below
\* the current level.
Bound ==
  IF pc \notin {"conflict", "analyze", "learn"} THEN qhead
  ELSE IF decisionLevel > 0 THEN trail_lim[decisionLevel] ELSE 0

\* The solver has not found the clauses themselves unsatisfiable.
Open == ok \/ conflict_frame > 0

\* A clause watches two literals.  When one of them was found false, and propagate has
\* visited the clause, another literal was made true no later; a lemma that was attached
\* with a false literal waits for the second to become false.
SingleWatch(c) ==
  \A k \in 1 .. 2, i \in 1 .. Bound :
    trail[i] = -watched[c][k] /\ ~(c \in visit /\ i = qhead) => TrueBy(c, level[var(trail[i])])
BothWatches(c) ==
  \A i, j \in 1 .. Bound :
    trail[i] = -watched[c][1] /\ trail[j] = -watched[c][2] =>
      TrueBy(c, level[var(trail[i])]) \/ TrueBy(c, level[var(trail[j])])
WatchOK(c) ==
  /\ watched[c][1] # watched[c][2]
  /\ Open /\ c \notin SplitClause => SingleWatch(c)
  /\ Open /\ c \notin visit => BothWatches(c)
WatchInv == \A c \in DOMAIN watched : WatchOK(c)

\* Nothing given is forgotten: a clause is a tautology, true at level zero, or contains
\* a clause the solver keeps.
GivenInv ==
  Open => \A c \in given :
            \/ \E l \in c : -l \in c
            \/ TrueBy(c, 0)
            \/ \E d \in clauses : d \subseteq c

\* The inductive invariant, together with SearchInv.
ExactInv ==
  /\ FrameInv /\ ReasonInv /\ DecisionInv /\ AssumedInv /\ CompleteInv /\ OrderInv
  /\ BlameInv /\ ResultInv /\ WatchInv /\ GivenInv

-----------------------------------------------------------------------------
\* The steps, by what they do to the trail and the clauses: nothing, ...
Quiet ==
  \/ PropagateNext \/ PropagateDone \/ SearchLoop \/ AddConflict \/ AnalyzeBegin
  \/ EarlyPruning \/ TheoryAssert \/ TheorySat
  \/ DeduceDone \/ (\E S \in SplitSets : TheorySplit(S)) \/ SplitDone \/ AssumeTrue
  \/ CompleteCall \/ FinalBegin \/ FinalStep \/ RestoreOK
  \/ (\E as \in Assumption : Solve(as)) \/ UNCHANGED vars

\* ... going back to level zero, ...
Ends ==
  \/ Restart \/ SearchStopped \/ ZeroLevelConflict
  \/ (\E t \in TheoryConflict : TheoryUnsatZero(t)) \/ SearchSat \/ FinalDone

\* ... or something of their own.
LEMMA StepCases ==
  ASSUME [Next]_vars
  PROVE  \/ Quiet \/ Ends
         \/ (\E c \in visit : PropagateVisit(c)) \/ AnalyzeStep \/ Learn \/ Simplify \/ ReduceDB
         \/ (\E t \in TheoryConflict : TheoryUnsat(t)) \/ DeduceNext
         \/ SplitUnit \/ SplitAttach \/ SplitEnqueue
         \/ (\E l \in Lit : Decide(l)) \/ (\E c \in InputClause : AddOriginalClause(c))
BY DEF Next, SearchStep, Quiet, Ends

\* What quiet steps leave alone.
LEMMA QuietFacts ==
  ASSUME Quiet
  PROVE  /\ UNCHANGED <<given, clauses, learnts, watched, trail, level, reason>>
         /\ confl' = confl
         /\ (\E as \in Assumption : Solve(as)) \/ UNCHANGED <<decision, assumptions>>
         /\ AssumeTrue \/ trail_lim' = trail_lim
         /\ (\E S \in SplitSets : TheorySplit(S)) \/ UNCHANGED <<splits, propData>>
         /\ pc' = "conflict" => pc = "conflict"
         /\ pc' = "learn" => pc = "learn" /\ UNCHANGED <<p, seen, trail_lim, decision, after>>
         /\ pc' = "analyze" => \/ AnalyzeBegin
                               \/ pc = "analyze" /\ UNCHANGED <<p, seen>>
<1> USE DEF clauseVars, trailVars, theoryVars, resultVars, splitVars, analyzeVars, callVars
<1>1. CASE PropagateNext \/ PropagateDone \/ SearchLoop \/ AddConflict \/ AnalyzeBegin \/ EarlyPruning
  BY <1>1 DEF PropagateNext, PropagateDone, SearchLoop, AddConflict, AnalyzeBegin, EarlyPruning
<1>2. CASE TheoryAssert \/ TheorySat \/ DeduceDone \/ SplitDone
  BY <1>2 DEF TheoryAssert, TheorySat, DeduceDone, SplitDone
<1>3. CASE AssumeTrue \/ CompleteCall \/ FinalBegin \/ FinalStep \/ RestoreOK
  BY <1>3 DEF AssumeTrue, CompleteCall, FinalBegin, FinalStep, RestoreOK
<1>4. CASE \E S \in SplitSets : TheorySplit(S)
  BY <1>4 DEF TheorySplit
<1>5. CASE \E as \in Assumption : Solve(as)
  BY <1>5 DEF Solve
<1>6. CASE UNCHANGED vars
  BY <1>6 DEF vars
<1> QED
  BY <1>1, <1>2, <1>3, <1>4, <1>5, <1>6 DEF Quiet

\* Level lev ends at EndOf(lev); what is left of the trail when the search goes back there.
LEMMA EndFacts ==
  ASSUME SearchInv, NEW lev \in 0 .. decisionLevel, NEW n, n = EndOf(lev)
  PROVE  /\ n \in 0 .. Len(trail) /\ (lev = decisionLevel => n = Len(trail))
         /\ (lev < decisionLevel => n = trail_lim[lev + 1])
         /\ \A i \in 1 .. Len(trail) : i <= n <=> level[var(trail[i])] <= lev
         /\ SubSeq(trail, 1, n) \in Seq(Lit) /\ Len(SubSeq(trail, 1, n)) = n
         /\ \A i \in 1 .. n : SubSeq(trail, 1, n)[i] = trail[i]
<1>0. PICK h \in Nat : h = decisionLevel
  BY TrailLevels
<1>1. trail \in Seq(Lit) /\ Len(trail) \in Nat /\ lev \in 0 .. h
      /\ \A i \in 1 .. Len(trail) : trail[i] \in Lit /\ level[var(trail[i])] \in 0 .. h
      /\ \A k \in 1 .. h : trail_lim[k] \in 0 .. Len(trail)
  BY <1>0, TrailLevels
<1>2. \A i \in 1 .. Len(trail) : \A k \in 1 .. h : k <= level[var(trail[i])] <=> trail_lim[k] < i
  BY <1>0 DEF SearchInv, TrailInv, TrailHolds, TrailFits, Levels, decisionLevel
<1>3. /\ n \in 0 .. Len(trail) /\ (lev = h => n = Len(trail)) /\ (lev < h => n = trail_lim[lev + 1])
      /\ \A i \in 1 .. Len(trail) : i <= n <=> level[var(trail[i])] <= lev
  <2>1. CASE lev < h
    <3>1. lev + 1 \in 1 .. h /\ n = trail_lim[lev + 1]
      BY <1>0, <1>1, <2>1 DEF EndOf
    <3>2. n \in 0 .. Len(trail)
      <4>1. PICK k \in 1 .. h : k = lev + 1
        BY <3>1
      <4>2. trail_lim[k] \in 0 .. Len(trail)
        BY <1>0, TrailLevels
      <4> QED BY <3>1, <4>1, <4>2
    <3>3. ASSUME NEW i \in 1 .. Len(trail) PROVE i <= n <=> level[var(trail[i])] <= lev
      <4>1. lev + 1 <= level[var(trail[i])] <=> n < i
        BY <1>2, <3>1
      <4>2. level[var(trail[i])] \in 0 .. h
        BY <1>1
      <4> QED BY <1>1, <3>2, <4>1, <4>2
    <3> QED BY <2>1, <3>1, <3>2, <3>3
  <2>2. CASE lev = h
    <3>1. n = Len(trail)
      BY <1>0, <2>2 DEF EndOf
    <3> QED BY <1>1, <2>2, <3>1
  <2> QED BY <1>1, <2>1, <2>2
<1>4. /\ SubSeq(trail, 1, n) \in Seq(Lit) /\ Len(SubSeq(trail, 1, n)) = n
      /\ \A i \in 1 .. n : SubSeq(trail, 1, n)[i] = trail[i]
  BY <1>1, <1>3, Prefix
<1> QED
  BY <1>0, <1>3, <1>4

\* The first n literals of the trail stay, with their levels; all literals of the levels
\* up to b are among them.
Keeps(n, b) ==
  /\ n \in 0 .. Len(trail) /\ n <= Len(trail')
  /\ \A i \in 1 .. n : trail'[i] = trail[i] /\ level'[var(trail[i])] = level[var(trail[i])]
  /\ \A i \in 1 .. Len(trail) : level[var(trail[i])] <= b => i <= n

\* The reasons of the first n literals of the trail stay.
KeepsReasons(n) == \A i \in 1 .. n : reason'[var(trail[i])] = reason[var(trail[i])]

\* What uncheckedEnqueue of l does to the first n literals of the trail.
LEMMA Enqueued ==
  ASSUME SearchInv, SearchInv', NEW n \in 0 .. Len(trail), NEW t \in Seq(Lit), Len(t) = n,
         \A i \in 1 .. n : t[i] = trail[i], NEW l, NEW from, NEW lev, EnqueueOn(t, l, from, lev)
  PROVE  /\ Len(trail') = n + 1 /\ trail'[n + 1] = l /\ l \in Lit
         /\ \A i \in 1 .. n : trail'[i] = trail[i] /\ var(trail[i]) # var(l)
         /\ \A i \in 1 .. n : level'[var(trail[i])] = level[var(trail[i])]
         /\ KeepsReasons(n)
         /\ level'[var(l)] = lev /\ reason'[var(l)] = from
         /\ \A v \in Var : v # var(l) => level'[v] = level[v] /\ reason'[v] = reason[v]
<1>1. /\ trail' = Append(t, l) /\ level' = [level EXCEPT ![var(l)] = lev]
      /\ reason' = [reason EXCEPT ![var(l)] = from]
  BY DEF EnqueueOn
<1>2. trail \in Seq(Lit) /\ level \in [Var -> Nat] /\ DOMAIN reason = Var
  BY DEF SearchInv, TrailInv, TrailHolds, TrailFits, Levels, Justified
<1>3. trail' \in Seq(Lit) /\ Distinct(trail')
  BY DEF SearchInv, TrailInv, TrailHolds, TrailFits
<1>4. Len(trail') = n + 1 /\ trail'[n + 1] = l /\ \A i \in 1 .. n : trail'[i] = t[i]
  BY <1>1
<1>5. n + 1 \in 1 .. Len(trail')
  BY <1>2, <1>4
<1>6. l \in Lit
  BY <1>3, <1>4, <1>5
<1>7. ASSUME NEW i \in 1 .. n PROVE trail'[i] = trail[i] /\ var(trail[i]) # var(l) /\ var(trail[i]) \in Var
  <2>1. trail'[i] = trail[i]
    BY <1>4
  <2>2. i \in 1 .. Len(trail') /\ i # n + 1 /\ i \in 1 .. Len(trail)
    BY <1>2, <1>4
  <2>3. var(trail'[i]) # var(trail'[n + 1])
    BY <1>3, <1>5, <2>2 DEF Distinct
  <2>4. trail[i] \in Lit
    BY <1>2, <2>2
  <2> QED BY <1>4, <2>1, <2>3, <2>4, LitFacts
<1>8. var(l) \in Var
  BY <1>6, LitFacts
<1>9. \A v \in Var : v # var(l) => level'[v] = level[v] /\ reason'[v] = reason[v]
  BY <1>1, <1>2
<1>10. level'[var(l)] = lev /\ reason'[var(l)] = from
  BY <1>1, <1>2, <1>8
<1> QED
  BY <1>4, <1>6, <1>7, <1>9, <1>10 DEF KeepsReasons

\* Going back to level zero.
EndsAt(n) ==
  /\ Keeps(n, 0) /\ Len(trail') = n /\ trail_lim' = <<>> /\ visit' = {}
  /\ qhead' = (IF decisionLevel > 0 THEN n ELSE qhead)
  /\ UNCHANGED <<given, clauses, learnts, watched, level, reason>>
  /\ UNCHANGED <<decision, assumptions, splits, propData>>
  /\ pc' = "idle" \/ (pc' = "checkTheory" /\ after' = "start" /\ pc = "consistent")
  /\ ~Outside

\* Restarts, answers and level zero conflicts go back to level zero: they are of this form.
LEMMA EndsFacts ==
  ASSUME SearchInv, Ends
  PROVE  \E n : EndsAt(n)
<1>0. PICK h \in Nat : h = decisionLevel
  BY TrailLevels
<1>1. PICK n : n = EndOf(0)
  OBVIOUS
<1>2. 0 \in 0 .. decisionLevel
  BY <1>0
<1>3. /\ n \in 0 .. Len(trail) /\ (0 < decisionLevel => n = trail_lim[1])
      /\ \A i \in 1 .. Len(trail) : level[var(trail[i])] <= 0 => i <= n
      /\ SubSeq(trail, 1, n) \in Seq(Lit) /\ Len(SubSeq(trail, 1, n)) = n
      /\ \A i \in 1 .. n : SubSeq(trail, 1, n)[i] = trail[i]
  BY <1>1, <1>2, EndFacts
<1>4. /\ trail' = SubSeq(trail, 1, EndOf(0)) /\ level' = level /\ reason' = reason
      /\ UNCHANGED <<given, clauses, learnts, watched, decision, assumptions, splits, propData>>
      /\ qhead' = IF decisionLevel > 0 THEN trail_lim[1] ELSE qhead
      /\ visit' = {} \/ (visit' = visit /\ pc = "consistent")
  BY DEF Ends, Restart, SearchStopped, ZeroLevelConflict, TheoryUnsatZero, SearchSat, FinalDone, Return,
         CancelUntil, clauseVars, splitVars, callVars
<1>5. pc' = "idle" \/ (pc' = "checkTheory" /\ after' = "start" /\ pc = "consistent")
  BY DEF Ends, Restart, SearchStopped, ZeroLevelConflict, TheoryUnsatZero, SearchSat, FinalDone, Return
<1>6. visit' = {}
  BY <1>4 DEF SearchInv, PhaseInv
<1>7. ~Outside
  BY DEF Ends, Restart, SearchStopped, ZeroLevelConflict, TheoryUnsatZero, SearchSat, FinalDone,
         Outside, SearchInv, PhaseInv
<1>8. trail_lim' = <<>>
  <2>1. CASE Restart
    <3>1. trail_lim' = SubSeq(trail_lim, 1, IF 0 < decisionLevel THEN 0 ELSE decisionLevel)
      BY <2>1 DEF Restart, CancelUntil
    <3>2. trail_lim' = SubSeq(trail_lim, 1, 0)
      BY <1>0, <3>1
    <3>3. trail_lim \in Seq(Nat)
      BY TrailLevels
    <3> QED BY <3>2, <3>3
  <2>2. CASE ~Restart
    BY <2>2 DEF Ends, SearchStopped, ZeroLevelConflict, TheoryUnsatZero, SearchSat, FinalDone, Return
  <2> QED BY <2>1, <2>2
<1>9. Keeps(n, 0) /\ Len(trail') = n
  BY <1>1, <1>3, <1>4 DEF Keeps
<1> QED
  BY <1>3, <1>4, <1>5, <1>6, <1>7, <1>8, <1>9 DEF EndsAt

\* A theory conflict: going back to its level.
UnsatAt(t, n, b) ==
  /\ Keeps(n, b) /\ Len(trail') = n /\ b \in 1 .. decisionLevel /\ decisionLevel' = b
  /\ trail_lim'[b] = trail_lim[b] /\ trail_lim[b] <= qhead
  /\ UNCHANGED <<given, clauses, learnts, watched, level, reason, visit>>
  /\ UNCHANGED <<decision, assumptions, splits, propData, after, ok, conflict_frame, answer>>
  /\ pc = "checkTheory" /\ pc' = "analyze" /\ confl' = Negated(t) /\ p' = 0 /\ seen' = {}

\* A conflict of the theory goes back to its level: it is a step of this form.
LEMMA UnsatFacts ==
  ASSUME SearchInv, NEW t \in TheoryConflict, TheoryUnsat(t)
  PROVE  \E n, b : UnsatAt(t, n, b)
<1>0. PICK h \in Nat : h = decisionLevel
  BY TrailLevels
<1>1. /\ pc = "checkTheory" /\ t \in Conflicts /\ decisionLevel > 0 /\ MaxLevel(t) > 0
      /\ trail' = SubSeq(trail, 1, EndOf(MaxLevel(t))) /\ CancelUntil(MaxLevel(t))
      /\ confl' = Negated(t) /\ p' = 0 /\ seen' = {} /\ pc' = "analyze"
      /\ UNCHANGED <<given, clauses, learnts, watched, level, reason, visit>>
      /\ UNCHANGED <<decision, assumptions, splits, propData, after, ok, conflict_frame, answer>>
  BY DEF TheoryUnsat, ConflictLevel, clauseVars, splitVars, callVars, resultVars
<1>2. PICK b : b = MaxLevel(t)
  OBVIOUS
<1>3. \A l \in t : level[var(l)] \in 0 .. h
  BY <1>0, <1>1, ConflictOnTrail
<1>4. b \in 0 .. h
  BY <1>2, <1>3, MaxLevelFacts
<1>5. b \in 1 .. h /\ b \in 0 .. decisionLevel
  BY <1>0, <1>1, <1>2, <1>4
<1>6. PICK n : n = EndOf(b)
  OBVIOUS
<1>7. /\ n \in 0 .. Len(trail)
      /\ \A i \in 1 .. Len(trail) : level[var(trail[i])] <= b => i <= n
      /\ SubSeq(trail, 1, n) \in Seq(Lit) /\ Len(SubSeq(trail, 1, n)) = n
      /\ \A i \in 1 .. n : SubSeq(trail, 1, n)[i] = trail[i]
  BY <1>5, <1>6, EndFacts
<1>8. Keeps(n, b) /\ Len(trail') = n
  BY <1>1, <1>2, <1>6, <1>7 DEF Keeps
<1>9. trail_lim' = SubSeq(trail_lim, 1, b)
  BY <1>0, <1>1, <1>2, <1>4 DEF CancelUntil
<1>10. trail_lim \in Seq(Nat) /\ Len(trail_lim) = h
  BY <1>0, TrailLevels DEF decisionLevel
<1>11. Len(trail_lim') = b /\ trail_lim'[b] = trail_lim[b]
  BY <1>5, <1>9, <1>10, Prefix
<1>12. trail_lim[b] <= qhead
  <2>1. h \in 1 .. h /\ b <= h
    BY <1>5
  <2>2. trail_lim[h] \in Nat /\ trail_lim[b] \in Nat /\ trail_lim[b] <= trail_lim[h]
    BY <1>5, <1>10, <2>1 DEF SearchInv, TrailInv, TrailHolds, TrailFits, Lims
  <2>3. trail_lim[h] <= qhead /\ qhead \in Nat
    BY <1>0, <1>1 DEF SearchInv, QueueInv
  <2> QED BY <2>2, <2>3
<1>13. decisionLevel' = b
  BY <1>11 DEF decisionLevel
<1> QED
  BY <1>0, <1>1, <1>5, <1>8, <1>11, <1>12, <1>13 DEF UnsatAt

\* A round of analyze.
AnalyzesAt(n, i, q, marked) ==
  /\ Keeps(n, decisionLevel - 1) /\ Len(trail') = n /\ KeepsReasons(n)
  /\ trail_lim[decisionLevel] <= n /\ decisionLevel > 0
  /\ marked = seen \cup {l \in confl \ {p} : level[var(l)] > 0}
  /\ i \in 1 .. Len(trail) /\ q = trail[i] /\ -q \in marked /\ q \in Lit
  /\ level[var(q)] = decisionLevel /\ n \in {i - 1, Len(trail)}
  /\ p' = q /\ seen' = marked \ {-q}
  /\ \/ reason[var(q)] # CRef_Fake /\ confl' = reason[var(q)]
     \/ \E t \in TheoryConflict : confl' = Negated(t)
  /\ UNCHANGED <<given, clauses, learnts, watched, level, trail_lim, visit>>
  /\ UNCHANGED <<decision, assumptions, splits, propData, after, ok, conflict_frame, answer>>
  /\ pc = "analyze" /\ pc' \in {"learn", "analyze"}

\* analyze resolves on the last marked literal, which is of the current level.
LEMMA AnalyzeFacts ==
  ASSUME SearchInv, AnalyzeStep
  PROVE  \E n, i, q, marked : AnalyzesAt(n, i, q, marked)
<1>0. PICK h \in Nat : h = decisionLevel
  BY TrailLevels
<1>1. PICK marked : marked = seen \cup {l \in confl \ {p} : level[var(l)] > 0}
  OBVIOUS
<1>2. PICK i : i = LastSeen(marked)
  OBVIOUS
<1>3. PICK q : q = trail[i]
  OBVIOUS
<1>4. /\ pc = "analyze" /\ pc' \in {"learn", "analyze"} /\ p' = q /\ seen' = marked \ {-q}
      /\ IF reason[var(q)] = CRef_Fake
         THEN \E t \in ReasonsFor(q, i - 1) :
                /\ UndoTo(i - 1) /\ reason' = [reason EXCEPT ![var(q)] = Negated(t)] /\ confl' = Negated(t)
         ELSE confl' = reason[var(q)] /\ UNCHANGED <<trail, qhead, reason>>
      /\ UNCHANGED <<given, clauses, learnts, watched, level, trail_lim, visit>>
      /\ UNCHANGED <<decision, assumptions, splits, propData, after, ok, conflict_frame, answer>>
  BY <1>1, <1>2, <1>3 DEF AnalyzeStep, UndoPoint, clauseVars, resultVars, splitVars, callVars
<1>5. /\ i \in 1 .. Len(trail) /\ q \in Lit /\ -q \in marked
      /\ trail_lim[decisionLevel] < i /\ decisionLevel \in 1 .. Len(trail_lim)
  BY <1>1, <1>2, <1>3, <1>4, MarkedFacts
<1>6. trail \in Seq(Lit) /\ Len(trail) \in Nat /\ level[var(q)] \in 0 .. h
  BY <1>0, <1>3, <1>5, TrailLevels
<1>6a. h \in 1 .. h
  BY <1>0, <1>5
<1>6b. h <= level[var(q)] <=> trail_lim[h] < i
  BY <1>0, <1>3, <1>5, <1>6a DEF SearchInv, TrailInv, TrailHolds, TrailFits, Levels, decisionLevel
<1>7. level[var(q)] = h
  BY <1>0, <1>5, <1>6, <1>6b
<1>8. \A k \in 1 .. Len(trail) : level[var(trail[k])] <= h - 1 => k <= trail_lim[h]
  <2>1. h - 1 \in 0 .. decisionLevel /\ h - 1 < decisionLevel
    BY <1>0, <1>6a
  <2>2. PICK e : e = EndOf(h - 1)
    OBVIOUS
  <2>3. e = trail_lim[h - 1 + 1] /\ \A k \in 1 .. Len(trail) : k <= e <=> level[var(trail[k])] <= h - 1
    BY <2>1, <2>2, EndFacts
  <2> QED BY <1>0, <2>3
<1>9. trail_lim[h] \in 0 .. Len(trail)
  BY <1>0, <1>6a, TrailLevels
<1>10. CASE reason[var(q)] = CRef_Fake
  <2>1. PICK t \in ReasonsFor(q, i - 1) :
          /\ UndoTo(i - 1) /\ reason' = [reason EXCEPT ![var(q)] = Negated(t)] /\ confl' = Negated(t)
    BY <1>4, <1>10
  <2>2. t \in TheoryConflict
    BY DEF ReasonsFor
  <2>3. trail' = SubSeq(trail, 1, i - 1)
    BY <2>1 DEF UndoTo
  <2>4. i - 1 \in 0 .. Len(trail)
    BY <1>5, <1>6
  <2>5. Len(trail') = i - 1 /\ \A k \in 1 .. i - 1 : trail'[k] = trail[k]
    BY <1>6, <2>3, <2>4, Prefix
  <2>6. \A k \in 1 .. Len(trail) : level[var(trail[k])] <= h - 1 => k <= i - 1
    <3> TAKE k \in 1 .. Len(trail)
    <3> HAVE level[var(trail[k])] <= h - 1
    <3>1. k <= trail_lim[h]
      BY <1>8
    <3> QED BY <1>0, <1>5, <1>6, <1>9, <3>1
  <2>7. Keeps(i - 1, h - 1)
    BY <1>4, <2>4, <2>5, <2>6 DEF Keeps
  <2>8. KeepsReasons(i - 1)
    <3> SUFFICES ASSUME NEW k \in 1 .. i - 1 PROVE reason'[var(trail[k])] = reason[var(trail[k])]
      BY DEF KeepsReasons
    <3>1. k \in 1 .. Len(trail) /\ k # i
      BY <1>5, <1>6
    <3>2. var(trail[k]) # var(q)
      BY <1>3, <1>5, <3>1 DEF SearchInv, TrailInv, TrailHolds, TrailFits, Distinct
    <3> QED BY <2>1, <3>2
  <2>9. trail_lim[decisionLevel] <= i - 1
    BY <1>0, <1>5, <1>6, <1>9
  <2>10. \E x \in TheoryConflict : confl' = Negated(x)
    BY <2>1, <2>2
  <2> WITNESS i - 1, i, q, marked
  <2> QED BY <1>0, <1>1, <1>3, <1>4, <1>5, <1>6a, <1>7, <2>5, <2>7, <2>8, <2>9, <2>10 DEF AnalyzesAt
<1>11. CASE reason[var(q)] # CRef_Fake
  <2>1. confl' = reason[var(q)] /\ trail' = trail /\ reason' = reason
    BY <1>4, <1>11
  <2>2. Keeps(Len(trail), h - 1) /\ KeepsReasons(Len(trail)) /\ Len(trail') = Len(trail)
    BY <1>4, <1>6, <2>1 DEF Keeps, KeepsReasons
  <2>3. trail_lim[decisionLevel] <= Len(trail)
    BY <1>0, <1>6, <1>9
  <2> WITNESS Len(trail), i, q, marked
  <2> QED BY <1>0, <1>1, <1>3, <1>4, <1>5, <1>6a, <1>7, <1>11, <2>1, <2>2, <2>3 DEF AnalyzesAt
<1> QED
  BY <1>10, <1>11

\* One literal is enqueued after the first n of the trail.
Appends(n, l) ==
  /\ Len(trail') = n + 1 /\ trail'[n + 1] = l /\ l \in Lit
  /\ \A i \in 1 .. n : var(trail[i]) # var(l)
  /\ \A v \in Var : v # var(l) => level'[v] = level[v] /\ reason'[v] = reason[v]

\* The learnt clause asserts its literal after the backjump.
LearnsAt(n, bt, c) ==
  /\ Keeps(n, bt) /\ KeepsReasons(n) /\ Appends(n, -p) /\ var(-p) = var(p) /\ p \in Lit
  /\ bt \in 0 .. decisionLevel - 1 /\ decisionLevel' = bt /\ n = trail_lim[bt + 1] /\ qhead' = n
  /\ \A i \in 1 .. n : level[var(trail[i])] <= bt
  /\ level'[var(p)] = bt
  /\ c = Minimized \cup {-p} /\ Minimized \subseteq seen /\ seen \subseteq Lit
  /\ \/ reason'[var(p)] = CRef_Undef /\ UNCHANGED <<learnts, watched>>
     \/ /\ reason'[var(p)] = c /\ learnts' = learnts \cup {c}
        /\ \E l \in Minimized : level[var(l)] = bt /\ watched' = Attached(c, <<-p, l>>)
  /\ UNCHANGED <<given, clauses, visit, decision, assumptions, splits, propData, after>>
  /\ UNCHANGED <<ok, conflict_frame, answer>>
  /\ pc = "learn" /\ pc' = "loop"

\* The end of analyze goes back to the backjump level and enqueues the asserted literal.
LEMMA LearnFacts ==
  ASSUME SearchInv, SearchInv', Learn
  PROVE  \E n, bt, c : LearnsAt(n, bt, c)
<1>0. PICK h \in Nat : h = decisionLevel
  BY TrailLevels
<1>1. PICK bt : bt = MaxLevel(Minimized)
  OBVIOUS
<1>2. PICK c : c = Minimized \cup {-p}
  OBVIOUS
<1>3. PICK n : n = EndOf(bt)
  OBVIOUS
<1>4. PICK t : t = SubSeq(trail, 1, n)
  OBVIOUS
<1>5. /\ pc = "learn" /\ pc' = "loop" /\ CancelUntil(bt)
      /\ \/ EnqueueOn(t, -p, CRef_Undef, bt) /\ UNCHANGED <<learnts, watched>>
         \/ /\ EnqueueOn(t, -p, c, bt) /\ learnts' = learnts \cup {c}
            /\ \E l \in Minimized : level[var(l)] = bt /\ watched' = Attached(c, <<-p, l>>)
      /\ UNCHANGED <<given, clauses, visit, decision, assumptions, splits, propData, after>>
      /\ UNCHANGED <<ok, conflict_frame, answer>>
  BY <1>1, <1>2, <1>3, <1>4 DEF Learn, BackjumpLevel, resultVars, splitVars, callVars
<1>6. bt \in 0 .. decisionLevel /\ bt < decisionLevel /\ p \in Lit
  BY <1>1, <1>5, LearntFacts
<1>7. bt \in 0 .. h - 1 /\ bt < h
  BY <1>0, <1>6
<1>8. /\ n \in 0 .. Len(trail) /\ n = trail_lim[bt + 1]
      /\ \A i \in 1 .. Len(trail) : i <= n <=> level[var(trail[i])] <= bt
      /\ t \in Seq(Lit) /\ Len(t) = n /\ \A i \in 1 .. n : t[i] = trail[i]
  BY <1>3, <1>4, <1>6, EndFacts
<1>9. PICK from : EnqueueOn(t, -p, from, bt) /\ from \in {CRef_Undef, c}
  BY <1>5
<1>10. /\ Len(trail') = n + 1 /\ trail'[n + 1] = -p /\ -p \in Lit
       /\ \A i \in 1 .. n : trail'[i] = trail[i] /\ var(trail[i]) # var(-p)
       /\ \A i \in 1 .. n : level'[var(trail[i])] = level[var(trail[i])]
       /\ KeepsReasons(n)
       /\ level'[var(-p)] = bt /\ reason'[var(-p)] = from
       /\ \A v \in Var : v # var(-p) => level'[v] = level[v] /\ reason'[v] = reason[v]
  <2>1. PICK q : q = -p
    OBVIOUS
  <2>2. EnqueueOn(t, q, from, bt)
    BY <1>9, <2>1
  <2>3. /\ Len(trail') = n + 1 /\ trail'[n + 1] = q /\ q \in Lit
        /\ \A i \in 1 .. n : trail'[i] = trail[i] /\ var(trail[i]) # var(q)
        /\ \A i \in 1 .. n : level'[var(trail[i])] = level[var(trail[i])]
        /\ KeepsReasons(n)
        /\ level'[var(q)] = bt /\ reason'[var(q)] = from
        /\ \A v \in Var : v # var(q) => level'[v] = level[v] /\ reason'[v] = reason[v]
    BY <1>8, <2>2, Enqueued
  <2> QED BY <2>1, <2>3
<1>11. var(-p) = var(p)
  BY <1>6, LitFacts
<1>12. Appends(n, -p)
  BY <1>10 DEF Appends
<1>13. Len(trail) \in Nat
  BY TrailLevels
<1>14. n <= Len(trail')
  BY <1>8, <1>10, <1>13
<1>15. Keeps(n, bt)
  BY <1>8, <1>10, <1>14 DEF Keeps
<1>16. \A i \in 1 .. n : level[var(trail[i])] <= bt
  BY <1>8, <1>13
<1>17. trail_lim' = SubSeq(trail_lim, 1, bt) /\ qhead' = n
  BY <1>0, <1>5, <1>7, <1>8 DEF CancelUntil
<1>18. decisionLevel' = bt
  <2>1. trail_lim \in Seq(Nat) /\ Len(trail_lim) = h /\ bt \in 0 .. Len(trail_lim)
    BY <1>0, <1>6, TrailLevels DEF decisionLevel
  <2>2. Len(trail_lim') = bt
    BY <1>17, <2>1, Prefix
  <2> QED BY <2>2 DEF decisionLevel
<1>19. \/ reason'[var(p)] = CRef_Undef /\ UNCHANGED <<learnts, watched>>
       \/ /\ reason'[var(p)] = c /\ learnts' = learnts \cup {c}
          /\ \E l \in Minimized : level[var(l)] = bt /\ watched' = Attached(c, <<-p, l>>)
  <2>1. var(p) \in Var /\ DOMAIN reason = Var
    BY <1>6, LitFacts DEF SearchInv, TrailInv, TrailHolds, Justified
  <2>2. \A f : EnqueueOn(t, -p, f, bt) => reason'[var(p)] = f
    BY <1>11, <2>1 DEF EnqueueOn
  <2> QED BY <1>5, <2>2
<1>20. Minimized \subseteq seen /\ seen \subseteq Lit
  BY <1>5 DEF Minimized, SearchInv, AnalyzeInv
<1> WITNESS n, bt, c
<1> QED
  BY <1>0, <1>2, <1>5, <1>6, <1>7, <1>8, <1>10, <1>11, <1>12, <1>15, <1>16, <1>17, <1>18, <1>19, <1>20
     DEF LearnsAt

\* A lemma that implies a literal.
SplitsAt(n, bt, c, l) ==
  /\ Keeps(n, bt) /\ KeepsReasons(n) /\ bt \in 0 .. decisionLevel /\ decisionLevel' = bt
  /\ n = EndOf(bt) /\ qhead' = (IF bt < decisionLevel THEN n ELSE qhead)
  /\ \A i \in 1 .. n : level[var(trail[i])] <= bt
  /\ c = Head(splits) /\ bt = FalseLevel(c) /\ Implies(c)
  /\ l \in c /\ l \in Lit /\ Fresh(trail, l)
  /\ \A k \in c \ {l} : (\E i \in 1 .. Len(trail) : trail[i] = -k) /\ level[var(k)] <= bt
  /\ \/ /\ bt = 0 /\ Appends(n, l) /\ level'[var(l)] = 0 /\ reason'[var(l)] = CRef_Undef
        /\ propData' \in {<<>>, propData} /\ UNCHANGED <<clauses, watched>>
     \/ /\ bt > 0 /\ Len(trail') = n /\ clauses' = clauses \cup {c} /\ UNCHANGED <<level, reason>>
        /\ \E w \in c \ {l} : watched' = Attached(c, <<l, w>>)
        /\ propData' = (IF bt < decisionLevel THEN <<>> ELSE propData) \o <<<<l, c>>>>
  /\ UNCHANGED <<given, learnts, visit, assumptions, ok, conflict_frame, answer>>
  /\ splits # <<>> /\ splits' = Tail(splits) /\ decision' = decision \cup Vars(c)
  /\ pc = "split" /\ pc' = "split"

\* handleNewSplitClauses goes back to where the lemma implies its literal.
LEMMA SplitUnitFacts ==
  ASSUME SearchInv, SearchInv', SplitUnit
  PROVE  \E n, bt, c, l : SplitsAt(n, bt, c, l)
<1>0. PICK h \in Nat : h = decisionLevel
  BY TrailLevels
<1>1. PICK c : c = Head(splits)
  OBVIOUS
<1>2. PICK bt : bt = FalseLevel(c)
  OBVIOUS
<1>3. PICK l : l = CHOOSE k \in Unknown(c) : TRUE
  OBVIOUS
<1>4. PICK n : n = EndOf(bt)
  OBVIOUS
<1>5. PICK t : t = SubSeq(trail, 1, n)
  OBVIOUS
<1>6. /\ pc = "split" /\ pc' = "split" /\ splits # <<>> /\ Implies(c) /\ CancelUntil(bt)
      /\ splits' = Tail(splits) /\ decision' = decision \cup Vars(c)
      /\ UNCHANGED <<given, learnts, visit, assumptions, ok, conflict_frame, answer>>
  BY <1>1, <1>2, <1>3 DEF SplitUnit, SplitLevel, resultVars
<1>7. /\ bt = 0 => /\ EnqueueOn(SubSeq(trail, 1, EndOf(0)), l, CRef_Undef, 0)
                   /\ propData' = (IF bt < decisionLevel THEN <<>> ELSE propData) /\ UNCHANGED <<clauses, watched>>
      /\ bt # 0 => /\ trail' = t /\ clauses' = clauses \cup {c} /\ UNCHANGED <<level, reason>>
                   /\ \E w \in c \ {l} : watched' = Attached(c, <<l, w>>)
                   /\ propData' = (IF bt < decisionLevel THEN <<>> ELSE propData) \o <<<<l, c>>>>
  BY <1>1, <1>2, <1>3, <1>4, <1>5 DEF SplitUnit, SplitLevel
<1>8. c \in SUBSET Lit /\ Implied(c, GivenModel)
  BY <1>1, <1>6, SplitHead
<1>9. /\ l \in c /\ l \in Lit /\ Fresh(trail, l) /\ bt \in 0 .. decisionLevel
      /\ \A k \in c \ {l} : (\E i \in 1 .. Len(trail) : trail[i] = -k) /\ level[var(k)] <= bt
  BY <1>2, <1>3, <1>6, <1>8, SplitImplies
<1>10. /\ n \in 0 .. Len(trail)
       /\ \A i \in 1 .. Len(trail) : i <= n <=> level[var(trail[i])] <= bt
       /\ t \in Seq(Lit) /\ Len(t) = n /\ \A i \in 1 .. n : t[i] = trail[i]
       /\ bt < decisionLevel => n = trail_lim[bt + 1]
  BY <1>4, <1>5, <1>9, EndFacts
<1>11. Len(trail) \in Nat
  BY TrailLevels
<1>12. \A i \in 1 .. n : level[var(trail[i])] <= bt
  BY <1>10, <1>11
<1>13. trail_lim' = SubSeq(trail_lim, 1, bt) /\ qhead' = IF bt < decisionLevel THEN n ELSE qhead
  BY <1>0, <1>6, <1>9, <1>10 DEF CancelUntil
<1>14. decisionLevel' = bt
  <2>1. trail_lim \in Seq(Nat) /\ Len(trail_lim) = h /\ bt \in 0 .. Len(trail_lim)
    BY <1>0, <1>9, TrailLevels DEF decisionLevel
  <2>2. Len(trail_lim') = bt
    BY <1>13, <2>1, Prefix
  <2> QED BY <2>2 DEF decisionLevel
<1>15. CASE bt = 0
  <2>1. EnqueueOn(t, l, CRef_Undef, 0) /\ UNCHANGED <<clauses, watched>> /\ propData' \in {<<>>, propData}
    BY <1>4, <1>5, <1>7, <1>15
  <2>2. /\ Len(trail') = n + 1 /\ trail'[n + 1] = l /\ l \in Lit
        /\ \A i \in 1 .. n : trail'[i] = trail[i] /\ var(trail[i]) # var(l)
        /\ \A i \in 1 .. n : level'[var(trail[i])] = level[var(trail[i])]
        /\ KeepsReasons(n)
        /\ level'[var(l)] = 0 /\ reason'[var(l)] = CRef_Undef
        /\ \A v \in Var : v # var(l) => level'[v] = level[v] /\ reason'[v] = reason[v]
    <3>1. PICK from, z : from = CRef_Undef /\ z = 0
      OBVIOUS
    <3>2. EnqueueOn(t, l, from, z)
      BY <2>1, <3>1
    <3> QED BY <1>10, <3>1, <3>2, Enqueued
  <2>3. Appends(n, l)
    BY <2>2 DEF Appends
  <2>4. n <= Len(trail')
    BY <1>10, <1>11, <2>2
  <2>5. Keeps(n, bt)
    BY <1>10, <2>2, <2>4 DEF Keeps
  <2> WITNESS n, bt, c, l
  <2> QED BY <1>1, <1>2, <1>4, <1>6, <1>9, <1>12, <1>13, <1>14, <1>15, <2>1, <2>2, <2>3, <2>5
         DEF SplitsAt
<1>16. CASE bt # 0
  <2>1. bt > 0
    BY <1>0, <1>9, <1>16
  <2>2. trail' = t /\ UNCHANGED <<level, reason>>
    BY <1>7, <1>16
  <2>3. Len(trail') = n /\ n <= Len(trail') /\ n \in 0 .. Len(trail)
    BY <1>10, <1>11, <2>2
  <2>4. \A i \in 1 .. n : trail'[i] = trail[i] /\ level'[var(trail[i])] = level[var(trail[i])]
    BY <1>10, <2>2
  <2>5. \A i \in 1 .. Len(trail) : level[var(trail[i])] <= bt => i <= n
    BY <1>10
  <2>6. Keeps(n, bt)
    BY <2>3, <2>4, <2>5 DEF Keeps
  <2>7. KeepsReasons(n)
    BY <2>2 DEF KeepsReasons
  <2> WITNESS n, bt, c, l
  <2> QED BY <1>1, <1>2, <1>4, <1>6, <1>7, <1>9, <1>12, <1>13, <1>14, <1>16, <2>1, <2>2, <2>3, <2>6, <2>7
         DEF SplitsAt
<1> QED
  BY <1>15, <1>16

\* The literal l is enqueued with the reason from at level lev, and nothing is undone.
EnqueuesAt(n, l, from, lev) ==
  /\ n = Len(trail) /\ n \in Nat /\ KeepsReasons(n) /\ Appends(n, l) /\ \A b : Keeps(n, b)
  /\ level'[var(l)] = lev /\ reason'[var(l)] = from

\* uncheckedEnqueue on the whole trail is of this form.
LEMMA EnqueuedHere ==
  ASSUME SearchInv, SearchInv', NEW l, NEW from, NEW lev, EnqueueOn(trail, l, from, lev),
         NEW n, n = Len(trail)
  PROVE  EnqueuesAt(n, l, from, lev)
<1>1. trail \in Seq(Lit) /\ n \in 0 .. Len(trail) /\ n \in Nat
  BY TrailLevels
<1>2. PICK t \in Seq(Lit) : t = trail
  BY <1>1
<1>3. EnqueueOn(t, l, from, lev) /\ Len(t) = n /\ \A i \in 1 .. n : t[i] = trail[i]
  BY <1>2
<1>4. /\ Len(trail') = n + 1 /\ trail'[n + 1] = l /\ l \in Lit
      /\ \A i \in 1 .. n : trail'[i] = trail[i] /\ var(trail[i]) # var(l)
      /\ \A i \in 1 .. n : level'[var(trail[i])] = level[var(trail[i])]
      /\ KeepsReasons(n)
      /\ level'[var(l)] = lev /\ reason'[var(l)] = from
      /\ \A v \in Var : v # var(l) => level'[v] = level[v] /\ reason'[v] = reason[v]
  BY <1>1, <1>3, Enqueued
<1>5. Appends(n, l)
  BY <1>4 DEF Appends
<1>6. \A b : Keeps(n, b)
  BY <1>1, <1>4 DEF Keeps
<1> QED
  BY <1>1, <1>4, <1>5, <1>6 DEF EnqueuesAt

\* Nothing happens to the trail.
LEMMA NothingMoves ==
  ASSUME SearchInv, UNCHANGED <<trail, level>>, NEW n, n = Len(trail)
  PROVE  \A b : Keeps(n, b) /\ Len(trail') = n
BY TrailLevels DEF Keeps

\* The next deduction, or the next literal a lemma implies.
LEMMA DeduceNextFacts ==
  ASSUME SearchInv, SearchInv', DeduceNext
  PROVE  /\ UNCHANGED <<given, clauses, learnts, watched, trail_lim, qhead, visit, stack, declared>>
         /\ UNCHANGED <<decision, assumptions, splits, propData, after, ok, conflict_frame, answer, pc>>
         /\ pc = "deduce"
         /\ \/ UNCHANGED <<trail, level, reason>>
            \/ \E l, n : /\ EnqueuesAt(n, l, CRef_Fake, decisionLevel)
                         /\ var(l) \in TheoryVar /\ var(l) \in declared
<1>1. PICK l : l = th_deductions[deductions_next + 1]
  OBVIOUS
<1>2. /\ UNCHANGED <<given, clauses, learnts, watched, trail_lim, qhead, visit, stack, declared>>
      /\ UNCHANGED <<decision, assumptions, splits, propData, after, ok, conflict_frame, answer, pc>>
      /\ pc = "deduce" /\ deductions_next < Len(th_deductions)
      /\ IF Unassigned(l) THEN EnqueueOn(trail, l, CRef_Fake, decisionLevel)
                          ELSE UNCHANGED <<trail, level, reason>>
  BY <1>1 DEF DeduceNext, clauseVars, resultVars, splitVars, callVars
<1>3. deductions_next \in Nat /\ th_deductions \in Seq(Lit)
  BY DEF SearchInv, TheoryInv, TheoryHolds, PointsFit
<1>4. deductions_next + 1 \in 1 .. Len(th_deductions)
  BY <1>2, <1>3
<1>5. ~Outside
  BY <1>2 DEF Outside, SearchInv, PhaseInv
<1>6. var(l) \in declared /\ var(l) \in TheoryVar
  BY <1>1, <1>4, <1>5 DEF SearchInv, KnownInv
<1>7. CASE Unassigned(l)
  <2>1. PICK from, lev : from = CRef_Fake /\ lev = decisionLevel
    OBVIOUS
  <2>2. EnqueueOn(trail, l, from, lev)
    BY <1>2, <1>7, <2>1
  <2>3. PICK n : n = Len(trail)
    OBVIOUS
  <2>4. EnqueuesAt(n, l, from, lev)
    BY <2>2, <2>3, EnqueuedHere
  <2> QED BY <1>2, <1>6, <2>1, <2>3, <2>4
<1> QED
  BY <1>2, <1>7

\* The next literal that a lemma implies.
LEMMA SplitEnqueueFacts ==
  ASSUME SearchInv, SearchInv', SplitEnqueue
  PROVE  /\ UNCHANGED <<given, clauses, learnts, watched, trail_lim, qhead, visit, stack, declared>>
         /\ UNCHANGED <<decision, assumptions, splits, after, ok, conflict_frame, answer, pc>>
         /\ pc = "split" /\ splits = <<>> /\ propData # <<>> /\ propData' = Tail(propData)
         /\ \/ UNCHANGED <<trail, level, reason>>
            \/ \E l, n : l = propData[1][1] /\ EnqueuesAt(n, l, propData[1][2], decisionLevel)
<1>1. PICK d : d = Head(propData)
  OBVIOUS
<1>2. /\ UNCHANGED <<given, clauses, learnts, watched, trail_lim, qhead, visit, stack, declared>>
      /\ UNCHANGED <<decision, assumptions, splits, after, ok, conflict_frame, answer, pc>>
      /\ pc = "split" /\ splits = <<>> /\ propData # <<>> /\ propData' = Tail(propData)
      /\ IF Unassigned(d[1]) THEN EnqueueOn(trail, d[1], d[2], decisionLevel)
                             ELSE UNCHANGED <<trail, level, reason>>
  BY <1>1 DEF SplitEnqueue, clauseVars, resultVars, callVars, theoryVars
<1>3. propData \in Seq(Lit \X SUBSET Lit)
  BY DEF SearchInv, SplitInv
<1>4. d = propData[1]
  BY <1>1, <1>2, <1>3
<1>7. CASE Unassigned(d[1])
  <2>1. PICK l, from, lev : l = d[1] /\ from = d[2] /\ lev = decisionLevel
    OBVIOUS
  <2>2. EnqueueOn(trail, l, from, lev)
    BY <1>2, <1>7, <2>1
  <2>3. PICK n : n = Len(trail)
    OBVIOUS
  <2>4. EnqueuesAt(n, l, from, lev)
    BY <2>2, <2>3, EnqueuedHere
  <2> QED BY <1>2, <1>4, <2>1, <2>3, <2>4
<1> QED
  BY <1>2, <1>7

\* A decision, or the next assumption.
LEMMA DecideFacts ==
  ASSUME SearchInv, SearchInv', NEW l \in Lit, Decide(l)
  PROVE  /\ \E n : EnqueuesAt(n, l, CRef_Undef, decisionLevel + 1)
         /\ trail_lim' = Append(trail_lim, Len(trail))
         /\ decisionLevel' = decisionLevel + 1
         /\ IF decisionLevel < Len(assumptions) THEN l = assumed ELSE var(l) \in decision
         /\ UNCHANGED <<given, clauses, learnts, watched, qhead, visit, stack, declared>>
         /\ UNCHANGED <<decision, assumptions, splits, propData, after, ok, conflict_frame, answer>>
         /\ pc = "decide" /\ pc' = "loop"
<1>1. /\ EnqueueOn(trail, l, CRef_Undef, decisionLevel + 1) /\ trail_lim' = Append(trail_lim, Len(trail))
      /\ IF decisionLevel < Len(assumptions) THEN l = assumed ELSE var(l) \in decision
      /\ UNCHANGED <<given, clauses, learnts, watched, qhead, visit, stack, declared>>
      /\ UNCHANGED <<decision, assumptions, splits, propData, after, ok, conflict_frame, answer>>
      /\ pc = "decide" /\ pc' = "loop"
  BY DEF Decide, clauseVars, resultVars, splitVars, callVars, theoryVars
<1>2. PICK from, lev : from = CRef_Undef /\ lev = decisionLevel + 1
  OBVIOUS
<1>3. EnqueueOn(trail, l, from, lev)
  BY <1>1, <1>2
<1>4. PICK n : n = Len(trail)
  OBVIOUS
<1>5. EnqueuesAt(n, l, from, lev)
  BY <1>3, <1>4, EnqueuedHere
<1>6. trail_lim \in Seq(Nat) /\ Len(trail) \in Nat
  BY TrailLevels
<1>7. decisionLevel' = decisionLevel + 1
  BY <1>1, <1>6 DEF decisionLevel
<1> QED
  BY <1>1, <1>2, <1>4, <1>5, <1>7

\* The two first literals of a clause.
LEMMA FirstTwoFacts ==
  ASSUME NEW c \in SUBSET Lit, c # {}, Cardinality(c) # 1
  PROVE  FirstTwo(c)[1] \in c /\ FirstTwo(c)[2] \in c /\ FirstTwo(c)[1] # FirstTwo(c)[2]
<1>1. Least(c) \in c
  BY LeastIn
<1>2. c \ {Least(c)} # {}
  <2> SUFFICES ASSUME c \ {Least(c)} = {} PROVE FALSE
    OBVIOUS
  <2>1. c = {Least(c)}
    BY <1>1
  <2>2. Cardinality({Least(c)}) = 1
    BY FS_Singleton
  <2> QED BY <2>1, <2>2
<1>3. Least(c \ {Least(c)}) \in c \ {Least(c)}
  BY <1>2, LeastIn
<1> QED
  BY <1>1, <1>3 DEF FirstTwo

\* A clause is given.
LEMMA AddFacts ==
  ASSUME SearchInv, SearchInv', NEW c \in InputClause, AddOriginalClause(c)
  PROVE  /\ pc = "idle" /\ ok /\ given' = given \cup {c} /\ answer' = "none" /\ decisionLevel = 0
         /\ UNCHANGED <<learnts, conflict_frame, splits, propData, decision, assumptions, trail_lim>>
         /\ UNCHANGED <<qhead, visit, conflict>>
         /\ \/ /\ UNCHANGED <<clauses, watched, trail, level, reason, ok, pc, after>>
               /\ \E l \in c : True(l) \/ -l \in c
            \/ ok' = FALSE /\ UNCHANGED <<clauses, watched, trail, level, reason, pc, after>>
            \/ /\ pc' = "propagate" /\ after' = "add" /\ UNCHANGED <<clauses, watched, ok>>
               /\ \E l, n : l \in c /\ EnqueuesAt(n, l, CRef_Undef, 0)
            \/ /\ UNCHANGED <<trail, level, reason, ok, pc, after>>
               /\ \E ps, pair : /\ ps \subseteq c /\ ps # {} /\ \A l \in ps : Unassigned(l)
                                /\ pair[1] \in ps /\ pair[2] \in ps /\ pair[1] # pair[2]
                                /\ clauses' = clauses \cup {ps} /\ watched' = Attached(ps, pair)
<1>1. PICK ps : ps = {l \in c : ~False(l)}
  OBVIOUS
<1>2. /\ pc = "idle" /\ ok /\ given' = given \cup {c} /\ answer' = "none"
      /\ UNCHANGED <<learnts, conflict_frame, splits, propData, decision, assumptions, conflict>>
      /\ IF (\E l \in c : True(l) \/ -l \in c)
         THEN UNCHANGED <<clauses, watched, trailVars, visit, ok, pc, after>>
         ELSE CASE ps = {} ->
                     ok' = FALSE /\ UNCHANGED <<clauses, watched, trailVars, visit, pc, after>>
                [] Cardinality(ps) = 1 ->
                     /\ EnqueueOn(trail, Least(ps), CRef_Undef, 0)
                     /\ pc' = "propagate" /\ after' = "add"
                     /\ UNCHANGED <<clauses, watched, trail_lim, qhead, visit, ok>>
                [] OTHER ->
                     /\ clauses' = clauses \cup {ps}
                     /\ watched' = Attached(ps, FirstTwo(ps))
                     /\ UNCHANGED <<trailVars, visit, ok, pc, after>>
  BY <1>1 DEF AddOriginalClause, splitVars, callVars
<1>3. decisionLevel = 0
  BY <1>2 DEF SearchInv, PhaseInv, Outside, decisionLevel
<1>4. c \in SUBSET Lit /\ ps \in SUBSET Lit /\ ps \subseteq c
  BY <1>1, ClauseAssumption
<1>5. CASE \E l \in c : True(l) \/ -l \in c
  BY <1>2, <1>3, <1>5 DEF trailVars
<1>6. CASE ~(\E l \in c : True(l) \/ -l \in c) /\ ps = {}
  <2>0. Cardinality(ps) # 1
    BY <1>6, FS_EmptySet
  <2>1. ok' = FALSE /\ UNCHANGED <<clauses, watched, trail, trail_lim, level, reason, qhead, visit, pc, after>>
    BY <1>1, <1>6, <2>0 DEF AddOriginalClause, trailVars
  <2> QED BY <1>2, <1>3, <2>1
<1>7. CASE ~(\E l \in c : True(l) \/ -l \in c) /\ ps # {} /\ Cardinality(ps) = 1
  <2>1. PICK l, from, lev : l = Least(ps) /\ from = CRef_Undef /\ lev = 0
    OBVIOUS
  <2>2. EnqueueOn(trail, l, from, lev) /\ pc' = "propagate" /\ after' = "add"
        /\ UNCHANGED <<clauses, watched, trail_lim, qhead, visit, ok>>
    BY <1>2, <1>7, <2>1
  <2>3. l \in c
    BY <1>4, <1>7, <2>1, LeastIn
  <2>4. PICK n : n = Len(trail)
    OBVIOUS
  <2>5. EnqueuesAt(n, l, from, lev)
    BY <2>2, <2>4, EnqueuedHere
  <2> QED BY <1>2, <1>3, <2>1, <2>2, <2>3, <2>4, <2>5
<1>8. CASE ~(\E l \in c : True(l) \/ -l \in c) /\ ps # {} /\ Cardinality(ps) # 1
  <2>1. /\ clauses' = clauses \cup {ps} /\ watched' = Attached(ps, FirstTwo(ps))
        /\ UNCHANGED <<trail, trail_lim, level, reason, qhead, visit, ok, pc, after>>
    BY <1>2, <1>8 DEF trailVars
  <2>2. \A l \in ps : Unassigned(l)
    BY <1>1, <1>8 DEF Unassigned
  <2>3. PICK pair : pair = FirstTwo(ps)
    OBVIOUS
  <2>4. pair[1] \in ps /\ pair[2] \in ps /\ pair[1] # pair[2]
    BY <1>4, <1>8, <2>3, FirstTwoFacts
  <2> QED BY <1>2, <1>3, <1>4, <1>8, <2>1, <2>2, <2>3, <2>4
<1> QED
  BY <1>5, <1>6, <1>7, <1>8

\* A visit of a clause.
LEMMA VisitStep ==
  ASSUME SearchInv, SearchInv', NEW c \in visit, PropagateVisit(c)
  PROVE  /\ pc = "propagate" /\ c \in DOMAIN watched /\ DOMAIN watched' = DOMAIN watched
         /\ \A d \in DOMAIN watched : d # c => watched'[d] = watched[d]
         /\ UNCHANGED <<given, clauses, learnts, trail_lim, decision, assumptions, splits, propData>>
         /\ UNCHANGED <<after, ok, conflict_frame, answer, p, seen>>
         /\ \/ watched'[c] = watched[c]
            \/ watched'[c][1] = First(c) /\ watched'[c][2] \in {falseLit} \cup NewWatches(c)
         /\ \/ /\ UNCHANGED <<trail, level, reason, qhead, pc, confl>> /\ visit' = visit \ {c}
               /\ Satisfied(c) \/ watched'[c][2] \in NewWatches(c)
            \/ /\ UNCHANGED <<qhead, pc, confl>> /\ visit' = visit \ {c}
               /\ watched'[c][1] = First(c) /\ watched'[c][2] = falseLit
               /\ \E n : EnqueuesAt(n, First(c), c, decisionLevel)
            \/ /\ UNCHANGED <<trail, level, reason>> /\ visit' = {} /\ pc' = "conflict" /\ confl' = c
               /\ watched'[c][1] = First(c) /\ watched'[c][2] = falseLit
<1>1. /\ pc = "propagate" /\ UNCHANGED <<given, clauses, learnts, trail_lim, decision, assumptions, splits, propData>>
      /\ UNCHANGED <<after, ok, conflict_frame, answer, p, seen>>
      /\ \/ (VisitBlocked(c) \/ VisitSatisfied(c) \/ VisitNewWatch(c) \/ VisitUnit(c)) /\ confl' = confl
         \/ VisitConflict(c)
  BY DEF PropagateVisit, resultVars, splitVars, callVars
<1>2. c \in clauses \cup learnts /\ c \in DOMAIN watched /\ falseLit \in c /\ First(c) \in c
  BY <1>1, VisitFacts
<1>3. ASSUME NEW a, NEW b, watched' = [watched EXCEPT ![c] = <<a, b>>]
      PROVE  /\ DOMAIN watched' = DOMAIN watched /\ \A d \in DOMAIN watched : d # c => watched'[d] = watched[d]
             /\ watched'[c][1] = a /\ watched'[c][2] = b
  BY <1>2, <1>3
<1>4. CASE VisitBlocked(c)
  BY <1>1, <1>2, <1>4 DEF VisitBlocked, VisitConflict
<1>5. CASE VisitSatisfied(c)
  <2>1. Satisfied(c)
    BY <1>2, <1>5 DEF VisitSatisfied, Satisfied
  <2>2. /\ watched' = [watched EXCEPT ![c] = <<First(c), falseLit>>] /\ visit' = visit \ {c}
        /\ UNCHANGED <<trail, level, reason, qhead, pc>>
    BY <1>5 DEF VisitSatisfied
  <2>3. confl' = confl \/ (VisitConflict(c) /\ pc' = "conflict")
    BY <1>1 DEF VisitConflict
  <2>4. confl' = confl
    BY <1>1, <2>2, <2>3
  <2>5. /\ DOMAIN watched' = DOMAIN watched /\ \A d \in DOMAIN watched : d # c => watched'[d] = watched[d]
        /\ watched'[c][1] = First(c) /\ watched'[c][2] = falseLit
    BY <1>3, <2>2
  <2> QED BY <1>1, <1>2, <2>1, <2>2, <2>4, <2>5
<1>6. CASE VisitNewWatch(c)
  <2>1. PICK l \in NewWatches(c) : watched' = [watched EXCEPT ![c] = <<First(c), l>>]
    BY <1>6 DEF VisitNewWatch
  <2>2. visit' = visit \ {c} /\ UNCHANGED <<trail, level, reason, qhead, pc>>
    BY <1>6 DEF VisitNewWatch
  <2>3. confl' = confl \/ (VisitConflict(c) /\ pc' = "conflict")
    BY <1>1 DEF VisitConflict
  <2>4. confl' = confl
    BY <1>1, <2>2, <2>3
  <2>5. /\ DOMAIN watched' = DOMAIN watched /\ \A d \in DOMAIN watched : d # c => watched'[d] = watched[d]
        /\ watched'[c][1] = First(c) /\ watched'[c][2] = l
    BY <1>3, <2>1
  <2> QED BY <1>1, <1>2, <2>1, <2>2, <2>4, <2>5
<1>7. CASE VisitUnit(c)
  <2>1. /\ watched' = [watched EXCEPT ![c] = <<First(c), falseLit>>] /\ visit' = visit \ {c}
        /\ EnqueueOn(trail, First(c), c, decisionLevel) /\ UNCHANGED <<qhead, pc>>
    BY <1>7 DEF VisitUnit
  <2>2. PICK l, lev, n : l = First(c) /\ lev = decisionLevel /\ n = Len(trail)
    OBVIOUS
  <2>3. EnqueuesAt(n, l, c, lev)
    BY <2>1, <2>2, EnqueuedHere
  <2>4. confl' = confl \/ (VisitConflict(c) /\ pc' = "conflict")
    BY <1>1 DEF VisitConflict
  <2>5. confl' = confl
    BY <1>1, <2>1, <2>4
  <2>6. /\ DOMAIN watched' = DOMAIN watched /\ \A d \in DOMAIN watched : d # c => watched'[d] = watched[d]
        /\ watched'[c][1] = First(c) /\ watched'[c][2] = falseLit
    BY <1>3, <2>1
  <2> QED BY <1>1, <1>2, <2>1, <2>2, <2>3, <2>5, <2>6
<1>8. CASE VisitConflict(c)
  <2>1. /\ watched' = [watched EXCEPT ![c] = <<First(c), falseLit>>] /\ visit' = {}
        /\ pc' = "conflict" /\ confl' = c /\ UNCHANGED <<trail, level, reason>>
    BY <1>8 DEF VisitConflict
  <2>2. /\ DOMAIN watched' = DOMAIN watched /\ \A d \in DOMAIN watched : d # c => watched'[d] = watched[d]
        /\ watched'[c][1] = First(c) /\ watched'[c][2] = falseLit
    BY <1>3, <2>1
  <2> QED BY <1>1, <1>2, <2>1, <2>2
<1> QED
  BY <1>1, <1>4, <1>5, <1>6, <1>7, <1>8

\* A lemma that implies nothing is attached.
AttachesLemma(c, pair) ==
  /\ c = Head(splits) /\ c \in SplitClause /\ c \in SUBSET Lit /\ ~Implies(c)
  /\ \E u \in c : Unassigned(u)
  /\ pair[1] \in c /\ pair[2] \in c /\ pair[1] # pair[2] /\ ~False(pair[1])
  /\ watched' = Attached(c, pair) /\ clauses' = clauses \cup {c}
  /\ UNCHANGED <<given, learnts, trail, trail_lim, level, reason, qhead, visit, propData>>
  /\ UNCHANGED <<assumptions, after, ok, conflict_frame, answer>>
  /\ splits # <<>> /\ splits' = Tail(splits) /\ decision' = decision \cup Vars(c)
  /\ pc = "split" /\ pc' = "split"

\* A lemma that implies nothing is attached to two literals of which the first is not false.
LEMMA SplitAttachFacts ==
  ASSUME SearchInv, SplitAttach
  PROVE  \E c, pair : AttachesLemma(c, pair)
<1>1. PICK c : c = Head(splits)
  OBVIOUS
<1>2. /\ pc = "split" /\ pc' = "split" /\ splits # <<>> /\ ~Implies(c) /\ splits' = Tail(splits)
      /\ decision' = decision \cup Vars(c) /\ clauses' = clauses \cup {c}
      /\ UNCHANGED <<given, learnts, trail, trail_lim, level, reason, qhead, visit, propData>>
      /\ UNCHANGED <<assumptions, after, ok, conflict_frame, answer>>
      /\ \E w \in SplitWatches(c) : watched' = Attached(c, w)
  BY <1>1 DEF SplitAttach, trailVars, resultVars
<1>3. c \in SplitClause /\ c \in SUBSET Lit
  BY <1>1, <1>2, SplitHead
<1>4. PICK pair \in SplitWatches(c) : watched' = Attached(c, pair)
  BY <1>2
<1>5. PICK u \in Unknown(c), w \in {x \in c \X c : x[1] # x[2]} :
        pair = IF False(w[1]) THEN <<u, IF u = w[2] THEN w[1] ELSE w[2]>> ELSE w
  BY DEF SplitWatches
<1>6. u \in c /\ Unassigned(u) /\ ~False(u) /\ w[1] \in c /\ w[2] \in c /\ w[1] # w[2]
  BY <1>5 DEF Unknown, Unassigned
<1>7. pair[1] \in c /\ pair[2] \in c /\ pair[1] # pair[2] /\ ~False(pair[1])
  <2>1. CASE False(w[1])
    BY <1>5, <1>6, <2>1
  <2>2. CASE ~False(w[1])
    BY <1>5, <1>6, <2>2
  <2> QED BY <2>1, <2>2
<1> WITNESS c, pair
<1> QED
  BY <1>1, <1>2, <1>3, <1>4, <1>6, <1>7 DEF AttachesLemma

\* simplify and reduceDB remove learnt clauses; a clause that is a reason is removed only
\* together with the reason.
LEMMA UpkeepFacts ==
  ASSUME SearchInv, Simplify \/ ReduceDB
  PROVE  /\ UNCHANGED <<given, clauses, trail, trail_lim, level, qhead, visit, decision, assumptions>>
         /\ UNCHANGED <<splits, propData, after, pc, ok, conflict_frame, answer>>
         /\ learnts' \subseteq learnts /\ DOMAIN watched' \subseteq DOMAIN watched
         /\ \A c \in DOMAIN watched' : watched'[c] = watched[c]
         /\ pc = "consistent"
         /\ \A v \in Var : reason'[v] = reason[v] \/ (reason'[v] = CRef_Undef /\ decisionLevel = 0)
         /\ \A c \in DOMAIN watched : Locked(c) /\ c \notin DOMAIN watched' =>
              \A v \in Var : reason[v] = c => reason'[v] = CRef_Undef
<1>1. CASE Simplify
  <2> DEFINE gone == {c \in learnts \cup (IF remove_satisfied THEN clauses ELSE {}) : Satisfied(c)}
             locked == {c \in gone \ clauses' : Locked(c)}
  <2>1. /\ UNCHANGED <<given, trail, trail_lim, level, qhead, visit, decision, assumptions>>
        /\ UNCHANGED <<splits, propData, after, pc, ok, conflict_frame, answer>>
        /\ pc = "consistent" /\ decisionLevel = 0
        /\ clauses' = IF remove_satisfied THEN clauses \ gone ELSE clauses
        /\ learnts' = learnts \ gone
        /\ watched' = Detached(gone \ clauses')
        /\ reason' = [v \in Var |-> IF reason[v] \in locked THEN CRef_Undef ELSE reason[v]]
    BY <1>1 DEF Simplify, splitVars, callVars, resultVars
  <2>2. ~remove_satisfied
    BY DEF remove_satisfied
  <2> HIDE DEF gone
  <2>3. clauses' = clauses /\ learnts' \subseteq learnts
    BY <2>1, <2>2
  <2>4. DOMAIN watched' = DOMAIN watched \ (gone \ clauses') /\ \A c \in DOMAIN watched' : watched'[c] = watched[c]
    BY <2>1 DEF Detached
  <2>5. \A c \in DOMAIN watched : Locked(c) /\ c \notin DOMAIN watched' => c \in locked
    BY <2>4
  <2> HIDE DEF locked
  <2>6. \A v \in Var : reason'[v] = IF reason[v] \in locked THEN CRef_Undef ELSE reason[v]
    BY <2>1
  <2> QED BY <2>1, <2>3, <2>4, <2>5, <2>6
<1>2. CASE ReduceDB
  <2>1. PICK gone \in SUBSET Reducible : learnts' = learnts \ gone /\ watched' = Detached(gone \ clauses)
    BY <1>2 DEF ReduceDB
  <2>2. /\ UNCHANGED <<given, clauses, trail, trail_lim, level, reason, qhead, visit, decision, assumptions>>
        /\ UNCHANGED <<splits, propData, after, pc, ok, conflict_frame, answer>> /\ pc = "consistent"
    BY <1>2 DEF ReduceDB, splitVars, callVars, resultVars, trailVars
  <2>3. DOMAIN watched' = DOMAIN watched \ (gone \ clauses) /\ \A c \in DOMAIN watched' : watched'[c] = watched[c]
    BY <2>1 DEF Detached
  <2>4. \A c \in DOMAIN watched : c \notin DOMAIN watched' => ~Locked(c)
    BY <2>3 DEF Reducible
  <2> QED BY <2>1, <2>2, <2>3, <2>4
<1> QED
  BY <1>1, <1>2

-----------------------------------------------------------------------------
\* Reasons.  A clause that is a reason has no literal whose variable is not assigned.
LEMMA ReasonIsOld ==
  ASSUME SearchInv, NEW n \in 0 .. Len(trail), NEW i \in 1 .. n, NEW c, c = reason[var(trail[i])],
         c \notin {CRef_Undef, CRef_Fake}, NEW u \in c, \A j \in 1 .. n : var(trail[j]) # var(u)
  PROVE  FALSE
<1>1. n \in Nat /\ i \in 1 .. Len(trail) /\ trail \in Seq(Lit) /\ Len(trail) \in Nat
  BY TrailLevels
<1>2. Justifies(c, trail, i - 1, trail[i], GivenModel)
  BY <1>1 DEF SearchInv, TrailInv, TrailHolds, Justified
<1>3. u # trail[i]
  OBVIOUS
<1>4. PICK j \in 1 .. i - 1 : trail[j] = -u
  BY <1>2, <1>3 DEF Justifies, FalseBefore
<1>5. u \in Lit
  BY <1>2 DEF Justifies
<1>6. j \in 1 .. n /\ var(trail[j]) = var(u)
  BY <1>1, <1>4, <1>5, LitFacts
<1> QED
  BY <1>6

\* What the literals of the trail have for a reason.
ReasonFirst(i) ==
  reason[var(trail[i])] \notin {CRef_Undef, CRef_Fake} =>
    /\ reason[var(trail[i])] \in DOMAIN watched
    /\ watched[reason[var(trail[i])]][1] = trail[i]

\* Reasons that are kept together with their clauses.
LEMMA ReasonsStay ==
  ASSUME ReasonInv, NEW n, NEW b, Keeps(n, b), KeepsReasons(n),
         \A i \in 1 .. n : LET r == reason[var(trail[i])] IN
           r \in DOMAIN watched /\ r \notin {CRef_Undef, CRef_Fake} /\ watched[r][1] = trail[i] =>
             r \in DOMAIN watched' /\ watched'[r][1] = watched[r][1]
  PROVE  \A i \in 1 .. n : ReasonFirst(i)'
<1> TAKE i \in 1 .. n
<1>1. i \in 1 .. Len(trail)
  BY DEF Keeps
<1>2. trail'[i] = trail[i] /\ reason'[var(trail[i])] = reason[var(trail[i])]
  BY DEF Keeps, KeepsReasons
<1>3. PICK r : r = reason[var(trail[i])]
  OBVIOUS
<1>4. r \notin {CRef_Undef, CRef_Fake} => r \in DOMAIN watched /\ watched[r][1] = trail[i]
  BY <1>1, <1>3 DEF ReasonInv
<1>5. r \notin {CRef_Undef, CRef_Fake} => r \in DOMAIN watched' /\ watched'[r][1] = trail[i]
  BY <1>3, <1>4
<1> QED
  BY <1>2, <1>3, <1>5 DEF ReasonFirst

\* The same, when all clauses that are watched stay as they are.
LEMMA ReasonsStaySame ==
  ASSUME ReasonInv, NEW n, NEW b, Keeps(n, b), KeepsReasons(n), watched' = watched
  PROVE  \A i \in 1 .. n : ReasonFirst(i)'
BY ReasonsStay

\* The same, when a clause with a literal that is not assigned is attached.
LEMMA ReasonsStayAttached ==
  ASSUME SearchInv, ReasonInv, NEW n, NEW b, Keeps(n, b), KeepsReasons(n), NEW c, NEW pair,
         watched' = Attached(c, pair), NEW u \in c, \A j \in 1 .. n : var(trail[j]) # var(u)
  PROVE  \A i \in 1 .. n : ReasonFirst(i)'
<1>1. DOMAIN watched \subseteq DOMAIN watched' /\ \A d \in DOMAIN watched : d # c => watched'[d] = watched[d]
  BY DEF Attached
<1>2. ASSUME NEW i \in 1 .. n, NEW r, r = reason[var(trail[i])], r \notin {CRef_Undef, CRef_Fake}
      PROVE  r # c
  BY <1>2, ReasonIsOld DEF Keeps
<1>3. \A i \in 1 .. n : LET r == reason[var(trail[i])] IN
           r \in DOMAIN watched /\ r \notin {CRef_Undef, CRef_Fake} /\ watched[r][1] = trail[i] =>
             r \in DOMAIN watched' /\ watched'[r][1] = watched[r][1]
  BY <1>1, <1>2
<1> QED
  BY <1>3, ReasonsStay

\* The lemmas and literals that wait.
LemmasWait ==
  /\ \A k \in 1 .. Len(propData) :
       propData[k][2] \in clauses /\ watched[propData[k][2]][1] = propData[k][1]
  /\ \A k \in 1 .. Len(splits) : splits[k] \notin DOMAIN watched
  /\ \A j, k \in 1 .. Len(splits) : splits[j] = splits[k] => j = k

\* Both parts together.
LEMMA ReasonParts ==
  ASSUME NEW n, Len(trail') = n, \A i \in 1 .. n : ReasonFirst(i)', LemmasWait'
  PROVE  ReasonInv'
BY DEF ReasonInv, ReasonFirst, LemmasWait

\* With one more literal on the trail.
LEMMA ReasonPartsMore ==
  ASSUME NEW n \in Nat, NEW l, Appends(n, l), \A i \in 1 .. n : ReasonFirst(i)', LemmasWait',
         \/ reason'[var(l)] \in {CRef_Undef, CRef_Fake}
         \/ reason'[var(l)] \in DOMAIN watched' /\ watched'[reason'[var(l)]][1] = l
  PROVE  ReasonInv'
<1>1. ReasonFirst(n + 1)'
  BY DEF Appends, ReasonFirst
<1>2. \A i \in 1 .. n + 1 : ReasonFirst(i)'
  <2> TAKE i \in 1 .. n + 1
  <2>1. i \in 1 .. n \/ i = n + 1
    OBVIOUS
  <2> QED BY <1>1, <2>1
<1>3. Len(trail') = n + 1
  BY DEF Appends
<1> QED
  BY <1>2, <1>3, ReasonParts

\* Nothing waits.
LEMMA NothingWaits ==
  ASSUME SearchInv', pc' # "split"
  PROVE  LemmasWait'
<1>1. splits' = <<>> /\ propData' = <<>>
  BY DEF SearchInv, PhaseInv
<1> QED
  BY <1>1 DEF LemmasWait

\* The theory sends lemmas that are not attached, each of them once.
LEMMA SplitsWait ==
  ASSUME SearchInv, SearchInv', NEW S \in SplitSets, TheorySplit(S)
  PROVE  LemmasWait'
<1>1. /\ S \cap DOMAIN watched = {} /\ watched' = watched /\ propData' = <<>>
      /\ splits' \in [1 .. Cardinality(S) -> S] /\ Range(splits') = S
  BY DEF TheorySplit, clauseVars
<1>2. S \in SUBSET SplitClause /\ splits' \in Seq(SplitClause)
  BY DEF SplitSets, SearchInv, SplitInv
<1>3. IsFiniteSet(S) /\ Cardinality(S) \in Nat
  <2>1. IsFiniteSet(Lit)
    BY LitFinite
  <2>2. IsFiniteSet(SUBSET Lit)
    BY <2>1, FS_SUBSET
  <2>3. S \subseteq SUBSET Lit
    BY <1>2, ClauseAssumption
  <2> QED BY <2>2, <2>3, FS_Subset, FS_CardinalityType
<1>4. PICK n \in Nat : n = Cardinality(S)
  BY <1>3
<1>5. PICK order \in [1 .. n -> S] : order = splits'
  BY <1>1, <1>4
<1>6. Len(splits') = n
  <2>1. DOMAIN splits' = 1 .. n
    BY <1>5
  <2> QED BY <1>2, <2>1
<1>7. \A x \in S : \E i \in 1 .. n : order[i] = x
  <2>1. Range(order) = {order[i] : i \in DOMAIN order}
    BY DEF Range
  <2> QED BY <1>1, <1>5, <2>1
<1>8. order \in Surjection(1 .. n, S)
  BY <1>7 DEF Surjection
<1>9. IsFiniteSet(1 .. n) /\ Cardinality(1 .. n) = n
  BY FS_Interval
<1>10. order \in Injection(1 .. n, S)
  BY <1>3, <1>4, <1>8, <1>9, FS_SurjSameCardinalityImpliesInj
<1>11. \A j, k \in 1 .. n : order[j] = order[k] => j = k
  BY <1>10 DEF Injection, IsInjective
<1>12. \A k \in 1 .. n : order[k] \in S
  OBVIOUS
<1> QED
  BY <1>1, <1>5, <1>6, <1>11, <1>12 DEF LemmasWait

\* The lemmas after the first one wait.
LEMMA TailWaits ==
  ASSUME SearchInv, LemmasWait, splits # <<>>, splits' = Tail(splits), NEW c, c = Head(splits),
         DOMAIN watched' \subseteq DOMAIN watched \cup {c}
  PROVE  /\ c \notin DOMAIN watched
         /\ \A k \in 1 .. Len(splits') : splits'[k] \notin DOMAIN watched'
         /\ \A j, k \in 1 .. Len(splits') : splits'[j] = splits'[k] => j = k
<1>1. splits \in Seq(SplitClause)
  BY DEF SearchInv, SplitInv
<1>2. c = splits[1] /\ 1 \in 1 .. Len(splits)
  BY <1>1
<1>3. Len(splits') = Len(splits) - 1
      /\ \A k \in 1 .. Len(splits') : splits'[k] = splits[k + 1] /\ k + 1 \in 1 .. Len(splits) /\ k + 1 # 1
  BY <1>1
<1>4. ASSUME NEW k \in 1 .. Len(splits') PROVE splits'[k] \notin DOMAIN watched'
  BY <1>2, <1>3 DEF LemmasWait
<1>5. ASSUME NEW j \in 1 .. Len(splits'), NEW k \in 1 .. Len(splits'), splits'[j] = splits'[k] PROVE j = k
  <2>1. j \in Nat /\ k \in Nat
    BY <1>1
  <2>2. j + 1 = k + 1
    BY <1>3, <1>5 DEF LemmasWait
  <2> QED BY <2>1, <2>2
<1> QED
  BY <1>2, <1>4, <1>5 DEF LemmasWait

\* A lemma that implies a literal is attached with that literal first.
LEMMA SplitUnitReasons ==
  ASSUME SearchInv, SearchInv', ReasonInv, SplitUnit
  PROVE  ReasonInv'
<1>0. PICK n, bt, c, l : SplitsAt(n, bt, c, l)
  BY SplitUnitFacts
<1>1. /\ Keeps(n, bt) /\ KeepsReasons(n)
      /\ c = Head(splits) /\ l \in c /\ l \in Lit /\ Fresh(trail, l)
      /\ \/ /\ bt = 0 /\ Appends(n, l) /\ level'[var(l)] = 0 /\ reason'[var(l)] = CRef_Undef
            /\ propData' \in {<<>>, propData} /\ UNCHANGED <<clauses, watched>>
         \/ /\ bt > 0 /\ Len(trail') = n /\ clauses' = clauses \cup {c} /\ UNCHANGED <<level, reason>>
            /\ \E w \in c \ {l} : watched' = Attached(c, <<l, w>>)
            /\ propData' = (IF bt < decisionLevel THEN <<>> ELSE propData) \o <<<<l, c>>>>
      /\ UNCHANGED learnts
      /\ splits # <<>> /\ splits' = Tail(splits) /\ pc = "split"
  BY <1>0 DEF SplitsAt
<1>2. LemmasWait
  BY DEF ReasonInv, LemmasWait
<1>3. n \in Nat /\ \A j \in 1 .. n : j \in 1 .. Len(trail)
  BY TrailLevels, <1>1 DEF Keeps
<1>4. CASE UNCHANGED <<clauses, watched>> /\ Appends(n, l) /\ reason'[var(l)] = CRef_Undef
           /\ propData' \in {<<>>, propData}
  <2>1. \A i \in 1 .. n : ReasonFirst(i)'
    BY <1>1, <1>4, ReasonsStaySame
  <2>2. /\ \A k \in 1 .. Len(splits') : splits'[k] \notin DOMAIN watched'
        /\ \A j, k \in 1 .. Len(splits') : splits'[j] = splits'[k] => j = k
    BY <1>1, <1>2, <1>4, TailWaits
  <2>3. LemmasWait'
    BY <1>2, <1>4, <2>2 DEF LemmasWait
  <2> QED BY <1>3, <1>4, <2>1, <2>3, ReasonPartsMore
<1>5. CASE Len(trail') = n /\ clauses' = clauses \cup {c} /\ (\E w \in c \ {l} : watched' = Attached(c, <<l, w>>))
           /\ propData' = (IF bt < decisionLevel THEN <<>> ELSE propData) \o <<<<l, c>>>>
  <2>1. PICK w, pair : pair = <<l, w>> /\ watched' = Attached(c, pair)
    BY <1>5
  <2>2. \A j \in 1 .. n : var(trail[j]) # var(l)
    BY <1>1, <1>3 DEF Fresh
  <2>3. \A i \in 1 .. n : ReasonFirst(i)'
    BY <1>1, <2>1, <2>2, ReasonsStayAttached
  <2>4. DOMAIN watched' = DOMAIN watched \cup {c} /\ watched'[c][1] = l
        /\ \A d \in DOMAIN watched : d # c => watched'[d] = watched[d]
    BY <2>1 DEF Attached
  <2>5. /\ c \notin DOMAIN watched
        /\ \A k \in 1 .. Len(splits') : splits'[k] \notin DOMAIN watched'
        /\ \A j, k \in 1 .. Len(splits') : splits'[j] = splits'[k] => j = k
    BY <1>1, <1>2, <2>4, TailWaits
  <2>6. PICK old : old = IF bt < decisionLevel THEN <<>> ELSE propData
    OBVIOUS
  <2>7. propData \in Seq(Lit \X SUBSET Lit) /\ DOMAIN watched = clauses \cup learnts
    BY DEF SearchInv, SplitInv, ClauseInv
  <2>8. c \in SUBSET Lit
    BY <1>1, SplitHead
  <2>9. old \in Seq(Lit \X SUBSET Lit) /\ <<<<l, c>>>> \in Seq(Lit \X SUBSET Lit) /\ Len(<<<<l, c>>>>) = 1
    BY <1>1, <2>6, <2>7, <2>8
  <2>10. \A k \in 1 .. Len(old) : old[k][2] \in clauses /\ watched[old[k][2]][1] = old[k][1]
    BY <1>2, <2>6 DEF LemmasWait
  <2>11. PICK e \in Seq(Lit \X SUBSET Lit) : e = <<<<l, c>>>>
    BY <2>9
  <2>12. propData' = old \o e /\ Len(e) = 1 /\ e[1] = <<l, c>>
    BY <1>5, <2>6, <2>11
  <2>13. /\ Len(old \o e) = Len(old) + Len(e)
         /\ \A j \in 1 .. Len(old) : (old \o e)[j] = old[j]
         /\ \A j \in 1 .. Len(e) : (old \o e)[Len(old) + j] = e[j]
    BY <2>9, ConcatParts
  <2>14. ASSUME NEW k \in 1 .. Len(propData')
         PROVE  propData'[k][2] \in clauses' /\ watched'[propData'[k][2]][1] = propData'[k][1]
    <3>1. Len(old) \in Nat /\ 1 \in 1 .. Len(e)
      BY <2>9, <2>12
    <3>2. k \in 1 .. Len(old) \/ k = Len(old) + 1
      BY <2>12, <2>13, <3>1
    <3>3. CASE k \in 1 .. Len(old)
      <4>1. propData'[k] = old[k] /\ old[k][2] \in clauses /\ watched[old[k][2]][1] = old[k][1]
        BY <2>10, <2>12, <2>13, <3>3
      <4>2. old[k][2] \in DOMAIN watched /\ old[k][2] # c
        BY <2>5, <2>7, <4>1
      <4> QED BY <1>5, <2>4, <4>1, <4>2
    <3>4. CASE k = Len(old) + 1
      <4>1. propData'[k] = <<l, c>>
        BY <2>12, <2>13, <3>1, <3>4
      <4> QED BY <1>5, <2>4, <4>1
    <3> QED BY <3>2, <3>3, <3>4
  <2>15. LemmasWait'
    BY <2>5, <2>14 DEF LemmasWait
  <2> QED BY <1>5, <2>3, <2>15, ReasonParts
<1> QED
  BY <1>1, <1>4, <1>5

\* Attaching a lemma that implies nothing leaves the reasons in place.
LEMMA SplitAttachReasons ==
  ASSUME SearchInv, SearchInv', ReasonInv, SplitAttach
  PROVE  ReasonInv'
<1>1. PICK c, pair : AttachesLemma(c, pair)
  BY SplitAttachFacts
<1>2. /\ c = Head(splits) /\ c \in SUBSET Lit /\ watched' = Attached(c, pair) /\ clauses' = clauses \cup {c}
      /\ UNCHANGED <<learnts, trail, level, reason, propData>>
      /\ splits # <<>> /\ splits' = Tail(splits)
  BY <1>1 DEF AttachesLemma
<1>3. PICK u \in c : Unassigned(u)
  BY <1>1 DEF AttachesLemma
<1>4. trail \in Seq(Lit) /\ Fresh(trail, u)
  BY <1>2, <1>3, TrailLevels, ValueFacts
<1>5. PICK n : n = Len(trail)
  OBVIOUS
<1>6. Keeps(n, 0) /\ Len(trail') = n
  BY <1>2, <1>5, NothingMoves
<1>7. KeepsReasons(n) /\ \A j \in 1 .. n : var(trail[j]) # var(u)
  BY <1>2, <1>4, <1>5 DEF KeepsReasons, Fresh
<1>8. \A i \in 1 .. n : ReasonFirst(i)'
  BY <1>2, <1>6, <1>7, ReasonsStayAttached
<1>9. LemmasWait
  BY DEF ReasonInv, LemmasWait
<1>10. DOMAIN watched' = DOMAIN watched \cup {c} /\ \A d \in DOMAIN watched : d # c => watched'[d] = watched[d]
  BY <1>2 DEF Attached
<1>11. /\ c \notin DOMAIN watched
       /\ \A k \in 1 .. Len(splits') : splits'[k] \notin DOMAIN watched'
       /\ \A j, k \in 1 .. Len(splits') : splits'[j] = splits'[k] => j = k
  BY <1>2, <1>9, <1>10, TailWaits
<1>12. DOMAIN watched = clauses \cup learnts
  BY DEF SearchInv, ClauseInv
<1>13. LemmasWait'
  BY <1>2, <1>9, <1>10, <1>11, <1>12 DEF LemmasWait
<1> QED
  BY <1>6, <1>8, <1>13, ReasonParts

\* A literal that waited is enqueued with its lemma as the reason.
LEMMA SplitEnqueueReasons ==
  ASSUME SearchInv, SearchInv', ReasonInv, SplitEnqueue
  PROVE  ReasonInv'
<1>1. /\ UNCHANGED <<clauses, watched, splits>> /\ propData # <<>> /\ propData' = Tail(propData) /\ splits = <<>>
      /\ \/ UNCHANGED <<trail, level, reason>>
         \/ \E l, n : l = propData[1][1] /\ EnqueuesAt(n, l, propData[1][2], decisionLevel)
  BY SplitEnqueueFacts
<1>2. LemmasWait
  BY DEF ReasonInv, LemmasWait
<1>3. propData \in Seq(Lit \X SUBSET Lit) /\ DOMAIN watched = clauses \cup learnts
  BY DEF SearchInv, SplitInv, ClauseInv
<1>4. 1 \in 1 .. Len(propData) /\ Len(propData') = Len(propData) - 1
      /\ \A k \in 1 .. Len(propData') : propData'[k] = propData[k + 1] /\ k + 1 \in 1 .. Len(propData)
  BY <1>1, <1>3
<1>5. LemmasWait'
  BY <1>1, <1>2, <1>4 DEF LemmasWait
<1>6. CASE UNCHANGED <<trail, level, reason>>
  <2>1. PICK n : n = Len(trail)
    OBVIOUS
  <2>2. Keeps(n, 0) /\ Len(trail') = n /\ KeepsReasons(n)
    BY <1>6, <2>1, NothingMoves DEF KeepsReasons
  <2>3. \A i \in 1 .. n : ReasonFirst(i)'
    BY <1>1, <2>2, ReasonsStaySame
  <2> QED BY <1>5, <2>2, <2>3, ReasonParts
<1>7. CASE \E l, n : l = propData[1][1] /\ EnqueuesAt(n, l, propData[1][2], decisionLevel)
  <2>1. PICK l, n : l = propData[1][1] /\ EnqueuesAt(n, l, propData[1][2], decisionLevel)
    BY <1>7
  <2>2. n \in Nat /\ Keeps(n, 0) /\ KeepsReasons(n) /\ Appends(n, l) /\ reason'[var(l)] = propData[1][2]
    BY <2>1 DEF EnqueuesAt
  <2>3. \A i \in 1 .. n : ReasonFirst(i)'
    BY <1>1, <2>2, ReasonsStaySame
  <2>4. propData[1][2] \in clauses /\ watched[propData[1][2]][1] = l
    BY <1>2, <1>4, <2>1 DEF LemmasWait
  <2>5. reason'[var(l)] \in DOMAIN watched' /\ watched'[reason'[var(l)]][1] = l
    BY <1>1, <1>3, <2>2, <2>4
  <2> QED BY <1>5, <2>2, <2>3, <2>5, ReasonPartsMore
<1> QED
  BY <1>1, <1>6, <1>7

\* propagate keeps the first literal of a clause that is a reason, since it is true.
LEMMA VisitReasons ==
  ASSUME SearchInv, SearchInv', ReasonInv, NEW c \in visit, PropagateVisit(c)
  PROVE  ReasonInv'
<1>1. /\ pc = "propagate" /\ c \in DOMAIN watched /\ DOMAIN watched' = DOMAIN watched
      /\ \A d \in DOMAIN watched : d # c => watched'[d] = watched[d]
      /\ UNCHANGED <<clauses, learnts, splits, propData>>
      /\ watched'[c] = watched[c] \/ watched'[c][1] = First(c)
      /\ pc' = pc \/ pc' = "conflict"
      /\ \/ UNCHANGED <<trail, level, reason>>
         \/ /\ watched'[c][1] = First(c)
            /\ \E n : EnqueuesAt(n, First(c), c, decisionLevel)
  BY VisitStep
<1>2. LemmasWait'
  BY <1>1, NothingWaits
<1>3. PICK q \in 1 .. Len(trail) : q = qhead /\ falseLit = -trail[q]
  BY <1>1, VisitFacts
<1>4. trail \in Seq(Lit) /\ Distinct(trail)
  BY DEF SearchInv, TrailInv, TrailHolds, TrailFits
<1>5. ASSUME NEW i \in 1 .. Len(trail), NEW r \in DOMAIN watched, watched[r][1] = trail[i]
      PROVE  watched'[r][1] = watched[r][1]
  <2>1. CASE r # c
    BY <1>1, <2>1
  <2>2. CASE r = c
    <3>1. trail[i] \in Lit /\ trail[q] \in Lit
      BY <1>4
    <3>2. trail[i] # -trail[q]
      <4> SUFFICES ASSUME trail[i] = -trail[q] PROVE FALSE
        OBVIOUS
      <4>1. var(trail[i]) = var(trail[q]) /\ trail[i] # trail[q]
        BY <3>1, LitFacts
      <4>2. i = q
        BY <1>4, <4>1 DEF Distinct
      <4> QED BY <4>1, <4>2
    <3>3. First(c) = watched[c][1]
      BY <1>3, <1>5, <2>2, <3>2 DEF First
    <3> QED BY <1>1, <2>2, <3>3
  <2> QED BY <2>1, <2>2
<1>6. CASE UNCHANGED <<trail, level, reason>>
  <2>1. PICK n : n = Len(trail)
    OBVIOUS
  <2>2. Keeps(n, 0) /\ Len(trail') = n /\ KeepsReasons(n)
    BY <1>6, <2>1, NothingMoves DEF KeepsReasons
  <2>3. \A i \in 1 .. n : ReasonFirst(i)'
    BY <1>1, <1>5, <2>1, <2>2, ReasonsStay
  <2> QED BY <1>2, <2>2, <2>3, ReasonParts
<1>7. CASE watched'[c][1] = First(c) /\ \E n : EnqueuesAt(n, First(c), c, decisionLevel)
  <2>1. PICK n : EnqueuesAt(n, First(c), c, decisionLevel)
    BY <1>7
  <2>2. PICK l : l = First(c)
    OBVIOUS
  <2>3. n \in Nat /\ n = Len(trail) /\ Keeps(n, 0) /\ KeepsReasons(n) /\ Appends(n, l) /\ reason'[var(l)] = c
    BY <2>1, <2>2 DEF EnqueuesAt
  <2>4. \A i \in 1 .. n : ReasonFirst(i)'
    BY <1>1, <1>5, <2>3, ReasonsStay
  <2>5. reason'[var(l)] \in DOMAIN watched' /\ watched'[reason'[var(l)]][1] = l
    BY <1>1, <1>7, <2>2, <2>3
  <2> QED BY <1>2, <2>3, <2>4, <2>5, ReasonPartsMore
<1> QED
  BY <1>1, <1>6, <1>7

\* The learnt clause is attached with the literal it asserts first.
LEMMA LearnReasons ==
  ASSUME SearchInv, SearchInv', ReasonInv, Learn
  PROVE  ReasonInv'
<1>1. PICK n, bt, c : LearnsAt(n, bt, c)
  BY LearnFacts
<1>2. /\ Keeps(n, bt) /\ KeepsReasons(n) /\ Appends(n, -p) /\ var(-p) = var(p) /\ pc' = "loop"
      /\ \/ reason'[var(p)] = CRef_Undef /\ watched' = watched
         \/ reason'[var(p)] = c /\ -p \in c /\ \E l \in Minimized : watched' = Attached(c, <<-p, l>>)
  BY <1>1 DEF LearnsAt
<1>3. LemmasWait'
  BY <1>2, NothingWaits
<1>4. n \in Nat
  BY <1>2, TrailLevels DEF Keeps
<1>5. PICK l : l = -p
  OBVIOUS
<1>6. Appends(n, l) /\ \A j \in 1 .. n : var(trail[j]) # var(l)
  BY <1>2, <1>5 DEF Appends
<1>7. CASE reason'[var(p)] = CRef_Undef /\ watched' = watched
  <2>1. \A i \in 1 .. n : ReasonFirst(i)'
    BY <1>2, <1>7, ReasonsStaySame
  <2> QED BY <1>2, <1>3, <1>4, <1>5, <1>6, <1>7, <2>1, ReasonPartsMore
<1>8. CASE reason'[var(p)] = c /\ -p \in c /\ \E k \in Minimized : watched' = Attached(c, <<-p, k>>)
  <2>1. PICK k, pair : pair = <<l, k>> /\ watched' = Attached(c, pair)
    BY <1>5, <1>8
  <2>2. \A i \in 1 .. n : ReasonFirst(i)'
    BY <1>2, <1>5, <1>6, <1>8, <2>1, ReasonsStayAttached
  <2>3. c \in DOMAIN watched' /\ watched'[c][1] = l
    BY <2>1 DEF Attached
  <2>4. reason'[var(l)] = c
    BY <1>2, <1>5, <1>8
  <2> QED BY <1>3, <1>4, <1>6, <2>2, <2>3, <2>4, ReasonPartsMore
<1> QED
  BY <1>2, <1>7, <1>8

\* A clause is attached with literals that are not assigned.
LEMMA AddReasons ==
  ASSUME SearchInv, SearchInv', ReasonInv, NEW c \in InputClause, AddOriginalClause(c)
  PROVE  ReasonInv'
<1>1. /\ pc = "idle"
      /\ \/ UNCHANGED <<watched, trail, level, reason, pc>>
         \/ /\ pc' = "propagate" /\ UNCHANGED watched
            /\ \E l, n : l \in c /\ EnqueuesAt(n, l, CRef_Undef, 0)
         \/ /\ UNCHANGED <<trail, level, reason, pc>>
            /\ \E ps, pair : /\ ps \subseteq c /\ \A l \in ps : Unassigned(l)
                             /\ pair[1] \in ps /\ watched' = Attached(ps, pair)
  BY AddFacts
<1>2. LemmasWait'
  BY <1>1, NothingWaits
<1>3. CASE UNCHANGED <<watched, trail, level, reason>>
  <2>1. PICK n : n = Len(trail)
    OBVIOUS
  <2>2. Keeps(n, 0) /\ Len(trail') = n /\ KeepsReasons(n)
    BY <1>3, <2>1, NothingMoves DEF KeepsReasons
  <2>3. \A i \in 1 .. n : ReasonFirst(i)'
    BY <1>3, <2>2, ReasonsStaySame
  <2> QED BY <1>2, <2>2, <2>3, ReasonParts
<1>4. CASE UNCHANGED watched /\ \E l, n : l \in c /\ EnqueuesAt(n, l, CRef_Undef, 0)
  <2>1. PICK l, n : EnqueuesAt(n, l, CRef_Undef, 0)
    BY <1>4
  <2>2. n \in Nat /\ Keeps(n, 0) /\ KeepsReasons(n) /\ Appends(n, l) /\ reason'[var(l)] = CRef_Undef
    BY <2>1 DEF EnqueuesAt
  <2>3. \A i \in 1 .. n : ReasonFirst(i)'
    BY <1>4, <2>2, ReasonsStaySame
  <2> QED BY <1>2, <2>2, <2>3, ReasonPartsMore
<1>5. CASE /\ UNCHANGED <<trail, level, reason, pc>>
           /\ \E ps, pair : /\ ps \subseteq c /\ \A l \in ps : Unassigned(l)
                            /\ pair[1] \in ps /\ watched' = Attached(ps, pair)
  <2>1. PICK n : n = Len(trail)
    OBVIOUS
  <2>2. Keeps(n, 0) /\ Len(trail') = n /\ KeepsReasons(n)
    BY <1>5, <2>1, NothingMoves DEF KeepsReasons
  <2>3. PICK ps, pair : /\ ps \subseteq c /\ \A l \in ps : Unassigned(l)
                        /\ pair[1] \in ps /\ watched' = Attached(ps, pair)
    BY <1>5
  <2>4. PICK u \in ps : u = pair[1]
    BY <2>3
  <2>5. u \in Lit /\ Unassigned(u)
    BY <2>3, ClauseAssumption
  <2>6. \A j \in 1 .. n : var(trail[j]) # var(u)
    BY <2>1, <2>5, TrailLevels, ValueFacts DEF Fresh
  <2>7. \A i \in 1 .. n : ReasonFirst(i)'
    BY <2>2, <2>3, <2>6, ReasonsStayAttached
  <2> QED BY <1>2, <2>2, <2>7, ReasonParts
<1> QED
  BY <1>1, <1>3, <1>4, <1>5

\* simplify and reduceDB never leave a reason without its clause: locked() finds it by
\* the first literal.
LEMMA UpkeepReasons ==
  ASSUME SearchInv, SearchInv', ReasonInv, Simplify \/ ReduceDB
  PROVE  ReasonInv'
<1>1. /\ UNCHANGED <<trail, pc>> /\ pc = "consistent"
      /\ \A c \in DOMAIN watched' : watched'[c] = watched[c]
      /\ \A v \in Var : reason'[v] = reason[v] \/ reason'[v] = CRef_Undef
      /\ \A c \in DOMAIN watched : Locked(c) /\ c \notin DOMAIN watched' =>
           \A v \in Var : reason[v] = c => reason'[v] = CRef_Undef
  BY UpkeepFacts
<1>2. LemmasWait'
  BY <1>1, NothingWaits
<1>3. ASSUME NEW i \in 1 .. Len(trail') PROVE ReasonFirst(i)'
  <2>1. trail' = trail /\ i \in 1 .. Len(trail) /\ trail[i] \in Lit /\ trail \in Seq(Lit)
    BY <1>1, TrailLevels
  <2>2. PICK v \in Var : v = var(trail[i])
    BY <2>1, LitFacts
  <2>3. PICK r : r = reason[v]
    OBVIOUS
  <2>4. r \notin {CRef_Undef, CRef_Fake} => r \in DOMAIN watched /\ watched[r][1] = trail[i]
    BY <2>1, <2>2, <2>3 DEF ReasonInv
  <2>5. r \notin {CRef_Undef, CRef_Fake} => Locked(r)
    BY <2>1, <2>2, <2>3, <2>4, ValueFacts DEF Locked
  <2>6. r \notin {CRef_Undef, CRef_Fake} /\ reason'[v] = r => r \in DOMAIN watched' /\ watched'[r][1] = trail[i]
    BY <1>1, <2>3, <2>4, <2>5
  <2> QED BY <1>1, <2>1, <2>2, <2>3, <2>6 DEF ReasonFirst
<1> QED
  BY <1>2, <1>3, ReasonParts

\* The reason of every literal stays in place.
LEMMA ReasonKeeps ==
  ASSUME SearchInv, SearchInv', ReasonInv, [Next]_vars
  PROVE  ReasonInv'
<1>1. CASE Quiet
  <2>1. UNCHANGED <<watched, trail, level, reason, clauses>>
        /\ ((\E S \in SplitSets : TheorySplit(S)) \/ UNCHANGED <<splits, propData>>)
    BY <1>1, QuietFacts
  <2>2. LemmasWait
    BY DEF ReasonInv, LemmasWait
  <2>3. LemmasWait'
    <3>1. CASE UNCHANGED <<splits, propData>>
      BY <2>1, <2>2, <3>1 DEF LemmasWait
    <3> QED BY <2>1, <3>1, SplitsWait
  <2>4. PICK n : n = Len(trail)
    OBVIOUS
  <2>5. Keeps(n, 0) /\ Len(trail') = n /\ KeepsReasons(n)
    BY <2>1, <2>4, NothingMoves DEF KeepsReasons
  <2>6. \A i \in 1 .. n : ReasonFirst(i)'
    BY <2>1, <2>5, ReasonsStaySame
  <2> QED BY <2>3, <2>5, <2>6, ReasonParts
<1>2. CASE Ends
  <2>1. PICK n : EndsAt(n)
    BY <1>2, EndsFacts
  <2>2. Keeps(n, 0) /\ KeepsReasons(n) /\ Len(trail') = n /\ watched' = watched /\ pc' # "split"
    BY <2>1 DEF EndsAt, KeepsReasons
  <2>3. \A i \in 1 .. n : ReasonFirst(i)'
    BY <2>2, ReasonsStaySame
  <2> QED BY <2>2, <2>3, ReasonParts, NothingWaits
<1>3. CASE AnalyzeStep
  <2>1. PICK n, i, q, marked : AnalyzesAt(n, i, q, marked)
    BY <1>3, AnalyzeFacts
  <2>2. PICK b : b = decisionLevel - 1
    OBVIOUS
  <2>3. Keeps(n, b) /\ KeepsReasons(n) /\ Len(trail') = n /\ watched' = watched /\ pc' # "split"
    BY <2>1, <2>2 DEF AnalyzesAt
  <2>4. \A j \in 1 .. n : ReasonFirst(j)'
    BY <2>3, ReasonsStaySame
  <2> QED BY <2>3, <2>4, ReasonParts, NothingWaits
<1>4. CASE \E t \in TheoryConflict : TheoryUnsat(t)
  <2>1. PICK t \in TheoryConflict : TheoryUnsat(t)
    BY <1>4
  <2>2. PICK n, b : UnsatAt(t, n, b)
    BY <2>1, UnsatFacts
  <2>3. Keeps(n, b) /\ KeepsReasons(n) /\ Len(trail') = n /\ watched' = watched /\ pc' # "split"
    BY <2>2 DEF UnsatAt, KeepsReasons
  <2>4. \A j \in 1 .. n : ReasonFirst(j)'
    BY <2>3, ReasonsStaySame
  <2> QED BY <2>3, <2>4, ReasonParts, NothingWaits
<1>5. CASE DeduceNext
  <2>1. /\ watched' = watched /\ pc' # "split"
        /\ \/ UNCHANGED <<trail, level, reason>>
           \/ \E l, n : EnqueuesAt(n, l, CRef_Fake, decisionLevel)
    BY <1>5, DeduceNextFacts
  <2>2. CASE UNCHANGED <<trail, level, reason>>
    <3>1. PICK n : n = Len(trail)
      OBVIOUS
    <3>2. Keeps(n, 0) /\ Len(trail') = n /\ KeepsReasons(n)
      BY <2>2, <3>1, NothingMoves DEF KeepsReasons
    <3>3. \A i \in 1 .. n : ReasonFirst(i)'
      BY <2>1, <3>2, ReasonsStaySame
    <3> QED BY <2>1, <3>2, <3>3, ReasonParts, NothingWaits
  <2>3. CASE \E l, n : EnqueuesAt(n, l, CRef_Fake, decisionLevel)
    <3>1. PICK l, n : EnqueuesAt(n, l, CRef_Fake, decisionLevel)
      BY <2>3
    <3>2. n \in Nat /\ Keeps(n, 0) /\ KeepsReasons(n) /\ Appends(n, l) /\ reason'[var(l)] = CRef_Fake
      BY <3>1 DEF EnqueuesAt
    <3>3. \A i \in 1 .. n : ReasonFirst(i)'
      BY <2>1, <3>2, ReasonsStaySame
    <3> QED BY <2>1, <3>2, <3>3, ReasonPartsMore, NothingWaits
  <2> QED BY <2>1, <2>2, <2>3
<1>6. CASE \E l \in Lit : Decide(l)
  <2>1. PICK l \in Lit : Decide(l)
    BY <1>6
  <2>2. watched' = watched /\ pc' # "split" /\ \E n : EnqueuesAt(n, l, CRef_Undef, decisionLevel + 1)
    BY <2>1, DecideFacts
  <2>3. PICK n : EnqueuesAt(n, l, CRef_Undef, decisionLevel + 1)
    BY <2>2
  <2>4. n \in Nat /\ Keeps(n, 0) /\ KeepsReasons(n) /\ Appends(n, l) /\ reason'[var(l)] = CRef_Undef
    BY <2>3 DEF EnqueuesAt
  <2>5. \A i \in 1 .. n : ReasonFirst(i)'
    BY <2>2, <2>4, ReasonsStaySame
  <2> QED BY <2>2, <2>4, <2>5, ReasonPartsMore, NothingWaits
<1>7. CASE \E c \in visit : PropagateVisit(c)
  BY <1>7, VisitReasons
<1>8. CASE \E c \in InputClause : AddOriginalClause(c)
  BY <1>8, AddReasons
<1> QED
  BY <1>1, <1>2, <1>3, <1>4, <1>5, <1>6, <1>7, <1>8, StepCases, SplitUnitReasons, SplitAttachReasons,
     SplitEnqueueReasons, LearnReasons, UpkeepReasons

-----------------------------------------------------------------------------
\* Frame variables.
LEMMA FrameVarFacts ==
  ASSUME NEW v \in FrameVar
  PROVE  v \in Var /\ v \notin TheoryVar /\ v > 0 /\ -v \in Lit /\ var(v) = v /\ var(-v) = v /\ v \in Lit
<1>1. PICK as \in Assumption : v \in {var(as[i]) : i \in 1 .. Len(as)}
  BY DEF FrameVar
<1>2. PICK i \in 1 .. Len(as) : v = var(as[i])
  BY <1>1
<1>3. as \in Seq({l \in Lit : var(l) \notin TheoryVar})
  BY FrameAssumption
<1>4. as[i] \in Lit /\ var(as[i]) \notin TheoryVar
  <2>1. PICK S : S = {l \in Lit : var(l) \notin TheoryVar}
    OBVIOUS
  <2>2. PICK s \in Seq(S) : s = as
    BY <1>3, <2>1
  <2>3. Len(s) = Len(as)
    BY <2>2
  <2>4. i \in 1 .. Len(s)
    BY <1>2, <2>3
  <2>5. s[i] \in S
    BY <2>4
  <2> QED BY <2>1, <2>2, <2>5
<1>5. v \in Var
  BY <1>2, <1>4, LitFacts
<1>6. v \in Lit /\ -v \in Lit
  BY <1>5 DEF Lit
<1>7. v \in Nat /\ v # 0
  BY <1>5, VarAssumption
<1>8. v > 0 /\ var(v) = v /\ var(-v) = v
  BY <1>7 DEF var
<1> QED
  BY <1>2, <1>4, <1>5, <1>6, <1>8

\* Clauses that are positive in the frame variables: parts of one, those of the theory
\* and those that come from outside.
LEMMA PositiveFacts ==
  /\ \A c, d : c \subseteq d /\ Positive(d) => Positive(c)
  /\ \A c, d : Positive(c) /\ Positive(d) => Positive(c \cup d)
  /\ Positive({})
  /\ \A t \in TheoryConflict : Positive(Negated(t))
  /\ \A c \in InputClause \cup SplitClause : Positive(c)
<1>1. ASSUME NEW t \in TheoryConflict, NEW v \in FrameVar PROVE -v \notin Negated(t)
  <2> SUFFICES ASSUME -v \in Negated(t) PROVE FALSE
    OBVIOUS
  <2>1. PICK l \in t : -v = -l
    BY DEF Negated
  <2>2. l \in Lit /\ var(l) \in TheoryVar
    BY TheoryAssumption
  <2>3. var(l) = v
    BY <2>1, <2>2, FrameVarFacts, LitFacts
  <2> QED BY <2>2, <2>3, FrameVarFacts
<1>2. \A c \in InputClause \cup SplitClause : \A v \in FrameVar : -v \notin c
  BY FrameAssumption
<1> QED
  BY <1>1, <1>2 DEF Positive

\* A frame variable is false on the trail only above level zero and without a reason.
FrameTrail ==
  \A i \in 1 .. Len(trail) : \A v \in FrameVar :
    trail[i] = -v => level[v] > 0 /\ reason[v] = CRef_Undef

\* This holds of the part of the trail that stays, ...
LEMMA FrameTrailStays ==
  ASSUME FrameInv, NEW n, NEW b, Keeps(n, b), KeepsReasons(n)
  PROVE  \A i \in 1 .. n : \A v \in FrameVar :
           trail'[i] = -v => level'[v] > 0 /\ reason'[v] = CRef_Undef
<1> TAKE i \in 1 .. n
<1> TAKE v \in FrameVar
<1> HAVE trail'[i] = -v
<1>1. i \in 1 .. Len(trail)
  BY DEF Keeps
<1>2. trail'[i] = trail[i] /\ level'[var(trail[i])] = level[var(trail[i])]
      /\ reason'[var(trail[i])] = reason[var(trail[i])]
  BY DEF Keeps, KeepsReasons
<1>3. trail[i] = -v /\ var(trail[i]) = v
  BY <1>2, FrameVarFacts
<1> QED
  BY <1>1, <1>2, <1>3 DEF FrameInv

\* ... of all of it when nothing is added, ...
LEMMA FrameTrailSame ==
  ASSUME FrameInv, NEW n, NEW b, Keeps(n, b), KeepsReasons(n), Len(trail') = n
  PROVE  FrameTrail'
BY FrameTrailStays DEF FrameTrail

\* ... and when what is added is not such a literal.
LEMMA FrameTrailMore ==
  ASSUME FrameInv, NEW n \in Nat, NEW b, Keeps(n, b), KeepsReasons(n), NEW l, Appends(n, l),
         \A v \in FrameVar : l = -v => level'[v] > 0 /\ reason'[v] = CRef_Undef
  PROVE  FrameTrail'
<1>1. \A i \in 1 .. n : \A v \in FrameVar :
           trail'[i] = -v => level'[v] > 0 /\ reason'[v] = CRef_Undef
  BY FrameTrailStays
<1>2. Len(trail') = n + 1 /\ trail'[n + 1] = l
  BY DEF Appends
<1>3. ASSUME NEW i \in 1 .. Len(trail'), NEW v \in FrameVar, trail'[i] = -v
      PROVE  level'[v] > 0 /\ reason'[v] = CRef_Undef
  <2>1. i \in 1 .. n \/ i = n + 1
    BY <1>2
  <2> QED BY <1>1, <1>2, <1>3, <2>1
<1> QED
  BY <1>3 DEF FrameTrail

\* Outside of analyze these are all parts of FrameInv.
LEMMA FrameParts ==
  ASSUME FrameTrail', assumptions' = <<>> \/ assumptions' \in Assumption,
         \A c \in clauses' \cup learnts' : Positive(c),
         pc' \notin {"conflict", "analyze", "learn"}
  PROVE  FrameInv'
BY DEF FrameInv, FrameTrail, Positive, FrameVar

\* propagate enqueues literals of clauses.
LEMMA VisitFrames ==
  ASSUME SearchInv, SearchInv', FrameInv, NEW c \in visit, PropagateVisit(c)
  PROVE  FrameInv'
<1>1. /\ pc = "propagate" /\ c \in DOMAIN watched
      /\ UNCHANGED <<clauses, learnts, assumptions>>
      /\ \/ UNCHANGED <<trail, level, reason, pc, confl>>
         \/ UNCHANGED <<pc, confl>> /\ \E n : EnqueuesAt(n, First(c), c, decisionLevel)
         \/ UNCHANGED <<trail, level, reason>> /\ pc' = "conflict" /\ confl' = c
  BY VisitStep
<1>2. Positive(c) /\ First(c) \in c
  BY <1>1, VisitFacts DEF FrameInv
<1>3. FrameTrail'
  <2>1. CASE UNCHANGED <<trail, level, reason>>
    BY <2>1 DEF FrameInv, FrameTrail
  <2>2. CASE \E n : EnqueuesAt(n, First(c), c, decisionLevel)
    <3>1. PICK l : l = First(c)
      OBVIOUS
    <3>2. PICK n : EnqueuesAt(n, l, c, decisionLevel)
      BY <2>2, <3>1
    <3>3. n \in Nat /\ Keeps(n, 0) /\ KeepsReasons(n) /\ Appends(n, l)
      BY <3>2 DEF EnqueuesAt
    <3>4. \A v \in FrameVar : l # -v
      BY <1>2, <3>1 DEF Positive
    <3> QED BY <3>3, <3>4, FrameTrailMore
  <2> QED BY <1>1, <2>1, <2>2
<1> QED
  BY <1>1, <1>2, <1>3 DEF FrameInv, FrameTrail, Positive, FrameVar

\* analyze resolves such clauses.
LEMMA AnalyzeFrames ==
  ASSUME SearchInv, SearchInv', FrameInv, ReasonInv, AnalyzeStep
  PROVE  FrameInv'
<1>1. PICK n, i, q, marked : AnalyzesAt(n, i, q, marked)
  BY AnalyzeFacts
<1>2. PICK b : b = decisionLevel - 1
  OBVIOUS
<1>3. /\ Keeps(n, b) /\ Len(trail') = n /\ KeepsReasons(n)
      /\ marked = seen \cup {l \in confl \ {p} : level[var(l)] > 0}
      /\ i \in 1 .. Len(trail) /\ q = trail[i] /\ -q \in marked
      /\ p' = q /\ seen' = marked \ {-q}
      /\ \/ reason[var(q)] # CRef_Fake /\ confl' = reason[var(q)]
         \/ \E t \in TheoryConflict : confl' = Negated(t)
      /\ UNCHANGED <<clauses, learnts, assumptions>>
      /\ pc = "analyze" /\ pc' \in {"learn", "analyze"}
  BY <1>1, <1>2 DEF AnalyzesAt
<1>4. Positive(seen) /\ Positive(confl)
  BY <1>3 DEF FrameInv
<1>5. Positive(marked)
  BY <1>3, <1>4 DEF Positive
<1>6. Positive(seen') /\ Positive({-q})
  BY <1>3, <1>5 DEF Positive
<1>7. Positive(confl')
  <2>1. CASE \E t \in TheoryConflict : confl' = Negated(t)
    BY <2>1, PositiveFacts
  <2>2. CASE reason[var(q)] # CRef_Fake /\ confl' = reason[var(q)]
    <3>1. CASE reason[var(q)] = CRef_Undef
      BY <2>2, <3>1, PositiveFacts DEF CRef_Undef
    <3>2. CASE reason[var(q)] # CRef_Undef
      <4>1. reason[var(q)] \in DOMAIN watched
        BY <1>3, <2>2, <3>2 DEF ReasonInv
      <4>2. reason[var(q)] \in clauses \cup learnts
        BY <4>1 DEF SearchInv, ClauseInv
      <4> QED BY <2>2, <4>2 DEF FrameInv
    <3> QED BY <3>1, <3>2
  <2> QED BY <1>3, <2>1, <2>2
<1>8. FrameTrail'
  BY <1>3, FrameTrailSame
<1>9. pc' = "learn" => Positive({-p'})
  BY <1>3, <1>6
<1> QED
  BY <1>3, <1>6, <1>7, <1>8, <1>9 DEF FrameInv, FrameTrail, Positive, FrameVar

\* The learnt clause is one.
LEMMA LearnFrames ==
  ASSUME SearchInv, SearchInv', FrameInv, Learn
  PROVE  FrameInv'
<1>1. PICK n, bt, c : LearnsAt(n, bt, c)
  BY LearnFacts
<1>2. /\ Keeps(n, bt) /\ KeepsReasons(n) /\ Appends(n, -p) /\ pc = "learn" /\ pc' = "loop"
      /\ c = Minimized \cup {-p} /\ Minimized \subseteq seen
      /\ learnts' = learnts \/ learnts' = learnts \cup {c}
      /\ UNCHANGED <<clauses, assumptions>>
  BY <1>1 DEF LearnsAt
<1>3. Positive(seen) /\ Positive({-p})
  BY <1>2 DEF FrameInv
<1>4. Positive(c)
  BY <1>2, <1>3 DEF Positive
<1>5. n \in Nat
  BY <1>2, TrailLevels DEF Keeps
<1>6. PICK l : l = -p
  OBVIOUS
<1>7. \A v \in FrameVar : l # -v
  BY <1>3, <1>6 DEF Positive
<1>8. FrameTrail'
  BY <1>2, <1>5, <1>6, <1>7, FrameTrailMore
<1>9. assumptions' = <<>> \/ assumptions' \in Assumption
  BY <1>2 DEF FrameInv
<1>10. \A d \in clauses' \cup learnts' : Positive(d)
  BY <1>2, <1>4 DEF FrameInv
<1> QED
  BY <1>2, <1>8, <1>9, <1>10, FrameParts

\* Lemmas have no frame variable.
LEMMA SplitFrames ==
  ASSUME SearchInv, SearchInv', FrameInv, ReasonInv, SplitUnit \/ SplitAttach \/ SplitEnqueue
  PROVE  FrameInv'
<1>1. CASE SplitUnit
  <2>1. PICK n, bt, c, l : SplitsAt(n, bt, c, l)
    BY <1>1, SplitUnitFacts
  <2>2. /\ Keeps(n, bt) /\ KeepsReasons(n) /\ c = Head(splits) /\ splits # <<>> /\ pc = "split" /\ pc' = "split"
        /\ l \in c /\ (Appends(n, l) \/ Len(trail') = n) /\ UNCHANGED <<learnts, assumptions>>
        /\ clauses' = clauses \/ clauses' = clauses \cup {c}
    BY <2>1 DEF SplitsAt
  <2>3. c \in SplitClause
    BY <2>2, SplitHead
  <2>4. Positive(c)
    BY <2>3, PositiveFacts
  <2>5. \A v \in FrameVar : l # -v
    BY <2>2, <2>4 DEF Positive
  <2>6. n \in Nat
    BY <2>2, TrailLevels DEF Keeps
  <2>7. FrameTrail'
    BY <2>2, <2>5, <2>6, FrameTrailMore, FrameTrailSame
  <2>8. \A d \in clauses' \cup learnts' : Positive(d)
    BY <2>2, <2>4 DEF FrameInv
  <2>9. assumptions' = <<>> \/ assumptions' \in Assumption
    BY <2>2 DEF FrameInv
  <2> QED BY <2>2, <2>7, <2>8, <2>9, FrameParts
<1>2. CASE SplitAttach
  <2>1. PICK c, pair : AttachesLemma(c, pair)
    BY <1>2, SplitAttachFacts
  <2>2. c \in SplitClause /\ UNCHANGED <<learnts, assumptions, trail, level, reason>> /\ clauses' = clauses \cup {c}
        /\ pc' = "split"
    BY <2>1 DEF AttachesLemma
  <2>3. Positive(c)
    BY <2>2, PositiveFacts
  <2>4. FrameTrail'
    BY <2>2 DEF FrameTrail, FrameInv
  <2>5. \A d \in clauses' \cup learnts' : Positive(d)
    BY <2>2, <2>3 DEF FrameInv
  <2>6. assumptions' = <<>> \/ assumptions' \in Assumption
    BY <2>2 DEF FrameInv
  <2> QED BY <2>2, <2>4, <2>5, <2>6, FrameParts
<1>3. CASE SplitEnqueue
  <2>1. /\ UNCHANGED <<clauses, learnts, assumptions>> /\ pc' = "split" /\ propData # <<>>
        /\ \/ UNCHANGED <<trail, level, reason>>
           \/ \E l, n : l = propData[1][1] /\ EnqueuesAt(n, l, propData[1][2], decisionLevel)
    BY <1>3, SplitEnqueueFacts
  <2>2. FrameTrail'
    <3>1. CASE UNCHANGED <<trail, level, reason>>
      BY <3>1 DEF FrameTrail, FrameInv
    <3>2. CASE \E l, n : l = propData[1][1] /\ EnqueuesAt(n, l, propData[1][2], decisionLevel)
      <4>1. PICK l, n : l = propData[1][1] /\ EnqueuesAt(n, l, propData[1][2], decisionLevel)
        BY <3>2
      <4>2. n \in Nat /\ Keeps(n, 0) /\ KeepsReasons(n) /\ Appends(n, l)
        BY <4>1 DEF EnqueuesAt
      <4>3. PICK c : c = propData[1][2]
        OBVIOUS
      <4>4. 1 \in 1 .. Len(propData)
        BY <2>1 DEF SearchInv, SplitInv
      <4>5. c \in clauses /\ watched[c][1] = l
        BY <4>1, <4>3, <4>4 DEF ReasonInv
      <4>6. watched[c] \in Seq(c) /\ Len(watched[c]) = 2
        BY <4>5 DEF SearchInv, ClauseInv
      <4>7. l \in c
        BY <4>5, <4>6
      <4>8. \A v \in FrameVar : l # -v
        BY <4>5, <4>7 DEF FrameInv, Positive
      <4> QED BY <4>2, <4>8, FrameTrailMore
    <3> QED BY <2>1, <3>1, <3>2
  <2>3. \A d \in clauses' \cup learnts' : Positive(d)
    BY <2>1 DEF FrameInv
  <2>4. assumptions' = <<>> \/ assumptions' \in Assumption
    BY <2>1 DEF FrameInv
  <2> QED BY <2>1, <2>2, <2>3, <2>4, FrameParts
<1> QED
  BY <1>1, <1>2, <1>3

\* Clauses that are added have frame variables only as positive literals.
LEMMA AddFrames ==
  ASSUME SearchInv, SearchInv', FrameInv, NEW c \in InputClause, AddOriginalClause(c)
  PROVE  FrameInv'
<1>1. /\ UNCHANGED <<learnts, assumptions>> /\ pc = "idle" /\ pc' \in {"idle", "propagate"}
      /\ UNCHANGED <<trail, level, reason>> \/ \E l, n : l \in c /\ EnqueuesAt(n, l, CRef_Undef, 0)
      /\ clauses' = clauses \/ \E ps : ps \subseteq c /\ clauses' = clauses \cup {ps}
  <2>1. /\ pc = "idle" /\ UNCHANGED <<learnts, assumptions>>
        /\ \/ UNCHANGED <<clauses, trail, level, reason, pc>>
           \/ /\ pc' = "propagate" /\ UNCHANGED clauses
              /\ \E l, n : l \in c /\ EnqueuesAt(n, l, CRef_Undef, 0)
           \/ /\ UNCHANGED <<trail, level, reason, pc>>
              /\ \E ps, pair : ps \subseteq c /\ clauses' = clauses \cup {ps}
    BY AddFacts
  <2> QED BY <2>1
<1>2. Positive(c)
  BY PositiveFacts
<1>3. FrameTrail'
  <2>1. CASE UNCHANGED <<trail, level, reason>>
    BY <2>1 DEF FrameTrail, FrameInv
  <2>2. CASE \E l, n : l \in c /\ EnqueuesAt(n, l, CRef_Undef, 0)
    <3>1. PICK l, n : l \in c /\ EnqueuesAt(n, l, CRef_Undef, 0)
      BY <2>2
    <3>2. n \in Nat /\ Keeps(n, 0) /\ KeepsReasons(n) /\ Appends(n, l)
      BY <3>1 DEF EnqueuesAt
    <3>3. \A v \in FrameVar : l # -v
      BY <1>2, <3>1 DEF Positive
    <3> QED BY <3>2, <3>3, FrameTrailMore
  <2> QED BY <1>1, <2>1, <2>2
<1>4. \A d \in clauses' \cup learnts' : Positive(d)
  BY <1>1, <1>2 DEF FrameInv, Positive
<1>5. assumptions' = <<>> \/ assumptions' \in Assumption
  BY <1>1 DEF FrameInv
<1> QED
  BY <1>1, <1>3, <1>4, <1>5, FrameParts

\* Frame variables are implied only to be true.
LEMMA FrameKeeps ==
  ASSUME SearchInv, SearchInv', FrameInv, ReasonInv, [Next]_vars
  PROVE  FrameInv'
<1>1. CASE Quiet
  <2>1. /\ UNCHANGED <<clauses, learnts, trail, level, reason, confl>>
        /\ (\E as \in Assumption : Solve(as)) \/ assumptions' = assumptions
        /\ pc' = "conflict" => pc = "conflict"
        /\ pc' = "learn" => pc = "learn" /\ UNCHANGED <<p, seen>>
        /\ pc' = "analyze" => AnalyzeBegin \/ (pc = "analyze" /\ UNCHANGED <<p, seen>>)
    BY <1>1, QuietFacts
  <2>2. pc' = "analyze" => (pc = "conflict" /\ seen' = {}) \/ (pc = "analyze" /\ seen' = seen)
    BY <2>1 DEF AnalyzeBegin
  <2>3. assumptions' = <<>> \/ assumptions' \in Assumption
    BY <2>1 DEF FrameInv, Solve
  <2>4. FrameTrail' /\ \A d \in clauses' \cup learnts' : Positive(d)
    BY <2>1 DEF FrameTrail, FrameInv
  <2>5. pc' \in {"conflict", "analyze"} => Positive(confl')
    BY <2>1, <2>2 DEF FrameInv
  <2>6. pc' \in {"analyze", "learn"} => Positive(seen')
    BY <2>1, <2>2, PositiveFacts DEF FrameInv
  <2>7. pc' = "learn" => Positive({-p'})
    BY <2>1 DEF FrameInv
  <2> QED BY <2>3, <2>4, <2>5, <2>6, <2>7 DEF FrameInv, FrameTrail, Positive, FrameVar
<1>2. CASE Ends
  <2>1. PICK n : EndsAt(n)
    BY <1>2, EndsFacts
  <2>2. /\ Keeps(n, 0) /\ KeepsReasons(n) /\ Len(trail') = n /\ pc' \in {"idle", "checkTheory"}
        /\ UNCHANGED <<clauses, learnts, assumptions>>
    BY <2>1 DEF EndsAt, KeepsReasons
  <2>3. FrameTrail'
    BY <2>2, FrameTrailSame
  <2>4. (assumptions' = <<>> \/ assumptions' \in Assumption) /\ \A d \in clauses' \cup learnts' : Positive(d)
    BY <2>2 DEF FrameInv
  <2> QED BY <2>2, <2>3, <2>4, FrameParts
<1>3. CASE \E t \in TheoryConflict : TheoryUnsat(t)
  <2>1. PICK t \in TheoryConflict : TheoryUnsat(t)
    BY <1>3
  <2>2. PICK n, b : UnsatAt(t, n, b)
    BY <2>1, UnsatFacts
  <2>3. /\ Keeps(n, b) /\ KeepsReasons(n) /\ Len(trail') = n /\ pc' = "analyze"
        /\ UNCHANGED <<clauses, learnts, assumptions>> /\ confl' = Negated(t) /\ seen' = {}
    BY <2>2 DEF UnsatAt, KeepsReasons
  <2>4. FrameTrail'
    BY <2>3, FrameTrailSame
  <2>5. (assumptions' = <<>> \/ assumptions' \in Assumption) /\ \A d \in clauses' \cup learnts' : Positive(d)
    BY <2>3 DEF FrameInv
  <2>6. Positive(confl') /\ Positive(seen')
    BY <2>3, PositiveFacts
  <2> QED BY <2>3, <2>4, <2>5, <2>6 DEF FrameInv, FrameTrail, Positive, FrameVar
<1>4. CASE DeduceNext
  <2>1. /\ UNCHANGED <<clauses, learnts, assumptions, pc>> /\ pc = "deduce"
        /\ \/ UNCHANGED <<trail, level, reason>>
           \/ \E l, n : EnqueuesAt(n, l, CRef_Fake, decisionLevel) /\ var(l) \in TheoryVar
    BY <1>4, DeduceNextFacts
  <2>2. FrameTrail'
    <3>1. CASE UNCHANGED <<trail, level, reason>>
      BY <3>1 DEF FrameTrail, FrameInv
    <3>2. CASE \E l, n : EnqueuesAt(n, l, CRef_Fake, decisionLevel) /\ var(l) \in TheoryVar
      <4>1. PICK l, n : EnqueuesAt(n, l, CRef_Fake, decisionLevel) /\ var(l) \in TheoryVar
        BY <3>2
      <4>2. n \in Nat /\ Keeps(n, 0) /\ KeepsReasons(n) /\ Appends(n, l)
        BY <4>1 DEF EnqueuesAt
      <4>3. \A v \in FrameVar : l # -v
        BY <4>1, FrameVarFacts
      <4> QED BY <4>2, <4>3, FrameTrailMore
    <3> QED BY <2>1, <3>1, <3>2
  <2>3. (assumptions' = <<>> \/ assumptions' \in Assumption) /\ \A d \in clauses' \cup learnts' : Positive(d)
    BY <2>1 DEF FrameInv
  <2> QED BY <2>1, <2>2, <2>3, FrameParts
<1>5. CASE \E l \in Lit : Decide(l)
  <2>1. PICK l \in Lit : Decide(l)
    BY <1>5
  <2>2. /\ UNCHANGED <<clauses, learnts, assumptions>> /\ pc' = "loop"
        /\ \E n : EnqueuesAt(n, l, CRef_Undef, decisionLevel + 1)
    BY <2>1, DecideFacts
  <2>3. PICK n : EnqueuesAt(n, l, CRef_Undef, decisionLevel + 1)
    BY <1>2, <2>2
  <2>4. n \in Nat /\ Keeps(n, 0) /\ KeepsReasons(n) /\ Appends(n, l)
        /\ level'[var(l)] = decisionLevel + 1 /\ reason'[var(l)] = CRef_Undef
    BY <2>3 DEF EnqueuesAt
  <2>5. decisionLevel + 1 > 0
    BY TrailLevels
  <2>6. \A v \in FrameVar : l = -v => level'[v] > 0 /\ reason'[v] = CRef_Undef
    BY <2>4, <2>5, FrameVarFacts
  <2>7. FrameTrail'
    BY <2>4, <2>6, FrameTrailMore
  <2>8. (assumptions' = <<>> \/ assumptions' \in Assumption) /\ \A d \in clauses' \cup learnts' : Positive(d)
    BY <2>2 DEF FrameInv
  <2> QED BY <2>2, <2>7, <2>8, FrameParts
<1>6. CASE Simplify \/ ReduceDB
  <2>1. /\ UNCHANGED <<clauses, trail, level, assumptions, pc>> /\ learnts' \subseteq learnts /\ pc = "consistent"
        /\ \A v \in Var : reason'[v] = reason[v] \/ reason'[v] = CRef_Undef
    BY <1>6, UpkeepFacts
  <2>2. FrameTrail'
    BY <2>1, FrameVarFacts DEF FrameTrail, FrameInv
  <2>3. (assumptions' = <<>> \/ assumptions' \in Assumption) /\ \A d \in clauses' \cup learnts' : Positive(d)
    BY <2>1 DEF FrameInv
  <2> QED BY <2>1, <2>2, <2>3, FrameParts
<1>7. CASE \E c \in visit : PropagateVisit(c)
  BY <1>7, VisitFrames
<1>8. CASE \E c \in InputClause : AddOriginalClause(c)
  BY <1>8, AddFrames
<1> QED
  BY <1>1, <1>2, <1>3, <1>4, <1>5, <1>6, <1>7, <1>8, StepCases, SplitFrames, LearnFrames, AnalyzeFrames

-----------------------------------------------------------------------------
\* The variables the search knows.  What is mentioned stays so.
LEMMA KeepsMentioned ==
  ASSUME SearchInv, NEW n, NEW b, Keeps(n, b), 0 <= b, clauses \subseteq clauses'
  PROVE  Mentioned \subseteq Mentioned'
<1>1. ASSUME NEW i \in 1 .. Len(trail), level[var(trail[i])] = 0
      PROVE  \E j \in 1 .. Len(trail') : trail'[j] = trail[i] /\ level'[var(trail[i])] = 0
  <2>1. i <= n /\ n <= Len(trail') /\ n \in 0 .. Len(trail)
    BY <1>1 DEF Keeps
  <2>2. i \in 1 .. n
    BY <2>1
  <2>3. trail'[i] = trail[i] /\ level'[var(trail[i])] = 0
    BY <1>1, <2>2 DEF Keeps
  <2>5. i \in 1 .. Len(trail')
    BY <2>1
  <2> QED BY <2>3, <2>5
<1> QED
  BY <1>1, MentionedGrows

\* Outside of solve the search knows everything that is mentioned, within it what
\* solve found and the atoms of lemmas.
LEMMA BaseGrows ==
  ASSUME DecisionInv, Mentioned \subseteq Mentioned', decision \subseteq decision', Outside => Outside'
  PROVE  Base \subseteq Base'
BY DEF Base, DecisionInv

\* The parts of DecisionInv after a step.
LEMMA DecisionParts ==
  ASSUME DecisionInv, Base \subseteq Base', decision' \subseteq Mentioned',
         \A c \in clauses' : c \in clauses \/ Vars(c) \subseteq Base',
         \A c \in learnts' : c \in learnts \/ Vars(c) \subseteq Base' \cup FrameVar,
         \A i \in 1 .. Len(trail') : (\E j \in 1 .. Len(trail) : trail'[i] = trail[j]) \/ var(trail'[i]) \in Base' \cup FrameVar,
         \A v \in Var : level'[v] \in {0, level[v]} \/ v \in Base' \cup FrameVar,
         pc' = "learn" => var(p') \in Base' \cup FrameVar /\ level'[var(p')] = decisionLevel'
  PROVE  DecisionInv'
<1>0. FrameVar' = FrameVar
  BY DEF FrameVar
<1>1. \A c : Vars(c)' = Vars(c)
  BY DEF Vars
<1>2. \A c \in clauses' : Vars(c) \subseteq Base'
  BY DEF DecisionInv
<1>3. \A c \in learnts' : Vars(c) \subseteq Base' \cup FrameVar
  BY DEF DecisionInv
<1>4. \A i \in 1 .. Len(trail') : var(trail'[i]) \in Base' \cup FrameVar
  BY DEF DecisionInv
<1>5. \A v \in Var : level'[v] # 0 => v \in Base' \cup FrameVar
  BY DEF DecisionInv
<1> QED
  BY <1>0, <1>1, <1>2, <1>3, <1>4, <1>5 DEF DecisionInv

\* The literals of the trail after a step that only goes back, ...
LEMMA OldLiterals ==
  ASSUME NEW n, NEW b, Keeps(n, b), Len(trail') = n
  PROVE  \A i \in 1 .. Len(trail') : \E j \in 1 .. Len(trail) : trail'[i] = trail[j]
<1> TAKE i \in 1 .. Len(trail')
<1>1. i \in 1 .. Len(trail) /\ trail'[i] = trail[i]
  BY DEF Keeps
<1> QED BY <1>1

\* ... and after one that also enqueues l.
LEMMA NewLiteral ==
  ASSUME NEW n \in Nat, NEW b, Keeps(n, b), NEW l, Appends(n, l)
  PROVE  /\ \A i \in 1 .. Len(trail') : (\E j \in 1 .. Len(trail) : trail'[i] = trail[j]) \/ trail'[i] = l
         /\ \A v \in Var : level'[v] = level[v] \/ v = var(l)
<1>1. ASSUME NEW i \in 1 .. Len(trail')
      PROVE  (\E j \in 1 .. Len(trail) : trail'[i] = trail[j]) \/ trail'[i] = l
  <2>1. i \in 1 .. n \/ i = n + 1
    BY DEF Appends
  <2>2. CASE i \in 1 .. n
    <3>1. i \in 1 .. Len(trail) /\ trail'[i] = trail[i]
      BY <2>2 DEF Keeps
    <3> QED BY <3>1
  <2> QED BY <2>1, <2>2 DEF Appends
<1> QED
  BY <1>1 DEF Appends

\* The variables of literals on the trail, and of clauses.
LEMMA KnownVars ==
  ASSUME SearchInv, DecisionInv
  PROVE  /\ \A v \in Mentioned : v \in Base \cup FrameVar
         /\ \A c \in clauses \cup learnts, l \in Lit : l \in c => var(l) \in Base \cup FrameVar
         /\ \A l \in Lit : (\E i \in 1 .. Len(trail) : trail[i] = -l) => var(l) \in Base \cup FrameVar
<1>1. ASSUME NEW v \in Mentioned PROVE v \in Base \cup FrameVar
  <2>1. (\E i \in 1 .. Len(trail) : var(trail[i]) = v) \/ \E c \in clauses : v \in Vars(c)
    BY DEF Mentioned
  <2> QED BY <2>1 DEF DecisionInv
<1>2. ASSUME NEW c \in clauses \cup learnts, NEW l \in Lit, l \in c PROVE var(l) \in Base \cup FrameVar
  <2>1. var(l) \in Vars(c)
    BY <1>2 DEF Vars
  <2> QED BY <2>1 DEF DecisionInv
<1>3. ASSUME NEW l \in Lit, NEW i \in 1 .. Len(trail), trail[i] = -l PROVE var(l) \in Base \cup FrameVar
  <2>1. var(trail[i]) = var(l)
    BY <1>3, LitFacts
  <2> QED BY <2>1 DEF DecisionInv
<1> QED
  BY <1>1, <1>2, <1>3

\* The variables of a clause of the solver are mentioned.
LEMMA ClauseMentioned ==
  ASSUME SearchInv', NEW c \in clauses'
  PROVE  Vars(c) \subseteq Mentioned'
<1>1. c \subseteq Lit
  BY DEF SearchInv, ClauseInv
<1>2. ASSUME NEW v \in Vars(c) PROVE v \in Mentioned'
  <2>1. PICK l \in c : v = var(l)
    BY <1>2 DEF Vars
  <2>2. v \in Var
    BY <1>1, <2>1, LitFacts
  <2> QED BY <1>2, <2>2 DEF Mentioned, Vars
<1> QED BY <1>2

\* Quiet steps: solve starts from what is mentioned.
LEMMA QuietKnows ==
  ASSUME SearchInv, SearchInv', DecisionInv, Quiet
  PROVE  DecisionInv'
<1>1. /\ UNCHANGED <<given, clauses, learnts, watched, trail, level, reason>>
      /\ (\E as \in Assumption : Solve(as)) \/ UNCHANGED <<decision, assumptions>>
      /\ pc' = "learn" => pc = "learn" /\ UNCHANGED <<p, seen, trail_lim, decision, after>>
  BY QuietFacts
<1>2. Mentioned' = Mentioned
  BY <1>1 DEF Mentioned, Vars
<1>3. Base \subseteq Base' /\ decision' \subseteq Mentioned'
  <2>1. CASE \E as \in Assumption : Solve(as)
    <3>1. PICK as : Solve(as)
      BY <2>1
    <3>2. Outside /\ decision' = SeenVars
      BY <3>1 DEF Solve, Outside
    <3>3. decision' = Mentioned
      BY <3>2, SeenIsMentioned
    <3>4. Base = Mentioned
      BY <3>2 DEF Base
    <3> QED BY <1>2, <3>3, <3>4 DEF Base
  <2>2. CASE UNCHANGED <<decision, assumptions>> /\ ~(\E as \in Assumption : Solve(as))
    <3>1. Outside => Outside'
      <4> SUFFICES ASSUME Outside PROVE Outside'
        OBVIOUS
      <4>1. pc \in {"idle", "propagate", "conflict"} /\ (pc # "idle" => after = "add")
        BY DEF SearchInv, PhaseInv, Outside
      <4>2. PropagateNext \/ PropagateDone \/ AddConflict \/ AnalyzeBegin \/ RestoreOK \/ UNCHANGED vars
        BY <2>2, <4>1 DEF Quiet, SearchLoop, EarlyPruning, TheoryAssert, TheorySat, DeduceDone,
                     TheorySplit, SplitDone, AssumeTrue, CompleteCall, FinalBegin, FinalStep
      <4> QED BY <4>1, <4>2 DEF PropagateNext, PropagateDone, AddConflict, AnalyzeBegin, RestoreOK, vars, Outside
    <3>2. Base \subseteq Base'
      BY <1>2, <2>2, <3>1, BaseGrows
    <3> QED BY <1>2, <2>2, <3>2 DEF DecisionInv
  <2> QED BY <1>1, <2>1, <2>2
<1>4. ASSUME pc' = "learn" PROVE var(p') \in Base' \cup FrameVar /\ level'[var(p')] = decisionLevel'
  <2>1. decisionLevel' = decisionLevel
    BY <1>1, <1>4 DEF decisionLevel
  <2> QED BY <1>1, <1>3, <1>4, <2>1 DEF DecisionInv
<1> QED
  BY <1>1, <1>3, <1>4, DecisionParts

\* The literal propagate enqueues is of a clause.
LEMMA VisitKnows ==
  ASSUME SearchInv, SearchInv', DecisionInv, NEW c \in visit, PropagateVisit(c)
  PROVE  DecisionInv'
<1>1. /\ pc = "propagate" /\ UNCHANGED <<clauses, learnts, decision, after>> /\ pc' \in {"propagate", "conflict"}
      /\ UNCHANGED <<trail, level>> \/ \E n : EnqueuesAt(n, First(c), c, decisionLevel)
  BY VisitStep
<1>2. PICK l : l = First(c)
  OBVIOUS
<1>3. l \in c /\ c \in clauses \cup learnts /\ l \in Lit
  BY <1>1, <1>2, VisitFacts
<1>4. var(l) \in Base \cup FrameVar
  BY <1>3, KnownVars
<1>5. PICK n : Keeps(n, 0) /\ (UNCHANGED <<trail, level>> \/ (n \in Nat /\ Appends(n, l)))
  <2>1. CASE UNCHANGED <<trail, level>>
    BY <2>1, NothingMoves
  <2>2. CASE \E n : EnqueuesAt(n, l, c, decisionLevel)
    BY <2>2 DEF EnqueuesAt
  <2> QED BY <1>1, <1>2, <2>1, <2>2
<1>6. Mentioned \subseteq Mentioned'
  BY <1>1, <1>5, KeepsMentioned
<1>7. Outside => Outside'
  BY <1>1 DEF Outside
<1>8. Base \subseteq Base'
  BY <1>1, <1>6, <1>7, BaseGrows
<1>9. /\ \A i \in 1 .. Len(trail') : (\E j \in 1 .. Len(trail) : trail'[i] = trail[j]) \/ trail'[i] = l
      /\ \A v \in Var : level'[v] = level[v] \/ v = var(l)
  BY <1>5, NewLiteral
<1> QED
  BY <1>1, <1>4, <1>6, <1>8, <1>9, DecisionParts DEF DecisionInv

\* The learnt clause has variables of the trail.
LEMMA LearnKnows ==
  ASSUME SearchInv, SearchInv', DecisionInv, Learn
  PROVE  DecisionInv'
<1>1. PICK n, bt, c : LearnsAt(n, bt, c)
  BY LearnFacts
<1>2. /\ Keeps(n, bt) /\ Appends(n, -p) /\ var(-p) = var(p) /\ p \in Lit
      /\ bt \in 0 .. decisionLevel - 1 /\ c = Minimized \cup {-p} /\ Minimized \subseteq seen /\ seen \subseteq Lit
      /\ learnts' = learnts \/ learnts' = learnts \cup {c}
      /\ UNCHANGED <<clauses, decision, after>> /\ pc = "learn" /\ pc' = "loop"
  BY <1>1 DEF LearnsAt
<1>3. n \in Nat /\ 0 <= bt
  BY <1>2, TrailLevels DEF Keeps
<1>4. Mentioned \subseteq Mentioned'
  BY <1>2, <1>3, KeepsMentioned
<1>5. ~Outside
  BY <1>2 DEF SearchInv, PhaseInv, Outside
<1>6. Base \subseteq Base'
  BY <1>2, <1>4, <1>5, BaseGrows
<1>7. var(p) \in Base \cup FrameVar
  BY <1>2 DEF DecisionInv
<1>8. Vars(c) \subseteq Base \cup FrameVar
  <2> SUFFICES ASSUME NEW v \in Vars(c) PROVE v \in Base \cup FrameVar
    OBVIOUS
  <2>1. PICK l \in c : v = var(l)
    BY DEF Vars
  <2>2. CASE l = -p
    BY <1>2, <1>7, <2>1, <2>2
  <2>3. CASE l \in seen
    <3>1. \E i \in 1 .. Len(trail) : trail[i] = -l
      BY <1>2, <2>3 DEF SearchInv, AnalyzeInv, AllFalse, FalseBefore
    <3>2. l \in Lit
      BY <1>2, <2>3
    <3> QED BY <2>1, <3>1, <3>2, KnownVars
  <2> QED BY <1>2, <2>2, <2>3
<1>9. PICK l : l = -p
  OBVIOUS
<1>10. /\ \A i \in 1 .. Len(trail') : (\E j \in 1 .. Len(trail) : trail'[i] = trail[j]) \/ trail'[i] = l
       /\ \A v \in Var : level'[v] = level[v] \/ v = var(l)
  BY <1>2, <1>3, <1>9, NewLiteral
<1>11. decision' \subseteq Mentioned'
  BY <1>2, <1>4 DEF DecisionInv
<1> QED
  BY <1>2, <1>6, <1>7, <1>8, <1>9, <1>10, <1>11, DecisionParts

\* Lemmas bring their variables with them.
LEMMA SplitKnows ==
  ASSUME SearchInv, SearchInv', DecisionInv, ReasonInv, SplitUnit \/ SplitAttach \/ SplitEnqueue
  PROVE  DecisionInv'
<1>0. pc = "split" /\ pc' = "split"
  BY DEF SplitUnit, SplitAttach, SplitEnqueue
<1>1. ~Outside /\ ~Outside'
  BY <1>0 DEF SearchInv, PhaseInv, Outside
<1>2. CASE SplitUnit
  <2>1. PICK n, bt, c, l : SplitsAt(n, bt, c, l)
    BY <1>2, SplitUnitFacts
  <2>2. /\ Keeps(n, bt) /\ bt \in 0 .. decisionLevel /\ c = Head(splits) /\ splits # <<>>
        /\ l \in c /\ l \in Lit
        /\ \A k \in c \ {l} : (\E i \in 1 .. Len(trail) : trail[i] = -k) /\ level[var(k)] <= bt
        /\ \/ bt = 0 /\ Appends(n, l) /\ level'[var(l)] = 0 /\ UNCHANGED clauses
           \/ Len(trail') = n /\ clauses' = clauses \cup {c} /\ UNCHANGED level
        /\ UNCHANGED learnts /\ decision' = decision \cup Vars(c)
    BY <2>1 DEF SplitsAt
  <2>3. n \in Nat /\ 0 <= bt
    BY <2>2, TrailLevels DEF Keeps
  <2>4. clauses \subseteq clauses'
    BY <2>2
  <2>5. Mentioned \subseteq Mentioned'
    BY <2>2, <2>3, <2>4, KeepsMentioned
  <2>6. Base \subseteq Base' /\ Vars(c) \subseteq Base'
    BY <1>1, <2>2, <2>5, BaseGrows DEF Base
  <2>7. c \in SUBSET Lit /\ Vars(c) \subseteq Var
    BY <1>0, <2>2, SplitHead
  <2>8. Vars(c) \subseteq Mentioned'
    <3>1. CASE clauses' = clauses \cup {c}
      BY <3>1, ClauseMentioned
    <3>2. CASE bt = 0 /\ Appends(n, l) /\ level'[var(l)] = 0
      <4> SUFFICES ASSUME NEW v \in Vars(c) PROVE v \in Mentioned'
        OBVIOUS
      <4>1. PICK k \in c : v = var(k)
        BY DEF Vars
      <4>2. CASE k = l
        <5>1. n + 1 \in 1 .. Len(trail') /\ trail'[n + 1] = l
          BY <2>3, <3>2 DEF Appends
        <5> QED BY <2>7, <3>2, <4>1, <4>2, <5>1 DEF Mentioned
      <4>3. CASE k # l
        <5>1. PICK i \in 1 .. Len(trail) : trail[i] = -k
          BY <2>2, <4>3
        <5>2. k \in Lit /\ var(trail[i]) = var(k) /\ level[var(k)] <= 0
          BY <2>2, <2>7, <3>2, <4>3, <5>1, LitFacts
        <5>3. level[var(trail[i])] \in 0 .. decisionLevel
          BY TrailLevels
        <5>4. level[v] = 0
          BY <4>1, <5>2, <5>3
        <5>5. v \in Mentioned
          BY <2>7, <4>1, <5>2, <5>4 DEF Mentioned
        <5> QED BY <2>5, <5>5
      <4> QED BY <4>2, <4>3
    <3> QED BY <2>2, <3>1, <3>2
  <2>9. decision' \subseteq Mentioned'
    BY <2>2, <2>5, <2>8 DEF DecisionInv
  <2>10. /\ \A i \in 1 .. Len(trail') : (\E j \in 1 .. Len(trail) : trail'[i] = trail[j]) \/ trail'[i] = l
         /\ \A v \in Var : level'[v] = level[v] \/ v = var(l)
    BY <2>2, <2>3, NewLiteral, OldLiterals
  <2>11. var(l) \in Vars(c)
    BY <2>2 DEF Vars
  <2>12. \A d \in clauses' : d \in clauses \/ Vars(d) \subseteq Base'
    BY <2>2, <2>6
  <2>13. \A i \in 1 .. Len(trail') : (\E j \in 1 .. Len(trail) : trail'[i] = trail[j]) \/ var(trail'[i]) \in Base' \cup FrameVar
    BY <2>6, <2>10, <2>11
  <2>14. \A v \in Var : level'[v] \in {0, level[v]} \/ v \in Base' \cup FrameVar
    BY <2>6, <2>10, <2>11
  <2> QED BY <1>0, <2>2, <2>6, <2>9, <2>12, <2>13, <2>14, DecisionParts
<1>3. CASE SplitAttach
  <2>1. PICK c, pair : AttachesLemma(c, pair)
    BY <1>3, SplitAttachFacts
  <2>2. UNCHANGED <<learnts, trail, level>> /\ clauses' = clauses \cup {c} /\ decision' = decision \cup Vars(c)
    BY <2>1 DEF AttachesLemma
  <2>3. PICK n : n = Len(trail)
    OBVIOUS
  <2>4. Keeps(n, 0)
    BY <2>2, <2>3, NothingMoves
  <2>5. Mentioned \subseteq Mentioned'
    BY <2>2, <2>4, KeepsMentioned
  <2>6. Base \subseteq Base' /\ Vars(c) \subseteq Base'
    BY <1>1, <2>2, <2>5, BaseGrows DEF Base
  <2>7. Vars(c) \subseteq Mentioned'
    BY <2>2, ClauseMentioned
  <2>8. decision' \subseteq Mentioned'
    BY <2>2, <2>5, <2>7 DEF DecisionInv
  <2>9. \A d \in clauses' : d \in clauses \/ Vars(d) \subseteq Base'
    BY <2>2, <2>6
  <2> QED BY <1>0, <2>2, <2>6, <2>8, <2>9, DecisionParts
<1>4. CASE SplitEnqueue
  <2>1. /\ UNCHANGED <<clauses, learnts, decision>> /\ propData # <<>>
        /\ \/ UNCHANGED <<trail, level, reason>>
           \/ \E l, n : l = propData[1][1] /\ EnqueuesAt(n, l, propData[1][2], decisionLevel)
    BY <1>4, SplitEnqueueFacts
  <2>2. PICK l : l = propData[1][1]
    OBVIOUS
  <2>3. PICK n : Keeps(n, 0) /\ (UNCHANGED <<trail, level>> \/ (n \in Nat /\ Appends(n, l)))
    <3>1. CASE UNCHANGED <<trail, level>>
      BY <3>1, NothingMoves
    <3>2. CASE \E n : EnqueuesAt(n, l, propData[1][2], decisionLevel)
      BY <3>2 DEF EnqueuesAt
    <3> QED BY <2>1, <2>2, <3>1, <3>2
  <2>4. PICK c : c = propData[1][2]
    OBVIOUS
  <2>5. 1 \in 1 .. Len(propData)
    BY <2>1 DEF SearchInv, SplitInv
  <2>6. c \in clauses /\ watched[c][1] = l
    BY <2>2, <2>4, <2>5 DEF ReasonInv
  <2>7. watched[c] \in Seq(c) /\ Len(watched[c]) = 2 /\ c \subseteq Lit
    BY <2>6 DEF SearchInv, ClauseInv
  <2>8. l \in c
    BY <2>6, <2>7
  <2>9. var(l) \in Base \cup FrameVar
    BY <2>6, <2>7, <2>8, KnownVars
  <2>10. Mentioned \subseteq Mentioned'
    BY <2>1, <2>3, KeepsMentioned
  <2>11. Base \subseteq Base'
    BY <1>1, <2>1, <2>10, BaseGrows
  <2>12. /\ \A i \in 1 .. Len(trail') : (\E j \in 1 .. Len(trail) : trail'[i] = trail[j]) \/ trail'[i] = l
         /\ \A v \in Var : level'[v] = level[v] \/ v = var(l)
    BY <2>3, NewLiteral
  <2>13. decision' \subseteq Mentioned'
    BY <2>1, <2>10 DEF DecisionInv
  <2> QED BY <1>0, <2>1, <2>9, <2>11, <2>12, <2>13, DecisionParts
<1> QED
  BY <1>2, <1>3, <1>4

\* A clause that is added is mentioned.
LEMMA AddKnows ==
  ASSUME SearchInv, SearchInv', DecisionInv, NEW c \in InputClause, AddOriginalClause(c)
  PROVE  DecisionInv'
<1>1. /\ UNCHANGED <<learnts, decision>> /\ pc = "idle"
      /\ (pc' = "idle") \/ (pc' = "propagate" /\ after' = "add")
      /\ UNCHANGED <<trail, level>> \/ \E l, n : EnqueuesAt(n, l, CRef_Undef, 0)
      /\ clauses' = clauses \/ \E ps : clauses' = clauses \cup {ps}
  <2>1. /\ pc = "idle" /\ UNCHANGED <<learnts, decision>>
        /\ \/ UNCHANGED <<clauses, trail, level, pc>>
           \/ /\ pc' = "propagate" /\ after' = "add" /\ UNCHANGED clauses
              /\ \E l, n : l \in c /\ EnqueuesAt(n, l, CRef_Undef, 0)
           \/ /\ UNCHANGED <<trail, level, pc>>
              /\ \E ps, pair : ps \subseteq c /\ clauses' = clauses \cup {ps}
    BY AddFacts
  <2> QED BY <2>1
<1>2. Outside /\ Outside'
  BY <1>1 DEF Outside
<1>3. PICK l, n : Keeps(n, 0) /\ (UNCHANGED <<trail, level>> \/ (n \in Nat /\ Appends(n, l) /\ level'[var(l)] = 0))
  <2>1. CASE UNCHANGED <<trail, level>>
    BY <2>1, NothingMoves
  <2>2. CASE \E l, n : EnqueuesAt(n, l, CRef_Undef, 0)
    BY <2>2 DEF EnqueuesAt
  <2> QED BY <1>1, <2>1, <2>2
<1>4. Mentioned \subseteq Mentioned'
  BY <1>1, <1>3, KeepsMentioned
<1>5. Base \subseteq Base' /\ Base' = Mentioned'
  BY <1>1, <1>2, <1>4, BaseGrows DEF Base
<1>6. /\ \A i \in 1 .. Len(trail') : (\E j \in 1 .. Len(trail) : trail'[i] = trail[j]) \/ trail'[i] = l
      /\ \A v \in Var : level'[v] = level[v] \/ v = var(l)
  BY <1>3, NewLiteral
<1>7. \A d \in clauses' : Vars(d) \subseteq Base'
  BY <1>5, ClauseMentioned
<1>8. UNCHANGED <<trail, level>> \/ (var(l) \in Base' /\ level'[var(l)] = 0)
  <2> SUFFICES ASSUME n \in Nat, Appends(n, l), level'[var(l)] = 0 PROVE var(l) \in Mentioned'
    BY <1>3, <1>5
  <2>1. n + 1 \in 1 .. Len(trail') /\ trail'[n + 1] = l /\ var(l) \in Var
    BY LitFacts DEF Appends
  <2> QED BY <2>1 DEF Mentioned
<1>9. decision' \subseteq Mentioned'
  BY <1>1, <1>4 DEF DecisionInv
<1>10. \A i \in 1 .. Len(trail') : (\E j \in 1 .. Len(trail) : trail'[i] = trail[j]) \/ var(trail'[i]) \in Base' \cup FrameVar
  BY <1>6, <1>8
<1>11. \A v \in Var : level'[v] \in {0, level[v]} \/ v \in Base' \cup FrameVar
  BY <1>6, <1>8
<1> QED
  BY <1>1, <1>5, <1>7, <1>9, <1>10, <1>11, DecisionParts

\* Nothing enters the search but what was added, the lemmas and the frame variables.
LEMMA DecisionKeeps ==
  ASSUME SearchInv, SearchInv', DecisionInv, FrameInv, ReasonInv, [Next]_vars
  PROVE  DecisionInv'
<1>1. CASE Ends
  <2>1. PICK n : EndsAt(n)
    BY <1>1, EndsFacts
  <2>2. /\ Keeps(n, 0) /\ Len(trail') = n /\ pc' # "learn" /\ ~Outside
        /\ UNCHANGED <<clauses, learnts, decision, level>>
    BY <2>1 DEF EndsAt
  <2>3. Mentioned \subseteq Mentioned'
    BY <2>2, KeepsMentioned
  <2>4. Base \subseteq Base' /\ decision' \subseteq Mentioned'
    BY <2>2, <2>3, BaseGrows DEF DecisionInv
  <2>5. \A i \in 1 .. Len(trail') : \E j \in 1 .. Len(trail) : trail'[i] = trail[j]
    BY <2>2, OldLiterals
  <2> QED BY <2>2, <2>4, <2>5, DecisionParts
<1>2. CASE AnalyzeStep
  <2>1. PICK n, i, q, marked : AnalyzesAt(n, i, q, marked)
    BY <1>2, AnalyzeFacts
  <2>2. PICK b : b = decisionLevel - 1
    OBVIOUS
  <2>3. /\ Keeps(n, b) /\ Len(trail') = n /\ pc = "analyze" /\ decisionLevel > 0
        /\ UNCHANGED <<clauses, learnts, decision, level, trail_lim>>
        /\ i \in 1 .. Len(trail) /\ q = trail[i] /\ p' = q /\ level[var(q)] = decisionLevel
    BY <2>1, <2>2 DEF AnalyzesAt
  <2>4. ~Outside /\ 0 <= b
    BY <2>2, <2>3, TrailLevels DEF SearchInv, PhaseInv, Outside
  <2>5. Mentioned \subseteq Mentioned'
    BY <2>3, <2>4, KeepsMentioned
  <2>6. Base \subseteq Base' /\ decision' \subseteq Mentioned'
    BY <2>3, <2>4, <2>5, BaseGrows DEF DecisionInv
  <2>7. \A k \in 1 .. Len(trail') : \E j \in 1 .. Len(trail) : trail'[k] = trail[j]
    BY <2>3, OldLiterals
  <2>8. var(q) \in Base \cup FrameVar
    BY <2>3 DEF DecisionInv
  <2>9. decisionLevel' = decisionLevel
    BY <2>3 DEF decisionLevel
  <2> QED BY <2>3, <2>6, <2>7, <2>8, <2>9, DecisionParts
<1>3. CASE \E t \in TheoryConflict : TheoryUnsat(t)
  <2>1. PICK t \in TheoryConflict : TheoryUnsat(t)
    BY <1>3
  <2>2. PICK n, b : UnsatAt(t, n, b)
    BY <2>1, UnsatFacts
  <2>3. /\ Keeps(n, b) /\ Len(trail') = n /\ pc = "checkTheory" /\ b \in 1 .. decisionLevel /\ pc' = "analyze"
        /\ UNCHANGED <<clauses, learnts, decision, level>>
    BY <2>2 DEF UnsatAt
  <2>4. ~Outside /\ 0 <= b
    BY <2>3, TrailLevels DEF SearchInv, PhaseInv, Outside
  <2>5. Mentioned \subseteq Mentioned'
    BY <2>3, <2>4, KeepsMentioned
  <2>6. Base \subseteq Base' /\ decision' \subseteq Mentioned'
    BY <2>3, <2>4, <2>5, BaseGrows DEF DecisionInv
  <2>7. \A k \in 1 .. Len(trail') : \E j \in 1 .. Len(trail) : trail'[k] = trail[j]
    BY <2>3, OldLiterals
  <2> QED BY <2>3, <2>6, <2>7, DecisionParts
<1>4. CASE Simplify \/ ReduceDB
  <2>1. UNCHANGED <<clauses, trail, level, decision, pc, after>> /\ learnts' \subseteq learnts /\ pc = "consistent"
    BY <1>4, UpkeepFacts
  <2>2. Base' = Base /\ Mentioned' = Mentioned
    BY <2>1 DEF Base, Mentioned, Outside, Vars
  <2> QED BY <2>1, <2>2, DecisionParts DEF DecisionInv
<1>5. CASE DeduceNext
  <2>1. /\ UNCHANGED <<clauses, learnts, decision, pc, after>> /\ pc = "deduce"
        /\ \/ UNCHANGED <<trail, level, reason>>
           \/ \E l, n : EnqueuesAt(n, l, CRef_Fake, decisionLevel) /\ var(l) \in declared
    BY <1>5, DeduceNextFacts
  <2>2. ~Outside /\ splits = <<>>
    BY <2>1 DEF SearchInv, PhaseInv, Outside
  <2>3. \A v \in declared : v \in Base \cup FrameVar
    BY <2>2, KnownVars DEF SearchInv, KnownInv
  <2>4. PICK l, n : Keeps(n, 0) /\ (UNCHANGED <<trail, level>> \/ (n \in Nat /\ Appends(n, l) /\ var(l) \in declared))
    <3>1. CASE UNCHANGED <<trail, level>>
      BY <3>1, NothingMoves
    <3>2. CASE \E l, n : EnqueuesAt(n, l, CRef_Fake, decisionLevel) /\ var(l) \in declared
      BY <3>2 DEF EnqueuesAt
    <3> QED BY <2>1, <3>1, <3>2
  <2>5. Mentioned \subseteq Mentioned'
    BY <2>1, <2>4, KeepsMentioned
  <2>6. Base \subseteq Base' /\ decision' \subseteq Mentioned'
    BY <2>1, <2>2, <2>5, BaseGrows DEF DecisionInv
  <2>7. /\ \A i \in 1 .. Len(trail') : (\E j \in 1 .. Len(trail) : trail'[i] = trail[j]) \/ trail'[i] = l
        /\ \A v \in Var : level'[v] = level[v] \/ v = var(l)
    BY <2>4, NewLiteral
  <2>8. UNCHANGED <<trail, level>> \/ var(l) \in Base' \cup FrameVar
    BY <2>3, <2>4, <2>6
  <2>9. \A i \in 1 .. Len(trail') : (\E j \in 1 .. Len(trail) : trail'[i] = trail[j]) \/ var(trail'[i]) \in Base' \cup FrameVar
    BY <2>7, <2>8
  <2>10. \A v \in Var : level'[v] \in {0, level[v]} \/ v \in Base' \cup FrameVar
    BY <2>7, <2>8
  <2> QED BY <2>1, <2>6, <2>9, <2>10, DecisionParts
<1>6. CASE \E l \in Lit : Decide(l)
  <2>1. PICK l \in Lit : Decide(l)
    BY <1>6
  <2>2. /\ UNCHANGED <<clauses, learnts, decision>> /\ pc = "decide" /\ pc' = "loop"
        /\ IF decisionLevel < Len(assumptions) THEN l = assumed ELSE var(l) \in decision
        /\ \E n : EnqueuesAt(n, l, CRef_Undef, decisionLevel + 1)
    BY <2>1, DecideFacts
  <2>3. ~Outside
    BY <2>2 DEF SearchInv, PhaseInv, Outside
  <2>4. var(l) \in Base \cup FrameVar
    <3>1. CASE decisionLevel < Len(assumptions)
      <4>1. PICK k : k = decisionLevel + 1
        OBVIOUS
      <4>2. k \in 1 .. Len(assumptions) /\ l = assumptions[k]
        BY <2>2, <3>1, <4>1, TrailLevels DEF assumed, SearchInv, AnswerInv
      <4>3. assumptions \in Assumption
        <5>1. assumptions # <<>>
          BY <4>2
        <5> QED BY <5>1 DEF FrameInv
      <4> QED BY <4>2, <4>3 DEF FrameVar
    <3>2. CASE ~(decisionLevel < Len(assumptions))
      BY <2>2, <2>3, <3>2 DEF Base
    <3> QED BY <3>1, <3>2
  <2>5. PICK n : EnqueuesAt(n, l, CRef_Undef, decisionLevel + 1)
    BY <2>2
  <2>6. n \in Nat /\ Keeps(n, 0) /\ Appends(n, l)
    BY <2>5 DEF EnqueuesAt
  <2>7. Mentioned \subseteq Mentioned'
    BY <2>2, <2>6, KeepsMentioned
  <2>8. Base \subseteq Base' /\ decision' \subseteq Mentioned'
    BY <2>2, <2>3, <2>7, BaseGrows DEF DecisionInv
  <2>9. /\ \A i \in 1 .. Len(trail') : (\E j \in 1 .. Len(trail) : trail'[i] = trail[j]) \/ trail'[i] = l
        /\ \A v \in Var : level'[v] = level[v] \/ v = var(l)
    BY <2>6, NewLiteral
  <2> QED BY <2>2, <2>4, <2>8, <2>9, DecisionParts
<1>7. CASE \E c \in visit : PropagateVisit(c)
  BY <1>7, VisitKnows
<1>8. CASE \E c \in InputClause : AddOriginalClause(c)
  BY <1>8, AddKnows
<1> QED
  BY <1>1, <1>2, <1>3, <1>4, <1>5, <1>6, <1>7, <1>8, StepCases, SplitKnows, LearnKnows, QuietKnows

-----------------------------------------------------------------------------
\* What was true by level k is so as long as level k is kept.
LEMMA TrueByStays ==
  ASSUME SearchInv, NEW n, NEW b \in Int, Keeps(n, b), NEW c, NEW k \in Int, k <= b, TrueBy(c, k)
  PROVE  TrueBy(c, k)'
<1>1. PICK i \in 1 .. Len(trail) : trail[i] \in c /\ level[var(trail[i])] <= k
  BY DEF TrueBy
<1>2. level[var(trail[i])] \in 0 .. decisionLevel /\ decisionLevel \in Nat
  BY TrailLevels
<1>3. level[var(trail[i])] <= b
  BY <1>1, <1>2
<1>4. i <= n /\ n \in 0 .. Len(trail) /\ n <= Len(trail')
  BY <1>1, <1>3 DEF Keeps
<1>5. i \in 1 .. n /\ i \in 1 .. Len(trail')
  BY <1>4
<1>6. trail'[i] = trail[i] /\ level'[var(trail[i])] = level[var(trail[i])]
  BY <1>5 DEF Keeps
<1> QED
  BY <1>1, <1>5, <1>6 DEF TrueBy

\* The assumptions whose levels stay remain true.
LEMMA AssumedStays ==
  ASSUME SearchInv, AssumedInv, NEW n, NEW b \in Int, Keeps(n, b), assumptions' = assumptions,
         NEW k \in 1 .. Len(assumptions), k <= b, k <= decisionLevel,
         pc \in {"analyze", "learn"} => k < decisionLevel
  PROVE  TrueBy({assumptions[k]}, k)'
<1>1. TrueBy({assumptions[k]}, k)
  BY DEF AssumedInv
<1>2. PICK c : c = {assumptions[k]}
  OBVIOUS
<1>3. TrueBy(c, k)'
  BY <1>1, <1>2, TrueByStays
<1> QED
  BY <1>2, <1>3 DEF TrueBy

\* A step that goes back to level b, or stays there.
LEMMA AssumedBack ==
  ASSUME SearchInv, AssumedInv, NEW n, NEW b \in Nat, Keeps(n, b), assumptions' = assumptions,
         decisionLevel' \in Nat, decisionLevel' <= b, decisionLevel' <= decisionLevel,
         pc \in {"analyze", "learn"} => decisionLevel' < decisionLevel
  PROVE  AssumedInv'
<1>1. ASSUME NEW k \in 1 .. Len(assumptions), k <= decisionLevel' PROVE TrueBy({assumptions[k]}, k)'
  <2>1. k <= b /\ k <= decisionLevel /\ (pc \in {"analyze", "learn"} => k < decisionLevel)
    BY <1>1, TrailLevels
  <2> QED BY <2>1, AssumedStays
<1>2. ASSUME NEW k \in 1 .. Len(assumptions'), k <= decisionLevel' PROVE TrueBy({assumptions[k]}, k)'
  BY <1>1, <1>2
<1> QED
  BY <1>2 DEF AssumedInv

\* At level zero nothing is assumed.
LEMMA NothingAssumed ==
  ASSUME decisionLevel' = 0
  PROVE  AssumedInv'
BY DEF AssumedInv

\* Quiet steps: an assumption that holds gets a level.
LEMMA QuietAssumed ==
  ASSUME SearchInv, SearchInv', AssumedInv, Quiet
  PROVE  AssumedInv'
<1>1. /\ UNCHANGED <<trail, level>>
      /\ (\E as \in Assumption : Solve(as)) \/ assumptions' = assumptions
      /\ AssumeTrue \/ trail_lim' = trail_lim
  BY QuietFacts
<1>2. PICK n : n = Len(trail)
  OBVIOUS
<1>3. PICK h \in Nat : h = decisionLevel
  BY TrailLevels
<1>4. Keeps(n, h + 1)
  BY <1>1, <1>2, NothingMoves
<1>5. CASE \E as \in Assumption : Solve(as)
  <2>1. trail_lim = <<>> /\ trail_lim' = trail_lim
    BY <1>5 DEF Solve, trailVars, SearchInv, PhaseInv, Outside
  <2>2. decisionLevel' = 0
    BY <2>1 DEF decisionLevel
  <2> QED BY <2>2, NothingAssumed
<1>6. CASE AssumeTrue
  <2>1. /\ pc = "decide" /\ pc' = "decide" /\ h < Len(assumptions) /\ True(assumptions[h + 1]) /\ assumptions' = assumptions
        /\ trail_lim' = Append(trail_lim, Len(trail))
    BY <1>3, <1>6 DEF AssumeTrue, assumed, callVars
  <2>2. decisionLevel' = h + 1
    BY <1>3, <2>1, TrailLevels DEF decisionLevel
  <2>3. ASSUME NEW k \in 1 .. Len(assumptions), k <= h + 1 PROVE TrueBy({assumptions[k]}, k)'
    <3>1. CASE k <= h
      <4>1. k <= h + 1 /\ h + 1 \in Int
        BY <3>1
      <4> QED BY <1>3, <1>4, <2>1, <3>1, <4>1, AssumedStays
    <3>2. CASE k = h + 1
      <4>1. PICK i \in 1 .. Len(trail) : trail[i] = assumptions[k]
        BY <2>1, <3>2, TrailLevels, ValueFacts
      <4>2. level[var(trail[i])] \in 0 .. h
        BY <1>3, TrailLevels
      <4>3. level[var(trail[i])] <= k
        BY <3>2, <4>2
      <4> QED BY <1>1, <2>1, <4>1, <4>3 DEF TrueBy
    <3> QED BY <2>3, <3>1, <3>2
  <2>4. ASSUME NEW k \in 1 .. Len(assumptions'), k <= decisionLevel' PROVE TrueBy({assumptions[k]}, k)'
    BY <2>1, <2>2, <2>3, <2>4
  <2> QED BY <2>4 DEF AssumedInv
<1>7. CASE assumptions' = assumptions /\ trail_lim' = trail_lim /\ pc \in {"analyze", "learn"} /\ ~AssumeTrue
           /\ ~\E as \in Assumption : Solve(as)
  <2>1. UNCHANGED <<pc, assumptions, trail_lim, trail, level>>
    <3>1. UNCHANGED vars
      BY <1>7 DEF Quiet, PropagateNext, PropagateDone, SearchLoop, AddConflict, AnalyzeBegin, EarlyPruning,
                  TheoryAssert, TheorySat, DeduceDone, TheorySplit, SplitDone,
                  CompleteCall, FinalBegin, FinalStep, RestoreOK
    <3> QED BY <3>1 DEF vars, callVars, trailVars
  <2> QED BY <2>1 DEF AssumedInv, TrueBy, decisionLevel
<1>8. CASE assumptions' = assumptions /\ trail_lim' = trail_lim /\ pc \notin {"analyze", "learn"}
  <2>1. decisionLevel' = h
    BY <1>3, <1>8 DEF decisionLevel
  <2>2. h + 1 \in Nat
    OBVIOUS
  <2> QED BY <1>3, <1>4, <1>8, <2>1, <2>2, AssumedBack
<1> QED
  BY <1>1, <1>5, <1>6, <1>7, <1>8

\* Steps that go back.
LEMMA BackAssumed ==
  ASSUME SearchInv, SearchInv', AssumedInv,
         Ends \/ AnalyzeStep \/ Learn \/ SplitUnit \/ (\E t \in TheoryConflict : TheoryUnsat(t))
  PROVE  AssumedInv'
<1>0. PICK h \in Nat : h = decisionLevel
  BY TrailLevels
<1>1. CASE Ends
  <2>1. PICK n : EndsAt(n)
    BY <1>1, EndsFacts
  <2>2. trail_lim' = <<>>
    BY <2>1 DEF EndsAt
  <2>3. decisionLevel' = 0
    BY <2>2 DEF decisionLevel
  <2> QED BY <2>3, NothingAssumed
<1>2. CASE AnalyzeStep
  <2>1. PICK n, i, q, marked : AnalyzesAt(n, i, q, marked)
    BY <1>2, AnalyzeFacts
  <2>2. PICK b : b = h - 1
    OBVIOUS
  <2>3. Keeps(n, b) /\ h > 0 /\ UNCHANGED <<assumptions, trail_lim>> /\ pc = "analyze" /\ pc' \in {"learn", "analyze"}
    BY <1>0, <2>1, <2>2 DEF AnalyzesAt
  <2>4. decisionLevel' = h /\ b \in Int
    BY <1>0, <2>2, <2>3 DEF decisionLevel
  <2>5. ASSUME NEW k \in 1 .. Len(assumptions), k < h PROVE TrueBy({assumptions[k]}, k)'
    <3>1. k <= b /\ k <= h
      BY <2>2, <2>5
    <3> QED BY <1>0, <2>3, <2>4, <2>5, <3>1, AssumedStays
  <2>6. ASSUME NEW k \in 1 .. Len(assumptions'), k < decisionLevel' PROVE TrueBy({assumptions[k]}, k)'
    BY <2>3, <2>4, <2>5, <2>6
  <2> QED BY <2>3, <2>6 DEF AssumedInv
<1>3. CASE \E t \in TheoryConflict : TheoryUnsat(t)
  <2>1. PICK t \in TheoryConflict : TheoryUnsat(t)
    BY <1>3
  <2>2. PICK n, b : UnsatAt(t, n, b)
    BY <2>1, UnsatFacts
  <2>3. /\ Keeps(n, b) /\ b \in 1 .. h /\ decisionLevel' = b /\ assumptions' = assumptions
        /\ pc = "checkTheory"
    BY <1>0, <2>2 DEF UnsatAt
  <2>4. b \in Nat /\ b <= h
    BY <2>3
  <2> QED BY <1>0, <2>3, <2>4, AssumedBack
<1>4. CASE Learn
  <2>1. PICK n, bt, c : LearnsAt(n, bt, c)
    BY <1>4, LearnFacts
  <2>2. Keeps(n, bt) /\ bt \in 0 .. h - 1 /\ decisionLevel' = bt /\ assumptions' = assumptions
    BY <1>0, <2>1 DEF LearnsAt
  <2>3. bt \in Nat /\ bt < h /\ bt <= h
    BY <2>2
  <2> QED BY <1>0, <2>2, <2>3, AssumedBack
<1>5. CASE SplitUnit
  <2>1. PICK n, bt, c, l : SplitsAt(n, bt, c, l)
    BY <1>5, SplitUnitFacts
  <2>2. Keeps(n, bt) /\ bt \in 0 .. h /\ decisionLevel' = bt /\ assumptions' = assumptions /\ pc = "split"
    BY <1>0, <2>1 DEF SplitsAt
  <2>3. bt \in Nat /\ bt <= h
    BY <2>2
  <2> QED BY <1>0, <2>2, <2>3, AssumedBack
<1> QED
  BY <1>1, <1>2, <1>3, <1>4, <1>5

\* Steps within a level.
LEMMA ForthAssumed ==
  ASSUME SearchInv, SearchInv', AssumedInv,
         \/ (\E c \in visit : PropagateVisit(c)) \/ Simplify \/ ReduceDB \/ DeduceNext \/ SplitAttach \/ SplitEnqueue
         \/ (\E c \in InputClause : AddOriginalClause(c))
  PROVE  AssumedInv'
<1>0. PICK h \in Nat : h = decisionLevel
  BY TrailLevels
<1>1. /\ UNCHANGED <<assumptions, trail_lim>> /\ pc \notin {"analyze", "learn"}
      /\ UNCHANGED <<trail, level>> \/ \E l, n, from, lev : EnqueuesAt(n, l, from, lev)
  <2>1. CASE \E c \in visit : PropagateVisit(c)
    <3>1. PICK c \in visit : PropagateVisit(c)
      BY <2>1
    <3>2. /\ UNCHANGED <<assumptions, trail_lim>> /\ pc = "propagate"
          /\ UNCHANGED <<trail, level>> \/ \E n : EnqueuesAt(n, First(c), c, decisionLevel)
      BY <3>1, VisitStep
    <3> QED BY <3>2
  <2>2. CASE Simplify \/ ReduceDB
    <3>1. UNCHANGED <<assumptions, trail_lim, trail, level>> /\ pc = "consistent"
      BY <2>2, UpkeepFacts
    <3> QED BY <3>1
  <2>3. CASE DeduceNext
    <3>1. /\ UNCHANGED <<assumptions, trail_lim>> /\ pc = "deduce"
          /\ UNCHANGED <<trail, level>> \/ \E l, n : EnqueuesAt(n, l, CRef_Fake, decisionLevel)
      BY <2>3, DeduceNextFacts
    <3> QED BY <3>1
  <2>4. CASE SplitAttach
    <3>1. PICK c, pair : AttachesLemma(c, pair)
      BY <2>4, SplitAttachFacts
    <3> QED BY <3>1 DEF AttachesLemma
  <2>5. CASE SplitEnqueue
    <3>1. /\ UNCHANGED <<assumptions, trail_lim>> /\ pc = "split"
          /\ UNCHANGED <<trail, level>> \/ \E l, n : EnqueuesAt(n, l, propData[1][2], decisionLevel)
      BY <2>5, SplitEnqueueFacts
    <3> QED BY <3>1
  <2>6. CASE \E c \in InputClause : AddOriginalClause(c)
    <3>1. PICK c \in InputClause : AddOriginalClause(c)
      BY <2>6
    <3>2. /\ pc = "idle" /\ UNCHANGED <<assumptions, trail_lim>>
          /\ \/ UNCHANGED <<trail, level>>
             \/ \E l, n : EnqueuesAt(n, l, CRef_Undef, 0)
      BY <3>1, AddFacts
    <3> QED BY <3>2
  <2> QED BY <2>1, <2>2, <2>3, <2>4, <2>5, <2>6
<1>2. PICK n : Keeps(n, h)
  <2>1. CASE UNCHANGED <<trail, level>>
    BY <2>1, NothingMoves
  <2>2. CASE \E l, n, from, lev : EnqueuesAt(n, l, from, lev)
    BY <2>2 DEF EnqueuesAt
  <2> QED BY <1>1, <2>1, <2>2
<1>3. decisionLevel' = h
  BY <1>0, <1>1 DEF decisionLevel
<1> QED
  BY <1>0, <1>1, <1>2, <1>3, AssumedBack

\* Deciding an assumption makes it true at its level.
LEMMA DecideAssumed ==
  ASSUME SearchInv, SearchInv', AssumedInv, NEW l \in Lit, Decide(l)
  PROVE  AssumedInv'
<1>0. PICK h \in Nat : h = decisionLevel
  BY TrailLevels
<1>1. /\ assumptions' = assumptions /\ pc = "decide" /\ decisionLevel' = h + 1
      /\ h < Len(assumptions) => l = assumptions[h + 1]
      /\ \E n : EnqueuesAt(n, l, CRef_Undef, h + 1)
  BY <1>0, DecideFacts DEF assumed
<1>2. PICK n : EnqueuesAt(n, l, CRef_Undef, h + 1)
  BY <1>1
<1>3. n \in Nat /\ Keeps(n, h) /\ Len(trail') = n + 1 /\ trail'[n + 1] = l /\ level'[var(l)] = h + 1
  BY <1>2 DEF EnqueuesAt, Appends
<1>4. ASSUME NEW k \in 1 .. Len(assumptions), k <= h + 1 PROVE TrueBy({assumptions[k]}, k)'
  <2>1. CASE k <= h
    BY <1>0, <1>1, <1>3, <2>1, AssumedStays
  <2>2. CASE k = h + 1
    <3>1. l = assumptions[k]
      BY <1>1, <2>2
    <3>2. n + 1 \in 1 .. Len(trail')
      BY <1>3
    <3> QED BY <1>1, <1>3, <2>2, <3>1, <3>2 DEF TrueBy
  <2> QED BY <1>4, <2>1, <2>2
<1>5. ASSUME NEW k \in 1 .. Len(assumptions'), k <= decisionLevel' PROVE TrueBy({assumptions[k]}, k)'
  BY <1>1, <1>4, <1>5
<1> QED
  BY <1>5 DEF AssumedInv

\* The assumptions whose levels have begun are true.
LEMMA AssumedKeeps ==
  ASSUME SearchInv, SearchInv', AssumedInv, [Next]_vars
  PROVE  AssumedInv'
BY StepCases, QuietAssumed, BackAssumed, ForthAssumed, DecideAssumed

\* A complete check begins when nothing is left to decide, and nothing is undone in it.
LEMMA CompleteKeeps ==
  ASSUME SearchInv, SearchInv', CompleteInv, [Next]_vars
  PROVE  CompleteInv'
<1> SUFFICES ASSUME after' = "complete", pc' \in {"checkTheory", "deduce"}
             PROVE  /\ decisionLevel' >= Len(assumptions')
                    /\ pc' = "checkTheory" => Undecided' = {}
                    /\ pc' = "deduce" => Extendable'
  BY DEF CompleteInv
<1>1. CASE Quiet
  <2>1. CompleteCall \/ TheoryAssert \/ TheorySat \/ UNCHANGED vars
    BY <1>1 DEF Quiet, PropagateNext, PropagateDone, SearchLoop, AddConflict, AnalyzeBegin, EarlyPruning,
                DeduceDone, TheorySplit, SplitDone, AssumeTrue, FinalBegin, FinalStep, RestoreOK, Solve
  <2>2. UNCHANGED <<trail, trail_lim, decision, assumptions>>
    BY <2>1 DEF CompleteCall, TheoryAssert, TheorySat, vars, trailVars, callVars
  <2>3. Undecided' = Undecided /\ decisionLevel' = decisionLevel
    BY <2>2 DEF Undecided, Unassigned, True, False, decisionLevel
  <2>4. CASE CompleteCall
    BY <2>2, <2>3, <2>4 DEF CompleteCall
  <2>5. CASE TheoryAssert
    BY <2>2, <2>3, <2>5 DEF TheoryAssert, CompleteInv
  <2>6. CASE TheorySat
    <3>1. UNCHANGED <<stack, declared, after>> /\ pc = "checkTheory" /\ pc' = "deduce" /\ (after = "complete" => Extendable)
      BY <2>6 DEF TheorySat, theoryVars
    <3>2. Extendable' <=> Extendable
      BY <3>1 DEF Extendable, Told
    <3> QED BY <2>2, <2>3, <3>1, <3>2 DEF CompleteInv
  <2>7. CASE UNCHANGED vars
    <3>1. UNCHANGED <<stack, declared, after, pc>>
      BY <2>7 DEF vars, theoryVars
    <3>2. Extendable' <=> Extendable
      BY <3>1 DEF Extendable, Told
    <3> QED BY <2>2, <2>3, <3>1, <3>2 DEF CompleteInv
  <2> QED BY <2>1, <2>4, <2>5, <2>6, <2>7
<1>2. CASE DeduceNext
  <2>1. UNCHANGED <<trail_lim, assumptions, stack, declared, after, pc>> /\ pc = "deduce"
    BY <1>2, DeduceNextFacts
  <2>2. (Extendable' <=> Extendable) /\ decisionLevel' = decisionLevel
    BY <2>1 DEF Extendable, Told, decisionLevel
  <2> QED BY <2>1, <2>2 DEF CompleteInv
<1>3. CASE Ends
  <2>1. PICK n : EndsAt(n)
    BY <1>3, EndsFacts
  <2> QED BY <2>1 DEF EndsAt
<1>4. CASE \E c \in visit : PropagateVisit(c)
  <2>1. pc' \in {"propagate", "conflict"}
    BY <1>4, VisitStep
  <2> QED BY <2>1
<1>5. CASE Simplify \/ ReduceDB
  BY <1>5, UpkeepFacts
<1>6. CASE \E c \in InputClause : AddOriginalClause(c)
  <2>1. pc' \in {"idle", "propagate"}
    BY <1>6, AddFacts
  <2> QED BY <2>1
<1>7. ~(AnalyzeStep \/ Learn \/ SplitUnit \/ SplitAttach \/ SplitEnqueue)
  BY DEF AnalyzeStep, Learn, SplitUnit, SplitAttach, SplitEnqueue
<1>8. ~((\E t \in TheoryConflict : TheoryUnsat(t)) \/ (\E l \in Lit : Decide(l)))
  BY DEF TheoryUnsat, Decide
<1> QED
  BY <1>1, <1>2, <1>3, <1>4, <1>5, <1>6, <1>7, <1>8, StepCases

-----------------------------------------------------------------------------
\* The parts of OrderInv: lemmas before anything was implied, and after.
Unordered(k) ==
  Unknown(splits[k]) # {} /\ \A l \in Unknown(splits[k]) : level[var(l)] = 0
Behind(k) == Implies(splits[k]) => SplitLevel(splits[k]) >= decisionLevel

\* The theory sends lemmas on a complete check: their new atoms were never assigned.
LEMMA TheorySplitOrders ==
  ASSUME SearchInv, SearchInv', DecisionInv, CompleteInv, NEW S \in SplitSets, TheorySplit(S)
  PROVE  OrderInv'
<1>1. /\ pc = "checkTheory" /\ after = "complete" /\ propData' = <<>>
      /\ \A c \in S : Unknown(c) # {}
      /\ splits' \in [1 .. Cardinality(S) -> S] /\ SortedByLevel(splits')
      /\ UNCHANGED <<trail, level>>
  BY DEF TheorySplit, trailVars
<1>2. Undecided = {} /\ ~Outside
  BY <1>1 DEF CompleteInv, SearchInv, PhaseInv, Outside
<1>3. S \in SUBSET SplitClause /\ splits' \in Seq(SplitClause)
  BY DEF SplitSets, SearchInv, SplitInv
<1>4. ASSUME NEW c \in S, NEW l \in Unknown(c) PROVE level[var(l)] = 0
  <2>1. c \in SUBSET Lit /\ c \in SplitClause
    BY <1>3, ClauseAssumption
  <2>2. l \in Lit /\ l \in c /\ Unassigned(l)
    BY <2>1 DEF Unknown
  <2>3. PICK v \in Var : v = var(l)
    BY <2>2, LitFacts
  <2>4. v \in Lit /\ var(v) = v /\ (l = v \/ l = -v)
    BY <2>2, <2>3, VarAssumption, LitFacts DEF Lit, var
  <2>5. Unassigned(v)
    BY <2>2, <2>3, <2>4, TrailLevels, ValueFacts DEF Fresh
  <2>6. v \notin decision
    BY <1>2, <2>5 DEF Undecided
  <2>7. v \notin FrameVar
    BY <2>1, <2>2, <2>4, FrameAssumption
  <2>8. level[v] # 0 => v \in Base \cup FrameVar
    BY DEF DecisionInv
  <2> QED BY <1>2, <2>3, <2>6, <2>7, <2>8 DEF Base
<1>5. \A k \in 1 .. Len(splits') : splits'[k] \in S
  <2>1. DOMAIN splits' = 1 .. Len(splits')
    BY <1>3
  <2>2. DOMAIN splits' = 1 .. Cardinality(S)
    BY <1>1
  <2> QED BY <1>1, <2>1, <2>2
<1>6. \A c : Unknown(c)' = Unknown(c)
  BY <1>1 DEF Unknown, Unassigned, True, False
<1>7. ASSUME NEW k \in 1 .. Len(splits') PROVE Unordered(k)'
  <2>1. PICK c \in S : c = splits'[k]
    BY <1>5
  <2>2. Unknown(c)' # {} /\ \A l \in Unknown(c)' : level'[var(l)] = 0
    BY <1>1, <1>4, <1>6
  <2> QED BY <2>1, <2>2 DEF Unordered, Unknown, Unassigned, True, False
<1>8. SortedByLevel(splits)'
  BY <1>1 DEF SortedByLevel, MaxLevel
<1> QED
  BY <1>1, <1>7, <1>8 DEF OrderInv, Unordered

\* What a lemma that waits says of the levels of its literals.
LEMMA UnorderedLevels ==
  ASSUME SearchInv, NEW d \in SUBSET Lit, \A l \in Unknown(d) : level[var(l)] = 0
  PROVE  \A l \in d : level[var(l)] \in 0 .. decisionLevel
<1> TAKE l \in d
<1>1. l \in Lit /\ decisionLevel \in Nat
  BY TrailLevels
<1>2. CASE Unassigned(l)
  <2>1. level[var(l)] = 0
    BY <1>2 DEF Unknown
  <2> QED BY <1>1, <2>1
<1>3. CASE ~Unassigned(l)
  <2>1. PICK i \in 1 .. Len(trail) : trail[i] = l \/ trail[i] = -l
    BY <1>3, TrailLevels, ValueFacts DEF Unassigned, FalseBefore
  <2>2. var(trail[i]) = var(l)
    BY <1>1, <2>1, LitFacts
  <2>3. level[var(trail[i])] \in 0 .. decisionLevel
    BY TrailLevels
  <2> QED BY <2>2, <2>3
<1> QED
  BY <1>2, <1>3

\* Going back to the level of a lemma c leaves a lemma d that comes after it either
\* with two literals that are not assigned or false no lower than c.
LEMMA LaterLemma ==
  ASSUME SearchInv, SearchInv', NEW n, NEW bt \in 1 .. decisionLevel, Keeps(n, bt), Len(trail') = n,
         \A i \in 1 .. n : level[var(trail[i])] <= bt, UNCHANGED level,
         NEW d \in SUBSET Lit, Unknown(d) # {}, \A l \in Unknown(d) : level[var(l)] = 0,
         bt <= MaxLevel(d), Implies(d)'
  PROVE  FalseLevel(d)' >= bt
<1>0. PICK h \in Nat : h = decisionLevel
  BY TrailLevels
<1>1. \A l \in d : level[var(l)] \in 0 .. h
  BY <1>0, UnorderedLevels
<1>2. /\ MaxLevel(d) \in 0 .. h
      /\ MaxLevel(d) > 0 => \E l \in d : level[var(l)] = MaxLevel(d)
  BY <1>1, MaxLevelFacts
<1>3. bt \in Nat /\ bt > 0 /\ MaxLevel(d) > 0
  BY <1>0, <1>2
<1>4. PICK k \in d : level[var(k)] = MaxLevel(d)
  BY <1>2, <1>3
<1>5. k \in Lit /\ k \notin Unknown(d) /\ ~Unassigned(k)
  BY <1>3, <1>4 DEF Unknown
<1>6. PICK i \in 1 .. Len(trail) : trail[i] = k \/ trail[i] = -k
  BY <1>5, TrailLevels, ValueFacts DEF Unassigned, FalseBefore
<1>7. var(trail[i]) = var(k)
  BY <1>5, <1>6, LitFacts
<1>8. PICK u \in Unknown(d) : TRUE
  OBVIOUS
<1>9. u \in d /\ u \in Lit /\ Fresh(trail, u) /\ u # k
  BY <1>5, <1>8, TrailLevels, ValueFacts DEF Unknown
<1>10. trail' \in Seq(Lit) /\ n \in Nat /\ n <= Len(trail) /\ \A j \in 1 .. n : j \in 1 .. Len(trail) /\ trail'[j] = trail[j]
  <2>1. trail' \in Seq(Lit)
    BY DEF SearchInv, TrailInv, TrailHolds, TrailFits
  <2>2. n \in 0 .. Len(trail) /\ Len(trail) \in Nat
    BY TrailLevels DEF Keeps
  <2> QED BY <2>1, <2>2 DEF Keeps
<1>11. /\ \A l : True(l)' <=> \E j \in 1 .. n : trail'[j] = l
       /\ \A l : False(l)' <=> \E j \in 1 .. n : trail'[j] = -l
  <2>1. Range(trail') = {trail'[j] : j \in 1 .. n}
    BY <1>10 DEF Range
  <2> QED BY <2>1 DEF True, False
<1>12. ASSUME NEW l \in Lit, \A j \in 1 .. n : var(trail[j]) # var(l) PROVE Unassigned(l)'
  <2>1. ASSUME NEW j \in 1 .. n PROVE trail'[j] # l /\ trail'[j] # -l
    <3>1. trail'[j] = trail[j] /\ var(trail[j]) # var(l)
      BY <1>10, <1>12
    <3>2. var(-l) = var(l)
      BY LitFacts
    <3> QED BY <3>1, <3>2
  <2>2. ~True(l)' /\ ~False(l)'
    BY <1>11, <2>1
  <2> QED BY <2>2 DEF Unassigned
<1>13. Unassigned(u)'
  BY <1>9, <1>10, <1>12 DEF Fresh
<1>14. Unknown(d)' \in SUBSET Lit /\ Cardinality(Unknown(d)') = 1 /\ ~Satisfied(d)'
  BY DEF Implies, Unknown
<1>15. PICK x \in Unknown(d)' : Unknown(d)' = {x}
  BY <1>14, OneElement
<1>16. Unknown(d)' = {l \in d : Unassigned(l)'}
  BY DEF Unknown
<1>17. ~Unassigned(k)'
  BY <1>9, <1>13, <1>15, <1>16
<1>18. ~True(k)'
  BY <1>14 DEF Satisfied
<1>19. False(k)'
  BY <1>17, <1>18 DEF Unassigned
<1>20. PICK F : F = {l \in d : False(l)'}
  OBVIOUS
<1>21. FalseLevel(d)' = MaxLevel(F)
  BY <1>20 DEF FalseLevel, MaxLevel
<1>22. k \in F /\ \A l \in F : level[var(l)] \in 0 .. h
  BY <1>1, <1>19, <1>20
<1>23. level[var(k)] <= MaxLevel(F) /\ MaxLevel(F) \in 0 .. h
  BY <1>22, MaxLevelFacts
<1> QED
  BY <1>0, <1>2, <1>4, <1>21, <1>23

\* Handling a lemma keeps the others in order.
LEMMA SplitUnitOrders ==
  ASSUME SearchInv, SearchInv', OrderInv, SplitUnit
  PROVE  OrderInv'
<1>0. PICK h \in Nat : h = decisionLevel
  BY TrailLevels
<1>1. PICK n, bt, c, l : SplitsAt(n, bt, c, l)
  BY SplitUnitFacts
<1>2. /\ Keeps(n, bt) /\ bt \in 0 .. h /\ decisionLevel' = bt /\ n = EndOf(bt)
      /\ \A i \in 1 .. n : level[var(trail[i])] <= bt
      /\ c = Head(splits) /\ bt = FalseLevel(c) /\ Implies(c)
      /\ splits # <<>> /\ splits' = Tail(splits) /\ pc = "split"
      /\ l \in c /\ l \in Lit
  BY <1>0, <1>1 DEF SplitsAt
<1>2a. bt > 0 => /\ Len(trail') = n /\ level' = level
                 /\ propData' = (IF bt < h THEN <<>> ELSE propData) \o <<<<l, c>>>>
  <2>1. bt = 0 \/ /\ bt > 0 /\ Len(trail') = n /\ level' = level
                  /\ propData' = (IF bt < decisionLevel THEN <<>> ELSE propData) \o <<<<l, c>>>>
    BY <1>1 DEF SplitsAt
  <2>2. CASE bt = 0
    BY <2>2
  <2>3. CASE bt # 0
    <3>1. /\ Len(trail') = n /\ level' = level
          /\ propData' = (IF bt < decisionLevel THEN <<>> ELSE propData) \o <<<<l, c>>>>
      BY <2>1, <2>3
    <3> QED BY <1>0, <3>1
  <2> QED BY <2>2, <2>3
<1> SUFFICES ASSUME bt > 0, NEW k \in 1 .. Len(splits')
             PROVE  propData' # <<>> /\ Behind(k)'
  BY <1>2 DEF OrderInv, Behind, SortedByLevel
<1>3. splits \in Seq(SplitClause) /\ propData \in Seq(Lit \X SUBSET Lit)
  BY DEF SearchInv, SplitInv
<1>4. c = splits[1] /\ 1 \in 1 .. Len(splits) /\ splits'[k] = splits[k + 1] /\ k + 1 \in 1 .. Len(splits) /\ 1 < k + 1
  BY <1>2, <1>3
<1>5. PICK d : d = splits[k + 1]
  OBVIOUS
<1>6. c \in SplitClause /\ d \in SplitClause
  BY <1>3, <1>4, <1>5
<1>7. c \in SUBSET Lit /\ d \in SUBSET Lit
  BY <1>6, ClauseAssumption
<1>8. propData' # <<>>
  <2>0. PICK old : old = IF bt < h THEN <<>> ELSE propData
    OBVIOUS
  <2>1. old \in Seq(Lit \X SUBSET Lit) /\ <<<<l, c>>>> \in Seq(Lit \X SUBSET Lit) /\ Len(<<<<l, c>>>>) = 1
    BY <1>2, <1>3, <1>7, <2>0
  <2>2. PICK e \in Seq(Lit \X SUBSET Lit) : e = <<<<l, c>>>> /\ Len(e) = 1
    BY <2>1
  <2>3. propData' = old \o e
    BY <1>2a, <2>0, <2>2
  <2>4. Len(old \o e) = Len(old) + Len(e)
    BY <2>1, <2>2
  <2>5. Len(propData') # 0
    BY <2>1, <2>2, <2>3, <2>4
  <2> QED BY <2>5
<1>9. ASSUME Implies(d)' PROVE FalseLevel(d)' >= bt
  <2>1. CASE propData = <<>>
    <3>1. /\ Unordered(1) /\ Unordered(k + 1) /\ SortedByLevel(splits)
      BY <1>0, <1>2, <1>4, <2>1 DEF OrderInv, Unordered
    <3>2. DOMAIN splits = 1 .. Len(splits)
      BY <1>3
    <3>3. MaxLevel(splits[1]) <= MaxLevel(splits[k + 1])
      BY <1>4, <3>1, <3>2 DEF SortedByLevel
    <3>4. Unknown(d) # {} /\ (\A u \in Unknown(d) : level[var(u)] = 0) /\ \A u \in Unknown(c) : level[var(u)] = 0
      BY <1>4, <1>5, <3>1 DEF Unordered
    <3>5. \A u \in c : level[var(u)] \in 0 .. h
      BY <1>0, <1>7, <3>4, UnorderedLevels
    <3>6. PICK F : F = {u \in c : False(u)}
      OBVIOUS
    <3>7. bt = MaxLevel(F) /\ \A u \in F : u \in c /\ level[var(u)] \in 0 .. h
      BY <1>2, <3>5, <3>6 DEF FalseLevel
    <3>8. \E u \in F : level[var(u)] = bt
      BY <3>7, MaxLevelFacts
    <3>9. MaxLevel(c) \in 0 .. h /\ \A u \in c : level[var(u)] <= MaxLevel(c)
      BY <3>5, MaxLevelFacts
    <3>10. \A u \in d : level[var(u)] \in 0 .. h
      BY <1>0, <1>7, <3>4, UnorderedLevels
    <3>11. MaxLevel(d) \in 0 .. h
      BY <3>10, MaxLevelFacts
    <3>12. bt <= MaxLevel(d) /\ bt \in 1 .. h
      BY <1>2, <1>4, <1>5, <3>3, <3>7, <3>8, <3>9, <3>11
    <3> QED BY <1>0, <1>2, <1>2a, <1>7, <1>9, <3>4, <3>12, LaterLemma
  <2>2. CASE propData # <<>>
    <3>1. Behind(1) /\ Behind(k + 1)
      BY <1>0, <1>2, <1>4, <2>2 DEF OrderInv, Behind
    <3>2. bt >= h /\ bt = h
      BY <1>0, <1>2, <1>4, <3>1 DEF Behind, SplitLevel
    <3>3. n = Len(trail)
      BY <1>0, <1>2, <3>2 DEF EndOf
    <3>4. trail' = trail
      <4>1. trail' \in Seq(Lit) /\ trail \in Seq(Lit)
        BY DEF SearchInv, TrailInv, TrailHolds, TrailFits
      <4>2. Len(trail') = Len(trail) /\ \A j \in 1 .. Len(trail) : trail'[j] = trail[j]
        BY <1>2, <1>2a, <3>3 DEF Keeps
      <4> QED BY <4>1, <4>2, SeqEqual
    <3>5. Implies(d)
      BY <1>9, <3>4 DEF Implies, Satisfied, Unknown, Unassigned, True, False
    <3>6. FalseLevel(d) >= h
      BY <1>0, <1>5, <3>1, <3>5 DEF Behind, SplitLevel
    <3>7. FalseLevel(d)' = FalseLevel(d)
      BY <1>2a, <3>4 DEF FalseLevel, MaxLevel, False
    <3> QED BY <3>2, <3>6, <3>7
  <2> QED BY <2>1, <2>2
<1> QED
  BY <1>2, <1>4, <1>5, <1>8, <1>9 DEF Behind, SplitLevel

\* Lemmas stay in order.
LEMMA OrderKeeps ==
  ASSUME SearchInv, SearchInv', DecisionInv, CompleteInv, OrderInv, [Next]_vars
  PROVE  OrderInv'
<1> SUFFICES ASSUME pc' = "split" PROVE OrderInv'
  BY DEF OrderInv
<1>1. CASE Quiet
  <2>1. (\E S \in SplitSets : TheorySplit(S)) \/ UNCHANGED vars
    BY <1>1 DEF Quiet, PropagateNext, PropagateDone, SearchLoop, AddConflict, AnalyzeBegin, EarlyPruning,
                TheoryAssert, TheorySat, DeduceDone, SplitDone, AssumeTrue, CompleteCall,
                FinalBegin, FinalStep, RestoreOK, Solve
  <2>2. CASE UNCHANGED vars
    <3>1. UNCHANGED <<trail, trail_lim, level, splits, propData, pc>>
      BY <2>2 DEF vars, trailVars, splitVars
    <3> QED BY <3>1 DEF OrderInv, Unknown, Unassigned, True, False, SortedByLevel, MaxLevel, Implies,
                        Satisfied, SplitLevel, FalseLevel, decisionLevel
  <2> QED BY <2>1, <2>2, TheorySplitOrders
<1>2. CASE SplitAttach
  <2>1. PICK c, pair : AttachesLemma(c, pair)
    BY <1>2, SplitAttachFacts
  <2>2. UNCHANGED <<trail, trail_lim, level, propData>> /\ splits # <<>> /\ splits' = Tail(splits) /\ pc = "split"
    BY <2>1 DEF AttachesLemma
  <2>3. splits \in Seq(SplitClause)
    BY DEF SearchInv, SplitInv
  <2>4. PICK s \in Seq(SplitClause) : s = splits'
    BY <2>2, <2>3
  <2>5. \A k \in 1 .. Len(s) : s[k] = splits[k + 1] /\ k + 1 \in 1 .. Len(splits)
    BY <2>2, <2>3, <2>4
  <2>6. decisionLevel' = decisionLevel
    BY <2>2 DEF decisionLevel
  <2>7. /\ \A d : (Implies(d)' <=> Implies(d)) /\ Unknown(d)' = Unknown(d)
        /\ \A d : SplitLevel(d)' = SplitLevel(d) /\ MaxLevel(d)' = MaxLevel(d)
    BY <2>2 DEF Unknown, Unassigned, True, False, MaxLevel, Implies, Satisfied, SplitLevel, FalseLevel
  <2>8. CASE propData = <<>> /\ decisionLevel > 0
    <3>1. (\A k \in 1 .. Len(splits) : Unordered(k)) /\ SortedByLevel(splits)
      BY <2>2, <2>8 DEF OrderInv, Unordered
    <3>2. ASSUME NEW k \in 1 .. Len(s)
          PROVE  Unknown(s[k])' # {} /\ \A l \in Unknown(s[k])' : level'[var(l)] = 0
      <4>1. PICK d : d = s[k]
        OBVIOUS
      <4>2. Unknown(d) # {} /\ \A l \in Unknown(d) : level[var(l)] = 0
        BY <2>5, <3>1, <4>1 DEF Unordered
      <4>3. Unknown(d)' # {} /\ \A l \in Unknown(d)' : level'[var(l)] = 0
        BY <2>2, <2>7, <4>2
      <4> QED BY <4>1, <4>3 DEF Unknown, Unassigned, True, False
    <3>3. SortedByLevel(s)'
      <4> SUFFICES ASSUME NEW i \in 1 .. Len(s), NEW j \in 1 .. Len(s), i < j
                   PROVE  MaxLevel(s[i])' <= MaxLevel(s[j])'
        BY <2>4 DEF SortedByLevel
      <4>1. PICK a : a = s[i]
        OBVIOUS
      <4>2. PICK b : b = s[j]
        OBVIOUS
      <4>3. i + 1 \in DOMAIN splits /\ j + 1 \in DOMAIN splits /\ i + 1 < j + 1
        BY <2>3, <2>5
      <4>4. MaxLevel(a) <= MaxLevel(b)
        BY <2>5, <3>1, <4>1, <4>2, <4>3 DEF SortedByLevel
      <4>5. MaxLevel(a)' <= MaxLevel(b)'
        BY <2>7, <4>4
      <4> QED BY <4>1, <4>2, <4>5 DEF MaxLevel
    <3> QED BY <2>2, <2>4, <2>8, <3>2, <3>3 DEF OrderInv, Unknown, Unassigned, True, False, SortedByLevel, MaxLevel
  <2>9. CASE propData # <<>> /\ decisionLevel > 0
    <3>1. \A k \in 1 .. Len(splits) : Behind(k)
      BY <2>2, <2>9 DEF OrderInv, Behind
    <3>2. ASSUME NEW k \in 1 .. Len(splits') PROVE Behind(k)'
      <4>1. PICK d : d = s[k]
        OBVIOUS
      <4>2. Implies(d) => SplitLevel(d) >= decisionLevel
        BY <2>4, <2>5, <3>1, <4>1 DEF Behind
      <4>3. Implies(d)' => SplitLevel(d)' >= decisionLevel'
        BY <2>6, <2>7, <4>2
      <4>4. d = splits'[k]
        BY <2>4, <4>1
      <4> QED BY <4>3, <4>4 DEF Behind, Unknown, Unassigned, True, False, MaxLevel, Implies, Satisfied,
                                SplitLevel, FalseLevel
    <3> QED BY <2>2, <2>9, <3>2 DEF OrderInv, Behind
  <2> QED BY <2>6, <2>8, <2>9 DEF OrderInv
<1>3. CASE SplitEnqueue
  <2>1. splits' = <<>>
    BY <1>3, SplitEnqueueFacts
  <2>2. Len(splits') = 0 /\ DOMAIN splits' = {}
    BY <2>1
  <2> QED BY <2>2 DEF OrderInv, SortedByLevel
<1>4. CASE \E c \in visit : PropagateVisit(c)
  <2>1. pc' \in {"propagate", "conflict"}
    BY <1>4, VisitStep
  <2> QED BY <2>1
<1>5. CASE Simplify \/ ReduceDB
  BY <1>5, UpkeepFacts
<1>6. CASE \E c \in InputClause : AddOriginalClause(c)
  <2>1. pc' \in {"idle", "propagate"}
    BY <1>6, AddFacts
  <2> QED BY <2>1
<1>7. CASE Ends
  <2>1. PICK n : EndsAt(n)
    BY <1>7, EndsFacts
  <2> QED BY <2>1 DEF EndsAt
<1>8. ~(AnalyzeStep \/ Learn \/ DeduceNext)
  BY DEF AnalyzeStep, Learn, DeduceNext
<1>9. ~((\E t \in TheoryConflict : TheoryUnsat(t)) \/ (\E l \in Lit : Decide(l)))
  BY DEF TheoryUnsat, Decide
<1> QED
  BY <1>1, <1>2, <1>3, <1>4, <1>5, <1>6, <1>7, <1>8, <1>9, StepCases, SplitUnitOrders

-----------------------------------------------------------------------------
\* The assumptions are literals of different frame variables.
LEMMA AssumptionFacts ==
  ASSUME SearchInv, FrameInv, NEW k \in 1 .. Len(assumptions)
  PROVE  /\ Len(assumptions) \in Nat /\ assumptions[k] \in Lit /\ var(assumptions[k]) \in FrameVar
         /\ \A j \in 1 .. Len(assumptions) : var(assumptions[j]) = var(assumptions[k]) => j = k
         /\ assumptions[k] \in Range(assumptions)
<1>1. PICK S : S = {l \in Lit : var(l) \notin TheoryVar}
  OBVIOUS
<1>2. PICK s \in Seq(S) : s = assumptions
  BY <1>1 DEF SearchInv, AnswerInv
<1>3. k \in 1 .. Len(s) /\ Len(s) \in Nat /\ DOMAIN s = 1 .. Len(s)
  BY <1>2
<1>4. s[k] \in S /\ s[k] \in Range(s)
  BY <1>3 DEF Range
<1>5. assumptions # <<>>
  BY <1>2, <1>3
<1>6. PICK as \in Assumption : as = assumptions
  BY <1>5 DEF FrameInv
<1>7. \A i, j \in 1 .. Len(as) : var(as[i]) = var(as[j]) => i = j
  BY FrameAssumption
<1>8. var(as[k]) \in FrameVar
  BY <1>6 DEF FrameVar
<1> QED
  BY <1>1, <1>2, <1>3, <1>4, <1>6, <1>7, <1>8

\* A decision below the next assumption is an assumption of another frame.
LEMMA DecisionIsAssumed ==
  ASSUME SearchInv, FrameInv, decisionLevel < Len(assumptions), NEW i \in 1 .. Len(trail),
         NEW l, l = trail[i], level[var(l)] > 0, reason[var(l)] = CRef_Undef
  PROVE  /\ \E k \in 1 .. Len(assumptions) : l = assumptions[k]
         /\ var(l) # var(assumed)
<1>0. PICK h \in Nat : h = decisionLevel
  BY TrailLevels
<1>1. PICK lv : lv = level[var(l)]
  OBVIOUS
<1>2. lv \in 0 .. h
  BY <1>0, <1>1, TrailLevels
<1>3. lv \in 1 .. h
  BY <1>1, <1>2
<1>4. Len(assumptions) \in Nat
  BY DEF SearchInv, AnswerInv
<1>5. lv \in 1 .. Len(assumptions) /\ h + 1 \in 1 .. Len(assumptions) /\ lv <= Len(assumptions) /\ lv # h + 1
  BY <1>0, <1>3, <1>4
<1>6. l = assumptions[lv]
  BY <1>1, <1>3, <1>5 DEF SearchInv, TrailInv, TrailHolds, Decided
<1>7. PICK g \in 1 .. Len(assumptions) : g = h + 1
  BY <1>5
<1>8. \A j \in 1 .. Len(assumptions) : var(assumptions[j]) = var(assumptions[g]) => j = g
  BY AssumptionFacts
<1> QED
  BY <1>0, <1>5, <1>6, <1>7, <1>8 DEF assumed

\* Resolving the marked literals with the reason of one of them keeps what they say.
LEMMA MarksResolve ==
  ASSUME SearchInv, pc = "final", NEW i \in 1 .. Len(trail), NEW l, l = trail[i], -l \in seen, NEW r,
         Implies1(r, l, i), NEW s, s = (seen \cup r) \ {l, -l}, NEW m \in GivenModel, seen \cap m # {}
  PROVE  s \cap m # {}
<1>1. seen \subseteq Lit /\ AllFalse(seen)
  BY DEF SearchInv, FinalInv
<1>2. r \subseteq Lit /\ Implied(r, GivenModel) /\ \A k \in r \ {l} : FalseBefore(trail, i - 1, k)
  BY DEF Implies1
<1>3. l \in Lit /\ Distinct(trail)
  BY TrailLevels DEF SearchInv, TrailInv, TrailHolds, TrailFits
<1>4. l \notin seen
  <2> SUFFICES ASSUME l \in seen PROVE FALSE
    OBVIOUS
  <2>1. PICK j \in 1 .. Len(trail) : trail[j] = -l
    BY <1>1 DEF AllFalse, FalseBefore
  <2>2. var(trail[j]) = var(trail[i]) /\ trail[j] # trail[i]
    BY <1>3, <2>1, LitFacts
  <2> QED BY <1>3, <2>2 DEF Distinct
<1>5. -l \notin r
  <2> SUFFICES ASSUME -l \in r PROVE FALSE
    OBVIOUS
  <2>1. FalseBefore(trail, i - 1, -l)
    BY <1>2, <1>3, LitFacts
  <2>2. PICK j \in 1 .. i - 1 : trail[j] = -(-l)
    BY <2>1 DEF FalseBefore
  <2>3. j \in 1 .. Len(trail) /\ trail[j] = trail[i] /\ j # i
    BY <1>3, <2>2, TrailLevels, LitFacts
  <2> QED BY <1>3, <2>3 DEF Distinct
<1>6. PICK k \in seen : k \in m
  OBVIOUS
<1>7. CASE k # -l
  BY <1>4, <1>6, <1>7
<1>8. CASE k = -l
  <2>1. m \in TheoryModel /\ l \notin m
    BY <1>3, <1>6, <1>8, GivenFacts, ModelFacts
  <2>2. PICK x \in r : x \in m
    BY <1>2 DEF Implied
  <2> QED BY <1>5, <2>1, <2>2
<1> QED
  BY <1>7, <1>8

\* The parts of BlameInv.
Agreeing(m) == \A k \in Blamed : -k \in m
BlameParts ==
  /\ \A v \in FrameVar : -v \in seen => -v = assumed
  /\ \A m \in GivenModel : Agreeing(m) => seen \cap m # {}
  /\ \A k \in Blamed : -k \in Range(assumptions)

\* analyzeFinal begins with an assumption that is false, which is a negative one: a
\* positive one would be false by an assumption of the same frame.
LEMMA FinalBeginBlames ==
  ASSUME SearchInv, FrameInv, FinalBegin
  PROVE  BlameParts'
<1>0. PICK h \in Nat : h = decisionLevel
  BY TrailLevels
<1>1. /\ decisionLevel < Len(assumptions) /\ False(assumed) /\ conflict' = {-assumed} /\ seen' = {assumed}
      /\ UNCHANGED <<given, assumptions, trail_lim>>
  BY DEF FinalBegin, clauseVars, callVars, trailVars
<1>2. Len(assumptions) \in Nat
  BY DEF SearchInv, AnswerInv
<1>3. PICK g \in 1 .. Len(assumptions) : g = h + 1
  BY <1>0, <1>1, <1>2
<1>4. PICK a : a = assumed
  OBVIOUS
<1>5. a = assumptions[g] /\ assumed' = a
  BY <1>0, <1>1, <1>3, <1>4 DEF assumed, decisionLevel
<1>6. a \in Lit /\ var(a) \in FrameVar /\ a \in Range(assumptions)
  BY <1>5, AssumptionFacts
<1>7. a \in Int /\ -a \in Int /\ -(-a) = a /\ a # 0
  BY <1>6, LitFacts
<1>8. a < 0
  <2> SUFFICES ASSUME a > 0 PROVE FALSE
    BY <1>7
  <2>1. a \in FrameVar
    BY <1>6, <1>7 DEF var
  <2>2. PICK i \in 1 .. Len(trail) : trail[i] = -a
    BY <1>1, <1>4, TrailLevels, ValueFacts DEF FalseBefore
  <2>3. var(-a) = a /\ var(a) = a
    BY <2>1, FrameVarFacts
  <2>4. level[a] > 0 /\ reason[a] = CRef_Undef
    BY <2>1, <2>2 DEF FrameInv
  <2>5. PICK l : l = trail[i]
    OBVIOUS
  <2>6. level[var(l)] > 0 /\ reason[var(l)] = CRef_Undef /\ var(l) = var(a)
    BY <2>2, <2>3, <2>4, <2>5
  <2>7. var(l) # var(assumed)
    BY <1>1, <2>5, <2>6, DecisionIsAssumed
  <2> QED BY <1>4, <2>6, <2>7
<1>9. Blamed' = {-a}
  BY <1>1, <1>4, <1>7, <1>8 DEF Blamed
<1>10. \A v \in FrameVar : -v \in seen' => -v = assumed'
  BY <1>1, <1>4, <1>5
<1>11. \A m \in GivenModel' : Agreeing(m)' => seen' \cap m # {}
  BY <1>1, <1>4, <1>7, <1>9 DEF Agreeing
<1>12. \A k \in Blamed' : -k \in Range(assumptions')
  BY <1>1, <1>6, <1>7, <1>9
<1> QED
  BY <1>10, <1>11, <1>12 DEF BlameParts, FrameVar, Agreeing, Blamed, GivenModel

\* Marks that are replaced by their reasons.
LEMMA ResolveBlames ==
  ASSUME SearchInv, pc = "final", BlameParts, NEW i \in 1 .. Len(trail), NEW l, l = trail[i], -l \in seen, NEW r,
         Implies1(r, l, i), Positive(r), seen' = (seen \cup r) \ {l, -l},
         UNCHANGED <<conflict, given, assumptions, trail_lim>>
  PROVE  BlameParts'
<1>1. assumed' = assumed /\ Blamed' = Blamed /\ GivenModel' = GivenModel
  BY GivenFacts DEF assumed, Blamed, decisionLevel
<1>2. PICK s : s = (seen \cup r) \ {l, -l}
  OBVIOUS
<1>3. ASSUME NEW m \in GivenModel, Agreeing(m) PROVE s \cap m # {}
  <2>1. seen \cap m # {}
    BY <1>3 DEF BlameParts
  <2> QED BY <1>2, <2>1, MarksResolve
<1>4. \A v \in FrameVar : -v \in seen' => -v = assumed'
  BY <1>1 DEF BlameParts, Positive
<1>5. \A m : Agreeing(m)' <=> Agreeing(m)
  BY <1>1 DEF Agreeing
<1>6. \A m \in GivenModel' : Agreeing(m)' => seen' \cap m # {}
  BY <1>1, <1>2, <1>3, <1>5
<1>7. \A k \in Blamed' : -k \in Range(assumptions')
  BY <1>1 DEF BlameParts
<1> QED
  BY <1>4, <1>6, <1>7 DEF BlameParts, FrameVar, Agreeing, Blamed, GivenModel

\* A mark on a decision, or on a literal of level zero: the decision is an assumption,
\* and an active one is blamed.
LEMMA DecisionBlames ==
  ASSUME SearchInv, FrameInv, pc = "final", BlameParts, NEW i \in 1 .. Len(trail), NEW l, l = trail[i], -l \in seen,
         reason[var(l)] = CRef_Undef, seen' = seen \ {-l},
         conflict' = IF var(l) \in ActiveVars THEN conflict \cup {-l} ELSE conflict,
         UNCHANGED <<given, assumptions, trail_lim>>
  PROVE  BlameParts'
<1>0. PICK h \in Nat : h = decisionLevel
  BY TrailLevels
<1>1. assumed' = assumed /\ GivenModel' = GivenModel /\ Range(assumptions') = Range(assumptions)
  BY GivenFacts DEF assumed, decisionLevel
<1>2. l \in Lit /\ l \in Int /\ l # 0 /\ -l \in Int /\ -(-l) = l /\ level[var(l)] \in 0 .. h
  BY <1>0, TrailLevels, LitFacts
<1>3. Blamed \subseteq Blamed' /\ \A k \in Blamed' : k \in Blamed \/ (k = -l /\ k > 0 /\ var(l) \in ActiveVars)
  BY DEF Blamed
<1>4. var(l) \in ActiveVars /\ -l > 0 => -l \in Blamed'
  BY DEF Blamed
<1>5. decisionLevel < Len(assumptions)
  BY DEF SearchInv, FinalInv
<1>6. ASSUME var(l) \in ActiveVars, -l > 0 PROVE l \in Range(assumptions)
  <2>1. PICK k \in 1 .. Len(assumptions) : assumptions[k] < 0 /\ var(l) = var(assumptions[k])
    BY <1>6 DEF ActiveVars, Active
  <2>2. assumptions[k] \in Lit /\ assumptions[k] \in Int /\ assumptions[k] \in Range(assumptions)
    BY AssumptionFacts, LitFacts
  <2>3. l = assumptions[k] \/ l = -assumptions[k]
    BY <1>2, <2>1, <2>2, SameVar, LitFacts
  <2>4. l = assumptions[k]
    BY <1>2, <1>6, <2>1, <2>2, <2>3
  <2> QED BY <2>2, <2>4
<1>7. ASSUME NEW m \in GivenModel, \A k \in Blamed' : -k \in m PROVE -l \notin m
  <2>1. m \in TheoryModel
    BY GivenFacts
  <2>2. CASE level[var(l)] = 0
    <3>1. l \in m
      BY <2>2 DEF SearchInv, TrailInv, TrailHolds, Zero
    <3> QED BY <1>2, <2>1, <3>1, ModelFacts
  <2>3. CASE level[var(l)] # 0
    <3>1. level[var(l)] > 0
      BY <1>2, <2>3
    <3>2. (\E k \in 1 .. Len(assumptions) : l = assumptions[k]) /\ var(l) # var(assumed)
      BY <1>5, <3>1, DecisionIsAssumed
    <3>3. PICK k \in 1 .. Len(assumptions) : l = assumptions[k]
      BY <3>2
    <3>4. CASE l < 0
      <4>1. var(l) \in ActiveVars /\ -l > 0
        BY <1>2, <3>3, <3>4 DEF ActiveVars, Active
      <4>2. l \in m
        BY <1>2, <1>4, <1>7, <4>1
      <4> QED BY <1>2, <2>1, <4>2, ModelFacts
    <3>5. CASE l > 0
      <4>1. l = var(l) /\ var(l) \in FrameVar
        BY <1>2, <3>3, <3>5, AssumptionFacts DEF var
      <4>2. -l = assumed
        BY <4>1 DEF BlameParts
      <4>3. var(-l) = var(l)
        BY <1>2, LitFacts
      <4> QED BY <3>2, <4>2, <4>3
    <3> QED BY <1>2, <3>4, <3>5
  <2> QED BY <2>2, <2>3
<1>8. \A v \in FrameVar : -v \in seen' => -v = assumed'
  BY <1>1 DEF BlameParts
<1>9. ASSUME NEW m \in GivenModel', Agreeing(m)' PROVE seen' \cap m # {}
  <2>1. m \in GivenModel /\ \A k \in Blamed' : -k \in m
    BY <1>1, <1>9 DEF Agreeing
  <2>2. seen \cap m # {}
    BY <1>3, <2>1 DEF BlameParts, Agreeing
  <2> QED BY <1>7, <2>1, <2>2
<1>10. \A k \in Blamed' : -k \in Range(assumptions')
  BY <1>1, <1>2, <1>3, <1>6 DEF BlameParts
<1> QED
  BY <1>8, <1>9, <1>10 DEF BlameParts, FrameVar, Agreeing, Blamed, GivenModel

\* A round of analyzeFinal.
LEMMA FinalStepBlames ==
  ASSUME SearchInv, FrameInv, ReasonInv, BlameParts, FinalStep
  PROVE  BlameParts'
<1>1. PICK i : i = LastSeen(seen)
  OBVIOUS
<1>2. PICK l : l = trail[i]
  OBVIOUS
<1>3. pc = "final" /\ seen # {} /\ UNCHANGED <<given, assumptions, trail_lim>>
  BY DEF FinalStep, clauseVars, callVars, trailVars
<1>4. /\ reason[var(l)] = CRef_Undef =>
           /\ seen' = seen \ {-l}
           /\ conflict' = IF var(l) \in ActiveVars THEN conflict \cup {-l} ELSE conflict
      /\ reason[var(l)] = CRef_Fake =>
           \E t \in ReasonsFor(l, i - 1) : seen' = (seen \cup Negated(t)) \ {l, -l} /\ UNCHANGED conflict
      /\ reason[var(l)] \notin {CRef_Undef, CRef_Fake} =>
           seen' = (seen \cup reason[var(l)]) \ {l, -l} /\ UNCHANGED conflict
  BY <1>1, <1>2 DEF FinalStep, UndoPoint, CRef_Undef, CRef_Fake
<1>5. seen \subseteq Lit /\ AllFalse(seen)
  BY <1>3 DEF SearchInv, FinalInv
<1>6. i \in 1 .. Len(trail) /\ -l \in seen /\ l \in Lit
  <2>1. PICK k \in seen : TRUE
    BY <1>3
  <2>2. PICK j \in 1 .. Len(trail) : trail[j] = -k
    BY <1>5 DEF AllFalse, FalseBefore
  <2>3. -trail[j] \in seen
    BY <1>5, <2>2, LitFacts
  <2> QED BY <1>1, <1>2, <2>3, LastSeenFacts, TrailLevels
<1>7. CASE reason[var(l)] = CRef_Undef
  BY <1>2, <1>3, <1>4, <1>6, <1>7, DecisionBlames
<1>8. CASE reason[var(l)] = CRef_Fake
  <2>1. PICK t \in ReasonsFor(l, i - 1) : seen' = (seen \cup Negated(t)) \ {l, -l} /\ UNCHANGED conflict
    BY <1>4, <1>8
  <2>2. PICK r : r = Negated(t)
    OBVIOUS
  <2>3. t \in TheoryConflict /\ Implies1(r, l, i)
    BY <1>2, <1>6, <2>1, <2>2, TheoryReason
  <2>4. Positive(r)
    BY <2>2, <2>3, PositiveFacts
  <2> QED BY <1>2, <1>3, <1>6, <2>1, <2>2, <2>3, <2>4, ResolveBlames
<1>9. CASE reason[var(l)] \notin {CRef_Undef, CRef_Fake}
  <2>1. PICK r : r = reason[var(l)]
    OBVIOUS
  <2>2. Implies1(r, l, i)
    BY <1>2, <1>6, <1>9, <2>1, ClauseReason
  <2>3. r \in DOMAIN watched
    BY <1>2, <1>6, <1>9, <2>1 DEF ReasonInv
  <2>4. Positive(r)
    BY <2>3 DEF SearchInv, ClauseInv, FrameInv
  <2> QED BY <1>2, <1>3, <1>4, <1>6, <1>9, <2>1, <2>2, <2>4, ResolveBlames
<1> QED
  BY <1>7, <1>8, <1>9

\* The assumptions that are blamed are enough for the conflict.
LEMMA BlameKeeps ==
  ASSUME SearchInv, SearchInv', FrameInv, ReasonInv, BlameInv, [Next]_vars
  PROVE  BlameInv'
<1> SUFFICES ASSUME pc' = "final" PROVE BlameParts'
  BY DEF BlameInv, BlameParts, Agreeing
<1>1. CASE Quiet
  <2>1. FinalBegin \/ FinalStep \/ UNCHANGED vars
    BY <1>1 DEF Quiet, PropagateNext, PropagateDone, SearchLoop, AddConflict, AnalyzeBegin, EarlyPruning,
                TheoryAssert, TheorySat, DeduceDone, SplitDone, AssumeTrue, CompleteCall,
                TheorySplit, RestoreOK, Solve
  <2>2. pc = "final" => BlameParts
    BY DEF BlameInv, BlameParts, Agreeing
  <2>3. CASE UNCHANGED vars
    <3>1. UNCHANGED <<seen, conflict, given, assumptions, trail_lim, pc>>
      BY <2>3 DEF vars, analyzeVars, resultVars, clauseVars, callVars, trailVars
    <3>2. BlameParts
      BY <2>2, <3>1
    <3> QED BY <3>1, <3>2 DEF BlameParts, FrameVar, Agreeing, Blamed, GivenModel, assumed, decisionLevel
  <2>4. CASE FinalStep
    <3>1. pc = "final"
      BY <2>4 DEF FinalStep
    <3> QED BY <2>2, <2>4, <3>1, FinalStepBlames
  <2> QED BY <2>1, <2>3, <2>4, FinalBeginBlames
<1>2. CASE Ends
  <2>1. PICK n : EndsAt(n)
    BY <1>2, EndsFacts
  <2> QED BY <2>1 DEF EndsAt
<1>3. CASE \E c \in visit : PropagateVisit(c)
  <2>1. pc' \in {"propagate", "conflict"}
    BY <1>3, VisitStep
  <2> QED BY <2>1
<1>4. CASE Simplify \/ ReduceDB
  BY <1>4, UpkeepFacts
<1>5. CASE \E c \in InputClause : AddOriginalClause(c)
  <2>1. pc' \in {"idle", "propagate"}
    BY <1>5, AddFacts
  <2> QED BY <2>1
<1>6. CASE SplitAttach
  <2>1. PICK c, pair : AttachesLemma(c, pair)
    BY <1>6, SplitAttachFacts
  <2> QED BY <2>1 DEF AttachesLemma
<1>7. CASE SplitUnit
  <2>1. PICK n, bt, c, l : SplitsAt(n, bt, c, l)
    BY <1>7, SplitUnitFacts
  <2> QED BY <2>1 DEF SplitsAt
<1>8. ~(AnalyzeStep \/ Learn \/ DeduceNext \/ SplitEnqueue)
  BY DEF AnalyzeStep, Learn, DeduceNext, SplitEnqueue
<1>9. ~((\E t \in TheoryConflict : TheoryUnsat(t)) \/ (\E l \in Lit : Decide(l)))
  BY DEF TheoryUnsat, Decide
<1> QED
  BY <1>1, <1>2, <1>3, <1>4, <1>5, <1>6, <1>7, <1>8, <1>9, StepCases

-----------------------------------------------------------------------------
\* What stays up to a level stays up to a lower one.
LEMMA KeepsLess ==
  ASSUME SearchInv, NEW n, NEW b \in Int, Keeps(n, b), NEW a \in Int, a <= b
  PROVE  Keeps(n, a)
<1>1. \A i \in 1 .. Len(trail) : level[var(trail[i])] \in Nat
  BY TrailLevels
<1> QED
  BY <1>1 DEF Keeps

\* No step undoes level zero or removes an original clause or a lemma, and only
\* addOriginalClause_ gives clauses.
LEMMA ZeroIsKept ==
  ASSUME SearchInv, SearchInv', [Next]_vars
  PROVE  /\ \E n : Keeps(n, 0)
         /\ clauses \subseteq clauses'
         /\ given' = given \/ \E c \in InputClause : AddOriginalClause(c)
<1>0. PICK h \in Nat : h = decisionLevel
  BY TrailLevels
<1>1. CASE Quiet
  <2>1. UNCHANGED <<given, clauses, trail, level>>
    BY <1>1, QuietFacts
  <2> QED BY <2>1, NothingMoves
<1>2. CASE Ends
  <2>1. PICK n : EndsAt(n)
    BY <1>2, EndsFacts
  <2> QED BY <2>1 DEF EndsAt
<1>3. CASE \E c \in visit : PropagateVisit(c)
  <2>1. PICK c \in visit : PropagateVisit(c)
    BY <1>3
  <2>2. UNCHANGED <<given, clauses>> /\ (UNCHANGED <<trail, level>> \/ \E n : EnqueuesAt(n, First(c), c, decisionLevel))
    BY <2>1, VisitStep
  <2>3. CASE UNCHANGED <<trail, level>>
    BY <2>2, <2>3, NothingMoves
  <2> QED BY <2>2, <2>3 DEF EnqueuesAt
<1>4. CASE AnalyzeStep
  <2>1. PICK n, i, q, marked : AnalyzesAt(n, i, q, marked)
    BY <1>4, AnalyzeFacts
  <2>2. Keeps(n, h - 1) /\ h > 0 /\ UNCHANGED <<given, clauses>>
    BY <1>0, <2>1 DEF AnalyzesAt
  <2>3. PICK b \in Int : b = h - 1 /\ 0 <= b
    BY <2>2
  <2>4. Keeps(n, b)
    BY <2>2, <2>3
  <2>5. Keeps(n, 0)
    <3>1. PICK a \in Int : a = 0
      OBVIOUS
    <3>2. Keeps(n, a)
      BY <2>3, <2>4, <3>1, KeepsLess
    <3> QED BY <3>1, <3>2
  <2> QED BY <2>2, <2>5
<1>5. ASSUME NEW n, NEW b \in Nat, Keeps(n, b) PROVE Keeps(n, 0)
  <2>1. PICK a \in Int : a = 0 /\ a <= b
    OBVIOUS
  <2>2. Keeps(n, a)
    BY <1>5, <2>1, KeepsLess
  <2> QED BY <2>1, <2>2
<1>6. CASE Learn
  <2>1. PICK n, bt, c : LearnsAt(n, bt, c)
    BY <1>6, LearnFacts
  <2>2. Keeps(n, bt) /\ bt \in 0 .. h - 1 /\ UNCHANGED <<given, clauses>>
    BY <1>0, <2>1 DEF LearnsAt
  <2> QED BY <1>5, <2>2
<1>7. CASE \E t \in TheoryConflict : TheoryUnsat(t)
  <2>1. PICK t \in TheoryConflict : TheoryUnsat(t)
    BY <1>7
  <2>2. PICK n, b : UnsatAt(t, n, b)
    BY <2>1, UnsatFacts
  <2>3. Keeps(n, b) /\ b \in 1 .. h /\ UNCHANGED <<given, clauses>>
    BY <1>0, <2>2 DEF UnsatAt
  <2> QED BY <1>5, <2>3
<1>8. CASE SplitUnit
  <2>1. PICK n, bt, c, l : SplitsAt(n, bt, c, l)
    BY <1>8, SplitUnitFacts
  <2>2. Keeps(n, bt) /\ bt \in 0 .. h /\ given' = given /\ clauses \subseteq clauses'
    BY <1>0, <2>1 DEF SplitsAt
  <2> QED BY <1>5, <2>2
<1>9. CASE SplitAttach
  <2>1. PICK c, pair : AttachesLemma(c, pair)
    BY <1>9, SplitAttachFacts
  <2>2. UNCHANGED <<given, trail, level>> /\ clauses \subseteq clauses'
    BY <2>1 DEF AttachesLemma
  <2> QED BY <2>2, NothingMoves
<1>10. CASE DeduceNext \/ SplitEnqueue
  <2>1. UNCHANGED <<given, clauses>> /\ (UNCHANGED <<trail, level>> \/ \E n, l, from : EnqueuesAt(n, l, from, decisionLevel))
    BY <1>10, DeduceNextFacts, SplitEnqueueFacts
  <2>2. CASE UNCHANGED <<trail, level>>
    BY <2>1, <2>2, NothingMoves
  <2> QED BY <2>1, <2>2 DEF EnqueuesAt
<1>11. CASE Simplify \/ ReduceDB
  <2>1. UNCHANGED <<given, clauses, trail, level>>
    BY <1>11, UpkeepFacts
  <2> QED BY <2>1, NothingMoves
<1>12. CASE \E l \in Lit : Decide(l)
  <2>1. PICK l \in Lit : Decide(l)
    BY <1>12
  <2>2. UNCHANGED <<given, clauses>> /\ \E n : EnqueuesAt(n, l, CRef_Undef, decisionLevel + 1)
    BY <2>1, DecideFacts
  <2> QED BY <2>2 DEF EnqueuesAt
<1>13. CASE \E c \in InputClause : AddOriginalClause(c)
  <2>1. PICK c \in InputClause : AddOriginalClause(c)
    BY <1>13
  <2>2. /\ clauses \subseteq clauses'
        /\ UNCHANGED <<trail, level>> \/ \E n, l : EnqueuesAt(n, l, CRef_Undef, 0)
    BY <2>1, AddFacts
  <2>3. CASE UNCHANGED <<trail, level>>
    BY <1>13, <2>2, <2>3, NothingMoves
  <2> QED BY <1>13, <2>2, <2>3 DEF EnqueuesAt
<1> QED
  BY <1>1, <1>2, <1>3, <1>4, <1>6, <1>7, <1>8, <1>9, <1>10, <1>11, <1>12, <1>13, StepCases

\* A solver that found its clauses unsatisfiable stays so.
LEMMA OpenBefore ==
  ASSUME SearchInv, ResultInv, [Next]_vars, Open'
  PROVE  Open
<1>1. CASE pc # "idle"
  BY <1>1 DEF ResultInv, Open
<1>2. CASE pc = "idle"
  <2>1. ~SearchStep
    <3>1. visit = {}
      BY <1>2 DEF SearchInv, PhaseInv
    <3> QED BY <1>2, <3>1
            DEF SearchStep, PropagateNext, PropagateDone, SearchLoop, SearchStopped, AddConflict, ZeroLevelConflict,
                AnalyzeBegin, AnalyzeStep, Learn, Restart, Simplify, ReduceDB, EarlyPruning, TheoryAssert,
                TheoryUnsatZero, TheoryUnsat, TheorySat, DeduceNext, DeduceDone, SearchSat,
                TheorySplit, SplitUnit, SplitAttach, SplitEnqueue, SplitDone, AssumeTrue, Decide, CompleteCall,
                FinalBegin, FinalStep, FinalDone
  <2>2. (\E c \in InputClause : ok) \/ (ok' = ok /\ conflict_frame' = conflict_frame) \/ conflict_frame > 0
    BY <2>1 DEF Next, AddOriginalClause, Solve, RestoreOK, vars, resultVars
  <2> QED BY <2>2 DEF Open
<1> QED
  BY <1>1, <1>2

\* A given clause that is not forgotten.
Covered(c) == (\E l \in c : -l \in c) \/ TrueBy(c, 0) \/ \E d \in clauses : d \subseteq c

\* Nothing given is forgotten.
LEMMA GivenKeeps ==
  ASSUME SearchInv, SearchInv', ResultInv, GivenInv, [Next]_vars
  PROVE  GivenInv'
<1> SUFFICES ASSUME Open', NEW c \in given' PROVE Covered(c)'
  BY DEF GivenInv, Covered
<1>1. Open
  BY OpenBefore
<1>2. (\E n : Keeps(n, 0)) /\ clauses \subseteq clauses'
  BY ZeroIsKept
<1>2a. PICK n : Keeps(n, 0)
  BY <1>2
<1>3. PICK z \in Int : Keeps(n, z) /\ z = 0
  BY <1>2a
<1>4. CASE c \in given
  <2>1. Covered(c)
    BY <1>1, <1>4 DEF GivenInv, Covered
  <2>2. CASE TrueBy(c, 0)
    <3>1. TrueBy(c, z) /\ z <= z
      BY <1>3, <2>2
    <3>2. TrueBy(c, z)'
      BY <1>3, <3>1, TrueByStays
    <3> QED BY <1>3, <3>2 DEF Covered, TrueBy
  <2> QED BY <1>2, <2>1, <2>2 DEF Covered
<1>5. CASE c \notin given
  <2>1. PICK d \in InputClause : AddOriginalClause(d)
    BY <1>5, ZeroIsKept
  <2>2. /\ ok /\ given' = given \cup {d} /\ decisionLevel = 0 /\ conflict_frame' = conflict_frame
        /\ \/ UNCHANGED <<clauses, trail, level>> /\ \E l \in d : True(l) \/ -l \in d
           \/ ok' = FALSE
           \/ \E l, k : l \in d /\ EnqueuesAt(k, l, CRef_Undef, 0)
           \/ \E ps : ps \subseteq d /\ clauses' = clauses \cup {ps}
    BY <2>1, AddFacts
  <2>3. c = d
    BY <1>5, <2>2
  <2>4. ~(conflict_frame > 0)
    BY <2>2 DEF ResultInv
  <2>5. ok' # FALSE
    BY <2>2, <2>4 DEF Open
  <2>6. CASE UNCHANGED <<clauses, trail, level>> /\ \E l \in d : True(l) \/ -l \in d
    <3>1. PICK l \in d : True(l) \/ -l \in d
      BY <2>6
    <3>2. CASE -l \in d
      BY <2>3, <3>2 DEF Covered
    <3>3. CASE True(l)
      <4>1. PICK j \in 1 .. Len(trail) : trail[j] = l
        BY <3>3, TrailLevels, ValueFacts
      <4>2. level[var(trail[j])] \in 0 .. 0
        BY <2>2, TrailLevels
      <4>3. level[var(trail[j])] <= 0
        BY <4>2
      <4>4. TrueBy(c, 0)
        BY <2>3, <4>1, <4>3 DEF TrueBy
      <4> QED BY <2>6, <4>4 DEF Covered, TrueBy
    <3> QED BY <3>1, <3>2, <3>3
  <2>7. CASE \E l, k : l \in d /\ EnqueuesAt(k, l, CRef_Undef, 0)
    <3>1. PICK l, k : l \in d /\ EnqueuesAt(k, l, CRef_Undef, 0)
      BY <2>7
    <3>2. k \in Nat /\ Len(trail') = k + 1 /\ trail'[k + 1] = l /\ level'[var(l)] = 0
      BY <3>1 DEF EnqueuesAt, Appends
    <3>3. k + 1 \in 1 .. Len(trail') /\ trail'[k + 1] \in c /\ level'[var(trail'[k + 1])] <= 0
      BY <2>3, <3>1, <3>2
    <3> QED BY <3>3 DEF Covered, TrueBy
  <2>8. CASE \E ps : ps \subseteq d /\ clauses' = clauses \cup {ps}
    BY <2>3, <2>8 DEF Covered
  <2> QED BY <2>2, <2>5, <2>6, <2>7, <2>8
<1> QED
  BY <1>4, <1>5

-----------------------------------------------------------------------------
\* The watched literals are literals of the clause.
LEMMA WatchedFacts ==
  ASSUME SearchInv, NEW c \in DOMAIN watched
  PROVE  c \in SUBSET Lit /\ watched[c][1] \in c /\ watched[c][2] \in c
<1>1. c \in clauses \cup learnts
  BY DEF SearchInv, ClauseInv
<1>2. c \in SUBSET Lit /\ watched[c] \in Seq(c) /\ Len(watched[c]) = 2
  BY <1>1 DEF SearchInv, ClauseInv
<1>3. PICK w \in Seq(c) : w = watched[c]
  BY <1>2
<1>3a. Len(w) = 2
  BY <1>2, <1>3
<1>4. 1 \in 1 .. Len(w) /\ 2 \in 1 .. Len(w)
  BY <1>3a
<1>5. w[1] \in c /\ w[2] \in c
  BY <1>4
<1> QED
  BY <1>2, <1>3, <1>5

\* What is below the current level has been propagated.
LEMMA LowIsPropagated ==
  ASSUME SearchInv, NEW i \in 1 .. Len(trail)
  PROVE  /\ level[var(trail[i])] < decisionLevel => i <= qhead /\ i <= trail_lim[decisionLevel]
         /\ decisionLevel > 0 /\ i <= trail_lim[decisionLevel] => level[var(trail[i])] <= decisionLevel - 1
         /\ decisionLevel > 0 /\ trail_lim[decisionLevel] < i => level[var(trail[i])] = decisionLevel
         /\ decisionLevel = 0 => level[var(trail[i])] = 0
<1>0. PICK h \in Nat : h = decisionLevel
  BY TrailLevels
<1>1. level[var(trail[i])] \in 0 .. h /\ qhead \in Nat
  BY <1>0, TrailLevels DEF SearchInv, QueueInv
<1>2. CASE h = 0
  BY <1>0, <1>1, <1>2
<1>3. CASE h > 0
  <2>1. h \in 1 .. h
    BY <1>3
  <2>2. trail_lim[h] \in 0 .. Len(trail)
    BY <1>0, <2>1, TrailLevels
  <2>3. trail_lim[h] <= qhead
    BY <1>0, <1>3 DEF SearchInv, QueueInv
  <2>4. h <= level[var(trail[i])] <=> trail_lim[h] < i
    BY <1>0, <2>1 DEF SearchInv, TrailInv, TrailHolds, TrailFits, Levels, decisionLevel
  <2> QED BY <1>0, <1>1, <1>3, <2>2, <2>3, <2>4
<1> QED
  BY <1>2, <1>3

\* How much has been propagated for good.
LEMMA BoundFacts ==
  ASSUME SearchInv
  PROVE  /\ Bound \in 0 .. Len(trail) /\ Len(trail) \in Nat /\ Bound \in Nat
         /\ pc \notin {"conflict", "analyze", "learn"} => Bound = qhead
         /\ pc \in {"conflict", "analyze", "learn"} /\ decisionLevel > 0 => Bound = trail_lim[decisionLevel]
         /\ pc \in {"conflict", "analyze", "learn"} /\ decisionLevel = 0 => Bound = 0
<1>0. PICK h \in Nat : h = decisionLevel
  BY TrailLevels
<1>1. qhead \in 0 .. Len(trail) /\ Len(trail) \in Nat
  BY TrailLevels DEF SearchInv, QueueInv
<1>2. h > 0 => trail_lim[h] \in 0 .. Len(trail)
  <2> SUFFICES ASSUME h > 0 PROVE trail_lim[h] \in 0 .. Len(trail)
    OBVIOUS
  <2>1. h \in 1 .. h
    OBVIOUS
  <2> QED BY <1>0, <2>1, TrailLevels
<1>3. /\ pc \notin {"conflict", "analyze", "learn"} => Bound = qhead
      /\ pc \in {"conflict", "analyze", "learn"} /\ h > 0 => Bound = trail_lim[h]
      /\ pc \in {"conflict", "analyze", "learn"} /\ ~(h > 0) => Bound = 0
  BY <1>0 DEF Bound
<1>4. Bound \in 0 .. Len(trail)
  BY <1>1, <1>2, <1>3
<1> QED
  BY <1>0, <1>1, <1>3, <1>4

\* A step that keeps what has been propagated and does not propagate.
Settled(n, b) ==
  /\ Keeps(n, b) /\ b \in Int /\ Bound \in Nat /\ Bound' \in Nat /\ Bound' <= n /\ Bound' <= Bound
  /\ \A i \in 1 .. Bound' : level[var(trail[i])] <= b
  /\ Open' => Open

\* Clauses whose visit is not over stay in the queue or the queue is dropped.
VisitGoesOn(c) == c \in visit => (c \in visit' /\ qhead' = qhead) \/ Bound' < qhead

\* What such a step says of a position of the trail.
LEMMA SettledFacts ==
  ASSUME SearchInv, NEW n, NEW b, Settled(n, b), NEW i \in 1 .. Bound'
  PROVE  /\ i \in 1 .. Bound /\ i \in 1 .. Len(trail) /\ trail'[i] = trail[i]
         /\ level'[var(trail'[i])] = level[var(trail[i])]
         /\ \A c : TrueBy(c, level[var(trail[i])]) => TrueBy(c, level[var(trail[i])])'
<1>1. /\ Keeps(n, b) /\ b \in Int /\ Bound \in Nat /\ Bound' \in Nat /\ Bound' <= n /\ Bound' <= Bound
      /\ \A k \in 1 .. Bound' : level[var(trail[k])] <= b
  BY DEF Settled
<1>2. n \in 0 .. Len(trail) /\ Len(trail) \in Nat
  BY <1>1, TrailLevels DEF Keeps
<1>3. i \in 1 .. Bound /\ i \in 1 .. n /\ i \in 1 .. Len(trail)
  BY <1>1, <1>2
<1>4. trail'[i] = trail[i] /\ level'[var(trail[i])] = level[var(trail[i])]
  BY <1>1, <1>3 DEF Keeps
<1>5. PICK lv : lv = level[var(trail[i])]
  OBVIOUS
<1>6. lv \in Int /\ lv <= b
  BY <1>1, <1>3, <1>5, TrailLevels
<1>7. \A c : TrueBy(c, lv) => TrueBy(c, lv)'
  BY <1>1, <1>6, TrueByStays
<1>8. level'[var(trail'[i])] = lv
  BY <1>4, <1>5
<1>9. \A c : TrueBy(c, level[var(trail[i])]) => TrueBy(c, level[var(trail[i])])'
  <2> SUFFICES ASSUME NEW c, TrueBy(c, level[var(trail[i])]) PROVE TrueBy(c, level[var(trail[i])])'
    OBVIOUS
  <2>1. TrueBy(c, lv)'
    BY <1>5, <1>7
  <2> QED BY <1>8, <2>1 DEF TrueBy
<1> QED
  BY <1>3, <1>4, <1>9

\* A clause whose watched literals stay.
LEMMA WatchStays ==
  ASSUME SearchInv, NEW n, NEW b, Settled(n, b), NEW c \in DOMAIN watched, WatchOK(c),
         watched'[c] = watched[c], VisitGoesOn(c)
  PROVE  WatchOK(c)'
<1>1. /\ watched[c][1] # watched[c][2]
      /\ Open /\ c \notin SplitClause => SingleWatch(c)
      /\ Open /\ c \notin visit => BothWatches(c)
  BY DEF WatchOK
<1>2. Open' => Open
  BY DEF Settled
<1>3. ASSUME SingleWatch(c) PROVE SingleWatch(c)'
  <2> SUFFICES ASSUME NEW k \in 1 .. 2, NEW i \in 1 .. Bound', trail'[i] = -watched'[c][k],
                      ~(c \in visit' /\ i = qhead')
               PROVE  TrueBy(c, level[var(trail[i])])'
    BY DEF SingleWatch
  <2>1. /\ i \in 1 .. Bound /\ i \in 1 .. Len(trail) /\ trail'[i] = trail[i]
        /\ \A d : TrueBy(d, level[var(trail[i])]) => TrueBy(d, level[var(trail[i])])'
    BY SettledFacts
  <2>2. ~(c \in visit /\ i = qhead)
    <3>1. Bound' \in Nat
      BY DEF Settled
    <3> QED BY <3>1 DEF VisitGoesOn
  <2>3. TrueBy(c, level[var(trail[i])])
    BY <1>3, <2>1, <2>2 DEF SingleWatch
  <2> QED BY <2>1, <2>3
<1>4. ASSUME c \notin visit => BothWatches(c), c \notin visit' PROVE BothWatches(c)'
  <2> SUFFICES ASSUME NEW i \in 1 .. Bound', NEW j \in 1 .. Bound',
                      trail'[i] = -watched'[c][1], trail'[j] = -watched'[c][2]
               PROVE  TrueBy(c, level[var(trail[i])])' \/ TrueBy(c, level[var(trail[j])])'
    BY DEF BothWatches
  <2>1. /\ i \in 1 .. Bound /\ i \in 1 .. Len(trail) /\ trail'[i] = trail[i]
        /\ \A d : TrueBy(d, level[var(trail[i])]) => TrueBy(d, level[var(trail[i])])'
    BY SettledFacts
  <2>2. /\ j \in 1 .. Bound /\ j \in 1 .. Len(trail) /\ trail'[j] = trail[j]
        /\ \A d : TrueBy(d, level[var(trail[j])]) => TrueBy(d, level[var(trail[j])])'
    BY SettledFacts
  <2>3. CASE c \notin visit
    <3>1. TrueBy(c, level[var(trail[i])]) \/ TrueBy(c, level[var(trail[j])])
      BY <1>4, <2>1, <2>2, <2>3 DEF BothWatches
    <3> QED BY <2>1, <2>2, <3>1
  <2>4. CASE c \in visit
    <3>1. Bound' < qhead /\ Bound' \in Nat /\ qhead \in 0 .. Len(trail) /\ Len(trail) \in Nat
      BY <1>4, <2>4, TrailLevels DEF VisitGoesOn, Settled, SearchInv, QueueInv
    <3>2. qhead \in 1 .. Len(trail) /\ i # qhead /\ j # qhead
      BY <2>1, <3>1
    <3>3. watched[c][1] = -trail[qhead] \/ watched[c][2] = -trail[qhead]
      BY <2>4 DEF SearchInv, QueueInv
    <3>4. trail[qhead] \in Lit /\ -(-trail[qhead]) = trail[qhead]
      BY <3>2, TrailLevels, LitFacts
    <3>5. trail[i] = trail[qhead] \/ trail[j] = trail[qhead]
      BY <2>1, <2>2, <3>3, <3>4
    <3>6. Distinct(trail)
      BY DEF SearchInv, TrailInv, TrailHolds, TrailFits
    <3> QED BY <2>1, <2>2, <3>2, <3>5, <3>6 DEF Distinct
  <2> QED BY <2>3, <2>4
<1> QED
  BY <1>1, <1>2, <1>3, <1>4 DEF WatchOK

\* All clauses together, and one that is attached with new watched literals.
LEMMA WatchesStay ==
  ASSUME SearchInv, WatchInv, NEW n, NEW b, Settled(n, b),
         \A c \in DOMAIN watched' : \/ /\ c \in DOMAIN watched /\ watched'[c] = watched[c]
                                       /\ VisitGoesOn(c)
                                    \/ WatchOK(c)'
  PROVE  WatchInv'
<1> SUFFICES ASSUME NEW c \in DOMAIN watched' PROVE WatchOK(c)'
  BY DEF WatchInv
<1>1. CASE c \in DOMAIN watched /\ watched'[c] = watched[c] /\ VisitGoesOn(c)
  BY <1>1, WatchStays DEF WatchInv
<1> QED
  BY <1>1

\* When the clauses were found unsatisfiable, only that two literals are watched matters.
LEMMA WatchClosed ==
  ASSUME WatchInv, ~Open', watched' = watched
  PROVE  WatchInv'
BY DEF WatchInv, WatchOK

\* The levels of the trail.
LevelsFit == \A i \in 1 .. Len(trail) : level[var(trail[i])] \in 0 .. decisionLevel

\* The level of a literal on the trail is not above the current one.
LEMMA LevelsBounded == SearchInv => LevelsFit
BY TrailLevels DEF LevelsFit

\* Between conflicts the queue is the bound; a step that leaves it and the trail alone.
LEMMA SettledHere ==
  ASSUME SearchInv, SearchInv', NEW n, \A b : Keeps(n, b), n = Len(trail), Open' => Open, Bound' = Bound
  PROVE  Settled(n, decisionLevel)
<1>1. /\ Bound \in 0 .. Len(trail) /\ Len(trail) \in Nat /\ Bound \in Nat
  BY BoundFacts
<1>2. decisionLevel \in Int /\ \A i \in 1 .. Len(trail) : level[var(trail[i])] <= decisionLevel
  BY TrailLevels
<1>3. \A i \in 1 .. Bound : i \in 1 .. Len(trail)
  BY <1>1
<1>4. \A i \in 1 .. Bound' : level[var(trail[i])] <= decisionLevel
  BY <1>2, <1>3
<1> QED
  BY <1>1, <1>2, <1>4 DEF Settled

\* Nothing is being visited outside propagate.
LEMMA NoVisit ==
  ASSUME SearchInv, pc # "propagate"
  PROVE  \A c : VisitGoesOn(c)
BY DEF SearchInv, PhaseInv, VisitGoesOn

\* Quiet steps but the next literal of propagate.
LEMMA QuietWatches ==
  ASSUME SearchInv, SearchInv', ResultInv, WatchInv, Quiet, ~PropagateNext, Open' => Open
  PROVE  WatchInv'
<1>1. UNCHANGED <<watched, trail, level>> /\ (AssumeTrue \/ trail_lim' = trail_lim)
  BY QuietFacts
<1>2. CASE AddConflict
  <2>1. ok' = FALSE /\ conflict_frame' = conflict_frame /\ pc = "conflict"
    BY <1>2 DEF AddConflict
  <2>2. ~Open'
    BY <2>1 DEF ResultInv, Open
  <2> QED BY <1>1, <2>2, WatchClosed
<1>3. CASE ~AddConflict
  <2>1. /\ visit' = visit /\ qhead' = qhead
        /\ (pc \in {"conflict", "analyze", "learn"} <=> pc' \in {"conflict", "analyze", "learn"})
        /\ pc \in {"conflict", "analyze", "learn"} => trail_lim' = trail_lim
    <3> USE DEF trailVars
    <3>1. CASE PropagateDone \/ SearchLoop \/ AnalyzeBegin \/ EarlyPruning
      BY <3>1 DEF PropagateDone, SearchLoop, AnalyzeBegin, EarlyPruning
    <3>2. CASE TheoryAssert \/ TheorySat \/ DeduceDone \/ SplitDone
      BY <3>2 DEF TheoryAssert, TheorySat, DeduceDone, SplitDone
    <3>3. CASE AssumeTrue \/ CompleteCall \/ FinalBegin \/ FinalStep \/ RestoreOK
      BY <3>3 DEF AssumeTrue, CompleteCall, FinalBegin, FinalStep, RestoreOK
    <3>4. CASE \E S \in SplitSets : TheorySplit(S)
      BY <3>4 DEF TheorySplit
    <3>5. CASE \E as \in Assumption : Solve(as)
      BY <3>5 DEF Solve
    <3>6. CASE UNCHANGED vars
      BY <3>6 DEF vars
    <3> QED
      BY <1>3, <3>1, <3>2, <3>3, <3>4, <3>5, <3>6 DEF Quiet
  <2>2. Bound' = Bound
    BY <2>1 DEF Bound, decisionLevel
  <2>3. PICK n : n = Len(trail)
    OBVIOUS
  <2>4. \A b : Keeps(n, b)
    BY <1>1, <2>3, NothingMoves
  <2>5. Settled(n, decisionLevel)
    BY <2>2, <2>3, <2>4, SettledHere
  <2>6. \A c : VisitGoesOn(c)
    BY <2>1 DEF VisitGoesOn
  <2> QED BY <1>1, <2>5, <2>6, WatchesStay
<1> QED
  BY <1>2, <1>3

\* Going back to level zero.
LEMMA EndsWatches ==
  ASSUME SearchInv, SearchInv', ResultInv, WatchInv, Ends, Open' => Open
  PROVE  WatchInv'
<1>1. PICK n : EndsAt(n)
  BY EndsFacts
<1>2. /\ Keeps(n, 0) /\ Len(trail') = n /\ trail_lim' = <<>> /\ visit' = {}
      /\ qhead' = (IF decisionLevel > 0 THEN n ELSE qhead) /\ UNCHANGED <<watched, level>>
      /\ pc' = "idle" \/ pc' = "checkTheory"
  BY <1>1 DEF EndsAt
<1>3. CASE ZeroLevelConflict \/ (\E t \in TheoryConflict : TheoryUnsatZero(t))
  <2>1. ok' = FALSE /\ conflict_frame' = conflict_frame /\ pc # "idle"
    BY <1>3 DEF ZeroLevelConflict, TheoryUnsatZero, Return
  <2>2. ~Open'
    BY <2>1 DEF ResultInv, Open
  <2> QED BY <1>2, <2>2, WatchClosed
<1>4. CASE Restart \/ SearchStopped \/ SearchSat \/ FinalDone
  <2>0. PICK h \in Nat : h = decisionLevel
    BY TrailLevels
  <2>1. pc \in {"consistent", "loop", "deduce", "final"}
    BY <1>4 DEF Restart, SearchStopped, SearchSat, FinalDone
  <2>2. Bound = qhead /\ Bound \in Nat /\ Bound \in 0 .. Len(trail) /\ Len(trail) \in Nat
    BY <2>1, BoundFacts
  <2>3. Bound' = qhead' /\ qhead' \in 0 .. n /\ n \in Nat /\ n \in 0 .. Len(trail)
    <3>1. qhead' \in 0 .. Len(trail')
      BY DEF SearchInv, QueueInv
    <3>2. n \in 0 .. Len(trail)
      BY <1>2 DEF Keeps
    <3> QED BY <1>2, <2>2, <3>1, <3>2 DEF Bound
  <2>4. \A i \in 1 .. n : i \in 1 .. Len(trail) /\ level[var(trail[i])] = 0
    <3>1. decisionLevel' = 0
      BY <1>2 DEF decisionLevel
    <3>2. \A i \in 1 .. Len(trail') : level'[var(trail'[i])] \in 0 .. decisionLevel'
      <4>1. SearchInv'
        OBVIOUS
      <4>2. LevelsFit'
        BY <4>1, LevelsBounded, PTL
      <4> QED BY <4>2 DEF LevelsFit
    <3>3. \A i \in 1 .. n : trail'[i] = trail[i]
      BY <1>2 DEF Keeps
    <3> QED BY <1>2, <2>2, <2>3, <3>1, <3>2, <3>3
  <2>5. Bound' <= Bound
    <3>1. CASE h = 0
      BY <1>2, <2>0, <2>2, <2>3, <3>1
    <3>2. CASE h > 0
      <4>1. Bound' = n
        BY <1>2, <2>0, <2>3, <3>2
      <4>2. CASE n = 0
        BY <2>2, <4>1, <4>2
      <4>3. CASE n # 0
        <5>1. n \in 1 .. n
          BY <2>3, <4>3
        <5>2. n \in 1 .. Len(trail) /\ level[var(trail[n])] < decisionLevel
          BY <2>0, <2>4, <3>2, <5>1
        <5>3. n <= qhead
          BY <5>2, LowIsPropagated
        <5> QED BY <2>2, <4>1, <5>3
      <4> QED BY <4>2, <4>3
    <3> QED BY <2>0, <3>1, <3>2
  <2>6. \A i \in 1 .. Bound' : level[var(trail[i])] <= 0
    BY <2>3, <2>4
  <2>7. Settled(n, 0)
    BY <1>2, <2>2, <2>3, <2>5, <2>6 DEF Settled
  <2>8. \A c : VisitGoesOn(c)
    BY <2>1, NoVisit
  <2> QED BY <1>2, <2>7, <2>8, WatchesStay
<1> QED
  BY <1>3, <1>4 DEF Ends

\* The bound is a position of the trail.
BoundFits == Bound \in 0 .. Len(trail)

\* It is one in every phase.
LEMMA BoundedBound == SearchInv => BoundFits
BY BoundFacts DEF BoundFits

\* A conflict of the theory, and a round of analyze: what is below the current level stays.
LEMMA UnsatWatches ==
  ASSUME SearchInv, SearchInv', WatchInv, NEW t \in TheoryConflict, TheoryUnsat(t), Open' => Open
  PROVE  WatchInv'
<1>0. PICK h \in Nat : h = decisionLevel
  BY TrailLevels
<1>1. PICK n, b : UnsatAt(t, n, b)
  BY UnsatFacts
<1>2. /\ Keeps(n, b) /\ Len(trail') = n /\ b \in 1 .. h /\ decisionLevel' = b
      /\ trail_lim'[b] = trail_lim[b] /\ trail_lim[b] <= qhead
      /\ UNCHANGED <<watched, level>> /\ pc = "checkTheory" /\ pc' = "analyze"
  BY <1>0, <1>1 DEF UnsatAt
<1>3. Bound = qhead /\ Bound \in Nat
  BY <1>2, BoundFacts
<1>4. trail_lim \in Seq(Nat) /\ trail_lim[b] \in 0 .. Len(trail) /\ Len(trail) \in Nat
  BY <1>0, <1>2, TrailLevels
<1>5. Bound' = trail_lim[b]
  BY <1>2 DEF Bound
<1>6. Bound' \in 0 .. n
  <2>1. SearchInv'
    OBVIOUS
  <2>2. BoundFits'
    BY <2>1, BoundedBound, PTL
  <2> QED BY <1>2, <2>2 DEF BoundFits
<1>7. n \in 0 .. Len(trail)
  BY <1>2 DEF Keeps
<1>8. \A i \in 1 .. Bound' : level[var(trail[i])] <= b
  <2>1. SearchInv'
    OBVIOUS
  <2>2. LevelsFit'
    BY <2>1, LevelsBounded, PTL
  <2>3. \A i \in 1 .. n : level'[var(trail'[i])] \in 0 .. b /\ trail'[i] = trail[i]
    BY <1>2, <2>2 DEF LevelsFit, Keeps
  <2> QED BY <1>2, <1>4, <1>6, <1>7, <2>3
<1>9. Settled(n, b)
  BY <1>2, <1>3, <1>4, <1>5, <1>6, <1>7, <1>8 DEF Settled
<1>10. \A c : VisitGoesOn(c)
  BY <1>2, NoVisit
<1> QED
  BY <1>2, <1>9, <1>10, WatchesStay

\* A round of analyze undoes a part of the current level at most.
LEMMA AnalyzeWatches ==
  ASSUME SearchInv, SearchInv', WatchInv, AnalyzeStep, Open' => Open
  PROVE  WatchInv'
<1>0. PICK h \in Nat : h = decisionLevel
  BY TrailLevels
<1>1. PICK n, i, q, marked : AnalyzesAt(n, i, q, marked)
  BY AnalyzeFacts
<1>2. /\ Keeps(n, h - 1) /\ Len(trail') = n /\ trail_lim[h] <= n /\ h > 0
      /\ UNCHANGED <<watched, level, trail_lim>> /\ pc = "analyze" /\ pc' \in {"learn", "analyze"}
  BY <1>0, <1>1 DEF AnalyzesAt
<1>3. Bound = trail_lim[h] /\ Bound \in Nat /\ Bound \in 0 .. Len(trail) /\ Len(trail) \in Nat
  BY <1>0, <1>2, BoundFacts
<1>4. Bound' = trail_lim[h]
  BY <1>0, <1>2 DEF Bound, decisionLevel
<1>5. \A k \in 1 .. Bound' : level[var(trail[k])] <= h - 1
  <2> SUFFICES ASSUME NEW k \in 1 .. Bound' PROVE level[var(trail[k])] <= h - 1
    OBVIOUS
  <2>1. k \in 1 .. Len(trail) /\ k <= trail_lim[decisionLevel] /\ decisionLevel > 0
    BY <1>0, <1>2, <1>3, <1>4
  <2> QED BY <1>0, <2>1, LowIsPropagated
<1>6. Settled(n, h - 1)
  BY <1>2, <1>3, <1>4, <1>5 DEF Settled
<1>7. \A c : VisitGoesOn(c)
  BY <1>2, NoVisit
<1> QED
  BY <1>2, <1>6, <1>7, WatchesStay

\* A literal of level b at position j makes c true there.
LEMMA TrueAt ==
  ASSUME NEW c, NEW j \in 1 .. Len(trail), trail[j] \in c, NEW b, level[var(trail[j])] <= b
  PROVE  TrueBy(c, b)
BY DEF TrueBy

\* The learnt clause watches its literal that is true now and one of the level it is
\* true at.
LEMMA LearnWatches ==
  ASSUME SearchInv, SearchInv', DecisionInv, WatchInv, Learn, Open' => Open
  PROVE  WatchInv'
<1>0. PICK h \in Nat : h = decisionLevel
  BY TrailLevels
<1>1. PICK n, bt, c : LearnsAt(n, bt, c)
  BY LearnFacts
<1>2. /\ Keeps(n, bt) /\ Appends(n, -p) /\ var(-p) = var(p) /\ p \in Lit
      /\ bt \in 0 .. h - 1 /\ decisionLevel' = bt /\ n = trail_lim[bt + 1] /\ qhead' = n
      /\ \A i \in 1 .. n : level[var(trail[i])] <= bt
      /\ level'[var(p)] = bt
      /\ c = Minimized \cup {-p} /\ Minimized \subseteq seen /\ seen \subseteq Lit
      /\ \/ watched' = watched
         \/ \E l \in Minimized : level[var(l)] = bt /\ watched' = Attached(c, <<-p, l>>)
      /\ pc = "learn" /\ pc' = "loop"
  BY <1>0, <1>1 DEF LearnsAt
<1>3. n \in 0 .. Len(trail) /\ Len(trail) \in Nat /\ n \in Nat
  BY <1>2, TrailLevels DEF Keeps
<1>4. Bound = trail_lim[h] /\ Bound \in Nat /\ h > 0
  BY <1>0, <1>2, BoundFacts
<1>5. Bound' = n
  BY <1>2 DEF Bound
<1>6. n <= Bound
  <2>1. CASE n = 0
    BY <1>4, <2>1
  <2>2. CASE n # 0
    <3>1. n \in 1 .. n /\ n \in 1 .. Len(trail)
      BY <1>3, <2>2
    <3>2. level[var(trail[n])] \in 0 .. h /\ level[var(trail[n])] <= bt
      BY <1>0, <1>2, <3>1, TrailLevels
    <3>3. level[var(trail[n])] < decisionLevel
      BY <1>0, <1>2, <3>2
    <3>4. n <= trail_lim[decisionLevel]
      BY <3>1, <3>3, LowIsPropagated
    <3> QED BY <1>0, <1>4, <3>4
  <2> QED BY <2>1, <2>2
<1>7. bt \in Int
  BY <1>2
<1>8. Settled(n, bt)
  BY <1>2, <1>3, <1>4, <1>5, <1>6, <1>7 DEF Settled
<1>9. \A d : VisitGoesOn(d)
  BY <1>2, NoVisit
<1>10. CASE watched' = watched
  BY <1>8, <1>9, <1>10, WatchesStay
<1>11. CASE \E l \in Minimized : level[var(l)] = bt /\ watched' = Attached(c, <<-p, l>>)
  <2>1. PICK l \in Minimized : level[var(l)] = bt /\ watched' = Attached(c, <<-p, l>>)
    BY <1>11
  <2>2. /\ c \in DOMAIN watched' /\ watched'[c] = <<-p, l>>
        /\ \A d \in DOMAIN watched' : d # c => d \in DOMAIN watched /\ watched'[d] = watched[d]
    BY <2>1 DEF Attached
  <2>3. l \in Lit /\ var(l) \in Var /\ var(p) \in Var /\ -p \in Lit /\ -(-p) = p /\ var(-l) = var(l)
    BY <1>2, <2>1, LitFacts
  <2>4. var(l) # var(p)
    <3>1. level[var(p)] = h
      BY <1>0, <1>2 DEF DecisionInv
    <3> QED BY <1>2, <2>1, <3>1
  <2>5. level'[var(l)] = bt
    BY <1>2, <2>1, <2>3, <2>4 DEF Appends
  <2>6. \A i \in 1 .. n : trail'[i] = trail[i] /\ trail[i] # p
    BY <1>2 DEF Keeps, Appends
  <2>7. TrueBy(c, bt)'
    <3>1. Len(trail') = n + 1 /\ trail'[n + 1] = -p
      BY <1>2 DEF Appends
    <3>2. n + 1 \in 1 .. Len(trail') /\ trail'[n + 1] \in c /\ level'[var(trail'[n + 1])] <= bt
      BY <1>2, <1>3, <3>1
    <3> QED BY <3>2 DEF TrueBy
  <2>8. SingleWatch(c)'
    <3> SUFFICES ASSUME NEW k \in 1 .. 2, NEW i \in 1 .. Bound', trail'[i] = -watched'[c][k]
                 PROVE  TrueBy(c, level[var(trail[i])])'
      BY DEF SingleWatch
    <3>1. i \in 1 .. n /\ trail'[i] # p
      BY <1>5, <2>6
    <3>2. CASE k = 1
      BY <2>2, <2>3, <3>1, <3>2
    <3>3. CASE k = 2
      <4>1. trail'[i] = -l
        BY <2>2, <3>3
      <4>2. level'[var(trail'[i])] = bt
        BY <2>3, <2>5, <4>1
      <4> QED BY <2>7, <4>2 DEF TrueBy
    <3> QED BY <3>2, <3>3
  <2>9. BothWatches(c)'
    <3> SUFFICES ASSUME NEW i \in 1 .. Bound', trail'[i] = -watched'[c][1] PROVE FALSE
      BY DEF BothWatches
    <3>1. i \in 1 .. n /\ trail'[i] # p
      BY <1>5, <2>6
    <3> QED BY <2>2, <2>3, <3>1
  <2>10. watched'[c][1] # watched'[c][2]
    BY <1>2, <2>2, <2>4
  <2>11. WatchOK(c)'
    BY <2>8, <2>9, <2>10 DEF WatchOK
  <2> QED BY <1>8, <1>9, <2>2, <2>11, WatchesStay
<1> QED
  BY <1>2, <1>10, <1>11

\* A lemma attached with a first literal that is not false before the bound.
LEMMA LemmaWatched ==
  ASSUME NEW c, c \in SplitClause, watched'[c][1] # watched'[c][2],
         \A i \in 1 .. Bound' : trail'[i] # -watched'[c][1]
  PROVE  WatchOK(c)'
<1>1. BothWatches(c)'
  BY DEF BothWatches
<1> QED
  BY <1>1 DEF WatchOK

\* A lemma that implies a literal watches it.
LEMMA SplitUnitWatches ==
  ASSUME SearchInv, SearchInv', WatchInv, SplitUnit, Open' => Open
  PROVE  WatchInv'
<1>0. PICK h \in Nat : h = decisionLevel
  BY TrailLevels
<1>1. PICK n, bt, c, l : SplitsAt(n, bt, c, l)
  BY SplitUnitFacts
<1>2. /\ Keeps(n, bt) /\ bt \in 0 .. h /\ n = EndOf(bt) /\ qhead' = (IF bt < h THEN n ELSE qhead)
      /\ \A i \in 1 .. n : level[var(trail[i])] <= bt
      /\ c = Head(splits) /\ l \in c /\ l \in Lit /\ Fresh(trail, l)
      /\ watched' = watched \/ \E w \in c \ {l} : watched' = Attached(c, <<l, w>>)
      /\ splits # <<>> /\ pc = "split" /\ pc' = "split"
  BY <1>0, <1>1 DEF SplitsAt
<1>3. n \in 0 .. Len(trail) /\ Len(trail) \in Nat /\ n \in Nat
  BY <1>2, TrailLevels DEF Keeps
<1>4. Bound = qhead /\ Bound \in Nat /\ qhead \in 0 .. Len(trail) /\ Bound' = qhead'
  BY <1>2, BoundFacts DEF Bound
<1>5. Bound' \in 0 .. n /\ Bound' <= Bound
  <2>1. CASE bt < h
    <3>1. Bound' = n
      BY <1>2, <1>4, <2>1
    <3>2. CASE n = 0
      BY <1>4, <3>1, <3>2
    <3>3. CASE n # 0
      <4>1. n \in 1 .. n /\ n \in 1 .. Len(trail)
        BY <1>3, <3>3
      <4>2. level[var(trail[n])] \in 0 .. h /\ level[var(trail[n])] <= bt
        BY <1>0, <1>2, <4>1, TrailLevels
      <4>3. level[var(trail[n])] < decisionLevel
        BY <1>0, <1>2, <2>1, <4>2
      <4>4. n <= qhead
        BY <4>1, <4>3, LowIsPropagated
      <4> QED BY <1>3, <1>4, <3>1, <4>4
    <3> QED BY <3>2, <3>3
  <2>2. CASE bt = h
    <3>1. n = Len(trail)
      BY <1>0, <1>2, <2>2 DEF EndOf
    <3> QED BY <1>2, <1>4, <2>2, <3>1
  <2> QED BY <1>2, <2>1, <2>2
<1>6. \A i \in 1 .. Bound' : level[var(trail[i])] <= bt
  BY <1>2, <1>3, <1>5
<1>7. Settled(n, bt)
  BY <1>2, <1>3, <1>4, <1>5, <1>6 DEF Settled
<1>8. \A d : VisitGoesOn(d)
  BY <1>2, NoVisit
<1>9. CASE watched' = watched
  BY <1>7, <1>8, <1>9, WatchesStay
<1>10. CASE \E w \in c \ {l} : watched' = Attached(c, <<l, w>>)
  <2>1. PICK w \in c \ {l} : watched' = Attached(c, <<l, w>>)
    BY <1>10
  <2>2. /\ c \in DOMAIN watched' /\ watched'[c][1] = l /\ watched'[c][2] = w
        /\ \A d \in DOMAIN watched' : d # c => d \in DOMAIN watched /\ watched'[d] = watched[d]
    BY <2>1 DEF Attached
  <2>3. c \in SplitClause
    BY <1>2, SplitHead
  <2>4. ASSUME NEW i \in 1 .. Bound' PROVE trail'[i] # -l
    <3>1. i \in 1 .. n /\ i \in 1 .. Len(trail)
      BY <1>3, <1>5
    <3>2. trail'[i] = trail[i] /\ var(trail[i]) # var(l) /\ var(-l) = var(l)
      BY <1>2, <3>1, LitFacts DEF Keeps, Fresh
    <3> QED BY <3>2
  <2>5. WatchOK(c)'
    BY <2>1, <2>2, <2>3, <2>4, LemmaWatched
  <2> QED BY <1>7, <1>8, <2>2, <2>5, WatchesStay
<1> QED
  BY <1>2, <1>9, <1>10

\* Steps that only add literals to the trail, or attach or remove clauses.
LEMMA ForthWatches ==
  ASSUME SearchInv, SearchInv', WatchInv, Open' => Open,
         \/ Simplify \/ ReduceDB \/ DeduceNext \/ SplitAttach \/ SplitEnqueue \/ (\E l \in Lit : Decide(l))
  PROVE  WatchInv'
<1>1. PICK n : n = Len(trail)
  OBVIOUS
<1>2. ASSUME \A b : Keeps(n, b), qhead' = qhead, pc # "propagate",
             pc \notin {"conflict", "analyze", "learn"}, pc' \notin {"conflict", "analyze", "learn"}
      PROVE  Settled(n, decisionLevel) /\ \A c : VisitGoesOn(c)
  <2>1. Bound' = Bound
    BY <1>2 DEF Bound
  <2> QED BY <1>1, <1>2, <2>1, SettledHere, NoVisit
<1>3. CASE Simplify \/ ReduceDB
  <2>1. /\ UNCHANGED <<trail, level, qhead, pc>> /\ pc = "consistent" /\ DOMAIN watched' \subseteq DOMAIN watched
        /\ \A c \in DOMAIN watched' : watched'[c] = watched[c]
    BY <1>3, UpkeepFacts
  <2>2. \A b : Keeps(n, b)
    BY <1>1, <2>1, NothingMoves
  <2>3. Settled(n, decisionLevel) /\ \A c : VisitGoesOn(c)
    BY <1>2, <2>1, <2>2
  <2> QED BY <2>1, <2>3, WatchesStay
<1>4. CASE DeduceNext \/ SplitEnqueue
  <2>1. /\ UNCHANGED <<watched, qhead, pc>> /\ pc \in {"deduce", "split"}
        /\ UNCHANGED <<trail, level>> \/ \E k, l, from : EnqueuesAt(k, l, from, decisionLevel)
    BY <1>4, DeduceNextFacts, SplitEnqueueFacts
  <2>2. \A b : Keeps(n, b)
    <3>1. CASE UNCHANGED <<trail, level>>
      BY <1>1, <3>1, NothingMoves
    <3> QED BY <1>1, <2>1, <3>1 DEF EnqueuesAt
  <2>3. Settled(n, decisionLevel) /\ \A c : VisitGoesOn(c)
    BY <1>2, <2>1, <2>2
  <2> QED BY <2>1, <2>3, WatchesStay
<1>5. CASE \E l \in Lit : Decide(l)
  <2>1. PICK l \in Lit : Decide(l)
    BY <1>5
  <2>2. /\ UNCHANGED <<watched, qhead>> /\ pc = "decide" /\ pc' = "loop"
        /\ \E k : EnqueuesAt(k, l, CRef_Undef, decisionLevel + 1)
    BY <2>1, DecideFacts
  <2>3. \A b : Keeps(n, b)
    BY <1>1, <2>2 DEF EnqueuesAt
  <2>4. Settled(n, decisionLevel) /\ \A c : VisitGoesOn(c)
    BY <1>2, <2>2, <2>3
  <2> QED BY <2>2, <2>4, WatchesStay
<1>6. CASE SplitAttach
  <2>1. PICK c, pair : AttachesLemma(c, pair)
    BY <1>6, SplitAttachFacts
  <2>2. /\ c \in SplitClause /\ pair[1] # pair[2] /\ ~False(pair[1]) /\ watched' = Attached(c, pair)
        /\ UNCHANGED <<trail, level, qhead>> /\ pc = "split" /\ pc' = "split"
    BY <2>1 DEF AttachesLemma
  <2>3. \A b : Keeps(n, b)
    BY <1>1, <2>2, NothingMoves
  <2>4. Settled(n, decisionLevel) /\ \A d : VisitGoesOn(d)
    BY <1>2, <2>2, <2>3
  <2>5. /\ c \in DOMAIN watched' /\ watched'[c] = pair
        /\ \A d \in DOMAIN watched' : d # c => d \in DOMAIN watched /\ watched'[d] = watched[d]
    BY <2>2 DEF Attached
  <2>6. ASSUME NEW i \in 1 .. Bound' PROVE trail'[i] # -pair[1]
    <3>1. Bound' = Bound /\ Bound \in 0 .. Len(trail) /\ Len(trail) \in Nat
      BY <2>2, BoundFacts DEF Bound
    <3>2. i \in 1 .. Len(trail)
      BY <3>1
    <3>3. trail[i] # -pair[1]
      BY <2>2, <3>2, TrailLevels, ValueFacts DEF FalseBefore
    <3> QED BY <2>2, <3>3
  <2>7. WatchOK(c)'
    BY <2>2, <2>5, <2>6, LemmaWatched
  <2> QED BY <2>4, <2>5, <2>7, WatchesStay
<1> QED
  BY <1>3, <1>4, <1>5, <1>6

\* A clause that is added watches literals that are not assigned.
LEMMA AddWatches ==
  ASSUME SearchInv, SearchInv', ResultInv, WatchInv, Open' => Open, NEW c \in InputClause, AddOriginalClause(c)
  PROVE  WatchInv'
<1>1. PICK n : n = Len(trail)
  OBVIOUS
<1>2. /\ pc = "idle" /\ pc' \in {"idle", "propagate"} /\ ok /\ UNCHANGED <<qhead, visit, conflict_frame>>
      /\ \/ UNCHANGED <<watched, trail, level>>
         \/ ok' = FALSE /\ watched' = watched
         \/ watched' = watched /\ \E l, k : EnqueuesAt(k, l, CRef_Undef, 0)
         \/ /\ UNCHANGED <<trail, level>>
            /\ \E ps, pair : /\ \A l \in ps : Unassigned(l)
                             /\ pair[1] \in ps /\ pair[2] \in ps /\ pair[1] # pair[2]
                             /\ watched' = Attached(ps, pair)
  BY AddFacts
<1>3. Bound' = Bound /\ Bound \in 0 .. Len(trail) /\ Len(trail) \in Nat
  BY <1>2, BoundFacts DEF Bound
<1>4. \A d : VisitGoesOn(d)
  BY <1>2, NoVisit
<1>5. CASE UNCHANGED <<watched, trail, level>>
  <2>1. \A b : Keeps(n, b)
    BY <1>1, <1>5, NothingMoves
  <2>2. Settled(n, decisionLevel)
    BY <1>1, <1>3, <2>1, SettledHere
  <2> QED BY <1>4, <1>5, <2>2, WatchesStay
<1>6. CASE ok' = FALSE /\ watched' = watched
  <2>1. ~Open'
    BY <1>2, <1>6 DEF ResultInv, Open
  <2> QED BY <1>6, <2>1, WatchClosed
<1>7. CASE watched' = watched /\ \E l, k : EnqueuesAt(k, l, CRef_Undef, 0)
  <2>1. \A b : Keeps(n, b)
    BY <1>1, <1>7 DEF EnqueuesAt
  <2>2. Settled(n, decisionLevel)
    BY <1>1, <1>3, <2>1, SettledHere
  <2> QED BY <1>4, <1>7, <2>2, WatchesStay
<1>8. CASE /\ UNCHANGED <<trail, level>>
           /\ \E ps, pair : /\ \A l \in ps : Unassigned(l)
                            /\ pair[1] \in ps /\ pair[2] \in ps /\ pair[1] # pair[2]
                            /\ watched' = Attached(ps, pair)
  <2>1. \A b : Keeps(n, b)
    BY <1>1, <1>8, NothingMoves
  <2>2. Settled(n, decisionLevel)
    BY <1>1, <1>3, <2>1, SettledHere
  <2>3. PICK ps, pair : /\ \A l \in ps : Unassigned(l)
                        /\ pair[1] \in ps /\ pair[2] \in ps /\ pair[1] # pair[2]
                        /\ watched' = Attached(ps, pair)
    BY <1>8
  <2>4. /\ ps \in DOMAIN watched' /\ watched'[ps] = pair
        /\ \A d \in DOMAIN watched' : d # ps => d \in DOMAIN watched /\ watched'[d] = watched[d]
    BY <2>3 DEF Attached
  <2>5. ASSUME NEW i \in 1 .. Bound', NEW k \in 1 .. 2 PROVE trail'[i] # -pair[k]
    <3>1. i \in 1 .. Len(trail)
      BY <1>3
    <3>2. ~False(pair[1]) /\ ~False(pair[2])
      BY <2>3 DEF Unassigned
    <3>3. trail[i] # -pair[1] /\ trail[i] # -pair[2]
      BY <3>1, <3>2, TrailLevels, ValueFacts DEF FalseBefore
    <3> QED BY <1>8, <3>3
  <2>6. SingleWatch(ps)' /\ BothWatches(ps)'
    <3>1. SingleWatch(ps)'
      BY <2>4, <2>5 DEF SingleWatch
    <3>2. BothWatches(ps)'
      <4>1. \A i \in 1 .. Bound' : trail'[i] # -pair[1]
        BY <2>5
      <4> QED BY <2>4, <4>1 DEF BothWatches
    <3> QED BY <3>1, <3>2
  <2>7. WatchOK(ps)'
    BY <2>3, <2>4, <2>6 DEF WatchOK
  <2> QED BY <1>4, <2>2, <2>4, <2>7, WatchesStay
<1> QED
  BY <1>2, <1>5, <1>6, <1>7, <1>8

\* propagate takes the next literal: the clauses that watch its negation are visited.
LEMMA NextWatches ==
  ASSUME SearchInv, WatchInv, PropagateNext
  PROVE  WatchInv'
<1>1. /\ pc = "propagate" /\ pc' = "propagate" /\ visit = {} /\ qhead < Len(trail) /\ qhead' = qhead + 1
      /\ visit' = {c \in DOMAIN watched : -trail[qhead + 1] \in Range(watched[c])}
      /\ UNCHANGED <<watched, trail, level, ok, conflict_frame>>
  BY DEF PropagateNext, clauseVars, resultVars
<1>2. Bound = qhead /\ Bound' = qhead + 1 /\ qhead \in Nat /\ Len(trail) \in Nat
  BY <1>1, TrailLevels DEF Bound, SearchInv, QueueInv
<1> SUFFICES ASSUME NEW c \in DOMAIN watched PROVE WatchOK(c)'
  BY <1>1 DEF WatchInv
<1>3. /\ watched[c][1] # watched[c][2]
      /\ Open /\ c \notin SplitClause => SingleWatch(c)
      /\ Open => BothWatches(c)
  BY <1>1 DEF WatchInv, WatchOK
<1>4. Open' <=> Open
  BY <1>1 DEF Open
<1>5. c \in SUBSET Lit /\ watched[c][1] \in c /\ watched[c][2] \in c
  BY WatchedFacts
<1>6. qhead + 1 \in 1 .. Len(trail) /\ trail[qhead + 1] \in Lit
  BY <1>1, <1>2, TrailLevels
<1>7. ASSUME NEW k \in 1 .. 2, trail[qhead + 1] = -watched[c][k] PROVE c \in visit'
  <2>1. watched[c][k] \in Lit
    BY <1>5
  <2>2. watched[c][k] = -trail[qhead + 1]
    BY <1>7, <2>1, LitFacts
  <2>3. c \in clauses \cup learnts
    BY DEF SearchInv, ClauseInv
  <2>4. watched[c] \in Seq(c) /\ Len(watched[c]) = 2
    BY <2>3 DEF SearchInv, ClauseInv
  <2>5. watched[c][k] \in Range(watched[c])
    BY <2>4 DEF Range
  <2> QED BY <1>1, <2>2, <2>5
<1>8. ASSUME SingleWatch(c) PROVE SingleWatch(c)'
  <2> SUFFICES ASSUME NEW k \in 1 .. 2, NEW i \in 1 .. Bound', trail'[i] = -watched'[c][k],
                      ~(c \in visit' /\ i = qhead')
               PROVE  TrueBy(c, level[var(trail[i])])'
    BY DEF SingleWatch
  <2>1. i # qhead + 1
    BY <1>1, <1>7
  <2>2. i \in 1 .. Bound
    BY <1>2, <2>1
  <2>3. TrueBy(c, level[var(trail[i])])
    BY <1>1, <1>8, <2>2 DEF SingleWatch
  <2> QED BY <1>1, <2>3 DEF TrueBy
<1>9. ASSUME BothWatches(c), c \notin visit' PROVE BothWatches(c)'
  <2> SUFFICES ASSUME NEW i \in 1 .. Bound', NEW j \in 1 .. Bound',
                      trail'[i] = -watched'[c][1], trail'[j] = -watched'[c][2]
               PROVE  TrueBy(c, level[var(trail[i])])' \/ TrueBy(c, level[var(trail[j])])'
    BY DEF BothWatches
  <2>1. i # qhead + 1 /\ j # qhead + 1
    BY <1>1, <1>7, <1>9
  <2>2. i \in 1 .. Bound /\ j \in 1 .. Bound
    BY <1>2, <2>1
  <2>3. TrueBy(c, level[var(trail[i])]) \/ TrueBy(c, level[var(trail[j])])
    BY <1>1, <1>9, <2>2 DEF BothWatches
  <2> QED BY <1>1, <2>3 DEF TrueBy
<1> QED
  BY <1>1, <1>3, <1>4, <1>8, <1>9 DEF WatchOK

\* The clause propagate visits watches the negation of the last literal it has taken,
\* which is of the current level.
LEMMA VisitPosition ==
  ASSUME SearchInv, pc = "propagate", NEW c \in visit
  PROVE  /\ qhead \in 1 .. Len(trail) /\ level[var(trail[qhead])] = decisionLevel
         /\ \/ watched[c][1] = falseLit /\ watched[c][2] = First(c)
            \/ watched[c][2] = falseLit /\ watched[c][1] = First(c)
         /\ \A i \in 1 .. Len(trail) : trail[i] = -falseLit => i = qhead
         /\ decisionLevel > 0 => trail_lim[decisionLevel] < qhead
         /\ c \in DOMAIN watched /\ c \in SUBSET Lit /\ First(c) \in c /\ falseLit \in c
<1>1. /\ c \in DOMAIN watched /\ c \in SUBSET Lit /\ falseLit \in c /\ First(c) \in c /\ falseLit = -trail[qhead]
      /\ qhead \in 1 .. Len(trail)
  BY VisitFacts
<1>2. decisionLevel > 0 => trail_lim[decisionLevel] < qhead
  BY DEF SearchInv, QueueInv
<1>3. level[var(trail[qhead])] = decisionLevel
  <2>0. PICK h \in Nat : h = decisionLevel
    BY TrailLevels
  <2>1. CASE h = 0
    BY <1>1, <2>0, <2>1, LowIsPropagated
  <2>2. CASE h > 0
    BY <1>1, <1>2, <2>0, <2>2, LowIsPropagated
  <2> QED BY <2>0, <2>1, <2>2
<1>4. watched[c][1] = -trail[qhead] \/ watched[c][2] = -trail[qhead]
  BY DEF SearchInv, QueueInv
<1>5. \/ watched[c][1] = falseLit /\ watched[c][2] = First(c)
      \/ watched[c][2] = falseLit /\ watched[c][1] = First(c)
  BY <1>1, <1>4 DEF First
<1>6. trail[qhead] \in Lit /\ -falseLit = trail[qhead]
  BY <1>1, TrailLevels, LitFacts
<1>7. \A i \in 1 .. Len(trail) : trail[i] = -falseLit => i = qhead
  BY <1>1, <1>6 DEF SearchInv, TrailInv, TrailHolds, TrailFits, Distinct
<1> QED
  BY <1>1, <1>2, <1>3, <1>5, <1>7

\* A visit that finds the clause true, or another literal to watch.
LEMMA VisitLeaves ==
  ASSUME SearchInv, pc = "propagate", NEW c \in visit, WatchOK(c), visit' = visit \ {c},
         UNCHANGED <<trail, trail_lim, level, qhead, pc, ok, conflict_frame>>,
         \/ watched'[c] = watched[c]
         \/ watched'[c][1] = First(c) /\ watched'[c][2] \in {falseLit} \cup NewWatches(c),
         Satisfied(c) \/ watched'[c][2] \in NewWatches(c)
  PROVE  WatchOK(c)'
<1>0. PICK h \in Nat : h = decisionLevel
  BY TrailLevels
<1>1. /\ qhead \in 1 .. Len(trail) /\ level[var(trail[qhead])] = h
      /\ \/ watched[c][1] = falseLit /\ watched[c][2] = First(c)
         \/ watched[c][2] = falseLit /\ watched[c][1] = First(c)
      /\ \A i \in 1 .. Len(trail) : trail[i] = -falseLit => i = qhead
      /\ c \in SUBSET Lit /\ First(c) \in c /\ falseLit \in c
  BY <1>0, VisitPosition
<1>2. Bound = qhead /\ Bound' = qhead /\ (Open' <=> Open) /\ Len(trail) \in Nat
  BY TrailLevels DEF Bound, Open
<1>3. \A i \in 1 .. qhead : i \in 1 .. Len(trail)
  BY <1>1, <1>2
<1>4. watched[c][1] # watched[c][2] /\ First(c) # falseLit
      /\ (Open /\ c \notin SplitClause => SingleWatch(c))
  BY <1>1 DEF WatchOK
<1>5. \A i : TrueBy(c, level[var(trail[i])]) => TrueBy(c, level[var(trail[i])])'
  BY DEF TrueBy
<1>6. ASSUME SingleWatch(c), NEW i \in 1 .. qhead, trail[i] = -First(c)
      PROVE  TrueBy(c, level[var(trail[i])])
  <2>1. i # qhead
    <3>1. trail[qhead] \in Lit /\ falseLit = -trail[qhead] /\ First(c) \in Lit
      BY <1>1, TrailLevels DEF falseLit
    <3> QED BY <1>4, <1>6, <3>1, LitFacts
  <2>2. PICK k \in 1 .. 2 : watched[c][k] = First(c)
    BY <1>1
  <2> QED BY <1>2, <1>6, <2>1, <2>2 DEF SingleWatch
<1>7. CASE watched'[c][2] \in NewWatches(c)
  <2>1. watched'[c][2] \in c /\ watched'[c][2] # First(c) /\ watched'[c][2] # falseLit /\ ~False(watched'[c][2])
    BY <1>7 DEF NewWatches
  <2>2. watched'[c][1] = First(c)
    BY <1>1, <2>1
  <2>3. \A i \in 1 .. qhead : trail[i] # -watched'[c][2]
    BY <1>3, <2>1, TrailLevels, ValueFacts DEF FalseBefore
  <2>4. BothWatches(c)'
    BY <1>2, <2>3 DEF BothWatches
  <2>5. ASSUME SingleWatch(c) PROVE SingleWatch(c)'
    <3> SUFFICES ASSUME NEW k \in 1 .. 2, NEW i \in 1 .. Bound', trail'[i] = -watched'[c][k]
                 PROVE  TrueBy(c, level[var(trail[i])])'
      BY DEF SingleWatch
    <3>1. i \in 1 .. qhead /\ trail[i] = -watched'[c][k]
      BY <1>2
    <3>2. k = 1
      BY <2>3, <3>1
    <3>3. TrueBy(c, level[var(trail[i])])
      BY <1>6, <2>2, <2>5, <3>1, <3>2
    <3> QED BY <1>5, <3>3
  <2> QED BY <1>2, <1>4, <2>1, <2>2, <2>4, <2>5 DEF WatchOK
<1>8. CASE Satisfied(c) /\ watched'[c][2] \notin NewWatches(c)
  <2>1. \/ watched'[c][1] = falseLit /\ watched'[c][2] = First(c)
        \/ watched'[c][2] = falseLit /\ watched'[c][1] = First(c)
    BY <1>1, <1>8
  <2>2. TrueBy(c, level[var(trail[qhead])])
    <3>1. PICK x \in c : True(x)
      BY <1>8 DEF Satisfied
    <3>2. PICK j \in 1 .. Len(trail) : trail[j] = x
      BY <3>1, TrailLevels, ValueFacts
    <3>3. level[var(trail[j])] \in 0 .. h
      BY <1>0, TrailLevels
    <3>4. level[var(trail[j])] <= level[var(trail[qhead])]
      BY <1>1, <3>3
    <3>5. trail[j] \in c
      BY <3>2
    <3> QED BY <3>4, <3>5 DEF TrueBy
  <2>3. TrueBy(c, level[var(trail[qhead])])'
    BY <1>5, <2>2
  <2>4. \A i \in 1 .. qhead : trail[i] = -falseLit => i = qhead
    BY <1>1, <1>3
  <2>5. BothWatches(c)'
    <3> SUFFICES ASSUME NEW i \in 1 .. Bound', NEW j \in 1 .. Bound',
                        trail'[i] = -watched'[c][1], trail'[j] = -watched'[c][2]
                 PROVE  TrueBy(c, level[var(trail[i])])' \/ TrueBy(c, level[var(trail[j])])'
      BY DEF BothWatches
    <3>1. i = qhead \/ j = qhead
      BY <1>2, <2>1, <2>4
    <3> QED BY <2>3, <3>1
  <2>6. ASSUME SingleWatch(c) PROVE SingleWatch(c)'
    <3> SUFFICES ASSUME NEW k \in 1 .. 2, NEW i \in 1 .. Bound', trail'[i] = -watched'[c][k]
                 PROVE  TrueBy(c, level[var(trail[i])])'
      BY DEF SingleWatch
    <3>1. i \in 1 .. qhead /\ trail[i] = -watched'[c][k]
      BY <1>2
    <3>2. watched'[c][k] = falseLit \/ watched'[c][k] = First(c)
      BY <2>1
    <3>3. CASE watched'[c][k] = falseLit
      <4>1. i = qhead
        BY <2>4, <3>1, <3>3
      <4> QED BY <2>3, <4>1
    <3>4. CASE watched'[c][k] = First(c)
      <4>1. TrueBy(c, level[var(trail[i])])
        BY <1>6, <2>6, <3>1, <3>4
      <4> QED BY <1>5, <4>1
    <3> QED BY <3>2, <3>3, <3>4
  <2> QED BY <1>2, <1>4, <2>1, <2>5, <2>6 DEF WatchOK
<1> QED
  BY <1>7, <1>8

\* A visit that finds the clause unit: the literal it implies is true from now on.
LEMMA VisitImplies ==
  ASSUME SearchInv, SearchInv', pc = "propagate", NEW c \in visit, WatchOK(c), NEW n,
         EnqueuesAt(n, First(c), c, decisionLevel), UNCHANGED <<qhead, pc>>,
         watched'[c][1] = First(c), watched'[c][2] = falseLit
  PROVE  WatchOK(c)'
<1>0. PICK h \in Nat : h = decisionLevel
  BY TrailLevels
<1>1. /\ qhead \in 1 .. Len(trail) /\ level[var(trail[qhead])] = h
      /\ \/ watched[c][1] = falseLit /\ watched[c][2] = First(c)
         \/ watched[c][2] = falseLit /\ watched[c][1] = First(c)
      /\ \A i \in 1 .. Len(trail) : trail[i] = -falseLit => i = qhead
      /\ c \in SUBSET Lit /\ First(c) \in c
  BY <1>0, VisitPosition
<1>2. PICK l : l = First(c)
  OBVIOUS
<1>3. /\ n = Len(trail) /\ n \in Nat /\ Keeps(n, h) /\ Len(trail') = n + 1 /\ trail'[n + 1] = l /\ l \in Lit
      /\ \A i \in 1 .. n : var(trail[i]) # var(l)
      /\ level'[var(l)] = h
  BY <1>0, <1>2 DEF EnqueuesAt, Appends
<1>4. Bound' = qhead
  BY DEF Bound
<1>5. ASSUME NEW i \in 1 .. Bound'
      PROVE  /\ i \in 1 .. Len(trail) /\ trail'[i] = trail[i] /\ level'[var(trail'[i])] = level[var(trail[i])]
             /\ trail'[i] # -l
  <2>1. i \in 1 .. n
    BY <1>1, <1>3, <1>4
  <2>2. trail'[i] = trail[i] /\ level'[var(trail[i])] = level[var(trail[i])]
    BY <1>3, <2>1 DEF Keeps
  <2>3. var(-l) = var(l) /\ var(trail[i]) # var(l)
    BY <1>3, <2>1, LitFacts
  <2> QED BY <1>3, <2>1, <2>2, <2>3
<1>6. watched'[c][1] # watched'[c][2]
  BY <1>1 DEF WatchOK
<1>7. BothWatches(c)'
  BY <1>2, <1>5 DEF BothWatches
<1>8. TrueBy(c, h)'
  <2>1. n + 1 \in 1 .. Len(trail') /\ trail'[n + 1] \in c /\ level'[var(trail'[n + 1])] <= h
    BY <1>1, <1>2, <1>3
  <2> QED BY <2>1 DEF TrueBy
<1>9. SingleWatch(c)'
  <2> SUFFICES ASSUME NEW k \in 1 .. 2, NEW i \in 1 .. Bound', trail'[i] = -watched'[c][k]
               PROVE  TrueBy(c, level[var(trail[i])])'
    BY DEF SingleWatch
  <2>1. k = 2
    BY <1>2, <1>5
  <2>2. i = qhead
    BY <1>1, <1>5, <2>1
  <2>3. level'[var(trail'[i])] = h
    BY <1>1, <1>5, <2>2
  <2> QED BY <1>8, <2>3 DEF TrueBy
<1> QED
  BY <1>6, <1>7, <1>9 DEF WatchOK

\* A visit that finds the clause false.
LEMMA VisitFalse ==
  ASSUME SearchInv, pc = "propagate", NEW c \in visit, WatchOK(c), NEW n, NEW b, Settled(n, b),
         UNCHANGED trail, Bound' < qhead, watched'[c][1] = First(c), watched'[c][2] = falseLit
  PROVE  WatchOK(c)'
<1>1. /\ qhead \in 1 .. Len(trail)
      /\ \/ watched[c][1] = falseLit /\ watched[c][2] = First(c)
         \/ watched[c][2] = falseLit /\ watched[c][1] = First(c)
      /\ \A i \in 1 .. Len(trail) : trail[i] = -falseLit => i = qhead
  BY VisitPosition
<1>2. Bound' \in Nat /\ Len(trail) \in Nat /\ (Open' => Open)
  BY TrailLevels DEF Settled
<1>3. \A i \in 1 .. Bound' : i \in 1 .. Len(trail) /\ i # qhead
  BY <1>1, <1>2
<1>4. watched'[c][1] # watched'[c][2] /\ (Open /\ c \notin SplitClause => SingleWatch(c))
  BY <1>1 DEF WatchOK
<1>5. \A i \in 1 .. Bound' : trail'[i] # -watched'[c][2]
  BY <1>1, <1>3
<1>6. BothWatches(c)'
  BY <1>5 DEF BothWatches
<1>7. ASSUME SingleWatch(c) PROVE SingleWatch(c)'
  <2> SUFFICES ASSUME NEW k \in 1 .. 2, NEW i \in 1 .. Bound', trail'[i] = -watched'[c][k]
               PROVE  TrueBy(c, level[var(trail[i])])'
    BY DEF SingleWatch
  <2>1. k = 1
    BY <1>5
  <2>2. trail[i] = -First(c) /\ i # qhead
    BY <1>3, <2>1
  <2>3. PICK g \in 1 .. 2 : watched[c][g] = First(c)
    BY <1>1
  <2>4. /\ i \in 1 .. Bound
        /\ \A d : TrueBy(d, level[var(trail[i])]) => TrueBy(d, level[var(trail[i])])'
    BY SettledFacts
  <2>5. TrueBy(c, level[var(trail[i])])
    BY <1>7, <2>2, <2>3, <2>4 DEF SingleWatch
  <2> QED BY <2>4, <2>5
<1> QED
  BY <1>2, <1>4, <1>6, <1>7 DEF WatchOK

\* propagate visits a clause.
LEMMA VisitWatches ==
  ASSUME SearchInv, SearchInv', WatchInv, NEW c \in visit, PropagateVisit(c)
  PROVE  WatchInv'
<1>0. PICK h \in Nat : h = decisionLevel
  BY TrailLevels
<1>1. /\ pc = "propagate" /\ c \in DOMAIN watched /\ DOMAIN watched' = DOMAIN watched
      /\ \A d \in DOMAIN watched : d # c => watched'[d] = watched[d]
      /\ UNCHANGED <<trail_lim, ok, conflict_frame>>
      /\ \/ watched'[c] = watched[c]
         \/ watched'[c][1] = First(c) /\ watched'[c][2] \in {falseLit} \cup NewWatches(c)
      /\ \/ /\ UNCHANGED <<trail, level, qhead, pc>> /\ visit' = visit \ {c}
            /\ Satisfied(c) \/ watched'[c][2] \in NewWatches(c)
         \/ /\ UNCHANGED <<qhead, pc>> /\ visit' = visit \ {c}
            /\ watched'[c][1] = First(c) /\ watched'[c][2] = falseLit
            /\ \E k : EnqueuesAt(k, First(c), c, decisionLevel)
         \/ /\ UNCHANGED <<trail, level>> /\ visit' = {} /\ pc' = "conflict"
            /\ watched'[c][1] = First(c) /\ watched'[c][2] = falseLit
  BY VisitStep
<1>2. WatchOK(c)
  BY <1>1 DEF WatchInv
<1>3. Open' <=> Open
  BY <1>1 DEF Open
<1>4. PICK n : n = Len(trail)
  OBVIOUS
<1>5. /\ Bound = qhead /\ Bound \in Nat /\ Len(trail) \in Nat /\ Bound \in 0 .. Len(trail)
  BY <1>1, BoundFacts
<1>6. qhead \in 1 .. Len(trail) /\ (decisionLevel > 0 => trail_lim[decisionLevel] < qhead)
  BY <1>1, VisitPosition
<1>7. ASSUME NEW b, Settled(n, b), \A d : d # c => VisitGoesOn(d), WatchOK(c)'
      PROVE  WatchInv'
  <2>1. \A d \in DOMAIN watched' : \/ /\ d \in DOMAIN watched /\ watched'[d] = watched[d]
                                      /\ VisitGoesOn(d)
                                   \/ WatchOK(d)'
    BY <1>1, <1>7
  <2> QED BY <1>7, <2>1, WatchesStay
<1>8. CASE /\ UNCHANGED <<trail, level, qhead, pc>> /\ visit' = visit \ {c}
           /\ Satisfied(c) \/ watched'[c][2] \in NewWatches(c)
  <2>1. \A b : Keeps(n, b)
    BY <1>4, <1>8, NothingMoves
  <2>2. Settled(n, decisionLevel)
    <3>1. Bound' = Bound
      BY <1>1, <1>8 DEF Bound
    <3> QED BY <1>3, <1>4, <2>1, <3>1, SettledHere
  <2>3. \A d : d # c => VisitGoesOn(d)
    BY <1>8 DEF VisitGoesOn
  <2>4. WatchOK(c)'
    BY <1>1, <1>2, <1>8, VisitLeaves
  <2> QED BY <1>7, <2>2, <2>3, <2>4
<1>9. CASE /\ UNCHANGED <<qhead, pc>> /\ visit' = visit \ {c}
           /\ watched'[c][1] = First(c) /\ watched'[c][2] = falseLit
           /\ \E k : EnqueuesAt(k, First(c), c, decisionLevel)
  <2>1. PICK k : EnqueuesAt(k, First(c), c, decisionLevel)
    BY <1>9
  <2>2. \A b : Keeps(n, b)
    BY <1>4, <2>1 DEF EnqueuesAt
  <2>3. Settled(n, decisionLevel)
    <3>1. Bound' = Bound
      BY <1>1, <1>9 DEF Bound
    <3> QED BY <1>3, <1>4, <2>2, <3>1, SettledHere
  <2>4. \A d : d # c => VisitGoesOn(d)
    BY <1>9 DEF VisitGoesOn
  <2>5. WatchOK(c)'
    BY <1>1, <1>2, <1>9, <2>1, VisitImplies
  <2> QED BY <1>7, <2>3, <2>4, <2>5
<1>10. CASE /\ UNCHANGED <<trail, level>> /\ visit' = {} /\ pc' = "conflict"
            /\ watched'[c][1] = First(c) /\ watched'[c][2] = falseLit
  <2>1. Keeps(n, h)
    BY <1>4, <1>10, NothingMoves
  <2>2. Bound' = IF decisionLevel > 0 THEN trail_lim[decisionLevel] ELSE 0
    BY <1>1, <1>10 DEF Bound, decisionLevel
  <2>3. SearchInv'
    OBVIOUS
  <2>4. BoundFits'
    BY <2>3, BoundedBound, PTL
  <2>5. Bound' \in 0 .. Len(trail) /\ Bound' < qhead
    <3>1. Bound' \in 0 .. Len(trail)
      BY <1>10, <2>4 DEF BoundFits
    <3> QED BY <1>5, <1>6, <2>2, <3>1
  <2>6. \A i \in 1 .. Bound' : level[var(trail[i])] <= h
    <3>1. \A i \in 1 .. Len(trail) : level[var(trail[i])] \in 0 .. h
      BY <1>0, TrailLevels
    <3>2. \A i \in 1 .. Bound' : i \in 1 .. Len(trail)
      BY <1>5, <2>5
    <3> QED BY <3>1, <3>2
  <2>7. Settled(n, h)
    BY <1>3, <1>4, <1>5, <2>1, <2>5, <2>6 DEF Settled
  <2>8. \A d : d # c => VisitGoesOn(d)
    BY <2>5 DEF VisitGoesOn
  <2>9. WatchOK(c)'
    BY <1>1, <1>2, <1>10, <2>5, <2>7, VisitFalse
  <2> QED BY <1>7, <2>7, <2>8, <2>9
<1> QED
  BY <1>1, <1>8, <1>9, <1>10

\* No clause is missed.
LEMMA WatchInvKeeps ==
  ASSUME SearchInv, SearchInv', DecisionInv, ResultInv, WatchInv, [Next]_vars
  PROVE  WatchInv'
<1>1. Open' => Open
  BY OpenBefore
<1> QED
  BY <1>1, StepCases, NextWatches, QuietWatches, EndsWatches, UnsatWatches, AnalyzeWatches, LearnWatches,
     SplitUnitWatches, ForthWatches, AddWatches, VisitWatches

-----------------------------------------------------------------------------
\* When everything is propagated, a clause that is not true watches literals without a value.
LEMMA WatchedAtEnd ==
  ASSUME SearchInv, WatchInv, Open, visit = {}, qhead = Len(trail),
         pc \notin {"conflict", "analyze", "learn"}, NEW c \in DOMAIN watched
  PROVE  /\ watched[c][1] \in c /\ watched[c][2] \in c /\ watched[c][1] # watched[c][2]
         /\ Satisfied(c) \/ Unassigned(watched[c][1]) \/ Unassigned(watched[c][2])
         /\ Satisfied(c) \/ c \in SplitClause \/ (Unassigned(watched[c][1]) /\ Unassigned(watched[c][2]))
<1>1. Bound = Len(trail) /\ trail \in Seq(Lit)
  BY BoundFacts, TrailLevels
<1>2. watched[c][1] \in c /\ watched[c][2] \in c
  BY WatchedFacts
<1>3. watched[c][1] # watched[c][2] /\ BothWatches(c) /\ (c \notin SplitClause => SingleWatch(c))
  BY DEF WatchInv, WatchOK
<1>4. ASSUME NEW n, TrueBy(c, n) PROVE Satisfied(c)
  <2>1. PICK i \in 1 .. Len(trail) : trail[i] \in c
    BY <1>4 DEF TrueBy
  <2>2. True(trail[i])
    BY <1>1, ValueFacts
  <2> QED BY <2>1, <2>2 DEF Satisfied
<1>5. ASSUME NEW l \in c, ~Satisfied(c), ~Unassigned(l) PROVE \E i \in 1 .. Len(trail) : trail[i] = -l
  BY <1>1, <1>5, ValueFacts DEF Satisfied, Unassigned, FalseBefore
<1>6. ASSUME ~Satisfied(c), ~Unassigned(watched[c][1]), ~Unassigned(watched[c][2]) PROVE FALSE
  <2>1. PICK i \in 1 .. Len(trail) : trail[i] = -watched[c][1]
    BY <1>2, <1>5, <1>6
  <2>2. PICK j \in 1 .. Len(trail) : trail[j] = -watched[c][2]
    BY <1>2, <1>5, <1>6
  <2>3. TrueBy(c, level[var(trail[i])]) \/ TrueBy(c, level[var(trail[j])])
    BY <1>1, <1>3, <2>1, <2>2 DEF BothWatches
  <2> QED BY <1>4, <1>6, <2>3
<1>7. ASSUME ~Satisfied(c), c \notin SplitClause, NEW k \in 1 .. 2, ~Unassigned(watched[c][k]) PROVE FALSE
  <2>1. watched[c][k] \in c
    BY <1>2
  <2>2. PICK i \in 1 .. Len(trail) : trail[i] = -watched[c][k]
    BY <1>5, <1>7, <2>1
  <2>3. TrueBy(c, level[var(trail[i])])
    BY <1>1, <1>3, <1>7, <2>2 DEF SingleWatch
  <2> QED BY <1>4, <1>7, <2>3
<1>8. 1 \in 1 .. 2 /\ 2 \in 1 .. 2
  OBVIOUS
<1> QED
  BY <1>2, <1>3, <1>6, <1>7, <1>8

\* A literal is its variable or the negation of it.
LEMMA LitOfVar ==
  /\ \A l \in Lit : l = var(l) \/ l = -var(l)
  /\ \A v \in Var : var(v) = v
<1>1. ASSUME NEW l \in Lit PROVE l = var(l) \/ l = -var(l)
  <2>1. l \in Int
    BY LitFacts
  <2> QED BY <2>1 DEF var
<1>2. ASSUME NEW v \in Var PROVE var(v) = v
  <2>1. v \in Nat
    BY VarAssumption
  <2> QED BY <2>1 DEF var
<1> QED
  BY <1>1, <1>2

\* An assignment the theory can extend agrees with one of its models.
LEMMA TrailHasModel ==
  ASSUME SearchInv, ~Outside, Len(trail) = Len(stack), Extendable
  PROVE  \E m \in TheoryModel : Range(trail) \subseteq m
<1>1. PICK m0 \in TheoryModel : Told(Len(stack)) \subseteq m0
  BY DEF Extendable
<1>2. trail \in Seq(Lit) /\ stack \in Seq(Lit) /\ Len(stack) \in Nat
  BY TrailLevels
<1>3. Distinct(trail) /\ \A i \in 1 .. Len(stack) : stack[i] = trail[i]
  BY DEF SearchInv, TrailInv, TrailHolds, TrailFits, TheoryInv, StackFits
<1>4. \A i \in 1 .. Len(trail) : var(trail[i]) \in TheoryVar => var(trail[i]) \in declared
  BY DEF SearchInv, KnownInv
<1> DEFINE B == {v \in Var \ TheoryVar : v \in Range(trail)}
           N == {-v : v \in (Var \ TheoryVar) \ B}
           T == {l \in Lit : l \in m0 /\ var(l) \in TheoryVar}
<1>5. T \cup B \cup N \in TheoryModel
  <2>1. B \in SUBSET (Var \ TheoryVar)
    OBVIOUS
  <2> QED BY <2>1, BooleanAssumption
<1>6. ASSUME NEW i \in 1 .. Len(trail) PROVE trail[i] \in T \cup B \cup N
  <2>1. trail[i] \in Lit /\ trail[i] \in Range(trail)
    BY <1>2 DEF Range
  <2>2. CASE var(trail[i]) \in TheoryVar
    <3>1. i \in 1 .. Len(stack) /\ i <= Len(stack) /\ stack[i] = trail[i] /\ var(stack[i]) \in declared
      BY <1>2, <1>3, <1>4, <2>2
    <3>2. stack[i] \in Told(Len(stack))
      BY <3>1 DEF Told
    <3>3. trail[i] \in m0
      BY <1>1, <3>1, <3>2
    <3> QED BY <2>1, <2>2, <3>3
  <2>3. CASE var(trail[i]) \notin TheoryVar
    <3>1. trail[i] = var(trail[i]) \/ trail[i] = -var(trail[i])
      BY <2>1, LitOfVar
    <3>2. var(trail[i]) \in Var
      BY <2>1, LitFacts
    <3>3. CASE trail[i] = var(trail[i])
      BY <2>1, <2>3, <3>2, <3>3
    <3>4. CASE trail[i] # var(trail[i])
      <4>1. var(trail[i]) \notin Range(trail)
        <5> SUFFICES ASSUME var(trail[i]) \in Range(trail) PROVE FALSE
          OBVIOUS
        <5>1. PICK j \in 1 .. Len(trail) : trail[j] = var(trail[i])
          BY <1>2 DEF Range
        <5>2. var(trail[j]) = var(trail[i])
          BY <3>2, <5>1, LitOfVar
        <5>3. i = j
          BY <1>3, <5>2 DEF Distinct
        <5> QED BY <3>4, <5>1, <5>3
      <4>2. var(trail[i]) \in (Var \ TheoryVar) \ B
        BY <2>3, <3>2, <4>1
      <4>3. -var(trail[i]) \in N
        BY <4>2
      <4> QED BY <3>1, <3>4, <4>3
    <3> QED BY <3>3, <3>4
  <2> QED BY <2>2, <2>3
<1> HIDE DEF T, B, N
<1>7. Range(trail) \subseteq T \cup B \cup N
  BY <1>2, <1>6 DEF Range
<1> QED
  BY <1>5, <1>7

\* A complete assignment that propagate and the theory accept agrees with a model of the
\* given clauses in which the assumptions are true.
LEMMA TrailIsModel ==
  ASSUME SearchInv, DecisionInv, AssumedInv, CompleteInv, WatchInv, GivenInv, ResultInv,
         pc = "deduce", after = "complete", Undecided = {}, Len(trail) = Len(stack)
  PROVE  /\ Range(assumptions) \subseteq Range(trail)
         /\ \E m \in GivenModel : Range(trail) \subseteq m
<1>0. PICK h \in Nat : h = decisionLevel
  BY TrailLevels
<1>1. Extendable /\ h >= Len(assumptions) /\ Open /\ ~Outside /\ visit = {} /\ qhead = Len(trail)
  BY <1>0 DEF CompleteInv, ResultInv, Open, Outside, SearchInv, PhaseInv, QueueInv
<1>2. trail \in Seq(Lit) /\ Len(assumptions) \in Nat /\ assumptions \in Seq({l \in Lit : var(l) \notin TheoryVar})
  BY TrailLevels DEF SearchInv, AnswerInv
<1>3. ASSUME NEW l \in Range(assumptions) PROVE l \in Range(trail)
  <2>1. PICK k \in 1 .. Len(assumptions) : l = assumptions[k]
    BY <1>2 DEF Range
  <2>2. k <= h
    BY <1>1, <1>2
  <2>3. TrueBy({assumptions[k]}, k)
    BY <1>0, <2>2 DEF AssumedInv
  <2>4. PICK i \in 1 .. Len(trail) : trail[i] = l
    BY <2>1, <2>3 DEF TrueBy
  <2> QED BY <1>2, <2>4 DEF Range
<1>4. PICK m \in TheoryModel : Range(trail) \subseteq m
  BY <1>1, TrailHasModel
<1>5. ASSUME NEW d \in clauses PROVE Satisfied(d)
  <2>1. d \in DOMAIN watched /\ d \subseteq Lit
    BY DEF SearchInv, ClauseInv
  <2>2. Vars(d) \subseteq decision
    BY <1>1 DEF DecisionInv, Base
  <2>3. ASSUME NEW l \in d PROVE ~Unassigned(l)
    <3>1. l \in Lit /\ var(l) \in decision
      BY <2>1, <2>2 DEF Vars
    <3>2. ~Unassigned(var(l))
      BY <3>1 DEF Undecided
    <3>3. var(l) = l \/ (var(l) = -l /\ -(-l) = l)
      BY <3>1, LitFacts DEF var
    <3> QED BY <3>2, <3>3 DEF Unassigned, True, False
  <2>4. /\ watched[d][1] \in d /\ watched[d][2] \in d
        /\ Satisfied(d) \/ Unassigned(watched[d][1]) \/ Unassigned(watched[d][2])
    BY <1>1, <2>1, WatchedAtEnd
  <2> QED BY <2>3, <2>4
<1>6. ASSUME NEW c \in given PROVE c \cap m # {}
  <2>1. c \subseteq Lit
    BY DEF SearchInv, ClauseInv
  <2>2. CASE \E l \in c : -l \in c
    <3>1. PICK l \in c : -l \in c
      BY <2>2
    <3>2. l \in m \/ -l \in m
      BY <2>1, ModelFacts
    <3> QED BY <3>1, <3>2
  <2>3. CASE TrueBy(c, 0)
    <3>1. PICK i \in 1 .. Len(trail) : trail[i] \in c
      BY <2>3 DEF TrueBy
    <3>2. trail[i] \in Range(trail)
      BY <1>2 DEF Range
    <3> QED BY <1>4, <3>1, <3>2
  <2>4. CASE \E d \in clauses : d \subseteq c
    <3>1. PICK d \in clauses : d \subseteq c
      BY <2>4
    <3>2. PICK l \in d : l \in Range(trail)
      BY <1>5 DEF Satisfied, True
    <3> QED BY <1>4, <3>1, <3>2
  <2> QED BY <1>1, <2>2, <2>3, <2>4 DEF GivenInv
<1>7. m \in GivenModel
  BY <1>4, <1>6 DEF GivenModel
<1> QED
  BY <1>3, <1>4, <1>7

-----------------------------------------------------------------------------
\* The first n active assumptions.
Few(n) == {assumptions[i] : i \in {j \in Active : assumptions_order(var(assumptions[j])) < n}}

\* The order of the assumptions is bounded by their number.
LEMMA OrderBounded ==
  ASSUME SearchInv
  PROVE  /\ Len(assumptions) \in Nat
         /\ \A v : assumptions_order(v) \in 0 .. Len(assumptions)
<1>1. PICK n \in Nat : n = Len(assumptions)
  BY DEF SearchInv, AnswerInv
<1>2. ASSUME NEW v PROVE assumptions_order(v) \in 0 .. n
  <2>1. PICK S : S = {j \in Active : j < (CHOOSE k \in Active : var(assumptions[k]) = v)}
    OBVIOUS
  <2>2. assumptions_order(v) = Cardinality(S)
    BY <2>1 DEF assumptions_order
  <2>3. S \subseteq 1 .. n
    BY <1>1, <2>1 DEF Active
  <2>4. 1 \in Int /\ n \in Int
    OBVIOUS
  <2>5. IsFiniteSet(1 .. n) /\ Cardinality(1 .. n) = IF 1 > n THEN 0 ELSE n - 1 + 1
    BY <2>4, FS_Interval
  <2>6. IsFiniteSet(S) /\ Cardinality(S) <= Cardinality(1 .. n)
    BY <2>3, <2>5, FS_Subset
  <2>7. Cardinality(S) \in Nat
    BY <2>6, FS_CardinalityType
  <2> QED BY <2>2, <2>5, <2>6, <2>7
<1> QED
  BY <1>1, <1>2

\* The assumptions that analyzeFinal finds are among the first of the conflict frame.
LEMMA FrameIsEnough ==
  ASSUME SearchInv, FrameInv, BlameInv, pc = "final", seen = {}
  PROVE  ConflictFrame > 0 /\ \A m \in GivenModel : ~(Few(ConflictFrame) \subseteq m)
<1>1. PICK n \in Nat : n = Len(assumptions) /\ \A v : assumptions_order(v) \in 0 .. n
  BY OrderBounded
<1> DEFINE S == {0} \cup {assumptions_order(l) : l \in Blamed}
<1>2. S \in SUBSET (0 .. n) /\ S # {}
  BY <1>1
<1>3. Max(S) \in S /\ \A y \in S : y <= Max(S)
  <2> HIDE DEF S
  <2> QED BY <1>1, <1>2, MaxNat
<1>4. \A k \in Blamed : assumptions_order(k) \in S
  OBVIOUS
<1>5. ConflictFrame = Max(S) + 1
  BY DEF ConflictFrame, Blamed
<1> HIDE DEF S
<1>6. ConflictFrame > 0 /\ \A k \in Blamed : assumptions_order(k) < ConflictFrame
  <2>0. PICK z : z = Max(S)
    OBVIOUS
  <2>1. z \in 0 .. n
    BY <1>2, <1>3, <2>0
  <2>2. \A k \in Blamed : assumptions_order(k) \in 0 .. n /\ assumptions_order(k) <= z
    BY <1>1, <1>3, <1>4, <2>0
  <2> QED BY <1>5, <2>0, <2>1, <2>2
<1>7. ASSUME NEW k \in Blamed PROVE -k \in Few(ConflictFrame)
  <2>1. k \in Lit /\ k > 0
    BY DEF Blamed, SearchInv, FinalInv
  <2>2. -k \in Range(assumptions)
    BY DEF BlameInv
  <2>3. PICK j \in 1 .. Len(assumptions) : assumptions[j] = -k
    BY <2>2 DEF Range, SearchInv, AnswerInv
  <2>4. k \in Int /\ var(-k) = k /\ -k < 0
    <3>1. k \in Int /\ var(-k) = var(k)
      BY <2>1, LitFacts
    <3> QED BY <2>1, <3>1 DEF var
  <2>5. j \in Active /\ var(assumptions[j]) = k
    BY <2>3, <2>4 DEF Active
  <2> QED BY <1>6, <2>3, <2>5 DEF Few
<1>8. ASSUME NEW m \in GivenModel, Few(ConflictFrame) \subseteq m PROVE FALSE
  BY <1>7, <1>8 DEF BlameInv
<1> QED
  BY <1>6, <1>8

\* A step within a search or while a clause is added: it goes on, ends or answers.
LEMMA SearchResult ==
  ASSUME SearchInv, pc # "idle", [Next]_vars
  PROVE  \/ UNCHANGED <<ok, conflict_frame, answer>>
         \/ AddConflict
         \/ pc' = "idle" /\ answer' # "sat" /\ conflict_frame' = conflict_frame
         \/ SearchSat \/ FinalDone
<1> USE DEF resultVars
<1>1. CASE Quiet
  <2>1. ~RestoreOK /\ ~(\E as \in Assumption : Solve(as))
    BY DEF RestoreOK, Solve
  <2>2. CASE PropagateNext \/ PropagateDone \/ SearchLoop \/ AnalyzeBegin \/ EarlyPruning \/ AddConflict
    BY <2>2 DEF PropagateNext, PropagateDone, SearchLoop, AnalyzeBegin, EarlyPruning
  <2>3. CASE TheoryAssert \/ TheorySat \/ DeduceDone \/ SplitDone
    BY <2>3 DEF TheoryAssert, TheorySat, DeduceDone, SplitDone
  <2>4. CASE AssumeTrue \/ CompleteCall \/ FinalBegin \/ FinalStep
    BY <2>4 DEF AssumeTrue, CompleteCall, FinalBegin, FinalStep
  <2>5. CASE (\E S \in SplitSets : TheorySplit(S)) \/ UNCHANGED vars
    BY <2>5 DEF TheorySplit, vars
  <2> QED BY <1>1, <2>1, <2>2, <2>3, <2>4, <2>5 DEF Quiet
<1>2. CASE Ends
  BY <1>2 DEF Ends, Restart, SearchStopped, ZeroLevelConflict, TheoryUnsatZero, Return
<1>3. CASE (\E c \in visit : PropagateVisit(c)) \/ AnalyzeStep \/ Learn \/ Simplify \/ ReduceDB
  BY <1>3 DEF PropagateVisit, AnalyzeStep, Learn, Simplify, ReduceDB
<1>4. CASE (\E t \in TheoryConflict : TheoryUnsat(t)) \/ DeduceNext \/ SplitUnit \/ SplitAttach \/ SplitEnqueue
  BY <1>4 DEF TheoryUnsat, DeduceNext, SplitUnit, SplitAttach, SplitEnqueue
<1>5. CASE \E l \in Lit : Decide(l)
  BY <1>5 DEF Decide
<1>6. ~(\E c \in InputClause : AddOriginalClause(c))
  BY DEF AddOriginalClause
<1> QED
  BY <1>1, <1>2, <1>3, <1>4, <1>5, <1>6, StepCases

\* A step outside a search: the answer is withdrawn, or nothing happens.
LEMMA IdleResult ==
  ASSUME SearchInv, ResultInv, pc = "idle", [Next]_vars
  PROVE  \/ UNCHANGED <<ok, conflict_frame, answer, model, assumptions, decision, given, pc>>
         \/ answer' # "sat" /\ ~(conflict_frame' > 0) /\ (pc' # "idle" => ok')
<1>1. ~SearchStep
  <2>1. visit = {}
    BY DEF SearchInv, PhaseInv
  <2> QED BY <2>1
          DEF SearchStep, PropagateNext, PropagateDone, SearchLoop, SearchStopped, AddConflict, ZeroLevelConflict,
              AnalyzeBegin, AnalyzeStep, Learn, Restart, Simplify, ReduceDB, EarlyPruning, TheoryAssert,
              TheoryUnsatZero, TheoryUnsat, TheorySat, DeduceNext, DeduceDone, SearchSat,
              TheorySplit, SplitUnit, SplitAttach, SplitEnqueue, SplitDone, AssumeTrue, Decide, CompleteCall,
              FinalBegin, FinalStep, FinalDone
<1>2. ok => ~(conflict_frame > 0)
  BY DEF ResultInv
<1>3. CASE \E c \in InputClause : AddOriginalClause(c)
  <2>1. PICK c \in InputClause : AddOriginalClause(c)
    BY <1>3
  <2>2. ok /\ answer' = "none" /\ conflict_frame' = conflict_frame /\ ok' \in {ok, FALSE}
        /\ (ok' = FALSE => pc' = pc)
    BY <2>1 DEF AddOriginalClause
  <2> QED BY <1>2, <2>2
<1>4. CASE \E as \in Assumption : Solve(as)
  <2>1. answer' # "sat" /\ (ok \/ conflict_frame = 0) /\ conflict_frame' = conflict_frame /\ ok' = ok
        /\ (pc' = pc \/ ok)
    BY <1>4 DEF Solve
  <2>2. ~(conflict_frame' > 0)
    BY <1>2, <2>1
  <2> QED BY <2>1, <2>2
<1>5. CASE RestoreOK
  <2>1. ok' = TRUE /\ conflict_frame' = 0 /\ answer' = "none"
    BY <1>5 DEF RestoreOK
  <2> QED BY <2>1
<1>6. CASE UNCHANGED vars
  BY <1>6 DEF vars, resultVars, callVars, clauseVars
<1> QED
  BY <1>1, <1>3, <1>4, <1>5, <1>6 DEF Next

\* The answers stay right.
LEMMA ResultKeeps ==
  ASSUME SearchInv, FrameInv, DecisionInv, AssumedInv, CompleteInv, WatchInv, GivenInv, BlameInv, ResultInv,
         [Next]_vars
  PROVE  ResultInv'
<1>1. CASE pc = "idle"
  <2>1. CASE UNCHANGED <<ok, conflict_frame, answer, model, assumptions, decision, given, pc>>
    <3>1. GivenModel' = GivenModel
      BY <2>1, GivenFacts
    <3>2. SatCorrect'
      BY <2>1, <3>1 DEF ResultInv, SatCorrect
    <3>3. Few(conflict_frame)' = Few(conflict_frame)
      BY <2>1 DEF Few, Active, assumptions_order
    <3>4. conflict_frame > 0 => \A m \in GivenModel : ~(Few(conflict_frame) \subseteq m)
      BY DEF ResultInv, ConflictFrameCorrect, Few
    <3>5. conflict_frame' > 0 => \A m \in GivenModel' : ~(Few(conflict_frame)' \subseteq m)
      BY <2>1, <3>1, <3>3, <3>4
    <3>6. ConflictFrameCorrect'
      BY <3>5 DEF ConflictFrameCorrect, Few
    <3> QED BY <2>1, <3>2, <3>6 DEF ResultInv
  <2>2. CASE answer' # "sat" /\ ~(conflict_frame' > 0) /\ (pc' # "idle" => ok')
    BY <2>2 DEF ResultInv, SatCorrect, ConflictFrameCorrect
  <2> QED BY <1>1, <2>1, <2>2, IdleResult
<1>2. CASE pc # "idle"
  <2>1. ok /\ ~(conflict_frame > 0) /\ answer # "sat"
    BY <1>2 DEF ResultInv
  <2>2. CASE UNCHANGED <<ok, conflict_frame, answer>>
    BY <2>1, <2>2 DEF ResultInv, SatCorrect, ConflictFrameCorrect
  <2>3. CASE AddConflict \/ (pc' = "idle" /\ answer' # "sat" /\ conflict_frame' = conflict_frame)
    <3>1. pc' = "idle" /\ answer' # "sat" /\ conflict_frame' = conflict_frame
      BY <2>1, <2>3 DEF AddConflict
    <3> QED BY <2>1, <3>1 DEF ResultInv, SatCorrect, ConflictFrameCorrect
  <2>4. CASE SearchSat
    <3>1. /\ pc = "deduce" /\ Len(trail) = Len(stack) /\ after = "complete" /\ Undecided = {}
          /\ answer' = "sat" /\ model' = Range(trail) /\ pc' = "idle" /\ conflict_frame' = conflict_frame
          /\ UNCHANGED <<given, assumptions>>
      BY <2>4 DEF SearchSat, Return, clauseVars, callVars
    <3>2. /\ Range(assumptions) \subseteq Range(trail)
          /\ \E m \in GivenModel : Range(trail) \subseteq m
      BY <3>1, TrailIsModel
    <3>3. GivenModel' = GivenModel
      BY <3>1, GivenFacts
    <3>4. PICK m \in GivenModel' : Range(trail) \subseteq m
      BY <3>2, <3>3
    <3>5. SatCorrect'
      BY <3>1, <3>2, <3>4 DEF SatCorrect
    <3> QED BY <2>1, <3>1, <3>5 DEF ResultInv, ConflictFrameCorrect
  <2>5. CASE FinalDone
    <3>1. /\ pc = "final" /\ seen = {} /\ conflict_frame' = ConflictFrame /\ answer' = "unsat" /\ ok' = FALSE
          /\ pc' = "idle" /\ UNCHANGED <<given, assumptions>>
      BY <2>5 DEF FinalDone, Return, clauseVars, callVars
    <3>2. \A m \in GivenModel : ~(Few(ConflictFrame) \subseteq m)
      BY <3>1, FrameIsEnough
    <3>3. GivenModel' = GivenModel
      BY <3>1, GivenFacts
    <3>4. Few(conflict_frame)' = Few(ConflictFrame)
      BY <3>1 DEF Few, Active, assumptions_order
    <3>5. \A m \in GivenModel' : ~(Few(conflict_frame)' \subseteq m)
      BY <3>2, <3>3, <3>4
    <3>6. ConflictFrameCorrect'
      BY <3>5 DEF ConflictFrameCorrect, Few
    <3> QED BY <3>1, <3>6 DEF ResultInv, SatCorrect
  <2> QED BY <1>2, <2>2, <2>3, <2>4, <2>5, SearchResult
<1> QED
  BY <1>1, <1>2

-----------------------------------------------------------------------------
\* The invariant holds in the beginning ...
LEMMA ExactInit == Init => ExactInv
<1> SUFFICES ASSUME Init PROVE ExactInv
  OBVIOUS
<1>1. /\ given = {} /\ clauses = {} /\ learnts = {} /\ watched = <<>> /\ trail = <<>> /\ trail_lim = <<>>
      /\ level = [v \in Var |-> 0] /\ assumptions = <<>> /\ ok = TRUE /\ conflict_frame = 0 /\ pc = "idle"
      /\ after = "none" /\ splits = <<>> /\ propData = <<>> /\ decision = {} /\ answer = "none"
  BY DEF Init
<1>2. Len(trail) = 0 /\ Len(splits) = 0 /\ Len(propData) = 0 /\ Len(assumptions) = 0 /\ DOMAIN watched = {}
  BY <1>1
<1>3. FrameInv /\ ReasonInv
  BY <1>1, <1>2 DEF FrameInv, ReasonInv
<1>4. DecisionInv
  BY <1>1, <1>2 DEF DecisionInv
<1>5. AssumedInv /\ CompleteInv /\ OrderInv /\ BlameInv
  BY <1>1, <1>2 DEF AssumedInv, CompleteInv, OrderInv, BlameInv
<1>6. ResultInv
  BY <1>1 DEF ResultInv, SatCorrect, ConflictFrameCorrect
<1>7. WatchInv /\ GivenInv
  BY <1>1, <1>2 DEF WatchInv, GivenInv
<1> QED
  BY <1>3, <1>4, <1>5, <1>6, <1>7 DEF ExactInv

\* ... and no step breaks it.
LEMMA ExactKeeps ==
  ASSUME SearchInv, ExactInv, [Next]_vars
  PROVE  ExactInv'
<1>1. SearchInv'
  BY NextKeeps
<1>2. /\ FrameInv /\ ReasonInv /\ DecisionInv /\ AssumedInv /\ CompleteInv /\ OrderInv
      /\ BlameInv /\ ResultInv /\ WatchInv /\ GivenInv
  BY DEF ExactInv
<1>3. FrameInv' /\ ReasonInv'
  BY <1>1, <1>2, FrameKeeps, ReasonKeeps
<1>4. DecisionInv' /\ AssumedInv'
  BY <1>1, <1>2, DecisionKeeps, AssumedKeeps
<1>5. CompleteInv' /\ OrderInv'
  BY <1>1, <1>2, CompleteKeeps, OrderKeeps
<1>6. BlameInv' /\ ResultInv'
  BY <1>1, <1>2, BlameKeeps, ResultKeeps
<1>7. WatchInv' /\ GivenInv'
  BY <1>1, <1>2, WatchInvKeeps, GivenKeeps
<1> QED
  BY <1>3, <1>4, <1>5, <1>6, <1>7 DEF ExactInv

\* The invariant of the search and its exact part hold between any two steps: what the
\* frame variables, the reasons, the levels of the assumptions, the waiting lemmas, the
\* marks of analyzeFinal, the watched literals and the answers say about each other.
THEOREM ExactInvariant == Spec => [](SearchInv /\ ExactInv)
<1>1. Init => SearchInv /\ ExactInv
  BY InitKeeps, ExactInit
<1>2. (SearchInv /\ ExactInv) /\ [Next]_vars => (SearchInv /\ ExactInv)'
  <2> SUFFICES ASSUME SearchInv, ExactInv, [Next]_vars PROVE SearchInv' /\ ExactInv'
    OBVIOUS
  <2> QED BY NextKeeps, ExactKeeps
<1> QED
  BY <1>1, <1>2, PTL DEF Spec

-----------------------------------------------------------------------------
\* What the invariant says about reasons: the clause is attached, with the literal first.
LEMMA ReasonsAreInPlace ==
  ASSUME SearchInv, ReasonInv
  PROVE  ReasonsInPlace
<1> SUFFICES ASSUME NEW i \in 1 .. Len(trail), NEW r, r = reason[var(trail[i])],
                    r \notin {CRef_Undef, CRef_Fake}
             PROVE  /\ r \in DOMAIN watched /\ watched[r][1] = trail[i]
                    /\ \A l \in r \ {trail[i]} : \E j \in 1 .. i - 1 : trail[j] = -l
  BY DEF ReasonsInPlace
<1>1. r \in DOMAIN watched /\ watched[r][1] = trail[i]
  BY DEF ReasonInv
<1>2. Justifies(r, trail, i - 1, trail[i], GivenModel)
  BY DEF SearchInv, TrailInv, TrailHolds, Justified
<1> QED
  BY <1>1, <1>2 DEF Justifies, FalseBefore

\* What it says about levels: they are counted by the limits of the trail.
LEMMA LevelsDoAgree ==
  ASSUME SearchInv
  PROVE  LevelsAgree
<1> SUFFICES ASSUME NEW i \in 1 .. Len(trail)
             PROVE  level[var(trail[i])] = Cardinality({k \in 1 .. decisionLevel : trail_lim[k] < i})
  BY DEF LevelsAgree
<1>0. PICK h \in Nat : h = decisionLevel
  BY TrailLevels
<1>1. PICK lv \in 0 .. h : lv = level[var(trail[i])]
  BY <1>0, TrailLevels
<1>2. \A k \in 1 .. h : k <= lv <=> trail_lim[k] < i
  BY <1>0, <1>1 DEF SearchInv, TrailInv, TrailHolds, TrailFits, Levels, decisionLevel
<1>3. {k \in 1 .. decisionLevel : trail_lim[k] < i} = 1 .. lv
  <2>1. \A k : k \in 1 .. lv <=> (k \in 1 .. h /\ k <= lv)
    OBVIOUS
  <2> QED BY <1>0, <1>2, <2>1
<1>4. Cardinality(1 .. lv) = IF 1 > lv THEN 0 ELSE lv - 1 + 1
  <2>1. 1 \in Int /\ lv \in Int
    OBVIOUS
  <2> QED BY <2>1, FS_Interval
<1>5. Cardinality(1 .. lv) = lv
  BY <1>4
<1> QED
  BY <1>1, <1>3, <1>5

\* What it says about the clause analyze learns: it asserts one literal.
LEMMA LearntDoesAssert ==
  ASSUME SearchInv, DecisionInv
  PROVE  LearntAsserts
<1> SUFFICES ASSUME pc = "learn"
             PROVE  /\ level[var(p)] = decisionLevel
                    /\ \A l \in Minimized : False(l) /\ level[var(l)] \in 1 .. decisionLevel - 1
  BY DEF LearntAsserts
<1>0. PICK h \in Nat : h = decisionLevel
  BY TrailLevels
<1>1. level[var(p)] = decisionLevel
  BY DEF DecisionInv
<1>2. seen \in SUBSET Lit /\ AllFalse(seen) /\ \A l \in seen : level[var(l)] > 0 /\ level[var(l)] < h
  BY <1>0 DEF SearchInv, AnalyzeInv
<1>3. ASSUME NEW l \in Minimized PROVE False(l) /\ level[var(l)] \in 1 .. h - 1
  <2>1. l \in seen
    BY DEF Minimized
  <2>2. False(l)
    BY <1>2, <2>1, TrailLevels, ValueFacts DEF AllFalse
  <2>3. level[var(l)] \in 0 .. h
    BY <1>0, <1>2, <2>1, FalseLevels
  <2> QED BY <1>2, <2>1, <2>2, <2>3
<1> QED
  BY <1>0, <1>1, <1>3

\* What it says about lemmas: none that waits needs a lower level than one handled.
LEMMA SplitsAreInOrder ==
  ASSUME SearchInv, OrderInv
  PROVE  SplitsInOrder
<1> SUFFICES ASSUME pc = "split", splits # <<>>, Implies(Head(splits)), propData # <<>>
             PROVE  SplitLevel(Head(splits)) >= decisionLevel
  BY DEF SplitsInOrder
<1>0. PICK h \in Nat : h = decisionLevel
  BY TrailLevels
<1>1. splits \in Seq(SplitClause) /\ Len(splits) \in Nat
  BY DEF SearchInv, SplitInv
<1>2. 1 \in 1 .. Len(splits) /\ Head(splits) = splits[1]
  BY <1>1
<1>3. CASE h > 0
  BY <1>0, <1>2, <1>3 DEF OrderInv
<1>4. CASE h = 0
  <2>1. PICK s : s = Head(splits)
    OBVIOUS
  <2>2. s \in SplitClause
    BY <1>1, <1>2, <2>1
  <2>3. s \in SUBSET Lit
    BY <2>2, ClauseAssumption
  <2>4. PICK F \in SUBSET Lit : F = {l \in s : False(l)}
    BY <2>3
  <2>5. AllFalse(F)
    BY <2>4, TrailLevels, ValueFacts DEF AllFalse
  <2>6. \A l \in F : level[var(l)] \in 0 .. h
    BY <1>0, <2>5, FalseLevels
  <2>7. MaxLevel(F) \in 0 .. h
    BY <2>6, MaxLevelFacts
  <2>8. SplitLevel(s) = MaxLevel(F)
    BY <2>4 DEF SplitLevel, FalseLevel
  <2> QED BY <1>0, <1>4, <2>1, <2>7, <2>8
<1> QED
  BY <1>3, <1>4

\* What it says about propagation: no clause was overlooked.
LEMMA PropagationIsComplete ==
  ASSUME SearchInv, ResultInv, WatchInv
  PROVE  PropagationComplete
<1> SUFFICES ASSUME pc = "consistent", NEW c \in DOMAIN watched, ~Satisfied(c)
             PROVE  Cardinality(Unknown(c)) > (IF c \in SplitClause THEN 0 ELSE 1)
  BY DEF PropagationComplete
<1>1. Open /\ visit = {} /\ qhead = Len(trail)
  BY DEF ResultInv, Open, SearchInv, PhaseInv, QueueInv
<1>2. PICK u, w : u = watched[c][1] /\ w = watched[c][2]
  OBVIOUS
<1>3. /\ u \in c /\ w \in c /\ u # w
      /\ Unassigned(u) \/ Unassigned(w)
      /\ c \in SplitClause \/ (Unassigned(u) /\ Unassigned(w))
  BY <1>1, <1>2, WatchedAtEnd
<1>4. c \in SUBSET Lit
  BY WatchedFacts
<1>5. PICK U \in SUBSET Lit : U = Unknown(c)
  BY <1>4 DEF Unknown
<1>6. IsFiniteSet(U) /\ U # {} /\ (c \in SplitClause \/ (u \in U /\ w \in U))
  BY <1>3, <1>5, LitFinite DEF Unknown
<1>7. Cardinality(U) \in Nat /\ Cardinality(U) # 0
  BY <1>6, FS_EmptySet, FS_CardinalityType
<1>8. c \in SplitClause \/ Cardinality(U) # 1
  <2> SUFFICES ASSUME c \notin SplitClause, Cardinality(U) = 1 PROVE FALSE
    OBVIOUS
  <2>1. PICK x \in U : U = {x}
    BY OneElement
  <2> QED BY <1>3, <1>6, <2>1
<1> QED
  BY <1>5, <1>7, <1>8
=============================================================================
