----------------------------- MODULE MainSolver -----------------------------
(***************************************************************************)
(* The incremental interface of OpenSMT (api/MainSolver) together with the *)
(* part of the Cnfizer that guards the clauses of a frame by its frame     *)
(* variable.  The search itself is reduced to what check() relies on: the  *)
(* verdict, the `ok' flag and the conflict frame.                          *)
(*                                                                         *)
(* A formula is the set of interpretations that satisfy it.  A frame with  *)
(* id k > 0 owns a frame variable f_k; its clauses carry f_k, are enabled  *)
(* by the assumption ~f_k, and are disabled by f_k once the frame is gone. *)
(* Frame ids are never reused.                                             *)
(*                                                                         *)
(* The build checks its assertions: a failed one ends the run ("aborted"). *)
(***************************************************************************)
EXTENDS Integers, Sequences, FiniteSets

CONSTANTS
  Interp,        \* interpretations
  Formula,       \* formulas the user may assert
  ProduceInter,  \* config.produce_inter(): partitions are kept separate
  CanOverflow,   \* the theory solver uses SafeInt (QF_IDL) and may throw
  MaxFrames,     \* bound on the height of the stack
  MaxFrameId     \* bound on the number of frames ever allocated

ASSUME InterpAssumption  == Interp # {}
ASSUME FormulaAssumption == Formula \subseteq SUBSET Interp
ASSUME ConfigAssumption  == ProduceInter \in BOOLEAN /\ CanOverflow \in BOOLEAN
ASSUME BoundAssumption   == MaxFrames \in Nat /\ MaxFrameId \in Nat

VARIABLES
  frames,           \* PushFramesWrapper::frames: sequence of PushFrame
  id_counter,       \* PushFrameAllocator::id_counter
  simplified_until, \* frames 1 .. simplified_until have been simplified
  status,           \* MainSolver::status
  answer,           \* what the last check() or simplifyFormulas() returned for
                    \* this stack, "none" once the stack has changed
  pc,               \* which loop of which operation is running
  ok,               \* CoreSMTSolver::ok
  conflict_frame,   \* CoreSMTSolver::conflict_frame
  clauses,          \* <<f, k>>: f is in the solver, guarded by frame k
  alreadyAsserted,  \* Cnfizer::alreadyAsserted
  frame_terms,      \* ids that own a frame variable
  stop,             \* CoreSMTSolver::stop
  level0            \* the SAT solver is at decision level 0

stackVars  == <<frames, id_counter, simplified_until>>
solverVars == <<ok, conflict_frame, clauses, alreadyAsserted, frame_terms, level0>>
vars == <<stackVars, status, answer, pc, solverVars, stop>>

True   == Interp
False  == {}
Bottom == 0                                            \* FrameId_bottom

Frame == [id : Nat, formulas : SUBSET SUBSET Interp, unsat : BOOLEAN]

-----------------------------------------------------------------------------
Last == frames[Len(frames)]

\* The interpretations that satisfy the assertions of frames 1 .. n.
StackModels(n) ==
  {m \in Interp : \A i \in 1 .. n : \A f \in frames[i].formulas : m \in f}

\* The interpretations that satisfy the clauses cs with the frames E enabled.
ClauseModels(cs, E) ==
  {m \in Interp : \A c \in cs : c[2] \in E \cup {Bottom} => m \in c[1]}

\* The ids of frames 1 .. n.
FrameIds(n) == {frames[i].id : i \in 1 .. n}

\* Mutant of NewFrame: a forgotten flag.
NewFrameUnflagged(unsat) == [id |-> id_counter, formulas |-> {}, unsat |-> FALSE]

\* PushFrameAllocator::alloc
NewFrame(unsat) == [id |-> id_counter, formulas |-> {}, unsat |-> unsat]

\* rememberUnsatFrame: flags every frame from i up to the top of the stack.
RememberUnsatFrame(i) ==
  [j \in 1 .. Len(frames) |-> [frames[j] EXCEPT !.unsat = @ \/ j >= i]]

\* Mutant of SimplifiedAtMost: frames that changed or went still count.
SimplifiedKept(n) == simplified_until

\* Frames above n have to be simplified (again).
SimplifiedAtMost(n) == IF simplified_until > n THEN n ELSE simplified_until

\* Mutant of RestoreOK: pop() leaves the solver as it is.
RestoreNothing(n) == UNCHANGED <<ok, conflict_frame>>

\* restoreOK(), called by pop() unless the new last frame n is known unsatisfiable.
RestoreOK(n) ==
  /\ ok' = (ok \/ ~frames[n].unsat)
  /\ conflict_frame' = IF frames[n].unsat THEN conflict_frame ELSE 0

-----------------------------------------------------------------------------
Init ==
  /\ frames = << [id |-> Bottom, formulas |-> {True}, unsat |-> FALSE] >>
  /\ id_counter = 1
  /\ simplified_until = 0
  /\ status = "undef" /\ answer = "none" /\ pc = "idle"
  /\ ok = TRUE /\ conflict_frame = 0
  /\ clauses = {} /\ alreadyAsserted = {} /\ frame_terms = {}
  /\ stop = FALSE /\ level0 = TRUE

Push ==
  /\ pc = "idle"
  /\ Len(frames) < MaxFrames /\ id_counter <= MaxFrameId
  /\ frames' = Append(frames, NewFrame(Last.unsat))
  /\ id_counter' = id_counter + 1
  /\ answer' = "none"
  /\ UNCHANGED <<simplified_until, status, pc, solverVars, stop>>

Pop ==
  /\ pc = "idle"
  /\ Len(frames) > 1
  /\ LET n == Len(frames) - 1 IN
       /\ frames' = SubSeq(frames, 1, n)
       /\ simplified_until' = SimplifiedAtMost(n)
       /\ RestoreOK(n)
  /\ answer' = "none"
  /\ UNCHANGED <<id_counter, status, pc, clauses, alreadyAsserted, frame_terms,
                 level0, stop>>

InsertFormula(f) ==
  /\ pc = "idle"
  /\ frames' = [frames EXCEPT ![Len(frames)].formulas = @ \cup {f}]
  /\ simplified_until' = SimplifiedAtMost(Len(frames) - 1)
  /\ answer' = "none"
  /\ UNCHANGED <<id_counter, status, pc, solverVars, stop>>

-----------------------------------------------------------------------------
\* check() answers from the flag of the last frame if it can.  Otherwise it
\* starts with initialize(), whose two unit clauses change nothing here but are
\* subject to the assertion of addOriginalClause_: decision level 0.
CheckBegin ==
  /\ pc = "idle"
  /\ IF Last.unsat
     THEN answer' = "unsat" /\ UNCHANGED <<pc, status>>
     ELSE /\ pc' = IF level0 THEN "check" ELSE "aborted"
          /\ status' = IF level0 THEN "undef" ELSE status
          /\ UNCHANGED answer
  /\ UNCHANGED <<stackVars, solverVars, stop>>

\* The simplify command runs simplifyFormulas() alone, whatever the flag says.
SimplifyBegin ==
  /\ pc = "idle"
  /\ pc' = "simplify" /\ status' = "undef"
  /\ UNCHANGED <<stackVars, answer, solverVars, stop>>

Simplifying == pc \in {"check", "simplify"}
MoreToSimplify == simplified_until < Len(frames) /\ status # "false"

\* The top-level conjuncts that may be given to the solver for frame i: with
\* partitions its own assertions, otherwise the assertions of the whole stack up
\* to i, which substitutions and rewriting may fuse into one formula.
Simplified(i) ==
  IF ProduceInter
  THEN {IF frames[i].formulas \subseteq {True} THEN {True}
        ELSE frames[i].formulas \ {True}}
  ELSE {UNION {frames[j].formulas : j \in 1 .. i}, {StackModels(i)}}

\* Mutant of Contains: a formula asserted in any frame counts as asserted.
ContainsAnywhere(f, k) == \E c \in alreadyAsserted : c[1] = f

\* Cnfizer::Cache::contains
Contains(f, k) == <<f, k>> \in alreadyAsserted \/ <<f, Bottom>> \in alreadyAsserted

\* Cnfizer::cnfizeAndGiveToSolver(root, k): the conjuncts not yet asserted become
\* clauses guarded by frame k.  A guarded clause never contradicts the units of
\* level 0, since it still holds its positive frame literal; clauses of the bottom
\* frame may, and then the conjuncts that are left are skipped.
GiveToSolver(root, k) ==
  LET new == {<<f, k>> : f \in {g \in root : ~Contains(g, k)}} IN
  /\ frame_terms' = frame_terms \cup ({k} \ {Bottom})
  /\ \/ /\ ok
        /\ <<False, Bottom>> \notin new
        /\ clauses' = clauses \cup new
        /\ alreadyAsserted' = alreadyAsserted \cup new
        /\ UNCHANGED ok
     \/ /\ ok /\ k = Bottom
        /\ \E given \in SUBSET new :
             /\ ClauseModels(clauses \cup given, {}) = {}
             /\ clauses' = clauses \cup given
             /\ alreadyAsserted' = alreadyAsserted \cup given
        /\ ok' = FALSE
     \/ /\ ~ok
        /\ UNCHANGED <<clauses, alreadyAsserted, ok>>

\* Mutant of SimplifyFrame: setSimplifiedUntil(i) instead of i + 1.
SimplifyFrameAgain ==
  /\ Simplifying /\ MoreToSimplify /\ level0
  /\ LET i == simplified_until + 1 IN
       \E root \in Simplified(i) :
         /\ GiveToSolver(root, frames[i].id)
         /\ status' = IF ~ok' THEN "false" ELSE "undef"
  /\ UNCHANGED <<stackVars, answer, pc, conflict_frame, level0, stop>>

\* One iteration of the loop of simplifyFormulas().  A root that is the term
\* false makes the result s_False whatever the solver says.
SimplifyFrame ==
  /\ Simplifying /\ MoreToSimplify /\ level0
  /\ LET i == simplified_until + 1 IN
       /\ simplified_until' = i
       /\ \E root \in Simplified(i) :
            LET isFalse == ~ProduceInter /\ False \in root IN
              /\ GiveToSolver(IF isFalse THEN {False} ELSE root, frames[i].id)
              /\ status' = IF isFalse \/ ~ok' THEN "false" ELSE "undef"
  /\ UNCHANGED <<frames, id_counter, answer, pc, conflict_frame, level0, stop>>

\* The same iteration trips over the assertion of addOriginalClause_.
SimplifyAborts ==
  /\ Simplifying /\ MoreToSimplify /\ ~level0
  /\ pc' = "aborted"
  /\ UNCHANGED <<stackVars, status, answer, solverVars, stop>>

\* The end of simplifyFormulas(), and check()'s reaction to its result.
SimplifyEnd ==
  /\ Simplifying /\ ~MoreToSimplify
  /\ frames' = IF status = "false" THEN RememberUnsatFrame(simplified_until)
                                   ELSE frames
  /\ pc' = IF pc = "check" /\ status = "undef" THEN "solve" ELSE "idle"
  /\ answer' = IF status = "false" THEN "unsat"
               ELSE IF pc = "simplify" THEN "unknown" ELSE answer
  /\ UNCHANGED <<id_counter, simplified_until, status, solverVars, stop>>

-----------------------------------------------------------------------------
\* Mutant of ActiveAssumptions: frames that are gone stay enabled.
AllAssumptions == frame_terms

\* Cnfizer::solve and setAssumptions: the assumptions ~f_k of the enabled frames.
\* The frame variables of the other frames are assumed true.
ActiveAssumptions == FrameIds(Len(frames)) \cap frame_terms

\* Mutant of AssumptionsOrder: counts the variables of disabled frames too.
AssumptionsIndex(k) == Cardinality({j \in frame_terms : j < k})

\* assumptions_order: the position of frame k among the active assumptions.
AssumptionsOrder(k) == Cardinality({j \in ActiveAssumptions : j < k})

\* The values search() may leave in conflict_frame: the old one if the conflict
\* was met at level 0, otherwise one past the last assumption of the core found
\* by analyzeFinal(), which may be any inconsistent one.
ConflictFrames ==
  {cf \in 0 .. Len(frames) :
     \/ cf = conflict_frame /\ ClauseModels(clauses, {}) = {}
     \/ \E core \in SUBSET ActiveAssumptions :
          /\ ClauseModels(clauses, core) = {}
          /\ \E k \in core : /\ \A j \in core : j <= k
                             /\ cf = AssumptionsOrder(k) + 1}

\* MainSolver::solve() up to the search: a solver that is not ok answers at once,
\* and so does one that was told to stop before the search began.
SolveBegin ==
  /\ pc = "solve"
  /\ IF ok /\ ~stop
     THEN pc' = "search" /\ UNCHANGED <<frames, answer>>
     ELSE /\ pc' = "idle"
          /\ answer' = IF ok THEN "unknown" ELSE "unsat"
          /\ frames' = IF ok THEN frames ELSE RememberUnsatFrame(conflict_frame + 1)
  /\ UNCHANGED <<id_counter, simplified_until, status, solverVars, stop>>

\* The search found a model; clearSearch() returns to level 0.
SearchSat ==
  /\ pc = "search"
  /\ ClauseModels(clauses, ActiveAssumptions) # {}
  /\ status' = "true" /\ answer' = "sat" /\ pc' = "idle" /\ level0' = TRUE
  /\ UNCHANGED <<stackVars, ok, conflict_frame, clauses, alreadyAsserted,
                 frame_terms, stop>>

\* The search refuted the assumptions: the solver is not ok any more, and check()
\* flags the frames from the conflict frame up.
SearchUnsat ==
  /\ pc = "search"
  /\ conflict_frame' \in ConflictFrames
  /\ frames' = RememberUnsatFrame(conflict_frame' + 1)
  /\ ok' = FALSE
  /\ status' = "false" /\ answer' = "unsat" /\ pc' = "idle" /\ level0' = TRUE
  /\ UNCHANGED <<id_counter, simplified_until, clauses, alreadyAsserted,
                 frame_terms, stop>>

\* The search gives up because somebody asked it to stop.
SearchStopped ==
  /\ pc = "search" /\ stop
  /\ status' = "undef" /\ answer' = "unknown" /\ pc' = "idle" /\ level0' = TRUE
  /\ UNCHANGED <<stackVars, ok, conflict_frame, clauses, alreadyAsserted,
                 frame_terms, stop>>

\* std::overflow_error escapes from the search: solve() ends before it stores a
\* status and before clearSearch(), at whatever decision level the search was.
SearchOverflow ==
  /\ pc = "search" /\ CanOverflow
  /\ answer' = "error" /\ pc' = "idle" /\ level0' \in BOOLEAN
  /\ UNCHANGED <<stackVars, status, ok, conflict_frame, clauses, alreadyAsserted,
                 frame_terms, stop>>

\* MainSolver::stop(), called by another thread at any moment.  Never reset.
Stop ==
  /\ ~stop
  /\ stop' = TRUE
  /\ UNCHANGED <<stackVars, status, answer, pc, solverVars>>

-----------------------------------------------------------------------------
CheckStep == \/ SimplifyFrame \/ SimplifyAborts \/ SimplifyEnd \/ SolveBegin
             \/ SearchSat \/ SearchUnsat \/ SearchStopped \/ SearchOverflow

Next ==
  \/ Push \/ Pop \/ \E f \in Formula : InsertFormula(f)
  \/ CheckBegin \/ SimplifyBegin \/ CheckStep \/ Stop

Spec == Init /\ [][Next]_vars

\* Whoever called check() or simplifyFormulas() keeps running it.
FairSpec == Spec /\ WF_vars(CheckStep)
-----------------------------------------------------------------------------
TypeOK ==
  /\ frames \in Seq(Frame) /\ Len(frames) > 0
  /\ id_counter \in Nat
  /\ simplified_until \in 0 .. Len(frames)
  /\ status \in {"undef", "true", "false"}
  /\ answer \in {"none", "sat", "unsat", "unknown", "error"}
  /\ pc \in {"idle", "check", "simplify", "solve", "search", "aborted"}
  /\ ok \in BOOLEAN /\ stop \in BOOLEAN /\ level0 \in BOOLEAN
  /\ conflict_frame \in Nat
  /\ clauses \subseteq (SUBSET Interp) \X Nat
  /\ alreadyAsserted \subseteq (SUBSET Interp) \X Nat
  /\ frame_terms \subseteq Nat \ {Bottom}

\* A definite answer of check() is right for the assertions that are on the stack
\* now, however they came there: clauses of popped frames must not leak into it,
\* re-asserted formulas must not be skipped, and an old flag must not outlive it.
AnswerCorrect ==
  /\ answer = "sat" => StackModels(Len(frames)) # {}
  /\ answer = "unsat" => StackModels(Len(frames)) = {}

\* PushFrame::unsat: "the stack of frames with this frame at top is UNSAT".  Every
\* frame above a flagged one is flagged too, which is what check() and pop() rely
\* on when they look only at the last frame.
UnsatFlags ==
  \A i \in 1 .. Len(frames) : frames[i].unsat =>
    /\ StackModels(i) = {}
    /\ \A j \in i .. Len(frames) : frames[j].unsat

\* A solver left not ok by an earlier refutation is never met again by a stack
\* that is not known to be unsatisfiable: pop() restores it in time.
SolverReady ==
  ~ok => \/ Last.unsat
         \/ Simplifying /\ status = "false"

\* The assertion of rememberUnsatFrame(): the conflict frame is on the stack, and
\* while the solver is not ok and idle that very frame is flagged.
ConflictFrameOnStack ==
  /\ conflict_frame < Len(frames)
  /\ ~ok /\ pc = "idle" => frames[conflict_frame + 1].unsat

\* What the solver holds for the simplified part of the stack is that part: with
\* the frame variables of frames 1 .. i enabled, the clauses have the models of the
\* assertions of frames 1 .. i, although most of them were skipped as cached, and
\* others belong to frames that are gone.
GivenFrames ==
  \A i \in 1 .. simplified_until :
    \/ frames[i].unsat
    \/ i = simplified_until /\ Simplifying /\ status = "false"
    \/ ClauseModels(clauses, FrameIds(i)) = StackModels(i)

\* simplifyFormulas() and check() come to an end, provided the search does.
CheckTerminates == pc # "idle" ~> pc \in {"idle", "aborted"}

-----------------------------------------------------------------------------
\* The promise of the incremental interface, and how it is kept: the assertion
\* levels are the formulas of the frames.
A == INSTANCE AssertionStack WITH
       stack <- [i \in 1 .. Len(frames) |-> frames[i].formulas]

\* MainSolver implements the assertion stack.
ImplementsAssertionStack == A!Spec

-----------------------------------------------------------------------------
=============================================================================
