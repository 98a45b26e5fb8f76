-------------------------- MODULE MainSolverProofs --------------------------
(***************************************************************************)
(* Proofs about MainSolver for every set of interpretations and formulas,  *)
(* any height of the stack and any number of frames.                       *)
(***************************************************************************)
EXTENDS MainSolver, FiniteSetTheorems, SequenceTheorems, TLAPS

\* Frame ids are allocated in increasing order and never reused, so a clause is
\* guarded by at most one frame of the stack, now and later.
FreshIds ==
  /\ frames[1].id = Bottom
  /\ \A i, j \in 1 .. Len(frames) : i < j => frames[i].id < frames[j].id
  /\ \A i \in 1 .. Len(frames) : frames[i].id < id_counter
  /\ \A c \in clauses : c[2] < id_counter

\* What is cached as asserted is in the solver.
Cached == alreadyAsserted \subseteq clauses

\* A simplified frame owns a frame variable.
Enabled == \A i \in 2 .. simplified_until : frames[i].id \in frame_terms

\* A clause guarded by a frame follows from the stack up to that frame.
ClausesImplied ==
  \A c \in clauses : \A i \in 1 .. Len(frames) :
    c[2] = frames[i].id => StackModels(i) \subseteq c[1]

\* Where the operation in progress stands.
Progress ==
  /\ pc = "check" => ~Last.unsat
  /\ pc \in {"solve", "search"} =>
       /\ simplified_until = Len(frames)
       /\ ok /\ ~Last.unsat
  /\ Simplifying /\ status = "false" =>
       /\ simplified_until > 0
       /\ StackModels(simplified_until) = {}

\* The flag that belongs to a solver that is not ok.
NotOk ==
  /\ ok => conflict_frame = 0
  /\ ~ok =>
       \/ Last.unsat /\ (simplified_until < Len(frames) => frames[simplified_until + 1].unsat)
       \/ Simplifying /\ status = "false"

IInv ==
  /\ TypeOK
  /\ FreshIds
  /\ Cached
  /\ Enabled
  /\ ClausesImplied
  /\ GivenFrames
  /\ UnsatFlags
  /\ Progress
  /\ NotOk
  /\ AnswerCorrect

USE DEF Bottom, True, False

-----------------------------------------------------------------------------
\* A higher stack has fewer models.
LEMMA StackModelsMonotone ==
  ASSUME NEW i \in Nat, NEW j \in Nat, i <= j
  PROVE  /\ StackModels(j) \subseteq StackModels(i)
         /\ StackModels(j)' \subseteq StackModels(i)'
BY DEF StackModels

\* A function on 1 .. n is a sequence of length n.
LEMMA FunctionIsSeq ==
  ASSUME NEW S, NEW n \in Nat, NEW s \in [1 .. n -> S]
  PROVE  s \in Seq(S) /\ Len(s) = n
<1>1. s \in Seq(S)
  BY SeqDef, Zenon
<1>2. DOMAIN s = 1 .. Len(s) /\ DOMAIN s = 1 .. n /\ Len(s) \in Nat
  BY <1>1, LenProperties
<1> QED
  BY <1>1, <1>2

\* Flagging frames changes neither ids nor formulas.
LEMMA RememberUnsatFrameShape ==
  ASSUME TypeOK, NEW i \in Nat, NEW fr, fr = RememberUnsatFrame(i)
  PROVE  /\ fr \in Seq(Frame) /\ Len(fr) = Len(frames)
         /\ \A j \in 1 .. Len(frames) :
              /\ fr[j].id = frames[j].id
              /\ fr[j].formulas = frames[j].formulas
              /\ fr[j].unsat <=> (frames[j].unsat \/ j >= i)
<1>1. ASSUME NEW j \in 1 .. Len(frames)
      PROVE  /\ fr[j] = [frames[j] EXCEPT !.unsat = frames[j].unsat \/ j >= i]
             /\ frames[j] \in Frame
             /\ fr[j] \in Frame
             /\ fr[j].id = frames[j].id
             /\ fr[j].formulas = frames[j].formulas
             /\ fr[j].unsat <=> (frames[j].unsat \/ j >= i)
  <2>1. fr[j] = [frames[j] EXCEPT !.unsat = frames[j].unsat \/ j >= i]
    BY DEF RememberUnsatFrame
  <2>2. frames[j] \in Frame
    BY DEF TypeOK
  <2>3. (frames[j].unsat \/ j >= i) \in BOOLEAN
    OBVIOUS
  <2>4. \A b \in BOOLEAN : LET g == [frames[j] EXCEPT !.unsat = b] IN
          g \in Frame /\ g.id = frames[j].id /\ g.formulas = frames[j].formulas
          /\ g.unsat = b
    BY <2>2 DEF Frame
  <2> QED
    <3>1. PICK b \in BOOLEAN : b = (frames[j].unsat \/ j >= i)
      BY <2>3, Zenon
    <3>2. fr[j] = [frames[j] EXCEPT !.unsat = b]
      BY <2>1, <3>1, Zenon
    <3>3. b <=> (frames[j].unsat \/ j >= i)
      BY <3>1, Zenon
    <3> QED
      BY <2>1, <2>2, <2>4, <3>2, <3>3
<1>2. fr = [j \in 1 .. Len(frames) |-> fr[j]]
  BY Zenon DEF RememberUnsatFrame
<1>3. fr \in Seq(Frame) /\ Len(fr) = Len(frames)
  <2>1. Len(frames) \in Nat
    BY DEF TypeOK
  <2>2. fr \in [1 .. Len(frames) -> Frame]
    BY <1>1, <1>2, Zenon
  <2> QED
    BY <2>1, <2>2, FunctionIsSeq
<1> QED
  BY <1>1, <1>3

-----------------------------------------------------------------------------
\* The initial state satisfies the invariant.
LEMMA InitIInv == Init => IInv
<1> SUFFICES ASSUME Init PROVE IInv
  OBVIOUS
<1>0. /\ Len(frames) = 1
      /\ frames[1] = [id |-> 0, formulas |-> {Interp}, unsat |-> FALSE]
      /\ frames \in Seq(Frame)
  <2> DEFINE f == [id |-> 0, formulas |-> {Interp}, unsat |-> FALSE]
  <2>1. f \in Frame
    BY DEF Frame
  <2> HIDE DEF f
  <2>2. frames = <<f>>
    BY DEF Init, f
  <2> QED
    BY <2>1, <2>2 DEF f
<1>1. TypeOK
  <2>1. ok \in BOOLEAN /\ stop \in BOOLEAN /\ level0 \in BOOLEAN
    BY Zenon DEF Init
  <2> QED
    BY <1>0, <2>1 DEF Init, TypeOK
<1>2. FreshIds /\ Cached /\ Enabled /\ ClausesImplied /\ GivenFrames
  BY <1>0 DEF Init, FreshIds, Cached, Enabled, ClausesImplied, GivenFrames
<1>3. UnsatFlags /\ Progress /\ NotOk /\ AnswerCorrect
  BY <1>0 DEF Init, UnsatFlags, Progress, NotOk, AnswerCorrect, Last, Simplifying
<1> QED
  BY <1>1, <1>2, <1>3 DEF IInv

-----------------------------------------------------------------------------
\* What the type invariant says of one frame.
LEMMA FrameType ==
  ASSUME TypeOK
  PROVE  /\ Len(frames) \in Nat \ {0}
         /\ \A i \in 1 .. Len(frames) :
              /\ frames[i] \in Frame
              /\ frames[i].id \in Nat
              /\ frames[i].formulas \in SUBSET SUBSET Interp
              /\ frames[i].unsat \in BOOLEAN
<1>1. Len(frames) \in Nat \ {0} /\ \A i \in 1 .. Len(frames) : frames[i] \in Frame
  BY DEF TypeOK
<1>2. \A f \in Frame : /\ f.id \in Nat
                       /\ f.formulas \in SUBSET SUBSET Interp
                       /\ f.unsat \in BOOLEAN
  BY Zenon DEF Frame
<1> QED
  BY <1>1, <1>2, Zenon

\* A step that keeps the ids and formulas of the first k frames keeps what is said
\* about them.
LEMMA PrefixKept ==
  ASSUME NEW k \in Nat,
         \A j \in 1 .. k : /\ frames'[j].formulas = frames[j].formulas
                           /\ frames'[j].id = frames[j].id
  PROVE  \A n \in 0 .. k : /\ StackModels(n)' = StackModels(n)
                           /\ FrameIds(n)' = FrameIds(n)
<1> SUFFICES ASSUME NEW n \in 0 .. k
             PROVE  StackModels(n)' = StackModels(n) /\ FrameIds(n)' = FrameIds(n)
  OBVIOUS
<1>1. \A j \in 1 .. n : j \in 1 .. k
  OBVIOUS
<1>2. StackModels(n)' = StackModels(n)
  BY <1>1, Zenon DEF StackModels
<1>3. FrameIds(n)' = FrameIds(n)
  BY <1>1, Zenon DEF FrameIds
<1> QED
  BY <1>2, <1>3

\* push() preserves the invariant.
LEMMA PushIInv == IInv /\ Push => IInv'
<1> SUFFICES ASSUME IInv, Push PROVE IInv'
  OBVIOUS
<1> USE DEF IInv
<1>2. PICK n \in Nat \ {0} : n = Len(frames)
  BY FrameType
<1>1. /\ frames' \in Seq(Frame) /\ Len(frames') = n + 1
      /\ \A j \in 1 .. n : frames'[j] = frames[j]
      /\ frames'[n + 1] = [id |-> id_counter, formulas |-> {}, unsat |-> Last.unsat]
  <2> DEFINE f == [id |-> id_counter, formulas |-> {}, unsat |-> Last.unsat]
  <2>1. f \in Frame
    BY FrameType DEF Frame, Last, TypeOK
  <2>2. frames' = Append(frames, f)
    BY DEF Push, NewFrame
  <2> HIDE DEF f
  <2>3. frames \in Seq(Frame)
    BY DEF TypeOK
  <2>4. /\ frames' \in Seq(Frame) /\ Len(frames') = n + 1
        /\ \A j \in 1 .. n : frames'[j] = frames[j]
        /\ frames'[n + 1] = f
    BY <1>2, <2>1, <2>2, <2>3
  <2> QED
    BY <2>4 DEF f
<1>3. \A i \in 0 .. n : StackModels(i)' = StackModels(i) /\ FrameIds(i)' = FrameIds(i)
  BY <1>1, <1>2, PrefixKept
<1>4. StackModels(n + 1)' \subseteq StackModels(n)
  <2>1. StackModels(n + 1)' \subseteq StackModels(n)'
    BY <1>2, StackModelsMonotone
  <2> QED
    BY <1>2, <1>3, <2>1
<1>5. TypeOK'
  BY <1>1, <1>2 DEF TypeOK, Push, solverVars
<1>6. FreshIds'
  BY <1>1, <1>2, FrameType DEF FreshIds, Push, solverVars, TypeOK
<1>7. Cached' /\ Enabled'
  BY <1>1, <1>2 DEF Cached, Enabled, Push, solverVars, TypeOK
<1>8. ClausesImplied'
  <2> SUFFICES ASSUME NEW c \in clauses, NEW i \in 1 .. n + 1, c[2] = frames'[i].id
               PROVE  StackModels(i)' \subseteq c[1]
    BY <1>1 DEF ClausesImplied, Push, solverVars
  <2>1. i # n + 1
    BY <1>1, <1>2 DEF FreshIds, TypeOK
  <2> QED
    BY <2>1, <1>1, <1>2, <1>3 DEF ClausesImplied
<1>9. GivenFrames'
  BY <1>1, <1>2, <1>3 DEF GivenFrames, Push, solverVars, TypeOK, Simplifying
<1>10. UnsatFlags'
  <2> SUFFICES ASSUME NEW i \in 1 .. n + 1, frames'[i].unsat
               PROVE  /\ StackModels(i)' = {}
                      /\ \A j \in i .. n + 1 : frames'[j].unsat
    BY <1>1 DEF UnsatFlags
  <2>1. CASE i = n + 1
    <3>1. Last.unsat
      BY <1>1, <2>1
    <3>2. StackModels(n) = {}
      BY <1>2, <3>1 DEF UnsatFlags, Last
    <3>3. \A j \in i .. n + 1 : j = n + 1
      BY <1>2, <2>1
    <3> QED
      BY <1>4, <2>1, <3>2, <3>3
  <2>2. CASE i # n + 1
    <3>1. i \in 1 .. n /\ frames[i].unsat
      BY <1>1, <1>2, <2>2
    <3>2. StackModels(i) = {} /\ \A j \in i .. n : frames[j].unsat
      BY <1>2, <3>1 DEF UnsatFlags
    <3>3. Last.unsat
      BY <1>2, <3>1, <3>2 DEF Last
    <3> QED
      BY <1>1, <1>2, <1>3, <3>1, <3>2, <3>3
  <2> QED
    BY <2>1, <2>2
<1>11. Progress'
  BY DEF Progress, Push, Simplifying
<1>12. NotOk'
  BY <1>1, <1>2 DEF NotOk, Push, Simplifying, solverVars, Last, TypeOK
<1>13. AnswerCorrect'
  BY DEF AnswerCorrect, Push
<1> QED
  BY <1>5, <1>6, <1>7, <1>8, <1>9, <1>10, <1>11, <1>12, <1>13

\* pop() preserves the invariant: whatever was known about the lower frames still
\* holds, and the solver is ok again unless the new last frame is flagged.
LEMMA PopIInv == IInv /\ Pop => IInv'
<1> SUFFICES ASSUME IInv, Pop PROVE IInv'
  OBVIOUS
<1> USE DEF IInv
<1>1. PICK n \in Nat \ {0} : n = Len(frames) - 1
  BY FrameType DEF Pop
<1>2. /\ frames' \in Seq(Frame) /\ Len(frames') = n
      /\ \A j \in 1 .. n : frames'[j] = frames[j]
  BY <1>1, FrameType, SubSeqProperties DEF Pop
<1>3. \A i \in 0 .. n : StackModels(i)' = StackModels(i) /\ FrameIds(i)' = FrameIds(i)
  BY <1>1, <1>2, PrefixKept
<1>4. simplified_until' = IF simplified_until > n THEN n ELSE simplified_until
  BY <1>1 DEF Pop, SimplifiedAtMost
<1>5. /\ ok' \in BOOLEAN /\ conflict_frame' \in Nat
      /\ ok' => conflict_frame' = 0
      /\ ~ok' => ~ok /\ frames[n].unsat
  <2>1. ok' = (ok \/ ~frames[n].unsat)
    BY <1>1 DEF Pop, RestoreOK
  <2>2. ok' <=> (ok \/ ~frames[n].unsat)
    BY <2>1, Zenon
  <2>3. conflict_frame' = IF frames[n].unsat THEN conflict_frame ELSE 0
    BY <1>1 DEF Pop, RestoreOK
  <2>4. ok' \in BOOLEAN
    BY <2>1, Zenon
  <2> QED
    BY <2>2, <2>3, <2>4 DEF TypeOK, NotOk
<1>6. TypeOK'
  BY <1>1, <1>2, <1>4, <1>5 DEF TypeOK, Pop
<1>7. FreshIds' /\ Cached' /\ Enabled'
  <2>1. FreshIds'
    <3>1. id_counter' = id_counter /\ clauses' = clauses
      BY DEF Pop
    <3>2. frames'[1].id = 0
      BY <1>2 DEF FreshIds
    <3>3. \A i, j \in 1 .. n : i < j => frames'[i].id < frames'[j].id
      BY <1>1, <1>2 DEF FreshIds
    <3>4. \A i \in 1 .. n : frames'[i].id < id_counter
      BY <1>1, <1>2 DEF FreshIds
    <3> QED
      BY <1>2, <3>1, <3>2, <3>3, <3>4 DEF FreshIds
  <2>2. Cached'
    BY DEF Cached, Pop
  <2>3. Enabled'
    BY <1>1, <1>2, <1>4 DEF Enabled, Pop, TypeOK
  <2> QED
    BY <2>1, <2>2, <2>3
<1>8. ClausesImplied'
  BY <1>1, <1>2, <1>3 DEF ClausesImplied, Pop
<1>9. GivenFrames'
  BY <1>1, <1>2, <1>3, <1>4 DEF GivenFrames, Pop, TypeOK, Simplifying
<1>10. UnsatFlags'
  BY <1>1, <1>2, <1>3 DEF UnsatFlags
<1>11. Progress' /\ AnswerCorrect'
  BY DEF Progress, AnswerCorrect, Pop, Simplifying
<1>12. NotOk'
  <2>1. Last' = frames[n]
    BY <1>1, <1>2 DEF Last
  <2>2. ASSUME ~ok', simplified_until' < n
        PROVE  frames'[simplified_until' + 1].unsat
    <3>1. simplified_until' = simplified_until /\ ~ok
      BY <1>4, <1>5, <2>2
    <3>2. frames[simplified_until + 1].unsat
      BY <1>1, <2>2, <3>1 DEF NotOk, Pop, Simplifying, TypeOK
    <3> QED
      BY <1>1, <1>2, <2>2, <3>1, <3>2 DEF TypeOK
  <2> QED
    BY <1>2, <1>5, <2>1, <2>2 DEF NotOk
<1> QED
  BY <1>6, <1>7, <1>8, <1>9, <1>10, <1>11, <1>12

\* insertFormula() preserves the invariant: only the last frame changes, and it has
\* to be simplified again.
LEMMA InsertFormulaIInv ==
  ASSUME IInv, NEW f \in Formula, InsertFormula(f) PROVE IInv'
<1> USE DEF IInv
<1>1. PICK n \in Nat \ {0} : n = Len(frames)
  BY FrameType
<1>2. PICK g : g = [frames[n] EXCEPT !.formulas = @ \cup {f}]
  OBVIOUS
<1>3. /\ g \in Frame /\ g.id = frames[n].id /\ g.unsat = frames[n].unsat
      /\ frames[n].formulas \subseteq g.formulas
  <2>1. frames[n] \in Frame /\ frames[n].formulas \cup {f} \in SUBSET SUBSET Interp
    BY <1>1, FrameType, FormulaAssumption
  <2>2. \A F \in SUBSET SUBSET Interp :
          LET h == [frames[n] EXCEPT !.formulas = F] IN
          h \in Frame /\ h.id = frames[n].id /\ h.unsat = frames[n].unsat
          /\ h.formulas = F
    BY <2>1, Zenon DEF Frame
  <2> QED
    BY <1>2, <2>1, <2>2
<1>4. /\ frames' \in Seq(Frame) /\ Len(frames') = n
      /\ \A j \in 1 .. n : frames'[j] = IF j = n THEN g ELSE frames[j]
  <2>1. frames' = [frames EXCEPT ![n] = g]
    BY <1>1, <1>2 DEF InsertFormula
  <2>2. frames \in Seq(Frame)
    BY DEF TypeOK
  <2> QED
    BY <1>1, <1>3, <2>1, <2>2, ExceptSeq
<1>5. \A i \in 0 .. n - 1 : StackModels(i)' = StackModels(i) /\ FrameIds(i)' = FrameIds(i)
  <2>1. /\ n - 1 \in Nat
        /\ \A j \in 1 .. n - 1 : frames'[j] = frames[j]
    BY <1>1, <1>4
  <2> QED
    BY <2>1, PrefixKept
<1>6. StackModels(n)' \subseteq StackModels(n)
  <2>1. \A i \in 1 .. n : frames[i].formulas \subseteq frames'[i].formulas
    BY <1>1, <1>3, <1>4
  <2> QED
    BY <2>1 DEF StackModels
<1>7. simplified_until' = IF simplified_until > n - 1 THEN n - 1 ELSE simplified_until
  BY <1>1 DEF InsertFormula, SimplifiedAtMost
<1>8. TypeOK'
  BY <1>1, <1>4, <1>7 DEF TypeOK, InsertFormula, solverVars
<1>9. FreshIds' /\ Cached' /\ Enabled'
  BY <1>1, <1>3, <1>4, <1>7
     DEF FreshIds, Cached, Enabled, InsertFormula, solverVars, TypeOK
<1>10. ClausesImplied'
  BY <1>1, <1>3, <1>4, <1>5, <1>6 DEF ClausesImplied, InsertFormula, solverVars
<1>11. GivenFrames'
  BY <1>1, <1>4, <1>5, <1>7
     DEF GivenFrames, InsertFormula, solverVars, TypeOK, Simplifying
<1>12. UnsatFlags'
  BY <1>1, <1>3, <1>4, <1>5, <1>6 DEF UnsatFlags
<1>13. Progress' /\ AnswerCorrect'
  BY DEF Progress, AnswerCorrect, InsertFormula, Simplifying
<1>14. NotOk'
  BY <1>1, <1>3, <1>4, <1>7 DEF NotOk, InsertFormula, Simplifying, solverVars, Last, TypeOK
<1> QED
  BY <1>8, <1>9, <1>10, <1>11, <1>12, <1>13, <1>14

-----------------------------------------------------------------------------
\* A step that leaves the stack and what the solver holds alone preserves the
\* invariant if it gets its own bookkeeping right.
LEMMA StackUntouched ==
  ASSUME IInv,
         UNCHANGED <<frames, id_counter, simplified_until, ok, conflict_frame,
                     clauses, alreadyAsserted, frame_terms>>,
         TypeOK', Progress', AnswerCorrect',
         Simplifying /\ status = "false" => (Simplifying /\ status = "false")'
  PROVE  IInv'
<1> USE DEF IInv
<1>1. FreshIds' /\ Cached' /\ Enabled' /\ ClausesImplied' /\ UnsatFlags'
  BY DEF FreshIds, Cached, Enabled, ClausesImplied, UnsatFlags, StackModels
<1>2. GivenFrames'
  BY DEF GivenFrames, StackModels, FrameIds
<1>3. NotOk'
  BY DEF NotOk, Last
<1> QED
  BY <1>1, <1>2, <1>3

\* When the search runs, all frames have been given to the solver, so that it
\* decides the assertions on the stack.
LEMMA SearchModels ==
  ASSUME IInv, pc = "search"
  PROVE  /\ ActiveAssumptions = FrameIds(Len(frames)) \ {Bottom}
         /\ \A i \in 1 .. Len(frames) :
              ClauseModels(clauses, FrameIds(i)) = StackModels(i)
         /\ ClauseModels(clauses, ActiveAssumptions) = StackModels(Len(frames))
<1> USE DEF IInv
<1>1. PICK n \in Nat \ {0} : n = Len(frames)
  BY FrameType
<1>2. simplified_until = n /\ ~frames[n].unsat
  BY <1>1 DEF Progress, Last
<1>3. \A i \in 1 .. n : ~frames[i].unsat
  BY <1>1, <1>2 DEF UnsatFlags
<1>4. \A i \in 1 .. n : ClauseModels(clauses, FrameIds(i)) = StackModels(i)
  BY <1>1, <1>2, <1>3 DEF GivenFrames, Simplifying
<1>5. ActiveAssumptions = FrameIds(n) \ {Bottom}
  <2>1. frames[1].id = 0 /\ frame_terms \subseteq Nat \ {0}
    BY DEF FreshIds, TypeOK
  <2>2. \A i \in 2 .. n : frames[i].id \in frame_terms
    BY <1>2 DEF Enabled
  <2> QED
    BY <1>1, <2>1, <2>2 DEF ActiveAssumptions, FrameIds
<1>6. ClauseModels(clauses, FrameIds(n) \ {Bottom}) = ClauseModels(clauses, FrameIds(n))
  BY DEF ClauseModels
<1> QED
  BY <1>1, <1>4, <1>5, <1>6

\* The steps of check() and simplifyFormulas() between the loops, and stop().
LEMMA ControlIInv ==
  ASSUME IInv,
         \/ CheckBegin \/ SimplifyBegin \/ SimplifyAborts
         \/ SearchSat \/ SearchStopped \/ SearchOverflow \/ Stop
  PROVE  IInv'
<1> USE DEF IInv
<1>1. CASE CheckBegin
  <2> USE <1>1 DEF CheckBegin, stackVars, solverVars
  <2>1. TypeOK'
    BY DEF TypeOK
  <2>2. Progress'
    BY DEF Progress, Last, Simplifying
  <2>3. AnswerCorrect'
    BY FrameType DEF AnswerCorrect, StackModels, UnsatFlags, Last
  <2> QED
    BY <2>1, <2>2, <2>3, StackUntouched DEF Simplifying
<1>2. CASE SimplifyBegin
  <2> USE <1>2 DEF SimplifyBegin, stackVars, solverVars
  <2>1. TypeOK' /\ Progress' /\ AnswerCorrect'
    BY DEF TypeOK, Progress, Simplifying, AnswerCorrect, StackModels
  <2> QED
    BY <2>1, StackUntouched DEF Simplifying
<1>3. CASE SimplifyAborts
  <2> USE <1>3 DEF SimplifyAborts, stackVars, solverVars
  <2>1. TypeOK' /\ Progress' /\ AnswerCorrect'
    BY DEF TypeOK, Progress, Simplifying, AnswerCorrect, StackModels
  <2> QED
    BY <2>1, StackUntouched DEF MoreToSimplify
<1>4. CASE SearchSat
  <2> USE <1>4 DEF SearchSat, stackVars
  <2>1. TypeOK' /\ Progress'
    BY DEF TypeOK, Progress, Simplifying
  <2>2. AnswerCorrect'
    BY SearchModels DEF AnswerCorrect, StackModels
  <2> QED
    BY <2>1, <2>2, StackUntouched DEF Simplifying
<1>5. CASE SearchStopped \/ SearchOverflow
  <2> USE <1>5 DEF SearchStopped, SearchOverflow, stackVars
  <2>1. TypeOK' /\ Progress' /\ AnswerCorrect'
    BY DEF TypeOK, Progress, Simplifying, AnswerCorrect, StackModels
  <2> QED
    BY <2>1, StackUntouched DEF Simplifying
<1>6. CASE Stop
  <2> USE <1>6 DEF Stop, stackVars, solverVars
  <2>1. stop' \in BOOLEAN
    BY Zenon
  <2>2. TypeOK' /\ Progress' /\ AnswerCorrect'
    BY <2>1 DEF TypeOK, Progress, Simplifying, AnswerCorrect, StackModels, Last
  <2> QED
    BY <2>2, StackUntouched DEF Simplifying
<1> QED
  BY <1>1, <1>2, <1>3, <1>4, <1>5, <1>6

-----------------------------------------------------------------------------
\* Flagging the frames from i up preserves the invariant if frames 1 .. i are
\* unsatisfiable and the step keeps its books: SimplifyEnd, SolveBegin, SearchUnsat.
LEMMA FlagFrames ==
  ASSUME IInv, NEW i \in 1 .. Len(frames),
         frames' = RememberUnsatFrame(i),
         StackModels(i) = {},
         Simplifying /\ status = "false" => i = simplified_until,
         pc' = "idle", answer' \in {"none", "unsat", "unknown"},
         status' \in {"undef", "true", "false"},
         ok' \in BOOLEAN, stop' \in BOOLEAN, level0' \in BOOLEAN,
         conflict_frame' \in Nat, ok' => conflict_frame' = 0,
         ~ok' => simplified_until = Len(frames) \/ i <= simplified_until + 1,
         UNCHANGED <<id_counter, simplified_until, clauses, alreadyAsserted,
                     frame_terms>>
  PROVE  IInv'
<1> USE DEF IInv
<1>1. PICK n \in Nat \ {0} : n = Len(frames)
  BY FrameType
<1>2. /\ frames' \in Seq(Frame) /\ Len(frames') = n
      /\ \A j \in 1 .. n : /\ frames'[j].id = frames[j].id
                           /\ frames'[j].formulas = frames[j].formulas
                           /\ frames'[j].unsat <=> (frames[j].unsat \/ j >= i)
  BY <1>1, RememberUnsatFrameShape
<1>3. \A j \in 0 .. n : StackModels(j)' = StackModels(j) /\ FrameIds(j)' = FrameIds(j)
  BY <1>1, <1>2, PrefixKept
<1>4. \A j \in i .. n : StackModels(j) = {}
  BY <1>1, StackModelsMonotone
<1>5. TypeOK'
  BY <1>1, <1>2 DEF TypeOK
<1>6. FreshIds' /\ Cached' /\ Enabled'
  <2>1. FreshIds' /\ Cached'
    BY <1>1, <1>2 DEF FreshIds, Cached
  <2>2. Enabled'
    BY <1>1, <1>2 DEF Enabled, TypeOK
  <2> QED
    BY <2>1, <2>2
<1>7. ClausesImplied'
  BY <1>1, <1>2, <1>3 DEF ClausesImplied
<1>8. UnsatFlags'
  <2> SUFFICES ASSUME NEW j \in 1 .. n, frames'[j].unsat
               PROVE  StackModels(j)' = {} /\ \A k \in j .. n : frames'[k].unsat
    BY <1>2 DEF UnsatFlags
  <2>1. CASE j >= i
    BY <1>1, <1>2, <1>3, <1>4, <2>1
  <2>2. CASE ~(j >= i)
    BY <1>1, <1>2, <1>3, <2>2 DEF UnsatFlags
  <2> QED
    BY <2>1, <2>2
<1>9. Progress'
  BY DEF Progress, Simplifying
<1>10. Last'.unsat
  BY <1>1, <1>2 DEF Last
<1>11. AnswerCorrect'
  BY <1>1, <1>2, <1>3, <1>4 DEF AnswerCorrect
<1>12. NotOk'
  BY <1>1, <1>2, <1>10 DEF NotOk, TypeOK
<1>13. GivenFrames'
  <2> SUFFICES ASSUME NEW j \in 1 .. simplified_until, ~frames'[j].unsat
               PROVE  (ClauseModels(clauses, FrameIds(j)) = StackModels(j))'
    BY DEF GivenFrames
  <2>1. j \in 1 .. n /\ j < i /\ ~frames[j].unsat
    BY <1>1, <1>2 DEF TypeOK
  <2>2. ~(j = simplified_until /\ Simplifying /\ status = "false")
    BY <2>1 DEF TypeOK
  <2>3. ClauseModels(clauses, FrameIds(j)) = StackModels(j)
    BY <2>1, <2>2 DEF GivenFrames
  <2> QED
    BY <1>3, <2>1, <2>3 DEF ClauseModels
<1> QED
  BY <1>5, <1>6, <1>7, <1>8, <1>9, <1>11, <1>12, <1>13

\* The end of simplifyFormulas().
LEMMA SimplifyEndIInv == IInv /\ SimplifyEnd => IInv'
<1> SUFFICES ASSUME IInv, SimplifyEnd PROVE IInv'
  OBVIOUS
<1> USE DEF IInv, SimplifyEnd
<1>1. CASE status = "false"
  <2>1. simplified_until \in 1 .. Len(frames) /\ StackModels(simplified_until) = {}
    BY <1>1 DEF Progress, TypeOK
  <2>2. frames' = RememberUnsatFrame(simplified_until)
    BY <1>1
  <2>3. ok' = ok /\ conflict_frame' = conflict_frame /\ ok \in BOOLEAN
        /\ stop' = stop /\ level0' = level0 /\ stop \in BOOLEAN /\ level0 \in BOOLEAN
        /\ conflict_frame \in Nat
    BY DEF solverVars, TypeOK
  <2>4. ok => conflict_frame = 0
    BY DEF NotOk
  <2>5. simplified_until <= simplified_until + 1
    BY DEF TypeOK
  <2>6. pc' = "idle" /\ answer' = "unsat" /\ status' = "false"
    BY <1>1
  <2>7. UNCHANGED <<id_counter, simplified_until, clauses, alreadyAsserted, frame_terms>>
    BY DEF solverVars
  <2> QED
    BY <2>1, <2>2, <2>3, <2>4, <2>5, <2>6, <2>7, FlagFrames
<1>2. CASE status # "false"
  <2> USE <1>2 DEF solverVars
  <2>1. TypeOK' /\ AnswerCorrect'
    BY DEF TypeOK, AnswerCorrect, StackModels
  <2>2. Progress'
    BY DEF Progress, Simplifying, MoreToSimplify, NotOk, Last, TypeOK
  <2> QED
    BY <2>1, <2>2, StackUntouched
<1> QED
  BY <1>1, <1>2

\* The start of solve(): the solver is ok, so it is either searched or stopped.
LEMMA SolveBeginIInv == IInv /\ SolveBegin => IInv'
<1> SUFFICES ASSUME IInv, SolveBegin PROVE IInv'
  OBVIOUS
<1> USE DEF IInv, SolveBegin, solverVars
<1>1. ok
  BY DEF Progress
<1>2. TypeOK' /\ AnswerCorrect' /\ Progress'
  BY <1>1 DEF TypeOK, AnswerCorrect, StackModels, Progress, Simplifying, Last
<1> QED
  BY <1>1, <1>2, StackUntouched DEF Simplifying

\* assumptions_order is the distance from the bottom frame: with all frames
\* simplified, the frame at position p > 1 comes after p - 2 active assumptions.
LEMMA AssumptionsOrderIsPosition ==
  ASSUME IInv, pc = "search", NEW p \in 2 .. Len(frames)
  PROVE  AssumptionsOrder(frames[p].id) = p - 2
<1> USE DEF IInv
<1>1. PICK n \in Nat \ {0} : n = Len(frames)
  BY FrameType
<1> DEFINE J == {j \in ActiveAssumptions : j < frames[p].id}
           F == [i \in 2 .. p - 1 |-> frames[i].id]
<1>2. \A i, j \in 1 .. n : i < j => frames[i].id < frames[j].id
  BY <1>1 DEF FreshIds
<1>3. \A i \in 1 .. n : frames[i].id \in Nat
  BY <1>1, FrameType
<1>4. frames[1].id = 0
  BY DEF FreshIds
<1>5. ActiveAssumptions = {frames[i].id : i \in 2 .. n}
  <2>1. ActiveAssumptions = FrameIds(n) \ {0}
    BY <1>1, SearchModels
  <2>2. \A i \in 2 .. n : frames[i].id # 0
    BY <1>1, <1>2, <1>3, <1>4
  <2> QED
    BY <1>1, <1>4, <2>1, <2>2 DEF FrameIds
<1>6. J = {frames[i].id : i \in 2 .. p - 1}
  BY <1>1, <1>2, <1>3, <1>5
<1>7. F \in Bijection(2 .. p - 1, J)
  <2>1. F \in [2 .. p - 1 -> J]
    BY <1>6
  <2>2. \A i, j \in 2 .. p - 1 : F[i] = F[j] => i = j
    BY <1>1, <1>2, <1>3
  <2>3. \A k \in J : \E i \in 2 .. p - 1 : F[i] = k
    BY <1>6
  <2> QED
    BY <2>1, <2>2, <2>3 DEF Bijection, Injection, Surjection, IsInjective
<1>8. IsFiniteSet(2 .. p - 1) /\ Cardinality(2 .. p - 1) = p - 2
  <2>1. 2 \in Int /\ p - 1 \in Int /\ p >= 2 /\ p \in Int
    BY <1>1
  <2>2. /\ IsFiniteSet(2 .. p - 1)
        /\ Cardinality(2 .. p - 1) = IF 2 > p - 1 THEN 0 ELSE (p - 1) - 2 + 1
    BY <2>1, FS_Interval
  <2> QED
    BY <2>1, <2>2
<1>9. Cardinality(J) = p - 2
  <2>1. ExistsBijection(2 .. p - 1, J)
    BY <1>7 DEF ExistsBijection
  <2> QED
    BY <1>8, <2>1, FS_Bijection
<1> QED
  BY <1>9 DEF AssumptionsOrder

\* A refutation: the conflict frame search() reports is on the stack, and the
\* frames up to it are unsatisfiable.
LEMMA ConflictFramesSound ==
  ASSUME IInv, pc = "search", NEW cf \in ConflictFrames
  PROVE  cf + 1 \in 1 .. Len(frames) /\ StackModels(cf + 1) = {}
<1> USE DEF IInv
<1>1. PICK n \in Nat \ {0} : n = Len(frames)
  BY FrameType
<1>2. CASE cf = conflict_frame /\ ClauseModels(clauses, {}) = {}
  <2>1. cf = 0
    BY <1>2 DEF NotOk, Progress
  <2>2. ClauseModels(clauses, FrameIds(1)) = StackModels(1)
    BY <1>1, SearchModels
  <2>3. ClauseModels(clauses, FrameIds(1)) \subseteq ClauseModels(clauses, {})
    BY DEF ClauseModels
  <2> QED
    BY <1>1, <1>2, <2>1, <2>2, <2>3
<1>3. ASSUME NEW core \in SUBSET ActiveAssumptions,
             ClauseModels(clauses, core) = {},
             NEW k \in core, \A j \in core : j <= k,
             cf = AssumptionsOrder(k) + 1
      PROVE  cf + 1 \in 1 .. n /\ StackModels(cf + 1) = {}
  <2>1. core \subseteq FrameIds(n) \ {0}
    BY <1>1, <1>3, SearchModels
  <2>2. PICK p \in 1 .. n : k = frames[p].id
    BY <1>3, <2>1 DEF FrameIds
  <2>3. p \in 2 .. n
    BY <1>1, <1>3, <2>1, <2>2 DEF FreshIds
  <2>4. cf + 1 = p
    BY <1>1, <1>3, <2>2, <2>3, AssumptionsOrderIsPosition
  <2>5. core \subseteq FrameIds(p)
    <3> SUFFICES ASSUME NEW j \in core PROVE j \in FrameIds(p)
      OBVIOUS
    <3>1. PICK q \in 1 .. n : j = frames[q].id
      BY <2>1 DEF FrameIds
    <3>2. j <= k /\ j \in Nat /\ k \in Nat
      BY <1>1, <1>3, <2>2, <3>1, FrameType
    <3>3. q <= p
      BY <1>1, <2>2, <3>1, <3>2 DEF FreshIds
    <3> QED
      BY <1>1, <3>1, <3>3 DEF FrameIds
  <2>6. ClauseModels(clauses, FrameIds(p)) \subseteq ClauseModels(clauses, core)
    BY <2>5 DEF ClauseModels
  <2>7. ClauseModels(clauses, FrameIds(p)) = StackModels(p)
    BY <1>1, SearchModels
  <2> QED
    BY <1>3, <2>2, <2>4, <2>6, <2>7
<1> QED
  BY <1>1, <1>2, <1>3 DEF ConflictFrames

\* check()'s reaction to a refutation preserves the invariant.
LEMMA SearchUnsatIInv == IInv /\ SearchUnsat => IInv'
<1> SUFFICES ASSUME IInv, SearchUnsat PROVE IInv'
  OBVIOUS
<1> USE DEF IInv, SearchUnsat
<1>1. PICK cf \in ConflictFrames : conflict_frame' = cf
  OBVIOUS
<1>2. cf + 1 \in 1 .. Len(frames) /\ StackModels(cf + 1) = {} /\ cf \in Nat
  BY <1>1, ConflictFramesSound DEF ConflictFrames
<1>3. frames' = RememberUnsatFrame(cf + 1)
  BY <1>1
<1>4. ok' \in BOOLEAN /\ stop' \in BOOLEAN /\ level0' \in BOOLEAN
  <2>1. stop \in BOOLEAN
    BY DEF TypeOK
  <2> QED
    BY <2>1, Zenon
<1>5. simplified_until = Len(frames) /\ ~Simplifying
  BY DEF Progress, Simplifying
<1>6. ~ok' /\ pc' = "idle" /\ answer' = "unsat" /\ status' = "false"
  OBVIOUS
<1>7. UNCHANGED <<id_counter, simplified_until, clauses, alreadyAsserted, frame_terms>>
  OBVIOUS
<1> QED
  BY <1>1, <1>2, <1>3, <1>4, <1>5, <1>6, <1>7, FlagFrames

-----------------------------------------------------------------------------
\* What simplification may produce for frame i follows from the stack up to i, and
\* together with the frames below implies the assertions of frame i.
LEMMA SimplifiedEquivalent ==
  ASSUME TypeOK, NEW i \in 1 .. Len(frames), NEW root \in Simplified(i)
  PROVE  /\ root \subseteq SUBSET Interp
         /\ \A f \in root : StackModels(i) \subseteq f
         /\ \A m \in StackModels(i - 1) : (\A f \in root : m \in f) => m \in StackModels(i)
<1>1. PICK n \in Nat \ {0} : n = Len(frames)
  BY FrameType
<1>2. \A j \in 1 .. i : frames[j].formulas \subseteq SUBSET Interp
  BY <1>1, FrameType
<1>3. CASE ProduceInter
  <2>1. root \subseteq frames[i].formulas \cup {Interp}
    BY <1>3 DEF Simplified
  <2>2. \A f \in frames[i].formulas : f \in root \/ f = Interp
    BY <1>3 DEF Simplified
  <2>3. \A m \in StackModels(i - 1) : (\A f \in frames[i].formulas : m \in f)
                                          => m \in StackModels(i)
    BY <1>1 DEF StackModels
  <2>4. StackModels(i - 1) \subseteq Interp /\ StackModels(i) \subseteq Interp
    BY DEF StackModels
  <2>5. \A f \in frames[i].formulas : StackModels(i) \subseteq f
    BY <1>1 DEF StackModels
  <2> QED
    BY <1>2, <2>1, <2>2, <2>3, <2>4, <2>5
<1>4. CASE ~ProduceInter /\ root = {StackModels(i)}
  BY <1>4 DEF StackModels
<1>5. CASE ~ProduceInter /\ root = UNION {frames[j].formulas : j \in 1 .. i}
  <2>1. root \subseteq SUBSET Interp
    BY <1>2, <1>5
  <2>2. \A f \in root : StackModels(i) \subseteq f
    BY <1>5 DEF StackModels
  <2>3. \A m \in Interp : (\A f \in root : m \in f) => m \in StackModels(i)
    BY <1>5 DEF StackModels
  <2>4. StackModels(i - 1) \subseteq Interp
    BY DEF StackModels
  <2> QED
    BY <2>1, <2>2, <2>3, <2>4
<1> QED
  BY <1>3, <1>4, <1>5 DEF Simplified

\* One iteration of simplifyFormulas(): the solver gets to know frame i.
LEMMA SimplifyFrameIInv == IInv /\ SimplifyFrame => IInv'
<1> SUFFICES ASSUME IInv, SimplifyFrame PROVE IInv'
  OBVIOUS
<1> USE DEF IInv
<1>1. PICK n \in Nat \ {0} : n = Len(frames)
  BY FrameType
<1>2. PICK i \in 1 .. n : i = simplified_until + 1
  BY <1>1 DEF SimplifyFrame, MoreToSimplify, TypeOK
<1>3. PICK root \in Simplified(i) : \E r :
        /\ r = IF ~ProduceInter /\ {} \in root THEN {{}} ELSE root
        /\ GiveToSolver(r, frames[i].id)
        /\ status' = IF (~ProduceInter /\ {} \in root) \/ ~ok' THEN "false" ELSE "undef"
  BY <1>2 DEF SimplifyFrame
<1>r. PICK r :
        /\ r = IF ~ProduceInter /\ {} \in root THEN {{}} ELSE root
        /\ GiveToSolver(r, frames[i].id)
        /\ status' = IF (~ProduceInter /\ {} \in root) \/ ~ok' THEN "false" ELSE "undef"
  BY <1>3
<1> DEFINE k == frames[i].id
           new == {<<f, k>> : f \in {g \in r : ~Contains(g, k)}}
<1>4. /\ UNCHANGED <<frames, id_counter, answer, pc, conflict_frame, level0, stop>>
      /\ Simplifying /\ status # "false" /\ simplified_until' = i
  BY <1>2 DEF SimplifyFrame, MoreToSimplify
<1>5. /\ r \subseteq SUBSET Interp
      /\ \A f \in r : StackModels(i) \subseteq f
      /\ \A m \in StackModels(i - 1) : (\A f \in r : m \in f) => m \in StackModels(i)
  <2>1. /\ root \subseteq SUBSET Interp
        /\ \A f \in root : StackModels(i) \subseteq f
        /\ \A m \in StackModels(i - 1) : (\A f \in root : m \in f) => m \in StackModels(i)
    BY <1>1, SimplifiedEquivalent
  <2> QED
    BY <1>r, <2>1
<1>6. /\ k \in Nat /\ k < id_counter
      /\ \A j \in 1 .. n : frames[j].id \in Nat /\ (frames[j].id = k => j = i)
      /\ frames[1].id = 0 /\ (k = 0 => i = 1)
  <2>1. \A j \in 1 .. n : frames[j].id \in Nat
    BY <1>1, FrameType
  <2>2. \A j \in 1 .. n : j # i => frames[j].id # k
    BY <1>1, <2>1 DEF FreshIds
  <2>3. frames[1].id = 0 /\ k < id_counter
    BY <1>1 DEF FreshIds
  <2> QED
    BY <1>1, <2>1, <2>2, <2>3
<1>7. /\ clauses \subseteq clauses' /\ clauses' \subseteq clauses \cup new
      /\ alreadyAsserted' \subseteq clauses'
      /\ frame_terms' = frame_terms \cup ({k} \ {0})
      /\ ok' \in BOOLEAN /\ (ok' => ok)
      /\ ok' => clauses' = clauses \cup new
  <2> USE <1>r DEF GiveToSolver
  <2>1. CASE ok' = ok /\ clauses' = clauses \cup new
             /\ alreadyAsserted' = alreadyAsserted \cup new
    BY <2>1 DEF Cached, TypeOK
  <2>2. CASE ok' = FALSE /\ \E given \in SUBSET new :
               /\ clauses' = clauses \cup given
               /\ alreadyAsserted' = alreadyAsserted \cup given
    <3>1. ok' \in BOOLEAN
      BY <2>2, Zenon
    <3> QED
      BY <2>2, <3>1 DEF Cached
  <2>3. CASE ~ok /\ ok' = ok /\ clauses' = clauses /\ alreadyAsserted' = alreadyAsserted
    BY <2>3 DEF Cached, TypeOK
  <2> QED
    BY <2>1, <2>2, <2>3
<1>8. \A c \in new : c[2] = k /\ c[1] \in r
  OBVIOUS
<1> HIDE DEF new
<1>9. TypeOK'
  <2>1. new \subseteq (SUBSET Interp) \X Nat
    BY <1>5, <1>6 DEF new
  <2> QED
    <3>1. /\ clauses' \subseteq (SUBSET Interp) \X Nat
          /\ alreadyAsserted' \subseteq (SUBSET Interp) \X Nat
      BY <1>7, <2>1 DEF TypeOK
    <3>2. frame_terms' \subseteq Nat \ {0}
      BY <1>6, <1>7 DEF TypeOK
    <3>3. simplified_until' \in 0 .. Len(frames') /\ status' \in {"undef", "false"}
      BY <1>1, <1>r, <1>4
    <3>4. ok' \in BOOLEAN
      BY <1>7
    <3> QED
      BY <1>4, <3>1, <3>2, <3>3, <3>4 DEF TypeOK
<1>10. FreshIds' /\ Cached'
  BY <1>4, <1>6, <1>7, <1>8 DEF FreshIds, Cached
<1>11. Enabled'
  BY <1>2, <1>4, <1>6, <1>7 DEF Enabled, TypeOK
<1>12. StackModels(0)' = StackModels(0)
       /\ \A j \in 0 .. n : StackModels(j)' = StackModels(j) /\ FrameIds(j)' = FrameIds(j)
  BY <1>1, <1>4, PrefixKept
<1>13. ClausesImplied'
  <2> SUFFICES ASSUME NEW c \in clauses', NEW j \in 1 .. n, c[2] = frames[j].id
               PROVE  StackModels(j) \subseteq c[1]
    BY <1>1, <1>4, <1>12 DEF ClausesImplied
  <2>1. CASE c \in clauses
    BY <1>1, <2>1 DEF ClausesImplied
  <2>2. CASE c \in new
    BY <1>5, <1>6, <1>8, <2>2
  <2> QED
    BY <1>7, <2>1, <2>2
<1>14. status' = "false" => StackModels(i) = {}
  <2>1. CASE ~ProduceInter /\ {} \in root
    BY <1>r, <1>5, <2>1
  <2>2. CASE ok /\ ~ok'
    <3>1. k = 0 /\ ClauseModels(clauses', {}) = {}
      BY <1>r, <2>2 DEF GiveToSolver
    <3>2. StackModels(1) \subseteq ClauseModels(clauses', {})
      BY <1>1, <1>4, <1>6, <1>12, <1>13 DEF ClausesImplied, ClauseModels, StackModels
    <3> QED
      BY <1>6, <3>1, <3>2
  <2>3. CASE ~ok
    <3>1. frames[i].unsat
      BY <1>1, <1>2, <1>4, <2>3 DEF NotOk, TypeOK
    <3> QED
      BY <1>1, <3>1 DEF UnsatFlags
  <2>4. ok' => ok
    BY <1>7
  <2>5. CASE ~(~ProduceInter /\ {} \in root) /\ ok'
    BY <1>r, <2>5
  <2> QED
    BY <2>1, <2>2, <2>3, <2>5, Zenon
<1>15. UnsatFlags' /\ AnswerCorrect'
  BY <1>4 DEF UnsatFlags, AnswerCorrect, StackModels
<1>16. Progress'
  BY <1>1, <1>2, <1>4, <1>12, <1>14 DEF Progress, Simplifying, Last
<1>17. NotOk'
  BY <1>r, <1>4, <1>7 DEF NotOk, Simplifying
<1>18. GivenFrames'
  <2>0. SUFFICES ASSUME NEW j \in 1 .. i, ~frames[j].unsat,
                        ~(j = i /\ status' = "false")
                 PROVE  ClauseModels(clauses', FrameIds(j)) = StackModels(j)
    BY <1>1, <1>4, <1>12 DEF GivenFrames, ClauseModels, Simplifying
  <2>1. \A l \in 1 .. i - 1 : ~frames[l].unsat =>
          ClauseModels(clauses, FrameIds(l)) = StackModels(l)
    BY <1>2, <1>4 DEF GivenFrames, TypeOK
  <2>2. CASE j # i
    <3>1. k \notin FrameIds(j) /\ k # 0
      BY <1>1, <1>6, <2>2 DEF FrameIds
    <3>2. ClauseModels(clauses', FrameIds(j)) = ClauseModels(clauses, FrameIds(j))
      BY <1>7, <1>8, <3>1 DEF ClauseModels
    <3> QED
      BY <1>1, <2>0, <2>1, <2>2, <3>2
  <2>3. CASE j = i
    <3>1. ok /\ clauses' = clauses \cup new
      BY <1>r, <1>7, <2>0, <2>3
    <3>2. StackModels(i) \subseteq ClauseModels(clauses', FrameIds(i))
      <4> SUFFICES ASSUME NEW m \in StackModels(i), NEW c \in clauses',
                          c[2] \in FrameIds(i) \cup {0}
                   PROVE  m \in c[1]
        BY DEF ClauseModels, StackModels
      <4>1. PICK l \in 1 .. i : c[2] = frames[l].id
        BY <1>1, <1>6 DEF FrameIds
      <4>2. StackModels(l) \subseteq c[1]
        BY <1>1, <1>4, <1>12, <1>13, <4>1 DEF ClausesImplied
      <4>3. StackModels(i) \subseteq StackModels(l)
        BY <1>1, StackModelsMonotone
      <4> QED
        BY <4>2, <4>3
    <3>3. ClauseModels(clauses', FrameIds(i)) \subseteq StackModels(i)
      <4> SUFFICES ASSUME NEW m \in ClauseModels(clauses', FrameIds(i))
                   PROVE  m \in StackModels(i)
        OBVIOUS
      <4>1. m \in StackModels(i - 1)
        <5>1. CASE i = 1
          BY <5>1 DEF StackModels, ClauseModels
        <5>2. CASE i # 1
          <6>1. i - 1 \in 1 .. n /\ ~frames[i - 1].unsat
            BY <1>1, <2>0, <2>3, <5>2 DEF UnsatFlags
          <6>2. FrameIds(i - 1) \subseteq FrameIds(i)
            BY <1>1 DEF FrameIds
          <6>3. m \in ClauseModels(clauses, FrameIds(i - 1))
            BY <1>7, <6>2 DEF ClauseModels
          <6> QED
            BY <1>1, <2>1, <5>2, <6>1, <6>3
        <5> QED
          BY <5>1, <5>2
      <4>2. ASSUME NEW f \in r PROVE m \in f
        <5>1. <<f, k>> \in clauses' \/ <<f, 0>> \in clauses'
          BY <1>7, <3>1 DEF Contains, Cached, new
        <5>2. k \in FrameIds(i)
          BY <1>1 DEF FrameIds
        <5> QED
          BY <5>1, <5>2 DEF ClauseModels
      <4> QED
        BY <1>5, <4>1, <4>2
    <3>4. ClauseModels(clauses', FrameIds(i)) = StackModels(i)
      BY <3>2, <3>3
    <3> QED
      BY <2>3, <3>4, Zenon
  <2> QED
    BY <2>2, <2>3
<1> QED
  BY <1>9, <1>10, <1>11, <1>13, <1>15, <1>16, <1>17, <1>18

-----------------------------------------------------------------------------
\* Every step preserves the invariant.
LEMMA NextIInv == IInv /\ [Next]_vars => IInv'
<1> SUFFICES ASSUME IInv, [Next]_vars PROVE IInv'
  OBVIOUS
<1>1. CASE Push
  BY <1>1, PushIInv
<1>2. CASE Pop
  BY <1>2, PopIInv
<1>3. CASE \E f \in Formula : InsertFormula(f)
  BY <1>3, InsertFormulaIInv
<1>4. CASE SimplifyFrame
  BY <1>4, SimplifyFrameIInv
<1>5. CASE SimplifyEnd
  BY <1>5, SimplifyEndIInv
<1>6. CASE SolveBegin
  BY <1>6, SolveBeginIInv
<1>7. CASE SearchUnsat
  BY <1>7, SearchUnsatIInv
<1>8. CASE \/ CheckBegin \/ SimplifyBegin \/ SimplifyAborts
           \/ SearchSat \/ SearchStopped \/ SearchOverflow \/ Stop
  BY <1>8, ControlIInv
<1>9. CASE UNCHANGED vars
  <2> USE <1>9 DEF vars, stackVars, solverVars, IInv
  <2>1. TypeOK' /\ Progress' /\ AnswerCorrect'
    BY DEF TypeOK, Progress, AnswerCorrect, StackModels, Simplifying, Last
  <2> QED
    BY <2>1, StackUntouched DEF Simplifying
<1> QED
  BY <1>1, <1>2, <1>3, <1>4, <1>5, <1>6, <1>7, <1>8, <1>9 DEF Next, CheckStep

\* The inductive invariant holds in every reachable state.
THEOREM Invariance == Spec => []IInv
<1>1. Init => IInv
  BY InitIInv
<1>2. IInv /\ [Next]_vars => IInv'
  BY NextIInv
<1> QED
  BY <1>1, <1>2, PTL DEF Spec

\* The state of the incremental interface is well typed.
THEOREM TypeCorrect == Spec => []TypeOK
<1>1. IInv => TypeOK
  BY DEF IInv
<1> QED
  BY <1>1, Invariance, PTL

\* A definite answer of check() is right for the assertions on the stack.
THEOREM AnswersAreCorrect == Spec => []AnswerCorrect
<1>1. IInv => AnswerCorrect
  BY DEF IInv
<1> QED
  BY <1>1, Invariance, PTL

\* The flags that check() and pop() trust are right.
THEOREM UnsatFlagsAreCorrect == Spec => []UnsatFlags
<1>1. IInv => UnsatFlags
  BY DEF IInv
<1> QED
  BY <1>1, Invariance, PTL

\* pop() restores the solver in time.
THEOREM SolverIsReady == Spec => []SolverReady
<1>1. IInv => SolverReady
  BY DEF IInv, NotOk, SolverReady
<1> QED
  BY <1>1, Invariance, PTL

\* What the solver holds for the simplified frames is equivalent to them.
THEOREM FramesAreGiven == Spec => []GivenFrames
<1>1. IInv => GivenFrames
  BY DEF IInv
<1> QED
  BY <1>1, Invariance, PTL

-----------------------------------------------------------------------------
\* Where the conflict frame of a solver that is not ok lies: no frame below it is
\* flagged, and it is itself flagged, or about to be by simplifyFormulas().
ConflictFrameInv ==
  /\ conflict_frame < Len(frames)
  /\ ~ok =>
       /\ \A i \in 1 .. conflict_frame : ~frames[i].unsat
       /\ \/ frames[conflict_frame + 1].unsat
          \/ Simplifying /\ status = "false" /\ simplified_until = 1
  /\ Simplifying /\ status = "false" => conflict_frame < simplified_until

\* push() and pop() keep the conflict frame on the stack: a pop that would take it
\* away ends at a frame that is not flagged, and restores the solver.
LEMMA PushPopConflictFrame ==
  ASSUME IInv, IInv', ConflictFrameInv, Push \/ Pop
  PROVE  ConflictFrameInv'
<1> USE DEF IInv, ConflictFrameInv
<1>1. PICK n \in Nat \ {0} : n = Len(frames)
  BY FrameType
<1>2. pc = "idle" /\ pc' = "idle" /\ ~Simplifying /\ ~Simplifying'
  BY DEF Push, Pop, Simplifying
<1>3. conflict_frame \in Nat
  BY DEF TypeOK
<1>4. CASE Push
  <2>1. Len(frames') = n + 1 /\ \A j \in 1 .. n : frames'[j] = frames[j]
    BY <1>1, <1>4 DEF Push, TypeOK
  <2>2. ok' = ok /\ conflict_frame' = conflict_frame
    BY <1>4 DEF Push, solverVars
  <2> QED
    BY <1>1, <1>2, <1>3, <2>1, <2>2
<1>5. CASE Pop
  <2>1. n - 1 \in Nat \ {0} /\ Len(frames') = n - 1 /\ \A j \in 1 .. n - 1 : frames'[j] = frames[j]
    BY <1>1, <1>5, FrameType, SubSeqProperties DEF Pop, TypeOK
  <2>2. CASE ~frames[n - 1].unsat
    <3>1. ok' = TRUE /\ conflict_frame' = 0
      <4>1. ok' = (ok \/ ~frames[n - 1].unsat) /\ conflict_frame' = 0
        BY <1>1, <1>5, <2>2 DEF Pop, RestoreOK
      <4> QED
        BY <2>2, <4>1, Zenon
    <3> QED
      BY <1>2, <2>1, <3>1
  <2>3. CASE frames[n - 1].unsat
    <3>1. conflict_frame' = conflict_frame /\ (~ok' => ~ok)
      <4>1. ok' = (ok \/ ~frames[n - 1].unsat) /\ conflict_frame' = conflict_frame
        BY <1>1, <1>5, <2>3 DEF Pop, RestoreOK
      <4> QED
        BY <4>1, Zenon
    <3>2. conflict_frame < n - 1
      <4>1. CASE ok
        BY <2>1, <4>1 DEF NotOk
      <4>2. CASE ~ok
        BY <1>1, <1>2, <1>3, <2>1, <2>3, <4>2
      <4> QED
        BY <4>1, <4>2
    <3>3. conflict_frame + 1 \in 1 .. n - 1 /\ \A i \in 1 .. conflict_frame : i \in 1 .. n - 1
      BY <1>1, <1>3, <2>1, <3>2
    <3>4. ~ok' => frames'[conflict_frame + 1].unsat /\ \A i \in 1 .. conflict_frame : ~frames'[i].unsat
      BY <1>2, <2>1, <3>1, <3>3
    <3> QED
      BY <1>2, <2>1, <3>1, <3>2, <3>4
  <2> QED
    BY <2>2, <2>3
<1> QED
  BY <1>4, <1>5

\* insertFormula() changes no flag.
LEMMA InsertFormulaConflictFrame ==
  ASSUME IInv, IInv', ConflictFrameInv, NEW f \in Formula, InsertFormula(f)
  PROVE  ConflictFrameInv'
<1> USE DEF IInv, ConflictFrameInv
<1>1. PICK n \in Nat \ {0} : n = Len(frames)
  BY FrameType
<1>2. Len(frames') = n /\ \A j \in 1 .. n : frames'[j].unsat <=> frames[j].unsat
  <2>1. \A j \in 1 .. n : frames[j] \in Frame
    BY <1>1, FrameType
  <2> QED
    BY <1>1, <2>1 DEF InsertFormula, TypeOK, Frame
<1>3. ~Simplifying /\ ~Simplifying' /\ conflict_frame \in Nat
  BY DEF InsertFormula, Simplifying, TypeOK
<1>4. ok' = ok /\ conflict_frame' = conflict_frame
  BY DEF InsertFormula, solverVars
<1>5. conflict_frame + 1 \in 1 .. n /\ \A i \in 1 .. conflict_frame : i \in 1 .. n
  BY <1>1, <1>3
<1>6. ~ok => frames'[conflict_frame + 1].unsat /\ \A i \in 1 .. conflict_frame : ~frames'[i].unsat
  BY <1>2, <1>3, <1>5
<1> QED
  BY <1>1, <1>2, <1>3, <1>4, <1>6

\* One iteration of simplifyFormulas(): the solver can only stop being ok at the
\* bottom frame.
LEMMA SimplifyFrameConflictFrame ==
  ASSUME IInv, IInv', ConflictFrameInv, SimplifyFrame
  PROVE  ConflictFrameInv'
<1> USE DEF IInv, ConflictFrameInv
<1>1. PICK n \in Nat \ {0} : n = Len(frames)
  BY FrameType
<1>2. /\ frames' = frames /\ conflict_frame' = conflict_frame /\ pc' = pc
      /\ simplified_until' = simplified_until + 1 /\ simplified_until < n
      /\ Simplifying /\ status # "false" /\ conflict_frame \in Nat
      /\ simplified_until \in Nat
  BY <1>1 DEF SimplifyFrame, MoreToSimplify, TypeOK
<1>3. ~ok' => status' = "false"
  BY DEF SimplifyFrame
<1>4. CASE ok
  <2>1. conflict_frame = 0
    BY <1>4 DEF NotOk
  <2>2. ~ok' => frames[simplified_until + 1].id = Bottom
    BY <1>4 DEF SimplifyFrame, GiveToSolver
  <2>3. ~ok' => simplified_until = 0
    BY <1>1, <1>2, <2>2 DEF FreshIds
  <2> QED
    BY <1>1, <1>2, <1>3, <2>1, <2>3 DEF Simplifying
<1>5. CASE ~ok
  <2>1. ~ok'
    BY <1>5 DEF SimplifyFrame, GiveToSolver
  <2>2. frames[conflict_frame + 1].unsat
    BY <1>2, <1>5
  <2>3. frames[n].unsat /\ (simplified_until < n => frames[simplified_until + 1].unsat)
    BY <1>1, <1>2, <1>5 DEF NotOk, Last
  <2>4. conflict_frame < simplified_until + 1
    BY <1>1, <1>2, <1>5, <2>3
  <2> QED
    BY <1>1, <1>2, <1>5, <2>2, <2>4
<1> QED
  BY <1>4, <1>5

\* The steps that flag frames: the end of simplifyFormulas() and a refutation.
LEMMA FlaggingConflictFrame ==
  ASSUME IInv, IInv', ConflictFrameInv, SimplifyEnd \/ SolveBegin \/ SearchUnsat
  PROVE  ConflictFrameInv'
<1> USE DEF IInv, ConflictFrameInv
<1>1. PICK n \in Nat \ {0} : n = Len(frames)
  BY FrameType
<1>2. conflict_frame \in Nat /\ simplified_until \in 0 .. n
  BY <1>1 DEF TypeOK
<1>3. CASE SimplifyEnd
  <2>1. ~Simplifying' /\ Simplifying /\ ok' = ok /\ conflict_frame' = conflict_frame
    BY <1>3 DEF SimplifyEnd, Simplifying, solverVars
  <2>2. CASE status = "false"
    <3>1. PICK c \in Nat : c = simplified_until /\ frames' = RememberUnsatFrame(c)
      BY <1>2, <1>3, <2>2 DEF SimplifyEnd
    <3>2. /\ Len(frames') = n
          /\ \A j \in 1 .. n : frames'[j].unsat <=> (frames[j].unsat \/ j >= simplified_until)
      <4>1. Len(frames') = n /\ \A j \in 1 .. n : frames'[j].unsat <=> (frames[j].unsat \/ j >= c)
        BY <1>1, <3>1, RememberUnsatFrameShape
      <4> QED
        BY <3>1, <4>1
    <3>3. conflict_frame < simplified_until
      BY <2>1, <2>2
    <3>4. ASSUME ~ok PROVE frames'[conflict_frame + 1].unsat
      <4>1. CASE frames[conflict_frame + 1].unsat
        BY <1>1, <1>2, <3>2, <3>3, <4>1
      <4>2. CASE simplified_until = 1
        BY <1>1, <1>2, <3>2, <3>3, <4>2
      <4> QED
        BY <3>4, <4>1, <4>2
    <3> QED
      BY <1>1, <1>2, <2>1, <3>2, <3>3, <3>4
  <2>3. CASE status # "false"
    BY <1>1, <1>3, <2>1, <2>3 DEF SimplifyEnd
  <2> QED
    BY <2>2, <2>3
<1>4. CASE SolveBegin
  BY <1>4 DEF SolveBegin, Progress, Simplifying, solverVars
<1>5. CASE SearchUnsat
  <2>1. PICK cf \in ConflictFrames : conflict_frame' = cf
    BY <1>5 DEF SearchUnsat
  <2>2. cf + 1 \in 1 .. n /\ cf \in Nat
    BY <1>1, <1>5, <2>1, ConflictFramesSound DEF ConflictFrames, SearchUnsat
  <2>3. PICK c \in Nat : c = cf + 1 /\ frames' = RememberUnsatFrame(c)
    BY <1>5, <2>1, <2>2 DEF SearchUnsat
  <2>4. Len(frames') = n /\ \A j \in 1 .. n : frames'[j].unsat <=> (frames[j].unsat \/ j >= c)
    BY <1>1, <2>3, RememberUnsatFrameShape
  <2>5. \A j \in 1 .. n : ~frames[j].unsat
    BY <1>1, <1>5 DEF SearchUnsat, Progress, UnsatFlags, Last
  <2>6. ~Simplifying'
    BY <1>5 DEF SearchUnsat, Simplifying
  <2> QED
    BY <1>1, <2>1, <2>2, <2>3, <2>4, <2>5, <2>6
<1> QED
  BY <1>3, <1>4, <1>5

\* Every step keeps the conflict frame where it belongs.
LEMMA NextConflictFrame == IInv /\ IInv' /\ ConflictFrameInv /\ [Next]_vars => ConflictFrameInv'
<1> SUFFICES ASSUME IInv, IInv', ConflictFrameInv, [Next]_vars PROVE ConflictFrameInv'
  OBVIOUS
<1>1. CASE Push \/ Pop
  BY <1>1, PushPopConflictFrame
<1>2. CASE \E f \in Formula : InsertFormula(f)
  BY <1>2, InsertFormulaConflictFrame
<1>3. CASE SimplifyFrame
  BY <1>3, SimplifyFrameConflictFrame
<1>4. CASE SimplifyEnd \/ SolveBegin \/ SearchUnsat
  BY <1>4, FlaggingConflictFrame
<1>5. CASE \/ CheckBegin \/ SimplifyBegin \/ SimplifyAborts
           \/ SearchSat \/ SearchStopped \/ SearchOverflow \/ Stop \/ UNCHANGED vars
  <2>1. UNCHANGED <<frames, ok, conflict_frame, simplified_until>>
    BY <1>5 DEF CheckBegin, SimplifyBegin, SimplifyAborts, SearchSat, SearchStopped,
                SearchOverflow, Stop, vars, stackVars, solverVars
  <2>2. Simplifying' /\ status' = "false" => Simplifying /\ status = "false"
    BY <1>5 DEF CheckBegin, SimplifyBegin, SimplifyAborts, SearchSat, SearchStopped,
                SearchOverflow, Stop, vars, Simplifying
  <2>3. Simplifying /\ status = "false" => Simplifying' /\ status' = "false"
    BY <1>5 DEF CheckBegin, SimplifyBegin, SimplifyAborts, SearchSat, SearchStopped,
                SearchOverflow, Stop, vars, Simplifying, MoreToSimplify
  <2> QED
    BY <2>1, <2>2, <2>3 DEF ConflictFrameInv
<1> QED
  BY <1>1, <1>2, <1>3, <1>4, <1>5 DEF Next, CheckStep

\* The conflict frame the search reported, and rememberUnsatFrame() was called with, is on
\* the stack, and flagged while the solver is not ok and idle, after any number of pops.
THEOREM ConflictFrameStaysOnStack == Spec => []ConflictFrameOnStack
<1>1. Init => ConflictFrameInv
  <2> SUFFICES ASSUME Init PROVE ConflictFrameInv
    OBVIOUS
  <2>1. Len(frames) = 1 /\ ok /\ conflict_frame = 0 /\ status = "undef"
    BY DEF Init
  <2> QED
    BY <2>1 DEF ConflictFrameInv
<1>2. IInv /\ ConflictFrameInv => ConflictFrameOnStack
  BY DEF ConflictFrameInv, ConflictFrameOnStack, Simplifying
<1> QED
  BY <1>1, <1>2, NextConflictFrame, Invariance, PTL DEF Spec

-----------------------------------------------------------------------------
\* The assertion levels a stack of frames stands for.
Levels == [i \in 1 .. Len(frames) |-> frames[i].formulas]

\* The levels as a sequence.
LEMMA LevelsSeq ==
  TypeOK => /\ Levels \in Seq(SUBSET SUBSET Interp)
            /\ Len(Levels) = Len(frames)
            /\ \A i \in 1 .. Len(frames) : Levels[i] = frames[i].formulas
<1> HAVE TypeOK
<1>1. Len(frames) \in Nat /\ Levels \in [1 .. Len(frames) -> SUBSET SUBSET Interp]
  BY FrameType DEF Levels
<1>2. Levels \in Seq(SUBSET SUBSET Interp) /\ Len(Levels) = Len(frames)
  BY <1>1, FunctionIsSeq
<1> QED
  BY <1>2 DEF Levels

\* The models of the abstract stack are those of the frames.
LEMMA LevelsModels == TypeOK => A!Models = StackModels(Len(frames))
<1> SUFFICES ASSUME TypeOK PROVE A!Models = StackModels(Len(frames))
  OBVIOUS
<1>1. A!Models = {m \in Interp : \A i \in 1 .. Len(Levels) : \A f \in Levels[i] : m \in f}
  BY Zenon DEF A!Models, Levels
<1>2. A!Models = {m \in Interp :
                    \A i \in 1 .. Len(frames) : \A f \in frames[i].formulas : m \in f}
  BY <1>1, LevelsSeq
<1> QED
  BY <1>2, Zenon DEF StackModels

\* Steps that keep the formulas of all frames keep the levels.
LEMMA LevelsKept ==
  ASSUME Len(frames') = Len(frames),
         \A i \in 1 .. Len(frames) : frames'[i].formulas = frames[i].formulas
  PROVE  Levels' = Levels
BY Zenon DEF Levels

\* Every step of MainSolver is a step of the assertion stack, or none.
LEMMA StepRefines ==
  ASSUME IInv, IInv', [Next]_vars
  PROVE  [A!Next]_(A!vars)
<1> USE DEF IInv
<1>0. PICK n \in Nat \ {0} : n = Len(frames)
  BY FrameType
<1>1. /\ Levels \in Seq(SUBSET SUBSET Interp) /\ Len(Levels) = n
      /\ \A i \in 1 .. n : Levels[i] = frames[i].formulas
  BY <1>0, LevelsSeq
<1>2. /\ Levels' \in Seq(SUBSET SUBSET Interp) /\ Len(Levels') = Len(frames')
      /\ \A i \in 1 .. Len(frames') : Levels'[i] = frames'[i].formulas
  <2>1. TypeOK'
    OBVIOUS
  <2>2. (/\ Levels \in Seq(SUBSET SUBSET Interp)
         /\ Len(Levels) = Len(frames)
         /\ \A i \in 1 .. Len(frames) : Levels[i] = frames[i].formulas)'
    BY <2>1, LevelsSeq, PTL
  <2> QED
    BY <2>2
<1>3. CASE Push
  <2>1. frames' = Append(frames, NewFrame(Last.unsat)) /\ frames \in Seq(Frame)
    BY <1>3 DEF Push, TypeOK
  <2>2. /\ Len(frames') = n + 1 /\ frames'[n + 1] = NewFrame(Last.unsat)
        /\ \A i \in 1 .. n : frames'[i] = frames[i]
    BY <1>0, <2>1
  <2>3. frames'[n + 1].formulas = {}
    BY <2>2 DEF NewFrame
  <2>4. Levels' = Append(Levels, {})
    BY <1>0, <1>1, <1>2, <2>2, <2>3
  <2>5. A!Push
    BY <1>3, <2>4 DEF A!Push, Push, Levels
  <2> QED
    BY <2>5 DEF A!Next
<1>4. CASE Pop
  <2>1. /\ Len(frames') = n - 1 /\ n - 1 \in Nat \ {0}
        /\ \A i \in 1 .. n - 1 : frames'[i] = frames[i]
    BY <1>0, <1>4, FrameType, SubSeqProperties DEF Pop
  <2>2. /\ SubSeq(Levels, 1, n - 1) \in Seq(SUBSET SUBSET Interp)
        /\ Len(SubSeq(Levels, 1, n - 1)) = n - 1
        /\ \A i \in 1 .. n - 1 : SubSeq(Levels, 1, n - 1)[i] = Levels[i]
    <3>1. \A i \in 1 .. n - 1 : Levels[i] \in SUBSET SUBSET Interp
      BY <1>0, <1>1, ElementOfSeq
    <3> QED
      BY <2>1, <3>1, SubSeqProperties
  <2>3. Levels' = SubSeq(Levels, 1, n - 1)
    <3>1. ASSUME NEW i \in 1 .. n - 1
          PROVE  Levels'[i] = SubSeq(Levels, 1, n - 1)[i]
      <4>1. Levels'[i] = frames[i].formulas
        BY <1>2, <2>1
      <4>2. Levels[i] = frames[i].formulas
        BY <1>1
      <4> QED
        BY <2>2, <4>1, <4>2
    <3> QED
      BY <1>2, <2>1, <2>2, <3>1, SeqEqual
  <2>4. A!Pop
    BY <1>0, <1>1, <1>4, <2>1, <2>3 DEF A!Pop, Pop, Levels
  <2> QED
    BY <2>4 DEF A!Next
<1>5. CASE \E f \in Formula : InsertFormula(f)
  <2>1. PICK f \in Formula : InsertFormula(f)
    BY <1>5
  <2>2. frames' = [frames EXCEPT ![n] = [frames[n] EXCEPT !.formulas = @ \cup {f}]]
    BY <1>0, <2>1 DEF InsertFormula
  <2>3. /\ Len(frames') = n
        /\ \A i \in 1 .. n : frames'[i].formulas =
             IF i = n THEN frames[n].formulas \cup {f} ELSE frames[i].formulas
    <3>1. frames \in Seq(Frame) /\ frames[n] \in Frame
      BY <1>0, FrameType DEF TypeOK
    <3>2. [frames[n] EXCEPT !.formulas = @ \cup {f}].formulas = frames[n].formulas \cup {f}
      BY <3>1 DEF Frame
    <3> QED
      BY <1>0, <2>2, <3>1, <3>2
  <2>4. Levels' = [Levels EXCEPT ![n] = @ \cup {f}]
    <3>1. Levels[n] \cup {f} \in SUBSET SUBSET Interp
      BY <1>0, <1>1, <2>1, FrameType, FormulaAssumption
    <3>2. PICK T : T = [Levels EXCEPT ![n] = Levels[n] \cup {f}]
      OBVIOUS
    <3>3. /\ T \in Seq(SUBSET SUBSET Interp) /\ Len(T) = n
          /\ \A i \in 1 .. n : T[i] = IF i = n THEN Levels[n] \cup {f} ELSE Levels[i]
      BY <1>0, <1>1, <3>1, <3>2, ExceptSeq
    <3>4. \A i \in 1 .. n : Levels'[i] = T[i]
      BY <1>0, <1>1, <1>2, <2>3, <3>3
    <3>5. Levels' = T
      BY <1>2, <2>3, <3>3, <3>4, SeqEqual
    <3> QED
      BY <3>2, <3>5
  <2>5. A!Assert(f)
    BY <1>1, <2>1, <2>4 DEF A!Assert, InsertFormula, Levels
  <2> QED
    BY <2>1, <2>5 DEF A!Next
<1>6. ASSUME frames' = frames \/ \E i \in Nat : frames' = RememberUnsatFrame(i),
             answer' # "none" \/ answer' = answer
      PROVE  [A!Next]_(A!vars)
  <2>1. Levels' = Levels
    <3>1. CASE frames' = frames
      BY <3>1 DEF Levels
    <3>2. CASE \E i \in Nat : frames' = RememberUnsatFrame(i)
      BY <3>2, RememberUnsatFrameShape, LevelsKept
    <3> QED
      BY <1>6, <3>1, <3>2
  <2>2. A!Models = StackModels(Len(frames))
    BY LevelsModels
  <2>3. A!Models' = StackModels(Len(frames))'
    <3>1. TypeOK'
      OBVIOUS
    <3>2. (A!Models = StackModels(Len(frames)))'
      BY <3>1, LevelsModels, PTL
    <3> QED
      BY <3>2
  <2>4. A!Models' = A!Models
    BY <2>1 DEF A!Models, Levels
  <2>5. \/ answer' = answer
        \/ answer' = "sat" /\ A!Models # {}
        \/ answer' = "unsat" /\ A!Models = {}
        \/ answer' \in {"unknown", "error", "none"}
    BY <2>2, <2>3, <2>4 DEF AnswerCorrect, TypeOK
  <2> QED
    BY <1>6, <2>1, <2>5 DEF A!Next, A!Check, A!vars, Levels
<1>7. CASE \/ CheckBegin \/ SimplifyBegin \/ SimplifyFrame \/ SimplifyAborts
           \/ SearchSat \/ SearchStopped \/ SearchOverflow \/ Stop \/ UNCHANGED vars
  BY <1>6, <1>7 DEF CheckBegin, SimplifyBegin, SimplifyFrame, SimplifyAborts,
                    SearchSat, SearchStopped, SearchOverflow, Stop, vars, stackVars
<1>8. CASE SimplifyEnd
  BY <1>6, <1>8 DEF SimplifyEnd, TypeOK
<1>9. CASE SolveBegin
  BY <1>6, <1>9 DEF SolveBegin, TypeOK
<1>10. CASE SearchUnsat
  BY <1>6, <1>10 DEF SearchUnsat, TypeOK
<1> QED
  BY <1>3, <1>4, <1>5, <1>7, <1>8, <1>9, <1>10 DEF Next, CheckStep

\* MainSolver implements the assertion stack.
THEOREM Refinement == Spec => ImplementsAssertionStack
<1>1. Init => A!Init
  <2> SUFFICES ASSUME Init PROVE A!Init
    OBVIOUS
  <2>1. IInv
    BY InitIInv
  <2>2. /\ Levels \in Seq(SUBSET SUBSET Interp) /\ Len(Levels) = Len(frames)
        /\ \A i \in 1 .. Len(frames) : Levels[i] = frames[i].formulas
    BY <2>1, LevelsSeq DEF IInv
  <2>3. Len(frames) = 1 /\ frames[1].formulas = {Interp}
    BY DEF Init
  <2>4. Levels = << {Interp} >>
    BY <2>2, <2>3
  <2> QED
    BY <2>4 DEF A!Init, Init, Levels
<1>2. IInv /\ IInv' /\ [Next]_vars => [A!Next]_(A!vars)
  BY StepRefines
<1> QED
  BY <1>1, <1>2, Invariance, PTL DEF Spec, ImplementsAssertionStack, A!Spec
=============================================================================
