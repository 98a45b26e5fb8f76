--------------------------- MODULE AssertionStack ---------------------------
(***************************************************************************)
(* What an incremental solver promises its user: a stack of assertion      *)
(* levels, and answers that are right for the assertions on the stack at   *)
(* the moment the answer is given.  A formula is the set of the            *)
(* interpretations that satisfy it, so a conjunction is an intersection.   *)
(***************************************************************************)
EXTENDS Naturals, Sequences

CONSTANTS Interp,        \* the interpretations of the logic
          Formula        \* the formulas a user may assert

VARIABLES stack,         \* one set of formulas per assertion level
          answer         \* what the latest check said about this stack

vars == <<stack, answer>>

\* The interpretations that satisfy every assertion on the stack.
Models == {m \in Interp : \A i \in 1 .. Len(stack) : \A f \in stack[i] : m \in f}

Init ==
  /\ stack = << {Interp} >>
  /\ answer = "none"

Push ==
  /\ stack' = Append(stack, {})
  /\ answer' = "none"

Pop ==
  /\ Len(stack) > 1
  /\ stack' = SubSeq(stack, 1, Len(stack) - 1)
  /\ answer' = "none"

Assert(f) ==
  /\ stack' = [stack EXCEPT ![Len(stack)] = @ \cup {f}]
  /\ answer' = "none"

\* A check may always give up, but a verdict must be the right one.
Check ==
  /\ \/ answer' = "sat" /\ Models # {}
     \/ answer' = "unsat" /\ Models = {}
     \/ answer' \in {"unknown", "error"}
  /\ UNCHANGED stack

Next == Push \/ Pop \/ Check \/ \E f \in Formula : Assert(f)

Spec == Init /\ [][Next]_vars
=============================================================================
