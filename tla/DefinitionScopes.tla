-------------------------- MODULE DefinitionScopes --------------------------
(***************************************************************************)
(* What (push), (pop) and (define-fun) promise a user: a stack of scopes,  *)
(* as high as the assertion stack, each holding the names defined in it,   *)
(* and names that belong to none because declarations were global when     *)
(* they were defined.  A name is defined in at most one place.             *)
(***************************************************************************)
EXTENDS Naturals, Sequences

CONSTANTS Names, Numerals
VARIABLES scopes, globals

Defined == globals \union UNION {scopes[j] : j \in DOMAIN scopes}

Init == scopes = <<{}>> /\ globals = {}

Define(n) ==
    /\ n \notin Defined
    /\ scopes' = [scopes EXCEPT ![Len(scopes)] = @ \union {n}]
    /\ globals' = globals

DefineGlobal(n) ==
    /\ n \notin Defined
    /\ globals' = globals \union {n}
    /\ scopes' = scopes

Push(k) ==
    /\ scopes' = scopes \o [j \in 1 .. k |-> {}]
    /\ globals' = globals

\* One scope always stays.
Pop(k) ==
    /\ scopes' = SubSeq(scopes, 1, IF k < Len(scopes) THEN Len(scopes) - k ELSE 1)
    /\ globals' = globals

Next ==
    \/ \E n \in Names : Define(n) \/ DefineGlobal(n)
    \/ \E k \in Numerals : Push(k) \/ Pop(k)

Spec == Init /\ [][Next]_<<scopes, globals>>
=============================================================================
