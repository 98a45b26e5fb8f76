----------------------------- MODULE LetRecords -----------------------------
(***************************************************************************)
(* The names bound by the lets around a term while Interpret::parseTerm()  *)
(* walks down and up the term: one table from names to the value in force  *)
(* and the values it hides, undone frame by frame from a list of names.    *)
(***************************************************************************)
EXTENDS Naturals, Sequences, FiniteSets, SequencesExt

CONSTANTS
    LetNames,    \* names a let may bind
    NoScoping,   \* names among them that the logic does not let be overloaded
    Values,      \* terms
    MaxLets      \* bound: nesting of lets

VARIABLES
    letBinders,    \* name |-> its values, the one in force last
    knownBinders,  \* names in the order they were bound
    frameLimits,
    scopes         \* ghost: for each let around the present term, what it binds

letVars == <<letBinders, knownBinders, frameLimits, scopes>>

LetInit ==
    /\ letBinders = [n \in LetNames |-> <<>>]
    /\ knownBinders = <<>>
    /\ frameLimits = <<>>
    /\ scopes = <<>>

\* How often a name is bound in a list of names.
Times(known, n) == Cardinality({k \in DOMAIN known : known[k] = n})

\* Mutant: a name bound before keeps its value.
AddBindingsOnce(r, names, values) ==
    [binders |-> [n \in LetNames |-> IF n \in ToSet(names) /\ r.binders[n] = <<>>
                                  THEN <<values[CHOOSE j \in DOMAIN names : names[j] = n]>>
                                  ELSE r.binders[n]],
     known |-> r.known \o names]

\* LetRecords::addBinding() for distinct names, one after the other.
AddBindings(r, names, values) ==
    [binders |-> [n \in LetNames |-> IF n \in ToSet(names)
                                  THEN Append(r.binders[n], values[CHOOSE j \in DOMAIN names : names[j] = n])
                                  ELSE r.binders[n]],
     known |-> r.known \o names]

\* LetRecords::popFrame(): undo the bindings made since the limit.
Popped(r, limit) ==
    LET undone == SubSeq(r.known, limit + 1, Len(r.known))
    IN  [binders |-> [n \in LetNames |-> SubSeq(r.binders[n], 1, Len(r.binders[n]) - Times(undone, n))],
         known |-> SubSeq(r.known, 1, limit)]

\* The bindings of a let that are taken before a name is refused.
Accepted(names) ==
    LET refused == {j \in DOMAIN names : names[j] \in NoScoping}
    IN  IF refused = {} THEN Len(names) ELSE (CHOOSE j \in refused : \A k \in refused : j <= k) - 1

\* A let with these names and values is entered.  LetNames that are not pairwise
\* distinct, or one that may not be overloaded, end it: the guard of the scope
\* undoes what was bound by then.
EnterLet(names, values) ==
    LET distinct == Len(names) > 1 => IsInjective(names)
        taken == IF distinct THEN Accepted(names) ELSE 0
        old == [binders |-> letBinders, known |-> knownBinders]
        r == AddBindings(old, SubSeq(names, 1, taken), values)
        new == IF distinct /\ taken = Len(names) THEN r ELSE Popped(r, Len(knownBinders))
    IN  /\ Len(frameLimits) < MaxLets
        /\ letBinders' = new.binders
        /\ knownBinders' = new.known
        /\ IF distinct /\ taken = Len(names)
           THEN /\ frameLimits' = Append(frameLimits, Len(knownBinders))
                /\ scopes' = Append(scopes, [n \in ToSet(names) |->
                                               values[CHOOSE j \in DOMAIN names : names[j] = n]])
           ELSE UNCHANGED <<frameLimits, scopes>>

\* The term of the innermost let is done, or failed: its scope is left.
LeaveLet ==
    LET r == Popped([binders |-> letBinders, known |-> knownBinders], Last(frameLimits))
    IN  /\ frameLimits # <<>>
        /\ letBinders' = r.binders
        /\ knownBinders' = r.known
        /\ frameLimits' = Front(frameLimits)
        /\ scopes' = Front(scopes)

LetNext ==
    \/ \E k \in 1 .. 2 : \E names \in [1 .. k -> LetNames], values \in [1 .. k -> Values] : EnterLet(names, values)
    \/ LeaveLet

LetSpec == LetInit /\ [][LetNext]_letVars

-----------------------------------------------------------------------------
(* Properties.                                                             *)

LetTypeOK ==
    /\ letBinders \in [LetNames -> Seq(Values)]
    /\ knownBinders \in Seq(LetNames)
    /\ frameLimits \in Seq(0 .. Len(knownBinders))

\* A name stands for what the innermost let around the term that binds it says,
\* and for nothing a let has bound when none is around.
InnermostLetWins ==
    \A n \in LetNames :
        LET binding == {j \in DOMAIN scopes : n \in DOMAIN scopes[j]}
        IN  IF binding = {} THEN letBinders[n] = <<>>
            ELSE /\ letBinders[n] # <<>>
                 /\ Last(letBinders[n]) = scopes[CHOOSE j \in binding : \A k \in binding : k <= j][n]
=============================================================================
