--------------------------- MODULE FrontEndProofs ---------------------------
(***************************************************************************)
(* Proofs about what the front end looks names up in.                      *)
(*                                                                         *)
(* The scopes of define-fun follow the frames of the solver: Interpret     *)
(* implements DefinitionScopes, for every number of frames, every set of   *)
(* names and every numeral of push and pop.                                *)
(*                                                                         *)
(* The partitions of interpolation follow the frames too: the numbers that *)
(* Interpret, MainSolver and Cnfizer keep each for itself agree, so long   *)
(* as no term is asserted twice or with another sort than Bool.            *)
(*                                                                         *)
(* The table of let bindings follows the lets around a term: however deep  *)
(* they nest, whatever they hide and whichever of them are refused half    *)
(* way, a name stands for what the innermost let says.                     *)
(***************************************************************************)
EXTENDS Interpret, LetRecords, SequenceLemmas, FiniteSetTheorems, SequenceTheorems, TLAPS

Tables == UNION {[D -> Terms] : D \in SUBSET FunNames}
Definitions == [table : Tables, scopedNames : Seq(FunNames), limits : Seq(Nat)]
FrameRecord == [id : Nat, formulas : Seq(Formulas)]

Shapes ==
  /\ defs \in Definitions
  /\ frames \in Seq(FrameRecord) /\ Len(frames) > 0
  /\ ids \in Nat

\* One limit for each frame but the last, in order, none past the names.
LimitsFit ==
  /\ Len(defs.limits) = Len(frames) - 1
  /\ \A j \in 1 .. Len(frames) - 1 : defs.limits[j] <= Len(defs.scopedNames)
  /\ \A i, j \in 1 .. Len(frames) - 1 : i <= j => defs.limits[i] <= defs.limits[j]

\* The names of the vector are distinct and defined.
NamesFit ==
  /\ \A i, j \in 1 .. Len(defs.scopedNames) : defs.scopedNames[i] = defs.scopedNames[j] => i = j
  /\ \A i \in 1 .. Len(defs.scopedNames) : defs.scopedNames[i] \in DOMAIN defs.table

ScopesInv == Shapes /\ LimitsFit /\ NamesFit

Globals == DOMAIN defs.table \ ToSet(defs.scopedNames)

-----------------------------------------------------------------------------
\* The parts of the definitions, typed.
LEMMA Parts ==
  ASSUME Shapes
  PROVE  /\ defs.table \in Tables /\ DOMAIN defs.table \subseteq FunNames
         /\ defs.scopedNames \in Seq(FunNames) /\ Len(defs.scopedNames) \in Nat
         /\ defs.limits \in Seq(Nat) /\ Len(defs.limits) \in Nat
         /\ \A j \in 1 .. Len(defs.limits) : defs.limits[j] \in Nat
         /\ Len(frames) \in Nat \ {0}
<1>1. defs.table \in Tables /\ defs.scopedNames \in Seq(FunNames) /\ defs.limits \in Seq(Nat)
  BY DEF Shapes, Definitions
<1>2. DOMAIN defs.table \subseteq FunNames
  BY <1>1 DEF Tables
<1>3. Len(frames) \in Nat \ {0}
  BY DEF Shapes
<1> QED
  BY <1>1, <1>2, <1>3

\* The scopes are a sequence as long as the stack of frames.
LEMMA ScopesSeq ==
  ASSUME Shapes, LimitsFit
  PROVE  /\ Scopes \in Seq(SUBSET FunNames) /\ Len(Scopes) = Len(frames)
         /\ DOMAIN Scopes = 1 .. Len(frames)
         /\ \A j \in 1 .. Len(frames) :
              Scopes[j] = {defs.scopedNames[k] : k \in Below(j) + 1 .. Above(j)}
         /\ \A j \in 1 .. Len(frames) : Below(j) \in Nat /\ Above(j) \in Nat
                                         /\ Above(j) <= Len(defs.scopedNames)
<1>1. \A j \in 1 .. Len(frames) : Below(j) \in Nat /\ Above(j) \in Nat
                                   /\ Above(j) <= Len(defs.scopedNames)
  BY Parts DEF LimitsFit, Below, Above
<1>2. ASSUME NEW j \in 1 .. Len(frames)
      PROVE  {defs.scopedNames[k] : k \in Below(j) + 1 .. Above(j)} \subseteq FunNames
  <2>1. \A k \in Below(j) + 1 .. Above(j) : k \in 1 .. Len(defs.scopedNames)
    BY <1>1, Parts
  <2> QED
    BY <2>1, Parts
<1>3. Scopes \in [1 .. Len(frames) -> SUBSET FunNames]
  BY <1>2 DEF Scopes
<1>4. Scopes \in Seq(SUBSET FunNames) /\ Len(Scopes) = Len(frames)
  BY <1>3, Parts, FunctionIsSeq
<1> QED
  BY <1>1, <1>3, <1>4 DEF Scopes

\* The state the proof starts from.
LEMMA InitScopes == Init => ScopesInv /\ Abstract!Init
<1> SUFFICES ASSUME Init PROVE ScopesInv /\ Abstract!Init
  OBVIOUS
<1>1. /\ defs.table = <<>> /\ defs.scopedNames = <<>> /\ defs.limits = <<>>
      /\ Len(frames) = 1 /\ ids \in Nat
  BY DEF Init
<1>2. defs \in Definitions
  <2>1. <<>> \in Tables
    <3>1. <<>> \in [{} -> Terms]
      OBVIOUS
    <3> QED
      BY <3>1 DEF Tables
  <2> QED
    BY <2>1 DEF Init, Definitions
<1>3. frames \in Seq(FrameRecord)
  BY DEF Init, FrameRecord
<1>4. ScopesInv
  BY <1>1, <1>2, <1>3 DEF ScopesInv, Shapes, LimitsFit, NamesFit
<1>5. Scopes = <<{}>>
  <2>1. DOMAIN Scopes = 1 .. 1 /\ Scopes[1] = {}
    BY <1>1 DEF Scopes, Below, Above
  <2>2. Scopes = [j \in 1 .. 1 |-> {}]
    BY <1>1, <2>1 DEF Scopes
  <2> QED
    BY <2>2
<1>6. Globals = {}
  BY <1>1 DEF Globals
<1> QED
  BY <1>4, <1>5, <1>6 DEF Abstract!Init, Globals

-----------------------------------------------------------------------------
\* define-fun: the new name joins the innermost scope, or none.
LEMMA DefineFunStep ==
  ASSUME ScopesInv, NEW n \in FunNames, NEW t \in Resolvable, DefineFun(n, t)
  PROVE  ScopesInv' /\ (Abstract!Define(n) \/ Abstract!DefineGlobal(n))
<1> USE DEF ScopesInv
<1>1. PICK m \in Nat \ {0} : m = Len(frames)
  BY Parts
<1>2. PICK c \in Nat : c = Len(defs.scopedNames)
  BY Parts
<1>3. frames' = frames /\ ids' = ids /\ n \notin DOMAIN defs.table
  BY DEF DefineFun, solver
<1>4. /\ defs'.table = With(defs.table, n, Resolved(t))
      /\ defs'.scopedNames = IF global THEN defs.scopedNames ELSE Append(defs.scopedNames, n)
      /\ defs'.limits = defs.limits
      /\ defs' = [table |-> defs'.table, scopedNames |-> defs'.scopedNames, limits |-> defs'.limits]
  BY DEF DefineFun, Shapes, Definitions
<1>5. DOMAIN defs'.table = DOMAIN defs.table \cup {n}
  BY <1>4 DEF With
<1>6. defs'.table \in Tables
  <2>1. Resolved(t) \in Terms
    BY Parts DEF Resolved, Resolvable, Tables
  <2>2. PICK D \in SUBSET FunNames : defs.table \in [D -> Terms]
    BY Parts DEF Tables
  <2>3. defs'.table \in [D \cup {n} -> Terms]
    BY <1>4, <2>1, <2>2 DEF With
  <2> QED
    BY <2>3 DEF Tables
<1>7. Shapes'
  <2>1. defs'.scopedNames \in Seq(FunNames) /\ defs'.limits \in Seq(Nat)
    BY <1>4, Parts
  <2>2. defs' \in Definitions
    BY <1>4, <1>6, <2>1 DEF Definitions
  <2> QED
    BY <1>3, <2>2 DEF Shapes
<1>8. \A j \in 1 .. m : Below(j)' = Below(j)
  BY <1>4 DEF Below
<1>9. ToSet(defs.scopedNames) \subseteq DOMAIN defs.table
  BY Parts, ToSetRange DEF NamesFit
<1>10. n \notin Abstract!Defined
  <2>1. \A j \in 1 .. m : Scopes[j] \subseteq DOMAIN defs.table
    <3> SUFFICES ASSUME NEW j \in 1 .. m PROVE Scopes[j] \subseteq DOMAIN defs.table
      OBVIOUS
    <3>1. /\ Scopes[j] = {defs.scopedNames[k] : k \in Below(j) + 1 .. Above(j)}
          /\ Below(j) \in Nat /\ Above(j) \in Nat /\ Above(j) <= c
      BY <1>1, <1>2, ScopesSeq
    <3>2. \A k \in Below(j) + 1 .. Above(j) : k \in 1 .. c
      BY <3>1
    <3> QED
      BY <1>2, <3>1, <3>2 DEF NamesFit
  <2> QED
    BY <1>1, <1>3, <2>1, ScopesSeq DEF Abstract!Defined
<1>11. CASE global
  <2>1. defs'.scopedNames = defs.scopedNames
    BY <1>4, <1>11
  <2>2. LimitsFit' /\ NamesFit'
    BY <1>3, <1>4, <1>5, <2>1 DEF LimitsFit, NamesFit
  <2>3. Scopes' = Scopes
    BY <1>3, <1>4, <2>1 DEF Scopes, Below, Above
  <2>4. Globals' = Globals \cup {n}
    BY <1>3, <1>5, <1>9, <2>1 DEF Globals
  <2> QED
    BY <1>7, <1>10, <2>2, <2>3, <2>4 DEF Abstract!DefineGlobal, Globals
<1>12. CASE ~global
  <2>1. /\ Len(defs'.scopedNames) = c + 1
        /\ defs'.scopedNames[c + 1] = n
        /\ \A k \in 1 .. c : defs'.scopedNames[k] = defs.scopedNames[k]
    BY <1>2, <1>4, <1>12, Parts
  <2>2. LimitsFit'
    BY <1>1, <1>2, <1>3, <1>4, <2>1, Parts, SMTT(30) DEF LimitsFit
  <2>3. NamesFit'
    <3>1. \A i \in 1 .. c + 1 : i = c + 1 \/ i \in 1 .. c
      OBVIOUS
    <3>2. \A i \in 1 .. c : defs'.scopedNames[i] \in DOMAIN defs.table /\ defs'.scopedNames[i] # n
      BY <1>2, <1>3, <2>1 DEF NamesFit
    <3>3. \A i \in 1 .. c + 1 : defs'.scopedNames[i] \in DOMAIN defs'.table
      BY <1>5, <2>1, <3>1, <3>2
    <3>4. ASSUME NEW i \in 1 .. c + 1, NEW j \in 1 .. c + 1, defs'.scopedNames[i] = defs'.scopedNames[j]
          PROVE  i = j
      BY <1>2, <2>1, <3>1, <3>2, <3>4 DEF NamesFit
    <3> QED
      BY <2>1, <3>3, <3>4 DEF NamesFit
  <2>4. ASSUME NEW j \in 1 .. m, j # m
        PROVE  Scopes'[j] = Scopes[j]
    <3>1. Above(j)' = Above(j) /\ Below(j)' = Below(j)
      BY <1>1, <1>3, <1>4, <1>8, <2>4 DEF Above
    <3>2. \A k \in Below(j) + 1 .. Above(j) : k \in 1 .. c
      BY <1>1, <1>2, ScopesSeq
    <3> QED
      BY <1>1, <1>3, <2>1, <3>1, <3>2 DEF Scopes
  <2>5. Scopes'[m] = Scopes[m] \cup {n}
    <3>1. Above(m)' = c + 1 /\ Above(m) = c /\ Below(m)' = Below(m) /\ Below(m) \in Nat /\ Below(m) <= c
      BY <1>1, <1>2, <1>3, <1>8, <2>1, Parts DEF Above, Below, LimitsFit
    <3>2. \A k \in Below(m) + 1 .. c + 1 : k = c + 1 \/ k \in Below(m) + 1 .. c
      BY <3>1
    <3>3. \A k \in Below(m) + 1 .. c : k \in 1 .. c /\ k \in Below(m) + 1 .. c + 1
      BY <3>1
    <3>4. Scopes'[m] = {defs'.scopedNames[k] : k \in Below(m) + 1 .. c + 1}
      BY <1>1, <1>3, <3>1 DEF Scopes
    <3>5. Scopes[m] = {defs.scopedNames[k] : k \in Below(m) + 1 .. c}
      BY <1>1, <3>1 DEF Scopes
    <3>6. c + 1 \in Below(m) + 1 .. c + 1
      BY <3>1
    <3> QED
      BY <2>1, <3>2, <3>3, <3>4, <3>5, <3>6
  <2>6. Scopes' = [Scopes EXCEPT ![Len(Scopes)] = @ \cup {n}]
    <3>1. Scopes' = [j \in 1 .. m |-> Scopes'[j]] /\ Scopes = [j \in 1 .. m |-> Scopes[j]]
      BY <1>1, <1>3, Zenon DEF Scopes
    <3>2. Len(Scopes) = m
      BY <1>1, ScopesSeq
    <3> QED
      BY <2>4, <2>5, <3>1, <3>2
  <2>7. Globals' = Globals
    <3>1. ToSet(defs'.scopedNames) = ToSet(defs.scopedNames) \cup {n}
      <4>1. defs'.scopedNames \in Seq(FunNames) /\ defs.scopedNames \in Seq(FunNames)
        BY <1>4, <1>12, Parts
      <4>2. /\ ToSet(defs'.scopedNames) = {defs'.scopedNames[i] : i \in 1 .. c + 1}
            /\ ToSet(defs.scopedNames) = {defs.scopedNames[i] : i \in 1 .. c}
        BY <1>2, <2>1, <4>1, ToSetRange
      <4>3. \A i \in 1 .. c + 1 : i = c + 1 \/ i \in 1 .. c
        BY <1>2
      <4>4. c + 1 \in 1 .. c + 1 /\ \A i \in 1 .. c : i \in 1 .. c + 1
        BY <1>2
      <4> QED
        BY <2>1, <4>2, <4>3, <4>4
    <3> QED
      BY <1>3, <1>5, <1>9, <3>1 DEF Globals
  <2> QED
    BY <1>7, <1>10, <2>2, <2>3, <2>6, <2>7 DEF Abstract!Define, Globals
<1> QED
  BY <1>11, <1>12

\* push: as many empty scopes as frames.
LEMMA PushStep ==
  ASSUME ScopesInv, NEW k \in Nat, Push(k)
  PROVE  ScopesInv' /\ Abstract!Push(k)
<1> USE DEF ScopesInv
<1>1. PICK m \in Nat \ {0} : m = Len(frames)
  BY Parts
<1>2. PICK c \in Nat : c = Len(defs.scopedNames)
  BY Parts
<1>3. /\ defs'.table = defs.table /\ defs'.scopedNames = defs.scopedNames
      /\ defs'.limits = defs.limits \o [j \in 1 .. k |-> c]
      /\ defs' = [table |-> defs'.table, scopedNames |-> defs'.scopedNames, limits |-> defs'.limits]
  BY <1>2 DEF Push, PushedScopes, Shapes, Definitions
<1>4. /\ defs'.limits \in Seq(Nat) /\ Len(defs'.limits) = m - 1 + k
      /\ \A j \in 1 .. m - 1 : defs'.limits[j] = defs.limits[j]
      /\ \A j \in m .. m - 1 + k : defs'.limits[j] = c
      /\ m - 1 \in Nat /\ Len(defs.limits) = m - 1
  <2> DEFINE tail == [j \in 1 .. k |-> c]
  <2>1. tail \in [1 .. k -> Nat]
    BY <1>2
  <2>2. tail \in Seq(Nat) /\ Len(tail) = k
    BY <2>1, FunctionIsSeq
  <2>3. \A j \in 1 .. k : tail[j] = c
    OBVIOUS
  <2>4. Len(defs.limits) = m - 1 /\ defs.limits \in Seq(Nat)
    BY <1>1, Parts DEF LimitsFit
  <2> HIDE DEF tail
  <2>5. defs'.limits = defs.limits \o tail
    BY <1>3 DEF tail
  <2>6. PICK p \in Nat : p = m - 1
    BY <1>1
  <2>7. /\ defs'.limits \in Seq(Nat) /\ Len(defs'.limits) = p + k
        /\ \A j \in 1 .. p : defs'.limits[j] = defs.limits[j]
        /\ \A j \in p + 1 .. p + k : defs'.limits[j] = tail[j - p] /\ j - p \in 1 .. k
    <3>1. PICK L \in Seq(Nat) : L = defs.limits
      BY <2>4
    <3>2. PICK T \in Seq(Nat) : T = tail
      BY <2>2
    <3>3. /\ L \o T \in Seq(Nat) /\ Len(L \o T) = Len(L) + Len(T)
          /\ \A j \in 1 .. Len(L) : (L \o T)[j] = L[j]
          /\ \A j \in Len(L) + 1 .. Len(L) + Len(T) :
               (L \o T)[j] = T[j - Len(L)] /\ j - Len(L) \in 1 .. Len(T)
      BY ConcatParts
    <3>4. Len(L) = p /\ Len(T) = k
      BY <2>2, <2>4, <2>6, <3>1, <3>2
    <3> QED
      BY <2>5, <3>1, <3>2, <3>3, <3>4
  <2>8. \A j \in m .. m - 1 + k : j \in p + 1 .. p + k
    BY <2>6
  <2> QED
    BY <1>1, <2>3, <2>4, <2>6, <2>7, <2>8
<1>5. frames' \in Seq(FrameRecord) /\ Len(frames') = m + k /\ ids' \in Nat
  <2> DEFINE new == [j \in 1 .. k |-> [id |-> ids + j - 1, formulas |-> <<>>]]
  <2>1. new \in [1 .. k -> FrameRecord]
    BY DEF FrameRecord, Shapes
  <2>2. new \in Seq(FrameRecord) /\ Len(new) = k
    BY <2>1, FunctionIsSeq
  <2>3. frames' = frames \o new /\ ids' = ids + k
    BY DEF Push
  <2>4. frames \in Seq(FrameRecord) /\ ids \in Nat
    BY DEF Shapes
  <2> HIDE DEF new
  <2>5. frames \o new \in Seq(FrameRecord) /\ Len(frames \o new) = Len(frames) + Len(new)
    BY <2>2, <2>4, ConcatParts
  <2> QED
    BY <1>1, <2>2, <2>3, <2>4, <2>5
<1>6. Shapes'
  <2>1. defs' \in Definitions
    BY <1>3, <1>4, Parts DEF Definitions
  <2> QED
    BY <1>1, <1>5, <2>1 DEF Shapes
<1>7. LimitsFit' /\ NamesFit'
  <2>1. \A j \in 1 .. m + k - 1 : j \in 1 .. m - 1 \/ j \in m .. m - 1 + k
    BY <1>4
  <2>2. \A j \in 1 .. m - 1 : defs.limits[j] \in Nat /\ defs.limits[j] <= c
    BY <1>1, <1>2, <1>4, Parts DEF LimitsFit
  <2>3. \A j \in 1 .. m + k - 1 : defs'.limits[j] <= c
    BY <1>2, <1>4, <2>1, <2>2
  <2>4. ASSUME NEW i \in 1 .. m + k - 1, NEW j \in 1 .. m + k - 1, i <= j
        PROVE  defs'.limits[i] <= defs'.limits[j]
    <3>1. CASE j \in 1 .. m - 1
      <4>1. i \in 1 .. m - 1
        BY <2>4, <3>1
      <4> QED
        BY <1>1, <1>4, <2>4, <3>1, <4>1 DEF LimitsFit
    <3>2. CASE j \in m .. m - 1 + k
      BY <1>4, <2>3, <3>2
    <3> QED
      BY <2>1, <3>1, <3>2
  <2>5. LimitsFit'
    <3>1. Len(defs'.limits) = Len(frames') - 1 /\ Len(frames') - 1 = m + k - 1
      BY <1>1, <1>4, <1>5
    <3> QED
      BY <1>2, <1>3, <2>3, <2>4, <3>1 DEF LimitsFit
  <2> QED
    BY <1>3, <2>5 DEF NamesFit
<1>8. ASSUME NEW j \in 1 .. m PROVE Scopes'[j] = Scopes[j]
  <2>1. Below(j)' = Below(j)
    BY <1>1, <1>4 DEF Below
  <2>2. Above(j)' = Above(j)
    <3>1. CASE j = m /\ k > 0
      <4>1. j \in m .. m - 1 + k /\ j # m + k
        BY <3>1
      <4> QED
        BY <1>1, <1>2, <1>4, <1>5, <3>1, <4>1 DEF Above
    <3>2. CASE j = m /\ k = 0
      BY <1>1, <1>3, <1>5, <3>2 DEF Above
    <3>3. CASE j # m
      <4>1. j \in 1 .. m - 1 /\ j # m + k
        BY <3>3
      <4> QED
        BY <1>1, <1>4, <1>5, <4>1, <3>3 DEF Above
    <3> QED
      BY <3>1, <3>2, <3>3
  <2> QED
    BY <1>1, <1>3, <1>5, <2>1, <2>2 DEF Scopes
<1>9. ASSUME NEW j \in m + 1 .. m + k PROVE Scopes'[j] = {}
  <2>1. Below(j)' = c
    BY <1>1, <1>4 DEF Below
  <2>2. Above(j)' = c
    <3>1. CASE j = m + k
      BY <1>2, <1>3, <1>5, <3>1 DEF Above
    <3>2. CASE j # m + k
      <4>1. j \in m .. m - 1 + k
        BY <3>2
      <4> QED
        BY <1>4, <1>5, <3>2, <4>1 DEF Above
    <3> QED
      BY <3>1, <3>2
  <2> QED
    BY <1>1, <1>2, <1>5, <2>1, <2>2 DEF Scopes
<1>10. Scopes' = Scopes \o [j \in 1 .. k |-> {}]
  <2> DEFINE empty == [j \in 1 .. k |-> {}]
  <2>1. empty \in [1 .. k -> SUBSET FunNames]
    OBVIOUS
  <2>2. empty \in Seq(SUBSET FunNames) /\ Len(empty) = k
    BY <2>1, FunctionIsSeq
  <2>3. \A j \in 1 .. k : empty[j] = {}
    OBVIOUS
  <2> HIDE DEF empty
  <2>4. Scopes \in Seq(SUBSET FunNames) /\ Len(Scopes) = m
    BY <1>1, ScopesSeq
  <2>5. Scopes' \in Seq(SUBSET FunNames) /\ Len(Scopes') = m + k
    <3>1. Scopes' \in [1 .. m + k -> SUBSET FunNames]
      <4>1. \A j \in 1 .. m + k : Scopes'[j] \in SUBSET FunNames
        BY <1>1, <1>8, <1>9, <2>4
      <4>2. Scopes' = [j \in 1 .. m + k |-> Scopes'[j]]
        BY <1>5 DEF Scopes
      <4> QED
        BY <4>1, <4>2
    <3> QED
      BY <1>1, <3>1, FunctionIsSeq
  <2>6. /\ Scopes \o empty \in Seq(SUBSET FunNames) /\ Len(Scopes \o empty) = m + k
        /\ \A j \in 1 .. m : (Scopes \o empty)[j] = Scopes[j]
        /\ \A j \in m + 1 .. m + k : (Scopes \o empty)[j] = empty[j - m] /\ j - m \in 1 .. k
    <3>1. PICK s \in Seq(SUBSET FunNames) : s = Scopes
      BY <2>4
    <3>2. PICK t \in Seq(SUBSET FunNames) : t = empty
      BY <2>2
    <3>3. /\ s \o t \in Seq(SUBSET FunNames) /\ Len(s \o t) = Len(s) + Len(t)
          /\ \A j \in 1 .. Len(s) : (s \o t)[j] = s[j]
          /\ \A j \in Len(s) + 1 .. Len(s) + Len(t) :
               (s \o t)[j] = t[j - Len(s)] /\ j - Len(s) \in 1 .. Len(t)
      BY ConcatParts
    <3>4. Len(s) = m /\ Len(t) = k
      BY <2>2, <2>4, <3>1, <3>2
    <3>5. /\ s \o t \in Seq(SUBSET FunNames) /\ Len(s \o t) = m + k
          /\ \A j \in 1 .. m : (s \o t)[j] = s[j]
          /\ \A j \in m + 1 .. m + k : (s \o t)[j] = t[j - m] /\ j - m \in 1 .. k
      BY <3>3, <3>4
    <3> QED
      BY <3>1, <3>2, <3>5
  <2>7. \A j \in 1 .. m + k : Scopes'[j] = (Scopes \o empty)[j]
    <3>1. \A j \in 1 .. m + k : j \in 1 .. m \/ j \in m + 1 .. m + k
      OBVIOUS
    <3> QED
      BY <1>8, <1>9, <2>3, <2>6, <3>1
  <2>8. Scopes' = Scopes \o empty
    BY <2>5, <2>6, <2>7, SeqEqual
  <2> QED
    BY <2>8 DEF empty
<1>11. Globals' = Globals
  BY <1>3 DEF Globals
<1> QED
  BY <1>6, <1>7, <1>10, <1>11 DEF Abstract!Push, Globals

\* pop: the names of the scopes that go, and no others, are no longer defined.
LEMMA PopStep ==
  ASSUME ScopesInv, NEW k \in Nat, Pop(k)
  PROVE  ScopesInv' /\ Abstract!Pop(k)
<1> USE DEF ScopesInv
<1>1. PICK m \in Nat \ {0} : m = Len(frames)
  BY Parts
<1>2. PICK n \in Nat : n = (IF k < m THEN k ELSE m - 1) /\ n < m
  OBVIOUS
<1>3. PICK h \in Nat \ {0} : h = m - n /\ h <= m
  <2>1. m - n \in Nat \ {0} /\ m - n <= m
    BY <1>1, <1>2
  <2> QED
    BY <2>1
<1>4. h = IF k < m THEN m - k ELSE 1
  BY <1>2, <1>3
<1>5. PICK N \in Seq(FunNames) : N = defs.scopedNames
  BY Parts
<1>6. PICK L \in Seq(Nat) : L = defs.limits /\ Len(L) = m - 1
  BY <1>1, Parts DEF LimitsFit
<1>7. PICK c \in Nat : c = Len(N)
  OBVIOUS
<1>8. frames' = SubSeq(frames, 1, h) /\ defs' = PoppedScopes(defs, n) /\ ids' = ids
  BY <1>1, <1>2, <1>3 DEF Pop
<1>9. frames' \in Seq(FrameRecord) /\ Len(frames') = h /\ Len(frames') > 0 /\ ids' \in Nat
  BY <1>1, <1>3, <1>8, Prefix DEF Shapes
<1>10. /\ Scopes \in Seq(SUBSET FunNames) /\ Len(Scopes) = m
       /\ Scopes = [j \in 1 .. m |-> Scopes[j]]
  BY <1>1, ScopesSeq DEF Scopes
<1>11. CASE n = 0
  <2>1. defs' = defs /\ frames' = frames
    <3>1. defs' = defs /\ h = m
      BY <1>3, <1>8, <1>11 DEF PoppedScopes
    <3>2. SubSeq(frames, 1, Len(frames)) = frames
      BY DEF Shapes
    <3> QED
      BY <1>1, <1>8, <3>1, <3>2
  <2>2. ScopesInv' /\ Scopes' = Scopes /\ Globals' = Globals
    BY <1>9, <2>1 DEF Shapes, LimitsFit, NamesFit, Scopes, Below, Above, Globals
  <2>3. Scopes = SubSeq(Scopes, 1, h)
    BY <1>3, <1>10, <1>11
  <2> QED
    BY <1>4, <1>10, <2>2, <2>3 DEF Abstract!Pop, Globals
<1>12. CASE n > 0
  <2>1. h \in 1 .. m - 1 /\ h - 1 \in Nat /\ h - 1 <= Len(L)
    BY <1>3, <1>6, <1>12
  <2>2. PICK e \in Nat : e = L[h] /\ e <= c
    <3>1. L[h] \in Nat
      BY <1>6, <2>1
    <3>2. L[h] <= c
      BY <1>1, <1>5, <1>6, <1>7, <2>1 DEF LimitsFit
    <3> QED
      BY <3>1, <3>2
  <2> DEFINE gone == {N[i] : i \in e + 1 .. c}
  <2>3. Len(L) - n + 1 = h /\ Len(L) - n = h - 1
    BY <1>3, <1>6
  <2>4. defs' = [table |-> Without(defs.table, gone),
                 scopedNames |-> SubSeq(N, 1, e),
                 limits |-> SubSeq(L, 1, h - 1)]
    <3>1. n # 0
      BY <1>12
    <3>2. defs.limits[Len(defs.limits) - n + 1] = e /\ Len(defs.limits) - n = h - 1
      BY <1>6, <2>2, <2>3
    <3> QED
      BY <1>5, <1>6, <1>7, <1>8, <3>1, <3>2 DEF PoppedScopes
  <2>5. /\ defs'.table = Without(defs.table, gone)
        /\ defs'.scopedNames = SubSeq(N, 1, e)
        /\ defs'.limits = SubSeq(L, 1, h - 1)
    BY <2>4
  <2>6. /\ defs'.scopedNames \in Seq(FunNames) /\ Len(defs'.scopedNames) = e
        /\ \A i \in 1 .. e : defs'.scopedNames[i] = N[i]
    BY <1>7, <2>2, <2>5, Prefix, SMTT(30)
  <2>7. /\ defs'.limits \in Seq(Nat) /\ Len(defs'.limits) = h - 1
        /\ \A j \in 1 .. h - 1 : defs'.limits[j] = L[j]
    <3>1. PICK g \in Nat : g = h - 1
      BY <2>1
    <3>2. /\ SubSeq(L, 1, g) \in Seq(Nat) /\ Len(SubSeq(L, 1, g)) = g
          /\ \A j \in 1 .. g : SubSeq(L, 1, g)[j] = L[j]
      BY <2>1, <3>1, Prefix
    <3> QED
      BY <2>5, <3>1, <3>2
  <2>8. DOMAIN defs'.table = DOMAIN defs.table \ gone
    BY <2>5 DEF Without
  <2>9. Shapes'
    <3>1. PICK D \in SUBSET FunNames : defs.table \in [D -> Terms]
      BY Parts DEF Tables
    <3>2. defs'.table \in [D \ gone -> Terms]
      BY <2>5, <3>1 DEF Without
    <3>3. defs'.table \in Tables
      BY <3>2 DEF Tables
    <3>4. defs' = [table |-> defs'.table, scopedNames |-> defs'.scopedNames, limits |-> defs'.limits]
      BY <2>4
    <3>5. defs' \in Definitions
      BY <2>6, <2>7, <3>3, <3>4 DEF Definitions
    <3> QED
      BY <1>9, <3>5 DEF Shapes
  <2>10. LimitsFit'
    <3>1. \A j \in 1 .. h - 1 : j \in 1 .. m - 1 /\ j <= h
      BY <2>1
    <3>2. \A i, j \in 1 .. m - 1 : i <= j => L[i] <= L[j]
      BY <1>1, <1>6 DEF LimitsFit
    <3>3. \A j \in 1 .. h - 1 : L[j] <= e
      BY <2>1, <2>2, <3>1, <3>2
    <3>4. \A i, j \in 1 .. h - 1 : i <= j => L[i] <= L[j]
      BY <3>1, <3>2
    <3> QED
      BY <1>9, <2>6, <2>7, <3>3, <3>4 DEF LimitsFit
  <2>11. /\ \A i, j \in 1 .. c : N[i] = N[j] => i = j
         /\ \A i \in 1 .. c : N[i] \in DOMAIN defs.table
    BY <1>5, <1>7 DEF NamesFit
  <2>12. /\ \A i \in 1 .. e : i \in 1 .. c
         /\ \A i \in e + 1 .. c : i \in 1 .. c /\ i \notin 1 .. e
         /\ \A i \in 1 .. c : i \in 1 .. e \/ i \in e + 1 .. c
    BY <2>2
  <2>13. NamesFit'
    <3>1. \A i \in 1 .. e : N[i] \notin gone
      BY <2>11, <2>12
    <3>2. \A i \in 1 .. e : defs'.scopedNames[i] \in DOMAIN defs'.table
      BY <2>6, <2>8, <2>11, <2>12, <3>1
    <3>3. \A i, j \in 1 .. e : defs'.scopedNames[i] = defs'.scopedNames[j] => i = j
      BY <2>6, <2>11, <2>12
    <3> QED
      BY <2>6, <3>2, <3>3 DEF NamesFit
  <2>14. Globals' = Globals
    <3>1. ToSet(defs.scopedNames) = {N[i] : i \in 1 .. c}
      BY <1>5, <1>7, ToSetRange
    <3>2. ToSet(defs'.scopedNames) = {defs'.scopedNames[i] : i \in 1 .. e}
      BY <2>6, ToSetRange
    <3>3. {defs'.scopedNames[i] : i \in 1 .. e} = {N[i] : i \in 1 .. e}
      BY <2>6
    <3>4. {N[i] : i \in 1 .. c} = gone \cup {N[i] : i \in 1 .. e}
      BY <2>12
    <3> QED
      BY <2>8, <3>1, <3>2, <3>3, <3>4 DEF Globals
  <2>15. ASSUME NEW j \in 1 .. h PROVE Scopes'[j] = Scopes[j]
    <3>1. j \in 1 .. m /\ j # m
      BY <2>1
    <3>2. Below(j)' = Below(j)
      <4>1. j # 1 => j - 1 \in 1 .. h - 1
        BY <2>1
      <4> QED
        BY <1>6, <2>7, <4>1 DEF Below
    <3>3. Above(j)' = Above(j)
      <4>1. Above(j) = L[j]
        BY <1>1, <1>6, <3>1 DEF Above
      <4>2. CASE j = h
        BY <1>9, <2>2, <2>6, <4>1, <4>2 DEF Above
      <4>3. CASE j # h
        <5>1. j \in 1 .. h - 1
          BY <2>1, <4>3
        <5> QED
          BY <1>9, <2>7, <4>1, <4>3, <5>1 DEF Above
      <4> QED
        BY <4>2, <4>3
    <3>4. Above(j) \in Nat /\ Above(j) <= e /\ Below(j) \in Nat
      <4>1. Above(j) = L[j]
        BY <1>1, <1>6, <3>1 DEF Above
      <4>2. j \in 1 .. m - 1 /\ h \in 1 .. m - 1 /\ j <= h
        BY <2>1
      <4>3. \A i, u \in 1 .. m - 1 : i <= u => L[i] <= L[u]
        BY <1>1, <1>6 DEF LimitsFit
      <4>4. L[j] <= e
        BY <2>2, <4>2, <4>3
      <4> QED
        BY <1>1, <3>1, <4>1, <4>4, ScopesSeq
    <3>5. \A i \in Below(j) + 1 .. Above(j) : i \in 1 .. e
      BY <3>4
    <3>6. Scopes[j] = {N[i] : i \in Below(j) + 1 .. Above(j)}
      BY <1>1, <1>5, <3>1 DEF Scopes
    <3>7. Scopes'[j] = {defs'.scopedNames[i] : i \in Below(j) + 1 .. Above(j)}
      BY <1>9, <3>2, <3>3 DEF Scopes
    <3> QED
      BY <2>6, <3>5, <3>6, <3>7
  <2>16. Scopes' = SubSeq(Scopes, 1, h)
    <3>1. Scopes' = [j \in 1 .. h |-> Scopes'[j]]
      BY <1>9 DEF Scopes
    <3>2. SubSeq(Scopes, 1, h) = [j \in 1 .. h |-> Scopes[j]]
      BY <1>3, <1>10
    <3> QED
      BY <2>15, <3>1, <3>2
  <2> QED
    BY <1>4, <1>10, <2>9, <2>10, <2>13, <2>14, <2>16 DEF Abstract!Pop, Globals
<1> QED
  BY <1>2, <1>11, <1>12

-----------------------------------------------------------------------------
\* assert, check-sat and set-option define nothing and remove nothing.
LEMMA OtherStep ==
  ASSUME ScopesInv, defs' = defs, ids' = ids,
         frames' \in Seq(FrameRecord), Len(frames') = Len(frames)
  PROVE  ScopesInv' /\ Scopes' = Scopes /\ Globals' = Globals
<1>1. ScopesInv'
  BY DEF ScopesInv, Shapes, LimitsFit, NamesFit
<1>2. Scopes' = Scopes
  BY DEF Scopes, Below, Above
<1> QED
  BY <1>1, <1>2 DEF Globals

\* insertFormula() replaces the top frame by one with a formula more.
LEMMA AssertTermFrames ==
  ASSUME ScopesInv, NEW t \in Resolvable, NEW n, AssertTerm(t, n)
  PROVE  defs' = defs /\ ids' = ids /\ frames' \in Seq(FrameRecord) /\ Len(frames') = Len(frames)
<1>1. CASE Resolved(t) \in Formulas
  <2>1. PICK f \in Formulas : f = Resolved(t)
    BY <1>1
  <2>2. PICK m \in Nat \ {0} : m = Len(frames)
    BY Parts DEF ScopesInv
  <2>3. frames' = [frames EXCEPT ![m].formulas = Append(@, f)] /\ ids' = ids /\ defs' = defs
    BY <1>1, <2>1, <2>2 DEF AssertTerm, Inserted
  <2>4. frames \in [1 .. m -> FrameRecord] /\ m \in 1 .. m
    BY <2>2 DEF ScopesInv, Shapes
  <2>5. PICK r \in FrameRecord : r = frames[m]
    BY <2>4
  <2>6. r.formulas \in Seq(Formulas) /\ r.id \in Nat
    BY DEF FrameRecord
  <2>7. Append(r.formulas, f) \in Seq(Formulas)
    BY <2>6, AppendProperties
  <2>8. [r EXCEPT !.formulas = Append(@, f)] \in FrameRecord
    BY <2>7 DEF FrameRecord
  <2>9. frames' = [frames EXCEPT ![m] = [r EXCEPT !.formulas = Append(@, f)]]
    BY <2>3, <2>5
  <2>10. frames' \in [1 .. m -> FrameRecord]
    BY <2>4, <2>8, <2>9
  <2>11. frames' \in Seq(FrameRecord) /\ Len(frames') = m
    BY <2>10, FunctionIsSeq
  <2> QED
    BY <2>2, <2>3, <2>11
<1>2. CASE Resolved(t) \notin Formulas
  BY <1>2 DEF AssertTerm, solver, ScopesInv, Shapes
<1> QED
  BY <1>1, <1>2

\* Every command of the session is one of the promise, or leaves it alone.
LEMMA NextScopes ==
  ASSUME ScopesInv, [Next]_vars
  PROVE  ScopesInv' /\ [Abstract!Next]_<<Scopes, Globals>>
<1>1. CASE \E b \in BOOLEAN : SetGlobalDeclarations(b)
  BY <1>1, OtherStep DEF SetGlobalDeclarations, solver, ScopesInv, Shapes
<1>2. CASE \E n \in FunNames, t \in Resolvable : DefineFun(n, t)
  BY <1>2, DefineFunStep DEF Abstract!Next
<1>3. CASE \E t \in Resolvable, n \in Names \union {NoName} : AssertTerm(t, n)
  BY <1>3, AssertTermFrames, OtherStep
<1>4. CASE \E k \in 0 .. MaxNumeral : Push(k)
  BY <1>4, PushStep DEF Abstract!Next
<1>5. CASE \E k \in 0 .. MaxNumeral : Pop(k)
  BY <1>5, PopStep DEF Abstract!Next
<1>6. CASE SimplifyFrame
  BY <1>6, OtherStep DEF SimplifyFrame, ScopesInv, Shapes
<1>7. CASE GiveToSolver
  BY <1>7, OtherStep DEF GiveToSolver, ScopesInv, Shapes
<1>8. CASE UNCHANGED vars
  BY <1>8, OtherStep DEF vars, ScopesInv, Shapes
<1> QED
  BY <1>1, <1>2, <1>3, <1>4, <1>5, <1>6, <1>7, <1>8 DEF Next, Command

\* The definitions in force follow the assertion stack, however many frames,
\* names and pops there are: DefinedFunctions implements DefinitionScopes.
THEOREM ScopesImplementPromise == Spec => ScopesFollowFrames
<1>1. Init => ScopesInv /\ Abstract!Init
  BY InitScopes
<1>2. ScopesInv /\ [Next]_vars => ScopesInv' /\ [Abstract!Next]_<<Scopes, Globals>>
  BY NextScopes
<1> QED
  BY <1>1, <1>2, PTL DEF Spec, ScopesFollowFrames, Abstract!Spec, Globals

-----------------------------------------------------------------------------
\* Partitions.
Indexes == UNION {[D -> Nat] : D \in SUBSET Formulas}
Partitioning == [count : Nat, index : Indexes, bits : [Formulas -> SUBSET Nat]]

PartShapes ==
  /\ global \in BOOLEAN /\ DOMAIN nameToTerm \subseteq Names /\ assertions \in Seq(Terms)
  /\ simplified \in 0 .. Len(frames) /\ pending \in Seq(Formulas)
  /\ parts \in Partitioning
  /\ clauses \in SUBSET [conjunct : Formulas, frame : Nat, part : Nat]

In(f, j) == f \in ToSet(frames[j].formulas)

\* Frames have ids of their own, known to the clauses; their formulas are numbered.
FramesFit ==
  /\ frames[1].id = 0
  /\ \A j \in 1 .. Len(frames) : frames[j].id < ids
  /\ \A j, k \in 1 .. Len(frames) : frames[j].id = frames[k].id => j = k
  /\ \A c \in clauses : c.frame < ids
  /\ \A j \in 1 .. Len(frames) : \A f : In(f, j) => f \in DOMAIN parts.index
  /\ pending # <<>> => simplified > 0 /\ \A f \in ToSet(pending) : In(f, simplified)

\* The numbers of a regular session: PartitionManager's are the places in the vector of
\* assertions, and no formula is in two frames.
NumbersFit ==
  /\ parts.count = Len(assertions)
  /\ \A k \in 1 .. Len(assertions) :
       assertions[k] \in DOMAIN parts.index /\ parts.index[assertions[k]] = k - 1
  /\ \A f \in DOMAIN parts.index : \E k \in 1 .. Len(assertions) : assertions[k] = f
  /\ \A j, k \in 1 .. Len(frames) : \A f : In(f, j) /\ In(f, k) => j = k

\* A clause of a frame was made from one of the frame's formulas and has its number;
\* numbers of formulas on the stack are not invalidated.
Source(c, f, j) == In(f, j) /\ c.conjunct \in conjuncts[f] /\ c.part = parts.index[f]
BitsFit ==
  /\ \A c \in clauses : \A j \in 1 .. Len(frames) : c.frame = frames[j].id =>
       c.part \in parts.bits[c.conjunct] /\ \E f : Source(c, f, j)
  /\ \A j \in 1 .. Len(frames) : \A f : In(f, j) => parts.index[f] \in parts.bits[f]

PartRest == PartShapes /\ FramesFit /\ NothingLost /\ (Regular => NumbersFit /\ BitsFit)
PartInv == ScopesInv /\ PartRest

-----------------------------------------------------------------------------
LEMMA SetOfSeq ==
  ASSUME NEW S, NEW s \in Seq(S)
  PROVE  /\ ToSet(s) \subseteq S
         /\ \A x \in S : ToSet(Append(s, x)) = ToSet(s) \cup {x}
         /\ s # <<>> => /\ Head(s) \in ToSet(s) /\ Tail(s) \in Seq(S)
                        /\ ToSet(Tail(s)) \subseteq ToSet(s)
                        /\ ToSet(s) \subseteq ToSet(Tail(s)) \cup {Head(s)}
<1>1. ToSet(s) = {s[i] : i \in 1 .. Len(s)} /\ Len(s) \in Nat
  BY ToSetRange
<1>2. ASSUME NEW x \in S PROVE ToSet(Append(s, x)) = ToSet(s) \cup {x}
  <2>1. /\ Append(s, x) \in Seq(S) /\ Len(Append(s, x)) = Len(s) + 1 /\ Append(s, x)[Len(s) + 1] = x
        /\ \A i \in 1 .. Len(s) : Append(s, x)[i] = s[i]
    OBVIOUS
  <2>2. ToSet(Append(s, x)) = {Append(s, x)[i] : i \in 1 .. Len(s) + 1}
    BY <2>1, ToSetRange
  <2>3. 1 .. Len(s) + 1 = (1 .. Len(s)) \cup {Len(s) + 1}
    BY <1>1
  <2> QED BY <1>1, <2>1, <2>2, <2>3
<1>3. ASSUME s # <<>>
      PROVE  /\ Head(s) \in ToSet(s) /\ Tail(s) \in Seq(S) /\ ToSet(Tail(s)) \subseteq ToSet(s)
             /\ ToSet(s) \subseteq ToSet(Tail(s)) \cup {Head(s)}
  <2>1. /\ Tail(s) \in Seq(S) /\ Len(Tail(s)) = Len(s) - 1 /\ Len(s) > 0 /\ Head(s) = s[1]
        /\ \A i \in 1 .. Len(s) - 1 : Tail(s)[i] = s[i + 1] /\ i + 1 \in 1 .. Len(s)
    BY <1>3
  <2>2. ToSet(Tail(s)) = {Tail(s)[i] : i \in 1 .. Len(s) - 1}
    BY <2>1, ToSetRange
  <2>3. \A i \in 1 .. Len(s) : i = 1 \/ (i - 1 \in 1 .. Len(s) - 1 /\ (i - 1) + 1 = i)
    BY <1>1
  <2>4. ToSet(Tail(s)) \subseteq ToSet(s)
    BY <1>1, <2>1, <2>2
  <2>5. ASSUME NEW x \in ToSet(s) PROVE x \in ToSet(Tail(s)) \cup {Head(s)}
    <3>1. PICK i \in 1 .. Len(s) : x = s[i]
      BY <1>1
    <3>2. CASE i = 1
      BY <2>1, <3>1, <3>2
    <3>3. CASE i # 1
      <4>1. i - 1 \in 1 .. Len(s) - 1 /\ (i - 1) + 1 = i
        BY <2>3, <3>3
      <4>2. Tail(s)[i - 1] = x
        BY <2>1, <3>1, <4>1
      <4> QED BY <2>2, <4>1, <4>2
    <3> QED BY <3>2, <3>3
  <2>6. Head(s) \in ToSet(s)
    BY <1>1, <2>1
  <2> QED BY <2>1, <2>4, <2>5, <2>6
<1>4. \A i \in 1 .. Len(s) : s[i] \in S
  OBVIOUS
<1> QED
  BY <1>1, <1>2, <1>3, <1>4

LEMMA EmptySeqSet == ToSet(<<>>) = {}
<1>1. DOMAIN <<>> = {}
  OBVIOUS
<1> QED
  BY <1>1 DEF ToSet

\* Frames and what they hold, typed.
LEMMA FrameParts ==
  ASSUME Shapes, NEW j \in 1 .. Len(frames)
  PROVE  /\ frames[j] \in FrameRecord /\ frames[j].id \in Nat /\ frames[j].formulas \in Seq(Formulas)
         /\ \A f : In(f, j) => f \in Formulas
<1>1. frames[j] \in FrameRecord
  BY DEF Shapes
<1>2. frames[j].id \in Nat /\ frames[j].formulas \in Seq(Formulas)
  BY <1>1 DEF FrameRecord
<1> QED
  BY <1>1, <1>2, SetOfSeq DEF In

LEMMA PartitionParts ==
  ASSUME parts \in Partitioning
  PROVE  /\ parts.count \in Nat /\ DOMAIN parts.index \subseteq Formulas
         /\ \A f \in DOMAIN parts.index : parts.index[f] \in Nat
         /\ parts.bits \in [Formulas -> SUBSET Nat]
<1>1. parts.count \in Nat /\ parts.index \in Indexes /\ parts.bits \in [Formulas -> SUBSET Nat]
  BY DEF Partitioning
<1> QED
  BY <1>1 DEF Indexes

LEMMA InitPartitions == Init => PartInv
<1> SUFFICES ASSUME Init PROVE PartInv
  OBVIOUS
<1>1. ScopesInv
  BY InitScopes
<1>2. /\ frames = <<[id |-> 0, formulas |-> <<>>]>> /\ simplified = 0 /\ pending = <<>> /\ ids = 1
      /\ assertions = <<>> /\ clauses = {} /\ nameToTerm = <<>>
      /\ parts = [count |-> 0, index |-> <<>>, bits |-> [f \in Formulas |-> {}]]
  BY DEF Init
<1>3. /\ Len(frames) = 1 /\ frames[1].id = 0 /\ frames[1].formulas = <<>> /\ Len(assertions) = 0
      /\ parts.count = 0 /\ DOMAIN parts.index = {} /\ \A j \in 1 .. Len(frames) : j = 1
  <2>1. DOMAIN <<>> = {}
    OBVIOUS
  <2> QED BY <1>2, <2>1
<1>4. \A j \in 1 .. Len(frames) : \A f : ~In(f, j)
  BY <1>3, EmptySeqSet DEF In
<1>5. parts \in Partitioning
  <2>1. <<>> \in [{} -> Nat]
    OBVIOUS
  <2>2. <<>> \in Indexes
    BY <2>1 DEF Indexes
  <2>3. [f \in Formulas |-> {}] \in [Formulas -> SUBSET Nat]
    OBVIOUS
  <2> QED BY <1>2, <2>2, <2>3 DEF Partitioning
<1>6. global \in BOOLEAN
  BY Zenon DEF Init
<1>7. DOMAIN nameToTerm = {}
  <2>1. DOMAIN <<>> = {}
    OBVIOUS
  <2> QED BY <1>2, <2>1
<1>8. PartShapes
  BY <1>2, <1>3, <1>5, <1>6, <1>7 DEF PartShapes
<1>9. FramesFit
  BY <1>2, <1>3, <1>4 DEF FramesFit
<1>10. NothingLost
  BY <1>2 DEF NothingLost
<1>11. NumbersFit /\ BitsFit
  BY <1>2, <1>3, <1>4 DEF NumbersFit, BitsFit
<1> QED
  BY <1>1, <1>8, <1>9, <1>10, <1>11 DEF PartInv, PartRest

\* Commands about definitions.
LEMMA QuietPartitions ==
  ASSUME PartRest, UNCHANGED <<assertions, solver>>, global' \in BOOLEAN,
         DOMAIN nameToTerm' \subseteq Names
  PROVE  PartRest'
<1>1. UNCHANGED <<assertions, frames, simplified, pending, ids, parts, clauses>>
  BY DEF solver
<1>2. \A f, j : In(f, j)' <=> In(f, j)
  BY <1>1 DEF In
<1>3. PartShapes'
  BY <1>1 DEF PartRest, PartShapes
<1>4. FramesFit'
  BY <1>1 DEF PartRest, FramesFit, In
<1>5. NothingLost'
  BY <1>1 DEF PartRest, NothingLost, Given
<1>6. Regular' => NumbersFit' /\ BitsFit'
  BY <1>1 DEF PartRest, Regular, NumbersFit, BitsFit, Source, In
<1> QED
  BY <1>3, <1>4, <1>5, <1>6 DEF PartRest

\* A formula of the frame under way goes to the solver.
LEMMA GivePartitions ==
  ASSUME PartInv, GiveToSolver
  PROVE  PartRest'
<1> DEFINE f == Head(pending)
           id == frames[simplified].id
           known == {c.conjunct : c \in {d \in clauses : d.frame \in {0, id}}}
           new == {[conjunct |-> x, frame |-> id, part |-> parts.index[f]] : x \in conjuncts[f] \ known}
<1>1. /\ pending # <<>> /\ pending' = Tail(pending) /\ clauses' = clauses \cup new
      /\ parts' = [parts EXCEPT !.bits = Propagated(parts.bits, f)]
      /\ UNCHANGED <<global, nameToTerm, assertions, frames, simplified, ids>>
  BY DEF GiveToSolver, Cnfized
<1>2. PartShapes /\ FramesFit /\ NothingLost /\ Shapes
  BY DEF PartInv, PartRest, ScopesInv
<1>3. simplified \in 1 .. Len(frames) /\ pending \in Seq(Formulas) /\ parts \in Partitioning
  BY <1>1, <1>2, Parts DEF PartShapes, FramesFit
<1>4. /\ f \in ToSet(pending) /\ pending' \in Seq(Formulas) /\ ToSet(pending') \subseteq ToSet(pending)
      /\ ToSet(pending) \subseteq ToSet(pending') \cup {f}
  BY <1>1, <1>3, SetOfSeq
<1>5. /\ In(f, simplified) /\ f \in Formulas /\ f \in DOMAIN parts.index /\ parts.index[f] \in Nat
      /\ id \in Nat /\ id < ids
  <2>1. In(f, simplified)
    BY <1>1, <1>2, <1>4 DEF FramesFit
  <2>2. f \in Formulas /\ id \in Nat
    BY <1>2, <1>3, <2>1, FrameParts
  <2>3. f \in DOMAIN parts.index /\ id < ids
    BY <1>2, <1>3, <2>1 DEF FramesFit
  <2> QED BY <1>3, <2>1, <2>2, <2>3, PartitionParts
<1>6. conjuncts[f] \subseteq Formulas
  BY <1>5, ConjunctsAssumption
<1>7. \A c \in new : /\ c \in [conjunct : Formulas, frame : Nat, part : Nat] /\ c.frame = id
                     /\ c.conjunct \in conjuncts[f] /\ c.part = parts.index[f]
  <2>1. ASSUME NEW x \in conjuncts[f]
        PROVE  [conjunct |-> x, frame |-> id, part |-> parts.index[f]] \in [conjunct : Formulas, frame : Nat, part : Nat]
    BY <1>5, <1>6
  <2> QED BY <2>1
<1> HIDE DEF f, id, new, known
<1>8. /\ parts' \in Partitioning /\ parts'.count = parts.count /\ parts'.index = parts.index
      /\ \A g \in Formulas : parts'.bits[g] = IF g \in conjuncts[f] THEN parts.bits[g] \cup parts.bits[f]
                                              ELSE parts.bits[g]
  <2>1. PICK B : B = Propagated(parts.bits, f)
    OBVIOUS
  <2>2. B = [g \in Formulas |-> IF g \in conjuncts[f] THEN parts.bits[g] \cup parts.bits[f] ELSE parts.bits[g]]
    BY <2>1 DEF Propagated
  <2>3. B \in [Formulas -> SUBSET Nat]
    <3>1. \A g \in Formulas : parts.bits[g] \in SUBSET Nat
      BY <1>3, PartitionParts
    <3> QED BY <1>5, <2>2, <3>1
  <2>4. parts' = [parts EXCEPT !.bits = B]
    BY <1>1, <2>1
  <2>5. parts' \in Partitioning /\ parts'.count = parts.count /\ parts'.index = parts.index /\ parts'.bits = B
    BY <1>3, <2>3, <2>4 DEF Partitioning
  <2> QED BY <2>2, <2>5
<1>9. PartShapes'
  BY <1>1, <1>2, <1>4, <1>7, <1>8 DEF PartShapes
<1>10. FramesFit'
  <2>1. \A c \in clauses' : c.frame < ids'
    BY <1>1, <1>2, <1>5, <1>7 DEF FramesFit
  <2>2. \A g \in ToSet(pending') : In(g, simplified)
    BY <1>1, <1>2, <1>4 DEF FramesFit
  <2>3. simplified > 0
    BY <1>3, <1>2, Parts
  <2> QED BY <1>1, <1>2, <1>8, <2>1, <2>2, <2>3 DEF FramesFit, In
<1>11. NothingLost'
  <2>1. SUFFICES ASSUME NEW j \in 1 .. simplified, NEW g \in Given(j)', NEW x \in conjuncts[g]
                 PROVE  \E c \in clauses' : c.conjunct = x /\ c.frame \in {0, frames[j].id}
    BY <1>1 DEF NothingLost
  <2>2. CASE g \in Given(j)
    <3>1. PICK c \in clauses : c.conjunct = x /\ c.frame \in {0, frames[j].id}
      BY <1>2, <2>2 DEF NothingLost
    <3> QED BY <1>1, <3>1
  <2>3. CASE g \notin Given(j)
    <3>1. j = simplified /\ g = f
      BY <1>1, <1>4, <2>3 DEF Given
    <3>2. CASE x \in known
      <4>1. PICK c \in clauses : c.conjunct = x /\ c.frame \in {0, id}
        BY <3>2 DEF known
      <4> QED BY <1>1, <3>1, <4>1 DEF id
    <3>3. CASE x \notin known
      <4>1. PICK c : c = [conjunct |-> x, frame |-> id, part |-> parts.index[f]]
        OBVIOUS
      <4>2. c \in new /\ c.conjunct = x /\ c.frame = id
        BY <3>1, <3>3, <4>1 DEF new
      <4> QED BY <1>1, <3>1, <4>2 DEF id
    <3> QED BY <3>2, <3>3
  <2> QED BY <2>2, <2>3
<1>12. ASSUME Regular' PROVE NumbersFit' /\ BitsFit'
  <2>1. NumbersFit /\ BitsFit
    BY <1>1, <1>12 DEF PartInv, PartRest, Regular
  <2>2. NumbersFit'
    BY <1>1, <1>8, <2>1 DEF NumbersFit, In
  <2>3. \A g \in Formulas : parts.bits[g] \subseteq parts'.bits[g]
    BY <1>8
  <2>4. ASSUME NEW c \in clauses', NEW j \in 1 .. Len(frames), c.frame = frames[j].id
        PROVE  c.part \in parts'.bits[c.conjunct] /\ \E g : Source(c, g, j)
    <3>1. CASE c \in clauses
      <4>1. c.part \in parts.bits[c.conjunct] /\ \E g : Source(c, g, j)
        BY <2>1, <2>4, <3>1 DEF BitsFit
      <4>2. c.conjunct \in Formulas
        BY <1>2, <3>1 DEF PartShapes
      <4> QED BY <2>3, <4>1, <4>2
    <3>2. CASE c \in new
      <4>1. c.frame = id /\ c.conjunct \in conjuncts[f] /\ c.part = parts.index[f] /\ c.conjunct \in Formulas
        BY <1>6, <1>7, <3>2
      <4>2. j = simplified
        BY <1>2, <1>3, <2>4, <4>1 DEF FramesFit, id
      <4>3. Source(c, f, j)
        BY <1>5, <4>1, <4>2 DEF Source
      <4>4. parts.index[f] \in parts.bits[f]
        BY <1>3, <1>5, <2>1 DEF BitsFit
      <4> QED BY <1>8, <4>1, <4>3, <4>4
    <3> QED BY <1>1, <3>1, <3>2
  <2>5. ASSUME NEW j \in 1 .. Len(frames), NEW g, In(g, j) PROVE parts.index[g] \in parts'.bits[g]
    <3>1. g \in Formulas /\ parts.index[g] \in parts.bits[g]
      BY <1>2, <2>1, <2>5, FrameParts DEF BitsFit
    <3> QED BY <2>3, <3>1
  <2>6. BitsFit'
    BY <1>1, <1>8, <2>4, <2>5 DEF BitsFit, Source, In
  <2> QED BY <2>2, <2>6
<1> QED
  BY <1>9, <1>10, <1>11, <1>12 DEF PartRest

\* The next frame is to be given.
LEMMA SimplifyPartitions ==
  ASSUME PartInv, SimplifyFrame, pending = <<>>
  PROVE  PartRest'
<1>0. PICK p : p = simplified + 1
  OBVIOUS
<1>1. /\ simplified < Len(frames) /\ simplified' = p /\ pending' = frames[p].formulas
      /\ UNCHANGED <<global, nameToTerm, assertions, frames, ids, parts, clauses>>
  BY <1>0 DEF SimplifyFrame
<1>2. PartShapes /\ FramesFit /\ NothingLost /\ Shapes
  BY DEF PartInv, PartRest, ScopesInv
<1>3. simplified \in Nat /\ Len(frames) \in Nat /\ p \in 1 .. Len(frames) /\ p > 0
  BY <1>0, <1>1, <1>2, Parts DEF PartShapes
<1>4. pending' \in Seq(Formulas) /\ \A f \in ToSet(pending') : In(f, p)
  BY <1>1, <1>2, <1>3, FrameParts DEF In
<1>5. PartShapes'
  <2>1. p \in 0 .. Len(frames)
    BY <1>3
  <2> QED BY <1>1, <1>2, <1>4, <2>1 DEF PartShapes
<1>6. FramesFit'
  BY <1>1, <1>2, <1>3, <1>4 DEF FramesFit, In
<1>7. NothingLost'
  <2>1. \A j \in 1 .. p : j = p \/ (j \in 1 .. simplified /\ j # p)
    BY <1>0, <1>3
  <2>2. \A j : Given(j) = ToSet(frames[j].formulas)
    BY EmptySeqSet DEF Given
  <2>3. Given(p)' = {}
    <3>1. Given(p)' = ToSet(frames[p].formulas) \ ToSet(frames[p].formulas)
      BY <1>1 DEF Given
    <3> QED BY <3>1
  <2>4. ASSUME NEW j \in 1 .. simplified, j # p PROVE Given(j)' = Given(j)
    <3>1. Given(j)' = ToSet(frames[j].formulas) \ {}
      BY <1>1, <2>4 DEF Given
    <3> QED BY <2>2, <3>1
  <2> QED BY <1>1, <1>2, <2>1, <2>3, <2>4 DEF NothingLost
<1>8. Regular' => NumbersFit' /\ BitsFit'
  BY <1>1 DEF PartInv, PartRest, Regular, NumbersFit, BitsFit, Source, In
<1> QED
  BY <1>5, <1>6, <1>7, <1>8 DEF PartRest

\* New frames are empty, and no clause has their ids.
LEMMA PushPartitions ==
  ASSUME PartInv, NEW k \in 0 .. MaxNumeral, Push(k), pending = <<>>
  PROVE  PartRest'
<1>0. PICK news : /\ news = [j \in 1 .. k |-> [id |-> ids + j - 1, formulas |-> <<>>]]
                  /\ frames' = frames \o news
  BY DEF Push
<1>1. ids' = ids + k /\ UNCHANGED <<global, nameToTerm, assertions, simplified, pending, parts, clauses>>
  BY DEF Push
<1>2. PartShapes /\ FramesFit /\ NothingLost /\ Shapes
  BY DEF PartInv, PartRest, ScopesInv
<1> DEFINE n == Len(frames)
<1>3. k \in Nat /\ n \in Nat \ {0} /\ ids \in Nat /\ frames \in Seq(FrameRecord) /\ simplified \in 0 .. n
  BY <1>2, Parts DEF Shapes, PartShapes
<1>4. news \in Seq(FrameRecord) /\ Len(news) = k
  <2>1. \A j \in 1 .. k : ids + j - 1 \in Nat /\ <<>> \in Seq(Formulas)
    BY <1>3
  <2>2. news \in [1 .. k -> FrameRecord]
    BY <1>0, <2>1 DEF FrameRecord
  <2> QED BY <1>3, <2>2, FunctionIsSeq
<1>5. \A j \in 1 .. k : news[j].id = ids + j - 1 /\ news[j].formulas = <<>>
  BY <1>0
<1>6. /\ Len(frames') = n + k /\ \A j \in 1 .. n : frames'[j] = frames[j]
      /\ \A j \in n + 1 .. n + k : frames'[j] = news[j - n] /\ j - n \in 1 .. k
  <2>1. frames' = frames \o news
    BY <1>0
  <2>2. PICK F \in Seq(FrameRecord) : F = frames
    BY <1>3
  <2>3. /\ Len(F \o news) = Len(F) + Len(news) /\ \A j \in 1 .. Len(F) : (F \o news)[j] = F[j]
        /\ \A j \in Len(F) + 1 .. Len(F) + Len(news) :
             (F \o news)[j] = news[j - Len(F)] /\ j - Len(F) \in 1 .. Len(news)
    BY <1>4, ConcatParts
  <2> QED BY <1>4, <2>1, <2>2, <2>3
<1> HIDE DEF n
<1>7. \A j \in 1 .. n + k : j \in 1 .. n \/ j \in n + 1 .. n + k
  BY <1>3
<1>8. ASSUME NEW j \in n + 1 .. n + k
      PROVE  frames'[j].id = ids + (j - n) - 1 /\ frames'[j].id >= ids /\ \A f : ~In(f, j)'
  <2>1. frames'[j] = news[j - n] /\ j - n \in 1 .. k
    BY <1>6
  <2>2. frames'[j].id = ids + (j - n) - 1 /\ frames'[j].formulas = <<>>
    BY <1>5, <2>1
  <2>3. ids + (j - n) - 1 >= ids
    BY <1>3, <2>1
  <2> QED BY <2>2, <2>3, EmptySeqSet DEF In
<1>9. \A j \in 1 .. n : /\ frames'[j].id = frames[j].id /\ frames[j].id \in Nat /\ frames[j].id < ids
                        /\ \A f : In(f, j)' <=> In(f, j)
  <2>1. \A j \in 1 .. n : frames[j].id \in Nat /\ frames[j].id < ids
    BY <1>2, FrameParts DEF FramesFit, n
  <2> QED BY <1>6, <2>1 DEF In
<1>10. PartShapes'
  <2>1. simplified \in 0 .. Len(frames')
    BY <1>3, <1>6
  <2> QED BY <1>1, <1>2, <2>1 DEF PartShapes
<1>11. FramesFit'
  <2>1. frames'[1].id = 0
    BY <1>2, <1>3, <1>9 DEF FramesFit
  <2>2. \A j \in 1 .. n + k : frames'[j].id < ids + k
    <3>1. ASSUME NEW j \in 1 .. n PROVE frames'[j].id < ids + k
      BY <1>3, <1>9
    <3>2. ASSUME NEW j \in n + 1 .. n + k PROVE frames'[j].id < ids + k
      BY <1>3, <1>8
    <3> QED BY <1>7, <3>1, <3>2
  <2>3. \A i, j \in 1 .. n + k : frames'[i].id = frames'[j].id => i = j
    <3>1. ASSUME NEW i \in 1 .. n, NEW j \in 1 .. n, frames'[i].id = frames'[j].id PROVE i = j
      BY <1>2, <1>9, <3>1 DEF FramesFit, n
    <3>2. ASSUME NEW i \in n + 1 .. n + k, NEW j \in n + 1 .. n + k, frames'[i].id = frames'[j].id PROVE i = j
      <4>1. ids + (i - n) - 1 = ids + (j - n) - 1
        BY <1>8, <3>2
      <4> QED BY <1>3, <4>1
    <3>3. ASSUME NEW i \in 1 .. n, NEW j \in n + 1 .. n + k PROVE frames'[i].id # frames'[j].id
      <4>1. frames'[i].id \in Nat /\ frames'[i].id < ids
        BY <1>9
      <4>2. frames'[j].id = ids + (j - n) - 1 /\ j - n >= 1
        BY <1>3, <1>8
      <4> QED BY <1>3, <4>1, <4>2
    <3> QED BY <1>7, <3>1, <3>2, <3>3
  <2>4. \A c \in clauses : c.frame < ids + k
    <3>1. \A c \in clauses : c.frame \in Nat /\ c.frame < ids
      BY <1>2 DEF PartShapes, FramesFit
    <3> QED BY <1>3, <3>1
  <2>5. \A j \in 1 .. n + k : \A f : In(f, j)' => f \in DOMAIN parts.index
    BY <1>2, <1>7, <1>8, <1>9 DEF FramesFit, n
  <2> QED BY <1>1, <1>6, <2>1, <2>2, <2>3, <2>4, <2>5 DEF FramesFit
<1>12. NothingLost'
  <2>1. \A j \in 1 .. simplified : j \in 1 .. n
    BY <1>3
  <2>2. \A j \in 1 .. simplified : Given(j)' = Given(j) /\ frames'[j].id = frames[j].id
    <3>1. ASSUME NEW j \in 1 .. simplified PROVE Given(j)' = Given(j) /\ frames'[j].id = frames[j].id
      <4>1. frames'[j] = frames[j]
        BY <1>6, <2>1
      <4> QED BY <1>1, <4>1 DEF Given
    <3> QED BY <3>1
  <2>3. SUFFICES ASSUME NEW j \in 1 .. simplified, NEW g \in Given(j)', NEW x \in conjuncts[g]
                 PROVE  \E c \in clauses : c.conjunct = x /\ c.frame \in {0, frames'[j].id}
    BY <1>1 DEF NothingLost
  <2> QED BY <1>2, <2>2 DEF NothingLost
<1>13. ASSUME Regular' PROVE NumbersFit' /\ BitsFit'
  <2>1. NumbersFit /\ BitsFit
    BY <1>1, <1>13 DEF PartInv, PartRest, Regular
  <2>2. NumbersFit'
    <3>1. \A i, j \in 1 .. n + k : \A f : In(f, i)' /\ In(f, j)' => i = j
      BY <1>7, <1>8, <1>9, <2>1 DEF NumbersFit, n
    <3> QED BY <1>1, <1>6, <2>1, <3>1 DEF NumbersFit
  <2>3. \A c \in clauses : c.frame \in Nat /\ c.frame < ids
    BY <1>2 DEF PartShapes, FramesFit
  <2>4. ASSUME NEW c \in clauses, NEW j \in 1 .. n + k, c.frame = frames'[j].id
        PROVE  j \in 1 .. n /\ c.frame = frames[j].id
    <3>1. CASE j \in n + 1 .. n + k
      <4>1. frames'[j].id = ids + (j - n) - 1 /\ j - n >= 1
        BY <1>3, <1>8, <3>1
      <4> QED BY <1>3, <2>3, <2>4, <4>1
    <3> QED BY <1>7, <1>9, <2>4, <3>1
  <2>5. ASSUME NEW c \in clauses, NEW j \in 1 .. n + k, c.frame = frames'[j].id
        PROVE  c.part \in parts.bits[c.conjunct] /\ \E f : Source(c, f, j)'
    <3>1. j \in 1 .. n /\ c.frame = frames[j].id
      BY <2>4, <2>5
    <3>2. PICK f : Source(c, f, j)
      BY <2>1, <3>1 DEF BitsFit, n
    <3>3. Source(c, f, j)'
      BY <1>1, <1>9, <3>1, <3>2 DEF Source
    <3> QED BY <2>1, <3>1, <3>3 DEF BitsFit, n
  <2>6. \A j \in 1 .. n + k : \A f : In(f, j)' => parts.index[f] \in parts.bits[f]
    BY <1>7, <1>8, <1>9, <2>1 DEF BitsFit, n
  <2>7. BitsFit'
    BY <1>1, <1>6, <2>5, <2>6 DEF BitsFit
  <2> QED BY <2>2, <2>7
<1> QED
  BY <1>10, <1>11, <1>12, <1>13 DEF PartRest

\* The frames left keep their formulas, and no number of theirs is invalidated.
LEMMA PopPartitions ==
  ASSUME PartInv, NEW k \in 0 .. MaxNumeral, Pop(k), pending = <<>>
  PROVE  PartRest'
<1>1. PartShapes /\ FramesFit /\ NothingLost /\ Shapes
  BY DEF PartInv, PartRest, ScopesInv
<1>2. PICK m \in Nat \ {0} : m = Len(frames)
  BY <1>1, Parts
<1>3. PICK h \in Nat \ {0} : h = m - (IF k < m THEN k ELSE m - 1) /\ h <= m
  <2>1. \A n \in Nat : n < m => m - n \in Nat \ {0} /\ m - n <= m
    OBVIOUS
  <2>2. (IF k < m THEN k ELSE m - 1) \in Nat /\ (IF k < m THEN k ELSE m - 1) < m
    OBVIOUS
  <2> QED BY <2>1, <2>2
<1>4. PICK invalid : invalid = UNION {InvalidatedBy(j) : j \in h + 1 .. m}
  OBVIOUS
<1>5. /\ frames' = SubSeq(frames, 1, h)
      /\ simplified' = (IF simplified > h THEN h ELSE simplified)
      /\ parts' = [parts EXCEPT !.bits = [f \in Formulas |-> @[f] \ invalid]]
      /\ UNCHANGED <<global, nameToTerm, assertions, pending, ids, clauses>>
  <2>1. m - (IF k < m THEN k ELSE m - 1) + 1 = h + 1
    BY <1>3
  <2> QED BY <1>2, <1>3, <1>4, <2>1 DEF Pop
<1>6. /\ Len(frames') = h
      /\ \A j \in 1 .. h : frames'[j] = frames[j] /\ j \in 1 .. m /\ \A f : In(f, j)' <=> In(f, j)
  <2>1. frames \in Seq(FrameRecord)
    BY <1>1 DEF Shapes
  <2>2. Len(frames') = h /\ \A j \in 1 .. h : frames'[j] = frames[j]
    BY <1>2, <1>3, <1>5, <2>1, Prefix
  <2>3. \A j \in 1 .. h : j \in 1 .. m
    BY <1>3
  <2> QED BY <2>2, <2>3 DEF In
<1>7. /\ simplified \in 0 .. m /\ simplified' \in 0 .. h
      /\ \A j \in 1 .. simplified' : j \in 1 .. simplified /\ j \in 1 .. h
  BY <1>1, <1>2, <1>3, <1>5 DEF PartShapes
<1>8. /\ parts' \in Partitioning /\ parts'.count = parts.count /\ parts'.index = parts.index
      /\ \A f \in Formulas : parts'.bits[f] = parts.bits[f] \ invalid
  <2>1. parts \in Partitioning
    BY <1>1 DEF PartShapes
  <2>2. PICK B : B = [f \in Formulas |-> parts.bits[f] \ invalid]
    OBVIOUS
  <2>3. B \in [Formulas -> SUBSET Nat]
    <3>1. \A f \in Formulas : parts.bits[f] \in SUBSET Nat
      BY <2>1, PartitionParts
    <3> QED BY <2>2, <3>1
  <2>4. parts' = [parts EXCEPT !.bits = B]
    BY <1>5, <2>2
  <2>5. parts' \in Partitioning /\ parts'.count = parts.count /\ parts'.index = parts.index /\ parts'.bits = B
    BY <2>1, <2>3, <2>4 DEF Partitioning
  <2> QED BY <2>2, <2>5
<1>9. PartShapes'
  BY <1>1, <1>5, <1>6, <1>7, <1>8 DEF PartShapes
<1>10. FramesFit'
  <2>1. frames'[1].id = 0 /\ \A j \in 1 .. h : frames'[j].id < ids
    BY <1>1, <1>2, <1>3, <1>6 DEF FramesFit
  <2>2. \A i, j \in 1 .. h : frames'[i].id = frames'[j].id => i = j
    BY <1>1, <1>2, <1>6 DEF FramesFit
  <2>3. \A j \in 1 .. h : \A f : In(f, j)' => f \in DOMAIN parts'.index
    BY <1>1, <1>2, <1>6, <1>8 DEF FramesFit
  <2>4. \A c \in clauses' : c.frame < ids'
    BY <1>1, <1>5 DEF FramesFit
  <2> QED BY <1>5, <1>6, <2>1, <2>2, <2>3, <2>4 DEF FramesFit
<1>11. NothingLost'
  <2>1. ASSUME NEW j \in 1 .. simplified' PROVE Given(j)' = Given(j) /\ frames'[j].id = frames[j].id
    <3>1. frames'[j] = frames[j]
      BY <1>6, <1>7
    <3>2. Given(j)' = ToSet(frames[j].formulas) /\ Given(j) = ToSet(frames[j].formulas)
      BY <1>5, <3>1, EmptySeqSet DEF Given
    <3> QED BY <3>1, <3>2
  <2>2. clauses' = clauses
    BY <1>5
  <2>3. SUFFICES ASSUME NEW j \in 1 .. simplified', NEW g \in Given(j)', NEW x \in conjuncts[g]
                 PROVE  \E c \in clauses : c.conjunct = x /\ c.frame \in {0, frames'[j].id}
    BY <2>2 DEF NothingLost
  <2> QED BY <1>1, <1>7, <2>1 DEF NothingLost
<1>12. ASSUME Regular' PROVE NumbersFit' /\ BitsFit'
  <2>1. NumbersFit /\ BitsFit
    BY <1>5, <1>12 DEF PartInv, PartRest, Regular
  <2>2. NumbersFit'
    <3>1. \A i, j \in 1 .. h : \A f : In(f, i)' /\ In(f, j)' => i = j
      BY <1>2, <1>6, <2>1 DEF NumbersFit
    <3> QED BY <1>5, <1>6, <1>8, <2>1, <3>1 DEF NumbersFit
  <2>3. ASSUME NEW j \in 1 .. h, NEW f, In(f, j) PROVE parts.index[f] \notin invalid
    <3>1. SUFFICES ASSUME parts.index[f] \in invalid PROVE FALSE
      OBVIOUS
    <3>2. PICK i \in h + 1 .. m : parts.index[f] \in InvalidatedBy(i)
      BY <1>4, <3>1
    <3>3. PICK g : In(g, i) /\ parts.index[g] = parts.index[f]
      BY <3>2 DEF InvalidatedBy, In
    <3>4. i \in 1 .. m /\ j \in 1 .. m /\ i # j
      BY <1>3
    <3>5. f \in DOMAIN parts.index /\ g \in DOMAIN parts.index
      BY <1>1, <1>2, <2>3, <3>3, <3>4 DEF FramesFit
    <3>6. PICK a \in 1 .. Len(assertions) : assertions[a] = f /\ parts.index[f] = a - 1
      BY <2>1, <3>5 DEF NumbersFit
    <3>7. PICK b \in 1 .. Len(assertions) : assertions[b] = g /\ parts.index[g] = b - 1
      BY <2>1, <3>5 DEF NumbersFit
    <3>8. a = b
      BY <3>3, <3>6, <3>7
    <3>9. f = g
      BY <3>6, <3>7, <3>8
    <3> QED BY <1>2, <2>1, <2>3, <3>3, <3>4, <3>9 DEF NumbersFit
  <2>4. ASSUME NEW c \in clauses, NEW j \in 1 .. h, c.frame = frames'[j].id
        PROVE  c.part \in parts'.bits[c.conjunct] /\ \E f : Source(c, f, j)'
    <3>1. c.frame = frames[j].id /\ j \in 1 .. m
      BY <1>6, <2>4
    <3>2. PICK f : Source(c, f, j)
      BY <1>2, <2>1, <3>1 DEF BitsFit
    <3>3. c.part \in parts.bits[c.conjunct]
      BY <1>2, <2>1, <3>1 DEF BitsFit
    <3>4. c.conjunct \in Formulas
      BY <1>1 DEF PartShapes
    <3>5. c.part \notin invalid
      BY <2>3, <3>2 DEF Source
    <3>6. Source(c, f, j)'
      BY <1>6, <1>8, <3>2 DEF Source
    <3> QED BY <1>8, <3>3, <3>4, <3>5, <3>6
  <2>5. ASSUME NEW j \in 1 .. h, NEW f, In(f, j)' PROVE parts'.index[f] \in parts'.bits[f]
    <3>1. In(f, j) /\ j \in 1 .. m
      BY <1>6, <2>5
    <3>2. f \in Formulas /\ parts.index[f] \in parts.bits[f]
      BY <1>1, <1>2, <2>1, <3>1, FrameParts DEF BitsFit
    <3> QED BY <1>8, <2>3, <3>1, <3>2
  <2>6. BitsFit'
    BY <1>5, <1>6, <2>4, <2>5 DEF BitsFit
  <2> QED BY <2>2, <2>6
<1> QED
  BY <1>9, <1>10, <1>11, <1>12 DEF PartRest

\* assert: the formula is new to a regular session, and gets the number of its place.
LEMMA AssertPartitions ==
  ASSUME PartInv, NEW t \in Resolvable, NEW n \in Names \cup {NoName}, AssertTerm(t, n), pending = <<>>
  PROVE  PartRest'
<1>1. PartShapes /\ FramesFit /\ NothingLost /\ Shapes
  BY DEF PartInv, PartRest, ScopesInv
<1>2. PICK r : r = Resolved(t)
  OBVIOUS
<1>3. r \in Terms
  <2>1. \A x \in DOMAIN defs.table : defs.table[x] \in Terms
    BY <1>1, Parts DEF Tables
  <2> QED BY <1>2, <2>1 DEF Resolvable, Resolved
<1>4. PICK l \in Nat : l = Len(assertions)
  BY <1>1 DEF PartShapes
<1>5. /\ assertions' \in Seq(Terms) /\ Len(assertions') = l + 1 /\ assertions'[l + 1] = r
      /\ \A a \in 1 .. l : assertions'[a] = assertions[a]
  <2>1. assertions' = Append(assertions, r) /\ assertions \in Seq(Terms)
    BY <1>1, <1>2 DEF AssertTerm, PartShapes
  <2> QED BY <1>3, <1>4, <2>1, AppendProperties
<1>6. global' = global /\ DOMAIN nameToTerm' \subseteq Names
  <2>1. CASE n = NoName
    BY <1>1, <2>1 DEF AssertTerm, PartShapes
  <2>2. CASE n # NoName
    <3>1. nameToTerm' = With(nameToTerm, n, Resolved(t)) /\ global' = global
      BY <2>2 DEF AssertTerm
    <3>2. DOMAIN nameToTerm' = DOMAIN nameToTerm \cup {n}
      BY <3>1 DEF With
    <3> QED BY <1>1, <2>2, <3>1, <3>2 DEF PartShapes
  <2> QED BY <2>1, <2>2
<1>7. \A a \in 1 .. l + 1 : a \in 1 .. l \/ a = l + 1
  BY <1>4
<1>8. CASE r \notin Formulas
  <2>1. UNCHANGED <<frames, simplified, pending, ids, parts, clauses>>
    BY <1>2, <1>8 DEF AssertTerm, solver
  <2>2. PartShapes'
    BY <1>1, <1>5, <1>6, <2>1 DEF PartShapes
  <2>3. FramesFit' /\ NothingLost'
    BY <1>1, <2>1 DEF FramesFit, NothingLost, Given, In
  <2>4. ~Regular'
    BY <1>4, <1>5, <1>8 DEF Regular
  <2> QED BY <2>2, <2>3, <2>4 DEF PartRest
<1>9. CASE r \in Formulas
  <2>1. PICK m \in Nat \ {0} : m = Len(frames)
    BY <1>1, Parts
  <2>2. /\ parts' = [parts EXCEPT !.count = @ + 1, !.index = With(@, r, parts.count),
                                  !.bits[r] = @ \cup {parts.count}]
        /\ frames' = [frames EXCEPT ![m].formulas = Append(@, r)]
        /\ simplified' = (IF simplified < m - 1 THEN simplified ELSE m - 1)
        /\ UNCHANGED <<pending, ids, clauses>>
    BY <1>2, <1>9, <2>1 DEF AssertTerm, Inserted
  <2>3. /\ Len(frames') = m
        /\ \A j \in 1 .. m : frames'[j].id = frames[j].id
        /\ \A j \in 1 .. m : j # m => frames'[j] = frames[j]
        /\ \A j \in 1 .. m : \A f : In(f, j)' <=> In(f, j) \/ (j = m /\ f = r)
    <3>1. Len(frames') = m
      BY <2>1, AssertTermFrames DEF PartInv
    <3>2. frames \in [1 .. m -> FrameRecord] /\ m \in 1 .. m
      BY <1>1, <2>1 DEF Shapes
    <3>3. PICK R \in FrameRecord : R = frames[m]
      BY <3>2
    <3>4. R.formulas \in Seq(Formulas)
      BY DEF FrameRecord
    <3>5. PICK F : F = [R EXCEPT !.formulas = Append(@, r)]
      OBVIOUS
    <3>6. F.id = R.id /\ F.formulas = Append(R.formulas, r)
      BY <3>5 DEF FrameRecord
    <3>7. ToSet(F.formulas) = ToSet(R.formulas) \cup {r}
      BY <1>9, <3>4, <3>6, SetOfSeq
    <3>8. frames' = [frames EXCEPT ![m] = F]
      BY <2>2, <3>3, <3>5
    <3>9. frames'[m] = F /\ \A j \in 1 .. m : j # m => frames'[j] = frames[j]
      BY <3>2, <3>8
    <3>10. \A f : In(f, m)' <=> In(f, m) \/ f = r
      BY <3>3, <3>7, <3>9 DEF In
    <3>11. \A j \in 1 .. m : j # m => \A f : In(f, j)' <=> In(f, j)
      BY <3>9 DEF In
    <3> QED BY <3>1, <3>3, <3>6, <3>9, <3>10, <3>11
  <2>4. PICK e \in Nat : e = parts.count
    BY <1>1, PartitionParts DEF PartShapes
  <2>5. /\ parts' \in Partitioning /\ parts'.count = e + 1
        /\ DOMAIN parts'.index = DOMAIN parts.index \cup {r} /\ parts'.index[r] = e
        /\ \A f \in DOMAIN parts.index : f # r => parts'.index[f] = parts.index[f]
        /\ e \in parts'.bits[r] /\ \A f \in Formulas : parts.bits[f] \subseteq parts'.bits[f]
    <3>1. /\ parts \in Partitioning /\ DOMAIN parts.index \subseteq Formulas
          /\ parts.bits \in [Formulas -> SUBSET Nat]
          /\ \A f \in DOMAIN parts.index : parts.index[f] \in Nat
      BY <1>1, PartitionParts DEF PartShapes
    <3>2. PICK I : I = With(parts.index, r, e)
      OBVIOUS
    <3>3. /\ DOMAIN I = DOMAIN parts.index \cup {r} /\ I[r] = e
          /\ \A f \in DOMAIN parts.index : f # r => I[f] = parts.index[f]
          /\ I = [x \in DOMAIN parts.index \cup {r} |-> IF x = r THEN e ELSE parts.index[x]]
      BY <3>2 DEF With
    <3>4. I \in Indexes
      <4>1. PICK D \in SUBSET Formulas : D = DOMAIN parts.index \cup {r}
        BY <1>9, <3>1
      <4>2. I \in [D -> Nat]
        BY <2>4, <3>1, <3>3, <4>1
      <4> QED BY <4>2 DEF Indexes
    <3>5. PICK B : B = [parts.bits EXCEPT ![r] = @ \cup {e}]
      OBVIOUS
    <3>6. /\ B \in [Formulas -> SUBSET Nat] /\ e \in B[r]
          /\ \A f \in Formulas : parts.bits[f] \subseteq B[f]
      BY <1>9, <2>4, <3>1, <3>5
    <3>7. parts' = [count |-> e + 1, index |-> I, bits |-> B]
      BY <2>2, <2>4, <3>1, <3>2, <3>5 DEF Partitioning
    <3>8. parts' \in Partitioning /\ parts'.count = e + 1 /\ parts'.index = I /\ parts'.bits = B
      BY <2>4, <3>4, <3>6, <3>7 DEF Partitioning
    <3> QED BY <3>3, <3>6, <3>8
  <2>6. /\ simplified \in 0 .. m /\ simplified' \in 0 .. m
        /\ \A j \in 1 .. simplified' : j \in 1 .. simplified /\ j \in 1 .. m /\ j # m
    BY <1>1, <2>1, <2>2 DEF PartShapes
  <2>7. clauses' = clauses /\ pending' = pending /\ ids' = ids
    BY <2>2
  <2>8. PartShapes'
    BY <1>1, <1>5, <1>6, <2>3, <2>5, <2>6, <2>7 DEF PartShapes
  <2>9. FramesFit'
    <3>1. frames'[1].id = 0 /\ \A j \in 1 .. m : frames'[j].id < ids
      BY <1>1, <2>1, <2>3 DEF FramesFit
    <3>2. \A i, j \in 1 .. m : frames'[i].id = frames'[j].id => i = j
      BY <1>1, <2>1, <2>3 DEF FramesFit
    <3>3. \A j \in 1 .. m : \A f : In(f, j)' => f \in DOMAIN parts'.index
      BY <1>1, <2>1, <2>3, <2>5 DEF FramesFit
    <3>4. \A c \in clauses' : c.frame < ids'
      BY <1>1, <2>7 DEF FramesFit
    <3> QED BY <2>3, <2>7, <3>1, <3>2, <3>3, <3>4 DEF FramesFit
  <2>10. NothingLost'
    <3>1. ASSUME NEW j \in 1 .. simplified' PROVE Given(j)' = Given(j) /\ frames'[j].id = frames[j].id
      <4>1. frames'[j] = frames[j]
        BY <2>3, <2>6
      <4>2. Given(j)' = ToSet(frames[j].formulas) /\ Given(j) = ToSet(frames[j].formulas)
        BY <2>7, <4>1, EmptySeqSet DEF Given
      <4> QED BY <4>1, <4>2
    <3>2. SUFFICES ASSUME NEW j \in 1 .. simplified', NEW g \in Given(j)', NEW x \in conjuncts[g]
                   PROVE  \E c \in clauses : c.conjunct = x /\ c.frame \in {0, frames'[j].id}
      BY <2>7 DEF NothingLost
    <3> QED BY <1>1, <2>6, <3>1 DEF NothingLost
  <2>11. ASSUME Regular' PROVE NumbersFit' /\ BitsFit'
    <3>1. Regular /\ \A a \in 1 .. l : assertions[a] # r
      <4>1. \A a \in 1 .. l : a \in 1 .. l + 1 /\ l + 1 \in 1 .. l + 1 /\ a # l + 1
        BY <1>4
      <4> QED BY <1>4, <1>5, <2>11, <4>1 DEF Regular
    <3>2. NumbersFit /\ BitsFit
      BY <3>1 DEF PartInv, PartRest
    <3>3. r \notin DOMAIN parts.index
      BY <1>4, <3>1, <3>2 DEF NumbersFit
    <3>4. \A j \in 1 .. m : ~In(r, j)
      BY <1>1, <2>1, <3>3 DEF FramesFit
    <3>5. e = l
      BY <1>4, <2>4, <3>2 DEF NumbersFit
    <3>6. NumbersFit'
      <4>1. parts'.count = Len(assertions')
        BY <1>5, <2>5, <3>5
      <4>2. ASSUME NEW a \in 1 .. Len(assertions')
            PROVE  assertions'[a] \in DOMAIN parts'.index /\ parts'.index[assertions'[a]] = a - 1
        <5>1. CASE a \in 1 .. l
          <6>1. assertions[a] \in DOMAIN parts.index /\ parts.index[assertions[a]] = a - 1
            BY <1>4, <3>2, <5>1 DEF NumbersFit
          <6> QED BY <1>5, <2>5, <3>3, <5>1, <6>1
        <5>2. CASE a = l + 1
          BY <1>4, <1>5, <2>5, <3>5, <5>2
        <5> QED BY <1>5, <1>7, <5>1, <5>2
      <4>3. ASSUME NEW f \in DOMAIN parts'.index PROVE \E a \in 1 .. Len(assertions') : assertions'[a] = f
        <5>1. CASE f = r
          <6>1. l + 1 \in 1 .. l + 1
            BY <1>4
          <6> QED BY <1>5, <5>1, <6>1
        <5>2. CASE f \in DOMAIN parts.index
          <6>1. PICK a \in 1 .. l : assertions[a] = f
            BY <1>4, <3>2, <5>2 DEF NumbersFit
          <6>2. a \in 1 .. l + 1
            BY <1>4
          <6> QED BY <1>5, <6>1, <6>2
        <5> QED BY <2>5, <5>1, <5>2
      <4>4. \A i, j \in 1 .. m : \A f : In(f, i)' /\ In(f, j)' => i = j
        BY <2>1, <2>3, <3>2, <3>4 DEF NumbersFit
      <4> QED BY <2>3, <4>1, <4>2, <4>3, <4>4 DEF NumbersFit
    <3>7. ASSUME NEW c \in clauses, NEW j \in 1 .. m, c.frame = frames'[j].id
          PROVE  c.part \in parts'.bits[c.conjunct] /\ \E f : Source(c, f, j)'
      <4>1. c.frame = frames[j].id
        BY <2>3, <3>7
      <4>2. c.part \in parts.bits[c.conjunct] /\ c.conjunct \in Formulas
        BY <1>1, <2>1, <3>2, <4>1 DEF BitsFit, PartShapes
      <4>3. PICK f : Source(c, f, j)
        BY <2>1, <3>2, <4>1 DEF BitsFit
      <4>4. f \in DOMAIN parts.index /\ f # r
        BY <1>1, <2>1, <3>4, <4>3 DEF FramesFit, Source
      <4>5. Source(c, f, j)'
        BY <2>3, <2>5, <4>3, <4>4 DEF Source
      <4> QED BY <2>5, <4>2, <4>5
    <3>8. ASSUME NEW j \in 1 .. m, NEW f, In(f, j)' PROVE parts'.index[f] \in parts'.bits[f]
      <4>1. CASE f = r
        BY <2>5, <4>1
      <4>2. CASE f # r
        <5>1. In(f, j)
          BY <2>3, <3>8, <4>2
        <5>2. f \in Formulas /\ f \in DOMAIN parts.index /\ parts.index[f] \in parts.bits[f]
          BY <1>1, <2>1, <3>2, <5>1, FrameParts DEF FramesFit, BitsFit
        <5> QED BY <2>5, <4>2, <5>2
      <4> QED BY <4>1, <4>2
    <3>9. BitsFit'
      BY <2>3, <2>7, <3>7, <3>8 DEF BitsFit
    <3> QED BY <3>6, <3>9
  <2> QED BY <2>8, <2>9, <2>10, <2>11 DEF PartRest
<1> QED
  BY <1>8, <1>9

LEMMA NextPartitions == PartInv /\ [Next]_vars => PartInv'
<1> SUFFICES ASSUME PartInv, [Next]_vars PROVE PartInv'
  OBVIOUS
<1>1. ScopesInv'
  BY NextScopes DEF PartInv
<1> SUFFICES PartRest'
  BY <1>1 DEF PartInv
<1>2. PartRest /\ global \in BOOLEAN /\ DOMAIN nameToTerm \subseteq Names
  BY DEF PartInv, PartRest, PartShapes
<1>3. CASE GiveToSolver
  BY <1>3, GivePartitions
<1>4. CASE pending = <<>> /\ Command
  <2>1. CASE \E b \in BOOLEAN : SetGlobalDeclarations(b)
    <3>1. PICK b \in BOOLEAN : SetGlobalDeclarations(b)
      BY <2>1
    <3>2. UNCHANGED <<assertions, solver>> /\ global' = b /\ nameToTerm' = nameToTerm
      BY <3>1 DEF SetGlobalDeclarations
    <3> QED BY <1>2, <3>2, QuietPartitions
  <2>2. CASE \E n \in FunNames, t \in Resolvable : DefineFun(n, t)
    <3>1. UNCHANGED <<assertions, solver>> /\ global' = global /\ nameToTerm' = nameToTerm
      BY <2>2 DEF DefineFun
    <3> QED BY <1>2, <3>1, QuietPartitions
  <2>3. CASE \E t \in Resolvable, n \in Names \union {NoName} : AssertTerm(t, n)
    BY <1>4, <2>3, AssertPartitions
  <2>4. CASE \E k \in 0 .. MaxNumeral : Push(k)
    BY <1>4, <2>4, PushPartitions
  <2>5. CASE \E k \in 0 .. MaxNumeral : Pop(k)
    BY <1>4, <2>5, PopPartitions
  <2>6. CASE SimplifyFrame
    BY <1>4, <2>6, SimplifyPartitions
  <2> QED BY <1>4, <2>1, <2>2, <2>3, <2>4, <2>5, <2>6 DEF Command
<1>5. CASE UNCHANGED vars
  <2>1. UNCHANGED <<assertions, solver>> /\ global' = global /\ nameToTerm' = nameToTerm
    BY <1>5 DEF vars, solver
  <2> QED BY <1>2, <2>1, QuietPartitions
<1> QED
  BY <1>3, <1>4, <1>5 DEF Next

\* In a regular session, Interpret's number of a formula is PartitionManager's.
LEMMA SameNumber ==
  ASSUME Shapes, FramesFit, Regular, NumbersFit, NEW j \in 1 .. Len(frames), NEW f, In(f, j)
  PROVE  \E a \in 1 .. Len(assertions) :
           assertions[a] = f /\ parts.index[f] = a - 1 /\ AssertionIndex(f) = a - 1
<1>1. f \in DOMAIN parts.index
  BY DEF FramesFit
<1>2. PICK a \in 1 .. Len(assertions) : assertions[a] = f /\ parts.index[f] = a - 1
  BY <1>1 DEF NumbersFit
<1> DEFINE P(k) == assertions[k] = f /\ \A i \in 1 .. k - 1 : assertions[i] # f
<1>3. P(a)
  <2>1. ASSUME NEW i \in 1 .. a - 1 PROVE assertions[i] # f
    <3>1. i \in 1 .. Len(assertions) /\ i # a
      BY <1>2
    <3> QED BY <1>2, <3>1 DEF Regular
  <2> QED BY <1>2, <2>1
<1>4. \A k \in 1 .. Len(assertions) : P(k) => k = a
  BY <1>2 DEF Regular
<1>5. (CHOOSE k \in 1 .. Len(assertions) : P(k)) = a
  <2> HIDE DEF P
  <2> QED BY <1>2, <1>3, <1>4
<1> QED
  BY <1>2, <1>5 DEF AssertionIndex

LEMMA PartInvRight == PartInv => PartitionsRight
<1> SUFFICES ASSUME PartInv PROVE PartitionsRight
  OBVIOUS
<1>1. PartShapes /\ FramesFit /\ NothingLost /\ Shapes
  BY DEF PartInv, PartRest, ScopesInv
<1>2. TypeOK
  <2>1. \A n \in DOMAIN defs.table : defs.table[n] \in Terms
    BY <1>1, Parts DEF Tables
  <2>2. /\ DOMAIN defs.table \subseteq FunNames /\ defs.scopedNames \in Seq(FunNames)
        /\ defs.limits \in Seq(Nat)
    BY <1>1, Parts
  <2>3. frames \in Seq([id : Nat, formulas : Seq(Formulas)]) /\ ids \in Nat
    BY <1>1 DEF Shapes, FrameRecord
  <2>4. /\ parts.count \in Nat /\ DOMAIN parts.index \subseteq Formulas
        /\ parts.bits \in [Formulas -> SUBSET Nat]
    BY <1>1, PartitionParts DEF PartShapes
  <2> QED BY <1>1, <2>1, <2>2, <2>3, <2>4 DEF TypeOK, PartShapes
<1>3. ASSUME Regular PROVE MasksRight /\ AtomsKnowTheirPartitions
  <2>1. NumbersFit /\ BitsFit
    BY <1>3 DEF PartInv, PartRest
  <2>2. DOMAIN frames = 1 .. Len(frames)
    BY <1>1 DEF Shapes
  <2>3. ASSUME NEW c \in LiveClauses
        PROVE  /\ c.part \in parts.bits[c.conjunct]
               /\ \E j \in 1 .. Len(frames) : \E f : Source(c, f, j)
    <3>1. PICK j \in 1 .. Len(frames) : c.frame = frames[j].id
      BY <2>2 DEF LiveClauses
    <3>2. c \in clauses
      BY DEF LiveClauses
    <3> QED BY <2>1, <3>1, <3>2 DEF BitsFit
  <2>4. AtomsKnowTheirPartitions
    BY <2>3 DEF AtomsKnowTheirPartitions
  <2>5. \A f : f \in Live <=> \E j \in 1 .. Len(frames) : In(f, j)
    BY <2>2 DEF Live, In
  <2>6. ASSUME NEW A \in SUBSET Live, NEW c \in LiveClauses
        PROVE  \E f \in IF c.part \in Mask(A) THEN A ELSE Live \ A : c.conjunct \in conjuncts[f]
    <3>1. PICK j \in 1 .. Len(frames) : \E f : Source(c, f, j)
      BY <2>3
    <3>2. PICK f : Source(c, f, j)
      BY <3>1
    <3>3. In(f, j) /\ c.conjunct \in conjuncts[f] /\ c.part = parts.index[f] /\ f \in Live
      BY <2>5, <3>2 DEF Source
    <3>4. PICK a \in 1 .. Len(assertions) :
            assertions[a] = f /\ parts.index[f] = a - 1 /\ AssertionIndex(f) = a - 1
      BY <1>1, <1>3, <2>1, <3>3, SameNumber
    <3>5. CASE c.part \in Mask(A)
      <4>1. PICK g \in A : AssertionIndex(g) = c.part
        BY <3>5 DEF Mask
      <4>2. PICK i \in 1 .. Len(frames) : In(g, i)
        BY <2>5
      <4>3. PICK b \in 1 .. Len(assertions) : assertions[b] = g /\ AssertionIndex(g) = b - 1
        BY <1>1, <1>3, <2>1, <4>2, SameNumber
      <4>4. a = b
        BY <3>3, <3>4, <4>1, <4>3
      <4>5. f = g
        BY <3>4, <4>3, <4>4
      <4> QED BY <3>3, <3>5, <4>5
    <3>6. CASE c.part \notin Mask(A)
      <4>1. f \notin A
        BY <3>3, <3>4, <3>6 DEF Mask
      <4> QED BY <3>3, <3>6, <4>1
    <3> QED BY <3>5, <3>6
  <2>7. MasksRight
    BY <2>6 DEF MasksRight
  <2> QED BY <2>4, <2>7
<1> QED
  BY <1>1, <1>2, <1>3 DEF PartitionsRight

\* The partitions, frames and clauses of a session fit together, whatever is asserted,
\* pushed, popped and checked in which order, the check under way included.
THEOREM PartitionInvariant == Spec => []PartInv
<1>1. Init => PartInv
  BY InitPartitions
<1>2. PartInv /\ [Next]_vars => PartInv'
  BY NextPartitions
<1> QED
  BY <1>1, <1>2, PTL DEF Spec

\* No conjunct of a formula given to the solver is lost, and as long as no term was
\* asserted twice or with another sort, the numbers of Interpret, MainSolver and Cnfizer
\* agree: masks put each clause on a side one of whose formulas contains it, and a
\* clause's atoms are known to occur in its partition, for every set of formulas, depth
\* of the stack and length of the session.
THEOREM PartitionsStayRight == Spec => []PartitionsRight
BY PartitionInvariant, PartInvRight, PTL

-----------------------------------------------------------------------------
\* Let bindings.
\* What a let binds.
Maps == UNION {[D -> Values] : D \in SUBSET LetNames}

\* The parts of the invariant, for a table B, a list K of names, the limits L
\* of the lets and what they bind, S.
LetShapes(B, K, L, S) ==
  /\ B \in [LetNames -> Seq(Values)]
  /\ K \in Seq(LetNames)
  /\ L \in Seq(Nat)
  /\ S \in Seq(Maps)
  /\ Len(S) = Len(L)

\* The limits are in order, and none is past the names.
LetLimitsFit(K, L) ==
  /\ \A j \in 1 .. Len(L) : L[j] <= Len(K)
  /\ \A i, j \in 1 .. Len(L) : i <= j => L[i] <= L[j]

\* Where the names of the j-th let end in the list of names.
End(K, L, j) == IF j = Len(L) THEN Len(K) ELSE L[j + 1]

\* The names of each let are listed once between its limits.
LetNamesFit(K, L, S) ==
  \A j \in 1 .. Len(L) :
    /\ \A k \in L[j] + 1 .. End(K, L, j) : K[k] \in DOMAIN S[j]
    /\ \A n \in DOMAIN S[j] : \E k \in L[j] + 1 .. End(K, L, j) : K[k] = n
    /\ \A k, l \in L[j] + 1 .. End(K, L, j) : K[k] = K[l] => k = l

\* e names, in order, the lets that bind n and whose values the list b holds.
Lists(e, b, S, n) ==
  /\ \A a1, a2 \in 1 .. Len(b) : a1 < a2 => e[a1] < e[a2]
  /\ \A a \in 1 .. Len(b) : n \in DOMAIN S[e[a]] /\ b[a] = S[e[a]][n]
  /\ \A j \in 1 .. Len(S) : n \in DOMAIN S[j] => \E a \in 1 .. Len(b) : e[a] = j

ValuesFit(B, S) ==
  \A n \in LetNames : \E e \in [1 .. Len(B[n]) -> 1 .. Len(S)] : Lists(e, B[n], S, n)

Fits(B, K, L, S) == LetShapes(B, K, L, S) /\ LetLimitsFit(K, L) /\ LetNamesFit(K, L, S) /\ ValuesFit(B, S)

LetInv == Fits(letBinders, knownBinders, frameLimits, scopes)

-----------------------------------------------------------------------------
\* A list without repetitions names each of its names once.
LEMMA TimesOnce ==
  ASSUME NEW s \in Seq(LetNames), NEW n,
         \A i, j \in 1 .. Len(s) : s[i] = s[j] => i = j
  PROVE  Times(s, n) = IF \E i \in 1 .. Len(s) : s[i] = n THEN 1 ELSE 0
<1>1. DOMAIN s = 1 .. Len(s)
  OBVIOUS
<1>2. CASE \E i \in 1 .. Len(s) : s[i] = n
  <2>1. PICK i \in 1 .. Len(s) : s[i] = n
    BY <1>2
  <2>2. {k \in DOMAIN s : s[k] = n} = {i}
    BY <1>1, <2>1
  <2>3. Cardinality({i}) = 1
    BY FS_Singleton
  <2> QED
    BY <1>2, <2>2, <2>3 DEF Times
<1>3. CASE ~\E i \in 1 .. Len(s) : s[i] = n
  <2>1. {k \in DOMAIN s : s[k] = n} = {}
    BY <1>1, <1>3
  <2>2. Cardinality({}) = 0
    BY FS_EmptySet
  <2> QED
    BY <1>3, <2>1, <2>2 DEF Times
<1> QED
  BY <1>2, <1>3

\* The table when the names after the first p of K go.
Restored(B, K, p) ==
  [n \in LetNames |-> IF \E i \in p + 1 .. Len(K) : K[i] = n
                   THEN SubSeq(B[n], 1, Len(B[n]) - 1) ELSE B[n]]

\* popFrame(): the lists of the names in the segment that goes lose their last value.
LEMMA PoppedParts ==
  ASSUME NEW r, r.binders \in [LetNames -> Seq(Values)], r.known \in Seq(LetNames),
         NEW p \in Nat, p <= Len(r.known),
         \A i, j \in p + 1 .. Len(r.known) : r.known[i] = r.known[j] => i = j
  PROVE  /\ Popped(r, p).binders = Restored(r.binders, r.known, p)
         /\ Popped(r, p).known = SubSeq(r.known, 1, p)
<1>0. PICK B \in [LetNames -> Seq(Values)], K \in Seq(LetNames) : B = r.binders /\ K = r.known
  OBVIOUS
<1>1. PICK c \in Nat : c = Len(K) /\ p <= c /\ \A i, j \in p + 1 .. c : K[i] = K[j] => i = j
  BY <1>0
<1>2. PICK U \in Seq(LetNames) : U = SubSeq(K, p + 1, Len(K))
  BY <1>1, Suffix
<1>3. /\ Len(U) = c - p /\ c - p \in Nat
      /\ \A j \in 1 .. c - p : U[j] = K[p + j] /\ p + j \in 1 .. c
  BY <1>1, <1>2, Suffix
<1>4. \A j \in 1 .. c - p : p + j \in p + 1 .. c
  BY <1>1, <1>3
<1>5. \A i, j \in 1 .. Len(U) : U[i] = U[j] => i = j
  <2> SUFFICES ASSUME NEW i \in 1 .. c - p, NEW j \in 1 .. c - p, U[i] = U[j] PROVE i = j
    BY <1>3
  <2>1. p + i = p + j
    BY <1>1, <1>3, <1>4
  <2> QED
    BY <2>1
<1>6. ASSUME NEW n \in LetNames
      PROVE  Times(U, n) = IF \E i \in p + 1 .. c : K[i] = n THEN 1 ELSE 0
  <2>1. Times(U, n) = IF \E i \in 1 .. Len(U) : U[i] = n THEN 1 ELSE 0
    BY <1>5, TimesOnce
  <2>2. (\E i \in 1 .. Len(U) : U[i] = n) <=> (\E i \in p + 1 .. c : K[i] = n)
    <3>1. ASSUME NEW i \in 1 .. Len(U), U[i] = n PROVE \E k \in p + 1 .. c : K[k] = n
      BY <1>3, <1>4, <3>1
    <3>2. ASSUME NEW k \in p + 1 .. c, K[k] = n PROVE \E i \in 1 .. Len(U) : U[i] = n
      <4>1. PICK i \in 1 .. c - p : p + i = k
        <5>1. k - p \in 1 .. c - p /\ p + (k - p) = k
          BY <1>3
        <5> QED
          BY <5>1
      <4> QED
        BY <1>3, <3>2, <4>1
    <3> QED
      BY <3>1, <3>2
  <2> QED
    BY <2>1, <2>2
<1>7. ASSUME NEW n \in LetNames
      PROVE  SubSeq(B[n], 1, Len(B[n]) - Times(U, n))
             = IF \E i \in p + 1 .. c : K[i] = n THEN SubSeq(B[n], 1, Len(B[n]) - 1) ELSE B[n]
  <2>1. B[n] \in Seq(Values) /\ Len(B[n]) \in Nat
    OBVIOUS
  <2>2. SubSeq(B[n], 1, Len(B[n])) = B[n] /\ Len(B[n]) - 0 = Len(B[n])
    BY <2>1
  <2> QED
    BY <1>6, <2>2
<1>8. SubSeq(r.known, p + 1, Len(r.known)) = U
  BY <1>2, <1>0
<1>9. [n \in LetNames |-> SubSeq(B[n], 1, Len(B[n]) - Times(U, n))] = Restored(B, K, p)
  <2>1. ASSUME NEW n \in LetNames
        PROVE  SubSeq(B[n], 1, Len(B[n]) - Times(U, n))
               = IF \E i \in p + 1 .. Len(K) : K[i] = n THEN SubSeq(B[n], 1, Len(B[n]) - 1) ELSE B[n]
    BY <1>1, <1>7
  <2> QED
    BY <2>1 DEF Restored
<1>10. Popped(r, p) = [binders |-> [n \in LetNames |-> SubSeq(r.binders[n], 1, Len(r.binders[n]) - Times(U, n))],
                       known |-> SubSeq(r.known, 1, p)]
  BY <1>8 DEF Popped
<1>11. Popped(r, p).binders = [n \in LetNames |-> SubSeq(r.binders[n], 1, Len(r.binders[n]) - Times(U, n))]
  BY <1>10
<1>12. Popped(r, p).known = SubSeq(r.known, 1, p)
  BY <1>10
<1> QED
  BY <1>9, <1>11, <1>12, <1>0

\* The value that the list p of names and the list of values give to n.
BoundTo(p, values, n) == values[CHOOSE j \in DOMAIN p : p[j] = n]

\* The table with the values of a list of names added.
Added(B, p, values) ==
  [n \in LetNames |-> IF n \in ToSet(p) THEN Append(B[n], BoundTo(p, values, n)) ELSE B[n]]

\* addBinding() for each name of a list.
LEMMA AddedParts ==
  ASSUME NEW r, NEW p, NEW values
  PROVE  /\ AddBindings(r, p, values).binders = Added(r.binders, p, values)
         /\ AddBindings(r, p, values).known = r.known \o p
BY DEF AddBindings, Added, BoundTo

LEMMA BoundToType ==
  ASSUME NEW p \in Seq(LetNames), NEW k \in Nat, NEW values \in [1 .. k -> Values], Len(p) <= k,
         NEW n \in ToSet(p)
  PROVE  BoundTo(p, values, n) \in Values
<1>1. \E j \in DOMAIN p : p[j] = n
  BY DEF ToSet
<1>2. PICK i \in DOMAIN p : i = (CHOOSE j \in DOMAIN p : p[j] = n)
  BY <1>1
<1>3. i \in 1 .. k
  BY <1>2
<1> QED
  BY <1>2, <1>3 DEF BoundTo

LEMMA AddedType ==
  ASSUME NEW B \in [LetNames -> Seq(Values)],
         NEW p \in Seq(LetNames), NEW k \in Nat, NEW values \in [1 .. k -> Values], Len(p) <= k
  PROVE  Added(B, p, values) \in [LetNames -> Seq(Values)]
<1>1. ASSUME NEW n \in LetNames
      PROVE  (IF n \in ToSet(p) THEN Append(B[n], BoundTo(p, values, n)) ELSE B[n]) \in Seq(Values)
  <2>1. CASE n \in ToSet(p)
    <3>1. PICK v \in Values : v = BoundTo(p, values, n)
      BY <2>1, BoundToType
    <3>2. Append(B[n], v) \in Seq(Values)
      BY AppendProperties
    <3> QED
      BY <2>1, <3>1, <3>2
  <2>2. CASE n \notin ToSet(p)
    BY <2>2
  <2> QED
    BY <2>1, <2>2
<1> QED
  BY <1>1 DEF Added

\* A value taken back at once leaves the list as it was.
LEMMA AppendFront ==
  ASSUME NEW b \in Seq(Values), NEW v \in Values
  PROVE  SubSeq(Append(b, v), 1, Len(Append(b, v)) - 1) = b
<1>1. PICK c \in Nat : c = Len(b)
  OBVIOUS
<1>2. /\ Append(b, v) \in Seq(Values) /\ Len(Append(b, v)) = c + 1
      /\ \A i \in 1 .. c : Append(b, v)[i] = b[i]
  BY <1>1, AppendProperties
<1>3. Len(Append(b, v)) - 1 = c /\ c <= Len(Append(b, v))
  BY <1>2
<1>4. /\ SubSeq(Append(b, v), 1, c) \in Seq(Values) /\ Len(SubSeq(Append(b, v), 1, c)) = c
      /\ \A j \in 1 .. c : SubSeq(Append(b, v), 1, c)[j] = Append(b, v)[j]
  BY <1>2, <1>3, Prefix
<1> QED
  BY <1>1, <1>2, <1>3, <1>4, SeqEqual

\* A let that is refused after the bindings p were made leaves nothing behind.
LEMMA RefusedLet ==
  ASSUME NEW old, old.binders \in [LetNames -> Seq(Values)], old.known \in Seq(LetNames),
         NEW p \in Seq(LetNames), NEW k \in Nat, NEW values \in [1 .. k -> Values], Len(p) <= k,
         \A i, j \in 1 .. Len(p) : p[i] = p[j] => i = j
  PROVE  /\ Popped(AddBindings(old, p, values), Len(old.known)).binders = old.binders
         /\ Popped(AddBindings(old, p, values), Len(old.known)).known = old.known
<1>0. PICK B \in [LetNames -> Seq(Values)], K \in Seq(LetNames) : B = old.binders /\ K = old.known
  OBVIOUS
<1>1. PICK Q \in [LetNames -> Seq(Values)] : Q = Added(B, p, values)
  BY AddedType
<1>2. PICK c \in Nat, q \in Nat : c = Len(K) /\ q = Len(p)
  OBVIOUS
<1>3. PICK R \in Seq(LetNames) : R = K \o p
  BY ConcatParts
<1>4. /\ Len(R) = c + q
      /\ \A j \in 1 .. c : R[j] = K[j]
      /\ \A j \in c + 1 .. c + q : R[j] = p[j - c] /\ j - c \in 1 .. q
      /\ \A j \in 1 .. q : R[c + j] = p[j]
  <2>1. /\ Len(K \o p) = Len(K) + Len(p)
        /\ \A j \in 1 .. Len(K) : (K \o p)[j] = K[j]
        /\ \A j \in 1 .. Len(p) : (K \o p)[Len(K) + j] = p[j]
        /\ \A j \in Len(K) + 1 .. Len(K) + Len(p) :
              (K \o p)[j] = p[j - Len(K)] /\ j - Len(K) \in 1 .. Len(p)
    BY ConcatParts
  <2> QED
    BY <1>2, <1>3, <2>1
<1>5. ASSUME NEW i \in c + 1 .. Len(R), NEW j \in c + 1 .. Len(R), R[i] = R[j] PROVE i = j
  <2>1. i \in c + 1 .. c + q /\ j \in c + 1 .. c + q
    BY <1>4
  <2>2. p[i - c] = p[j - c] /\ i - c \in 1 .. q /\ j - c \in 1 .. q
    BY <1>4, <1>5, <2>1
  <2>3. i - c = j - c
    BY <1>2, <2>2
  <2> QED
    BY <2>1, <2>3
<1>6. c <= Len(R)
  BY <1>4
<1>7. \A i, j \in c + 1 .. Len(R) : R[i] = R[j] => i = j
  BY <1>5
<1>8. PICK r : r = AddBindings(old, p, values) /\ r.binders = Q /\ r.known = R
  <2>1. /\ AddBindings(old, p, values).binders = Added(B, p, values)
        /\ AddBindings(old, p, values).known = K \o p
    BY <1>0, AddedParts
  <2> QED
    BY <1>1, <1>3, <2>1
<1>9. SubSeq(R, 1, c) = K
  <2>1. /\ SubSeq(R, 1, c) \in Seq(LetNames) /\ Len(SubSeq(R, 1, c)) = c
        /\ \A j \in 1 .. c : SubSeq(R, 1, c)[j] = R[j]
    BY <1>6, Prefix
  <2>2. PICK z \in Seq(LetNames) : z = SubSeq(R, 1, c)
    BY <2>1
  <2>3. Len(z) = Len(K) /\ \A j \in 1 .. Len(z) : z[j] = K[j]
    BY <1>2, <1>4, <2>1, <2>2
  <2>4. z = K
    BY <2>3, SeqEqual
  <2> QED
    BY <2>2, <2>4
<1>10. ASSUME NEW n \in LetNames
       PROVE  (IF \E i \in c + 1 .. Len(R) : R[i] = n
               THEN SubSeq(Q[n], 1, Len(Q[n]) - 1) ELSE Q[n]) = B[n]
  <2>1. (\E i \in c + 1 .. Len(R) : R[i] = n) <=> n \in ToSet(p)
    <3>1. \A j \in 1 .. q : c + j \in c + 1 .. c + q
      OBVIOUS
    <3>2. n \in ToSet(p) <=> \E j \in 1 .. q : p[j] = n
      BY <1>2, ToSetRange
    <3>3. ASSUME NEW j \in 1 .. q, p[j] = n PROVE \E i \in c + 1 .. Len(R) : R[i] = n
      BY <1>4, <3>1, <3>3
    <3>4. ASSUME NEW i \in c + 1 .. Len(R), R[i] = n PROVE \E j \in 1 .. q : p[j] = n
      <4>1. i \in c + 1 .. c + q
        BY <1>4
      <4> QED
        BY <1>4, <3>4, <4>1
    <3> QED
      BY <3>2, <3>3, <3>4
  <2>2. CASE n \in ToSet(p)
    <3>1. PICK v \in Values : Q[n] = Append(B[n], v) /\ B[n] \in Seq(Values)
      <4>1. BoundTo(p, values, n) \in Values
        BY <2>2, BoundToType
      <4> QED
        BY <1>1, <2>2, <4>1 DEF Added
    <3> QED
      BY <2>1, <2>2, <3>1, AppendFront
  <2>3. CASE n \notin ToSet(p)
    BY <1>1, <2>1, <2>3 DEF Added
  <2> QED
    BY <2>2, <2>3
<1>11. Popped(r, c).binders = Restored(Q, R, c) /\ Popped(r, c).known = SubSeq(R, 1, c)
  BY <1>6, <1>7, <1>8, PoppedParts
<1>12. Restored(Q, R, c) = B
  BY <1>10 DEF Restored
<1> QED
  BY <1>0, <1>2, <1>8, <1>9, <1>11, <1>12

-----------------------------------------------------------------------------
\* What a let adds to the lists of values.
LEMMA EnterValues ==
  ASSUME NEW n, NEW b \in Seq(Values), NEW S \in Seq(Maps), NEW M \in Maps,
         NEW e \in [1 .. Len(b) -> 1 .. Len(S)], Lists(e, b, S, n), n \in DOMAIN M, NEW v \in Values, v = M[n]
  PROVE  \E f \in [1 .. Len(Append(b, v)) -> 1 .. Len(Append(S, M))] : Lists(f, Append(b, v), Append(S, M), n)
<1>1. PICK l \in Nat, m \in Nat : l = Len(b) /\ m = Len(S)
  OBVIOUS
<1>2. PICK T \in Seq(Maps) : T = Append(S, M)
  BY AppendProperties
<1>3. Len(T) = m + 1 /\ T[m + 1] = M /\ \A j \in 1 .. m : T[j] = S[j]
  BY <1>1, <1>2, AppendProperties
<1>4. PICK d \in Seq(Values) : d = Append(b, v)
  BY AppendProperties
<1>5. Len(d) = l + 1 /\ d[l + 1] = v /\ \A a \in 1 .. l : d[a] = b[a]
  BY <1>1, <1>4, AppendProperties
<1>6. PICK f : f = [a \in 1 .. l + 1 |-> IF a = l + 1 THEN m + 1 ELSE e[a]]
  OBVIOUS
<1>7. \A a \in 1 .. l : a \in 1 .. l + 1 /\ a # l + 1 /\ f[a] = e[a] /\ e[a] \in 1 .. m /\ e[a] \in 1 .. m + 1
  <2> SUFFICES ASSUME NEW a \in 1 .. l
               PROVE  a \in 1 .. l + 1 /\ a # l + 1 /\ f[a] = e[a] /\ e[a] \in 1 .. m /\ e[a] \in 1 .. m + 1
    OBVIOUS
  <2>1. a \in 1 .. l + 1 /\ a # l + 1
    OBVIOUS
  <2>2. PICK x \in 1 .. m : x = e[a]
    BY <1>1
  <2>3. f[a] = e[a]
    BY <1>6, <2>1
  <2>4. x \in 1 .. m + 1
    OBVIOUS
  <2> QED
    BY <2>1, <2>2, <2>3, <2>4
<1>8. f[l + 1] = m + 1 /\ m + 1 \in 1 .. m + 1 /\ l + 1 \in 1 .. l + 1
  BY <1>6
<1>9. \A a \in 1 .. l + 1 : a = l + 1 \/ a \in 1 .. l
  OBVIOUS
<1>10. f \in [1 .. l + 1 -> 1 .. m + 1]
  BY <1>6, <1>7, <1>8, <1>9
<1>11. ASSUME NEW a1 \in 1 .. l + 1, NEW a2 \in 1 .. l + 1, a1 < a2 PROVE f[a1] < f[a2]
  <2>1. a1 \in 1 .. l
    BY <1>9, <1>11
  <2>2. CASE a2 \in 1 .. l
    BY <1>1, <1>7, <1>11, <2>1, <2>2 DEF Lists
  <2>3. CASE a2 = l + 1
    BY <1>7, <1>8, <2>1, <2>3
  <2> QED
    BY <1>9, <2>2, <2>3
<1>12. ASSUME NEW a \in 1 .. l + 1 PROVE n \in DOMAIN T[f[a]] /\ d[a] = T[f[a]][n]
  <2>1. CASE a \in 1 .. l
    <3>1. f[a] = e[a] /\ T[e[a]] = S[e[a]] /\ d[a] = b[a]
      BY <1>3, <1>5, <1>7, <2>1
    <3> QED
      BY <1>1, <2>1, <3>1 DEF Lists
  <2>2. CASE a = l + 1
    BY <1>3, <1>5, <1>8, <2>2
  <2> QED
    BY <1>9, <2>1, <2>2
<1>13. ASSUME NEW j \in 1 .. m + 1, n \in DOMAIN T[j] PROVE \E a \in 1 .. l + 1 : f[a] = j
  <2>1. CASE j = m + 1
    BY <1>8, <2>1
  <2>2. CASE j \in 1 .. m
    <3>1. n \in DOMAIN S[j]
      BY <1>3, <1>13, <2>2
    <3>2. PICK a \in 1 .. l : e[a] = j
      BY <1>1, <2>2, <3>1 DEF Lists
    <3> QED
      BY <1>7, <3>2
  <2> QED
    BY <2>1, <2>2
<1>14. Lists(f, d, T, n)
  BY <1>3, <1>5, <1>11, <1>12, <1>13 DEF Lists
<1> QED
  BY <1>2, <1>3, <1>4, <1>5, <1>10, <1>14

\* A let that does not bind a name leaves its list as it is.
LEMMA EnterOthers ==
  ASSUME NEW n, NEW b \in Seq(Values), NEW S \in Seq(Maps), NEW M \in Maps,
         NEW e \in [1 .. Len(b) -> 1 .. Len(S)], Lists(e, b, S, n), n \notin DOMAIN M
  PROVE  \E f \in [1 .. Len(b) -> 1 .. Len(Append(S, M))] : Lists(f, b, Append(S, M), n)
<1>1. PICK l \in Nat, m \in Nat : l = Len(b) /\ m = Len(S)
  OBVIOUS
<1>2. PICK T \in Seq(Maps) : T = Append(S, M)
  BY AppendProperties
<1>3. Len(T) = m + 1 /\ T[m + 1] = M /\ \A j \in 1 .. m : T[j] = S[j]
  BY <1>1, <1>2, AppendProperties
<1>4. \A a \in 1 .. l : e[a] \in 1 .. m /\ e[a] \in 1 .. m + 1 /\ T[e[a]] = S[e[a]]
  BY <1>1, <1>3
<1>5. e \in [1 .. l -> 1 .. m + 1]
  BY <1>1, <1>4
<1>6. ASSUME NEW j \in 1 .. m + 1, n \in DOMAIN T[j] PROVE \E a \in 1 .. l : e[a] = j
  <2>1. j \in 1 .. m
    BY <1>3, <1>6
  <2>2. n \in DOMAIN S[j]
    BY <1>3, <1>6, <2>1
  <2> QED
    BY <1>1, <2>1, <2>2 DEF Lists
<1>7. \A a \in 1 .. l : n \in DOMAIN T[e[a]] /\ b[a] = T[e[a]][n]
  BY <1>1, <1>4 DEF Lists
<1>8. Lists(e, b, T, n)
  BY <1>1, <1>3, <1>6, <1>7 DEF Lists
<1> QED
  BY <1>1, <1>2, <1>3, <1>5, <1>8

\* Leaving the innermost let takes back the last value of the names it binds.
LEMMA LeaveValues ==
  ASSUME NEW n, NEW b \in Seq(Values), NEW S \in Seq(Maps), S # <<>>, NEW m \in Nat, m + 1 = Len(S),
         NEW T \in Seq(Maps), Len(T) = m, \A j \in 1 .. m : T[j] = S[j],
         NEW e \in [1 .. Len(b) -> 1 .. Len(S)], Lists(e, b, S, n), n \in DOMAIN S[m + 1]
  PROVE  \E f \in [1 .. Len(SubSeq(b, 1, Len(b) - 1)) -> 1 .. m] : Lists(f, SubSeq(b, 1, Len(b) - 1), T, n)
<1>1. PICK l \in Nat : l = Len(b)
  OBVIOUS
<1>2. PICK a0 \in 1 .. l : e[a0] = m + 1
  BY <1>1 DEF Lists
<1>3. \A a \in 1 .. l : e[a] \in 1 .. m + 1
  BY <1>1
<1>4. a0 = l
  <2>1. SUFFICES ASSUME a0 # l PROVE FALSE
    OBVIOUS
  <2>2. a0 < l /\ l \in 1 .. l
    BY <2>1
  <2>3. e[a0] < e[l]
    BY <1>1, <2>2 DEF Lists
  <2> QED
    BY <1>2, <1>3, <2>2, <2>3
<1>5. PICK h \in Nat : h + 1 = l /\ h = Len(b) - 1
  <2>1. l - 1 \in Nat /\ (l - 1) + 1 = l
    BY <1>2
  <2> QED
    BY <1>1, <2>1
<1>6. h <= Len(b)
  BY <1>1, <1>5
<1>7. PICK d \in Seq(Values) : d = SubSeq(b, 1, h)
  BY <1>6, Prefix
<1>8. Len(d) = h /\ \A a \in 1 .. h : d[a] = b[a]
  BY <1>6, <1>7, Prefix
<1>9. \A a \in 1 .. h : a \in 1 .. l /\ l \in 1 .. l /\ a < l
  BY <1>5
<1>10. \A a \in 1 .. h : e[a] \in 1 .. m
  <2> SUFFICES ASSUME NEW a \in 1 .. h PROVE e[a] \in 1 .. m
    OBVIOUS
  <2>1. e[a] < e[l]
    BY <1>1, <1>9 DEF Lists
  <2>2. PICK x \in 1 .. m + 1 : x = e[a]
    BY <1>3, <1>9
  <2>3. x < m + 1
    BY <1>2, <1>4, <2>1, <2>2
  <2>4. x \in 1 .. m
    BY <2>3
  <2> QED
    BY <2>2, <2>4
<1>11. PICK f : f = [a \in 1 .. h |-> e[a]]
  OBVIOUS
<1>12. f \in [1 .. h -> 1 .. m] /\ \A a \in 1 .. h : f[a] = e[a]
  BY <1>10, <1>11
<1>13. \A a1, a2 \in 1 .. h : a1 < a2 => f[a1] < f[a2]
  BY <1>1, <1>9, <1>12 DEF Lists
<1>14. \A a \in 1 .. h : n \in DOMAIN T[f[a]] /\ d[a] = T[f[a]][n]
  <2> SUFFICES ASSUME NEW a \in 1 .. h PROVE n \in DOMAIN T[f[a]] /\ d[a] = T[f[a]][n]
    OBVIOUS
  <2>1. f[a] = e[a] /\ T[e[a]] = S[e[a]] /\ d[a] = b[a]
    BY <1>8, <1>10, <1>12
  <2> QED
    BY <1>1, <1>9, <2>1 DEF Lists
<1>15. ASSUME NEW j \in 1 .. m, n \in DOMAIN T[j] PROVE \E a \in 1 .. h : f[a] = j
  <2>1. j \in 1 .. m + 1 /\ j # m + 1 /\ n \in DOMAIN S[j]
    BY <1>15
  <2>2. PICK a \in 1 .. l : e[a] = j
    BY <1>1, <2>1 DEF Lists
  <2>3. a \in 1 .. h
    BY <1>2, <1>4, <1>5, <2>1, <2>2
  <2> QED
    BY <1>12, <2>2, <2>3
<1>16. Lists(f, d, T, n)
  BY <1>8, <1>13, <1>14, <1>15 DEF Lists
<1> QED
  BY <1>5, <1>7, <1>8, <1>12, <1>16

\* The list of a name it does not bind stays as it is.
LEMMA LeaveOthers ==
  ASSUME NEW n, NEW b \in Seq(Values), NEW S \in Seq(Maps), NEW m \in Nat, m + 1 = Len(S),
         NEW T \in Seq(Maps), Len(T) = m, \A j \in 1 .. m : T[j] = S[j],
         NEW e \in [1 .. Len(b) -> 1 .. Len(S)], Lists(e, b, S, n), n \notin DOMAIN S[m + 1]
  PROVE  \E f \in [1 .. Len(b) -> 1 .. m] : Lists(f, b, T, n)
<1>1. PICK l \in Nat : l = Len(b)
  OBVIOUS
<1>2. \A a \in 1 .. l : e[a] \in 1 .. m + 1 /\ e[a] # m + 1 /\ e[a] \in 1 .. m
  <2> SUFFICES ASSUME NEW a \in 1 .. l PROVE e[a] \in 1 .. m + 1 /\ e[a] # m + 1 /\ e[a] \in 1 .. m
    OBVIOUS
  <2>1. e[a] \in 1 .. m + 1 /\ n \in DOMAIN S[e[a]]
    BY <1>1 DEF Lists
  <2>2. e[a] # m + 1
    BY <2>1
  <2> QED
    BY <2>1, <2>2
<1>3. e \in [1 .. l -> 1 .. m]
  BY <1>1, <1>2
<1>4. \A a \in 1 .. l : T[e[a]] = S[e[a]]
  BY <1>2
<1>5. \A a \in 1 .. l : n \in DOMAIN T[e[a]] /\ b[a] = T[e[a]][n]
  BY <1>1, <1>4 DEF Lists
<1>6. ASSUME NEW j \in 1 .. m, n \in DOMAIN T[j] PROVE \E a \in 1 .. l : e[a] = j
  BY <1>1, <1>6 DEF Lists
<1>7. Lists(e, b, T, n)
  BY <1>1, <1>5, <1>6 DEF Lists
<1> QED
  BY <1>1, <1>3, <1>7

-----------------------------------------------------------------------------
\* The limits and names of a let that is entered.
LEMMA EnteredNames ==
  ASSUME NEW K \in Seq(LetNames), NEW L \in Seq(Nat), NEW S \in Seq(Maps), Len(S) = Len(L),
         LetLimitsFit(K, L), LetNamesFit(K, L, S),
         NEW names \in Seq(LetNames), \A i, j \in 1 .. Len(names) : names[i] = names[j] => i = j,
         NEW M \in Maps, DOMAIN M = ToSet(names)
  PROVE  LetLimitsFit(K \o names, Append(L, Len(K))) /\ LetNamesFit(K \o names, Append(L, Len(K)), Append(S, M))
<1>1. PICK c \in Nat, q \in Nat, m \in Nat : c = Len(K) /\ q = Len(names) /\ m = Len(L)
  OBVIOUS
<1>2. PICK K2 \in Seq(LetNames) : K2 = K \o names
  BY ConcatParts
<1>3. /\ Len(K2) = c + q
      /\ \A j \in 1 .. c : K2[j] = K[j]
      /\ \A j \in c + 1 .. c + q : K2[j] = names[j - c] /\ j - c \in 1 .. q
      /\ \A j \in 1 .. q : K2[c + j] = names[j]
  <2>1. /\ Len(K \o names) = Len(K) + Len(names)
        /\ \A j \in 1 .. Len(K) : (K \o names)[j] = K[j]
        /\ \A j \in 1 .. Len(names) : (K \o names)[Len(K) + j] = names[j]
        /\ \A j \in Len(K) + 1 .. Len(K) + Len(names) :
              (K \o names)[j] = names[j - Len(K)] /\ j - Len(K) \in 1 .. Len(names)
    BY ConcatParts
  <2> QED
    BY <1>1, <1>2, <2>1
<1>4. PICK L2 \in Seq(Nat) : L2 = Append(L, Len(K))
  BY <1>1, AppendProperties
<1>5. Len(L2) = m + 1 /\ L2[m + 1] = c /\ \A j \in 1 .. m : L2[j] = L[j]
  BY <1>1, <1>4, AppendProperties
<1>6. PICK S2 \in Seq(Maps) : S2 = Append(S, M)
  BY AppendProperties
<1>7. S2[m + 1] = M /\ \A j \in 1 .. m : S2[j] = S[j]
  BY <1>1, <1>6, AppendProperties
<1>8. \A j \in 1 .. m : L[j] \in Nat /\ L[j] <= c
  BY <1>1 DEF LetLimitsFit
<1>9. \A j \in 1 .. m + 1 : j = m + 1 \/ j \in 1 .. m
  OBVIOUS
<1>10. LetLimitsFit(K2, L2)
  <2>1. ASSUME NEW j \in 1 .. m + 1 PROVE L2[j] <= c + q
    <3>1. CASE j = m + 1
      BY <1>5, <3>1
    <3>2. CASE j \in 1 .. m
      BY <1>5, <1>8, <3>2
    <3> QED
      BY <1>9, <3>1, <3>2
  <2>2. ASSUME NEW i \in 1 .. m + 1, NEW j \in 1 .. m + 1, i <= j PROVE L2[i] <= L2[j]
    <3>1. CASE j \in 1 .. m
      <4>1. i \in 1 .. m
        BY <2>2, <3>1
      <4> QED
        BY <1>1, <1>5, <2>2, <3>1, <4>1 DEF LetLimitsFit
    <3>2. CASE j = m + 1 /\ i \in 1 .. m
      BY <1>5, <1>8, <3>2
    <3>3. CASE j = m + 1 /\ i = m + 1
      BY <1>5, <3>3
    <3> QED
      BY <1>9, <3>1, <3>2, <3>3
  <2> QED
    BY <1>3, <1>5, <2>1, <2>2 DEF LetLimitsFit
<1>11. ASSUME NEW j \in 1 .. m
       PROVE  /\ \A k \in L2[j] + 1 .. End(K2, L2, j) : K2[k] \in DOMAIN S2[j]
              /\ \A n \in DOMAIN S2[j] : \E k \in L2[j] + 1 .. End(K2, L2, j) : K2[k] = n
              /\ \A k, l \in L2[j] + 1 .. End(K2, L2, j) : K2[k] = K2[l] => k = l
  <2>1. PICK u \in Nat, v \in Nat : u = L[j] /\ v = End(K, L, j) /\ v <= c
    <3>0. L[j] \in Nat
      BY <1>8
    <3>1. CASE j = m
      <4>1. End(K, L, j) = c
        BY <1>1, <3>1 DEF End
      <4> QED
        BY <3>0, <4>1
    <3>2. CASE j # m
      <4>1. j + 1 \in 1 .. m
        BY <3>2
      <4> QED
        BY <1>1, <1>8, <3>2, <4>1 DEF End
    <3> QED
      BY <3>1, <3>2
  <2>2. L2[j] = u /\ End(K2, L2, j) = v
    <3>1. j # m + 1 /\ j \in 1 .. m + 1
      OBVIOUS
    <3>2. End(K2, L2, j) = L2[j + 1]
      BY <1>5, <3>1 DEF End
    <3>3. CASE j = m
      BY <1>1, <1>5, <2>1, <3>2, <3>3 DEF End
    <3>4. CASE j # m
      <4>1. j + 1 \in 1 .. m
        BY <3>4
      <4> QED
        BY <1>1, <1>5, <2>1, <3>2, <3>4, <4>1 DEF End
    <3> QED
      BY <3>3, <3>4
  <2>3. \A k \in u + 1 .. v : k \in 1 .. c /\ K2[k] = K[k]
    <3>1. \A k \in u + 1 .. v : k \in 1 .. c
      BY <2>1, SMTT(30)
    <3> QED
      BY <1>3, <3>1
  <2>4. /\ \A k \in u + 1 .. v : K[k] \in DOMAIN S[j]
        /\ \A n \in DOMAIN S[j] : \E k \in u + 1 .. v : K[k] = n
        /\ \A k, l \in u + 1 .. v : K[k] = K[l] => k = l
    BY <1>1, <2>1 DEF LetNamesFit
  <2>5. S2[j] = S[j]
    BY <1>7
  <2> QED
    BY <2>2, <2>3, <2>4, <2>5, ZenonT(60)
<1>12. /\ \A k \in c + 1 .. c + q : K2[k] \in DOMAIN M
       /\ \A n \in DOMAIN M : \E k \in c + 1 .. c + q : K2[k] = n
       /\ \A k, l \in c + 1 .. c + q : K2[k] = K2[l] => k = l
  <2>0. \A n : n \in DOMAIN M <=> \E j \in 1 .. q : names[j] = n
    BY <1>1, ToSetRange
  <2>1. ASSUME NEW k \in c + 1 .. c + q PROVE K2[k] \in DOMAIN M
    BY <1>3, <2>0
  <2>2. ASSUME NEW n \in DOMAIN M PROVE \E k \in c + 1 .. c + q : K2[k] = n
    <3>1. PICK j \in 1 .. q : names[j] = n
      BY <2>0
    <3>2. c + j \in c + 1 .. c + q
      OBVIOUS
    <3> QED
      BY <1>3, <3>1, <3>2
  <2>3. ASSUME NEW k \in c + 1 .. c + q, NEW l \in c + 1 .. c + q, K2[k] = K2[l] PROVE k = l
    <3>1. names[k - c] = names[l - c] /\ k - c \in 1 .. q /\ l - c \in 1 .. q
      BY <1>3, <2>3
    <3>2. k - c = l - c
      BY <1>1, <3>1
    <3> QED
      BY <3>2
  <2> QED
    BY <2>1, <2>2, <2>3
<1>13. L2[m + 1] = c /\ End(K2, L2, m + 1) = c + q /\ S2[m + 1] = M
  BY <1>3, <1>5, <1>7 DEF End
<1>14. ASSUME NEW j \in 1 .. m + 1
       PROVE  /\ \A k \in L2[j] + 1 .. End(K2, L2, j) : K2[k] \in DOMAIN S2[j]
              /\ \A n \in DOMAIN S2[j] : \E k \in L2[j] + 1 .. End(K2, L2, j) : K2[k] = n
              /\ \A k, l \in L2[j] + 1 .. End(K2, L2, j) : K2[k] = K2[l] => k = l
  <2>1. CASE j = m + 1
    BY <1>12, <1>13, <2>1
  <2>2. CASE j \in 1 .. m
    BY <1>11, <2>2
  <2> QED
    BY <1>9, <2>1, <2>2
<1>15. LetNamesFit(K2, L2, S2)
  BY <1>5, <1>14 DEF LetNamesFit
<1> QED
  BY <1>2, <1>4, <1>6, <1>10, <1>15

\* A let that is entered: the table, the names and the limits fit again.
LEMMA EnteredLet ==
  ASSUME NEW B, NEW K, NEW L, NEW S, Fits(B, K, L, S),
         NEW names \in Seq(LetNames), \A i, j \in 1 .. Len(names) : names[i] = names[j] => i = j,
         NEW k \in Nat, k = Len(names), NEW values \in [1 .. k -> Values],
         NEW M, M = [n \in ToSet(names) |-> BoundTo(names, values, n)]
  PROVE  Fits(Added(B, names, values), K \o names, Append(L, Len(K)), Append(S, M))
<1>1. /\ B \in [LetNames -> Seq(Values)] /\ K \in Seq(LetNames) /\ L \in Seq(Nat) /\ S \in Seq(Maps)
      /\ Len(S) = Len(L) /\ LetLimitsFit(K, L) /\ LetNamesFit(K, L, S) /\ ValuesFit(B, S)
  BY DEF Fits, LetShapes
<1>0. Len(names) <= k
  OBVIOUS
<1>2. \A n \in ToSet(names) : n \in LetNames /\ BoundTo(names, values, n) \in Values
  <2>1. \A n \in ToSet(names) : n \in LetNames
    BY ToSetRange
  <2>2. ASSUME NEW n \in ToSet(names) PROVE BoundTo(names, values, n) \in Values
    BY <1>0, BoundToType
  <2> QED
    BY <2>1, <2>2
<1>3. M \in [ToSet(names) -> Values] /\ ToSet(names) \in SUBSET LetNames
  BY <1>2
<1>4. M \in Maps /\ DOMAIN M = ToSet(names)
  BY <1>3 DEF Maps
<1>5. PICK B2 \in [LetNames -> Seq(Values)] : B2 = Added(B, names, values)
  BY <1>1, <1>0, AddedType
<1>6. PICK S2 \in Seq(Maps) : S2 = Append(S, M) /\ Len(S2) = Len(S) + 1
  <2>1. Append(S, M) \in Seq(Maps) /\ Len(Append(S, M)) = Len(S) + 1
    BY <1>1, <1>4, AppendProperties
  <2> QED
    BY <2>1
<1>7. LetLimitsFit(K \o names, Append(L, Len(K))) /\ LetNamesFit(K \o names, Append(L, Len(K)), Append(S, M))
  BY <1>1, <1>4, EnteredNames
<1>8. ASSUME NEW n \in LetNames
      PROVE  \E f \in [1 .. Len(B2[n]) -> 1 .. Len(S2)] : Lists(f, B2[n], S2, n)
  <2>1. PICK b \in Seq(Values) : b = B[n]
    BY <1>1
  <2>2. PICK e \in [1 .. Len(b) -> 1 .. Len(S)] : Lists(e, b, S, n)
    BY <1>1, <2>1 DEF ValuesFit
  <2>3. CASE n \in ToSet(names)
    <3>1. PICK v \in Values : v = M[n] /\ B2[n] = Append(b, v)
      BY <1>2, <1>5, <2>1, <2>3 DEF Added
    <3>2. \E f \in [1 .. Len(Append(b, v)) -> 1 .. Len(Append(S, M))] : Lists(f, Append(b, v), Append(S, M), n)
      BY <1>1, <1>4, <2>2, <2>3, <3>1, EnterValues
    <3> QED
      BY <1>6, <3>1, <3>2
  <2>4. CASE n \notin ToSet(names)
    <3>1. B2[n] = b
      BY <1>5, <2>1, <2>4 DEF Added
    <3>2. \E f \in [1 .. Len(b) -> 1 .. Len(Append(S, M))] : Lists(f, b, Append(S, M), n)
      BY <1>1, <1>4, <2>2, <2>4, EnterOthers
    <3> QED
      BY <1>6, <3>1, <3>2
  <2> QED
    BY <2>3, <2>4
<1>9. ValuesFit(B2, S2)
  BY <1>8 DEF ValuesFit
<1>10. K \o names \in Seq(LetNames) /\ Append(L, Len(K)) \in Seq(Nat) /\ Len(Append(L, Len(K))) = Len(L) + 1
  <2>1. Len(K) \in Nat
    BY <1>1
  <2> QED
    BY <1>1, <2>1, ConcatParts, AppendProperties
<1>11. LetShapes(B2, K \o names, Append(L, Len(K)), S2)
  BY <1>1, <1>5, <1>6, <1>10 DEF LetShapes
<1> QED
  BY <1>5, <1>6, <1>7, <1>9, <1>11 DEF Fits

\* The limits and names when the innermost let is left.
LEMMA LeftNames ==
  ASSUME NEW K \in Seq(LetNames), NEW L \in Seq(Nat), NEW S \in Seq(Maps), Len(S) = Len(L),
         LetLimitsFit(K, L), LetNamesFit(K, L, S), NEW m \in Nat, m + 1 = Len(L)
  PROVE  LetLimitsFit(SubSeq(K, 1, L[m + 1]), Front(L)) /\ LetNamesFit(SubSeq(K, 1, L[m + 1]), Front(L), Front(S))
<1>1. PICK p \in Nat : p = L[m + 1] /\ p <= Len(K)
  <2>1. m + 1 \in 1 .. Len(L)
    OBVIOUS
  <2> QED
    BY <2>1 DEF LetLimitsFit
<1>2. PICK L2 \in Seq(Nat) : L2 = Front(L) /\ Len(L2) = m /\ \A j \in 1 .. m : L2[j] = L[j]
  BY FrontParts
<1>3. PICK S2 \in Seq(Maps) : S2 = Front(S) /\ \A j \in 1 .. m : S2[j] = S[j]
  BY FrontParts, ZenonT(60)
<1>4. PICK K2 \in Seq(LetNames) : K2 = SubSeq(K, 1, p) /\ Len(K2) = p /\ \A j \in 1 .. p : K2[j] = K[j]
  <2>1. SubSeq(K, 1, p) \in Seq(LetNames) /\ Len(SubSeq(K, 1, p)) = p /\ \A j \in 1 .. p : SubSeq(K, 1, p)[j] = K[j]
    BY <1>1, Prefix
  <2> QED
    BY <2>1
<1>5. \A j \in 1 .. m : j \in 1 .. m + 1 /\ m + 1 \in 1 .. m + 1 /\ j <= m + 1
  OBVIOUS
<1>6. \A j \in 1 .. m : L[j] \in Nat /\ L[j] <= p
  BY <1>5, <1>1 DEF LetLimitsFit
<1>7. LetLimitsFit(K2, L2)
  <2>1. \A j \in 1 .. m : L2[j] <= p
    BY <1>6, <1>2
  <2>2. \A i, j \in 1 .. m : i <= j => L2[i] <= L2[j]
    BY <1>5, <1>2 DEF LetLimitsFit
  <2> QED
    BY <1>2, <1>4, <2>1, <2>2 DEF LetLimitsFit
<1>8. ASSUME NEW j \in 1 .. m
      PROVE  /\ \A k \in L2[j] + 1 .. End(K2, L2, j) : K2[k] \in DOMAIN S2[j]
             /\ \A n \in DOMAIN S2[j] : \E k \in L2[j] + 1 .. End(K2, L2, j) : K2[k] = n
             /\ \A k, l \in L2[j] + 1 .. End(K2, L2, j) : K2[k] = K2[l] => k = l
  <2>1. j \in 1 .. m + 1 /\ j # m + 1
    OBVIOUS
  <2>2. End(K, L, j) = L[j + 1]
    BY <2>1 DEF End
  <2>3. End(K2, L2, j) = L[j + 1] /\ L[j + 1] \in Nat /\ L[j + 1] <= p
    <3>1. CASE j = m
      BY <1>1, <1>2, <1>4, <3>1 DEF End
    <3>2. CASE j # m
      <4>1. j + 1 \in 1 .. m
        BY <3>2
      <4> QED
        BY <1>6, <1>2, <3>2, <4>1 DEF End
    <3> QED
      BY <3>1, <3>2
  <2>4. PICK u \in Nat, v \in Nat : u = L[j] /\ v = L[j + 1] /\ v <= p
    BY <1>6, <2>3
  <2>5. /\ \A k \in u + 1 .. v : K[k] \in DOMAIN S[j]
        /\ \A n \in DOMAIN S[j] : \E k \in u + 1 .. v : K[k] = n
        /\ \A k, l \in u + 1 .. v : K[k] = K[l] => k = l
    <3>1. j \in 1 .. Len(L)
      BY <2>1
    <3>2. /\ \A k \in L[j] + 1 .. End(K, L, j) : K[k] \in DOMAIN S[j]
          /\ \A n \in DOMAIN S[j] : \E k \in L[j] + 1 .. End(K, L, j) : K[k] = n
          /\ \A k, l \in L[j] + 1 .. End(K, L, j) : K[k] = K[l] => k = l
      BY <3>1, Zenon DEF LetNamesFit
    <3> QED
      BY <2>2, <2>4, <3>2
  <2>6. \A k \in u + 1 .. v : K2[k] = K[k]
    <3>1. \A k \in u + 1 .. v : k \in 1 .. p
      BY <2>4, SMTT(30)
    <3> QED
      BY <1>4, <3>1
  <2>7. L2[j] = u /\ End(K2, L2, j) = v /\ S2[j] = S[j]
    BY <1>2, <1>3, <2>3, <2>4
  <2>8. /\ \A k \in u + 1 .. v : K2[k] \in DOMAIN S[j]
        /\ \A n \in DOMAIN S[j] : \E k \in u + 1 .. v : K2[k] = n
        /\ \A k, l \in u + 1 .. v : K2[k] = K2[l] => k = l
    <3>1. ASSUME NEW k \in u + 1 .. v PROVE K2[k] \in DOMAIN S[j]
      BY <2>5, <2>6
    <3>2. ASSUME NEW n \in DOMAIN S[j] PROVE \E k \in u + 1 .. v : K2[k] = n
      <4>1. PICK k \in u + 1 .. v : K[k] = n
        BY <2>5
      <4> QED
        BY <2>6, <4>1
    <3>3. ASSUME NEW k \in u + 1 .. v, NEW l \in u + 1 .. v, K2[k] = K2[l] PROVE k = l
      BY <2>5, <2>6, <3>3
    <3> QED
      BY <3>1, <3>2, <3>3
  <2> QED
    BY <2>7, <2>8
<1>9. LetNamesFit(K2, L2, S2)
  BY <1>8, <1>2 DEF LetNamesFit
<1> QED
  BY <1>7, <1>9, <1>1, <1>2, <1>3, <1>4

\* The innermost let is left: what remains fits again.
LEMMA LeftLet ==
  ASSUME NEW B, NEW K, NEW L, NEW S, Fits(B, K, L, S), L # <<>>
  PROVE  /\ Last(L) \in Nat /\ Last(L) <= Len(K)
         /\ \A i, j \in Last(L) + 1 .. Len(K) : K[i] = K[j] => i = j
         /\ Fits(Restored(B, K, Last(L)), SubSeq(K, 1, Last(L)), Front(L), Front(S))
<1>1. /\ B \in [LetNames -> Seq(Values)] /\ K \in Seq(LetNames) /\ L \in Seq(Nat) /\ S \in Seq(Maps)
      /\ Len(S) = Len(L) /\ LetLimitsFit(K, L) /\ LetNamesFit(K, L, S) /\ ValuesFit(B, S)
  BY DEF Fits, LetShapes
<1>2. PICK m \in Nat : m + 1 = Len(L) /\ m = Len(L) - 1 /\ m <= Len(L)
  <2>1. Len(L) - 1 \in Nat /\ (Len(L) - 1) + 1 = Len(L) /\ Len(L) - 1 <= Len(L)
    BY <1>1
  <2> QED
    BY <2>1
<1>3. m + 1 \in 1 .. m + 1
  OBVIOUS
<1>4. PICK p \in Nat : p = L[m + 1] /\ p = Last(L)
  BY <1>1, <1>2, <1>3 DEF Last
<1>5. PICK c \in Nat : c = Len(K)
  BY <1>1
<1>6. p <= c
  BY <1>1, <1>2, <1>3, <1>4, <1>5 DEF LetLimitsFit
<1>7. End(K, L, m + 1) = c
  BY <1>2, <1>5 DEF End
<1>8. /\ \A k \in p + 1 .. c : K[k] \in DOMAIN S[m + 1]
      /\ \A n \in DOMAIN S[m + 1] : \E k \in p + 1 .. c : K[k] = n
      /\ \A k, l \in p + 1 .. c : K[k] = K[l] => k = l
  <2>1. m + 1 \in 1 .. Len(L)
    BY <1>2, <1>3
  <2>2. /\ \A k \in L[m + 1] + 1 .. End(K, L, m + 1) : K[k] \in DOMAIN S[m + 1]
        /\ \A n \in DOMAIN S[m + 1] : \E k \in L[m + 1] + 1 .. End(K, L, m + 1) : K[k] = n
        /\ \A k, l \in L[m + 1] + 1 .. End(K, L, m + 1) : K[k] = K[l] => k = l
    BY <1>1, <2>1, Zenon DEF LetNamesFit
  <2> QED
    BY <1>4, <1>7, <2>2
<1>9. PICK L2 \in Seq(Nat) : L2 = Front(L) /\ Len(L2) = m /\ \A j \in 1 .. m : L2[j] = L[j]
  BY <1>1, <1>2, FrontParts
<1>10. PICK S2 \in Seq(Maps) : S2 = Front(S) /\ Len(S2) = m /\ \A j \in 1 .. m : S2[j] = S[j]
  BY <1>1, <1>2, FrontParts, ZenonT(60)
<1>11. PICK K2 \in Seq(LetNames) : K2 = SubSeq(K, 1, p) /\ Len(K2) = p /\ \A j \in 1 .. p : K2[j] = K[j]
  <2>1. SubSeq(K, 1, p) \in Seq(LetNames) /\ Len(SubSeq(K, 1, p)) = p /\ \A j \in 1 .. p : SubSeq(K, 1, p)[j] = K[j]
    BY <1>1, <1>5, <1>6, Prefix
  <2> QED
    BY <2>1
<1>12. LetLimitsFit(K2, L2) /\ LetNamesFit(K2, L2, S2)
  <2>1. LetLimitsFit(SubSeq(K, 1, L[m + 1]), Front(L)) /\ LetNamesFit(SubSeq(K, 1, L[m + 1]), Front(L), Front(S))
    BY <1>1, <1>2, LeftNames
  <2> QED
    BY <1>4, <1>9, <1>10, <1>11, <2>1
<1>13. ASSUME NEW n \in LetNames
       PROVE  LET d == IF \E i \in p + 1 .. Len(K) : K[i] = n THEN SubSeq(B[n], 1, Len(B[n]) - 1) ELSE B[n]
              IN  d \in Seq(Values) /\ \E f \in [1 .. Len(d) -> 1 .. m] : Lists(f, d, S2, n)
  <2>1. PICK b \in Seq(Values) : b = B[n]
    BY <1>1
  <2>2. PICK e \in [1 .. Len(b) -> 1 .. Len(S)] : Lists(e, b, S, n)
    BY <1>1, <2>1 DEF ValuesFit
  <2>3. m + 1 = Len(S) /\ S # <<>>
    BY <1>1, <1>2
  <2>4. CASE \E i \in p + 1 .. Len(K) : K[i] = n
    <3>1. n \in DOMAIN S[m + 1]
      BY <1>5, <1>8, <2>4
    <3>2. \E f \in [1 .. Len(SubSeq(b, 1, Len(b) - 1)) -> 1 .. m] : Lists(f, SubSeq(b, 1, Len(b) - 1), S2, n)
      BY <1>1, <1>10, <2>2, <2>3, <3>1, LeaveValues
    <3>3. PICK h \in Nat : h = Len(b) - 1 /\ h <= Len(b)
      <4>1. \E a \in 1 .. Len(b) : e[a] = m + 1
        BY <1>3, <2>2, <2>3, <3>1 DEF Lists
      <4>2. Len(b) - 1 \in Nat /\ Len(b) - 1 <= Len(b)
        BY <4>1
      <4> QED
        BY <4>2
    <3>4. SubSeq(b, 1, h) \in Seq(Values)
      BY <3>3, Prefix
    <3> QED
      BY <2>1, <2>4, <3>2, <3>3, <3>4
  <2>5. CASE ~\E i \in p + 1 .. Len(K) : K[i] = n
    <3>1. n \notin DOMAIN S[m + 1]
      BY <1>5, <1>8, <2>5
    <3>2. \E f \in [1 .. Len(b) -> 1 .. m] : Lists(f, b, S2, n)
      BY <1>1, <1>10, <2>2, <2>3, <3>1, LeaveOthers, ZenonT(60)
    <3> QED
      BY <2>1, <2>5, <3>2
  <2> QED
    BY <2>4, <2>5
<1>14. PICK B2 : B2 = Restored(B, K, p)
  OBVIOUS
<1>15. /\ B2 \in [LetNames -> Seq(Values)]
       /\ \A n \in LetNames : \E f \in [1 .. Len(B2[n]) -> 1 .. m] : Lists(f, B2[n], S2, n)
  BY <1>13, <1>14 DEF Restored
<1>16. ValuesFit(B2, S2) /\ LetShapes(B2, K2, L2, S2)
  BY <1>9, <1>10, <1>11, <1>15 DEF ValuesFit, LetShapes
<1>17. Fits(B2, K2, L2, S2)
  BY <1>12, <1>16 DEF Fits
<1> QED
  BY <1>4, <1>5, <1>6, <1>8, <1>9, <1>10, <1>11, <1>14, <1>17

-----------------------------------------------------------------------------
\* The invariant holds before any let is read.
LEMMA InitLet == LetInit => LetInv
<1> SUFFICES ASSUME LetInit PROVE LetInv
  OBVIOUS
<1>1. /\ letBinders = [n \in LetNames |-> <<>>] /\ knownBinders = <<>> /\ frameLimits = <<>> /\ scopes = <<>>
  BY DEF LetInit
<1>2. LetShapes(letBinders, knownBinders, frameLimits, scopes)
  BY <1>1 DEF LetShapes
<1>3. LetLimitsFit(knownBinders, frameLimits) /\ LetNamesFit(knownBinders, frameLimits, scopes)
  BY <1>1 DEF LetLimitsFit, LetNamesFit
<1>4. ASSUME NEW n \in LetNames
      PROVE  \E e \in [1 .. Len(letBinders[n]) -> 1 .. Len(scopes)] : Lists(e, letBinders[n], scopes, n)
  <2>1. letBinders[n] = <<>> /\ Len(letBinders[n]) = 0 /\ Len(scopes) = 0
    BY <1>1
  <2>2. [a \in 1 .. 0 |-> a] \in [1 .. 0 -> 1 .. 0]
    OBVIOUS
  <2>3. Lists([a \in 1 .. 0 |-> a], letBinders[n], scopes, n)
    BY <2>1 DEF Lists
  <2> QED
    BY <2>1, <2>2, <2>3
<1> QED
  BY <1>2, <1>3, <1>4 DEF LetInv, Fits, ValuesFit

\* Entering a let, whether it is accepted or refused.
LEMMA EnterLetFits ==
  ASSUME LetInv, NEW k \in 1 .. 2, NEW names \in [1 .. k -> LetNames], NEW values \in [1 .. k -> Values],
         EnterLet(names, values)
  PROVE  LetInv'
<1> DEFINE distinct == Len(names) > 1 => IsInjective(names)
           taken == IF distinct THEN Accepted(names) ELSE 0
           old == [binders |-> letBinders, known |-> knownBinders]
           r == AddBindings(old, SubSeq(names, 1, taken), values)
           new == IF distinct /\ taken = Len(names) THEN r ELSE Popped(r, Len(knownBinders))
<1>1. /\ letBinders \in [LetNames -> Seq(Values)] /\ knownBinders \in Seq(LetNames)
  BY DEF LetInv, Fits, LetShapes
<1>2. names \in Seq(LetNames) /\ Len(names) = k /\ k \in Nat
  BY FunctionIsSeq
<1>3. old.binders = letBinders /\ old.known = knownBinders
  OBVIOUS
<1>4. /\ letBinders' = new.binders
      /\ knownBinders' = new.known
      /\ IF distinct /\ taken = Len(names)
         THEN /\ frameLimits' = Append(frameLimits, Len(knownBinders))
              /\ scopes' = Append(scopes, [n \in ToSet(names) |-> BoundTo(names, values, n)])
         ELSE UNCHANGED <<frameLimits, scopes>>
  BY DEF EnterLet, BoundTo
<1>5. distinct => \A i, j \in 1 .. k : names[i] = names[j] => i = j
  <2>1. CASE k = 1
    BY <2>1
  <2>2. CASE k = 2
    BY <1>2, <2>2 DEF IsInjective
  <2> QED
    BY <2>1, <2>2
<1>6. taken \in 0 .. k
  <2>1. CASE ~distinct
    BY <2>1
  <2>2. CASE distinct
    <3>1. PICK refused \in SUBSET (1 .. k) : refused = {j \in DOMAIN names : names[j] \in NoScoping}
      OBVIOUS
    <3>2. CASE refused = {}
      BY <1>2, <2>2, <3>1, <3>2 DEF Accepted
    <3>3. CASE refused # {}
      <4>1. \E j \in refused : \A i \in refused : j <= i
        <5>1. CASE 1 \in refused
          BY <3>1, <5>1
        <5>2. CASE 1 \notin refused
          <6>1. \A i \in refused : i = 2
            BY <3>1, <5>2
          <6>2. PICK j \in refused : j = 2
            BY <3>3, <6>1
          <6> QED
            BY <6>1, <6>2
        <5> QED
          BY <5>1, <5>2
      <4>2. PICK least \in refused : least = CHOOSE j \in refused : \A i \in refused : j <= i
        BY <4>1
      <4>3. Accepted(names) = least - 1
        BY <3>1, <3>3, <4>2 DEF Accepted
      <4> QED
        BY <2>2, <3>1, <4>2, <4>3
    <3> QED
      BY <3>2, <3>3
  <2> QED
    BY <2>1, <2>2
<1>7. PICK q \in Nat : q = taken /\ q <= k /\ (~distinct => q = 0)
  BY <1>6
<1>8. PICK p \in Seq(LetNames) : p = SubSeq(names, 1, taken) /\ Len(p) = q /\ \A j \in 1 .. q : p[j] = names[j]
  <2>1. q <= Len(names)
    BY <1>2, <1>7
  <2>2. SubSeq(names, 1, q) \in Seq(LetNames) /\ Len(SubSeq(names, 1, q)) = q
        /\ \A j \in 1 .. q : SubSeq(names, 1, q)[j] = names[j]
    BY <1>2, <2>1, Prefix
  <2> QED
    BY <1>7, <2>2
<1> HIDE DEF distinct, taken, old
<1>9. \A i, j \in 1 .. Len(p) : p[i] = p[j] => i = j
  <2>1. CASE ~distinct
    BY <1>7, <1>8, <2>1
  <2>2. CASE distinct
    <3>1. \A j \in 1 .. q : j \in 1 .. k
      BY <1>7
    <3> QED
      BY <1>5, <1>8, <2>2, <3>1, SMTT(30)
  <2> QED
    BY <2>1, <2>2
<1>10. r = AddBindings(old, p, values)
  BY <1>8
<1>11. CASE distinct /\ taken = Len(names)
  <2>1. p = names
    <3>1. Len(p) = Len(names) /\ \A j \in 1 .. Len(p) : p[j] = names[j]
      BY <1>7, <1>8, <1>11
    <3> QED
      BY <1>2, <3>1, SeqEqual
  <2>2. /\ r.binders = Added(old.binders, p, values)
        /\ r.known = old.known \o p
    BY <1>10, AddedParts
  <2>3. new = r
    BY <1>11
  <2>4. letBinders' = Added(letBinders, names, values) /\ knownBinders' = knownBinders \o names
    BY <1>3, <1>4, <2>1, <2>2, <2>3
  <2>5. PICK M : M = [n \in ToSet(names) |-> BoundTo(names, values, n)]
    OBVIOUS
  <2>6. frameLimits' = Append(frameLimits, Len(knownBinders)) /\ scopes' = Append(scopes, M)
    BY <1>4, <1>11, <2>5
  <2>7. \A i, j \in 1 .. Len(names) : names[i] = names[j] => i = j
    BY <1>2, <1>5, <1>11
  <2>8. Fits(Added(letBinders, names, values), knownBinders \o names,
             Append(frameLimits, Len(knownBinders)), Append(scopes, M))
    BY <1>2, <2>5, <2>7, EnteredLet DEF LetInv
  <2> QED
    BY <2>4, <2>6, <2>8 DEF LetInv
<1>12. CASE ~(distinct /\ taken = Len(names))
  <2>1. Len(p) <= k
    BY <1>7, <1>8
  <2>2. /\ Popped(AddBindings(old, p, values), Len(knownBinders)).binders = letBinders
        /\ Popped(AddBindings(old, p, values), Len(knownBinders)).known = knownBinders
    <3>1. old.binders \in [LetNames -> Seq(Values)] /\ old.known \in Seq(LetNames)
      BY <1>1, <1>3
    <3>2. /\ Popped(AddBindings(old, p, values), Len(old.known)).binders = old.binders
          /\ Popped(AddBindings(old, p, values), Len(old.known)).known = old.known
      BY <1>2, <1>9, <2>1, <3>1, RefusedLet
    <3> QED
      BY <1>3, <3>2
  <2>3. new = Popped(AddBindings(old, p, values), Len(knownBinders))
    BY <1>10, <1>12
  <2>4. letBinders' = letBinders /\ knownBinders' = knownBinders /\ frameLimits' = frameLimits /\ scopes' = scopes
    BY <1>4, <1>12, <2>2, <2>3
  <2> QED
    BY <2>4 DEF LetInv
<1> QED
  BY <1>11, <1>12

\* Leaving the innermost let.
LEMMA LeaveLetFits ==
  ASSUME LetInv, LeaveLet
  PROVE  LetInv'
<1> DEFINE r == [binders |-> letBinders, known |-> knownBinders]
<1>1. /\ letBinders \in [LetNames -> Seq(Values)] /\ knownBinders \in Seq(LetNames) /\ frameLimits # <<>>
      /\ Fits(letBinders, knownBinders, frameLimits, scopes)
  BY DEF LetInv, Fits, LetShapes, LeaveLet
<1>2. r.binders = letBinders /\ r.known = knownBinders
  OBVIOUS
<1>3. /\ letBinders' = Popped(r, Last(frameLimits)).binders
      /\ knownBinders' = Popped(r, Last(frameLimits)).known
      /\ frameLimits' = Front(frameLimits)
      /\ scopes' = Front(scopes)
  BY DEF LeaveLet
<1> HIDE DEF r
<1>4. PICK p \in Nat :
        /\ p = Last(frameLimits) /\ p <= Len(knownBinders)
        /\ \A i, j \in p + 1 .. Len(knownBinders) : knownBinders[i] = knownBinders[j] => i = j
        /\ Fits(Restored(letBinders, knownBinders, p), SubSeq(knownBinders, 1, p), Front(frameLimits), Front(scopes))
  BY <1>1, LeftLet
<1>5. /\ Popped(r, p).binders = Restored(r.binders, r.known, p)
      /\ Popped(r, p).known = SubSeq(r.known, 1, p)
  BY <1>1, <1>2, <1>4, PoppedParts
<1>6. letBinders' = Restored(letBinders, knownBinders, p) /\ knownBinders' = SubSeq(knownBinders, 1, p)
  BY <1>2, <1>3, <1>4, <1>5
<1> QED
  BY <1>3, <1>4, <1>6 DEF LetInv

\* Every step keeps the invariant.
LEMMA NextLet == LetInv /\ [LetNext]_letVars => LetInv'
<1> SUFFICES ASSUME LetInv, [LetNext]_letVars PROVE LetInv'
  OBVIOUS
<1>1. CASE UNCHANGED letVars
  BY <1>1 DEF LetInv, letVars
<1>2. CASE LeaveLet
  BY <1>2, LeaveLetFits
<1>3. ASSUME NEW k \in 1 .. 2, NEW names \in [1 .. k -> LetNames], NEW values \in [1 .. k -> Values],
             EnterLet(names, values)
      PROVE  LetInv'
  BY <1>3, EnterLetFits
<1> QED
  BY <1>1, <1>2, <1>3 DEF LetNext

\* The invariant says which value is in force.
LEMMA LetInvWins == LetInv => InnermostLetWins
<1> SUFFICES ASSUME LetInv, NEW n \in LetNames
             PROVE  LET binding == {j \in DOMAIN scopes : n \in DOMAIN scopes[j]}
                    IN  IF binding = {} THEN letBinders[n] = <<>>
                        ELSE /\ letBinders[n] # <<>>
                             /\ Last(letBinders[n]) = scopes[CHOOSE j \in binding : \A k \in binding : k <= j][n]
  BY DEF InnermostLetWins
<1>1. PICK b \in Seq(Values), S \in Seq(Maps) : b = letBinders[n] /\ S = scopes
  BY DEF LetInv, Fits, LetShapes
<1>2. PICK e \in [1 .. Len(b) -> 1 .. Len(S)] : Lists(e, b, S, n)
  BY <1>1 DEF LetInv, Fits, ValuesFit
<1>3. PICK l \in Nat, m \in Nat : l = Len(b) /\ m = Len(S) /\ DOMAIN S = 1 .. m
  OBVIOUS
<1>4. PICK binding : binding = {j \in DOMAIN scopes : n \in DOMAIN scopes[j]}
  OBVIOUS
<1>5. /\ \A j \in binding : j \in 1 .. m /\ \E a \in 1 .. l : e[a] = j
      /\ \A a \in 1 .. l : e[a] \in binding /\ e[a] \in 1 .. m
  BY <1>1, <1>2, <1>3, <1>4 DEF Lists
<1>6. CASE binding = {}
  <2>1. l = 0
    <3>1. SUFFICES ASSUME l # 0 PROVE FALSE
      OBVIOUS
    <3>2. 1 \in 1 .. l
      BY <3>1
    <3> QED
      BY <1>5, <1>6, <3>2
  <2>2. b = <<>>
    BY <1>3, <2>1, EmptySeq
  <2> QED
    BY <1>1, <1>4, <1>6, <2>2
<1>7. CASE binding # {}
  <2>1. l \in 1 .. l
    BY <1>5, <1>7
  <2>2. e[l] \in binding /\ \A j \in binding : j <= e[l]
    <3>1. ASSUME NEW j \in binding PROVE j <= e[l]
      <4>1. PICK a \in 1 .. l : e[a] = j
        BY <1>5
      <4>2. CASE a = l
        BY <1>5, <2>1, <4>1, <4>2
      <4>3. CASE a < l
        <5>1. e[a] < e[l]
          BY <1>2, <1>3, <2>1, <4>3 DEF Lists
        <5> QED
          BY <1>5, <2>1, <4>1, <5>1
      <4> QED
        BY <4>2, <4>3
    <3> QED
      BY <1>5, <2>1, <3>1
  <2>3. PICK x \in binding : x = CHOOSE j \in binding : \A k \in binding : k <= j
    BY <2>2
  <2>4. \A k \in binding : k <= x
    BY <2>2, <2>3
  <2>5. x = e[l]
    BY <1>5, <2>2, <2>4
  <2>6. b[l] = S[e[l]][n] /\ b # <<>> /\ Last(b) = b[l]
    BY <1>2, <1>3, <2>1 DEF Lists, Last
  <2> QED
    BY <1>1, <1>4, <1>7, <2>3, <2>5, <2>6
<1> QED
  BY <1>6, <1>7

\* The types, from the invariant.
LEMMA LetInvType == LetInv => LetTypeOK
<1> SUFFICES ASSUME LetInv PROVE LetTypeOK
  OBVIOUS
<1>1. /\ letBinders \in [LetNames -> Seq(Values)] /\ knownBinders \in Seq(LetNames) /\ frameLimits \in Seq(Nat)
      /\ \A j \in 1 .. Len(frameLimits) : frameLimits[j] <= Len(knownBinders)
  BY DEF LetInv, Fits, LetShapes, LetLimitsFit
<1>2. PICK c \in Nat, m \in Nat : c = Len(knownBinders) /\ m = Len(frameLimits)
  BY <1>1
<1>3. frameLimits \in [1 .. m -> 0 .. c]
  <2>1. \A j \in 1 .. m : frameLimits[j] \in Nat /\ frameLimits[j] <= c
    BY <1>1, <1>2
  <2>2. \A j \in 1 .. m : frameLimits[j] \in 0 .. c
    BY <2>1
  <2> QED
    BY <1>1, <1>2, <2>2
<1>4. frameLimits \in Seq(0 .. c)
  BY <1>3, FunctionIsSeq
<1> QED
  BY <1>1, <1>2, <1>4 DEF LetTypeOK

\* Interpret.cc, LetRecords: the invariant of the table in every reachable state.
THEOREM LetInvariant == LetSpec => []LetInv
BY InitLet, NextLet, PTL DEF LetSpec

\* LetRecords: the table, the names and the limits have their types; no limit is
\* past the names.
THEOREM LetTypes == LetSpec => []LetTypeOK
BY LetInvariant, LetInvType, PTL

\* LetRecords::getOrUndef() answers with the binding of the innermost let around
\* the term that binds the name, for every nesting, hiding and refused let.
THEOREM InnermostWins == LetSpec => []InnermostLetWins
BY LetInvariant, LetInvWins, PTL
=============================================================================
