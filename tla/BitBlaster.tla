----------------------------- MODULE BitBlaster -----------------------------
(***************************************************************************)
(* Bit vectors: the constructors of BVLogic, which simplify while they     *)
(* build a term, and the circuits BitBlaster makes of terms.  A circuit is *)
(* a formula over the bits of the variables; it is represented here by its *)
(* value under one assignment env of the variables, and Init tries every   *)
(* assignment.  A vector is a sequence of bits, the least significant      *)
(* first.  The reference is the meaning the operators have in C (the       *)
(* symbols of BVLogic are those of C): a division by zero and a shift by   *)
(* the width or more have no meaning.                                      *)
(***************************************************************************)
EXTENDS Integers, Sequences, FiniteSets, SequencesExt

CONSTANTS Width,       \* BVLogic::bitwidth
          Vars,        \* the bit-vector variables
          Constants,   \* the numbers given to mkBVConst
          Ops,         \* the constructors that are called
          MaxDepth,    \* how many constructors are called
          CufTerms     \* the uninterpreted terms that may be bound to vectors

VARIABLES env,      \* the values of the variables
          made,     \* what the constructors returned, with the meaning of the call
          holds,    \* do the formulas of insert() hold under env?
          wanted,   \* do the inserted terms hold, by their meaning?
          bound,    \* pToB: what the refined terms are bound to
          refined, last_refined,
          related   \* the equalities notifyEquality() has defined, in order

vars == <<env, made, holds, wanted, bound, refined, last_refined, related>>

Size == 2^Width
Words == 0 .. Size - 1
NoMeaning == -1
Positions == [i \in 1 .. Width |-> i]

-----------------------------------------------------------------------------
(* Terms.                                                                  *)

Leaf(o, v) == [op |-> o, val |-> v, args |-> <<>>]
Fun(o, as) == [op |-> o, val |-> 0, args |-> as]
Var(x) == Leaf(x, 0)
IsConst(t) == t.op = "const"

mkBVConst(c) == Leaf("const", c % Size)

\* A constant is named by its binary digits, and getBVNUMConst() reads the
\* name as a decimal number.
getBVNUMConst(t) ==
    FoldLeft(LAMBDA n, i : 10 * n + ((t.val \div 2^(Width - i)) % 2), 0, Positions)

Zero == mkBVConst(0)
One == mkBVConst(1)
TruthConst(b) == IF b THEN One ELSE Zero

mkBVNot(a) ==
    IF a.op = "not" THEN a.args[1]
    ELSE IF IsConst(a) THEN TruthConst(a = Zero)
    ELSE Fun("not", <<a>>)

mkBVEq(a, b) ==
    IF (IsConst(a) /\ IsConst(b)) \/ a = b THEN TruthConst(a = b)
    ELSE IF a = mkBVNot(b) THEN Zero
    ELSE Fun("eq", <<a, b>>)

mkBVMinus(a, b) == Fun("add", <<a, Fun("mul", <<mkBVConst(-1), b>>)>>)

mkBVNeg(a) ==
    IF IsConst(a) THEN mkBVConst(-getBVNUMConst(a)) ELSE mkBVMinus(Zero, a)

Compared(o, a, b, CompareConsts(_, _)) ==
    IF IsConst(a) /\ IsConst(b)
    THEN TruthConst(CompareConsts(getBVNUMConst(a), getBVNUMConst(b)))
    ELSE Fun(o, <<a, b>>)

mkBVUleq(a, b) == Compared("ule", a, b, LAMBDA c, d : c <= d)
mkBVSlt(a, b) == Compared("slt", a, b, LAMBDA c, d : c < d)
mkBVUlt(a, b) == mkBVNeg(mkBVUleq(b, a))
mkBVSleq(a, b) ==
    IF IsConst(a) /\ IsConst(b)
    THEN TruthConst(getBVNUMConst(a) <= getBVNUMConst(b))
    ELSE mkBVNot(mkBVSlt(b, a))

Shift(o, a, b) == IF IsConst(b) /\ getBVNUMConst(b) = 0 THEN a ELSE Fun(o, <<a, b>>)

mkBVMod(a, b) ==
    IF IsConst(b) /\ getBVNUMConst(b) = 1 THEN Zero ELSE Fun("urem", <<a, b>>)

\* The term a constructor returns.  The arithmetic shift is declared under
\* the name of the logical one, hence the same symbol.
Construct(o, a, b) ==
    CASE o = "neg" -> mkBVNeg(a)            [] o = "minus" -> mkBVMinus(a, b)
      [] o = "not" -> mkBVNot(a)            [] o = "compl" -> Fun("compl", <<a>>)
      [] o = "eq" -> mkBVEq(a, b)           [] o = "neq" -> mkBVNot(mkBVEq(a, b))
      [] o = "ule" -> mkBVUleq(a, b)        [] o = "uge" -> mkBVUleq(b, a)
      [] o = "ult" -> mkBVUlt(a, b)         [] o = "ugt" -> mkBVUlt(b, a)
      [] o = "slt" -> mkBVSlt(a, b)         [] o = "sgt" -> mkBVSlt(b, a)
      [] o = "sle" -> mkBVSleq(a, b)        [] o = "sge" -> mkBVSleq(b, a)
      [] o = "lshift" -> Shift("lshift", a, b)
      [] o \in {"lrshift", "arshift"} -> Shift("lrshift", a, b)
      [] o = "urem" -> mkBVMod(a, b)
      [] OTHER -> Fun(o, <<a, b>>)     \* add, mul, udiv, &, |, ^, && and ||

-----------------------------------------------------------------------------
(* Circuits.                                                               *)

BitsOf(n) == [i \in 1 .. Width |-> (n \div 2^(i - 1)) % 2 = 1]

\* computeModel() reads the value of a vector back.
Value(bits) ==
    FoldLeft(LAMBDA v, i : v + (IF bits[i] THEN 2^(i - 1) ELSE 0), 0, [i \in 1 .. Len(bits) |-> i])

Negated(a) == [i \in 1 .. Width |-> ~a[i]]
Flag(b) == [i \in 1 .. Width |-> i = 1 /\ b]
AnyBit(a) == \E i \in 1 .. Width : a[i]

\* A ripple-carry adder.
Adder(a, b, cin) ==
    FoldLeft(LAMBDA s, i : LET x == a[i] # b[i]
                           IN  [sum |-> Append(s.sum, x # s.carry),
                                carry |-> (a[i] /\ b[i]) \/ (x /\ s.carry)],
             [sum |-> <<>>, carry |-> cin], Positions)

\* The lexicographic comparison of bbBvule and of the dividers.
Less(a, b) == FoldLeft(LAMBDA lt, i : (~a[i] /\ b[i]) \/ ((a[i] = b[i]) /\ lt), FALSE, Positions)

bbBvslt(a, b) == Flag((a[Width] = b[Width]) # Adder(a, Negated(b), TRUE).carry)

\* Subtraction by complement, in two additions.
Subtracted(a, b) == Adder(Adder(a, Negated(b), FALSE).sum, Flag(TRUE), FALSE).sum

\* Mutant: the next bit enters at the wrong end.
DivideStepMsbFirst(s, i, dividend, divisor, ByZero) ==
    LET bit == ByZero \/ ~Less(s.minuend, divisor)
        rest == Subtracted(s.minuend, [j \in 1 .. Width |-> bit /\ divisor[j]])
    IN  [quotient |-> <<bit>> \o s.quotient,
         minuend |-> IF i > 1 THEN SubSeq(rest, 2, Width) \o <<dividend[i - 1]>> ELSE rest]

\* One round of the division: compare, subtract, and shift in the next bit.
DivideStep(s, i, dividend, divisor, ByZero) ==
    LET bit == ByZero \/ ~Less(s.minuend, divisor)
        rest == Subtracted(s.minuend, [j \in 1 .. Width |-> bit /\ divisor[j]])
    IN  [quotient |-> <<bit>> \o s.quotient,
         minuend |-> IF i > 1 THEN <<dividend[i - 1]>> \o SubSeq(rest, 1, Width - 1) ELSE rest]

Divided(dividend, divisor, ByZero) ==
    FoldLeft(LAMBDA s, i : DivideStep(s, i, dividend, divisor, ByZero),
             [quotient |-> <<>>, minuend |-> Flag(dividend[Width])], Reverse(Positions))

bbBvudiv(a, b, isZero) == Divided(a, b, isZero).quotient
bbBvurem(a, b, isZero) == LET r == Divided(a, b, FALSE).minuend
                          IN  [i \in 1 .. Width |-> isZero \/ r[i]]

\* Shifted sums; a vector of one bit has no sum to do and gets no result.
Addend(a, b, i) == [j \in 1 .. Width |-> j >= i /\ b[i] /\ a[j - i + 1]]
bbBvmul(a, b) ==
    IF Width = 1 THEN <<>>
    ELSE FoldLeft(LAMBDA acc, i : Adder(acc, Addend(a, b, i), FALSE).sum,
                  Addend(a, b, 1), [i \in 1 .. Width - 1 |-> i + 1])

\* Barrel shifters: one stage for each of the low log2(Width) bits of b.
Stages == [s \in 1 .. CHOOSE n \in 0 .. Width : 2^n = Width |-> 2^(s - 1)]
bbBvlshift(a, b) ==
    FoldLeft(LAMBDA p, s : [i \in 1 .. Width |->
                 IF ~b[s] THEN p[i] ELSE i > Stages[s] /\ p[i - Stages[s]]],
             a, [s \in DOMAIN Stages |-> s])
bbBvrshift(a, b, fill) ==
    FoldLeft(LAMBDA p, s : [i \in 1 .. Width |->
                 IF ~b[s] THEN p[i]
                 ELSE IF i + Stages[s] <= Width THEN p[i + Stages[s]] ELSE fill],
             a, [s \in DOMAIN Stages |-> s])

bbEq(a, b) == Flag(\A i \in 1 .. Width : a[i] = b[i])
bbBvule(a, b, equal) == Flag(equal \/ Less(a, b))
bbBvand(a, b) == [i \in 1 .. Width |-> a[i] /\ b[i]]
bbBvor(a, b) == [i \in 1 .. Width |-> a[i] \/ b[i]]
bbBvxor(a, b) == [i \in 1 .. Width |-> a[i] # b[i]]
bbBvlnot(a) == Flag(~AnyBit(a))
bbBvland(a, b) == Flag(AnyBit(a) /\ AnyBit(b))
bbBvlor(a, b) == Flag(AnyBit(a) \/ AnyBit(b))

\* bbTerm(), without its cache: the bits are a function of the term.
RECURSIVE bbTerm(_)
bbTerm(t) ==
    IF IsConst(t) THEN BitsOf(t.val)
    ELSE IF t.args = <<>> THEN BitsOf(env[t.op])
    ELSE LET a == bbTerm(t.args[1])
             b == bbTerm(t.args[Len(t.args)])
             equal(c) == bbTerm(mkBVEq(t.args[2], c))[1]
         IN CASE t.op = "eq"      -> bbEq(a, b)
              [] t.op = "slt"     -> bbBvslt(a, b)
              [] t.op = "ule"     -> bbBvule(a, b, equal(t.args[1]))
              [] t.op = "and"     -> bbBvand(a, b)
              [] t.op = "or"      -> bbBvor(a, b)
              [] t.op = "xor"     -> bbBvxor(a, b)
              [] t.op = "compl"   -> Negated(a)
              [] t.op = "not"     -> bbBvlnot(a)
              [] t.op = "land"    -> bbBvland(a, b)
              [] t.op = "lor"     -> bbBvlor(a, b)
              [] t.op = "add"     -> Adder(a, b, FALSE).sum
              [] t.op = "mul"     -> bbBvmul(a, b)
              [] t.op = "udiv"    -> bbBvudiv(a, b, equal(Zero))
              [] t.op = "urem"    -> bbBvurem(a, b, equal(Zero))
              [] t.op = "lshift"  -> bbBvlshift(a, b)
              [] t.op = "lrshift" -> bbBvrshift(a, b, FALSE)

-----------------------------------------------------------------------------
(* The reference.                                                          *)

Signed(n) == IF n >= Size \div 2 THEN n - Size ELSE n
Truth(b) == IF b THEN 1 ELSE 0
Bitwise(Op(_, _), m, n) == Value([i \in 1 .. Width |-> Op(BitsOf(m)[i], BitsOf(n)[i])])

Meaning(o, m, n) ==
    IF m = NoMeaning \/ n = NoMeaning THEN NoMeaning
    ELSE CASE o = "neg" -> (-m) % Size          [] o = "minus" -> (m - n) % Size
           [] o = "not" -> Truth(m = 0)         [] o = "compl" -> Size - 1 - m
           [] o = "eq" -> Truth(m = n)          [] o = "neq" -> Truth(m # n)
           [] o = "ule" -> Truth(m <= n)        [] o = "uge" -> Truth(m >= n)
           [] o = "ult" -> Truth(m < n)         [] o = "ugt" -> Truth(m > n)
           [] o = "slt" -> Truth(Signed(m) < Signed(n))
           [] o = "sgt" -> Truth(Signed(m) > Signed(n))
           [] o = "sle" -> Truth(Signed(m) <= Signed(n))
           [] o = "sge" -> Truth(Signed(m) >= Signed(n))
           [] o = "add" -> (m + n) % Size       [] o = "mul" -> (m * n) % Size
           [] o = "udiv" -> IF n = 0 THEN NoMeaning ELSE m \div n
           [] o = "urem" -> IF n = 0 THEN NoMeaning ELSE m % n
           [] o = "and" -> Bitwise(LAMBDA p, q : p /\ q, m, n)
           [] o = "or" -> Bitwise(LAMBDA p, q : p \/ q, m, n)
           [] o = "xor" -> Bitwise(LAMBDA p, q : p # q, m, n)
           [] o = "land" -> Truth(m # 0 /\ n # 0)
           [] o = "lor" -> Truth(m # 0 \/ n # 0)
           [] n >= Width -> NoMeaning           \* the shifts
           [] o = "lshift" -> (m * 2^n) % Size
           [] o = "lrshift" -> m \div 2^n
           [] o = "arshift" -> (Signed(m) \div 2^n) % Size

Predicates == {"not", "eq", "neq", "ule", "uge", "ult", "ugt", "slt", "sgt", "sle", "sge", "land", "lor"}

-----------------------------------------------------------------------------
(* The client: terms are made, inserted, and bound to uninterpreted ones.  *)

Init ==
    /\ env \in [Vars -> Words]
    /\ made = SetToSeq({[op |-> "leaf", term |-> Var(x), means |-> env[x]] : x \in Vars}
                       \cup {[op |-> "leaf", term |-> mkBVConst(c), means |-> c % Size] : c \in Constants})
    /\ holds = TRUE /\ wanted = TRUE
    /\ bound = <<>> /\ refined = <<>> /\ last_refined = 0 /\ related = <<>>

Leaves == Cardinality(Vars) + Cardinality(Constants)

\* A constructor is called; the last term made is one of the arguments.
Make ==
    /\ Len(made) < Leaves + MaxDepth
    /\ \E o \in Ops, i, j \in DOMAIN made :
         /\ Len(made) > Leaves => Len(made) \in {i, j}
         /\ o \in {"neg", "not", "compl"} => i = j
         /\ made' = Append(made, [op |-> o,
                                  term |-> Construct(o, made[i].term, made[j].term),
                                  means |-> Meaning(o, made[i].means, made[j].means)])
    /\ UNCHANGED <<env, holds, wanted, bound, refined, last_refined, related>>

\* insert(): the least significant bit of the circuit is asserted.
Insert ==
    /\ \E i \in DOMAIN made :
         /\ made[i].op \in Predicates /\ made[i].means # NoMeaning
         /\ holds' = (holds /\ bbTerm(made[i].term)[1])
         /\ wanted' = (wanted /\ made[i].means = 1)
    /\ UNCHANGED <<env, made, bound, refined, last_refined, related>>

\* bindCUFToBV(); a bound term may not be bound again.
BindCUFToBV ==
    /\ \E c \in CufTerms \ DOMAIN bound, i \in DOMAIN made :
         /\ bound' = [x \in DOMAIN bound \cup {c} |-> IF x = c THEN bbTerm(made[i].term) ELSE bound[x]]
         /\ refined' = Append(refined, c)
    /\ UNCHANGED <<env, made, holds, wanted, last_refined, related>>

\* Mutant: new pairs are visited from both sides.
NewPairsAgain ==
    LET after(i) == [k \in 1 .. Len(refined) - i |-> <<i, i + k>>]
        before(i) == [k \in 1 .. i - 1 |-> <<i, i - k>>]
    IN  FlattenSeq([k \in 1 .. Len(refined) - last_refined |->
                       after(last_refined + k) \o before(last_refined + k)])

\* The pairs notifyEqualities() visits: the new terms with the later ones,
\* then with the earlier ones.
NewPairs ==
    LET after(i) == [k \in 1 .. Len(refined) - i |-> <<i, i + k>>]
        before(i) == [k \in 1 .. last_refined |-> <<i, last_refined + 1 - k>>]
    IN  FlattenSeq([k \in 1 .. Len(refined) - last_refined |->
                       after(last_refined + k) \o before(last_refined + k)])

\* notifyEquality() defines the equality by the bits.
NotifyEqualities ==
    /\ last_refined < Len(refined)
    /\ related' = related \o [k \in DOMAIN NewPairs |->
                     LET a == refined[NewPairs[k][1]]  b == refined[NewPairs[k][2]]
                     IN  [pair |-> {a, b},
                          equal |-> \A i \in 1 .. Width : bound[a][i] = bound[b][i]]]
    /\ last_refined' = Len(refined)
    /\ UNCHANGED <<env, made, holds, wanted, bound, refined>>

Next == Make \/ Insert \/ BindCUFToBV \/ NotifyEqualities

Spec == Init /\ [][Next]_vars

-----------------------------------------------------------------------------
(* Properties.                                                             *)

TypeOK ==
    /\ env \in [Vars -> Words]
    /\ \A i \in DOMAIN made : /\ made[i].means \in Words \cup {NoMeaning}
                              /\ Width > 1 => Len(bbTerm(made[i].term)) = Width
    /\ {holds, wanted} \subseteq BOOLEAN
    /\ last_refined <= Len(refined) /\ DOMAIN bound = {refined[i] : i \in DOMAIN refined}

\* The bits BitBlaster computes for a term are those of the number that the
\* constructor calls mean: the simplifications of BVLogic, the adder, the
\* comparisons, the restoring divider (whose minuend has no spare bit), the
\* shifted sums and the barrel shifters together.
BlastedRight ==
    \A i \in DOMAIN made :
        made[i].means # NoMeaning => Value(bbTerm(made[i].term)) = made[i].means

\* The formulas insert() asserts hold exactly when the predicates do.
InsertedRight == holds = wanted

\* notifyEqualities() relates every two refined terms once, whenever they
\* were bound, and the equality is true exactly when the vectors are equal.
PairsRelatedOnce ==
    /\ \A i, j \in DOMAIN related : i # j => related[i].pair # related[j].pair
    /\ \A i, j \in 1 .. last_refined :
          i < j => \E k \in DOMAIN related :
                      /\ related[k].pair = {refined[i], refined[j]}
                      /\ related[k].equal = (Value(bound[refined[i]]) = Value(bound[refined[j]]))

\* What is blasted and what is inserted.
Right == TypeOK /\ BlastedRight /\ InsertedRight
=============================================================================
