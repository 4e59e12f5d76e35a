------------------------------- MODULE Terms -------------------------------
(***************************************************************************)
(* The operations of interp.c on the structure of values: shifting,        *)
(* substitution, beta reduction, equality.                                 *)
(*                                                                         *)
(* A double is modelled by the number it stands for, a sign and a ratio of *)
(* naturals, with the ratios n/0 and 0/0 for infinity and NaN; rounding is *)
(* left out.                                                               *)
(***************************************************************************)
EXTENDS Integers, Sequences, ValueNodes

-----------------------------------------------------------------------------
(* An index at or above the cutoff moves by delta; one that would become   *)
(* negative makes the whole shift fail.                                    *)
RECURSIVE ShiftWalk(_, _, _)
ShiftWalk(t, delta, cutoff) ==
    CASE IsVar(t) -> IF t.index < cutoff THEN t
                     ELSE IF t.index + delta < 0 THEN Null
                     ELSE BoundVar(t.index + delta)
      [] IsLam(t) -> Lam(ShiftWalk(t.body, delta, cutoff + 1))
      [] IsApp(t) -> App(ShiftWalk(t.fn, delta, cutoff), ShiftWalk(t.arg, delta, cutoff))
      [] OTHER    -> t

Shift(t, delta) == ShiftWalk(t, delta, 0)

(* Mutant of SubstWalk: the replacement is not lifted over the binders.    *)
RECURSIVE SubstUnlifted(_, _, _, _)
SubstUnlifted(t, depth, target, replacement) ==
    CASE IsVar(t) -> IF t.index = target + depth THEN replacement ELSE t
      [] IsLam(t) -> Lam(SubstUnlifted(t.body, depth + 1, target, replacement))
      [] IsApp(t) -> App(SubstUnlifted(t.fn, depth, target, replacement),
                         SubstUnlifted(t.arg, depth, target, replacement))
      [] OTHER    -> t

RECURSIVE SubstWalk(_, _, _, _)
SubstWalk(t, depth, target, replacement) ==
    CASE IsVar(t) -> IF t.index = target + depth
                     THEN ShiftWalk(replacement, depth, 0) ELSE t
      [] IsLam(t) -> Lam(SubstWalk(t.body, depth + 1, target, replacement))
      [] IsApp(t) -> App(SubstWalk(t.fn, depth, target, replacement),
                         SubstWalk(t.arg, depth, target, replacement))
      [] OTHER    -> t

Subst(t, target, replacement) == SubstWalk(t, 0, target, replacement)

(* Mutant of BetaReduce: the binder that is gone still counts.             *)
BetaUnlowered(body, arg) == Subst(body, 0, Shift(arg, 1))

(* (\.body) arg: lift the argument over the binder, put it in its place,   *)
(* and lower what is left by the binder that is gone.                      *)
BetaReduce(body, arg) == Shift(Subst(body, 0, Shift(arg, 1)), -1)

-----------------------------------------------------------------------------
(* Zero has a sign that == does not see; two NaNs are the same (isnan).    *)
NaN          == [s |-> 1, n |-> 0, d |-> 0]
Infinity     == [s |-> 1, n |-> 1, d |-> 0]
IsZero(x)    == x.n = 0 /\ x.d # 0
IsInf(x)     == x.n # 0 /\ x.d = 0
SameNumber(x, y) == x = y \/ (IsZero(x) /\ IsZero(y))

RECURSIVE StructuralEqual(_, _)
StructuralEqual(l, r) ==
    /\ l.kind = r.kind
    /\ CASE IsVar(l)  -> l.index = r.index
         [] IsFree(l) -> l.name = r.name
         [] IsNum(l)  -> SameNumber(l.value, r.value)
         [] IsLam(l)  -> StructuralEqual(l.body, r.body)
         [] IsApp(l)  -> /\ StructuralEqual(l.fn, r.fn)
                         /\ StructuralEqual(l.arg, r.arg)

-----------------------------------------------------------------------------
(* The C arithmetic the numeric primitives call, for operands whose result *)
(* is a ratio: POW with a natural exponent, SQRT of a square, LN of 0 or 1.*)
RECURSIVE Gcd(_, _)
Gcd(a, b) == IF b = 0 THEN a ELSE Gcd(b, a % b)

Ratio(s, n, d) ==
    IF n = 0 /\ d = 0 THEN NaN
    ELSE LET g == Gcd(n, d) IN [s |-> s, n |-> n \div g, d |-> d \div g]

Int2Num(i) == Ratio(IF i < 0 THEN -1 ELSE 1, IF i < 0 THEN -i ELSE i, 1)
Negate(x)  == Ratio(-x.s, x.n, x.d)
Times(x, y)    == Ratio(x.s * y.s, x.n * y.n, x.d * y.d)
Quotient(x, y) == Ratio(x.s * y.s, x.n * y.d, x.d * y.n)

Plus(x, y) ==
    IF x = NaN \/ y = NaN \/ (IsInf(x) /\ IsInf(y) /\ x.s # y.s) THEN NaN
    ELSE IF IsInf(x) THEN x
    ELSE IF IsInf(y) THEN y
    ELSE LET sum == x.s * x.n * y.d + y.s * y.n * x.d
         IN  IF sum = 0
             THEN Ratio(IF x.s = -1 /\ y.s = -1 THEN -1 ELSE 1, 0, 1)
             ELSE Ratio(IF sum < 0 THEN -1 ELSE 1,
                        IF sum < 0 THEN -sum ELSE sum, x.d * y.d)

Fmod(x, y) ==
    IF x = NaN \/ y = NaN \/ IsInf(x) \/ IsZero(y) THEN NaN
    ELSE IF IsInf(y) THEN x
    ELSE Ratio(x.s, (x.n * y.d) % (y.n * x.d), x.d * y.d)

RECURSIVE Power(_, _)
Power(x, k) == IF k = 0 THEN Int2Num(1) ELSE Times(x, Power(x, k - 1))

SquareRoot(x) ==
    IF IsZero(x) THEN x
    ELSE IF x.s = -1 THEN NaN
    ELSE Ratio(1, CHOOSE r \in 0..x.n : r * r = x.n, CHOOSE r \in 0..x.d : r * r = x.d)

Logarithm(x) ==
    IF IsZero(x) THEN Negate(Infinity)
    ELSE IF x.s = -1 \/ x = NaN THEN NaN
    ELSE IF x = Infinity THEN x
    ELSE CHOOSE y \in {Int2Num(0)} : x = Int2Num(1)

-----------------------------------------------------------------------------
(* Every index of t refers to one of the first d binders around it.        *)
RECURSIVE ClosedBelow(_, _)
ClosedBelow(t, d) ==
    CASE IsVar(t) -> t.index < d
      [] IsLam(t) -> ClosedBelow(t.body, d + 1)
      [] IsApp(t) -> ClosedBelow(t.fn, d) /\ ClosedBelow(t.arg, d)
      [] OTHER    -> TRUE

Closed(t) == t # Null /\ ClosedBelow(t, 0)
=============================================================================
