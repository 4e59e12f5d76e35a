------------------------------- MODULE Interp -------------------------------
(***************************************************************************)
(* The evaluator of lambdaScript (interp.c): one step of normal-order      *)
(* reduction, with the primitives that fire on free symbols, several of    *)
(* which run whole reductions of their own inside the step; and the        *)
(* machine that takes such steps until none applies.                       *)
(*                                                                         *)
(* A step returns the next term, or Null.  Errors inside a primitive are   *)
(* lowered again before anyone looks (err_clear after try_reduce_primitive *)
(* and at the start of every loop), so a Null from a primitive only means  *)
(* that it does not fire.                                                  *)
(***************************************************************************)
EXTENDS Terms

CONSTANTS NestedLimit,   \* step limit of the reductions inside a primitive (4096)
          MaxSteps,      \* max_steps of the outer reduction
          Programs       \* the terms to run, each with what it should come to

ASSUME LimitsAssumption == NestedLimit \in Nat /\ MaxSteps \in Nat

VARIABLES program, term, steps
vars == <<program, term, steps>>

-----------------------------------------------------------------------------
(* Recognisers.                                                            *)
Church(b) == Lam(Lam(BoundVar(IF b THEN 1 ELSE 0)))

TrueNames   == {"True", "TRUE"}
FalseNames  == {"False", "FALSE", "nil", "NIL"}
EquivNames  == {"EQUIV", "equiv", "EQ", "eq"}
BinaryBooleanNames == {"AND", "OR", "IMP", "IFF"}
ForallNames == {"forall", "FORALL"}
ExistsNames == {"exists", "EXISTS"}

RECURSIVE HeadOf(_)
HeadOf(t) == IF IsApp(t) THEN HeadOf(t.fn) ELSE t

(* What a term says as a truth value: a Church boolean, or anything whose  *)
(* head is one of the marker names, whatever it is applied to.             *)
SaysTrue(t)  == t = Church(TRUE) \/ (IsFree(HeadOf(t)) /\ HeadOf(t).name \in TrueNames)
SaysFalse(t) == t = Church(FALSE) \/ (IsFree(HeadOf(t)) /\ HeadOf(t).name \in FalseNames)
IsBoolean(t) == SaysTrue(t) \/ SaysFalse(t)

(* Scott lists: nil is \c n.n, cons is \c n.c head tail with head and tail *)
(* lowered out of the two binders.                                         *)
IsNil(t)  == t = Lam(Lam(BoundVar(0)))
IsConsShape(t) ==
    /\ IsLam(t) /\ IsLam(t.body) /\ IsApp(t.body.body) /\ IsApp(t.body.body.fn)
    /\ t.body.body.fn.fn = BoundVar(1)
HeadItem(t) == Shift(t.body.body.fn.arg, -2)
TailItem(t) == Shift(t.body.body.arg, -2)
IsCons(t) == IsConsShape(t) /\ HeadItem(t) # Null /\ TailItem(t) # Null

-----------------------------------------------------------------------------
(* The step, the loop the primitives call, and the primitives that call it.*)
RECURSIVE Step(_), Reduce(_, _), ListElem(_, _), Quantify(_, _, _)

HasStep(t) == Step(t) # Null

(* interp_reduce_normal: the term where the loop stops after at most n     *)
(* more steps, and whether a further step was there.                       *)
Reduce(t, n) ==
    LET next == Step(t)
    IN  IF next = Null \/ n = 0 THEN [term |-> t, limited |-> next # Null]
        ELSE Reduce(next, n - 1)

(* reduce_clone_normal: Null unless a normal form was reached.             *)
NormalForm(t) ==
    LET r == Reduce(t, NestedLimit) IN IF r.limited THEN Null ELSE r.term

(* Mutant of AppliedOnce: what is cut off counts as false.                 *)
AppliedOnceCutIsFalse(f, a) ==
    LET r == Reduce(App(f, a), NestedLimit) IN IF r.limited THEN Church(FALSE) ELSE r.term

(* reduce_applied_once: the term reached, finished or not.                 *)
AppliedOnce(f, a) == Reduce(App(f, a), NestedLimit).term

(* normalized_boolean_value: the truth values a term comes to, if any.     *)
Truths(t) ==
    LET r == NormalForm(t)
    IN  CASE r = Null -> {}
          [] r # Null /\ SaysTrue(r) -> {TRUE}
          [] r # Null /\ SaysFalse(r) -> {FALSE}
          [] OTHER -> {}

(* Mutant of Connect: the implication the wrong way round.                 *)
ConnectConverse(op, l, r) ==
    CASE op = "AND" -> l /\ r
      [] op = "OR"  -> l \/ r
      [] op = "IMP" -> l \/ ~r
      [] op = "IFF" -> l = r

Connect(op, l, r) ==
    CASE op = "AND" -> l /\ r
      [] op = "OR"  -> l \/ r
      [] op = "IMP" -> ~l \/ r
      [] op = "IFF" -> l = r

(* The right side is normalised only once the left one has a truth value,  *)
(* and then whatever that value is.                                        *)
BooleanPrimitive(op, ls, right) ==
    LET rs == IF ls = {} THEN {} ELSE Truths(right)
    IN  IF rs = {} THEN Null
        ELSE Church(\E l \in ls, r \in rs : Connect(op, l, r))

(* Walk a normalised list looking for a normalised needle.                 *)
ListElem(needle, list) ==
    IF list = Null THEN Null
    ELSE IF IsNil(list) THEN Church(FALSE)
    ELSE IF ~IsCons(list) THEN Null
    ELSE LET item == NormalForm(HeadItem(list))
         IN  IF item = Null THEN Null
             ELSE IF StructuralEqual(needle, item) THEN Church(TRUE)
             ELSE ListElem(needle, NormalForm(TailItem(list)))

(* Mutant of ElemPrimitive: the needle is looked for as it stands.         *)
ElemAsItStands(needle, set) ==
    LET verdict == AppliedOnce(set, needle)
    IN  IF IsBoolean(verdict) THEN Church(SaysTrue(verdict))
        ELSE ListElem(needle, NormalForm(set))

(* elem: first try the set as a predicate, then as a list.                 *)
ElemPrimitive(needle, set) ==
    LET verdict == AppliedOnce(set, needle)
        item    == NormalForm(needle)
    IN  IF IsBoolean(verdict) THEN Church(SaysTrue(verdict))
        ELSE IF item = Null THEN Null
        ELSE ListElem(item, NormalForm(set))

(* forall and exists over a normalised list: the first item whose verdict  *)
(* settles it, Null at the first that gives no truth value.                *)
Quantify(forall, list, predicate) ==
    IF list = Null THEN Null
    ELSE IF IsNil(list) THEN Church(forall)
    ELSE IF ~IsCons(list) THEN Null
    ELSE LET verdict == AppliedOnce(predicate, HeadItem(list))
         IN  IF ~IsBoolean(verdict) THEN Null
             ELSE IF SaysTrue(verdict) # forall THEN Church(~forall)
             ELSE Quantify(forall, NormalForm(TailItem(list)), predicate)

(* Mutant of EquivPrimitive: it does not wait for its sides.               *)
EquivAtOnce(l, r) ==
    IF IsBoolean(l) /\ IsBoolean(r) THEN Church(SaysTrue(l) = SaysTrue(r))
    ELSE Church(StructuralEqual(l, r))

(* EQUIV waits for both sides to be in normal form.                        *)
EquivPrimitive(l, r) ==
    IF HasStep(l) \/ HasStep(r) THEN Null
    ELSE IF IsBoolean(l) /\ IsBoolean(r) THEN Church(SaysTrue(l) = SaysTrue(r))
    ELSE Church(StructuralEqual(l, r))

BinaryNumeric(op, x, y) ==
    CASE op = "ADD" -> Number(Plus(x, y))
      [] op = "SUB" -> Number(Plus(x, Negate(y)))
      [] op = "MUL" -> Number(Times(x, y))
      [] op = "DIV" -> Number(Quotient(x, y))
      [] op = "MOD" -> Number(Fmod(x, y))
      [] op = "POW" -> Number(Power(x, y.n))
      [] OTHER      -> Null

UnaryNumeric(op, x) ==
    CASE op = "NEG"  -> Number(Negate(x))
      [] op = "SQRT" -> Number(SquareRoot(x))
      [] op = "LN"   -> Number(Logarithm(x))
      [] OTHER       -> Null

(* A free symbol applied to two arguments, in the order of the code: the   *)
(* selectors, EQUIV, arithmetic on two numbers (which ends the matter for  *)
(* every other name too), the connectives, membership, the quantifiers.    *)
BinaryPrimitive(op, l, r) ==
    CASE op \in TrueNames   -> l
      [] op \in FalseNames  -> r
      [] op \in EquivNames  -> EquivPrimitive(l, r)
      [] op \notin TrueNames \cup FalseNames \cup EquivNames /\ IsNum(l) /\ IsNum(r)
                            -> BinaryNumeric(op, l.value, r.value)
      [] op \in BinaryBooleanNames /\ ~(IsNum(l) /\ IsNum(r))
                            -> BooleanPrimitive(op, Truths(l), r)
      [] op = "elem" /\ ~(IsNum(l) /\ IsNum(r))     -> ElemPrimitive(l, r)
      [] op = "contains" /\ ~(IsNum(l) /\ IsNum(r)) -> ElemPrimitive(r, l)
      [] op \in ForallNames \cup ExistsNames /\ ~(IsNum(l) /\ IsNum(r))
                            -> Quantify(op \in ForallNames, NormalForm(l), r)
      [] OTHER -> Null

UnaryPrimitive(op, a) ==
    LET numeric == IF IsNum(a) THEN UnaryNumeric(op, a.value) ELSE Null
        truths  == IF op = "NOT" THEN Truths(a) ELSE {}
    IN  CASE numeric # Null -> numeric
          [] numeric = Null /\ truths # {} -> Church(FALSE \in truths)
          [] op = "INF" -> Number(Infinity)
          [] OTHER -> Null

Primitive(t) ==
    CASE IsApp(t.fn) /\ IsFree(t.fn.fn) -> BinaryPrimitive(t.fn.fn.name, t.fn.arg, t.arg)
      [] IsFree(t.fn) -> UnaryPrimitive(t.fn.name, t.arg)
      [] OTHER -> Null

(* Mutant of StepApp: the argument is reduced before the function is       *)
(* applied.                                                                *)
StepArgumentFirst(t) ==
    LET argStep == Step(t.arg)
        fnStep  == Step(t.fn)
    IN  CASE argStep # Null -> App(t.fn, argStep)
          [] argStep = Null /\ IsLam(t.fn) -> BetaReduce(t.fn.body, t.arg)
          [] argStep = Null /\ ~IsLam(t.fn) /\ Primitive(t) # Null -> Primitive(t)
          [] OTHER -> App(fnStep, t.arg)

(* interp_step_normal: the outermost redex, and of those the leftmost.     *)
StepApp(t) ==
    LET primitive == Primitive(t)
        fnStep    == Step(t.fn)
        argStep   == Step(t.arg)
    IN  CASE IsLam(t.fn) -> BetaReduce(t.fn.body, t.arg)
          [] ~IsLam(t.fn) /\ primitive # Null -> primitive
          [] ~IsLam(t.fn) /\ primitive = Null /\ fnStep # Null -> App(fnStep, t.arg)
          [] OTHER -> App(t.fn, argStep)

Step(t) ==
    CASE IsLam(t) -> Lam(Step(t.body))
      [] IsApp(t) -> StepApp(t)
      [] OTHER    -> Null

-----------------------------------------------------------------------------
Init ==
    /\ program \in Programs
    /\ term = program.term
    /\ steps = 0

Next ==
    /\ steps < MaxSteps
    /\ HasStep(term)
    /\ term' = Step(term)
    /\ steps' = steps + 1
    /\ UNCHANGED program

Spec == Init /\ [][Next]_vars

InNormalForm == ~HasStep(term)

(* Reduction of a program without dangling indices never makes one, and    *)
(* never breaks a term.                                                    *)
TypeOK ==
    /\ Closed(term)
    /\ steps \in 0..MaxSteps
=============================================================================
