--------------------------- MODULE InterpMeaning ---------------------------
(***************************************************************************)
(* What the evaluator of module Interp is meant to compute, stated without *)
(* its machinery - substitution on named terms, reduction in any order -   *)
(* and the properties that compare the two.                                *)
(***************************************************************************)
EXTENDS Interp, NamedTerms, FiniteSets

CONSTANT AnyOrderDepth    \* how far the any-order reference looks

-----------------------------------------------------------------------------
IsRedex(t) == IsApp(t) /\ IsLam(t.fn)

RECURSIVE Subterms(_)
Subterms(t) ==
    {t} \cup CASE IsLam(t) -> Subterms(t.body)
               [] IsApp(t) -> Subterms(t.fn) \cup Subterms(t.arg)
               [] OTHER    -> {}

(* The terms one beta contraction away, whichever redex is contracted.     *)
RECURSIVE Reducts(_)
Reducts(t) ==
    CASE IsLam(t) -> {Lam(b) : b \in Reducts(t.body)}
      [] IsApp(t) -> {App(f, t.arg) : f \in Reducts(t.fn)}
                       \cup {App(t.fn, a) : a \in Reducts(t.arg)}
                       \cup (IF IsLam(t.fn) THEN {NamedBeta(t.fn.body, t.arg)} ELSE {})
      [] OTHER    -> {}

RECURSIVE ReachedWithin(_, _)
ReachedWithin(ts, n) ==
    IF n = 0 THEN ts
    ELSE LET more == ts \cup UNION {Reducts(t) : t \in ts}
         IN  IF more = ts THEN ts ELSE ReachedWithin(more, n - 1)

AnyOrderNormalForms(t) == {u \in ReachedWithin({t}, AnyOrderDepth) : Reducts(u) = {}}

-----------------------------------------------------------------------------
(* A program whose meaning is left to the any-order reference.             *)
Unstated == [kind |-> "unstated"]

Ended == InNormalForm \/ steps = MaxSteps

(* Every redex met is contracted to what capture-avoiding substitution on  *)
(* named terms gives: the shifts of beta_reduce by one up and one down and *)
(* by the depth inside subst_walk never confuse two variables.             *)
BetaIsSubstitution ==
    \A t \in Subterms(term) :
        IsRedex(t) => BetaReduce(t.fn.body, t.arg) = NamedBeta(t.fn.body, t.arg)

(* "normal-order beta reduction": if any order of contractions comes to a  *)
(* normal form, the evaluator comes to that one.                           *)
NormalOrderFindsNormalForm ==
    Ended /\ program.want = Unstated => \A u \in AnyOrderNormalForms(program.term) : term = u

(* A program whose meaning is known comes to it, and one that has none     *)
(* (want is Null: an operand is not a truth value, an item decides         *)
(* nothing, a side has no normal form) is never given a truth value.  The  *)
(* reduction inside a primitive may be cut off: what elem and the          *)
(* quantifiers then read there decides nothing, unless the head of the     *)
(* term has become a truth value.                                          *)
ComesToMeaning ==
    Ended /\ program.want # Unstated =>
        IF program.want = Null THEN ~IsBoolean(term) ELSE term = program.want

(* include/ls.h: "elem x S membership on Scott lists, or fallback to       *)
(* predicate-set application S x" - on a Scott list, elem is membership.   *)
ElemIsMembershipOnLists ==
    Ended => term = program.want

(* include/ls.h: "forall S p universal quantifier over a finite Scott list *)
(* domain" - over a list of one item it says what the predicate says of    *)
(* that item.                                                              *)
ForallAsksThePredicate ==
    Ended => term = program.want
=============================================================================
