------------------------------ MODULE MCInterp ------------------------------
(***************************************************************************)
(* TLC instances of the evaluator: families of programs, each program with *)
(* the meaning it is meant to have.                                        *)
(***************************************************************************)
EXTENDS InterpMeaning

CONSTANTS TermSize       \* nodes of the largest term of the pure calculus

(* Every term of at most n nodes with indices below d.                     *)
RECURSIVE TermsOf(_, _)
TermsOf(n, d) ==
    IF n = 0 THEN {}
    ELSE {BoundVar(i) : i \in 0..(d - 1)}
         \cup {Lam(b) : b \in TermsOf(n - 1, d + 1)}
         \cup UNION {{App(f, a) : f \in TermsOf(m, d), a \in TermsOf(n - 1 - m, d)}
                        : m \in 1..(n - 2)}

Prog(t, w) == [term |-> t, want |-> w]

IdT == Lam(BoundVar(0))
KT  == Church(TRUE)
Dup == Lam(App(BoundVar(0), BoundVar(0)))
OmegaT == App(Dup, Dup)
Delay(t) == App(IdT, t)

PureTerms == TermsOf(TermSize, 0)
                \cup {App2(KT, a, OmegaT) : a \in TermsOf(4, 0)}
                \cup {App(Lam(a), OmegaT) : a \in TermsOf(4, 1)}
                \cup {App(Lam(Lam(App2(BoundVar(1), a, BoundVar(0)))), Lam(Lam(b)))
                        : a \in TermsOf(3, 2), b \in TermsOf(2, 2)}
PurePrograms == {Prog(t, Unstated) : t \in PureTerms}

-----------------------------------------------------------------------------
(* Truth values in all the forms a program writes them.                    *)
TruthAtoms ==
    { [t |-> FreeVar("True"), v |-> "T"], [t |-> KT, v |-> "T"],
      [t |-> Delay(KT), v |-> "T"],
      [t |-> App(FreeVar("TRUE"), FreeVar("a")), v |-> "T"],
      [t |-> FreeVar("nil"), v |-> "F"], [t |-> Church(FALSE), v |-> "F"],
      [t |-> FreeVar("a"), v |-> "?"], [t |-> OmegaT, v |-> "?"] }

Truth(v) == v = "T"
Meaning(v) == IF v = "?" THEN Null ELSE Church(Truth(v))
OfBool(b) == IF b THEN "T" ELSE "F"

Connective(op, l, r) ==
    IF l = "?" \/ r = "?" THEN "?"
    ELSE OfBool(CASE op = "AND" -> Truth(l) /\ Truth(r)
                  [] op = "OR"  -> Truth(l) \/ Truth(r)
                  [] op = "IMP" -> Truth(l) => Truth(r)
                  [] op = "IFF" -> Truth(l) <=> Truth(r))

Formulas(ls, rs) ==
    {[t |-> App2(FreeVar(op), l.t, r.t), v |-> Connective(op, l.v, r.v)] :
        op \in BinaryBooleanNames, l \in ls, r \in rs}
Negations(fs) ==
    {[t |-> App(FreeVar("NOT"), f.t),
      v |-> IF f.v = "?" THEN "?" ELSE OfBool(~Truth(f.v))] : f \in fs}

SomeAtoms == {a \in TruthAtoms : a.t \in {FreeVar("True"), Delay(KT), Church(FALSE), FreeVar("a")}}
Flat   == Formulas(TruthAtoms, TruthAtoms) \cup Negations(TruthAtoms)
Nested == Formulas(SomeAtoms, Formulas(SomeAtoms, SomeAtoms)) \cup Negations(Flat)

LogicPrograms == {Prog(f.t, Meaning(f.v)) : f \in Flat \cup Nested}

-----------------------------------------------------------------------------
(* Scott lists as the prelude's CONS and NIL build them.                   *)
ConsT == Lam(Lam(Lam(Lam(App2(BoundVar(1), BoundVar(3), BoundVar(2))))))
RECURSIVE ListTerm(_, _)
ListTerm(items, end) ==
    IF items = <<>> THEN end
    ELSE App2(ConsT, items[1].t, ListTerm(Tail(items), end))

ItemLists(items) == UNION {[1..n -> items] : n \in 0..2}

(* Predicates, with the truth value they give an item of each truth value: *)
(* also those whose application is cut off by the nested limit, with its   *)
(* head decided or not, and those that need all of that limit or one step  *)
(* more, which the outer reduction then takes.                             *)
RECURSIVE Delayed(_, _)
Delayed(t, n) == IF n = 0 THEN t ELSE Delay(Delayed(t, n - 1))
Always(v) == [w \in {"T", "F", "?"} |-> v]

CutOffPredicates ==
    { [t |-> Lam(OmegaT), f |-> Always("?")],
      [t |-> Lam(App(FreeVar("TRUE"), OmegaT)), f |-> Always("T")],
      [t |-> Lam(App(FreeVar("a"), OmegaT)), f |-> Always("?")],
      [t |-> Delayed(Lam(Church(FALSE)), NestedLimit - 1), f |-> Always("F")],
      [t |-> Delayed(Lam(KT), NestedLimit), f |-> Always("T")] }
Predicates == CutOffPredicates \cup
    { [t |-> IdT, f |-> [v \in {"T", "F", "?"} |-> v]],
      [t |-> Lam(App(FreeVar("NOT"), BoundVar(0))),
       f |-> [v \in {"T", "F", "?"} |->
                IF v = "?" THEN "?" ELSE OfBool(~Truth(v))]],
      [t |-> Lam(KT), f |-> [v \in {"T", "F", "?"} |-> "T"]] }

(* The items in order: the first that settles the question, "?" at the     *)
(* first that has no truth value.  verdicts ends with the truth value of   *)
(* an empty rest, or with "?" when the list does not end in nil.           *)
RECURSIVE FirstDecides(_, _)
FirstDecides(verdicts, decisive) ==
    IF Len(verdicts) = 1 THEN verdicts[1]
    ELSE IF verdicts[1] \in {decisive, "?"} THEN verdicts[1]
    ELSE FirstDecides(Tail(verdicts), decisive)

ListItems == {a \in TruthAtoms : a.t \in {KT, FreeVar("True"), Church(FALSE), FreeVar("a")}}

Quantified(q, items, end, p) ==
    LET decisive == IF q \in ForallNames THEN "F" ELSE "T"
        rest     == IF end # Church(FALSE) THEN "?" ELSE IF decisive = "F" THEN "T" ELSE "F"
        verdicts == [i \in 1..(Len(items) + 1) |->
                        IF i > Len(items) THEN rest ELSE p.f[items[i].v]]
    IN  Prog(App2(FreeVar(q), ListTerm(items, end), p.t),
             Meaning(FirstDecides(verdicts, decisive)))

QuantifierPrograms ==
    {Quantified(q, items, end, p) :
        q \in {"forall", "exists"}, items \in ItemLists(ListItems),
        end \in {Church(FALSE), FreeVar("rest")}, p \in Predicates}

-----------------------------------------------------------------------------
(* Membership of symbols and numbers in lists of such, needle and items    *)
(* reduced or not; a list that does not end in nil decides only once the   *)
(* needle is found.                                                        *)
Symbols == { [t |-> FreeVar("a"), v |-> 1], [t |-> Delay(FreeVar("a")), v |-> 1],
             [t |-> Number(Int2Num(1)), v |-> 2],
             [t |-> App2(FreeVar("SUB"), Number(Int2Num(2)), Number(Int2Num(1))), v |-> 2],
             [t |-> Dup, v |-> 3] }

Membership(name, x, items, end) ==
    LET list  == ListTerm(items, end)
        found == \E i \in 1..Len(items) : items[i].v = x.v
    IN  Prog(IF name = "elem" THEN App2(FreeVar(name), x.t, list)
                              ELSE App2(FreeVar(name), list, x.t),
             IF found THEN Church(TRUE)
             ELSE IF end = Church(FALSE) THEN Church(FALSE) ELSE Null)

MembershipPrograms ==
    {Membership(name, x, items, end) :
        name \in {"elem", "contains"}, x \in Symbols, items \in ItemLists(Symbols),
        end \in {Church(FALSE), FreeVar("rest")}}

(* Membership in a set that is a predicate, which says what it says.       *)
PredicateSetPrograms ==
    {Prog(App2(FreeVar("elem"), x.t, p.t), Meaning(p.f[x.v])) : x \in ListItems, p \in Predicates}

ListPrograms == QuantifierPrograms \cup MembershipPrograms \cup PredicateSetPrograms

-----------------------------------------------------------------------------
(* EQUIV between terms of known meaning, reduced or not: class 0 has no    *)
(* normal form, the truth values are one class each however written, NaN   *)
(* is one class and both zeros another.                                    *)
Num(i) == Number(Int2Num(i))
Arith(op, a, b) == App2(FreeVar(op), a, b)
Sides ==
    { [t |-> OmegaT, c |-> 0],
      [t |-> FreeVar("True"), c |-> 1], [t |-> KT, c |-> 1], [t |-> Delay(KT), c |-> 1],
      [t |-> FreeVar("nil"), c |-> 2], [t |-> Church(FALSE), c |-> 2],
      [t |-> Arith("AND", KT, FreeVar("FALSE")), c |-> 2],
      [t |-> FreeVar("a"), c |-> 3], [t |-> Delay(FreeVar("a")), c |-> 3],
      [t |-> IdT, c |-> 4], [t |-> App2(KT, IdT, OmegaT), c |-> 4],
      [t |-> Num(0), c |-> 5], [t |-> App(FreeVar("NEG"), Num(0)), c |-> 5],
      [t |-> Arith("DIV", Num(0), Num(0)), c |-> 6],
      [t |-> Arith("SUB", App(FreeVar("INF"), FreeVar("a")), Arith("DIV", Num(1), Num(0))), c |-> 6],
      [t |-> App(FreeVar("LN"), Num(0)), c |-> 7],
      [t |-> Arith("DIV", Num(1), App(FreeVar("NEG"), Num(0))), c |-> 7],
      [t |-> Num(2), c |-> 8], [t |-> App(FreeVar("SQRT"), Arith("POW", Num(2), Num(2))), c |-> 8],
      [t |-> Arith("ADD", Arith("MOD", Num(-3), Num(2)), Arith("MUL", Num(1), Num(3))), c |-> 8],
      [t |-> App(FreeVar("a"), KT), c |-> 9], [t |-> App(FreeVar("a"), Delay(KT)), c |-> 9] }

EquivPrograms ==
    {Prog(Arith("EQUIV", l.t, r.t),
          IF l.c = 0 \/ r.c = 0 THEN Null ELSE Church(l.c = r.c)) : l \in Sides, r \in Sides}

AllPrograms == PurePrograms \cup LogicPrograms \cup ListPrograms \cup EquivPrograms

-----------------------------------------------------------------------------
(* Membership in lists of closed functions, where applying the list to the *)
(* needle may look like a truth value.                                     *)
ClosedItems == { [t |-> IdT, v |-> 1], [t |-> KT, v |-> 2] }
FunctionMembershipPrograms ==
    {Membership("elem", x, items, Church(FALSE)) : x \in ClosedItems, items \in ItemLists(ClosedItems)}

(* forall over a list of one item, meant to say what the predicate says.   *)
OneItemPrograms ==
    {Prog(App2(FreeVar("forall"), ListTerm(<<[t |-> h]>>, Church(FALSE)), Lam(App(BoundVar(0), a))),
          NormalForm(App(h, a))) :
        h \in {IdT, Lam(App2(FreeVar("EQUIV"), BoundVar(0), IdT)), Lam(KT)},
        a \in {IdT, KT}}
=============================================================================
