------------------------------ MODULE MCSyntax ------------------------------
(***************************************************************************)
(* TLC instances of Syntax: expressions written from trees with no more    *)
(* parentheses than they need, in three styles; lines for the scanners;    *)
(* values to print and read back.                                          *)
(***************************************************************************)
EXTENDS Syntax, Parser, Rendering, Lowering

LowerLineTree(t) == LowerAst(t, <<>>, <<>>)

MCNumeral ==
    [d \in {"0", "1", "2", "3", "5", "17"} |->
        [n |-> CHOOSE n \in 0..17 : ToString(n) = d, scale |-> IF d = "17" THEN 100 ELSE 10]]
MCLetters == "x_i" :> <<"x", "_", "i">>

-----------------------------------------------------------------------------
(* The operators as a reader has them in mind: how tightly they bind, how  *)
(* they group, how they are written in ASCII and with symbols.             *)
Op(rank, group, ascii, sym) == [rank |-> rank, group |-> group, ascii |-> ascii, sym |-> sym]
BinaryOps ==
    [EQUIV |-> Op(1, "left",  <<"<", "=", ">">>, <<"&equiv">>),
     IFF   |-> Op(1, "left",  <<"<", "-", ">">>, <<"&iff">>),
     IMP   |-> Op(2, "right", <<"-", ">">>,      <<"&implies">>),
     OR    |-> Op(3, "left",  <<"v">>,           <<"&or">>),
     AND   |-> Op(4, "left",  <<"^">>,           <<"&and">>),
     elem  |-> Op(6, "left",  <<"in">>,          <<"&in">>),
     contains |-> Op(6, "left", <<"contains">>,  <<"&ni">>),
     ADD   |-> Op(7, "left",  <<"+">>,           <<"+">>),
     SUB   |-> Op(7, "left",  <<"-">>,           <<"-">>),
     MUL   |-> Op(8, "left",  <<"*">>,           <<"*">>),
     DIV   |-> Op(8, "left",  <<"/">>,           <<"/">>),
     MOD   |-> Op(8, "left",  <<"%">>,           <<"%">>),
     POW   |-> Op(9, "right", <<"*", "*">>,      <<"*", "*">>)]
PrefixOps ==
    [NOT   |-> Op(5, "prefix",  <<"~">>,    <<"&not">>),
     NEG   |-> Op(10, "prefix", <<"-">>,    <<"-">>),
     SQRT  |-> Op(10, "prefix", <<"sqrt">>, <<"&sqrt">>),
     LN    |-> Op(10, "prefix", <<"ln">>,   <<"&ln">>)]
AppRank  == 11
AtomRank == 12

(* Expressions.                                                            *)
Atom(x)      == [kind |-> "atom", x |-> x]
Bin(op, l, r) == [kind |-> "bin", op |-> op, l |-> l, r |-> r]
Pre(op, e)   == [kind |-> "pre", op |-> op, e |-> e]
Ap(f, a)     == [kind |-> "app", l |-> f, r |-> a]

RECURSIVE TreeOf(_)
TreeOf(e) ==
    CASE e.kind = "atom" -> NVar(e.x)
      [] e.kind = "bin"  -> Call2(e.op, TreeOf(e.l), TreeOf(e.r))
      [] e.kind = "pre"  -> Call1(e.op, TreeOf(e.e))
      [] e.kind = "app"  -> NApp(TreeOf(e.l), TreeOf(e.r))

(* The tokens of an expression where one that binds as "rank" may stand.   *)
RECURSIVE Written(_, _, _, _)
Written(e, rank, sym, ops) ==
    LET own == CASE e.kind = "atom" -> AtomRank
                 [] e.kind = "bin"  -> ops[e.op].rank
                 [] e.kind = "pre"  -> PrefixOps[e.op].rank
                 [] e.kind = "app"  -> AppRank
        spell(op) == IF sym THEN op.sym ELSE op.ascii
        body ==
          CASE e.kind = "atom" -> << <<e.x>> >>
            [] e.kind = "bin" ->
                  Written(e.l, IF ops[e.op].group = "left" THEN own ELSE own + 1, sym, ops)
                  \o <<spell(ops[e.op])>>
                  \o Written(e.r, IF ops[e.op].group = "right" THEN own ELSE own + 1, sym, ops)
            [] e.kind = "pre" -> <<spell(PrefixOps[e.op])>> \o Written(e.e, own, sym, ops)
            [] e.kind = "app" -> Written(e.l, own, sym, ops) \o Written(e.r, own + 1, sym, ops)
    IN  IF own < rank THEN << <<"(">> >> \o body \o << <<")">> >> ELSE body

(* A space between all tokens, or only where two would run together.       *)
Touching(l, r) == (IsPart(l) /\ IsPart(r)) \/ (l = "-" /\ r = "-")
RECURSIVE Joined(_, _)
Joined(tokens, tight) ==
    IF Len(tokens) = 1 THEN tokens[1]
    ELSE tokens[1]
         \o (IF tight /\ ~Touching(tokens[1][Len(tokens[1])], tokens[2][1]) THEN <<>> ELSE <<" ">>)
         \o Joined(Tail(tokens), tight)

A == Atom("a")
B == Atom("b")
C == Atom("c")
Inner == {A, Ap(A, B)} \cup {Bin(op, A, B) : op \in DOMAIN BinaryOps}
                       \cup {Pre(op, A) : op \in DOMAIN PrefixOps}
Expressions ==
    {Bin(op, e, C) : op \in DOMAIN BinaryOps, e \in Inner}
    \cup {Bin(op, C, e) : op \in DOMAIN BinaryOps, e \in Inner}
    \cup {Pre(op, e) : op \in DOMAIN PrefixOps, e \in Inner}
    \cup {Ap(e, C) : e \in Inner} \cup {Ap(C, e) : e \in Inner}

Reads(t, ast) == [text |-> t, meant |-> ast]
Refused(t)    == Reads(t, NoTree)

OperatorLines ==
    {Reads(Joined(Written(e, 0, FALSE, BinaryOps), tight), TreeOf(e)) :
        e \in Expressions, tight \in BOOLEAN}
    \cup {Reads(Joined(Written(e, 0, TRUE, BinaryOps), FALSE), TreeOf(e)) : e \in Expressions}

-----------------------------------------------------------------------------
(* Binders, subscripts, numbers and comments.                              *)
X == NVar("x")
N(i) == Number(Int2Num(i))
Sp(words) == Joined([i \in 1..Len(words) |-> <<words[i]>>], FALSE)
Sub2(x, i, j) == NApp(Call2("sub", NVar(x), i), j)
Indices(n) == <<"N", "(", "1">> \o [i \in 1..(2 * (n - 1)) |-> IF i % 2 = 1 THEN "," ELSE "2"]
              \o <<")">>
RECURSIVE IndexTree(_)
IndexTree(n) == IF n = 1 THEN Call2("sub", NVar("N"), N(1)) ELSE NApp(IndexTree(n - 1), N(2))

FormLines ==
    { Reads(<<"\\", "x", " ", "y", ".", "x", " ", "y">>,
            NLam("x", NLam("y", NApp(X, NVar("y"))))),
      Reads(<<"&lambda", "x", ".", "x", " ", "+", " ", "a">>, NLam("x", Call2("ADD", X, NVar("a")))),
      Reads(<<"a", "+", "\\", "x", ".", "x", "+", "b">>,
            Call2("ADD", NVar("a"), NLam("x", Call2("ADD", X, NVar("b"))))),
      Reads(<<"\\", "x", ".", "\\", "x", ".", "x">>, NLam("x", NLam("x", X))),
      Reads(Sp(<<"&sigma", "x", "=", "0", "to", "3", ".", "x", "+", "a">>),
            Call3("sigma", N(0), N(3), NLam("x", Call2("ADD", X, NVar("a"))))),
      Reads(Sp(<<"Integral", "x", "=", "x", "TO", "inf", ".", "x">>),
            Call3("integral", X, Number(Infinity), NLam("x", X))),
      Reads(<<"lim", " ", "x", "-", ">", "a", ".", "x", "/", "a">>,
            Call2("limit", NVar("a"), NLam("x", Call2("DIV", X, NVar("a"))))),
      Reads(<<"f", " ", "&forall", "x", " ", "&in", " ", "S", ":", "x">>,
            NApp(NVar("f"), Call2("forall", NVar("S"), NLam("x", X)))),
      Reads(<<"&forall", "x", "&in", "S", ":", "x">>,
            Call2("forall", NVar("BOOLS"), NLam("x&inS", X))),
      Reads(Sp(<<"exists", "x", ",", "x", "v", "a">>),
            Call2("exists", NVar("BOOLS"), NLam("x", Call2("OR", X, NVar("a"))))),
      Reads(<<"N", "_", "(", "x", ",", "2", ")">>, Sub2("N", X, N(2))),
      Reads(<<"N", "(", "x", "+", "1", ",", "2", ")", "a">>,
            NApp(Sub2("N", Call2("ADD", X, N(1)), N(2)), NVar("a"))),
      Reads(<<"N", "(", "x", ")", "(", "a", "(", "x", ",", "x", ")", ")">>,
            NApp(NApp(NVar("N"), X), Sub2("a", X, X))),
      Reads(Indices(16), IndexTree(16)), Refused(Indices(17)),
      Refused(<<"N", "(", "x", ",", ")">>), Refused(<<"N", "(", "x", ",", "a">>),
      Refused(<<"(", "x", ",", "a", ")">>), Refused(<<"N", "(", "x">>),
      Reads(<<"N", "2">>, NVar("N2")), Reads(<<"2", "N">>, NApp(N(2), NVar("N"))),
      Reads(<<"2", ".", "5">>, Number(Ratio(1, 5, 2))), Reads(<<"2", ".">>, N(2)),
      Refused(Sp(<<"&sigma", "x", "=", "0", "to", "3">>) \o <<".", "x">>),
      Reads(<<"a", "&and", "b">>, NVar("a&andb")),
      Reads(<<"a", "-", "-", "b">>, NVar("a")), Reads(<<"a", " ", ";", "b">>, NVar("a")),
      Refused(<<";", "a">>), Refused(<<"-", "-", "a">>), Refused(<<" ">>),
      Refused(<<"a", ">", "b">>), Refused(<<"@">>), Refused(<<"a", ")">>), Refused(<<"\\", ".", "x">>),
      Reads(<<"x", " ", "+", "=", " ", "a", "-", "1">>,
            Call2("ADD", X, Call2("SUB", NVar("a"), N(1)))),
      Reads(<<"x", "%", "=", "2">>, Call2("MOD", X, N(2))),
      Reads(<<"x", "=", "a", "<", "=", ">", "b">>, Call2("EQUIV", NVar("a"), NVar("b"))),
      Refused(<<"x", "*", "*", "=", "2">>), Refused(<<"x", "=", " ">>), Refused(<<"=", "a">>),
      Refused(<<"a", "<", "=", ">", "b", "=", "c">>), Refused(<<"a", ";", "b", "=", "c">>),
      Refused(<<"&sigma", "x", "=", "0", " ", "to", " ", "3", " ", ".", "x">>),
      Refused(Sp(<<"(", "&sigma", "x", "=", "0", "to", "3", ".", "x", ")">>)),
      Reads(<<"x_i">>, NVar("x_i")) }

(* Every short line of these pieces, for the two scanners.                 *)
Alphabet == {"x", "1", "=", "<", ">", "-", " ", ";"}
ScanLines == {Reads(t, NotStated) : t \in UNION {[1..n -> Alphabet] : n \in 0..4}}

MCLines == OperatorLines \cup FormLines \cup ScanLines

-----------------------------------------------------------------------------
Leaves == {FreeVar(x) : x \in {"a", "x0", "sigma"}}
          \cup {Number(x) : x \in {Int2Num(1), Int2Num(-1), Ratio(1, 1, 2)}}
RECURSIVE TermsOf(_, _)
TermsOf(n, d) ==
    IF n = 0 THEN {}
    ELSE Leaves \cup {BoundVar(i) : i \in 0..(d - 1)}
         \cup {Lam(t) : t \in TermsOf(n - 1, d + 1)}
         \cup UNION {{App(f, t) : f \in TermsOf(m, d), t \in TermsOf(n - 1 - m, d)}
                        : m \in 1..(n - 2)}

Scott(h, t) == Lam(Lam(App2(BoundVar(1), h, t)))
ScottNil == Lam(Lam(BoundVar(0)))
Lists == {Scott(h, t) : h \in TermsOf(2, 2), t \in {ScottNil, BoundVar(0), FreeVar("a")}}
         \cup {Scott(FreeVar("a"), Scott(Number(Int2Num(1)), ScottNil)), ScottNil}
MCValues ==
    TermsOf(4, 0) \cup Lists
    \cup {App(FreeVar("a"), l) : l \in Lists} \cup {App(l, FreeVar("a")) : l \in Lists}
    \cup {Lam(l) : l \in Lists} \cup {Lam(Lam(Lam(App(FreeVar("a"), Scott(BoundVar(2), ScottNil)))))}
    \cup {App2(FreeVar("a"), App(FreeVar("b"), Number(Int2Num(2))), Lam(Lam(App(BoundVar(1), BoundVar(0)))))}
    \cup {Number(Infinity), Number(NaN), Number(Negate(Infinity)), Number(Negate(Int2Num(0))),
          FreeVar("nan"), App(FreeVar("a"), Number(Infinity))}

(* What is printed is a text.                                              *)
IsText(s) == s \in Seq({s[n] : n \in DOMAIN s})
ASSUME ValuesPrintAsTexts == \A v \in Values : IsText(Printed(v))
ASSUME TreesPrintAsTexts ==
    \A l \in Lines : LET t == ParseTree(Trim(l.text))
                     IN  t # NoTree => IsText(Printed(LowerTree(t)))

(* What a text can say again: no list at a place where it is written as    *)
(* one, no negative number, no NaN, no word the lexer takes, and no symbol *)
(* of the name a binder around it is given.                                *)
RECURSIVE Plain(_, _, _)
Plain(v, d, inRow) ==
    CASE ConsShape(v) /\ ~inRow -> FALSE
      [] IsLam(v) /\ (inRow \/ ~ConsShape(v)) -> Plain(v.body, d + 1, TRUE)
      [] IsApp(v)  -> Plain(v.fn, d, FALSE) /\ Plain(v.arg, d, FALSE)
      [] IsFree(v) -> /\ WordToken(v.name).kind = "ident"
                      /\ v.name \notin {NameForDepth(i) : i \in 0..(d - 1)}
      [] IsNum(v)  -> v.value # NaN /\ v.value.s = 1
      [] IsVar(v)  -> TRUE

(* A printed value is read back as itself exactly if it is plain           *)
(* (render_value, render_scott_list, against lexer.c and parser.c).        *)
ReadsBack ==
    shown # Null =>
        /\ phase = "value" => (value = shown) = Plain(shown, 0, FALSE)
        /\ phase \in {"skipped", "rejected"} => ~Plain(shown, 0, FALSE)

-----------------------------------------------------------------------------
(* README.md, the order of the connectives: <-> binds tighter than <=>.    *)
DocumentedOps ==
    [BinaryOps EXCEPT !["EQUIV"].rank = 0]
DocumentedLines ==
    {Reads(Joined(Written(e, 0, FALSE, DocumentedOps), FALSE), TreeOf(e)) :
        e \in {Bin(l, A, Bin(r, B, C)) : l, r \in {"EQUIV", "IFF", "IMP", "OR", "AND"}}
             \cup {Bin(l, Bin(r, A, B), C) : l, r \in {"EQUIV", "IFF", "IMP", "OR", "AND"}}}
NoValues == {}

BindsAsDocumented == phase \in {"tree", "value"} => tree = meant
=============================================================================
