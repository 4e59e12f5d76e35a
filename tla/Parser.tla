------------------------------- MODULE Parser -------------------------------
(***************************************************************************)
(* The expression parser of parser.c, a recursive descent with one token   *)
(* of lookahead.  A parse takes the tokens and the place of the current    *)
(* one, and yields the tree and the place after it, or NoParse.  To put    *)
(* the lexer back where it was is to go on from an earlier place.          *)
(***************************************************************************)
EXTENDS Lexer
LOCAL INSTANCE SequencesExt

Parsed(tree, at) == [tree |-> tree, at |-> at]
NoParse == Parsed(NoTree, 0)
Failed(p) == p.at = 0

(* What p stands for, once the parse is known to have gone through.        *)
As(p, tree) == IF Failed(p) THEN NoParse ELSE Parsed(tree, p.at)

Call1(f, a)       == NApp(NVar(f), a)
Call2(f, a, b)    == NApp2(NVar(f), a, b)
Call3(f, a, b, c) == NApp(Call2(f, a, b), c)

(* The binary and prefix operators from the loosest to the tightest, how   *)
(* each level groups, and the function an operator becomes.                *)
Level(shape, ops) == [shape |-> shape, ops |-> ops]

Levels ==
    << Level("left",   [iff |-> "IFF", equiv |-> "EQUIV"]),
       Level("right",  [implies |-> "IMP"]),
       Level("left",   [or |-> "OR"]),
       Level("left",   [and |-> "AND"]),
       Level("prefix", [not |-> "NOT"]),
       Level("left",   [in |-> "elem", contains |-> "contains"]),
       Level("left",   [plus |-> "ADD", minus |-> "SUB"]),
       Level("left",   [star |-> "MUL", slash |-> "DIV", percent |-> "MOD"]),
       Level("right",  [power |-> "POW"]),
       Level("prefix", [minus |-> "NEG", sqrt |-> "SQRT", ln |-> "LN"]) >>

AtomStarts == {"ident", "number", "lparen", "lambda", "sigma", "integral", "limit",
               "forall", "exists"}
MaxIndices == 16

RECURSIVE ParseTerm(_, _), ParseLevel(_, _, _), MoreOperands(_, _, _),
          ParseAtom(_, _), MoreArguments(_, _), MoreIndices(_, _, _)

-----------------------------------------------------------------------------
(* The token after p is one of these kinds, and a term follows it.         *)
After(ts, p, kinds) ==
    IF Failed(p) \/ ts[p.at].kind \notin kinds THEN NoParse
    ELSE ParseTerm(ts, p.at + 1)

(* The variable a binder names, after the token that opens the binder.     *)
Binder(ts, at) ==
    IF ts[at + 1].kind = "ident" THEN Parsed(ts[at + 1].text, at + 2) ELSE NoParse

(* \x y . body *)
ParseAbstraction(ts, at) ==
    LET dot    == Min({i \in (at + 1)..Len(ts) : ts[i].kind # "ident"})
        params == [i \in 1..(dot - at - 1) |-> ts[at + i].text]
        body   == After(ts, Parsed(NoTree, dot), {"dot"})
    IN  IF params = <<>> THEN NoParse ELSE As(body, FoldRight(NLam, params, body.tree))

(* Sigma x = a to b . body, and the same for an integral.                  *)
ParseBounded(ts, at, name) ==
    LET x     == Binder(ts, at)
        lower == After(ts, x, {"equal"})
        upper == After(ts, lower, {"to"})
        body  == After(ts, upper, {"dot"})
    IN  As(body, Call3(name, lower.tree, upper.tree, NLam(x.tree, body.tree)))

(* lim x -> a . body *)
ParseLimit(ts, at) ==
    LET x     == Binder(ts, at)
        point == After(ts, x, {"implies"})
        body  == After(ts, point, {"dot"})
    IN  As(body, Call2("limit", point.tree, NLam(x.tree, body.tree)))

(* forall x in S : body; without a domain the booleans.                    *)
ParseQuantifier(ts, at, name) ==
    LET x      == Binder(ts, at)
        domain == IF ~Failed(x) /\ ts[x.at].kind = "in" THEN After(ts, x, {"in"})
                  ELSE As(x, NVar("BOOLS"))
        body   == After(ts, domain, {"colon", "dot", "comma"})
    IN  As(body, Call2(name, domain.tree, NLam(x.tree, body.tree)))

-----------------------------------------------------------------------------
(* make_nary_subscript_call: the name without the underscores that end it. *)
SubscriptBase(x) ==
    LET starts == {n \in 1..Len(x) : \A m \in n..Len(x) : SubSeq(x, m, m) = "_"}
    IN  IF starts = {} \/ 1 \in starts THEN x ELSE SubSeq(x, 1, Min(starts) - 1)

MoreIndices(ts, p, count) ==
    LET index == ParseTerm(ts, p.at + 1)
    IN  CASE Failed(p) -> p
          [] ~Failed(p) /\ ts[p.at].kind = "comma" /\ count < MaxIndices ->
                MoreIndices(ts, As(index, NApp(p.tree, index.tree)), count + 1)
          [] ~Failed(p) /\ ts[p.at].kind = "rparen" -> Parsed(p.tree, p.at + 1)
          [] OTHER -> NoParse

(* A name before a parenthesis is first tried as x(i, j); unless a comma   *)
(* is found the attempt is undone, and the name stands alone.  Past the    *)
(* comma there is no way back.                                             *)
ParseName(ts, at) ==
    LET x     == ts[at].text
        first == IF ts[at + 1].kind = "lparen" THEN ParseTerm(ts, at + 2) ELSE NoParse
    IN  IF Failed(first) \/ ts[first.at].kind # "comma"
        THEN Parsed(NVar(x), at + 1)
        ELSE MoreIndices(ts, As(first, Call2("sub", NVar(SubscriptBase(x)), first.tree)), 1)

ParseGroup(ts, at) ==
    LET inner == ParseTerm(ts, at + 1)
    IN  IF Failed(inner) \/ ts[inner.at].kind # "rparen" THEN NoParse
        ELSE Parsed(inner.tree, inner.at + 1)

ParseAtom(ts, at) ==
    CASE ts[at].kind = "ident"    -> ParseName(ts, at)
      [] ts[at].kind = "number"   -> Parsed(Number(ts[at].value), at + 1)
      [] ts[at].kind = "lparen"   -> ParseGroup(ts, at)
      [] ts[at].kind = "lambda"   -> ParseAbstraction(ts, at)
      [] ts[at].kind = "sigma"    -> ParseBounded(ts, at, "sigma")
      [] ts[at].kind = "integral" -> ParseBounded(ts, at, "integral")
      [] ts[at].kind = "limit"    -> ParseLimit(ts, at)
      [] ts[at].kind = "forall"   -> ParseQuantifier(ts, at, "forall")
      [] ts[at].kind = "exists"   -> ParseQuantifier(ts, at, "exists")
      [] OTHER                    -> NoParse

MoreArguments(ts, fn) ==
    IF Failed(fn) \/ ts[fn.at].kind \notin AtomStarts THEN fn
    ELSE LET arg == ParseAtom(ts, fn.at)
         IN  MoreArguments(ts, As(arg, NApp(fn.tree, arg.tree)))

ParseApplication(ts, at) == MoreArguments(ts, ParseAtom(ts, at))

-----------------------------------------------------------------------------
ParsePrefix(ts, level, at) ==
    LET op      == ts[at].kind
        operand == ParseLevel(ts, level, at + 1)
    IN  IF op \notin DOMAIN Levels[level].ops THEN ParseLevel(ts, level + 1, at)
        ELSE As(operand, Call1(Levels[level].ops[op], operand.tree))

MoreOperands(ts, level, left) ==
    IF Failed(left) \/ ts[left.at].kind \notin DOMAIN Levels[level].ops THEN left
    ELSE LET name  == Levels[level].ops[ts[left.at].kind]
             right == ParseLevel(ts, level + 1, left.at + 1)
         IN  MoreOperands(ts, level, As(right, Call2(name, left.tree, right.tree)))

(* Also the mutant of ParseRight: every operator groups to the left.       *)
ParseLeft(ts, level, at) == MoreOperands(ts, level, ParseLevel(ts, level + 1, at))

(* One operator at most, and on its right the same level again.            *)
ParseRight(ts, level, at) ==
    LET left == ParseLevel(ts, level + 1, at)
        name == Levels[level].ops[ts[left.at].kind]
        right == ParseLevel(ts, level, left.at + 1)
    IN  IF Failed(left) \/ ts[left.at].kind \notin DOMAIN Levels[level].ops THEN left
        ELSE As(right, Call2(name, left.tree, right.tree))

ParseLevel(ts, level, at) ==
    CASE level > Len(Levels) -> ParseApplication(ts, at)
      [] level <= Len(Levels) /\ Levels[level].shape = "prefix" -> ParsePrefix(ts, level, at)
      [] level <= Len(Levels) /\ Levels[level].shape = "left"   -> ParseLeft(ts, level, at)
      [] level <= Len(Levels) /\ Levels[level].shape = "right"  -> ParseRight(ts, level, at)

ParseTerm(ts, at) ==
    IF ts[at].kind = "lambda" THEN ParseAbstraction(ts, at) ELSE ParseLevel(ts, 1, at)

(* parser_parse_expr: one term, and nothing after it.                      *)
ParseExpr(text) ==
    LET ts == Tokens(text)
        p  == ParseTerm(ts, 1)
    IN  IF ~Failed(p) /\ ts[p.at].kind = "eof" THEN p.tree ELSE NoTree

(* line_is_math_binder_expr                                                *)
LineIsMathBinder(text) ==
    LET ts == Tokens(text)
    IN  ts[1].kind \in {"sigma", "integral"} /\ ts[2].kind = "ident" /\ ts[3].kind = "equal"
=============================================================================
