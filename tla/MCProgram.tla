----------------------------- MODULE MCProgram -----------------------------
(***************************************************************************)
(* TLC instances of Program, and what its definitions are meant to mean.   *)
(***************************************************************************)
EXTENDS Program, Lowering

MCLetters ==
    ("x_i" :> <<"x", "_", "i">>) @@ ("x_1" :> <<"x", "_", "1">>)
    @@ ("x_1_i" :> <<"x", "_", "1", "_", "i">>) @@ ("x_ab" :> <<"x", "_", "a", "b">>)
    @@ ("_1" :> <<"_", "1">>) @@ ("x&_1&_2" :> <<"x", "&_1", "&_2">>)
    @@ ("&_i" :> <<"&_i">>) @@ ("&_1&_0" :> <<"&_1", "&_0">>)
    @@ ("x&_iy" :> <<"x", "&_i", "y">>) @@ ("ARGVAL_31" :> <<"ARGVAL", "_", "3", "1">>)

(* What the names with subscripts are short for.                           *)
SubTree(base, index) == NApp2(V("sub"), base, index)
Num(n) == Number(Int2Num(n))
LongForm ==
    ("x_i" :> SubTree(V("x"), V("i"))) @@ ("x_1" :> SubTree(V("x"), Num(1)))
    @@ ("x_1_i" :> SubTree(SubTree(V("x"), Num(1)), V("i")))
    @@ ("x&_1&_2" :> SubTree(V("x"), Num(12)))
    @@ ("&_i" :> V("i")) @@ ("&_1&_0" :> Num(10))
    @@ ("ARGVAL_31" :> SubTree(V("ARGVAL"), Num(31)))

LowerProgramTree(t, vals) == LowerAst(t, <<>>, vals)

(* The trees that are names, with nothing, something else, or the name     *)
(* itself lowered before.                                                  *)
ASSUME NamesAreReferences ==
    \A x \in DOMAIN MCLetters \cup {"x", "A"} :
        \A names \in UNION {[1..k -> {x, "y"}] : k \in 0..3} :
            NameRule(x, [i \in DOMAIN names |-> [name |-> names[i], value |-> Number(Int2Num(i))]])

-----------------------------------------------------------------------------
(* What is lowered so far has no dangling index, whatever binders a        *)
(* definition is copied under.                                             *)
NoIndexDangles ==
    /\ \A i \in 1..Len(values) : Closed(values[i].value)
    /\ phase = "lowered" => Closed(result)

(* The program as one term: definitions as nested bindings around the      *)
(* expression, (\A.(\B. expr) b) a, contracted from the outside by         *)
(* substitution on named terms.                                            *)
RECURSIVE Nameless(_, _)
Nameless(t, env) ==
    CASE t.kind = "nvar" ->
            IF \E i \in 1..Len(env) : env[i] = t.x
            THEN BoundVar((CHOOSE i \in 1..Len(env) :
                             env[i] = t.x /\ \A j \in 1..(i - 1) : env[j] # t.x) - 1)
            ELSE IF t.x \in DOMAIN LongForm THEN Nameless(LongForm[t.x], env)
            ELSE FreeVar(t.x)
      [] t.kind = "nlam" -> Lam(Nameless(t.body, <<t.x>> \o env))
      [] t.kind = "napp" -> App(Nameless(t.fn, env), Nameless(t.arg, env))
      [] OTHER -> t

RECURSIVE LetForm(_, _), Contracted(_, _)
LetForm(ds, env) ==
    IF ds = <<>> THEN Nameless(expr, env)
    ELSE App(Lam(LetForm(Tail(ds), <<ds[1].name>> \o env)), Nameless(ds[1].body, env))
Contracted(t, n) == IF n = 0 THEN t ELSE Contracted(NamedBeta(t.fn.body, t.arg), n - 1)

Meaning == Contracted(LetForm(defs, <<>>), Len(defs))

(* Definitions mean what nested bindings mean: a name is the definition    *)
(* above it, a binder of the same name hides it, and no binder around a    *)
(* use captures a symbol of the definition.                                *)
DefinitionsAreBindings == phase = "lowered" => result = Meaning

RECURSIVE SymbolsIn(_)
SymbolsIn(t) ==
    CASE IsFree(t) -> {t.name}
      [] IsLam(t)  -> SymbolsIn(t.body)
      [] IsApp(t)  -> SymbolsIn(t.fn) \cup SymbolsIn(t.arg)
      [] OTHER     -> {}

(* A program is refused for a forward reference exactly if a name that it  *)
(* defines further down, or in terms of itself, is left in what it means,  *)
(* wherever in the term (find_unresolved_def_ref).                         *)
RefusedIfDangling ==
    phase = "lowered" \/ error.kind = "forward" =>
        (error.kind = "forward")
            = (SymbolsIn(Meaning) \cap {defs[i].name : i \in 1..Len(defs)} # {})

-----------------------------------------------------------------------------
Bodies == { V("y"), V("B"), NLam("y", NApp(V("A"), V("y"))),
            NLam("i", NApp(V("x_i"), V("B"))), NLam("A", V("A")) }
Exprs  == { V("A"), NLam("y", NApp2(V("B"), V("x_1"), V("y"))),
            NLam("K", NApp(V("K"), V("I"))), NApp2(V("AND"), V("ARG1"), V("A")),
            NLam("x", NLam("x", V("x_i"))),
          NLam("x", NLam("i", NApp2(NApp2(V("x_1_i"), V("x&_1&_2"), V("&_i")),
                                    NApp2(V("&_1&_0"), V("x_ab"), V("_1")), V("x&_iy")))) }

WellFormed ==
    UNION { { <<DefLine("A", a), BlankLine, DefLine("B", b), ExprLine(e)>>,
              <<DefLine("B", b), ExprLine(e), DefLine("A", a)>> } :
            a \in Bodies, b \in Bodies, e \in Exprs }
Malformed ==
    { <<BlankLine>>, <<DefLine("A", V("y"))>>,
      <<ExprLine(V("y")), DefLine("A", V("y")), ExprLine(V("A"))>>,
      <<DefLine("A", V("y")), Line("bad", "", NoTree), ExprLine(V("A"))>>,
      <<ExprLine(V("y")), ExprLine(V("y")), Line("bad", "", NoTree)>>,
      <<DefLine("A", V("y")), DefLine("A", V("B")), DefLine("A", V("y"))>>,
      <<ExprLine(V("I")), BlankLine, DefLine("AND", V("K"))>>,
      <<DefLine("ARG1", V("y")), ExprLine(V("ARG1"))>>,
      <<Line("sub", "A", V("y")), ExprLine(V("A"))>>,
      <<Line("add", "A", V("A")), ExprLine(NLam("A", V("A")))>> }
     \cup { <<Line(op, "A", V("y")), ExprLine(V("y"))>> : op \in {"mul", "div", "mod"} }

MCSources == WellFormed \cup Malformed
MCCalls == { [name |-> "<eval>", args |-> a] :
               a \in { <<>>, <<"I", "ARG1">>, <<"x_1", "A", "ARGS">>, <<"1", "">>, <<"a", "v">> } }
             \cup { [name |-> "v", args |-> a] : a \in { <<>>, <<"to">> } }
MCArgNames == <<"ARG1", "ARG2", "ARG3">>
MCHex == ("1" :> <<"3", "1">>) @@ ("" :> <<>>)
         @@ ("<eval>" :> <<"3", "C", "6", "5", "7", "6", "6", "1", "6", "C", "3", "E">>)
MCReserved == {"v", "to", "in"}

NoArgs      == { [name |-> "<eval>", args |-> <<>>] }

(* \b i.b for sub.                                                         *)
SubSources  == { <<DefLine("sub", Fun2("b", "i", V("b"))), ExprLine(V("x_1"))>> }

ExampleFour ==
    { <<DefLine("SHOW", NLam("b", NApp2(V("b"), V("True"), V("False")))),
        DefLine("NOT", NLam("p", NApp2(V("p"), V("FALSE"), V("TRUE")))),
        DefLine("AND", Fun2("p", "q", NApp2(V("p"), V("q"), V("FALSE")))),
        DefLine("OR", Fun2("p", "q", NApp2(V("p"), V("TRUE"), V("q")))),
        DefLine("IMP", Fun2("p", "q", NApp2(V("OR"), NApp(V("NOT"), V("p")), V("q")))),
        DefLine("IFF", Fun2("p", "q", NApp2(V("AND"), NApp2(V("IMP"), V("p"), V("q")),
                                                      NApp2(V("IMP"), V("q"), V("p"))))),
        BlankLine,
        ExprLine(NApp(V("SHOW"), NApp2(V("AND"), V("TRUE"), NApp(V("NOT"), V("FALSE")))))>> }
=============================================================================
