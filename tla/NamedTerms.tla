----------------------------- MODULE NamedTerms -----------------------------
(***************************************************************************)
(* The textbook substitution on lambda terms with names, as the reference  *)
(* for what the de Bruijn terms of module Terms compute.                   *)
(***************************************************************************)
EXTENDS Terms, Trees

(* A nameless term with each binder named by its place in it, so that all  *)
(* binders are different and substitution may be naive.                    *)
Outer(i) == <<"outer", i>>      \* the name of the i-th binder around the term

RECURSIVE Named(_, _, _)
Named(t, env, place) ==
    CASE IsVar(t) -> NVar(IF t.index < Len(env) THEN env[t.index + 1]
                          ELSE Outer(t.index - Len(env)))
      [] IsLam(t) -> NLam(place, Named(t.body, <<place>> \o env, Append(place, "b")))
      [] IsApp(t) -> NApp(Named(t.fn, env, Append(place, "f")),
                          Named(t.arg, env, Append(place, "a")))
      [] OTHER    -> t

RECURSIVE Unnamed(_, _)
Unnamed(t, env) ==
    CASE t.kind = "nvar" ->
            IF \E i \in 1..Len(env) : env[i] = t.x
            THEN BoundVar((CHOOSE i \in 1..Len(env) :
                             env[i] = t.x /\ \A j \in 1..(i - 1) : env[j] # t.x) - 1)
            ELSE BoundVar(Len(env) + t.x[2])
      [] t.kind = "nlam" -> Lam(Unnamed(t.body, <<t.x>> \o env))
      [] t.kind = "napp" -> App(Unnamed(t.fn, env), Unnamed(t.arg, env))
      [] OTHER -> t

RECURSIVE Replace(_, _, _)
Replace(t, x, s) ==
    CASE t.kind = "nvar" -> IF t.x = x THEN s ELSE t
      [] t.kind = "nlam" -> NLam(t.x, Replace(t.body, x, s))
      [] t.kind = "napp" -> NApp(Replace(t.fn, x, s), Replace(t.arg, x, s))
      [] OTHER -> t

(* (\x.b) a as b with a for x. *)
NamedBeta(body, arg) ==
    LET redex == Named(App(Lam(body), arg), <<>>, <<"r">>)
    IN  Unnamed(Replace(redex.fn.body, redex.fn.x, redex.arg), <<>>)
=============================================================================
