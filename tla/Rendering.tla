----------------------------- MODULE Rendering -----------------------------
(***************************************************************************)
(* How value.c writes a value: value_to_string and render_value.  Texts    *)
(* are sequences of pieces, as in module Lexer.                            *)
(***************************************************************************)
EXTENDS Terms, TLC

(* sb_append_double; %.15g is enough for every number of an instance, and  *)
(* numbers have at most one decimal here.                                  *)
NumberText(x) ==
    LET sign == IF x.s = -1 THEN <<"-">> ELSE <<>>
        whole == ToString(x.n \div x.d)
    IN  CASE x = NaN  -> <<"nan">>
          [] IsInf(x) -> Append(sign, "&infinity")
          [] x # NaN /\ ~IsInf(x) /\ x.d = 1 -> Append(sign, whole)
          [] OTHER    -> sign \o <<whole, ".", ToString(((10 * x.n) \div x.d) % 10)>>

NameForDepth(depth) == "x" \o ToString(depth)

(* value_is_scott_nil_shape and value_is_scott_cons_shape: two binders     *)
(* around the inner variable, or around the outer one with two arguments.  *)
UnderTwo(v) == IsLam(v) /\ IsLam(v.body)
NilShape(v) == UnderTwo(v) /\ v.body.body = BoundVar(0)
ConsShape(v) ==
    /\ UnderTwo(v)
    /\ IsApp(v.body.body)
    /\ IsApp(v.body.body.fn)
    /\ v.body.body.fn.fn = BoundVar(1)
ConsHead(v) == v.body.body.fn.arg
ConsTail(v) == v.body.body.arg

Parens(needed, text) == IF needed THEN <<"(">> \o text \o <<")">> ELSE text

RECURSIVE RenderValue(_, _, _), RenderScottList(_, _), RenderLam(_, _, _)

(* Mutant of RenderArgument: an argument has the precedence of a function. *)
RenderBareArgument(v, env) == RenderValue(v, env, 2)

RenderArgument(v, env) == RenderValue(v, env, 3)

(* A list of any shape loses its two binders: its parts are written under  *)
(* the names around it.                                                    *)
RenderScottList(v, env) ==
    IF NilShape(v) THEN <<"nil">>
    ELSE LET tail == ConsTail(v)
         IN  <<"cons", " ">> \o RenderArgument(ConsHead(v), env) \o <<" ">>
             \o Parens(TRUE, IF NilShape(tail) \/ ConsShape(tail)
                             THEN RenderScottList(tail, env)
                             ELSE RenderValue(tail, env, 0))

(* All the binders in a row, each a new name, then what is under them.     *)
RenderLam(v, env, names) ==
    IF IsLam(v)
    THEN LET x == NameForDepth(Len(env))
         IN  RenderLam(v.body, Append(env, x),
                       names \o (IF names = <<>> THEN <<x>> ELSE <<" ", x>>))
    ELSE <<"\\">> \o names \o <<".">> \o RenderValue(v, env, 1)

RenderValue(v, env, prec) ==
    CASE ConsShape(v) -> RenderScottList(v, env)
      [] IsVar(v)     -> IF v.index >= Len(env) THEN <<"v" \o ToString(v.index)>>
                         ELSE <<env[Len(env) - v.index]>>
      [] IsFree(v)    -> <<v.name>>
      [] IsNum(v)     -> NumberText(v.value)
      [] IsLam(v) /\ ~ConsShape(v) -> Parens(prec > 1, RenderLam(v, env, <<>>))
      [] IsApp(v)     -> Parens(prec > 2, RenderValue(v.fn, env, 2) \o <<" ">>
                                          \o RenderArgument(v.arg, env))

(* value_to_string *)
ValueToString(v) == RenderValue(v, <<>>, 0)
=============================================================================
