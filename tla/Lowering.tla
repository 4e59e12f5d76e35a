------------------------------ MODULE Lowering ------------------------------
(***************************************************************************)
(* From trees with names to de Bruijn terms: lower_ast_with_defs and       *)
(* lower_name_reference of value.c.                                        *)
(***************************************************************************)
EXTENDS NamedTerms, NameForms, TLC
LOCAL INSTANCE SequencesExt

DigitValue(c) == CHOOSE n \in 0..9 : Digits[n + 1] = c
DecimalOf(ds) == Number(Int2Num(FoldLeft(LAMBDA n, d : 10 * n + DigitValue(d), 0, ds)))

(* lower_name_reference: the innermost binder of that name; else the       *)
(* newest definition of that name lowered so far, as a copy of its value;  *)
(* else a subscript (try_lower_subscript_name); else a free symbol.  env   *)
(* is the SymTable, innermost binder last.                                 *)
Binders(x, env) == {i \in 1..Len(env) : env[i] = x}

(* Mutant of IndexOf: binders counted from one.                            *)
IndexFromOne(x, env) == Len(env) - Latest(Binders(x, env)) + 1

IndexOf(x, env) == Len(env) - Latest(Binders(x, env))

RECURSIVE LowerAst(_, _, _), LowerName(_, _, _), LowerIndex(_, _, _)

LowerIndex(cs, env, vals) ==
    IF AllIn(cs, ToSet(Digits)) THEN DecimalOf(cs) ELSE LowerName(Spelled(cs), env, vals)

LowerName(x, env, vals) ==
    LET sub == Subscript(x) IN
    CASE Binders(x, env) # {} -> BoundVar(IndexOf(x, env))
      [] Binders(x, env) = {} /\ Lowered(x, vals) # {} -> vals[Latest(Lowered(x, vals))].value
      [] Binders(x, env) \cup Lowered(x, vals) = {} /\ sub.index = <<>> -> FreeVar(x)
      [] Binders(x, env) \cup Lowered(x, vals) = {} /\ sub.index # <<>> /\ sub.base = <<>> ->
            LowerIndex(sub.index, env, vals)
      [] OTHER -> App2(FreeVar("sub"), LowerName(Spelled(sub.base), env, vals),
                                       LowerIndex(sub.index, env, vals))

LowerAst(t, env, vals) ==
    CASE t.kind = "nvar" -> LowerName(t.x, env, vals)
      [] t.kind = "nlam" -> Lam(LowerAst(t.body, Append(env, t.x), vals))
      [] t.kind = "napp" -> App(LowerAst(t.fn, env, vals), LowerAst(t.arg, env, vals))
      [] OTHER -> t

(* Mutant of FreeSymbolsOf: the search stops at the function.              *)
RECURSIVE HeadSymbols(_)
HeadSymbols(v) ==
    CASE IsFree(v) -> <<v.name>>
      [] IsLam(v)  -> HeadSymbols(v.body)
      [] IsApp(v)  -> HeadSymbols(v.fn)
      [] OTHER     -> <<>>

(* find_unresolved_def_ref: the order in which it meets the free symbols   *)
(* of a lowered term.                                                      *)
RECURSIVE FreeSymbolsOf(_)
FreeSymbolsOf(v) ==
    CASE IsFree(v) -> <<v.name>>
      [] IsLam(v)  -> FreeSymbolsOf(v.body)
      [] IsApp(v)  -> FreeSymbolsOf(v.fn) \o FreeSymbolsOf(v.arg)
      [] OTHER     -> <<>>
=============================================================================
