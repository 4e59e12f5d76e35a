----------------------------- MODULE ValueNodes -----------------------------
(***************************************************************************)
(* The values of lambdaScript: lambda terms with de Bruijn indices, free   *)
(* symbols and numbers (value.h), and their constructors (value.c).        *)
(***************************************************************************)

(* The NULL pointer, which every constructor passes on.                    *)
Null == [kind |-> "null"]

BoundVar(i) == [kind |-> "var", index |-> i]
FreeVar(s)  == [kind |-> "free", name |-> s]
Number(x)   == [kind |-> "num", value |-> x]
Lam(b)      == IF b = Null THEN Null ELSE [kind |-> "lam", body |-> b]
App(f, a)   == IF f = Null \/ a = Null THEN Null
               ELSE [kind |-> "app", fn |-> f, arg |-> a]

App2(f, a, b) == App(App(f, a), b)

IsVar(t)  == t.kind = "var"
IsFree(t) == t.kind = "free"
IsNum(t)  == t.kind = "num"
IsLam(t)  == t.kind = "lam"
IsApp(t)  == t.kind = "app"
=============================================================================
