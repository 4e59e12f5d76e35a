------------------------------- MODULE Trees -------------------------------
(***************************************************************************)
(* Lambda terms with names, the trees of the parser (ast.h).               *)
(***************************************************************************)
EXTENDS Naturals, Sequences

NVar(x)    == [kind |-> "nvar", x |-> x]
NLam(x, b) == [kind |-> "nlam", x |-> x, body |-> b]
NApp(f, a) == [kind |-> "napp", fn |-> f, arg |-> a]
NApp2(f, a, b) == NApp(NApp(f, a), b)
NoTree     == [kind |-> "no tree"]

(* The name made of these pieces.                                          *)
Spelled(pieces) ==
    LET upTo[k \in Nat] == IF k = 0 THEN "" ELSE upTo[k - 1] \o pieces[k]
    IN  upTo[Len(pieces)]
=============================================================================
